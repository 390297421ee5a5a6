---------------------------- MODULE MCLearnerData ----------------------------
(***************************************************************************)
(* LearnerData for TLC, and what the code's comments say that is not so.    *)
(***************************************************************************)
EXTENDS LearnerData, TLC

\* Channels that compare grades retransmit a completion when its grade changes
\* (channel_settings.py).  Fails: the record made first keeps the first grade.
RegradesReported ==
    \A e \in Enrollments, c \in Configs, g \in Grade :
        learner[e].completed /\ learner[e].consent /\ learner[e].grade = g
            ~> \/ last[<<e, c>>].completed /\ last[<<e, c>>].grade = g
               \/ ~learner[e].consent \/ learner[e].grade # g

WorkerSymmetry == Permutations(Workers)
=============================================================================
