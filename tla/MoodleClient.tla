----------------------------- MODULE MoodleClient -----------------------------
(***************************************************************************)
(* The Moodle client (moodle/client.py).  Moodle answers 200 to every request *)
(* and puts errors into the body; a wrapper reads them, and on an expired     *)
(* token asks for a new one and makes the request again, once.  What comes of *)
(* that second request is returned as it is.                                   *)
(***************************************************************************)
EXTENDS Naturals

CONSTANTS MoodleVersions     \* the payloads the course has had: 1 .. MoodleVersions

ASSUME MoodleAssumption == MoodleVersions \in Nat \ {0}

VARIABLES
    moodleCourse,     \* the course in Moodle: its payload, or 0, and whether it is shown
    moodleGrade,      \* the grade Moodle has for the learner, or 0
    moodleToken,      \* whether Moodle still takes the client's token
    moodleCall        \* the client's call

moodleVars == <<moodleCourse, moodleGrade, moodleToken, moodleCall>>

MoodlePayloads == 1 .. MoodleVersions
MoodleOps == {"create", "update", "delete", "grade"}
MoodleAnswers == {"ok", "failed"}

\* blind: a repeated request was answered with an error that nobody read.
\* taken: a course name that is taken in Moodle was accepted as success.
\* zero: Moodle answered a grade with 0 and has not got it.
MoodleTypeOK ==
    /\ moodleCourse \in [payload : 0 .. MoodleVersions, visible : BOOLEAN]
    /\ moodleGrade \in 0 .. MoodleVersions
    /\ moodleToken \in BOOLEAN
    /\ moodleCall \in [op : MoodleOps, run : {"create", "update", "delete", "grade"},
                       payload : MoodlePayloads, show : BOOLEAN, creating : BOOLEAN, again : BOOLEAN,
                       blind : BOOLEAN, taken : BOOLEAN, zero : BOOLEAN,
                       pc : {"find", "post", "module", "user", "submit"} \cup MoodleAnswers]

MoodleInit ==
    /\ moodleCourse = [payload |-> 0, visible |-> FALSE]
    /\ moodleGrade = 0
    /\ moodleToken = TRUE
    /\ moodleCall = [op |-> "delete", run |-> "delete", payload |-> 1, show |-> FALSE, creating |-> FALSE,
                     again |-> FALSE, blind |-> FALSE, taken |-> FALSE, zero |-> FALSE, pc |-> "failed"]

-----------------------------------------------------------------------------
(* moodle_request_wrapper *)

MoodleGoto(pc) == moodleCall' = [moodleCall EXCEPT !.pc = pc]

\* A wrapped request goes well, or its error is raised; after a new token it goes well,
\* or its error is not seen.
MoodleWrapped(good, error, blind) ==
    \/ moodleToken /\ good /\ UNCHANGED moodleToken
    \/ error /\ UNCHANGED <<moodleCourse, moodleGrade, moodleToken>>
    \/ ~moodleToken /\ moodleToken' = TRUE /\ (good \/ (blind /\ UNCHANGED <<moodleCourse, moodleGrade>>))

MoodleUnchanged == UNCHANGED <<moodleCourse, moodleGrade>>

MoodleBegin(op, v) ==
    /\ moodleCall.pc \in MoodleAnswers
    /\ moodleCall' = [op |-> op, run |-> op, payload |-> v, show |-> FALSE, creating |-> op = "create",
                      again |-> FALSE, blind |-> FALSE, taken |-> FALSE, zero |-> FALSE, pc |-> "find"]
    /\ UNCHANGED <<moodleCourse, moodleGrade, moodleToken>>

-----------------------------------------------------------------------------
(* Content *)

\* create hands a course that exists to update, to be shown again; update, which looks
\* for it once more, hands one that does not exist to create, which looks again.
MoodleFoundCourse ==
    CASE moodleCall.run = "create" ->
             moodleCall' = [moodleCall EXCEPT !.run = "update", !.show = TRUE]
      [] moodleCall.run = "grade" -> MoodleGoto("module")
      [] OTHER -> MoodleGoto("post")

\* Nothing to delete: a Response is returned, which the transmitter cannot take apart.
MoodleFoundNone ==
    CASE moodleCall.run = "create" -> MoodleGoto("post")
      [] moodleCall.run = "update" -> moodleCall' = [moodleCall EXCEPT !.run = "create", !.creating = TRUE]
      [] OTHER -> MoodleGoto("failed")

\* _get_course_id: an error that is not seen has no courses in it.
MoodleFind ==
    /\ moodleCall.pc = "find"
    /\ MoodleWrapped(MoodleUnchanged /\ (IF moodleCourse.payload # 0 THEN MoodleFoundCourse ELSE MoodleFoundNone),
                     MoodleGoto("failed"), MoodleFoundNone)

\* What the request would make of the course: made, hidden, or changed and, for create,
\* shown again.
MoodleWanted ==
    [payload |-> moodleCall.payload,
     visible |-> CASE moodleCall.run = "create" -> TRUE
                   [] moodleCall.run = "delete" -> FALSE
                   [] OTHER -> moodleCourse.visible \/ moodleCall.show]

\* The course is made or changed.  Within create a name that is taken is a success; a
\* course that has been made meanwhile is refused for the same reason.
MoodlePost ==
    /\ moodleCall.pc = "post"
    /\ MoodleWrapped(
           /\ moodleCall.run = "create" <=> moodleCourse.payload = 0
           /\ moodleCourse' = MoodleWanted /\ UNCHANGED moodleGrade
           /\ \E pc \in MoodleAnswers : MoodleGoto(pc),
           \/ MoodleGoto("failed")
           \/ moodleCall.creating /\ moodleCall' = [moodleCall EXCEPT !.pc = "ok", !.taken = TRUE],
           moodleCall' = [moodleCall EXCEPT !.pc = "ok", !.blind = TRUE])

-----------------------------------------------------------------------------
(* Grades: _wrapped_create_course_completion *)

\* The activity that takes the grade, and then the learner's enrolment, are looked for
\* in lists; an error that is not seen is not a list: 404.
MoodleLookup(here, next) ==
    /\ moodleCall.pc = here
    /\ MoodleWrapped(MoodleUnchanged /\ (MoodleGoto(next) \/ MoodleGoto("failed")),
                     MoodleGoto("failed"), MoodleGoto("failed"))

MoodleModule == MoodleLookup("module", "user")
MoodleUser == MoodleLookup("user", "submit")

\* Fault: the grade's error is not read the first time either.
MoodleSubmit_Unread ==
    /\ moodleCall.pc = "submit"
    /\ \/ /\ moodleGrade' = moodleCall.payload
          /\ \E pc \in MoodleAnswers : MoodleGoto(pc)
          /\ UNCHANGED <<moodleCourse, moodleToken>>
       \/ /\ MoodleGoto("ok")
          /\ UNCHANGED <<moodleCourse, moodleGrade, moodleToken>>

\* The grade is posted by the wrapped method itself: an expired token makes it start
\* again, and then its answer is returned unread.  A 0 is a success, though it "doesn't
\* necessarily mean success".
MoodleSubmit ==
    /\ moodleCall.pc = "submit"
    /\ \/ /\ moodleToken /\ moodleGrade' = moodleCall.payload
          /\ \E pc \in MoodleAnswers : MoodleGoto(pc)
          /\ UNCHANGED <<moodleCourse, moodleToken>>
       \/ /\ moodleToken /\ moodleCall' = [moodleCall EXCEPT !.pc = "ok", !.zero = TRUE]
          /\ UNCHANGED <<moodleCourse, moodleGrade, moodleToken>>
       \/ /\ IF moodleCall.again
             THEN moodleCall' = [moodleCall EXCEPT !.pc = "ok", !.blind = TRUE]
             ELSE MoodleGoto("failed")
          /\ UNCHANGED <<moodleCourse, moodleGrade, moodleToken>>
       \/ /\ ~moodleToken /\ ~moodleCall.again /\ moodleToken' = TRUE
          /\ moodleCall' = [moodleCall EXCEPT !.pc = "find", !.again = TRUE]
          /\ UNCHANGED <<moodleCourse, moodleGrade>>

-----------------------------------------------------------------------------

\* Moodle expires the token; its administrators delete, hide and show the course.
MoodleExpires ==
    /\ moodleToken' = FALSE
    /\ UNCHANGED <<moodleCourse, moodleGrade, moodleCall>>

MoodleEdited(c) ==
    /\ moodleCourse.payload # 0
    /\ moodleCourse' = c
    /\ UNCHANGED <<moodleGrade, moodleToken, moodleCall>>

MoodleStep == MoodleFind \/ MoodlePost \/ MoodleModule \/ MoodleUser \/ MoodleSubmit

MoodleNext ==
    \/ \E op \in MoodleOps, v \in MoodlePayloads : MoodleBegin(op, v)
    \/ MoodleStep
    \/ MoodleExpires
    \/ MoodleEdited([payload |-> 0, visible |-> FALSE])
    \/ MoodleEdited([moodleCourse EXCEPT !.visible = ~@])

MoodleSpec == MoodleInit /\ [][MoodleNext]_moodleVars

-----------------------------------------------------------------------------
(* Properties *)

MoodleSucceeds(ops) ==
    moodleCall.op \in ops /\ moodleCall.pc \notin MoodleAnswers /\ moodleCall'.pc = "ok"

MoodleTrusted == ~moodleCall'.blind /\ ~moodleCall'.taken /\ ~moodleCall'.zero

\* A success means what it says, unless a course name was taken, the answer to a repeated
\* request was not read, or Moodle answered a grade it does not keep with 0: content that is
\* created is there and is shown, what is updated is up to date, what is deleted is hidden, and
\* a grade is the one Moodle has: no error that Moodle reported for it was overlooked
\* (moodle_request_wrapper, create_course_completion).
MoodleOkMeansDone ==
    [][MoodleTrusted =>
       /\ MoodleSucceeds({"create"}) => moodleCourse' = [payload |-> moodleCall.payload, visible |-> TRUE]
       /\ MoodleSucceeds({"update"}) => moodleCourse'.payload = moodleCall.payload
       /\ MoodleSucceeds({"delete"}) => ~moodleCourse'.visible
       /\ MoodleSucceeds({"grade"}) => moodleGrade' = moodleCall.payload]_moodleVars

\* A grade that was reported is the one Moodle has.  Fails: "Zero also doesn't necessarily mean
\* success, but we have nothing else to go on" (moodle_request_wrapper); and after a new token
\* the request is repeated, and an error in its answer is a success.
MoodleOkIsGraded ==
    [][MoodleSucceeds({"grade"}) => moodleGrade' = moodleCall.payload]_moodleVars

\* Fails: an update does not show a course that a deletion whose answer was lost hid.
MoodleUpdateShows ==
    [][MoodleTrusted /\ MoodleSucceeds({"update"}) => moodleCourse'.visible]_moodleVars
=============================================================================
