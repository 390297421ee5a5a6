-------------------------- MODULE BlackboardCourses --------------------------
(***************************************************************************)
(* The content half of the Blackboard client (blackboard/client.py).  An edX  *)
(* course is three objects in Blackboard: a course, a content item in it and  *)
(* a child of that item.  They are made by three requests; when the second or *)
(* the third fails, what has been made is taken back.  Any request may be     *)
(* refused, or be carried out and its answer lost.                            *)
(***************************************************************************)
EXTENDS Naturals, Sequences, SequencesExt

CONSTANTS
    BbVersions,       \* the payloads the course has had: 1 .. BbVersions
    BbMaxContents     \* bound: content items that may pile up

ASSUME BbCoursesAssumption == BbVersions \in Nat \ {0} /\ BbMaxContents \in Nat \ {0}

VARIABLES
    bbCourse,         \* the course in Blackboard: its payload, or 0
    bbContents,       \* the content items "edX Course Details", as they are listed
    bbCall            \* the client's call

bbCoursesVars == <<bbCourse, bbContents, bbCall>>

BbPayloads == 1 .. BbVersions
BbAnswers == {"ok", "notModified", "failed"}

BbCoursesTypeOK ==
    /\ bbCourse \in 0 .. BbVersions
    /\ Len(bbContents) <= BbMaxContents
    /\ \A n \in DOMAIN bbContents : bbContents[n] \in [payload : BbPayloads, child : BOOLEAN]
    /\ bbCall \in [op : {"create", "update", "delete"}, payload : BbPayloads, clean : BOOLEAN,
                   pc : {"course", "patch", "list", "unlist", "content", "child", "dropContent",
                         "dropCourse", "remove"} \cup BbAnswers]

BbCoursesInit ==
    /\ bbCourse = 0
    /\ bbContents = <<>>
    /\ bbCall = [op |-> "delete", payload |-> 1, clean |-> TRUE, pc |-> "failed"]

-----------------------------------------------------------------------------
(* Requests *)

BbGoto(pc) == bbCall' = [bbCall EXCEPT !.pc = pc]

\* An answer is lost, or a request to take something back is refused: what the call
\* leaves behind is not in its hands.  (clean is read by the properties only.)
BbUnclean(pc) == bbCall' = [bbCall EXCEPT !.pc = pc, !.clean = FALSE]

\* A request that changes the course and its contents: it is carried out and
\* answered, it is carried out and its answer lost, or it is refused.
BbRequest(course, contents, answered, lost, refused) ==
    \/ /\ bbCourse' = course /\ bbContents' = contents
       /\ answered \/ lost
    \/ refused /\ UNCHANGED <<bbCourse, bbContents>>

BbContent == [payload |-> bbCall.payload, child |-> FALSE]

\* The item the call has made is the last one.
BbWithoutLast == IF bbContents = <<>> THEN <<>> ELSE Front(bbContents)

BbBegin(op, v) ==
    /\ bbCall.pc \in BbAnswers
    /\ bbCall' = [op |-> op, payload |-> v, clean |-> TRUE,
                  pc |-> CASE op = "create" -> "course" [] op = "update" -> "patch" [] OTHER -> "remove"]
    /\ UNCHANGED <<bbCourse, bbContents>>

\* create: the course.  409: it is there already; nothing is created, the answer is 304.
BbPostCourse ==
    /\ bbCall.pc = "course"
    /\ IF bbCourse # 0
       THEN (BbGoto("notModified") \/ BbGoto("failed")) /\ UNCHANGED <<bbCourse, bbContents>>
       ELSE BbRequest(bbCall.payload, <<>>, BbGoto("content"), BbUnclean("failed"), BbGoto("failed"))

\* update: the course is looked for by its external id (404), and changed.
BbPatchCourse ==
    /\ bbCall.pc = "patch"
    /\ IF bbCourse = 0
       THEN BbGoto("failed") /\ UNCHANGED <<bbCourse, bbContents>>
       ELSE BbRequest(bbCall.payload, bbContents, BbGoto("list"), BbGoto("failed"), BbGoto("failed"))

\* update: its contents are listed; the last item with our title is removed.
BbListContents ==
    /\ bbCall.pc = "list"
    /\ BbGoto(IF bbContents = <<>> THEN "content" ELSE "unlist") \/ BbGoto("failed")
    /\ UNCHANGED <<bbCourse, bbContents>>

BbRemoveContent ==
    /\ bbCall.pc = "unlist"
    /\ BbRequest(bbCourse, BbWithoutLast, BbGoto("content"), BbGoto("failed"), BbGoto("failed"))

\* Fault: a content item that fails leaves the course behind.
BbPostContent_CourseKept ==
    /\ bbCall.pc = "content"
    /\ Len(bbContents) < BbMaxContents
    /\ BbRequest(bbCourse, Append(bbContents, BbContent),
                 BbGoto("child"), BbUnclean("failed"), BbGoto("failed"))

\* The content item.  When it fails, create takes the course back; update does not.
BbPostContent ==
    /\ bbCall.pc = "content"
    /\ Len(bbContents) < BbMaxContents
    /\ LET failed == IF bbCall.op = "create" THEN "dropCourse" ELSE "failed"
       IN  BbRequest(bbCourse, Append(bbContents, BbContent),
                     BbGoto("child"), BbUnclean("failed"), BbGoto(failed))

\* The item's child.  When it fails, the item is removed, and then create's course.
BbPostChild ==
    /\ bbCall.pc = "child"
    /\ BbRequest(bbCourse, [bbContents EXCEPT ![Len(bbContents)].child = TRUE],
                 BbGoto("ok"), BbUnclean("failed"), BbGoto("dropContent"))

BbDropContent ==
    /\ bbCall.pc = "dropContent"
    /\ BbRequest(bbCourse, BbWithoutLast,
                 BbGoto(IF bbCall.op = "create" THEN "dropCourse" ELSE "failed"),
                 BbUnclean("failed"), BbUnclean("failed"))

BbDropCourse ==
    /\ bbCall.pc = "dropCourse"
    /\ BbRequest(0, <<>>, BbGoto("failed"), BbUnclean("failed"), BbUnclean("failed"))

\* delete: a course that is not found is removed already, 200.
BbRemoveCourse ==
    /\ bbCall.pc = "remove"
    /\ IF bbCourse = 0
       THEN (BbGoto("ok") \/ BbGoto("failed")) /\ UNCHANGED <<bbCourse, bbContents>>
       ELSE BbRequest(0, <<>>, BbGoto("ok"), BbGoto("failed"), BbGoto("failed"))

BbStep ==
    BbPostCourse \/ BbPatchCourse \/ BbListContents \/ BbRemoveContent \/ BbPostContent
        \/ BbPostChild \/ BbDropContent \/ BbDropCourse \/ BbRemoveCourse

BbCoursesNext ==
    \/ \E op \in {"create", "update", "delete"}, v \in BbPayloads : BbBegin(op, v)
    \/ BbStep

BbCoursesSpec == BbCoursesInit /\ [][BbCoursesNext]_bbCoursesVars

-----------------------------------------------------------------------------
(* Properties *)

BbEnds(answers) == bbCall.pc \notin BbAnswers /\ bbCall'.pc \in answers

\* The three objects of a course keep in step, whatever fails: learners never find two items
\* "edX Course Details", since every update removes the one the call before it may have left
\* behind; an update that is answered has put its payload into the course, its item and the
\* item's child, a deletion has removed all of it; and a creation that fails leaves no course
\* behind, unless an answer was lost or taking it back failed too
\* (create_integration_content_for_course).
BbCourseIsWhole ==
    [][/\ Len(bbContents') <= 1
       /\ BbEnds({"ok"}) =>
             IF bbCall.op = "delete" THEN bbCourse' = 0
             ELSE /\ bbCourse' = bbCall.payload
                  /\ bbContents' = <<[payload |-> bbCall.payload, child |-> TRUE]>>
       /\ bbCall.op = "create" /\ BbEnds({"failed"}) /\ bbCall'.clean =>
             bbCourse' = 0 \/ bbCall.pc = "course"]_bbCoursesVars

\* A course that is there was created as a whole ("course already exists!", client.py).
\* Fails: a course whose creation could not be taken back is never completed.
BbExistingIsComplete ==
    [][BbEnds({"notModified"}) => bbContents' # <<>> /\ Last(bbContents').child]_bbCoursesVars
=============================================================================
