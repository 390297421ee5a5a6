---------------------------- MODULE CanvasCourses ----------------------------
(***************************************************************************)
(* The content half of the Canvas client (canvas/client.py, canvas/utils.py): *)
(* how create, update and delete find a course in the customer's Canvas and   *)
(* which requests they then make.  One client at a time works for a customer  *)
(* (TaskLock); people edit the same courses in Canvas between its requests.   *)
(* A request may be refused, or be carried out and its answer lost.           *)
(***************************************************************************)
EXTENDS Naturals

CONSTANTS
    CanvasKeys,        \* integration ids: the keys of edX courses
    CanvasVersions     \* the payloads a course has had: 1 .. CanvasVersions

ASSUME CanvasCoursesAssumption == CanvasKeys # {} /\ CanvasVersions \in Nat \ {0}

VARIABLES
    canvasCourse,      \* Canvas's course for each key
    canvasCall         \* the client's call: what was asked, and where it is

canvasVars == <<canvasCourse, canvasCall>>

CanvasPayloads == 1 .. CanvasVersions

\* workflow_state, with "absent" for a course that cannot be found.
CanvasStates == {"absent", "unpublished", "available", "completed", "deleted"}

\* A call ends with a status below 400, with an error, or with (None, None).
CanvasAnswers == {"ok", "failed", "none"}

CanvasCourseTypeOK ==
    /\ canvasCourse \in [CanvasKeys -> [state : CanvasStates, payload : 0 .. CanvasVersions]]
    /\ canvasCall \in [op : {"create", "update", "delete"}, key : CanvasKeys,
                       payload : CanvasPayloads, created : BOOLEAN,
                       pc : {"session", "find", "post", "details", "put", "conclude"} \cup CanvasAnswers]

CanvasCourseInit ==
    /\ canvasCourse = [x \in CanvasKeys |-> [state |-> "absent", payload |-> 0]]
    /\ canvasCall = [op |-> "delete", key |-> CHOOSE x \in CanvasKeys : TRUE, payload |-> 1,
                     created |-> FALSE, pc |-> "failed"]

-----------------------------------------------------------------------------
(* The steps of a call *)

CanvasState == canvasCourse[canvasCall.key].state

CanvasGoto(pc) == canvasCall' = [canvasCall EXCEPT !.pc = pc]

\* The transmitter makes the next call.
CanvasBegin(op, x, v) ==
    /\ canvasCall.pc \in CanvasAnswers
    /\ canvasCall' = [op |-> op, key |-> x, payload |-> v, created |-> FALSE, pc |-> "session"]
    /\ UNCHANGED canvasCourse

\* _create_session: a new token is asked for when the old one has expired; there may be
\* none to be had.
CanvasSession ==
    /\ canvasCall.pc = "session"
    /\ CanvasGoto("find") \/ CanvasGoto("failed")
    /\ UNCHANGED canvasCourse

\* find_course_by_course_id searches the configured account, then the root account.
CanvasFindFails ==
    /\ canvasCall.pc = "find"
    /\ CanvasGoto("failed")
    /\ UNCHANGED canvasCourse

\* update turns into create, which looks again; there is nothing to delete: 404.
CanvasNotFound ==
    /\ canvasCall.pc = "find" /\ CanvasState = "absent"
    /\ \/ canvasCall.op = "create" /\ CanvasGoto("post")
       \/ canvasCall.op = "update" /\ canvasCall' = [canvasCall EXCEPT !.op = "create"]
       \/ canvasCall.op = "delete" /\ CanvasGoto("failed")
    /\ UNCHANGED canvasCourse

\* A course deleted in Canvas is answered 200 and left as it is, except by delete.
CanvasFound ==
    /\ canvasCall.pc = "find" /\ CanvasState # "absent"
    /\ \/ canvasCall.op # "delete" /\ CanvasState = "deleted" /\ CanvasGoto("ok")
       \/ canvasCall.op = "create" /\ CanvasState # "deleted" /\ CanvasGoto("details")
       \/ canvasCall.op = "update" /\ CanvasState # "deleted" /\ CanvasGoto("put")
       \/ canvasCall.op = "delete" /\ CanvasGoto("conclude")
    /\ UNCHANGED canvasCourse

\* A request changes Canvas's course to c and is answered, or not; or it is refused.
CanvasRequest(c, answered, unanswered) ==
    \/ /\ canvasCourse' = [canvasCourse EXCEPT ![canvasCall.key] = c]
       /\ answered \/ unanswered
    \/ /\ unanswered
       /\ UNCHANGED canvasCourse

CanvasPost ==
    /\ canvasCall.pc = "post"
    /\ CanvasRequest([state |-> "unpublished", payload |-> canvasCall.payload],
                     canvasCall' = [canvasCall EXCEPT !.pc = "details", !.created = TRUE],
                     CanvasGoto("failed"))

\* _update_course_details sends course[event]=offer and the image, no other field;
\* its failures are swallowed: create then returns the status of the POST, or, for
\* a course that was found, no status at all.
CanvasDetails ==
    /\ canvasCall.pc = "details"
    /\ LET failed == CanvasGoto(IF canvasCall.created THEN "ok" ELSE "none")
       IN  IF CanvasState = "deleted"
           THEN failed /\ UNCHANGED canvasCourse
           ELSE CanvasRequest([canvasCourse[canvasCall.key] EXCEPT !.state = "available"],
                              CanvasGoto("ok"), failed)

\* Fault: an update sends the details only, as create does for a course it finds.
CanvasPut_DetailsOnly ==
    /\ canvasCall.pc = "put"
    /\ CanvasRequest([canvasCourse[canvasCall.key] EXCEPT !.state = "available"],
                     CanvasGoto("ok"), CanvasGoto("failed"))

CanvasPut ==
    /\ canvasCall.pc = "put"
    /\ IF CanvasState = "deleted"
       THEN CanvasGoto("failed") /\ UNCHANGED canvasCourse
       ELSE CanvasRequest([canvasCourse[canvasCall.key] EXCEPT !.payload = canvasCall.payload],
                          CanvasGoto("ok"), CanvasGoto("failed"))

\* The course is concluded, never deleted: it can be offered again.
CanvasConclude ==
    /\ canvasCall.pc = "conclude"
    /\ IF CanvasState = "deleted"
       THEN CanvasGoto("failed") /\ UNCHANGED canvasCourse
       ELSE CanvasRequest([canvasCourse[canvasCall.key] EXCEPT !.state = "completed"],
                          CanvasGoto("ok"), CanvasGoto("failed"))

\* Someone publishes, concludes, deletes or restores a course in Canvas.
CanvasEdited(x, s) ==
    /\ canvasCourse[x].state # "absent"
    /\ canvasCourse' = [canvasCourse EXCEPT ![x].state = s]
    /\ UNCHANGED canvasCall

CanvasStep ==
    CanvasSession \/ CanvasFindFails \/ CanvasNotFound \/ CanvasFound \/ CanvasPost \/ CanvasDetails
        \/ CanvasPut \/ CanvasConclude

CanvasCourseNext ==
    \/ \E op \in {"create", "update", "delete"}, x \in CanvasKeys, v \in CanvasPayloads :
           CanvasBegin(op, x, v)
    \/ CanvasStep
    \/ \E x \in CanvasKeys, s \in CanvasStates \ {"absent"} : CanvasEdited(x, s)

CanvasCourseSpec == CanvasCourseInit /\ [][CanvasCourseNext]_canvasVars

-----------------------------------------------------------------------------
(* Properties *)

CanvasAnswered(op) ==
    canvasCall.op = op /\ canvasCall.pc \notin CanvasAnswers /\ canvasCall'.pc = "ok"

CanvasAfter == canvasCourse'[canvasCall.key]

\* An update that is answered without error has put its payload into the course,
\* unless the course was deleted in Canvas; a deletion has concluded it; a creation
\* has made the course, or has offered again the one that was there.
CanvasOkMeansDone ==
    [][/\ CanvasAnswered("update") => CanvasState = "deleted" \/ CanvasAfter.payload = canvasCall.payload
       /\ CanvasAnswered("delete") => CanvasAfter.state = "completed"
       /\ CanvasAnswered("create") =>
              \/ CanvasState = "deleted"
              \/ canvasCall.created /\ CanvasAfter.payload = canvasCall.payload
              \/ CanvasAfter.state = "available"]_canvasVars

\* A creation that finds its course issues "an update with latest field values"
\* (create_content_metadata's docstring).  Fails: only the details are sent.
CanvasCreateSendsLatest ==
    [][CanvasAnswered("create") =>
          CanvasState = "deleted" \/ CanvasAfter.payload = canvasCall.payload]_canvasVars

\* Failing details "cause no failure" (_update_course_details).  Fails: no status
\* is returned, and the transmitter compares it with 300.
CanvasAlwaysAStatus == canvasCall.pc # "none"
=============================================================================
