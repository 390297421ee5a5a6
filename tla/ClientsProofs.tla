------------------------------ MODULE ClientsProofs ------------------------------
(***************************************************************************)
(* What an answer without error means, of the Canvas, Moodle and Degreed2     *)
(* clients, and what becomes of a Canvas gradebook, for every number of        *)
(* courses, payloads, customers, reports and assignments.                      *)
(***************************************************************************)
EXTENDS MCClients, BlackboardProofs, ServicesProofs, SequenceTheorems, TLAPS

-----------------------------------------------------------------------------
(* Courses in Canvas *)

CanvasCallState == [op : {"create", "update", "delete"}, key : CanvasKeys,
                    payload : CanvasPayloads, created : BOOLEAN,
                    pc : {"session", "find", "post", "details", "put", "conclude"} \cup CanvasAnswers]
CanvasCourseState == [state : CanvasStates, payload : 0 .. CanvasVersions]

\* Each request is made for its operation, and a course that this call has made has the
\* payload of the call: people change its state only.
CanvasCallRelies(call, course) ==
    /\ call.pc \in {"post", "details"} => call.op = "create"
    /\ call.pc = "put" => call.op = "update"
    /\ call.pc = "conclude" => call.op = "delete"
    /\ call.created => /\ call.pc \in {"details"} \cup CanvasAnswers
                       /\ course[call.key].payload = call.payload

CanvasCourseInv == CanvasCourseTypeOK /\ CanvasCallRelies(canvasCall, canvasCourse)

LEMMA CanvasCourseInvInit == CanvasCourseInit => CanvasCourseInv
<1> SUFFICES ASSUME CanvasCourseInit PROVE CanvasCourseInv
  OBVIOUS
<1>1. (CHOOSE x \in CanvasKeys : TRUE) \in CanvasKeys
  BY CanvasCoursesAssumption
<1>2. 1 \in CanvasPayloads /\ 0 \in 0 .. CanvasVersions /\ "absent" \in CanvasStates /\ "failed" \in CanvasAnswers
  BY CanvasCoursesAssumption DEF CanvasPayloads, CanvasStates, CanvasAnswers
<1>3. CanvasCourseTypeOK
  BY <1>1, <1>2 DEF CanvasCourseInit, CanvasCourseTypeOK
<1>4. CanvasCallRelies(canvasCall, canvasCourse)
  BY DEF CanvasCourseInit, CanvasCallRelies
<1> QED
  BY <1>3, <1>4 DEF CanvasCourseInv

\* A call that moves keeps what it was asked.
LEMMA CanvasMoved ==
    ASSUME CanvasCourseInv, NEW pc \in {"session", "find", "post", "details", "put", "conclude"} \cup CanvasAnswers,
           CanvasGoto(pc)
    PROVE  /\ canvasCall' \in CanvasCallState /\ canvasCall'.pc = pc /\ canvasCall'.op = canvasCall.op
           /\ canvasCall'.key = canvasCall.key /\ canvasCall'.payload = canvasCall.payload
           /\ canvasCall'.created = canvasCall.created
BY DEF CanvasCourseInv, CanvasCourseTypeOK, CanvasGoto, CanvasCallState

\* A request that changes the course of the call.
LEMMA CanvasChanged ==
    ASSUME CanvasCourseInv, NEW c \in CanvasCourseState,
           canvasCourse' = [canvasCourse EXCEPT ![canvasCall.key] = c]
    PROVE  canvasCourse' \in [CanvasKeys -> CanvasCourseState] /\ canvasCourse'[canvasCall.key] = c
BY DEF CanvasCourseInv, CanvasCourseTypeOK, CanvasCourseState

LEMMA CanvasCourseNow ==
    ASSUME CanvasCourseInv
    PROVE  /\ canvasCall \in CanvasCallState /\ canvasCourse \in [CanvasKeys -> CanvasCourseState]
           /\ canvasCall.key \in CanvasKeys /\ canvasCall.payload \in 0 .. CanvasVersions
           /\ canvasCall.op \in {"create", "update", "delete"} /\ canvasCall.created \in BOOLEAN
           /\ canvasCourse[canvasCall.key] \in CanvasCourseState
           /\ canvasCourse[canvasCall.key].payload \in 0 .. CanvasVersions
           /\ \A s \in CanvasStates :
                 /\ [canvasCourse[canvasCall.key] EXCEPT !.state = s] \in CanvasCourseState
                 /\ [canvasCourse[canvasCall.key] EXCEPT !.state = s].state = s
                 /\ [canvasCourse[canvasCall.key] EXCEPT !.state = s].payload = canvasCourse[canvasCall.key].payload
BY DEF CanvasCourseInv, CanvasCourseTypeOK, CanvasCallState, CanvasCourseState, CanvasPayloads

\* What a step has to do: keep the invariant, and mean what it answers.
CanvasDone ==
    /\ CanvasAnswered("update") => CanvasState = "deleted" \/ CanvasAfter.payload = canvasCall.payload
    /\ CanvasAnswered("delete") => CanvasAfter.state = "completed"
    /\ CanvasAnswered("create") =>
           \/ CanvasState = "deleted"
           \/ canvasCall.created /\ CanvasAfter.payload = canvasCall.payload
           \/ CanvasAfter.state = "available"

LEMMA CanvasTyped ==
    ASSUME canvasCall' \in CanvasCallState, canvasCourse' \in [CanvasKeys -> CanvasCourseState]
    PROVE  CanvasCourseTypeOK'
BY DEF CanvasCallState, CanvasCourseState, CanvasCourseTypeOK

\* Looking for the course, which changes nothing.
LEMMA CanvasSearches ==
    ASSUME CanvasCourseInv, CanvasSession \/ CanvasFindFails \/ CanvasNotFound \/ CanvasFound
    PROVE  CanvasCourseInv' /\ CanvasDone
<1>1. /\ canvasCall \in CanvasCallState /\ canvasCourse \in [CanvasKeys -> CanvasCourseState]
      /\ CanvasCallRelies(canvasCall, canvasCourse) /\ UNCHANGED canvasCourse
      /\ canvasCall.pc \in {"session", "find"} /\ ~canvasCall.created
  BY CanvasCourseNow
     DEF CanvasCourseInv, CanvasSession, CanvasFindFails, CanvasNotFound, CanvasFound, CanvasCallRelies, CanvasAnswers
<1>2. CASE \/ \E pc \in {"find", "failed"} : CanvasGoto(pc)
           \/ canvasCall.op = "create" /\ (CanvasGoto("post") \/ CanvasGoto("details"))
           \/ canvasCall.op = "update" /\ CanvasGoto("put")
           \/ canvasCall.op = "delete" /\ CanvasGoto("conclude")
           \/ canvasCall.op # "delete" /\ CanvasState = "deleted" /\ CanvasGoto("ok")
  <2>1. /\ canvasCall' \in CanvasCallState /\ ~canvasCall'.created /\ canvasCall'.op = canvasCall.op
        /\ canvasCall'.pc = "ok" => canvasCall.op # "delete" /\ CanvasState = "deleted"
        /\ canvasCall'.pc \in {"post", "details"} => canvasCall.op = "create"
        /\ canvasCall'.pc = "put" => canvasCall.op = "update"
        /\ canvasCall'.pc = "conclude" => canvasCall.op = "delete"
    BY <1>1, <1>2, CanvasMoved DEF CanvasAnswers
  <2> QED
    BY <1>1, <2>1, CanvasTyped DEF CanvasCourseInv, CanvasCallRelies, CanvasDone, CanvasAnswered
<1>3. CASE canvasCall.op = "update" /\ canvasCall.pc = "find" /\ canvasCall' = [canvasCall EXCEPT !.op = "create"]
  <2>1. /\ canvasCall' \in CanvasCallState /\ ~canvasCall'.created /\ canvasCall'.pc = "find"
    BY <1>1, <1>3 DEF CanvasCallState
  <2> QED
    BY <1>1, <2>1, CanvasTyped DEF CanvasCourseInv, CanvasCallRelies, CanvasDone, CanvasAnswered
<1> QED
  BY <1>2, <1>3 DEF CanvasSession, CanvasFindFails, CanvasNotFound, CanvasFound

\* A request that changes the course to c.
LEMMA CanvasRequests ==
    ASSUME CanvasCourseInv, NEW c \in CanvasCourseState,
           \/ /\ canvasCall.pc = "put" /\ c.payload = canvasCall.payload
              /\ CanvasRequest(c, CanvasGoto("ok"), CanvasGoto("failed"))
           \/ /\ canvasCall.pc = "conclude" /\ c.state = "completed"
              /\ CanvasRequest(c, CanvasGoto("ok"), CanvasGoto("failed"))
           \/ /\ canvasCall.pc = "details" /\ c.state = "available"
              /\ c.payload = canvasCourse[canvasCall.key].payload
              /\ CanvasRequest(c, CanvasGoto("ok"), CanvasGoto(IF canvasCall.created THEN "ok" ELSE "none"))
    PROVE  CanvasCourseInv' /\ CanvasDone
<1>1. /\ canvasCall \in CanvasCallState /\ canvasCourse \in [CanvasKeys -> CanvasCourseState]
      /\ canvasCall.key \in CanvasKeys /\ canvasCall.created \in BOOLEAN
      /\ CanvasCallRelies(canvasCall, canvasCourse)
  BY CanvasCourseNow DEF CanvasCourseInv
<1>2. PICK pc \in CanvasAnswers : CanvasGoto(pc) /\
          \/ /\ canvasCourse' = [canvasCourse EXCEPT ![canvasCall.key] = c]
          \/ /\ UNCHANGED canvasCourse
             /\ pc = "ok" => canvasCall.pc = "details" /\ canvasCall.created
  BY DEF CanvasRequest, CanvasAnswers
<1>3. /\ canvasCall' \in CanvasCallState /\ canvasCall'.pc = pc /\ canvasCall'.op = canvasCall.op
      /\ canvasCall'.key = canvasCall.key /\ canvasCall'.payload = canvasCall.payload
      /\ canvasCall'.created = canvasCall.created
  BY <1>2, CanvasMoved
<1>4. /\ canvasCall.pc = "put" => canvasCall.op = "update"
      /\ canvasCall.pc = "conclude" => canvasCall.op = "delete"
      /\ canvasCall.pc = "details" => canvasCall.op = "create"
      /\ canvasCall.created => canvasCall.pc \in {"details"} \cup CanvasAnswers
      /\ canvasCall.created => canvasCourse[canvasCall.key].payload = canvasCall.payload
      /\ canvasCall.pc \in {"put", "conclude", "details"} /\ pc \notin {"post", "details", "put", "conclude"}
  BY <1>1, <1>2 DEF CanvasCallRelies, CanvasAnswers
<1>5. CASE canvasCourse' = [canvasCourse EXCEPT ![canvasCall.key] = c]
  <2>1. canvasCourse' \in [CanvasKeys -> CanvasCourseState] /\ canvasCourse'[canvasCall.key] = c
    BY <1>5, CanvasChanged
  <2>2. canvasCall.created => c.payload = canvasCall.payload
    BY <1>4 DEF CanvasAnswers
  <2>3. CanvasCourseInv'
    BY <1>2, <1>3, <1>4, <2>1, <2>2, CanvasTyped DEF CanvasCourseInv, CanvasCallRelies
  <2>4. CanvasDone
    BY <1>4, <2>1 DEF CanvasDone, CanvasAnswered, CanvasAfter
  <2> QED
    BY <2>3, <2>4
<1>6. CASE UNCHANGED canvasCourse /\ (pc = "ok" => canvasCall.pc = "details" /\ canvasCall.created)
  <2>1. CanvasCourseInv'
    BY <1>1, <1>2, <1>3, <1>4, <1>6, CanvasTyped DEF CanvasCourseInv, CanvasCallRelies
  <2>2. CanvasDone
    BY <1>3, <1>4, <1>6 DEF CanvasDone, CanvasAnswered, CanvasAfter
  <2> QED
    BY <2>1, <2>2
<1> QED
  BY <1>2, <1>5, <1>6

\* The course is made, and its details are to follow.
LEMMA CanvasPosts ==
    ASSUME CanvasCourseInv, CanvasPost PROVE CanvasCourseInv' /\ CanvasDone
<1> DEFINE c == [state |-> "unpublished", payload |-> canvasCall.payload]
<1>1. /\ canvasCall \in CanvasCallState /\ canvasCourse \in [CanvasKeys -> CanvasCourseState]
      /\ canvasCall.pc = "post" /\ canvasCall.op = "create" /\ canvasCall.key \in CanvasKeys /\ ~canvasCall.created
      /\ canvasCall.payload \in 0 .. CanvasVersions
  BY CanvasCourseNow DEF CanvasCourseInv, CanvasPost, CanvasCallRelies, CanvasAnswers
<1>2. c \in CanvasCourseState /\ c.payload = canvasCall.payload
  BY <1>1 DEF CanvasCourseState, CanvasStates
<1>3. \/ UNCHANGED canvasCourse /\ CanvasGoto("failed")
      \/ /\ canvasCourse' = [canvasCourse EXCEPT ![canvasCall.key] = c]
         /\ canvasCall' = [canvasCall EXCEPT !.pc = "details", !.created = TRUE] \/ CanvasGoto("failed")
  BY DEF CanvasPost, CanvasRequest
<1> HIDE DEF c
<1>4. canvasCourse' \in [CanvasKeys -> CanvasCourseState]
  BY <1>1, <1>2, <1>3, CanvasChanged
<1>5. CASE CanvasGoto("failed")
  <2>1. canvasCall' \in CanvasCallState /\ canvasCall'.pc = "failed" /\ ~canvasCall'.created
    BY <1>1, <1>5, CanvasMoved DEF CanvasAnswers
  <2> QED
    BY <1>4, <2>1, CanvasTyped DEF CanvasCourseInv, CanvasCallRelies, CanvasDone, CanvasAnswered
<1>6. CASE /\ canvasCourse' = [canvasCourse EXCEPT ![canvasCall.key] = c]
           /\ canvasCall' = [canvasCall EXCEPT !.pc = "details", !.created = TRUE]
  <2>1. /\ canvasCall' \in CanvasCallState /\ canvasCall'.pc = "details" /\ canvasCall'.op = "create"
        /\ canvasCall'.key = canvasCall.key /\ canvasCall'.payload = canvasCall.payload
    BY <1>1, <1>6 DEF CanvasCallState
  <2>2. canvasCourse'[canvasCall.key].payload = canvasCall.payload
    BY <1>2, <1>6, CanvasChanged
  <2> QED
    BY <1>4, <2>1, <2>2, CanvasTyped DEF CanvasCourseInv, CanvasCallRelies, CanvasDone, CanvasAnswered
<1> QED
  BY <1>3, <1>5, <1>6

\* The details, an update and a deletion: one of a course that Canvas has deleted fails.
LEMMA CanvasUpdates ==
    ASSUME CanvasCourseInv, CanvasDetails \/ CanvasPut \/ CanvasConclude
    PROVE  CanvasCourseInv' /\ CanvasDone
<1> DEFINE old == canvasCourse[canvasCall.key]
<1>1. CASE CanvasState = "deleted"
  <2>1. PICK pc \in CanvasAnswers :
            /\ CanvasGoto(pc) /\ UNCHANGED canvasCourse
            /\ canvasCall.pc \in {"details", "put", "conclude"}
            /\ pc = "ok" => canvasCall.pc = "details"
    BY <1>1 DEF CanvasDetails, CanvasPut, CanvasConclude, CanvasAnswers
  <2>2. /\ canvasCall' \in CanvasCallState /\ canvasCall'.pc = pc /\ canvasCall'.key = canvasCall.key
        /\ canvasCall'.payload = canvasCall.payload /\ canvasCall'.created = canvasCall.created
    BY <2>1, CanvasMoved
  <2>3. /\ canvasCourse \in [CanvasKeys -> CanvasCourseState] /\ CanvasCallRelies(canvasCall, canvasCourse)
        /\ canvasCall.created \in BOOLEAN /\ pc \notin {"post", "details", "put", "conclude"}
    BY CanvasCourseNow DEF CanvasCourseInv, CanvasAnswers
  <2>4. CanvasCourseInv'
    BY <2>1, <2>2, <2>3, CanvasTyped DEF CanvasCourseInv, CanvasCallRelies
  <2>5. CanvasDone
    BY <1>1, <2>1, <2>2, <2>3 DEF CanvasDone, CanvasAnswered, CanvasCallRelies
  <2> QED
    BY <2>4, <2>5
<1>2. CASE CanvasState # "deleted" /\ CanvasDetails
  <2>1. /\ canvasCall.pc = "details"
        /\ CanvasRequest([old EXCEPT !.state = "available"], CanvasGoto("ok"),
                         CanvasGoto(IF canvasCall.created THEN "ok" ELSE "none"))
    BY <1>2 DEF CanvasDetails
  <2> DEFINE c == [old EXCEPT !.state = "available"]
  <2>2. c \in CanvasCourseState /\ c.state = "available" /\ c.payload = old.payload
    BY CanvasCourseNow DEF CanvasStates
  <2> HIDE DEF c
  <2> QED
    BY <2>1, <2>2, CanvasRequests DEF c
<1>3. CASE CanvasState # "deleted" /\ CanvasPut
  <2> DEFINE c == [old EXCEPT !.payload = canvasCall.payload]
  <2>1. canvasCall.pc = "put" /\ CanvasRequest(c, CanvasGoto("ok"), CanvasGoto("failed"))
    BY <1>3 DEF CanvasPut
  <2>2. c \in CanvasCourseState /\ c.payload = canvasCall.payload
    BY CanvasCourseNow DEF CanvasCourseState
  <2> HIDE DEF c
  <2> QED
    BY <2>1, <2>2, CanvasRequests
<1>4. CASE CanvasState # "deleted" /\ CanvasConclude
  <2> DEFINE c == [old EXCEPT !.state = "completed"]
  <2>1. canvasCall.pc = "conclude" /\ CanvasRequest(c, CanvasGoto("ok"), CanvasGoto("failed"))
    BY <1>4 DEF CanvasConclude
  <2>2. c \in CanvasCourseState /\ c.state = "completed"
    BY CanvasCourseNow DEF CanvasStates
  <2> HIDE DEF c
  <2> QED
    BY <2>1, <2>2, CanvasRequests
<1> QED
  BY <1>1, <1>2, <1>3, <1>4

LEMMA CanvasCourseStep ==
    CanvasCourseInv /\ [CanvasCourseNext]_canvasVars => CanvasCourseInv' /\ [CanvasDone]_canvasVars
<1> SUFFICES ASSUME CanvasCourseInv, [CanvasCourseNext]_canvasVars
             PROVE  CanvasCourseInv' /\ (UNCHANGED canvasVars \/ CanvasDone)
  OBVIOUS
<1>1. ASSUME NEW op \in {"create", "update", "delete"}, NEW x \in CanvasKeys, NEW v \in CanvasPayloads,
             CanvasBegin(op, x, v)
      PROVE  CanvasCourseInv' /\ CanvasDone
  <2>1. /\ canvasCall' = [op |-> op, key |-> x, payload |-> v, created |-> FALSE, pc |-> "session"]
        /\ canvasCall.pc \in CanvasAnswers /\ UNCHANGED canvasCourse
    BY <1>1 DEF CanvasBegin
  <2>2. canvasCall' \in CanvasCallState /\ canvasCall'.pc = "session" /\ ~canvasCall'.created
    BY <2>1 DEF CanvasCallState
  <2> QED
    BY <2>1, <2>2, CanvasTyped, CanvasCourseNow DEF CanvasCourseInv, CanvasCallRelies, CanvasDone, CanvasAnswered
<1>2. CASE CanvasStep
  BY <1>2, CanvasSearches, CanvasPosts, CanvasUpdates DEF CanvasStep
<1>3. ASSUME NEW x \in CanvasKeys, NEW s \in CanvasStates, CanvasEdited(x, s)
      PROVE  CanvasCourseInv' /\ CanvasDone
  <2> DEFINE c == [canvasCourse[x] EXCEPT !.state = s]
  <2>1. canvasCourse' = [canvasCourse EXCEPT ![x].state = s] /\ UNCHANGED canvasCall
    BY <1>3 DEF CanvasEdited
  <2>2. canvasCourse' = [canvasCourse EXCEPT ![x] = c]
    BY <2>1, Zenon
  <2>3. canvasCourse \in [CanvasKeys -> CanvasCourseState] /\ c \in CanvasCourseState /\ c.payload = canvasCourse[x].payload
    BY CanvasCourseNow DEF CanvasCourseState
  <2> HIDE DEF c
  <2>4. canvasCourse' \in [CanvasKeys -> CanvasCourseState] /\ \A y \in CanvasKeys : canvasCourse'[y].payload = canvasCourse[y].payload
    BY <2>2, <2>3
  <2>5. CanvasCourseInv'
    BY <2>1, <2>4, CanvasCourseNow, CanvasTyped DEF CanvasCourseInv, CanvasCallRelies
  <2>6. CanvasDone
    BY <2>1 DEF CanvasDone, CanvasAnswered, CanvasAnswers
  <2> QED
    BY <2>5, <2>6
<1>4. CASE UNCHANGED canvasVars
  BY <1>4 DEF canvasVars, CanvasCourseInv, CanvasCourseTypeOK, CanvasCallRelies
<1> QED
  BY <1>1, <1>2, <1>3, <1>4 DEF CanvasCourseNext

\* An update that Canvas's client answers without error has put its payload into the course,
\* unless Canvas had deleted it, a deletion has concluded it, and a creation has made it or
\* offered it again, whatever people do to courses meanwhile (CanvasOkMeansDone).
THEOREM CanvasMeansIt == CanvasCourseSpec => CanvasOkMeansDone
<1> QED
  BY CanvasCourseInvInit, CanvasCourseStep, PTL DEF CanvasCourseSpec, CanvasOkMeansDone, CanvasDone

-----------------------------------------------------------------------------
(* The Moodle client *)

MoodlePCs == {"find", "post", "module", "user", "submit"} \cup MoodleAnswers
MoodleCallState == [op : MoodleOps, run : MoodleOps, payload : MoodlePayloads, show : BOOLEAN,
                    creating : BOOLEAN, again : BOOLEAN, blind : BOOLEAN, taken : BOOLEAN, zero : BOOLEAN, pc : MoodlePCs]
MoodleCourseState == [payload : 0 .. MoodleVersions, visible : BOOLEAN]

\* create and update hand the course to each other, and what create hands over is to be
\* shown; a deletion and a grade stay what they are.
MoodleRelies(call) ==
    /\ call.op \in {"create", "update"} => call.run \in {"create", "update"}
    /\ call.op = "create" /\ call.run = "update" => call.show
    /\ call.op \in {"delete", "grade"} => call.run = call.op
    /\ call.pc = "post" => call.op # "grade"
    /\ call.pc \in {"module", "user", "submit"} => call.op = "grade"

MoodleInv == MoodleTypeOK /\ MoodleRelies(moodleCall)

\* What a step has to do, besides.
MoodleDone ==
    MoodleTrusted =>
       /\ MoodleSucceeds({"create"}) => moodleCourse' = [payload |-> moodleCall.payload, visible |-> TRUE]
       /\ MoodleSucceeds({"update"}) => moodleCourse'.payload = moodleCall.payload
       /\ MoodleSucceeds({"delete"}) => ~moodleCourse'.visible
       /\ MoodleSucceeds({"grade"}) => moodleGrade' = moodleCall.payload

LEMMA MoodleTyped ==
    MoodleTypeOK <=> /\ moodleCourse \in MoodleCourseState /\ moodleGrade \in 0 .. MoodleVersions
                     /\ moodleToken \in BOOLEAN /\ moodleCall \in MoodleCallState
BY DEF MoodleTypeOK, MoodleCourseState, MoodleCallState, MoodlePCs, MoodleOps

LEMMA MoodleTypedNext ==
    ASSUME moodleCourse' \in MoodleCourseState, moodleGrade' \in 0 .. MoodleVersions,
           moodleToken' \in BOOLEAN, moodleCall' \in MoodleCallState
    PROVE  MoodleTypeOK'
BY DEF MoodleTypeOK, MoodleCourseState, MoodleCallState, MoodlePCs, MoodleOps

LEMMA MoodleInvInit == MoodleInit => MoodleInv
<1> SUFFICES ASSUME MoodleInit PROVE MoodleInv
  OBVIOUS
<1>1. 1 \in MoodlePayloads /\ 0 \in 0 .. MoodleVersions
  BY MoodleAssumption DEF MoodlePayloads
<1>2. moodleCall \in MoodleCallState
  BY <1>1 DEF MoodleInit, MoodleCallState, MoodlePCs, MoodleOps, MoodleAnswers
<1>3. moodleCourse \in MoodleCourseState
  BY <1>1 DEF MoodleInit, MoodleCourseState
<1>4. MoodleRelies(moodleCall)
  BY DEF MoodleInit, MoodleRelies
<1>5. moodleGrade \in 0 .. MoodleVersions /\ moodleToken \in BOOLEAN
  BY <1>1 DEF MoodleInit
<1> QED
  BY <1>2, <1>3, <1>4, <1>5, MoodleTyped DEF MoodleInv

\* A call that moves on keeps everything but its place.
LEMMA MoodleMoved ==
    ASSUME MoodleInv, NEW pc \in MoodlePCs, MoodleGoto(pc)
    PROVE  /\ moodleCall' \in MoodleCallState /\ moodleCall'.pc = pc
           /\ moodleCall'.op = moodleCall.op /\ moodleCall'.run = moodleCall.run
           /\ moodleCall'.show = moodleCall.show
<1>1. moodleCall \in MoodleCallState
  BY MoodleTyped DEF MoodleInv
<1> QED
  BY <1>1 DEF MoodleGoto, MoodleCallState

\* Looking for the course, its module and its users changes none of it, and ends with no success.
LEMMA MoodleLooks ==
    ASSUME MoodleInv, MoodleFind \/ MoodleModule \/ MoodleUser PROVE MoodleInv' /\ MoodleDone
<1>1. /\ moodleCall \in MoodleCallState /\ moodleCourse \in MoodleCourseState
      /\ moodleGrade \in 0 .. MoodleVersions /\ moodleToken \in BOOLEAN /\ MoodleRelies(moodleCall)
  BY MoodleTyped DEF MoodleInv
<1>2. UNCHANGED <<moodleCourse, moodleGrade>> /\ moodleToken' \in BOOLEAN
  BY <1>1 DEF MoodleFind, MoodleModule, MoodleUser, MoodleLookup, MoodleWrapped, MoodleUnchanged
<1>3. \/ MoodleGoto("failed")
      \/ moodleCall.run = "grade" /\ (MoodleGoto("module") \/ (moodleCall.op = "grade" /\ (MoodleGoto("user") \/ MoodleGoto("submit"))))
      \/ moodleCall.run # "grade" /\ MoodleGoto("post")
      \/ moodleCall.run = "create" /\ moodleCall' = [moodleCall EXCEPT !.run = "update", !.show = TRUE]
         /\ moodleCall.pc = "find"
      \/ moodleCall.run = "update" /\ moodleCall' = [moodleCall EXCEPT !.run = "create", !.creating = TRUE]
         /\ moodleCall.pc = "find"
  <2>1. CASE MoodleFind
    <3>1. moodleCall.pc = "find" /\ (MoodleFoundCourse \/ MoodleFoundNone \/ MoodleGoto("failed"))
      BY <2>1 DEF MoodleFind, MoodleWrapped
    <3>2. CASE MoodleFoundCourse
      BY <1>1, <3>1, <3>2 DEF MoodleFoundCourse, MoodleCallState, MoodleOps
    <3>3. CASE MoodleFoundNone
      BY <1>1, <3>1, <3>3 DEF MoodleFoundNone, MoodleCallState, MoodleOps
    <3> QED
      BY <3>1, <3>2, <3>3
  <2>2. CASE MoodleModule \/ MoodleUser
    <3>1. moodleCall.pc \in {"module", "user"} /\ (MoodleGoto("user") \/ MoodleGoto("submit") \/ MoodleGoto("failed"))
      BY <2>2 DEF MoodleModule, MoodleUser, MoodleLookup, MoodleWrapped
    <3>2. moodleCall.op = "grade" /\ moodleCall.run = "grade"
      BY <1>1, <3>1 DEF MoodleRelies
    <3> QED
      BY <3>1, <3>2
  <2> QED
    BY <2>1, <2>2
<1>4. moodleCall.run = "grade" <=> moodleCall.op = "grade"
  BY <1>1 DEF MoodleRelies, MoodleCallState, MoodleOps
<1>5. moodleCall' \in MoodleCallState /\ MoodleRelies(moodleCall') /\ moodleCall'.pc # "ok"
  <2>1. CASE \E pc \in {"failed", "module", "user", "submit", "post"} :
                /\ MoodleGoto(pc)
                /\ pc = "post" => moodleCall.op # "grade"
                /\ pc \in {"module", "user", "submit"} => moodleCall.op = "grade"
    <3>1. PICK pc \in {"failed", "module", "user", "submit", "post"} :
                /\ MoodleGoto(pc)
                /\ pc = "post" => moodleCall.op # "grade"
                /\ pc \in {"module", "user", "submit"} => moodleCall.op = "grade"
      BY <2>1
    <3>2. /\ moodleCall' \in MoodleCallState /\ moodleCall'.pc = pc
          /\ moodleCall'.op = moodleCall.op /\ moodleCall'.run = moodleCall.run
          /\ moodleCall'.show = moodleCall.show
      BY <3>1, MoodleMoved DEF MoodlePCs, MoodleAnswers
    <3> QED
      BY <1>1, <3>1, <3>2 DEF MoodleRelies
  <2>2. CASE /\ moodleCall.run = "create" /\ moodleCall.pc = "find"
             /\ moodleCall' = [moodleCall EXCEPT !.run = "update", !.show = TRUE]
    <3>1. /\ moodleCall' \in MoodleCallState /\ moodleCall'.pc = "find" /\ moodleCall'.op = moodleCall.op
          /\ moodleCall'.run = "update" /\ moodleCall'.show
      BY <1>1, <2>2 DEF MoodleCallState, MoodleOps
    <3> QED
      BY <1>1, <2>2, <3>1 DEF MoodleRelies
  <2>3. CASE /\ moodleCall.run = "update" /\ moodleCall.pc = "find"
             /\ moodleCall' = [moodleCall EXCEPT !.run = "create", !.creating = TRUE]
    <3>1. /\ moodleCall' \in MoodleCallState /\ moodleCall'.pc = "find" /\ moodleCall'.op = moodleCall.op
          /\ moodleCall'.run = "create"
      BY <1>1, <2>3 DEF MoodleCallState, MoodleOps
    <3> QED
      BY <1>1, <2>3, <3>1 DEF MoodleRelies
  <2> QED
    BY <1>3, <1>4, <2>1, <2>2, <2>3
<1>6. MoodleInv'
  BY <1>1, <1>2, <1>5, MoodleTypedNext DEF MoodleInv
<1>7. MoodleDone
  BY <1>5 DEF MoodleDone, MoodleSucceeds
<1> QED
  BY <1>6, <1>7

\* The course is made, changed or hidden.
LEMMA MoodlePosts ==
    ASSUME MoodleInv, MoodlePost PROVE MoodleInv' /\ MoodleDone
<1>1. /\ moodleCall \in MoodleCallState /\ moodleCourse \in MoodleCourseState
      /\ moodleGrade \in 0 .. MoodleVersions /\ moodleToken \in BOOLEAN /\ MoodleRelies(moodleCall)
      /\ moodleCall.op \in MoodleOps /\ moodleCall.run \in MoodleOps /\ moodleCall.show \in BOOLEAN
  BY MoodleTyped DEF MoodleInv, MoodleCallState
<1>2. /\ moodleCall.pc = "post" /\ UNCHANGED moodleGrade /\ moodleToken' \in BOOLEAN
      /\ \/ moodleCourse' = MoodleWanted /\ \E pc \in MoodleAnswers : MoodleGoto(pc)
         \/ /\ UNCHANGED moodleCourse
            /\ \/ MoodleGoto("failed")
               \/ moodleCall' = [moodleCall EXCEPT !.pc = "ok", !.taken = TRUE]
               \/ moodleCall' = [moodleCall EXCEPT !.pc = "ok", !.blind = TRUE]
  BY <1>1 DEF MoodlePost, MoodleWrapped
<1>3. CASE moodleCourse' = MoodleWanted /\ \E pc \in MoodleAnswers : MoodleGoto(pc)
  <2>1. PICK pc \in MoodleAnswers : MoodleGoto(pc)
    BY <1>3
  <2>2. /\ moodleCall' \in MoodleCallState /\ moodleCall'.pc \in MoodleAnswers
        /\ moodleCall'.op = moodleCall.op /\ moodleCall'.run = moodleCall.run
        /\ moodleCall'.show = moodleCall.show
    BY <2>1, MoodleMoved DEF MoodlePCs
  <2>3. MoodleRelies(moodleCall')
    BY <1>1, <2>2 DEF MoodleRelies, MoodleAnswers
  <2>4. /\ MoodleWanted \in MoodleCourseState /\ MoodleWanted.payload = moodleCall.payload
        /\ moodleCall.run = "create" => MoodleWanted.visible = TRUE
        /\ moodleCall.run = "update" /\ moodleCall.show => MoodleWanted.visible = TRUE
        /\ moodleCall.run = "delete" => MoodleWanted.visible = FALSE
    <3>1. moodleCall.payload \in 0 .. MoodleVersions /\ moodleCourse.visible \in BOOLEAN
      BY <1>1, MoodleAssumption DEF MoodleCallState, MoodlePayloads, MoodleCourseState
    <3> DEFINE shown == CASE moodleCall.run = "create" -> TRUE
                          [] moodleCall.run = "delete" -> FALSE
                          [] OTHER -> moodleCourse.visible \/ moodleCall.show
    <3>2. /\ shown \in BOOLEAN
          /\ moodleCall.run = "create" => shown = TRUE
          /\ moodleCall.run = "update" /\ moodleCall.show => shown = TRUE
          /\ moodleCall.run = "delete" => shown = FALSE
      BY <1>1, <3>1, Zenon
    <3>3. MoodleWanted = [payload |-> moodleCall.payload, visible |-> shown]
      BY DEF MoodleWanted
    <3> HIDE DEF shown
    <3> QED
      BY <3>1, <3>2, <3>3 DEF MoodleCourseState
  <2>5. MoodleInv'
    BY <1>1, <1>2, <1>3, <2>2, <2>3, <2>4, MoodleTypedNext DEF MoodleInv
  <2>6. moodleCall.op = "create" => moodleCourse' = [payload |-> moodleCall.payload, visible |-> TRUE]
    <3>1. moodleCall.op = "create" => moodleCourse'.payload = moodleCall.payload /\ moodleCourse'.visible = TRUE
      BY <1>1, <1>3, <2>4 DEF MoodleRelies
    <3>2. moodleCourse' = [payload |-> moodleCourse'.payload, visible |-> moodleCourse'.visible]
      BY <1>3, <2>4 DEF MoodleCourseState
    <3> QED
      BY <3>1, <3>2
  <2>7. moodleCall.op = "delete" => ~moodleCourse'.visible
    BY <1>1, <1>3, <2>4 DEF MoodleRelies
  <2>8. MoodleDone
    BY <1>1, <1>2, <1>3, <2>4, <2>6, <2>7 DEF MoodleDone, MoodleSucceeds, MoodleRelies
  <2> QED
    BY <2>5, <2>8
<1>4. CASE /\ UNCHANGED moodleCourse
           /\ \/ MoodleGoto("failed")
              \/ moodleCall' = [moodleCall EXCEPT !.pc = "ok", !.taken = TRUE]
              \/ moodleCall' = [moodleCall EXCEPT !.pc = "ok", !.blind = TRUE]
  <2>1. /\ moodleCall' \in MoodleCallState /\ moodleCall'.pc \in MoodleAnswers
        /\ moodleCall'.op = moodleCall.op /\ moodleCall'.run = moodleCall.run
        /\ moodleCall'.show = moodleCall.show
        /\ moodleCall'.pc = "ok" => ~MoodleTrusted
    <3>1. CASE MoodleGoto("failed")
      BY <3>1, MoodleMoved DEF MoodlePCs, MoodleAnswers
    <3>2. CASE moodleCall' = [moodleCall EXCEPT !.pc = "ok", !.taken = TRUE]
      BY <1>1, <3>2 DEF MoodleCallState, MoodlePCs, MoodleAnswers, MoodleTrusted
    <3>3. CASE moodleCall' = [moodleCall EXCEPT !.pc = "ok", !.blind = TRUE]
      BY <1>1, <3>3 DEF MoodleCallState, MoodlePCs, MoodleAnswers, MoodleTrusted
    <3> QED
      BY <1>4, <3>1, <3>2, <3>3
  <2>2. MoodleRelies(moodleCall')
    BY <1>1, <2>1 DEF MoodleRelies, MoodleAnswers
  <2>3. MoodleInv'
    BY <1>1, <1>2, <1>4, <2>1, <2>2, MoodleTypedNext DEF MoodleInv
  <2>4. MoodleDone
    BY <2>1 DEF MoodleDone, MoodleSucceeds
  <2> QED
    BY <2>3, <2>4
<1> QED
  BY <1>2, <1>3, <1>4

\* A grade is posted; the answer to a repeated request is not read, and 0 is trusted.
LEMMA MoodleSubmits ==
    ASSUME MoodleInv, MoodleSubmit PROVE MoodleInv' /\ MoodleDone
<1>1. /\ moodleCall \in MoodleCallState /\ moodleCourse \in MoodleCourseState
      /\ moodleGrade \in 0 .. MoodleVersions /\ moodleToken \in BOOLEAN /\ MoodleRelies(moodleCall)
      /\ moodleCall.payload \in 0 .. MoodleVersions
  BY MoodleTyped, MoodleAssumption DEF MoodleInv, MoodleCallState, MoodlePayloads
<1>2. moodleCall.pc = "submit" /\ moodleCall.op = "grade" /\ UNCHANGED moodleCourse
  BY <1>1 DEF MoodleSubmit, MoodleRelies
<1>3. CASE moodleGrade' = moodleCall.payload /\ (\E pc \in MoodleAnswers : MoodleGoto(pc)) /\ UNCHANGED moodleToken
  <2>1. PICK pc \in MoodleAnswers : MoodleGoto(pc)
    BY <1>3
  <2>2. /\ moodleCall' \in MoodleCallState /\ moodleCall'.pc \in MoodleAnswers
        /\ moodleCall'.op = moodleCall.op /\ moodleCall'.run = moodleCall.run
        /\ moodleCall'.show = moodleCall.show
    BY <2>1, MoodleMoved DEF MoodlePCs
  <2>3. MoodleRelies(moodleCall')
    BY <1>1, <2>2 DEF MoodleRelies, MoodleAnswers
  <2> QED
    BY <1>1, <1>2, <1>3, <2>2, <2>3, MoodleTypedNext DEF MoodleInv, MoodleDone, MoodleSucceeds
<1>4. CASE /\ UNCHANGED <<moodleCourse, moodleGrade, moodleToken>>
           /\ \/ moodleCall' = [moodleCall EXCEPT !.pc = "ok", !.blind = TRUE]
              \/ moodleCall' = [moodleCall EXCEPT !.pc = "ok", !.zero = TRUE]
              \/ MoodleGoto("failed")
  <2>1. /\ moodleCall' \in MoodleCallState /\ moodleCall'.pc \in MoodleAnswers
        /\ moodleCall'.op = moodleCall.op /\ moodleCall'.run = moodleCall.run
        /\ moodleCall'.show = moodleCall.show
        /\ moodleCall'.pc = "ok" => ~MoodleTrusted
    <3>1. CASE MoodleGoto("failed")
      BY <3>1, MoodleMoved DEF MoodlePCs, MoodleAnswers
    <3>2. CASE moodleCall' = [moodleCall EXCEPT !.pc = "ok", !.blind = TRUE]
      BY <1>1, <3>2 DEF MoodleCallState, MoodlePCs, MoodleAnswers, MoodleTrusted
    <3>3. CASE moodleCall' = [moodleCall EXCEPT !.pc = "ok", !.zero = TRUE]
      BY <1>1, <3>3 DEF MoodleCallState, MoodlePCs, MoodleAnswers, MoodleTrusted
    <3> QED
      BY <1>4, <3>1, <3>2, <3>3
  <2>2. MoodleRelies(moodleCall')
    BY <1>1, <2>1 DEF MoodleRelies, MoodleAnswers
  <2> QED
    BY <1>1, <1>4, <2>1, <2>2, MoodleTypedNext DEF MoodleInv, MoodleDone, MoodleSucceeds
<1>5. CASE /\ moodleToken' = TRUE /\ UNCHANGED <<moodleCourse, moodleGrade>>
           /\ moodleCall' = [moodleCall EXCEPT !.pc = "find", !.again = TRUE]
  <2>1. /\ moodleCall' \in MoodleCallState /\ moodleCall'.pc = "find"
        /\ moodleCall'.op = moodleCall.op /\ moodleCall'.run = moodleCall.run
        /\ moodleCall'.show = moodleCall.show
    BY <1>1, <1>5 DEF MoodleCallState, MoodlePCs
  <2>2. MoodleRelies(moodleCall')
    BY <1>1, <2>1 DEF MoodleRelies
  <2> QED
    BY <1>1, <1>5, <2>1, <2>2, MoodleTypedNext DEF MoodleInv, MoodleDone, MoodleSucceeds
<1> QED
  BY <1>3, <1>4, <1>5 DEF MoodleSubmit

LEMMA MoodleInvStep ==
    MoodleInv /\ [MoodleNext]_moodleVars => MoodleInv' /\ [MoodleDone]_moodleVars
<1> SUFFICES ASSUME MoodleInv, [MoodleNext]_moodleVars
             PROVE  MoodleInv' /\ (UNCHANGED moodleVars \/ MoodleDone)
  OBVIOUS
<1>0. /\ moodleCall \in MoodleCallState /\ moodleCourse \in MoodleCourseState
      /\ moodleGrade \in 0 .. MoodleVersions /\ moodleToken \in BOOLEAN /\ MoodleRelies(moodleCall)
  BY MoodleTyped DEF MoodleInv
<1>1. ASSUME NEW op \in MoodleOps, NEW v \in MoodlePayloads, MoodleBegin(op, v)
      PROVE  MoodleInv' /\ MoodleDone
  <2>1. /\ moodleCall.pc \in MoodleAnswers /\ UNCHANGED <<moodleCourse, moodleGrade, moodleToken>>
        /\ moodleCall' = [op |-> op, run |-> op, payload |-> v, show |-> FALSE, creating |-> op = "create",
                          again |-> FALSE, blind |-> FALSE, taken |-> FALSE, zero |-> FALSE, pc |-> "find"]
    BY <1>1 DEF MoodleBegin
  <2>2. (op = "create") \in BOOLEAN /\ "find" \in MoodlePCs
    BY DEF MoodlePCs
  <2>3. /\ moodleCall' \in MoodleCallState /\ moodleCall'.pc = "find"
        /\ moodleCall'.op = op /\ moodleCall'.run = op
    BY <2>1, <2>2 DEF MoodleCallState
  <2>4. MoodleRelies(moodleCall')
    BY <2>3 DEF MoodleRelies
  <2> QED
    BY <1>0, <2>1, <2>3, <2>4, MoodleTypedNext DEF MoodleInv, MoodleDone, MoodleSucceeds
<1>2. CASE MoodleStep
  BY <1>2, MoodleLooks, MoodlePosts, MoodleSubmits DEF MoodleStep
<1>3. CASE \/ MoodleExpires
           \/ MoodleEdited([payload |-> 0, visible |-> FALSE])
           \/ MoodleEdited([moodleCourse EXCEPT !.visible = ~@])
  <2>1. UNCHANGED <<moodleGrade, moodleCall>> /\ moodleToken' \in BOOLEAN
    BY <1>0, <1>3 DEF MoodleExpires, MoodleEdited
  <2>2. [payload |-> 0, visible |-> FALSE] \in MoodleCourseState
    BY MoodleAssumption DEF MoodleCourseState
  <2>3. [moodleCourse EXCEPT !.visible = ~@] \in MoodleCourseState
    BY <1>0 DEF MoodleCourseState
  <2>4. moodleCourse' \in MoodleCourseState
    BY <1>0, <1>3, <2>2, <2>3 DEF MoodleExpires, MoodleEdited
  <2> QED
    BY <1>0, <2>1, <2>4, MoodleTypedNext DEF MoodleInv, MoodleDone, MoodleSucceeds, MoodleAnswers
<1>4. CASE UNCHANGED moodleVars
  BY <1>0, <1>4, MoodleTypedNext DEF moodleVars, MoodleInv
<1> QED
  BY <1>1, <1>2, <1>3, <1>4 DEF MoodleNext

\* A success of Moodle's client means what it says, unless a course name was taken, the
\* answer to a repeated request was not read, or a grade that Moodle does not keep was
\* answered with 0, whatever Moodle's administrators do and
\* whenever its token expires (MoodleOkMeansDone).
THEOREM MoodleMeansIt == MoodleSpec => MoodleOkMeansDone
<1> QED
  BY MoodleInvInit, MoodleInvStep, PTL DEF MoodleSpec, MoodleOkMeansDone, MoodleDone

-----------------------------------------------------------------------------
(* The Degreed2 client *)

DegreedPCs == {"post", "fetch", "patch", "delete", "catalog", "fetchSkills", "skills"} \cup DegreedAnswers
DegreedCallState == [op : {"create", "update", "delete", "assign"}, id : DegreedId, attempts : 0 .. DegreedRetries,
                     done : DegreedAnswers, pc : DegreedPCs]
DegreedCourseState == [id : DegreedId, payload : DegreedPayload]

\* A deletion does not come to the skills, only a deletion deletes, and content whose skills
\* are being seen to is new if its own request went well.
DegreedRelies(call, course) ==
    /\ call.op = "delete" => call.pc \in {"fetch", "delete"} \cup DegreedAnswers
    /\ call.pc = "delete" => call.op = "delete"
    /\ call.op \in {"create", "update"} /\ call.pc \in {"catalog", "fetchSkills", "skills"} /\ call.done = "ok"
           => course.payload = "new"

DegreedInv ==
    /\ DegreedTypeOK
    /\ \A c \in DegreedCustomers : DegreedRelies(degreedCall[c], degreedCourse[c])

\* What a step has to do for customer c, besides.
DegreedDone(c) ==
    degreedCall[c].pc \notin DegreedAnswers /\ degreedCall'[c].pc = "ok" =>
        CASE degreedCall[c].op = "delete" -> degreedCourse'[c].id = 0
          [] degreedCall[c].op = "assign" -> TRUE
          [] OTHER -> degreedCourse'[c].payload = "new"

LEMMA DegreedInvInit == DegreedInit => DegreedInv
<1> SUFFICES ASSUME DegreedInit PROVE DegreedInv
  OBVIOUS
<1>1. 0 \in DegreedId /\ 0 \in 0 .. DegreedRetries
  BY DegreedAssumption DEF DegreedId
<1>2. [op |-> "delete", id |-> 0, attempts |-> 0, done |-> "ok", pc |-> "failed"] \in DegreedCallState
  BY <1>1 DEF DegreedCallState, DegreedPCs, DegreedAnswers
<1>3. [id |-> 0, payload |-> "none"] \in DegreedCourseState
  BY <1>1 DEF DegreedCourseState, DegreedPayload
<1>4. DegreedTypeOK
  BY <1>1, <1>2, <1>3 DEF DegreedInit, DegreedTypeOK, DegreedCallState, DegreedCourseState, DegreedPCs
<1>5. \A c \in DegreedCustomers : DegreedRelies(degreedCall[c], degreedCourse[c])
  BY DEF DegreedInit, DegreedRelies, DegreedAnswers
<1> QED
  BY <1>4, <1>5 DEF DegreedInv

LEMMA DegreedNow ==
    ASSUME DegreedInv, NEW c \in DegreedCustomers
    PROVE  /\ degreedCall \in [DegreedCustomers -> DegreedCallState] /\ degreedCall[c] \in DegreedCallState
           /\ degreedCourse \in [DegreedCustomers -> DegreedCourseState] /\ degreedCourse[c] \in DegreedCourseState
           /\ degreedIds \in DegreedId /\ degreedCache \in DegreedId
           /\ DegreedRelies(degreedCall[c], degreedCourse[c])
           /\ degreedCall[c].done \in DegreedAnswers /\ degreedCall[c].op \in {"create", "update", "delete", "assign"}
           /\ degreedCourse[c].id \in DegreedId /\ degreedCourse[c].payload \in DegreedPayload
           /\ 0 \in DegreedId /\ 0 \in 0 .. DegreedRetries
<1>1. 0 \in DegreedId /\ 0 \in 0 .. DegreedRetries
  BY DegreedAssumption DEF DegreedId
<1> QED
  BY <1>1 DEF DegreedInv, DegreedTypeOK, DegreedCallState, DegreedCourseState, DegreedPCs

\* A step of one customer: what becomes of its call and of its course is enough to know.
LEMMA DegreedStepIsFine ==
    ASSUME DegreedInv, NEW c \in DegreedCustomers,
           NEW call \in DegreedCallState, NEW course \in DegreedCourseState,
           degreedCall' = [degreedCall EXCEPT ![c] = call],
           degreedCourse' = [degreedCourse EXCEPT ![c] = course],
           degreedIds' \in DegreedId, degreedCache' \in DegreedId,
           DegreedRelies(call, course),
           degreedCall[c].pc \notin DegreedAnswers /\ call.pc = "ok" =>
               /\ degreedCall[c].op = "delete" => course.id = 0
               /\ degreedCall[c].op \in {"create", "update"} => course.payload = "new"
    PROVE  DegreedInv' /\ \A d \in DegreedCustomers : DegreedDone(d)
<1>1. /\ degreedCall \in [DegreedCustomers -> DegreedCallState]
      /\ degreedCourse \in [DegreedCustomers -> DegreedCourseState]
  BY DegreedNow
<1>2. /\ degreedCall' \in [DegreedCustomers -> DegreedCallState]
      /\ \A d \in DegreedCustomers : degreedCall'[d] = IF d = c THEN call ELSE degreedCall[d]
  BY <1>1
<1>3. /\ degreedCourse' \in [DegreedCustomers -> DegreedCourseState]
      /\ \A d \in DegreedCustomers : degreedCourse'[d] = IF d = c THEN course ELSE degreedCourse[d]
  BY <1>1
<1>4. DegreedTypeOK'
  BY <1>2, <1>3 DEF DegreedTypeOK, DegreedCallState, DegreedCourseState, DegreedPCs
<1>5. \A d \in DegreedCustomers : DegreedRelies(degreedCall'[d], degreedCourse'[d])
  BY <1>2, <1>3 DEF DegreedInv
<1>6. ASSUME NEW d \in DegreedCustomers PROVE DegreedDone(d)
  <2>1. CASE d = c
    <3>1. degreedCall'[d] = call /\ degreedCourse'[d] = course
      BY <1>2, <1>3, <2>1
    <3>2. degreedCall[d].op \in {"create", "update", "delete", "assign"}
      BY DegreedNow
    <3> QED
      BY <2>1, <3>1, <3>2 DEF DegreedDone
  <2>2. CASE d # c
    <3>1. degreedCall'[d] = degreedCall[d]
      BY <1>2, <2>2
    <3> QED
      BY <3>1 DEF DegreedDone, DegreedAnswers
  <2> QED
    BY <2>1, <2>2
<1> QED
  BY <1>4, <1>5, <1>6 DEF DegreedInv

\* A call that goes on or ends, its course as it was or as the step has made it.
LEMMA DegreedGoes ==
    ASSUME DegreedInv, NEW c \in DegreedCustomers, NEW pc \in DegreedPCs, NEW course \in DegreedCourseState,
           DegreedGoto(c, pc), degreedCourse' = [degreedCourse EXCEPT ![c] = course],
           degreedIds' \in DegreedId, degreedCache' \in DegreedId,
           degreedCall[c].op = "delete" => pc \in {"fetch", "delete"} \cup DegreedAnswers,
           pc = "delete" => degreedCall[c].op = "delete",
           degreedCall[c].op \in {"create", "update"} =>
               /\ pc \in {"catalog", "fetchSkills", "skills"} /\ degreedCall[c].done = "ok" => course.payload = "new"
               /\ pc = "ok" => course.payload = "new",
           degreedCall[c].op = "delete" /\ pc = "ok" => course.id = 0
    PROVE  DegreedInv' /\ \A d \in DegreedCustomers : DegreedDone(d)
<1> DEFINE call == [degreedCall[c] EXCEPT !.pc = pc, !.attempts = 0]
<1>1. degreedCall' = [degreedCall EXCEPT ![c].pc = pc, ![c].attempts = 0]
  BY DEF DegreedGoto
<1>2. degreedCall \in [DegreedCustomers -> DegreedCallState] /\ degreedCall[c] \in DegreedCallState /\ 0 \in 0 .. DegreedRetries
  BY DegreedNow
<1>3. degreedCall' = [degreedCall EXCEPT ![c] = call]
  BY <1>1, <1>2
<1>4. /\ call \in DegreedCallState /\ call.pc = pc /\ call.op = degreedCall[c].op /\ call.done = degreedCall[c].done
  BY <1>2 DEF DegreedCallState
<1> HIDE DEF call
<1>5. DegreedRelies(call, course)
  BY <1>4 DEF DegreedRelies
<1> QED
  BY <1>3, <1>4, <1>5, DegreedStepIsFine

\* The content has its status and the skills follow.
LEMMA DegreedSkillsFollow ==
    ASSUME DegreedInv, NEW c \in DegreedCustomers, NEW status \in DegreedAnswers, NEW course \in DegreedCourseState,
           DegreedThenSkills(c, status), degreedCourse' = [degreedCourse EXCEPT ![c] = course],
           degreedIds' \in DegreedId, degreedCache' \in DegreedId,
           degreedCall[c].op # "delete", status = "ok" => course.payload = "new"
    PROVE  DegreedInv' /\ \A d \in DegreedCustomers : DegreedDone(d)
<1> DEFINE call == [degreedCall[c] EXCEPT !.pc = "catalog", !.done = status, !.attempts = 0]
<1>1. degreedCall' = [degreedCall EXCEPT ![c].pc = "catalog", ![c].done = status, ![c].attempts = 0]
  BY DEF DegreedThenSkills
<1>2. degreedCall \in [DegreedCustomers -> DegreedCallState] /\ degreedCall[c] \in DegreedCallState /\ 0 \in 0 .. DegreedRetries
  BY DegreedNow
<1>3. degreedCall' = [degreedCall EXCEPT ![c] = call]
  BY <1>1, <1>2
<1>4. call \in DegreedCallState /\ call.pc = "catalog" /\ call.op = degreedCall[c].op /\ call.done = status
  BY <1>2 DEF DegreedCallState, DegreedPCs
<1> HIDE DEF call
<1>5. DegreedRelies(call, course)
  BY <1>4 DEF DegreedRelies
<1> QED
  BY <1>3, <1>4, <1>5, DegreedStepIsFine

DegreedFine == DegreedInv' /\ \A d \in DegreedCustomers : DegreedDone(d)

LEMMA DegreedCourseKept ==
    ASSUME DegreedInv, NEW c \in DegreedCustomers, UNCHANGED degreedCourse
    PROVE  degreedCourse' = [degreedCourse EXCEPT ![c] = degreedCourse[c]]
<1>1. degreedCourse \in [DegreedCustomers -> DegreedCourseState]
  BY DegreedNow
<1> QED
  BY <1>1

\* Requests that get no token or are throttled, and what becomes of the skills.
LEMMA DegreedWaits ==
    ASSUME DegreedInv, NEW c \in DegreedCustomers,
           DegreedNoToken(c) \/ DegreedThrottled(c) \/ DegreedCatalog(c) \/ DegreedSkills(c)
    PROVE  DegreedFine
<1> DEFINE call == degreedCall[c]
<1>1. /\ degreedCall \in [DegreedCustomers -> DegreedCallState] /\ call \in DegreedCallState
      /\ degreedCourse[c] \in DegreedCourseState /\ DegreedRelies(call, degreedCourse[c])
      /\ call.done \in DegreedAnswers /\ degreedIds \in DegreedId /\ degreedCache \in DegreedId
  BY DegreedNow
<1>2. UNCHANGED <<degreedCourse, degreedIds, degreedCache>>
  BY DEF DegreedNoToken, DegreedThrottled, DegreedCatalog, DegreedSkills
<1>3. degreedCourse' = [degreedCourse EXCEPT ![c] = degreedCourse[c]]
  BY <1>2, DegreedCourseKept
<1>4. CASE DegreedThrottled(c)
  <2> DEFINE next == [call EXCEPT !.attempts = call.attempts + 1]
  <2>1. degreedCall' = [degreedCall EXCEPT ![c].attempts = @ + 1] /\ call.attempts < DegreedRetries
    BY <1>4 DEF DegreedThrottled
  <2>2. degreedCall' = [degreedCall EXCEPT ![c] = next]
    BY <2>1, Zenon
  <2>3. call.attempts + 1 \in 0 .. DegreedRetries
    BY <1>1, <2>1, DegreedAssumption DEF DegreedCallState
  <2>4. next \in DegreedCallState /\ next.pc = call.pc /\ next.op = call.op /\ next.done = call.done
    BY <1>1, <2>3 DEF DegreedCallState
  <2> HIDE DEF next
  <2>5. DegreedRelies(next, degreedCourse[c])
    BY <1>1, <2>4 DEF DegreedRelies
  <2>6. DegreedInv' /\ \A d \in DegreedCustomers : DegreedDone(d)
    BY <1>1, <1>2, <1>3, <2>2, <2>4, <2>5, DegreedStepIsFine DEF DegreedAnswers
  <2> QED
    BY <2>6 DEF DegreedFine
<1>5. CASE DegreedNoToken(c) \/ DegreedCatalog(c) \/ DegreedSkills(c)
  <2>1. PICK pc \in {"failed", call.done, "fetchSkills"} :
            /\ DegreedGoto(c, pc)
            /\ pc = "fetchSkills" => call.pc = "catalog"
            /\ pc = "failed" \/ call.pc \in {"fetchSkills", "skills", "catalog"}
    <3>0. call.done # "fetchSkills"
      BY <1>1 DEF DegreedAnswers
    <3>1. CASE DegreedNoToken(c)
      <4>1. DegreedGoto(c, IF call.pc \in {"fetchSkills", "skills"} THEN call.done ELSE "failed")
        BY <3>1 DEF DegreedNoToken
      <4>2. CASE call.pc \in {"fetchSkills", "skills"}
        <5>1. DegreedGoto(c, call.done)
          BY <4>1, <4>2
        <5> QED
          BY <3>0, <4>2, <5>1
      <4>3. CASE call.pc \notin {"fetchSkills", "skills"}
        <5>1. DegreedGoto(c, "failed")
          BY <4>1, <4>3
        <5> QED
          BY <5>1
      <4> QED
        BY <4>2, <4>3
    <3>2. CASE DegreedCatalog(c)
      BY <3>0, <3>2 DEF DegreedCatalog
    <3>3. CASE DegreedSkills(c)
      BY <3>0, <3>3 DEF DegreedSkills
    <3> QED
      BY <1>5, <3>1, <3>2, <3>3
  <2>2. pc \in DegreedPCs /\ pc \in {"ok", "failed", "fetchSkills"} /\ (pc = "ok" => call.done = "ok")
    BY <1>1, <2>1 DEF DegreedPCs, DegreedAnswers
  <2>3. call.op = "delete" => pc = "failed"
    BY <1>1, <2>1 DEF DegreedRelies, DegreedAnswers
  <2>4. call.op \in {"create", "update"} =>
            /\ pc \in {"catalog", "fetchSkills", "skills"} /\ call.done = "ok" => degreedCourse[c].payload = "new"
            /\ pc = "ok" => degreedCourse[c].payload = "new"
    BY <1>1, <2>1, <2>2 DEF DegreedRelies
  <2>5. DegreedInv' /\ \A d \in DegreedCustomers : DegreedDone(d)
    BY <1>1, <1>2, <1>3, <2>1, <2>2, <2>3, <2>4, DegreedGoes DEF DegreedAnswers
  <2> QED
    BY <2>5 DEF DegreedFine
<1> QED
  BY <1>4, <1>5

\* The creation of a course, which may turn into an update.
LEMMA DegreedPosts ==
    ASSUME DegreedInv, NEW c \in DegreedCustomers, DegreedPost(c) PROVE DegreedFine
<1> DEFINE call == degreedCall[c]
<1>1. /\ call \in DegreedCallState /\ degreedCourse[c] \in DegreedCourseState /\ call.pc = "post"
      /\ degreedIds \in DegreedId /\ degreedCache \in DegreedId /\ UNCHANGED degreedCache
      /\ call.op # "delete"
  BY DegreedNow DEF DegreedPost, DegreedRelies, DegreedAnswers
<1>2. CASE /\ DegreedGoto(c, "failed") \/ DegreedGoto(c, "fetch")
           /\ UNCHANGED <<degreedCourse, degreedIds>>
  <2>1. degreedCourse' = [degreedCourse EXCEPT ![c] = degreedCourse[c]]
    BY <1>2, DegreedCourseKept
  <2>2. PICK pc \in {"failed", "fetch"} : DegreedGoto(c, pc)
    BY <1>2
  <2>3. pc \in DegreedPCs /\ pc \notin {"ok", "delete", "catalog", "fetchSkills", "skills"}
    BY DEF DegreedPCs, DegreedAnswers
  <2>4. DegreedInv' /\ \A d \in DegreedCustomers : DegreedDone(d)
    BY <1>1, <1>2, <2>1, <2>2, <2>3, DegreedGoes
  <2> QED
    BY <2>4 DEF DegreedFine
<1>3. CASE /\ degreedIds < DegreedMaxIds /\ degreedIds' = degreedIds + 1
           /\ degreedCourse' = [degreedCourse EXCEPT ![c] = [id |-> degreedIds + 1, payload |-> "new"]]
           /\ DegreedThenSkills(c, "ok") \/ DegreedGoto(c, "failed")
  <2> DEFINE course == [id |-> degreedIds + 1, payload |-> "new"]
  <2>1. degreedIds + 1 \in DegreedId
    BY <1>1, <1>3, DegreedAssumption DEF DegreedId
  <2>2. course \in DegreedCourseState /\ course.payload = "new"
    BY <2>1 DEF DegreedCourseState, DegreedPayload
  <2>3. degreedCourse' = [degreedCourse EXCEPT ![c] = course] /\ degreedIds' \in DegreedId
    BY <1>3, <2>1
  <2> HIDE DEF course
  <2>4. "failed" \in DegreedPCs /\ "ok" \in DegreedAnswers
    BY DEF DegreedPCs, DegreedAnswers
  <2>5. CASE DegreedThenSkills(c, "ok")
    BY <1>1, <2>2, <2>3, <2>4, <2>5, DegreedSkillsFollow DEF DegreedFine
  <2>6. CASE DegreedGoto(c, "failed")
    BY <1>1, <2>2, <2>3, <2>4, <2>6, DegreedGoes DEF DegreedFine
  <2> QED
    BY <1>3, <2>5, <2>6
<1> QED
  BY <1>2, <1>3 DEF DegreedPost

\* The id of the course is found, in the cache or in Degreed, or it is not.
LEMMA DegreedFetches ==
    ASSUME DegreedInv, NEW c \in DegreedCustomers, DegreedFetch(c) PROVE DegreedFine
<1> DEFINE call == degreedCall[c]
           after == DegreedAfterFetch(c)
<1>1. /\ degreedCall \in [DegreedCustomers -> DegreedCallState] /\ call \in DegreedCallState
      /\ degreedCourse[c] \in DegreedCourseState /\ DegreedRelies(call, degreedCourse[c])
      /\ degreedIds \in DegreedId /\ degreedCache \in DegreedId /\ degreedCourse[c].id \in DegreedId
      /\ call.done \in DegreedAnswers /\ call.op \in {"create", "update", "delete", "assign"}
      /\ 0 \in 0 .. DegreedRetries
  BY DegreedNow
<1>2. call.pc \in {"fetch", "fetchSkills"} /\ UNCHANGED <<degreedCourse, degreedIds>>
  BY DEF DegreedFetch
<1>3. degreedCourse' = [degreedCourse EXCEPT ![c] = degreedCourse[c]]
  BY <1>2, DegreedCourseKept
<1>4. CASE \E i \in DegreedId :
             degreedCall' = [degreedCall EXCEPT ![c].id = i, ![c].attempts = 0, ![c].pc = after]
             /\ degreedCache' \in DegreedId
  <2>1. PICK i \in DegreedId :
             degreedCall' = [degreedCall EXCEPT ![c].id = i, ![c].attempts = 0, ![c].pc = after]
             /\ degreedCache' \in DegreedId
    BY <1>4
  <2> DEFINE next == [call EXCEPT !.id = i, !.attempts = 0, !.pc = after]
  <2>2. /\ after \in {"skills", "delete", "patch"}
        /\ after = "skills" <=> call.pc = "fetchSkills"
        /\ after = "delete" <=> call.pc # "fetchSkills" /\ call.op = "delete"
    <3>1. call.pc = "fetchSkills" => call.op # "delete"
      BY <1>1 DEF DegreedRelies, DegreedAnswers
    <3> QED
      BY <3>1 DEF DegreedAfterFetch
  <2> HIDE DEF after
  <2>3. degreedCall' = [degreedCall EXCEPT ![c] = next]
    BY <1>1, <2>1
  <2>4. next \in DegreedCallState /\ next.pc = after /\ next.op = call.op /\ next.done = call.done
    BY <1>1, <2>2 DEF DegreedCallState, DegreedPCs
  <2> HIDE DEF next
  <2>5. DegreedRelies(next, degreedCourse[c])
    BY <1>1, <2>2, <2>4 DEF DegreedRelies, DegreedAnswers
  <2>6. DegreedInv' /\ \A d \in DegreedCustomers : DegreedDone(d)
    BY <1>1, <1>2, <1>3, <2>1, <2>2, <2>3, <2>4, <2>5, DegreedStepIsFine DEF DegreedAnswers
  <2> QED
    BY <2>6 DEF DegreedFine
<1>5. CASE /\ DegreedGoto(c, "failed") \/ (call.pc = "fetchSkills" /\ DegreedGoto(c, call.done))
           /\ UNCHANGED degreedCache
  <2>1. PICK pc \in DegreedAnswers : DegreedGoto(c, pc) /\ (pc = "ok" => call.pc = "fetchSkills" /\ call.done = "ok")
    BY <1>1, <1>5 DEF DegreedAnswers
  <2>2. pc \in DegreedPCs /\ pc \notin {"delete", "catalog", "fetchSkills", "skills"}
    BY <2>1 DEF DegreedPCs, DegreedAnswers
  <2>3. pc = "ok" => call.op # "delete" /\ (call.op \in {"create", "update"} => degreedCourse[c].payload = "new")
    BY <1>1, <2>1 DEF DegreedRelies, DegreedAnswers
  <2>4. DegreedInv' /\ \A d \in DegreedCustomers : DegreedDone(d)
    BY <1>1, <1>2, <1>3, <1>5, <2>1, <2>2, <2>3, DegreedGoes
  <2> QED
    BY <2>4 DEF DegreedFine
<1> QED
  BY <1>1, <1>4, <1>5 DEF DegreedFetch

\* An update and a deletion, of the customer's own course or of nothing.
LEMMA DegreedChanges ==
    ASSUME DegreedInv, NEW c \in DegreedCustomers, DegreedPatch(c) \/ DegreedDelete(c) PROVE DegreedFine
<1> DEFINE call == degreedCall[c]
<1>1. /\ call \in DegreedCallState /\ degreedCourse[c] \in DegreedCourseState
      /\ DegreedRelies(call, degreedCourse[c]) /\ degreedIds \in DegreedId /\ degreedCache \in DegreedId
      /\ UNCHANGED <<degreedIds, degreedCache>> /\ 0 \in DegreedId
  BY DegreedNow DEF DegreedPatch, DegreedDelete
<1>2. "failed" \in DegreedPCs /\ "ok" \in DegreedPCs /\ "ok" \in DegreedAnswers /\ "failed" \in DegreedAnswers
  BY DEF DegreedPCs, DegreedAnswers
<1>3. CASE DegreedPatch(c)
  <2> DEFINE course == [degreedCourse[c] EXCEPT !.payload = "new"]
  <2>1. call.pc = "patch" /\ call.op # "delete"
    BY <1>1, <1>3 DEF DegreedPatch, DegreedRelies, DegreedAnswers
  <2>2. course \in DegreedCourseState /\ course.payload = "new"
    BY <1>1 DEF DegreedCourseState, DegreedPayload
  <2>3. CASE /\ degreedCourse' = [degreedCourse EXCEPT ![c].payload = "new"]
             /\ DegreedThenSkills(c, "ok") \/ DegreedGoto(c, "failed")
    <3>1. degreedCourse' = [degreedCourse EXCEPT ![c] = course]
      BY <2>3, Zenon
    <3> HIDE DEF course
    <3>2. CASE DegreedThenSkills(c, "ok")
      BY <1>1, <1>2, <2>1, <2>2, <3>1, <3>2, DegreedSkillsFollow DEF DegreedFine
    <3>3. CASE DegreedGoto(c, "failed")
      BY <1>1, <1>2, <2>1, <2>2, <3>1, <3>3, DegreedGoes DEF DegreedFine
    <3> QED
      BY <2>3, <3>2, <3>3
  <2>4. CASE (DegreedThenSkills(c, "failed") \/ DegreedGoto(c, "failed")) /\ UNCHANGED degreedCourse
    <3>1. degreedCourse' = [degreedCourse EXCEPT ![c] = degreedCourse[c]]
      BY <2>4, DegreedCourseKept
    <3>2. CASE DegreedThenSkills(c, "failed")
      BY <1>1, <1>2, <2>1, <3>1, <3>2, DegreedSkillsFollow DEF DegreedFine
    <3>3. CASE DegreedGoto(c, "failed")
      BY <1>1, <1>2, <2>1, <3>1, <3>3, DegreedGoes DEF DegreedFine
    <3> QED
      BY <2>4, <3>2, <3>3
  <2> QED
    BY <1>3, <2>3, <2>4 DEF DegreedPatch
<1>4. CASE DegreedDelete(c)
  <2> DEFINE gone == [id |-> 0, payload |-> "none"]
  <2>1. call.pc = "delete" /\ call.op = "delete"
    BY <1>1, <1>4 DEF DegreedDelete, DegreedRelies
  <2>2. gone \in DegreedCourseState /\ gone.id = 0
    BY <1>1 DEF DegreedCourseState, DegreedPayload
  <2>3. CASE /\ degreedCourse' = [degreedCourse EXCEPT ![c] = gone]
             /\ DegreedGoto(c, "ok") \/ DegreedGoto(c, "failed")
    <3> HIDE DEF gone
    <3>1. PICK pc \in DegreedAnswers : DegreedGoto(c, pc)
      BY <1>2, <2>3
    <3>2. pc \in DegreedPCs /\ pc # "delete"
      BY DEF DegreedPCs, DegreedAnswers
    <3> QED
      BY <1>1, <2>1, <2>2, <2>3, <3>1, <3>2, DegreedGoes DEF DegreedFine
  <2>4. CASE DegreedGoto(c, "failed") /\ UNCHANGED degreedCourse
    <3>1. degreedCourse' = [degreedCourse EXCEPT ![c] = degreedCourse[c]]
      BY <2>4, DegreedCourseKept
    <3> QED
      BY <1>1, <1>2, <2>1, <2>4, <3>1, DegreedGoes DEF DegreedFine, DegreedAnswers
  <2> QED
    BY <1>4, <2>3, <2>4 DEF DegreedDelete
<1> QED
  BY <1>3, <1>4

LEMMA DegreedInvStep ==
    DegreedInv /\ [DegreedNext]_degreedVars =>
        DegreedInv' /\ [\A c \in DegreedCustomers : DegreedDone(c)]_degreedVars
<1> SUFFICES ASSUME DegreedInv, [DegreedNext]_degreedVars
             PROVE  DegreedFine \/ (DegreedInv' /\ UNCHANGED degreedVars)
  BY DEF DegreedFine
<1>1. ASSUME NEW c \in DegreedCustomers, NEW op \in {"create", "update", "delete", "assign"}, DegreedBegin(c, op)
      PROVE  DegreedFine
  <2> DEFINE pc == CASE op = "create" -> "post" [] op = "assign" -> "fetchSkills" [] OTHER -> "fetch"
             call == [op |-> op, id |-> 0, attempts |-> 0, done |-> "ok", pc |-> pc]
             payload == IF degreedCourse[c].payload = "new" /\ op \in {"create", "update"} THEN "old"
                        ELSE degreedCourse[c].payload
             course == [degreedCourse[c] EXCEPT !.payload = payload]
  <2>1. /\ degreedCall[c].pc \in DegreedAnswers /\ UNCHANGED <<degreedIds, degreedCache>>
        /\ degreedCall' = [degreedCall EXCEPT ![c] = call]
    BY <1>1 DEF DegreedBegin
  <2>2. degreedCourse' = [degreedCourse EXCEPT ![c] = course]
    <3>1. degreedCourse' = [degreedCourse EXCEPT ![c].payload = payload]
      BY <1>1 DEF DegreedBegin
    <3> HIDE DEF payload
    <3> QED
      BY <3>1, Zenon
  <2>3. /\ degreedCourse[c] \in DegreedCourseState /\ degreedCourse[c].payload \in DegreedPayload
        /\ degreedIds \in DegreedId /\ degreedCache \in DegreedId /\ 0 \in DegreedId /\ 0 \in 0 .. DegreedRetries
    BY DegreedNow
  <2>4. payload \in DegreedPayload
    BY <2>3 DEF DegreedPayload
  <2>5. course \in DegreedCourseState
    <3> HIDE DEF payload
    <3> QED
      BY <2>3, <2>4 DEF DegreedCourseState
  <2>6. pc \in {"post", "fetch", "fetchSkills"} /\ (op = "delete" => pc = "fetch") /\ (pc = "fetchSkills" => op = "assign")
    OBVIOUS
  <2> HIDE DEF pc
  <2>7. call \in DegreedCallState /\ call.op = op /\ call.pc = pc
    BY <2>3, <2>6 DEF DegreedCallState, DegreedPCs, DegreedAnswers
  <2> HIDE DEF call, course
  <2>8. DegreedRelies(call, course)
    BY <2>6, <2>7 DEF DegreedRelies
  <2>9. DegreedInv' /\ \A d \in DegreedCustomers : DegreedDone(d)
    BY <2>1, <2>2, <2>3, <2>5, <2>7, <2>8, DegreedStepIsFine
  <2> QED
    BY <2>9 DEF DegreedFine
<1>2. ASSUME NEW c \in DegreedCustomers, DegreedStep(c) PROVE DegreedFine
  BY <1>2, DegreedWaits, DegreedPosts, DegreedFetches, DegreedChanges DEF DegreedStep
<1>3. CASE DegreedCacheExpires
  <2>1. degreedCache' = 0 /\ UNCHANGED <<degreedCourse, degreedIds, degreedCall>> /\ 0 \in DegreedId
    BY <1>3, DegreedAssumption DEF DegreedCacheExpires, DegreedId
  <2>2. DegreedInv'
    BY <2>1 DEF DegreedInv, DegreedTypeOK
  <2> QED
    BY <2>1, <2>2 DEF DegreedFine, DegreedDone, DegreedAnswers
<1>4. CASE UNCHANGED degreedVars
  BY <1>4 DEF degreedVars, DegreedInv, DegreedTypeOK
<1> QED
  BY <1>1, <1>2, <1>3, <1>4 DEF DegreedNext

\* Content whose request Degreed2's client answers without error is what Degreed has, whoever's
\* id was in the cache and however often requests are throttled (DegreedOkMeansDone).
THEOREM DegreedMeansIt == DegreedSpec => DegreedOkMeansDone
<1> QED
  BY DegreedInvInit, DegreedInvStep, PTL DEF DegreedSpec, DegreedOkMeansDone, DegreedDone

-----------------------------------------------------------------------------
(* Grades in Canvas *)

AssignmentState == [id : CanvasIds, key : CanvasKeysListed, stamp : CanvasIds, graded : SUBSET CanvasLearners]
DedupeState == [pc : {"idle", "list", "remove"}, page : Nat \ {0}, newest : SUBSET DedupeHeard,
                doomed : SUBSET CanvasIds, raced : SUBSET CanvasKeysListed]
ReportState == [learner : CanvasLearners, key : CanvasGradeKeys, page : Nat \ {0},
                assignment : 0 .. CanvasMaxAssignments, raced : BOOLEAN,
                pc : {"user", "course", "list", "create", "submit"} \cup CanvasIdle]

GradebookTyped ==
    /\ assignments \in Seq(AssignmentState) /\ canvasMade \in 0 .. CanvasMaxAssignments
    /\ canvasLinked \subseteq CanvasLearners /\ canvasUsers \subseteq CanvasLearners
    /\ canvasReport \in [CanvasReporters -> ReportState]
    /\ canvasDedupe \in [CanvasCleaners -> DedupeState]

\* Ids are given once.
AssignmentsApart(list, made) ==
    \A m \in 1 .. Len(list) :
        /\ list[m].id <= made
        /\ \A n \in 1 .. Len(list) : m # n => list[m].id # list[n].id

\* What a clean-up would keep is not to be removed, and is listed unless another clean-up
\* removed one of its integration id; each assignment that is to be removed has one of the same
\* integration id that is kept, and the pages that were not read have neither.
DedupeKnows(dedupe, list, made) ==
    /\ dedupe.pc = "idle" => dedupe.newest = {} /\ dedupe.doomed = {}
    /\ \A h \in dedupe.newest :
          /\ h.id \notin dedupe.doomed /\ h.id <= made
          /\ \A g \in dedupe.newest : g.id = h.id => g.key = h.key
          /\ \A n \in 1 .. Len(list) : list[n].id = h.id => list[n].key = h.key
          /\ h.key \notin dedupe.raced => \E n \in 1 .. Len(list) : list[n].id = h.id
    /\ \A i \in dedupe.doomed : i <= made
    /\ \A n \in 1 .. Len(list) :
          /\ list[n].id \in dedupe.doomed => \E h \in dedupe.newest : h.key = list[n].key
          /\ dedupe.pc = "list" /\ n >= dedupe.page =>
                list[n].id \notin dedupe.doomed /\ \A h \in dedupe.newest : h.id # list[n].id

\* A report whose list is still Canvas's has not missed an assignment on the pages it has read.
ReportKnows(report, list) ==
    /\ report.pc \in {"user", "course"} => report.page = 1
    /\ ~report.raced =>
          \A n \in 1 .. Len(list) :
              /\ report.pc = "list" /\ n < report.page => list[n].key # report.key
              /\ report.pc = "create" /\ n <= CanvasPageLimit => list[n].key # report.key

GradebookKnows ==
    /\ AssignmentsApart(assignments, canvasMade)
    /\ \A d \in CanvasCleaners : DedupeKnows(canvasDedupe[d], assignments, canvasMade)
    /\ \A r \in CanvasReporters : ReportKnows(canvasReport[r], assignments)

GradebookInv == GradebookTyped /\ GradebookKnows

\* What a step has to do, besides.
GradebookKeeps ==
    /\ \A k \in CanvasKeysHeld \ CanvasKeysHeld' :
          \E d \in CanvasCleaners : canvasDedupe[d].pc = "remove" /\ k \in canvasDedupe[d].raced
    /\ \A r \in CanvasReporters :
          canvasReport[r].pc = "create" /\ Len(assignments') > Len(assignments)
              /\ canvasReport'[r].pc \in {"submit", "failed"} =>
              \/ canvasReport[r].raced
              \/ \A n \in 1 .. Len(assignments) :
                     n <= CanvasPageLimit => assignments[n].key # canvasReport[r].key

GradebookFine == GradebookInv' /\ GradebookKeeps

LEMMA GradebookInvInit == GradebookInit => GradebookInv
<1> SUFFICES ASSUME GradebookInit PROVE GradebookInv
  OBVIOUS
<1>1. (CHOOSE l \in CanvasLearners : TRUE) \in CanvasLearners /\ (CHOOSE k \in CanvasGradeKeys : TRUE) \in CanvasGradeKeys
  BY CanvasGradebookAssumption
<1>2. 0 \in 0 .. CanvasMaxAssignments /\ 1 \in Nat \ {0} /\ <<>> \in Seq(AssignmentState) /\ Len(<<>>) = 0
  BY CanvasGradebookAssumption
<1>3. canvasReport \in [CanvasReporters -> ReportState] /\ \A r \in CanvasReporters : canvasReport[r].pc = "failed"
  BY <1>1, <1>2 DEF GradebookInit, ReportOver, ReportState, CanvasIdle
<1>4. /\ canvasDedupe \in [CanvasCleaners -> DedupeState]
      /\ \A d \in CanvasCleaners : canvasDedupe[d].newest = {} /\ canvasDedupe[d].doomed = {}
  BY <1>2 DEF GradebookInit, DedupeState, DedupeBlank
<1>5. GradebookTyped
  BY <1>2, <1>3, <1>4 DEF GradebookInit, GradebookTyped
<1>6. 1 .. Len(assignments) = {}
  BY <1>2 DEF GradebookInit
<1>7. GradebookKnows
  BY <1>3, <1>4, <1>6 DEF GradebookKnows, AssignmentsApart, DedupeKnows, ReportKnows
<1> QED
  BY <1>5, <1>7 DEF GradebookInv

\* A list with the same assignments, whoever has edited or graded them.
LEMMA RelabelledKnows ==
    ASSUME NEW list, NEW after, NEW made \in Nat, NEW more \in Nat, made <= more,
           Len(after) = Len(list), Len(list) \in Nat,
           \A n \in 1 .. Len(list) : after[n].id = list[n].id /\ after[n].key = list[n].key,
           \A n \in 1 .. Len(list) : list[n].id \in Nat,
           AssignmentsApart(list, made)
    PROVE  /\ AssignmentsApart(after, more)
           /\ \A dedupe \in DedupeState : DedupeKnows(dedupe, list, made) => DedupeKnows(dedupe, after, more)
           /\ \A report : ReportKnows(report, list) => ReportKnows(report, after)
<1>1. AssignmentsApart(after, more)
  BY DEF AssignmentsApart
<1>2. ASSUME NEW dedupe \in DedupeState, DedupeKnows(dedupe, list, made) PROVE DedupeKnows(dedupe, after, more)
  <2>1. (\A h \in dedupe.newest : h.id \in Nat) /\ (\A i \in dedupe.doomed : i \in Nat)
    BY DEF DedupeState, DedupeHeard, CanvasIds
  <2> QED
    BY <1>2, <2>1 DEF DedupeKnows
<1>3. ASSUME NEW report, ReportKnows(report, list) PROVE ReportKnows(report, after)
  BY <1>3 DEF ReportKnows
<1> QED
  BY <1>1, <1>2, <1>3

\* One more assignment at the end of the list.
LEMMA AppendedKnows ==
    ASSUME NEW list \in Seq(AssignmentState), NEW made \in Nat, NEW a \in AssignmentState, a.id = made + 1,
           AssignmentsApart(list, made)
    PROVE  /\ AssignmentsApart(Append(list, a), made + 1)
           /\ \A dedupe \in DedupeState : DedupeKnows(dedupe, list, made) => DedupeKnows(dedupe, Append(list, a), made + 1)
           /\ \A report : ReportKnows(report, list) /\ (report.raced \/ a.key # report.key)
                 => ReportKnows(report, Append(list, a))
<1> DEFINE after == Append(list, a)
<1>1. /\ Len(list) \in Nat /\ Len(after) = Len(list) + 1 /\ after[Len(list) + 1] = a
      /\ \A n \in 1 .. Len(list) : after[n] = list[n] /\ list[n].id \in Nat
  <2>1. Len(list) \in Nat /\ \A n \in 1 .. Len(list) : list[n] \in AssignmentState
    OBVIOUS
  <2>2. \A n \in 1 .. Len(list) : list[n].id \in Nat
    BY <2>1 DEF AssignmentState, CanvasIds
  <2> QED
    BY <2>1, <2>2, AppendProperties
<1> HIDE DEF after
<1>2. AssignmentsApart(after, made + 1)
  BY <1>1, SMTT(40) DEF AssignmentsApart
<1>3. ASSUME NEW dedupe \in DedupeState, DedupeKnows(dedupe, list, made) PROVE DedupeKnows(dedupe, after, made + 1)
  <2>1. /\ \A h \in dedupe.newest : h.id \in Nat /\ h.id <= made
        /\ \A i \in dedupe.doomed : i \in Nat /\ i <= made
    BY <1>3 DEF DedupeState, DedupeHeard, CanvasIds, DedupeKnows
  <2>2. a.id \notin dedupe.doomed /\ \A h \in dedupe.newest : h.id # a.id
    BY <2>1
  <2>3. ASSUME NEW h \in dedupe.newest
        PROVE  /\ \A n \in 1 .. Len(after) : after[n].id = h.id => after[n].key = h.key
               /\ h.key \notin dedupe.raced => \E n \in 1 .. Len(after) : after[n].id = h.id
    <3>1. ASSUME NEW n \in 1 .. Len(after), after[n].id = h.id PROVE after[n].key = h.key
      <4>1. n # Len(list) + 1
        BY <1>1, <2>2, <3>1
      <4>2. n \in 1 .. Len(list)
        BY <1>1, <4>1
      <4> QED
        BY <1>1, <1>3, <3>1, <4>2 DEF DedupeKnows
    <3>2. ASSUME h.key \notin dedupe.raced PROVE \E n \in 1 .. Len(after) : after[n].id = h.id
      BY <1>1, <1>3, <3>2 DEF DedupeKnows
    <3> QED
      BY <3>1, <3>2
  <2>4. \A n \in 1 .. Len(after) :
          /\ after[n].id \in dedupe.doomed => \E h \in dedupe.newest : h.key = after[n].key
          /\ dedupe.pc = "list" /\ n >= dedupe.page =>
                after[n].id \notin dedupe.doomed /\ \A h \in dedupe.newest : h.id # after[n].id
    <3> SUFFICES ASSUME NEW n \in 1 .. Len(after)
                 PROVE  /\ after[n].id \in dedupe.doomed => \E h \in dedupe.newest : h.key = after[n].key
                        /\ dedupe.pc = "list" /\ n >= dedupe.page =>
                              after[n].id \notin dedupe.doomed /\ \A h \in dedupe.newest : h.id # after[n].id
      OBVIOUS
    <3>1. CASE n = Len(list) + 1
      BY <1>1, <2>2, <3>1
    <3>2. CASE n \in 1 .. Len(list)
      BY <1>1, <1>3, <3>2 DEF DedupeKnows
    <3> QED
      BY <1>1, <3>1, <3>2
  <2>5. \A h \in dedupe.newest :
          /\ h.id \notin dedupe.doomed /\ h.id <= made + 1
          /\ \A g \in dedupe.newest : g.id = h.id => g.key = h.key
    BY <1>3, <2>1 DEF DedupeKnows
  <2>6. \A i \in dedupe.doomed : i <= made + 1
    BY <2>1
  <2> QED
    BY <1>3, <2>3, <2>4, <2>5, <2>6 DEF DedupeKnows
<1>4. ASSUME NEW report, ReportKnows(report, list), report.raced \/ a.key # report.key PROVE ReportKnows(report, after)
  BY <1>1, <1>4 DEF ReportKnows
<1> QED
  BY <1>2, <1>3, <1>4 DEF after

\* One assignment less.
LEMMA RemovedFromList ==
    ASSUME NEW S, NEW list \in Seq(S), NEW p \in 1 .. Len(list)
    PROVE  /\ RemoveAt(list, p) \in Seq(S) /\ Len(RemoveAt(list, p)) = Len(list) - 1
           /\ \A n \in 1 .. Len(list) - 1 :
                 /\ n < p => RemoveAt(list, p)[n] = list[n]
                 /\ ~(n < p) => RemoveAt(list, p)[n] = list[n + 1]
<1> DEFINE low == SubSeq(list, 1, p - 1)
           high == SubSeq(list, p + 1, Len(list))
<1>1. Len(list) \in Nat /\ p \in Nat
  OBVIOUS
<1>2. low \in Seq(S) /\ Len(low) = p - 1 /\ \A n \in 1 .. p - 1 : low[n] = list[n]
  BY <1>1
<1>3. high \in Seq(S) /\ Len(high) = Len(list) - p /\ \A n \in 1 .. Len(list) - p : high[n] = list[p + n]
  BY <1>1
<1>4. RemoveAt(list, p) = low \o high
  BY DEF RemoveAt
<1> HIDE DEF low, high
<1>5. /\ low \o high \in Seq(S) /\ Len(low \o high) = Len(low) + Len(high)
      /\ \A n \in 1 .. Len(low) + Len(high) :
            (low \o high)[n] = IF n <= Len(low) THEN low[n] ELSE high[n - Len(low)]
  <2>1. low \in Seq(S) /\ high \in Seq(S)
    BY <1>2, <1>3
  <2> QED
    BY <2>1, ConcatProperties, Zenon
<1>6. Len(low \o high) = Len(list) - 1
  BY <1>1, <1>2, <1>3, <1>5
<1>7. ASSUME NEW n \in 1 .. Len(list) - 1
      PROVE  /\ n < p => (low \o high)[n] = list[n]
             /\ ~(n < p) => (low \o high)[n] = list[n + 1]
  <2>1. n \in 1 .. Len(low) + Len(high)
    BY <1>1, <1>2, <1>3
  <2>2. (low \o high)[n] = IF n <= p - 1 THEN low[n] ELSE high[n - (p - 1)]
    BY <1>2, <1>5, <2>1
  <2>3. CASE n < p
    <3>1. n \in 1 .. p - 1 /\ n <= p - 1
      BY <1>1, <2>3
    <3>2. (low \o high)[n] = low[n]
      BY <2>2, <3>1
    <3> QED
      BY <1>2, <2>3, <3>1, <3>2
  <2>4. CASE n >= p
    <3>1. n - (p - 1) \in 1 .. Len(list) - p /\ p + (n - (p - 1)) = n + 1
      BY <1>1, <2>4
    <3>2. ~(n <= p - 1) /\ ~(n < p)
      BY <1>1, <2>4
    <3>3. (low \o high)[n] = high[n - (p - 1)]
      BY <2>2, <3>2
    <3>4. high[n - (p - 1)] = list[p + (n - (p - 1))]
      BY <1>3, <3>1
    <3>5. high[n - (p - 1)] = list[n + 1]
      BY <3>1, <3>4
    <3> QED
      BY <3>2, <3>3, <3>5, Zenon
  <2>5. n < p \/ n >= p
    BY <1>1
  <2> QED
    BY <2>3, <2>4, <2>5, Zenon
<1> QED
  BY <1>4, <1>5, <1>6, <1>7

\* A step of one report, the list as it was.
LEMMA ReportMoved ==
    ASSUME GradebookInv, NEW r \in CanvasReporters, NEW report \in ReportState,
           canvasReport' = [canvasReport EXCEPT ![r] = report], ReportKnows(report, assignments),
           UNCHANGED <<assignments, canvasMade, canvasDedupe>>,
           canvasLinked' \subseteq CanvasLearners, canvasUsers' \subseteq CanvasLearners
    PROVE  GradebookFine
<1>1. canvasReport \in [CanvasReporters -> ReportState]
  BY DEF GradebookInv, GradebookTyped
<1>2. /\ canvasReport' \in [CanvasReporters -> ReportState]
      /\ \A q \in CanvasReporters : canvasReport'[q] = IF q = r THEN report ELSE canvasReport[q]
  BY <1>1
<1>3. GradebookTyped'
  BY <1>2 DEF GradebookInv, GradebookTyped
<1>4. GradebookKnows'
  <2>1. \A q \in CanvasReporters : ReportKnows(canvasReport'[q], assignments)
    BY <1>2 DEF GradebookInv, GradebookKnows
  <2> QED
    BY <2>1 DEF GradebookInv, GradebookKnows
<1>5. GradebookKeeps
  <2>1. Len(assignments') = Len(assignments) /\ Len(assignments) \in Nat /\ CanvasKeysHeld' = CanvasKeysHeld
    BY DEF GradebookInv, GradebookTyped, CanvasKeysHeld
  <2> QED
    BY <2>1 DEF GradebookKeeps
<1> QED
  BY <1>3, <1>4, <1>5 DEF GradebookFine, GradebookInv

\* A report that is over knows nothing any more.
LEMMA ReportIsOver ==
    ASSUME NEW pc \in CanvasIdle, NEW list
    PROVE  ReportOver(pc) \in ReportState /\ ReportOver(pc).pc = pc /\ ReportKnows(ReportOver(pc), list)
<1>1. (CHOOSE l \in CanvasLearners : TRUE) \in CanvasLearners /\ (CHOOSE k \in CanvasGradeKeys : TRUE) \in CanvasGradeKeys
  BY CanvasGradebookAssumption
<1>2. 0 \in 0 .. CanvasMaxAssignments /\ 1 \in Nat \ {0}
  BY CanvasGradebookAssumption
<1>3. ReportOver(pc) \in ReportState /\ ReportOver(pc).pc = pc
  BY <1>1, <1>2 DEF ReportOver, ReportState
<1>4. pc \notin {"user", "course", "list", "create"}
  BY DEF CanvasIdle
<1> QED
  BY <1>3, <1>4 DEF ReportKnows

\* A report that has its assignment needs the list no more.
LEMMA ReportHasFound ==
    ASSUME NEW report \in ReportState, NEW i \in 0 .. CanvasMaxAssignments, NEW list
    PROVE  /\ ReportFinds(report, i) \in ReportState /\ ReportFinds(report, i).pc = "submit"
           /\ ReportKnows(ReportFinds(report, i), list)
<1>1. ReportFinds(report, i) \in ReportState /\ ReportFinds(report, i).pc = "submit"
  BY DEF ReportFinds, ReportState
<1> QED
  BY <1>1 DEF ReportKnows

\* A report that is raced knows of no list.
LEMMA ReportIsRaced ==
    ASSUME NEW report \in ReportState, NEW list, NEW after, ReportKnows(report, list)
    PROVE  ReportRaced(report) \in ReportState /\ ReportKnows(ReportRaced(report), after)
<1> DEFINE flag == report.raced \/ report.pc \in {"list", "create"}
           raced == [report EXCEPT !.raced = flag]
<1>1. ReportRaced(report) = raced
  BY DEF ReportRaced
<1>2. flag \in BOOLEAN /\ (report.pc \in {"list", "create"} => flag)
  BY Zenon
<1> HIDE DEF flag
<1>3. raced \in ReportState /\ raced.pc = report.pc /\ raced.page = report.page /\ raced.raced = flag
  BY <1>2 DEF ReportState
<1> HIDE DEF raced
<1>4. ReportKnows(raced, after)
  BY <1>2, <1>3 DEF ReportKnows
<1> QED
  BY <1>1, <1>3, <1>4

\* A report that goes on.
LEMMA ReportWent ==
    ASSUME GradebookInv, NEW r \in CanvasReporters,
           NEW pc \in {"user", "course", "list", "create", "submit"} \cup CanvasIdle, ReportGoto(r, pc)
    PROVE  \E report \in ReportState :
               /\ canvasReport' = [canvasReport EXCEPT ![r] = report]
               /\ report.pc = pc /\ report.key = canvasReport[r].key /\ report.page = canvasReport[r].page
               /\ report.raced = canvasReport[r].raced
<1> DEFINE report == [canvasReport[r] EXCEPT !.pc = pc]
<1>1. canvasReport[r] \in ReportState
  BY DEF GradebookInv, GradebookTyped
<1>2. canvasReport' = [canvasReport EXCEPT ![r].pc = pc]
  BY DEF ReportGoto
<1>3. canvasReport' = [canvasReport EXCEPT ![r] = report]
  BY <1>2, Zenon
<1>4. /\ report \in ReportState /\ report.pc = pc /\ report.key = canvasReport[r].key
      /\ report.page = canvasReport[r].page /\ report.raced = canvasReport[r].raced
  BY <1>1 DEF ReportState
<1> HIDE DEF report
<1> QED
  BY <1>3, <1>4

\* A report begins, fails, finds the learner and the course.
LEMMA ReportGoesOn ==
    ASSUME GradebookInv, NEW r \in CanvasReporters,
           \/ \E l \in canvasLinked, k \in CanvasGradeKeys : ReportBegin(r, l, k)
           \/ ReportFails(r) \/ ReportUser(r) \/ ReportCourse(r)
    PROVE  GradebookFine
<1>1. canvasReport[r] \in ReportState /\ canvasLinked \subseteq CanvasLearners /\ canvasUsers \subseteq CanvasLearners
  BY DEF GradebookInv, GradebookTyped
<1>2. CASE \E l \in canvasLinked, k \in CanvasGradeKeys : ReportBegin(r, l, k)
  <2>1. PICK l \in canvasLinked, k \in CanvasGradeKeys : ReportBegin(r, l, k)
    BY <1>2
  <2> DEFINE report == [learner |-> l, key |-> k, page |-> 1, assignment |-> 0, raced |-> FALSE, pc |-> "user"]
  <2>2. /\ canvasReport' = [canvasReport EXCEPT ![r] = report]
        /\ UNCHANGED <<assignments, canvasMade, canvasLinked, canvasUsers, canvasDedupe>>
    BY <2>1 DEF ReportBegin
  <2>3. report \in ReportState /\ report.pc = "user" /\ report.page = 1
    BY <1>1, CanvasGradebookAssumption DEF ReportState
  <2> HIDE DEF report
  <2>4. ReportKnows(report, assignments)
    BY <2>3 DEF ReportKnows
  <2> QED
    BY <1>1, <2>2, <2>3, <2>4, ReportMoved
<1>3. CASE ReportUser(r) \/ ReportCourse(r)
  <2>1. /\ UNCHANGED <<assignments, canvasMade, canvasUsers, canvasDedupe>>
        /\ canvasLinked' \subseteq CanvasLearners
        /\ \/ ReportGoto(r, "course") /\ canvasReport[r].pc = "user"
           \/ ReportGoto(r, "list") /\ canvasReport[r].pc = "course"
    BY <1>1, <1>3 DEF ReportUser, ReportCourse
  <2>2. PICK pc \in {"course", "list"} :
             /\ ReportGoto(r, pc)
             /\ pc = "course" => canvasReport[r].pc = "user"
             /\ pc = "list" => canvasReport[r].pc = "course"
    BY <2>1
  <2>3. PICK report \in ReportState :
             /\ canvasReport' = [canvasReport EXCEPT ![r] = report]
             /\ report.pc = pc /\ report.key = canvasReport[r].key /\ report.page = canvasReport[r].page
             /\ report.raced = canvasReport[r].raced
    BY <2>2, ReportWent
  <2>4. ReportKnows(canvasReport[r], assignments)
    BY DEF GradebookInv, GradebookKnows
  <2>5. ReportKnows(report, assignments)
    BY <2>2, <2>3, <2>4 DEF ReportKnows
  <2> QED
    BY <1>1, <2>1, <2>3, <2>5, ReportMoved
<1>4. CASE ReportFails(r)
  <2>1. /\ canvasReport' = [canvasReport EXCEPT ![r] = ReportOver("failed")]
        /\ UNCHANGED <<assignments, canvasMade, canvasLinked, canvasUsers, canvasDedupe>>
    BY <1>4 DEF ReportFails, ReportEnds
  <2>2. ReportOver("failed") \in ReportState /\ ReportKnows(ReportOver("failed"), assignments)
    BY ReportIsOver DEF CanvasIdle
  <2> QED
    BY <1>1, <2>1, <2>2, ReportMoved
<1> QED
  BY <1>2, <1>3, <1>4

\* A report reads a page.
LEMMA ReportReads ==
    ASSUME GradebookInv, NEW r \in CanvasReporters, ReportList(r) PROVE GradebookFine
<1> DEFINE old == canvasReport[r]
<1>1. /\ canvasReport \in [CanvasReporters -> ReportState] /\ old \in ReportState /\ ReportKnows(old, assignments)
      /\ canvasLinked \subseteq CanvasLearners /\ canvasUsers \subseteq CanvasLearners
      /\ old.page \in Nat \ {0} /\ old.pc = "list" /\ assignments \in Seq(AssignmentState)
      /\ UNCHANGED <<assignments, canvasMade, canvasLinked, canvasUsers, canvasDedupe>>
  BY DEF GradebookInv, GradebookTyped, GradebookKnows, ReportList, ReportState
<1>2. CASE /\ old.page <= Len(assignments) /\ assignments[old.page].key = old.key
           /\ canvasReport' = [canvasReport EXCEPT ![r] = ReportFinds(@, assignments[old.page].id)]
  <2> DEFINE report == ReportFinds(old, assignments[old.page].id)
  <2>1. assignments[old.page].id \in 0 .. CanvasMaxAssignments
    <3>1. old.page \in 1 .. Len(assignments)
      BY <1>1, <1>2
    <3>2. assignments[old.page] \in AssignmentState
      BY <1>1, <3>1
    <3> QED
      BY <3>2, CanvasGradebookAssumption DEF AssignmentState, CanvasIds
  <2>2. canvasReport' = [canvasReport EXCEPT ![r] = report]
    BY <1>1, <1>2
  <2>3. report \in ReportState /\ ReportKnows(report, assignments)
    BY <1>1, <2>1, ReportHasFound
  <2> HIDE DEF report
  <2> QED
    BY <1>1, <2>2, <2>3, ReportMoved
<1>3. CASE /\ ~(old.page <= Len(assignments) /\ assignments[old.page].key = old.key)
           /\ canvasReport' = [canvasReport EXCEPT ![r].page = old.page + 1]
  <2> DEFINE report == [old EXCEPT !.page = old.page + 1]
  <2>1. canvasReport' = [canvasReport EXCEPT ![r] = report]
    BY <1>3, Zenon
  <2>2. /\ report \in ReportState /\ report.pc = "list" /\ report.page = old.page + 1
        /\ report.key = old.key /\ report.raced = old.raced
    BY <1>1, SMTT(40) DEF ReportState
  <2> HIDE DEF report
  <2>3. ReportKnows(report, assignments)
    <3> SUFFICES ASSUME ~report.raced, NEW n \in 1 .. Len(assignments), n < report.page
                 PROVE  assignments[n].key # report.key
      BY <2>2 DEF ReportKnows
    <3>1. CASE n = old.page
      BY <1>3, <2>2, <3>1
    <3>2. CASE n < old.page
      BY <1>1, <2>2, <3>2 DEF ReportKnows
    <3> QED
      BY <1>1, <2>2, <3>1, <3>2
  <2> QED
    BY <1>1, <2>1, <2>2, <2>3, ReportMoved
<1>4. CASE /\ ~(old.page <= Len(assignments) /\ assignments[old.page].key = old.key)
           /\ ~(old.page < Len(assignments) /\ old.page < CanvasPageLimit)
           /\ ReportGoto(r, "create")
  <2>1. PICK report \in ReportState :
             /\ canvasReport' = [canvasReport EXCEPT ![r] = report]
             /\ report.pc = "create" /\ report.key = old.key /\ report.page = old.page
             /\ report.raced = old.raced
    BY <1>4, ReportWent
  <2>2. ReportKnows(report, assignments)
    <3> SUFFICES ASSUME ~report.raced, NEW n \in 1 .. Len(assignments), n <= CanvasPageLimit
                 PROVE  assignments[n].key # report.key
      BY <2>1 DEF ReportKnows
    <3>1. CASE n = old.page
      BY <1>4, <2>1, <3>1
    <3>2. CASE n < old.page
      BY <1>1, <2>1, <3>2 DEF ReportKnows
    <3>3. n <= old.page
      BY <1>1, <1>4, CanvasGradebookAssumption
    <3> QED
      BY <1>1, <3>1, <3>2, <3>3
  <2> QED
    BY <1>1, <2>1, <2>2, ReportMoved
<1> QED
  BY <1>2, <1>3, <1>4 DEF ReportList

\* An assignment is made at the end of the list: the reports that might miss it are raced.
LEMMA AssignmentMade ==
    ASSUME GradebookInv, NEW k \in CanvasKeysListed, CanvasAppend(k),
           canvasReport' \in [CanvasReporters -> ReportState],
           \A q \in CanvasReporters :
               \/ canvasReport'[q] = canvasReport[q] /\ k = CanvasOwnKey
               \/ canvasReport'[q] = ReportRaced(canvasReport[q])
               \/ canvasReport'[q].pc \in {"submit", "failed"},
           UNCHANGED <<canvasLinked, canvasUsers, canvasDedupe>>
    PROVE  GradebookFine
<1> DEFINE a == [id |-> canvasMade + 1, key |-> k, stamp |-> canvasMade + 1, graded |-> {}]
<1>1. /\ assignments \in Seq(AssignmentState) /\ canvasMade \in 0 .. CanvasMaxAssignments /\ canvasMade \in Nat
      /\ canvasReport \in [CanvasReporters -> ReportState] /\ canvasDedupe \in [CanvasCleaners -> DedupeState]
      /\ AssignmentsApart(assignments, canvasMade)
      /\ \A d \in CanvasCleaners : DedupeKnows(canvasDedupe[d], assignments, canvasMade)
      /\ \A q \in CanvasReporters : ReportKnows(canvasReport[q], assignments)
  BY CanvasGradebookAssumption DEF GradebookInv, GradebookTyped, GradebookKnows
<1>2. canvasMade < CanvasMaxAssignments /\ canvasMade' = canvasMade + 1 /\ assignments' = Append(assignments, a)
  BY DEF CanvasAppend
<1>3. canvasMade + 1 \in CanvasIds /\ canvasMade' \in 0 .. CanvasMaxAssignments
  BY <1>1, <1>2, CanvasGradebookAssumption DEF CanvasIds
<1>4. a \in AssignmentState /\ a.id = canvasMade + 1 /\ a.key = k
  BY <1>3 DEF AssignmentState
<1> HIDE DEF a
<1>5. /\ assignments' \in Seq(AssignmentState) /\ Len(assignments) \in Nat /\ Len(assignments') = Len(assignments) + 1
      /\ \A n \in 1 .. Len(assignments) : assignments'[n] = assignments[n]
  BY <1>1, <1>2, <1>4, AppendProperties
<1>6. GradebookTyped'
  BY <1>1, <1>3, <1>5 DEF GradebookInv, GradebookTyped
<1>7. ASSUME NEW q \in CanvasReporters PROVE ReportKnows(canvasReport'[q], assignments')
  <2>1. CASE canvasReport'[q] = canvasReport[q] /\ k = CanvasOwnKey
    <3>1. canvasReport[q].key \in CanvasGradeKeys
      BY <1>1 DEF ReportState
    <3>2. a.key # canvasReport[q].key
      BY <1>4, <2>1, <3>1, CanvasGradebookAssumption
    <3>3. ReportKnows(canvasReport[q], Append(assignments, a))
      BY <1>1, <1>4, <3>2, AppendedKnows
    <3> QED
      BY <1>2, <2>1, <3>3
  <2>2. CASE canvasReport'[q] = ReportRaced(canvasReport[q])
    BY <1>1, <2>2, ReportIsRaced
  <2>3. CASE canvasReport'[q].pc \in {"submit", "failed"}
    BY <2>3 DEF ReportKnows
  <2> QED
    BY <2>1, <2>2, <2>3
<1>8. GradebookKnows'
  <2>1. /\ AssignmentsApart(Append(assignments, a), canvasMade + 1)
        /\ \A d \in CanvasCleaners : DedupeKnows(canvasDedupe[d], Append(assignments, a), canvasMade + 1)
    BY <1>1, <1>4, AppendedKnows
  <2> QED
    BY <1>2, <1>7, <2>1 DEF GradebookKnows
<1>9. GradebookKeeps
  <2>1. CanvasKeysHeld \subseteq CanvasKeysHeld'
    <3> SUFFICES ASSUME NEW n \in DOMAIN assignments PROVE assignments[n].key \in CanvasKeysHeld'
      BY DEF CanvasKeysHeld
    <3>1. n \in 1 .. Len(assignments) /\ DOMAIN assignments' = 1 .. Len(assignments')
      BY <1>1, <1>5
    <3>2. n \in DOMAIN assignments' /\ assignments'[n].key = assignments[n].key
      BY <1>5, <3>1
    <3> QED
      BY <3>2 DEF CanvasKeysHeld
  <2>2. \A r \in CanvasReporters : canvasReport[r].pc = "create" /\ ~canvasReport[r].raced =>
            \A n \in 1 .. Len(assignments) : n <= CanvasPageLimit => assignments[n].key # canvasReport[r].key
    BY <1>1 DEF ReportKnows
  <2> QED
    BY <2>1, <2>2 DEF GradebookKeeps
<1> QED
  BY <1>6, <1>8, <1>9 DEF GradebookFine, GradebookInv

LEMMA AssignmentsMade ==
    ASSUME GradebookInv, TeacherCreates \/ \E r \in CanvasReporters : ReportCreate(r) PROVE GradebookFine
<1>1. canvasReport \in [CanvasReporters -> ReportState]
  BY DEF GradebookInv, GradebookTyped
<1>2. CASE TeacherCreates
  <2>1. CanvasAppend(CanvasOwnKey) /\ UNCHANGED <<canvasLinked, canvasUsers, canvasReport, canvasDedupe>>
    BY <1>2 DEF TeacherCreates
  <2>2. CanvasOwnKey \in CanvasKeysListed
    BY DEF CanvasKeysListed
  <2> QED
    BY <1>1, <2>1, <2>2, AssignmentMade
<1>3. ASSUME NEW r \in CanvasReporters, ReportCreate(r) PROVE GradebookFine
  <2>1. PICK report \in {ReportFinds(canvasReport[r], canvasMade + 1), ReportOver("failed")} :
            canvasReport' = ReportsRaced(r, report)
    BY <1>3 DEF ReportCreate
  <2>2. CanvasAppend(canvasReport[r].key) /\ UNCHANGED <<canvasLinked, canvasUsers, canvasDedupe>>
    BY <1>3 DEF ReportCreate
  <2>3. canvasMade + 1 \in 0 .. CanvasMaxAssignments
    BY <2>2, CanvasGradebookAssumption DEF CanvasAppend, GradebookInv, GradebookTyped
  <2>4. report \in ReportState /\ report.pc \in {"submit", "failed"}
    BY <1>1, <2>1, <2>3, ReportHasFound, ReportIsOver DEF CanvasIdle
  <2>5. canvasReport' = [q \in CanvasReporters |-> IF q # r THEN ReportRaced(canvasReport[q]) ELSE report]
    BY <2>1 DEF ReportsRaced
  <2>6. \A q \in CanvasReporters : ReportRaced(canvasReport[q]) \in ReportState
    BY <1>1, ReportIsRaced DEF GradebookInv, GradebookKnows
  <2>7. canvasReport' \in [CanvasReporters -> ReportState]
    BY <2>4, <2>5, <2>6
  <2>8. \A q \in CanvasReporters :
            \/ canvasReport'[q] = ReportRaced(canvasReport[q])
            \/ canvasReport'[q].pc \in {"submit", "failed"}
    BY <2>4, <2>5
  <2>9. canvasReport[r].key \in CanvasKeysListed
    BY <1>1 DEF ReportState, CanvasKeysListed
  <2> QED
    BY <2>2, <2>7, <2>8, <2>9, AssignmentMade
<1> QED
  BY <1>2, <1>3

\* An assignment is graded or edited: the list has the same ids and keys.
LEMMA ListRelabelled ==
    ASSUME GradebookInv, assignments' \in Seq(AssignmentState), Len(assignments') = Len(assignments),
           \A n \in 1 .. Len(assignments) :
               assignments'[n].id = assignments[n].id /\ assignments'[n].key = assignments[n].key,
           canvasMade' \in 0 .. CanvasMaxAssignments, canvasMade <= canvasMade',
           canvasReport' \in [CanvasReporters -> ReportState],
           \A r \in CanvasReporters : ReportKnows(canvasReport[r], assignments) => ReportKnows(canvasReport'[r], assignments),
           UNCHANGED <<canvasLinked, canvasUsers, canvasDedupe>>
    PROVE  GradebookFine
<1>1. /\ assignments \in Seq(AssignmentState) /\ canvasMade \in Nat /\ canvasMade' \in Nat
      /\ Len(assignments) \in Nat /\ canvasDedupe \in [CanvasCleaners -> DedupeState]
      /\ \A n \in 1 .. Len(assignments) : assignments[n].id \in Nat
  <2>1. assignments \in Seq(AssignmentState) /\ \A n \in 1 .. Len(assignments) : assignments[n] \in AssignmentState
    BY DEF GradebookInv, GradebookTyped
  <2>2. \A n \in 1 .. Len(assignments) : assignments[n].id \in Nat
    BY <2>1 DEF AssignmentState, CanvasIds
  <2> QED
    BY <2>1, <2>2, CanvasGradebookAssumption DEF GradebookInv, GradebookTyped
<1>2. /\ AssignmentsApart(assignments, canvasMade)
      /\ \A d \in CanvasCleaners : DedupeKnows(canvasDedupe[d], assignments, canvasMade)
      /\ \A r \in CanvasReporters : ReportKnows(canvasReport'[r], assignments)
  BY DEF GradebookInv, GradebookKnows
<1>3. GradebookTyped'
  BY DEF GradebookInv, GradebookTyped
<1>4. /\ AssignmentsApart(assignments', canvasMade')
      /\ \A dedupe \in DedupeState :
            DedupeKnows(dedupe, assignments, canvasMade) => DedupeKnows(dedupe, assignments', canvasMade')
      /\ \A report : ReportKnows(report, assignments) => ReportKnows(report, assignments')
  BY <1>1, <1>2, RelabelledKnows
<1>5. GradebookKnows'
  BY <1>1, <1>2, <1>4 DEF GradebookKnows
<1>6. GradebookKeeps
  <2>1. DOMAIN assignments = 1 .. Len(assignments) /\ DOMAIN assignments' = 1 .. Len(assignments)
    BY <1>1
  <2>2. CanvasKeysHeld \subseteq CanvasKeysHeld'
    BY <2>1 DEF CanvasKeysHeld
  <2> QED
    BY <1>1, <2>2 DEF GradebookKeeps
<1> QED
  BY <1>3, <1>5, <1>6 DEF GradebookFine, GradebookInv

LEMMA CanvasPositionOf ==
    ASSUME GradebookInv, NEW i, CanvasListed(i)
    PROVE  CanvasPosition(i) \in 1 .. Len(assignments) /\ assignments[CanvasPosition(i)].id = i
<1>1. \E n \in DOMAIN assignments : assignments[n].id = i
  BY DEF CanvasListed
<1>2. CanvasPosition(i) \in DOMAIN assignments /\ assignments[CanvasPosition(i)].id = i
  BY <1>1 DEF CanvasPosition
<1>3. DOMAIN assignments = 1 .. Len(assignments)
  BY DEF GradebookInv, GradebookTyped
<1> QED
  BY <1>2, <1>3

\* The grade is submitted, or there is no assignment any more.
LEMMA ReportSubmits ==
    ASSUME GradebookInv, NEW r \in CanvasReporters, ReportSubmit(r) PROVE GradebookFine
<1> DEFINE p == CanvasPosition(canvasReport[r].assignment)
<1>1. /\ assignments \in Seq(AssignmentState) /\ canvasReport \in [CanvasReporters -> ReportState]
      /\ canvasLinked \subseteq CanvasLearners /\ canvasUsers \subseteq CanvasLearners
      /\ UNCHANGED <<canvasMade, canvasLinked, canvasUsers, canvasDedupe>>
  BY DEF GradebookInv, GradebookTyped, ReportSubmit
<1>2. \E pc \in CanvasIdle : ReportEnds(r, pc)
  BY DEF ReportSubmit, CanvasIdle
<1>3. PICK pc \in CanvasIdle : ReportEnds(r, pc)
  BY <1>2
<1> DEFINE report == ReportOver(pc)
<1>4. report \in ReportState /\ canvasReport' = [canvasReport EXCEPT ![r] = report]
  BY <1>3, ReportIsOver DEF ReportEnds
<1>5. ReportKnows(report, assignments)
  BY ReportIsOver
<1> HIDE DEF report
<1>6. CASE UNCHANGED assignments
  BY <1>1, <1>4, <1>5, <1>6, ReportMoved
<1>7. CASE /\ CanvasListed(canvasReport[r].assignment)
           /\ assignments' = [assignments EXCEPT ![p].graded = @ \cup {canvasReport[r].learner}]
  <2> DEFINE a == [assignments[p] EXCEPT !.graded = assignments[p].graded \cup {canvasReport[r].learner}]
  <2>1. p \in 1 .. Len(assignments) /\ assignments[p] \in AssignmentState
    BY <1>1, <1>7, CanvasPositionOf
  <2>2. assignments' = [assignments EXCEPT ![p] = a]
    BY <1>7, Zenon
  <2>3. canvasReport[r].learner \in CanvasLearners
    BY <1>1 DEF ReportState
  <2>4. a \in AssignmentState /\ a.id = assignments[p].id /\ a.key = assignments[p].key
    BY <2>1, <2>3 DEF AssignmentState
  <2> HIDE DEF a, p
  <2>5. /\ assignments' \in Seq(AssignmentState) /\ Len(assignments') = Len(assignments)
        /\ \A n \in 1 .. Len(assignments) : assignments'[n] = IF n = p THEN a ELSE assignments[n]
    BY <1>1, <2>1, <2>2, <2>4
  <2>6. \A n \in 1 .. Len(assignments) :
            assignments'[n].id = assignments[n].id /\ assignments'[n].key = assignments[n].key
    BY <2>4, <2>5
  <2>7. /\ canvasReport' \in [CanvasReporters -> ReportState]
        /\ \A q \in CanvasReporters :
               ReportKnows(canvasReport[q], assignments) => ReportKnows(canvasReport'[q], assignments)
    <3>1. \A q \in CanvasReporters : canvasReport'[q] = IF q = r THEN report ELSE canvasReport[q]
      BY <1>1, <1>4
    <3> QED
      BY <1>1, <1>4, <1>5, <3>1
  <2>8. canvasMade' \in 0 .. CanvasMaxAssignments /\ canvasMade <= canvasMade'
    BY <1>1, CanvasGradebookAssumption DEF GradebookInv, GradebookTyped
  <2> QED
    BY <1>1, <2>5, <2>6, <2>7, <2>8, ListRelabelled
<1> QED
  BY <1>6, <1>7 DEF ReportSubmit

LEMMA TeacherEditsOne ==
    ASSUME GradebookInv, NEW p \in DOMAIN assignments, TeacherEdits(p) PROVE GradebookFine
<1> DEFINE a == [assignments[p] EXCEPT !.stamp = canvasMade + 1]
<1>1. /\ assignments \in Seq(AssignmentState) /\ canvasReport \in [CanvasReporters -> ReportState]
      /\ canvasMade \in 0 .. CanvasMaxAssignments
      /\ p \in 1 .. Len(assignments) /\ assignments[p] \in AssignmentState
  BY DEF GradebookInv, GradebookTyped
<1>2. /\ canvasMade < CanvasMaxAssignments /\ canvasMade' = canvasMade + 1
      /\ assignments' = [assignments EXCEPT ![p].stamp = canvasMade + 1]
      /\ UNCHANGED <<canvasLinked, canvasUsers, canvasReport, canvasDedupe>>
  BY DEF TeacherEdits
<1>3. assignments' = [assignments EXCEPT ![p] = a]
  BY <1>2, Zenon
<1>4. canvasMade + 1 \in CanvasIds /\ canvasMade' \in 0 .. CanvasMaxAssignments /\ canvasMade <= canvasMade'
  BY <1>1, <1>2, CanvasGradebookAssumption DEF CanvasIds
<1>5. a \in AssignmentState /\ a.id = assignments[p].id /\ a.key = assignments[p].key
  BY <1>1, <1>4 DEF AssignmentState
<1> HIDE DEF a
<1>6. /\ assignments' \in Seq(AssignmentState) /\ Len(assignments') = Len(assignments)
      /\ \A n \in 1 .. Len(assignments) : assignments'[n] = IF n = p THEN a ELSE assignments[n]
  BY <1>1, <1>3, <1>5
<1>7. \A n \in 1 .. Len(assignments) :
          assignments'[n].id = assignments[n].id /\ assignments'[n].key = assignments[n].key
  BY <1>5, <1>6
<1> QED
  BY <1>1, <1>2, <1>4, <1>6, <1>7, ListRelabelled

\* A step of one clean-up, the list as it was.
LEMMA DedupeMoved ==
    ASSUME GradebookInv, NEW d \in CanvasCleaners, NEW dedupe \in DedupeState,
           canvasDedupe' = [canvasDedupe EXCEPT ![d] = dedupe], DedupeKnows(dedupe, assignments, canvasMade),
           UNCHANGED <<assignments, canvasMade, canvasLinked, canvasUsers, canvasReport>>
    PROVE  GradebookFine
<1>1. canvasDedupe \in [CanvasCleaners -> DedupeState]
  BY DEF GradebookInv, GradebookTyped
<1>2. /\ canvasDedupe' \in [CanvasCleaners -> DedupeState]
      /\ \A e \in CanvasCleaners : canvasDedupe'[e] = IF e = d THEN dedupe ELSE canvasDedupe[e]
  BY <1>1
<1>3. GradebookTyped'
  BY <1>2 DEF GradebookInv, GradebookTyped
<1>4. GradebookKnows'
  <2>1. \A e \in CanvasCleaners : DedupeKnows(canvasDedupe'[e], assignments, canvasMade)
    BY <1>2 DEF GradebookInv, GradebookKnows
  <2> QED
    BY <2>1 DEF GradebookInv, GradebookKnows
<1>5. GradebookKeeps
  <2>1. Len(assignments') = Len(assignments) /\ Len(assignments) \in Nat /\ CanvasKeysHeld' = CanvasKeysHeld
    BY DEF GradebookInv, GradebookTyped, CanvasKeysHeld
  <2> QED
    BY <2>1 DEF GradebookKeeps
<1> QED
  BY <1>3, <1>4, <1>5 DEF GradebookFine, GradebookInv

\* One page of the list: its assignment is kept in place of an older one, or is to be removed.
LEMMA DedupeParsed ==
    ASSUME GradebookInv, NEW c \in DedupeState, DedupeKnows(c, assignments, canvasMade),
           c.pc = "list", c.page \in 1 .. Len(assignments),
           NEW a \in DedupeHeard, NEW read, read = DedupeParse(c, a),
           a.id = assignments[c.page].id, a.key = assignments[c.page].key
    PROVE  /\ read \in DedupeState /\ read.page = c.page
           /\ \A next \in DedupeState :
                 /\ next.newest = read.newest /\ next.doomed = read.doomed /\ next.raced = read.raced
                 /\ next.pc # "idle" /\ (next.pc = "list" => next.page = c.page + 1)
                 => DedupeKnows(next, assignments, canvasMade)
<1> DEFINE p == c.page
           held == DedupeHeld(c, a)
<1>1. /\ p \in Nat /\ c.newest \subseteq DedupeHeard /\ c.doomed \subseteq CanvasIds
      /\ AssignmentsApart(assignments, canvasMade) /\ Len(assignments) \in Nat
  BY DEF GradebookInv, GradebookTyped, GradebookKnows, DedupeState
<1>2. held = {h \in c.newest : h.key = a.key} /\ held \subseteq c.newest
  BY DEF DedupeHeld
<1>3. a.id \notin c.doomed /\ (\A h \in c.newest : h.id # a.id) /\ a.id <= canvasMade
  BY <1>1 DEF DedupeKnows, AssignmentsApart
<1>4. \A h \in c.newest :
        /\ h.id \notin c.doomed /\ h.id <= canvasMade
        /\ \A g \in c.newest : g.id = h.id => g.key = h.key
        /\ \A n \in 1 .. Len(assignments) : assignments[n].id = h.id => assignments[n].key = h.key
        /\ h.key \notin c.raced => \E n \in 1 .. Len(assignments) : assignments[n].id = h.id
  BY DEF DedupeKnows
<1>5. \A m, n \in 1 .. Len(assignments) : assignments[m].id = assignments[n].id => m = n
  BY <1>1 DEF AssignmentsApart
<1>6. \A n \in 1 .. Len(assignments) :
        /\ assignments[n].id \in c.doomed => \E h \in c.newest : h.key = assignments[n].key
        /\ n >= p => assignments[n].id \notin c.doomed /\ \A h \in c.newest : h.id # assignments[n].id
  BY <1>1 DEF DedupeKnows
<1>7. \A i \in c.doomed : i <= canvasMade
  BY DEF DedupeKnows
<1>8. AssignmentIds(held) \subseteq CanvasIds
  BY <1>1, <1>2 DEF AssignmentIds, DedupeHeard
<1>9. /\ read \in DedupeState /\ read.page = p /\ read.raced = c.raced
      /\ \/ held = {} /\ read.newest = c.newest \cup {a} /\ read.doomed = c.doomed
         \/ /\ read.newest = (c.newest \ held) \cup {a}
            /\ read.doomed = c.doomed \cup AssignmentIds(held)
         \/ held # {} /\ read.newest = c.newest /\ read.doomed = c.doomed \cup {a.id}
  <2> DEFINE kept == c.newest \cup {a}
             swapped == (c.newest \ held) \cup {a}
             old == c.doomed \cup AssignmentIds(held)
             more == c.doomed \cup {a.id}
  <2>1. /\ kept \in SUBSET DedupeHeard /\ swapped \in SUBSET DedupeHeard
        /\ old \in SUBSET CanvasIds /\ more \in SUBSET CanvasIds
    BY <1>1, <1>8 DEF DedupeHeard
  <2>2. \/ held = {} /\ read = [c EXCEPT !.newest = kept]
        \/ read = [c EXCEPT !.newest = swapped, !.doomed = old]
        \/ held # {} /\ read = [c EXCEPT !.doomed = more]
    BY DEF DedupeParse
  <2> HIDE DEF kept, swapped, old, more, held
  <2>3. read.page = p /\ read.raced = c.raced /\ read \in DedupeState
    BY <1>1, <2>1, <2>2 DEF DedupeState
  <2>4. \/ held = {} /\ read.newest = kept /\ read.doomed = c.doomed
        \/ read.newest = swapped /\ read.doomed = old
        \/ held # {} /\ read.newest = c.newest /\ read.doomed = more
    BY <1>1, <2>1, <2>2 DEF DedupeState
  <2> QED
    BY <2>3, <2>4 DEF kept, swapped, old, more
<1>10. \A i : i \in AssignmentIds(held) <=> \E h \in held : h.id = i
  BY DEF AssignmentIds
<1>11. assignments[p].id = a.id /\ assignments[p].key = a.key /\ p \in 1 .. Len(assignments)
  OBVIOUS
<1>12. \A n \in 1 .. Len(assignments) : assignments[n].id = a.id => assignments[n].key = a.key
  BY <1>5, <1>11
<1> HIDE DEF held, p
<1>13. \A h \in read.newest :
          /\ h.id <= canvasMade
          /\ \A n \in 1 .. Len(assignments) : assignments[n].id = h.id => assignments[n].key = h.key
          /\ h.key \notin c.raced => \E n \in 1 .. Len(assignments) : assignments[n].id = h.id
  <2>1. \A h \in read.newest : h = a \/ h \in c.newest
    BY <1>9
  <2> QED
    BY <1>3, <1>4, <1>11, <1>12, <2>1
<1>14. \A h, g \in read.newest : g.id = h.id => g.key = h.key
  <2>1. \A h \in read.newest : h = a \/ h \in c.newest
    BY <1>9
  <2> QED
    BY <1>3, <1>4, <2>1
<1>15. /\ \A h \in read.newest : h.id \notin read.doomed
       /\ \A i \in read.doomed : i <= canvasMade
       /\ \A n \in 1 .. Len(assignments) :
             /\ assignments[n].id \in read.doomed => \E h \in read.newest : h.key = assignments[n].key
             /\ n >= p + 1 => assignments[n].id \notin read.doomed /\ \A h \in read.newest : h.id # assignments[n].id
  <2>0. \A n \in 1 .. Len(assignments) : n >= p + 1 => n >= p /\ assignments[n].id # a.id
    BY <1>1, <1>5, <1>11
  <2>1. CASE held = {} /\ read.newest = c.newest \cup {a} /\ read.doomed = c.doomed
    BY <1>3, <1>4, <1>6, <1>7, <2>0, <2>1
  <2>2. CASE read.newest = (c.newest \ held) \cup {a} /\ read.doomed = c.doomed \cup AssignmentIds(held)
    <3>1. ASSUME NEW h \in read.newest PROVE h.id \notin read.doomed
      <4>1. CASE h = a
        BY <1>2, <1>3, <1>10, <2>2, <4>1
      <4>2. CASE h # a
        <5>1. h \in c.newest /\ h \notin held
          BY <2>2, <4>2
        <5>2. \A g \in held : g.id # h.id
          BY <1>2, <1>4, <5>1
        <5> QED
          BY <1>4, <1>10, <2>2, <5>1, <5>2
      <4> QED
        BY <4>1, <4>2
    <3>2. \A i \in read.doomed : i <= canvasMade
      BY <1>2, <1>4, <1>7, <1>10, <2>2
    <3>3. ASSUME NEW n \in 1 .. Len(assignments), assignments[n].id \in read.doomed
          PROVE  \E h \in read.newest : h.key = assignments[n].key
      <4>1. CASE assignments[n].id \in c.doomed
        <5>1. PICK h \in c.newest : h.key = assignments[n].key
          BY <1>6, <4>1
        <5>2. CASE h \in held
          <6>1. a \in read.newest /\ a.key = assignments[n].key
            BY <1>2, <2>2, <5>1, <5>2
          <6> QED
            BY <6>1
        <5>3. CASE h \notin held
          BY <2>2, <5>1, <5>3
        <5> QED
          BY <5>2, <5>3
      <4>2. CASE assignments[n].id \in AssignmentIds(held)
        <5>1. PICK h \in held : h.id = assignments[n].id
          BY <1>10, <4>2
        <5>2. a \in read.newest /\ a.key = assignments[n].key
          BY <1>2, <1>4, <2>2, <5>1
        <5> QED
          BY <5>2
      <4> QED
        BY <2>2, <3>3, <4>1, <4>2
    <3>4. ASSUME NEW n \in 1 .. Len(assignments), n >= p + 1
          PROVE  assignments[n].id \notin read.doomed /\ \A h \in read.newest : h.id # assignments[n].id
      BY <1>2, <1>6, <1>10, <2>0, <2>2, <3>4
    <3> QED
      BY <3>1, <3>2, <3>3, <3>4
  <2>3. CASE held # {} /\ read.newest = c.newest /\ read.doomed = c.doomed \cup {a.id}
    <3>1. \E h \in c.newest : h.key = a.key
      BY <1>2, <2>3
    <3> QED
      BY <1>3, <1>4, <1>6, <1>7, <1>12, <2>0, <2>3, <3>1
  <2> QED
    BY <1>9, <2>1, <2>2, <2>3
<1>16. ASSUME NEW next \in DedupeState,
              next.newest = read.newest, next.doomed = read.doomed, next.raced = read.raced,
              next.pc # "idle", next.pc = "list" => next.page = p + 1
       PROVE  DedupeKnows(next, assignments, canvasMade)
  BY <1>9, <1>13, <1>14, <1>15, <1>16 DEF DedupeKnows
<1> QED
  BY <1>9, <1>16 DEF p

\* A clean-up begins, reads a page, and ends.
LEMMA DedupeReads ==
    ASSUME GradebookInv, NEW d \in CanvasCleaners, DedupeBegin(d) \/ DedupeList(d) \/ DedupeEnd(d)
    PROVE  GradebookFine
<1> DEFINE c == canvasDedupe[d]
<1>1. /\ canvasDedupe \in [CanvasCleaners -> DedupeState] /\ c \in DedupeState
      /\ assignments \in Seq(AssignmentState) /\ Len(assignments) \in Nat
      /\ DedupeKnows(c, assignments, canvasMade)
  BY DEF GradebookInv, GradebookTyped, GradebookKnows
<1>2. CASE DedupeBegin(d) \/ DedupeEnd(d)
  <2>1. PICK pc \in {"list", "idle"} :
          /\ canvasDedupe' = [canvasDedupe EXCEPT ![d] = [DedupeBlank EXCEPT !.pc = pc]]
          /\ UNCHANGED <<assignments, canvasMade, canvasLinked, canvasUsers, canvasReport>>
    <3>1. DedupeBlank = [DedupeBlank EXCEPT !.pc = "idle"]
      BY DEF DedupeBlank
    <3> QED
      BY <1>2, <3>1 DEF DedupeBegin, DedupeEnd
  <2> DEFINE new == [DedupeBlank EXCEPT !.pc = pc]
  <2>2. new \in DedupeState /\ new.newest = {} /\ new.doomed = {}
    BY DEF DedupeBlank, DedupeState
  <2> HIDE DEF new
  <2>3. DedupeKnows(new, assignments, canvasMade)
    BY <2>2 DEF DedupeKnows
  <2> QED
    BY <2>1, <2>2, <2>3, DedupeMoved DEF new
<1>3. CASE DedupeList(d)
  <2> DEFINE page == c.page
             a == [id |-> assignments[page].id, key |-> assignments[page].key, stamp |-> assignments[page].stamp]
             read == IF page > Len(assignments) THEN c ELSE DedupeParse(c, a)
             stopped == [c EXCEPT !.pc = "remove"]
             on == [read EXCEPT !.page = page + 1]
             over == [read EXCEPT !.pc = "remove"]
  <2>1. /\ c.pc = "list" /\ page \in Nat \ {0}
        /\ UNCHANGED <<assignments, canvasMade, canvasLinked, canvasUsers, canvasReport>>
    BY <1>1, <1>3 DEF DedupeList, DedupeState
  <2>2. \/ canvasDedupe' = [canvasDedupe EXCEPT ![d] = stopped]
        \/ page < Len(assignments) /\ canvasDedupe' = [canvasDedupe EXCEPT ![d] = on]
        \/ canvasDedupe' = [canvasDedupe EXCEPT ![d] = over]
    <3>1. CASE canvasDedupe' = [canvasDedupe EXCEPT ![d].pc = "remove"]
      BY <3>1, Zenon
    <3>2. CASE canvasDedupe' = [canvasDedupe EXCEPT ![d] = IF page < Len(assignments) /\ page < CanvasPageLimit THEN on ELSE over]
      BY <3>2
    <3> QED
      BY <1>3, <3>1, <3>2 DEF DedupeList
  <2>3. stopped \in DedupeState /\ DedupeKnows(stopped, assignments, canvasMade)
    <3>1. /\ stopped \in DedupeState /\ stopped.pc = "remove" /\ stopped.newest = c.newest
          /\ stopped.doomed = c.doomed /\ stopped.raced = c.raced
      BY <1>1 DEF DedupeState
    <3> HIDE DEF stopped, c
    <3> QED
      BY <1>1, <3>1 DEF DedupeKnows
  <2>4. CASE canvasDedupe' = [canvasDedupe EXCEPT ![d] = stopped]
    <3> HIDE DEF stopped
    <3> QED
      BY <2>1, <2>3, <2>4, DedupeMoved
  <2>5. CASE page \in 1 .. Len(assignments) /\ canvasDedupe' \in {[canvasDedupe EXCEPT ![d] = on], [canvasDedupe EXCEPT ![d] = over]}
    <3>1. assignments[page] \in AssignmentState
      <4>1. page \in 1 .. Len(assignments)
        BY <2>5, Zenon
      <4> HIDE DEF page
      <4> QED
        BY <1>1, <4>1
    <3>2. a \in DedupeHeard /\ a.id = assignments[page].id /\ a.key = assignments[page].key
      BY <3>1 DEF DedupeHeard, AssignmentState
    <3>3. read = DedupeParse(c, a)
      <4>1. ~(page > Len(assignments))
        <5>1. page \in 1 .. Len(assignments)
          BY <2>5, Zenon
        <5> HIDE DEF page
        <5> QED
          BY <1>1, <5>1
      <4> QED
        BY <4>1, Zenon
    <3> HIDE DEF a, read, c
    <3>4. /\ read \in DedupeState /\ read.page = page
          /\ \A next \in DedupeState :
                /\ next.newest = read.newest /\ next.doomed = read.doomed /\ next.raced = read.raced
                /\ next.pc # "idle" /\ (next.pc = "list" => next.page = page + 1)
                => DedupeKnows(next, assignments, canvasMade)
      BY <1>1, <2>1, <2>5, <3>2, <3>3, DedupeParsed
    <3>5. CASE canvasDedupe' = [canvasDedupe EXCEPT ![d] = over]
      <4>1. /\ over \in DedupeState /\ over.newest = read.newest /\ over.doomed = read.doomed
            /\ over.raced = read.raced /\ over.pc = "remove"
        BY <3>4 DEF DedupeState
      <4> HIDE DEF over
      <4> QED
        BY <2>1, <3>4, <3>5, <4>1, DedupeMoved
    <3>6. CASE canvasDedupe' = [canvasDedupe EXCEPT ![d] = on]
      <4>1. /\ on \in DedupeState /\ on.newest = read.newest /\ on.doomed = read.doomed
            /\ on.raced = read.raced /\ on.page = page + 1 /\ on.pc = read.pc
        BY <2>1, <3>4 DEF DedupeState
      <4>2. read.pc = "list"
        <5>1. \A x : DedupeParse(c, x).pc = c.pc
          BY <1>1 DEF DedupeParse, DedupeState
        <5> QED
          BY <2>1, <3>3, <5>1
      <4> HIDE DEF on
      <4> QED
        BY <2>1, <3>4, <3>6, <4>1, <4>2, DedupeMoved
    <3> QED
      BY <2>5, <3>5, <3>6
  <2>6. CASE page > Len(assignments) /\ canvasDedupe' = [canvasDedupe EXCEPT ![d] = over]
    <3>1. over = stopped
      BY <2>6
    <3> HIDE DEF over, stopped
    <3> QED
      BY <2>1, <2>3, <2>6, <3>1, DedupeMoved
  <2>7. page > Len(assignments) => ~(page < Len(assignments))
    BY <1>1, <2>1
  <2>8. page \in 1 .. Len(assignments) \/ page > Len(assignments)
    BY <1>1, <2>1
  <2> HIDE DEF c, page, on, over, stopped
  <2> QED
    BY <2>2, <2>4, <2>5, <2>6, <2>7, <2>8
<1> QED
  BY <1>2, <1>3

\* What a clean-up knows once an assignment was removed: by itself, by another that told of it
\* by its integration id, or while it rests.
LEMMA RemovedKnows ==
    ASSUME NEW list, NEW after, NEW made, NEW p \in 1 .. Len(list),
           \A n \in 1 .. Len(after) : n \in Nat /\ \E m \in 1 .. Len(list) : m >= n /\ after[n] = list[m],
           \A m \in 1 .. Len(list) : m # p => \E n \in 1 .. Len(after) : after[n] = list[m],
           Len(list) \in Nat,
           NEW dedupe \in DedupeState, DedupeKnows(dedupe, list, made),
           NEW next \in DedupeState, next.newest = dedupe.newest, next.doomed \subseteq dedupe.doomed,
           next.pc = dedupe.pc, next.page = dedupe.page, dedupe.raced \subseteq next.raced,
           list[p].id \in dedupe.doomed \/ list[p].key \in next.raced \/ dedupe.pc = "idle"
    PROVE  DedupeKnows(next, after, made)
<1>1. dedupe.page \in Nat
  BY DEF DedupeState
<1>2. ASSUME NEW h \in next.newest
      PROVE  /\ h.id \notin next.doomed /\ h.id <= made
             /\ \A g \in next.newest : g.id = h.id => g.key = h.key
             /\ \A n \in 1 .. Len(after) : after[n].id = h.id => after[n].key = h.key
             /\ h.key \notin next.raced => \E n \in 1 .. Len(after) : after[n].id = h.id
  <2>1. /\ h.id \notin dedupe.doomed /\ h.id <= made
        /\ \A g \in dedupe.newest : g.id = h.id => g.key = h.key
        /\ \A n \in 1 .. Len(list) : list[n].id = h.id => list[n].key = h.key
        /\ h.key \notin dedupe.raced => \E n \in 1 .. Len(list) : list[n].id = h.id
    BY DEF DedupeKnows
  <2>2. ASSUME h.key \notin next.raced PROVE \E n \in 1 .. Len(after) : after[n].id = h.id
    <3>1. PICK m \in 1 .. Len(list) : list[m].id = h.id
      BY <2>1, <2>2
    <3>2. dedupe.pc # "idle"
      BY DEF DedupeKnows
    <3>3. m # p
      BY <2>1, <2>2, <3>1, <3>2
    <3> QED
      BY <3>1, <3>3
  <2> QED
    BY <2>1, <2>2
<1>3. \A i \in next.doomed : i <= made
  BY DEF DedupeKnows
<1>4. ASSUME NEW n \in 1 .. Len(after)
      PROVE  /\ after[n].id \in next.doomed => \E h \in next.newest : h.key = after[n].key
             /\ next.pc = "list" /\ n >= next.page =>
                   after[n].id \notin next.doomed /\ \A h \in next.newest : h.id # after[n].id
  <2>1. PICK m \in 1 .. Len(list) : m >= n /\ after[n] = list[m]
    OBVIOUS
  <2>2. n >= next.page => m >= dedupe.page
    BY <1>1, <2>1
  <2> QED
    BY <2>1, <2>2 DEF DedupeKnows
<1>5. next.pc = "idle" => next.newest = {} /\ next.doomed = {}
  BY DEF DedupeKnows
<1> QED
  BY <1>2, <1>3, <1>4, <1>5 DEF DedupeKnows

\* An assignment is removed, or cannot be: one with its integration id is kept, and is listed unless
\* another clean-up removed one of that id.
LEMMA DedupeRemoves ==
    ASSUME GradebookInv, NEW d \in CanvasCleaners, NEW i \in CanvasIds, DedupeRemove(d, i) PROVE GradebookFine
<1> DEFINE done == DedupeDone(d, i)
<1>1. /\ canvasDedupe \in [CanvasCleaners -> DedupeState]
      /\ assignments \in Seq(AssignmentState) /\ Len(assignments) \in Nat
      /\ canvasReport \in [CanvasReporters -> ReportState] /\ canvasMade \in 0 .. CanvasMaxAssignments
      /\ \A e \in CanvasCleaners : DedupeKnows(canvasDedupe[e], assignments, canvasMade)
      /\ AssignmentsApart(assignments, canvasMade)
      /\ \A r \in CanvasReporters : ReportKnows(canvasReport[r], assignments)
  BY DEF GradebookInv, GradebookTyped, GradebookKnows
<1>2. /\ canvasDedupe[d].pc = "remove" /\ i \in canvasDedupe[d].doomed
      /\ UNCHANGED <<canvasMade, canvasLinked, canvasUsers>>
  BY DEF DedupeRemove
<1>3. /\ done \in DedupeState /\ done.pc = "remove" /\ done.page = canvasDedupe[d].page
      /\ done.newest = canvasDedupe[d].newest /\ done.doomed = canvasDedupe[d].doomed \ {i}
      /\ done.raced = canvasDedupe[d].raced
  BY <1>1, <1>2 DEF DedupeState, DedupeDone
<1> HIDE DEF done
<1>4. CASE canvasDedupe' = [canvasDedupe EXCEPT ![d] = done] /\ UNCHANGED <<assignments, canvasReport>>
  <2>1. DedupeKnows(canvasDedupe[d], assignments, canvasMade)
    BY <1>1
  <2>2. DedupeKnows(done, assignments, canvasMade)
    BY <1>2, <1>3, <2>1 DEF DedupeKnows
  <2> QED
    BY <1>2, <1>3, <1>4, <2>2, DedupeMoved
<1>5. CASE /\ CanvasListed(i) /\ assignments' = RemoveAt(assignments, CanvasPosition(i))
           /\ canvasReport' = [r \in CanvasReporters |-> ReportRaced(canvasReport[r])]
           /\ canvasDedupe' = DedupesRaced(d, i)
  <2>1. PICK p \in 1 .. Len(assignments) :
            assignments[p].id = i /\ assignments' = RemoveAt(assignments, p) /\ CanvasAssignment(i) = assignments[p]
    BY <1>5, CanvasPositionOf DEF CanvasAssignment
  <2>2. /\ assignments' \in Seq(AssignmentState) /\ Len(assignments') = Len(assignments) - 1
        /\ \A n \in 1 .. Len(assignments) - 1 :
              /\ n < p => assignments'[n] = assignments[n]
              /\ ~(n < p) => assignments'[n] = assignments[n + 1]
    BY <1>1, <2>1, RemovedFromList
  <2>3. \A n \in 1 .. Len(assignments') : \E m \in 1 .. Len(assignments) :
           m # p /\ m >= n /\ assignments'[n] = assignments[m] /\ m = IF n < p THEN n ELSE n + 1
    <3> SUFFICES ASSUME NEW n \in 1 .. Len(assignments')
                 PROVE  \E m \in 1 .. Len(assignments) :
                            m # p /\ m >= n /\ assignments'[n] = assignments[m] /\ m = IF n < p THEN n ELSE n + 1
      OBVIOUS
    <3>1. n \in 1 .. Len(assignments) - 1 /\ n \in 1 .. Len(assignments) /\ n + 1 \in 1 .. Len(assignments)
      BY <1>1, <2>2
    <3>2. CASE n < p
      <4>1. assignments'[n] = assignments[n] /\ n # p /\ n >= n
        BY <2>2, <3>1, <3>2
      <4> QED
        BY <3>1, <3>2, <4>1
    <3>3. CASE ~(n < p)
      <4>1. assignments'[n] = assignments[n + 1] /\ n + 1 # p /\ n + 1 >= n
        BY <2>2, <3>1, <3>3
      <4> QED
        BY <3>1, <3>3, <4>1
    <3> QED
      BY <3>2, <3>3
  <2>4. \A m \in 1 .. Len(assignments) : m # p => \E n \in 1 .. Len(assignments') : assignments'[n] = assignments[m]
    <3> SUFFICES ASSUME NEW m \in 1 .. Len(assignments), m # p
                 PROVE  \E n \in 1 .. Len(assignments') : assignments'[n] = assignments[m]
      OBVIOUS
    <3>1. CASE m < p
      <4>1. m \in 1 .. Len(assignments) - 1 /\ m \in 1 .. Len(assignments')
        BY <1>1, <2>2, <3>1
      <4> QED
        BY <2>2, <3>1, <4>1
    <3>2. CASE m > p
      <4>1. m - 1 \in 1 .. Len(assignments) - 1 /\ m - 1 \in 1 .. Len(assignments') /\ ~(m - 1 < p) /\ (m - 1) + 1 = m
        BY <1>1, <2>2, <3>2
      <4>2. assignments'[m - 1] = assignments[(m - 1) + 1]
        BY <2>2, <4>1
      <4> QED
        BY <4>1, <4>2
    <3> QED
      BY <1>1, <3>1, <3>2
  <2>5. AssignmentsApart(assignments', canvasMade)
    <3> SUFFICES ASSUME NEW m \in 1 .. Len(assignments')
                 PROVE  /\ assignments'[m].id <= canvasMade
                        /\ \A n \in 1 .. Len(assignments') : m # n => assignments'[m].id # assignments'[n].id
      BY DEF AssignmentsApart
    <3>1. PICK k \in 1 .. Len(assignments) : assignments'[m] = assignments[k] /\ k = IF m < p THEN m ELSE m + 1
      BY <2>3
    <3>2. ASSUME NEW n \in 1 .. Len(assignments'), m # n PROVE assignments'[m].id # assignments'[n].id
      <4>1. PICK j \in 1 .. Len(assignments) : assignments'[n] = assignments[j] /\ j = IF n < p THEN n ELSE n + 1
        BY <2>3
      <4>2. m \in Nat /\ n \in Nat /\ p \in Nat
        BY <1>1, <2>2
      <4>3. j # k
        BY <3>1, <3>2, <4>1, <4>2
      <4> QED
        BY <1>1, <3>1, <4>1, <4>3 DEF AssignmentsApart
    <3> QED
      BY <1>1, <3>1, <3>2 DEF AssignmentsApart
  <2>6. assignments[p].key \in CanvasKeysListed
    <3>1. assignments[p] \in AssignmentState
      BY <1>1
    <3> QED
      BY <3>1 DEF AssignmentState
  <2> DEFINE told(e) == [canvasDedupe[e] EXCEPT !.raced = canvasDedupe[e].raced \cup {assignments[p].key}]
  <2>7. \A e \in CanvasCleaners :
           canvasDedupe'[e] = IF e = d THEN done ELSE IF canvasDedupe[e].pc = "idle" THEN canvasDedupe[e] ELSE told(e)
    BY <1>5, <2>1 DEF DedupesRaced, done
  <2>8. ASSUME NEW e \in CanvasCleaners
        PROVE  /\ told(e) \in DedupeState /\ told(e).newest = canvasDedupe[e].newest
               /\ told(e).doomed = canvasDedupe[e].doomed /\ told(e).pc = canvasDedupe[e].pc
               /\ told(e).page = canvasDedupe[e].page
               /\ told(e).raced = canvasDedupe[e].raced \cup {assignments[p].key}
    <3>1. canvasDedupe[e] \in DedupeState
      BY <1>1
    <3>2. canvasDedupe[e].raced \cup {assignments[p].key} \in SUBSET CanvasKeysListed
      BY <2>6, <3>1 DEF DedupeState
    <3> QED
      BY <3>1, <3>2 DEF DedupeState
  <2> HIDE DEF told
  <2>9. canvasDedupe' \in [CanvasCleaners -> DedupeState]
    BY <1>1, <1>3, <1>5, <2>7, <2>8 DEF DedupesRaced
  <2>10. \A n \in 1 .. Len(assignments') : n \in Nat /\ \E m \in 1 .. Len(assignments) : m >= n /\ assignments'[n] = assignments[m]
    BY <1>1, <2>2, <2>3
  <2>11. ASSUME NEW e \in CanvasCleaners PROVE DedupeKnows(canvasDedupe'[e], assignments', canvasMade)
    <3>1. canvasDedupe[e] \in DedupeState /\ DedupeKnows(canvasDedupe[e], assignments, canvasMade)
      BY <1>1
    <3>2. /\ canvasDedupe'[e] \in DedupeState
          /\ canvasDedupe'[e].newest = canvasDedupe[e].newest /\ canvasDedupe'[e].doomed \subseteq canvasDedupe[e].doomed
          /\ canvasDedupe'[e].pc = canvasDedupe[e].pc /\ canvasDedupe'[e].page = canvasDedupe[e].page
          /\ canvasDedupe[e].raced \subseteq canvasDedupe'[e].raced
          /\ \/ assignments[p].id \in canvasDedupe[e].doomed
             \/ assignments[p].key \in canvasDedupe'[e].raced
             \/ canvasDedupe[e].pc = "idle"
      <4>1. CASE e = d
        BY <1>2, <1>3, <2>1, <2>7, <4>1
      <4>2. CASE e # d /\ canvasDedupe[e].pc = "idle"
        BY <2>7, <3>1, <4>2
      <4>3. CASE e # d /\ canvasDedupe[e].pc # "idle"
        BY <2>7, <2>8, <4>3
      <4> QED
        BY <4>1, <4>2, <4>3
    <3> QED
      BY <1>1, <2>4, <2>10, <3>1, <3>2, RemovedKnows, ZenonT(60)
  <2>12. /\ canvasReport' \in [CanvasReporters -> ReportState]
         /\ \A r \in CanvasReporters : ReportKnows(canvasReport'[r], assignments')
    <3>1. \A r \in CanvasReporters :
              /\ ReportRaced(canvasReport[r]) \in ReportState
              /\ ReportKnows(ReportRaced(canvasReport[r]), assignments')
      BY <1>1, ReportIsRaced
    <3>2. canvasReport' = [r \in CanvasReporters |-> ReportRaced(canvasReport[r])]
      BY <1>5
    <3> QED
      BY <3>1, <3>2
  <2>13. GradebookTyped'
    BY <1>2, <2>2, <2>9, <2>12 DEF GradebookInv, GradebookTyped
  <2>14. GradebookKnows'
    BY <1>2, <2>5, <2>11, <2>12 DEF GradebookKnows
  <2>15. GradebookKeeps
    <3>1. DOMAIN assignments = 1 .. Len(assignments) /\ DOMAIN assignments' = 1 .. Len(assignments')
      BY <1>1, <2>2
    <3>2. DedupeKnows(canvasDedupe[d], assignments, canvasMade)
      BY <1>1
    <3>3. PICK h \in canvasDedupe[d].newest : h.key = assignments[p].key
      BY <1>2, <2>1, <3>2 DEF DedupeKnows
    <3>4. ASSUME assignments[p].key \notin canvasDedupe[d].raced
          PROVE  \E n \in 1 .. Len(assignments') : assignments'[n].key = assignments[p].key
      <4>1. h.id \notin canvasDedupe[d].doomed
        BY <3>2 DEF DedupeKnows
      <4>2. PICK m \in 1 .. Len(assignments) : assignments[m].id = h.id
        BY <3>2, <3>3, <3>4 DEF DedupeKnows
      <4>3. assignments[m].key = h.key /\ m # p
        BY <1>2, <2>1, <3>2, <4>1, <4>2 DEF DedupeKnows
      <4> QED
        BY <2>4, <3>3, <4>3
    <3>5. ASSUME NEW k \in CanvasKeysHeld \ CanvasKeysHeld' PROVE k \in canvasDedupe[d].raced
      <4>1. PICK m \in 1 .. Len(assignments) : assignments[m].key = k
        BY <3>1 DEF CanvasKeysHeld
      <4>2. ~\E n \in 1 .. Len(assignments') : assignments'[n].key = k
        BY <3>1 DEF CanvasKeysHeld
      <4>3. m = p
        BY <2>4, <4>1, <4>2
      <4> QED
        BY <3>4, <4>1, <4>2, <4>3
    <3>6. ~(Len(assignments') > Len(assignments))
      BY <1>1, <2>2
    <3> QED
      BY <1>2, <3>5, <3>6 DEF GradebookKeeps
  <2> QED
    BY <2>13, <2>14, <2>15 DEF GradebookFine, GradebookInv
<1> QED
  BY <1>4, <1>5 DEF DedupeRemove, done

\* A learner leaves, or nothing happens: what the invariant is about stays.
LEMMA GradebookStays ==
    ASSUME GradebookInv, (\E l \in CanvasLearners : LearnerLeaves(l)) \/ UNCHANGED gradebookVars
    PROVE  GradebookFine
<1>1. /\ UNCHANGED <<assignments, canvasMade, canvasLinked, canvasReport, canvasDedupe>>
      /\ canvasUsers' \subseteq canvasUsers
  BY DEF LearnerLeaves, gradebookVars
<1>2. GradebookTyped'
  BY <1>1 DEF GradebookInv, GradebookTyped
<1>3. GradebookKnows'
  BY <1>1 DEF GradebookInv, GradebookKnows
<1>4. GradebookKeeps
  <2>1. Len(assignments') = Len(assignments) /\ Len(assignments) \in Nat /\ CanvasKeysHeld' = CanvasKeysHeld
    BY <1>1 DEF GradebookInv, GradebookTyped, CanvasKeysHeld
  <2> QED
    BY <2>1 DEF GradebookKeeps
<1> QED
  BY <1>2, <1>3, <1>4 DEF GradebookFine, GradebookInv

LEMMA GradebookInvStep ==
    GradebookInv /\ [GradebookNext]_gradebookVars => GradebookInv' /\ [GradebookKeeps]_gradebookVars
<1> SUFFICES ASSUME GradebookInv, [GradebookNext]_gradebookVars PROVE GradebookFine
  BY DEF GradebookFine
<1>1. CASE \E r \in CanvasReporters, l \in canvasLinked, k \in CanvasGradeKeys : ReportBegin(r, l, k)
  BY <1>1, ReportGoesOn
<1>2. ASSUME NEW r \in CanvasReporters,
             \/ ReportUser(r) \/ ReportCourse(r) \/ ReportList(r) \/ ReportCreate(r)
             \/ ReportSubmit(r) \/ ReportFails(r)
      PROVE  GradebookFine
  BY <1>2, ReportGoesOn, ReportReads, AssignmentsMade, ReportSubmits
<1>3. CASE \E d \in CanvasCleaners : DedupeBegin(d) \/ DedupeList(d) \/ DedupeEnd(d)
  BY <1>3, DedupeReads
<1>4. CASE \E d \in CanvasCleaners, i \in CanvasIds : DedupeRemove(d, i)
  BY <1>4, DedupeRemoves
<1>5. CASE TeacherCreates
  BY <1>5, AssignmentsMade
<1>6. CASE \E n \in DOMAIN assignments : TeacherEdits(n)
  BY <1>6, TeacherEditsOne
<1>7. CASE (\E l \in CanvasLearners : LearnerLeaves(l)) \/ UNCHANGED gradebookVars
  BY <1>7, GradebookStays
<1> QED
  BY <1>1, <1>2, <1>3, <1>4, <1>5, <1>6, <1>7 DEF GradebookNext

\* Grades in Canvas, for every number of reports, clean-ups, learners, integration ids, assignments and
\* pages: a clean-up removes the last assignment of an integration id only if another clean-up removed
\* one of that id since it began, and a report makes a second
\* one only if the list changed under it or is longer than the pages that are read
\* (cleanup_duplicate_assignment_records, _handle_canvas_assignment_retrieval).
THEOREM AssignmentsStay == GradebookSpec => AssignmentsKeptAndFound
<1> QED
  BY GradebookInvInit, GradebookInvStep, PTL DEF GradebookSpec, AssignmentsKeptAndFound, GradebookKeeps

-----------------------------------------------------------------------------
(* The types of the four, and all clients side by side *)

LEMMA CanvasCourseStaysTyped == CanvasCourseSpec => []CanvasCourseTypeOK
<1>1. CanvasCourseInv => CanvasCourseTypeOK
  BY DEF CanvasCourseInv
<1> QED
  BY CanvasCourseInvInit, CanvasCourseStep, <1>1, PTL DEF CanvasCourseSpec

LEMMA MoodleStaysTyped == MoodleSpec => []MoodleTypeOK
<1>1. MoodleInv => MoodleTypeOK
  BY DEF MoodleInv
<1> QED
  BY MoodleInvInit, MoodleInvStep, <1>1, PTL DEF MoodleSpec

LEMMA DegreedStaysTyped == DegreedSpec => []DegreedTypeOK
<1>1. DegreedInv => DegreedTypeOK
  BY DEF DegreedInv
<1> QED
  BY DegreedInvInit, DegreedInvStep, <1>1, PTL DEF DegreedSpec

LEMMA GradebookStaysTyped == GradebookSpec => []GradebookTypeOK
<1>1. GradebookInv => GradebookTypeOK
  <2> SUFFICES ASSUME GradebookInv PROVE GradebookTypeOK
    OBVIOUS
  <2>1. GradebookTyped
    BY DEF GradebookInv
  <2>2. \A n \in DOMAIN assignments : assignments[n] \in AssignmentState
    BY <2>1 DEF GradebookTyped
  <2>3. canvasReport \in [CanvasReporters ->
           [learner : CanvasLearners, key : CanvasGradeKeys, page : Nat, assignment : 0 .. CanvasMaxAssignments,
            raced : BOOLEAN, pc : {"user", "course", "list", "create", "submit"} \cup CanvasIdle]]
    BY <2>1 DEF GradebookTyped, ReportState
  <2>4. canvasDedupe \in [CanvasCleaners ->
           [pc : {"idle", "list", "remove"}, page : Nat, newest : SUBSET DedupeHeard,
            doomed : SUBSET CanvasIds, raced : SUBSET CanvasKeysListed]]
    BY <2>1 DEF GradebookTyped, DedupeState
  <2> QED
    BY <2>1, <2>2, <2>3, <2>4 DEF GradebookTyped, GradebookTypeOK, AssignmentState
<1> QED
  BY GradebookInvInit, GradebookInvStep, <1>1, PTL DEF GradebookSpec

LEMMA ClientsStartAlone ==
    Init => /\ CanvasCourseInit /\ GradebookInit /\ BbCoursesInit /\ BbGradesInit /\ BbTokenInit
            /\ MoodleInit /\ DegreedInit /\ PctInit /\ LearnInit /\ MigInit
BY DEF Init

LEMMA ClientsStepAlone ==
    [Next]_clientVars =>
        /\ [CanvasCourseNext]_canvasVars /\ [GradebookNext]_gradebookVars
        /\ [BbCoursesNext]_bbCoursesVars /\ [BbGradesNext]_bbGradesVars /\ [BbTokenNext]_bbTokenVars
        /\ [MoodleNext]_moodleVars /\ [DegreedNext]_degreedVars
        /\ [PctNext]_pctVars /\ [LearnNext]_learnVars /\ [MigNext]_migVars
<1> SUFFICES ASSUME Next \/ UNCHANGED clientVars
             PROVE  /\ CanvasCourseNext \/ UNCHANGED canvasVars
                    /\ GradebookNext \/ UNCHANGED gradebookVars
                    /\ BbCoursesNext \/ UNCHANGED bbCoursesVars
                    /\ BbGradesNext \/ UNCHANGED bbGradesVars
                    /\ BbTokenNext \/ UNCHANGED bbTokenVars
                    /\ MoodleNext \/ UNCHANGED moodleVars
                    /\ DegreedNext \/ UNCHANGED degreedVars
                    /\ PctNext \/ UNCHANGED pctVars
                    /\ LearnNext \/ UNCHANGED learnVars
                    /\ MigNext \/ UNCHANGED migVars
  OBVIOUS
<1>1. CASE CanvasCoursesNext \/ CanvasGradesNext
  BY <1>1 DEF CanvasCoursesNext, CanvasGradesNext, blackboardVars, otherVars
<1>2. CASE BlackboardCoursesNext \/ BlackboardGradesNext \/ BlackboardTokensNext
  BY <1>2 DEF BlackboardCoursesNext, BlackboardGradesNext, BlackboardTokensNext, canvasClientVars, otherVars
<1>3. CASE MoodleClientNext \/ DegreedClientNext
  BY <1>3 DEF MoodleClientNext, DegreedClientNext, canvasClientVars, blackboardVars, otherVars
<1>4. CASE PercipioNext \/ SnowflakeNext \/ LegacyTablesNext
  BY <1>4 DEF PercipioNext, SnowflakeNext, LegacyTablesNext, canvasClientVars, blackboardVars
<1>5. CASE UNCHANGED clientVars
  BY <1>5 DEF clientVars, canvasClientVars, blackboardVars, otherVars
<1> QED
  BY <1>1, <1>2, <1>3, <1>4, <1>5 DEF Next

\* The composition of the clients hides nothing: each of the ten behaves in it as on its own, so
\* that what is proved of a client holds of it among the others (MCClients).
THEOREM ClientsSideBySide ==
    Spec => /\ CanvasCourseSpec /\ GradebookSpec
            /\ BbCoursesSpec /\ BbGradesSpec /\ BbTokenSpec
            /\ MoodleSpec /\ DegreedSpec
            /\ PctSpec /\ LearnSpec /\ MigSpec
BY ClientsStartAlone, ClientsStepAlone, PTL
   DEF Spec, CanvasCourseSpec, GradebookSpec, BbCoursesSpec, BbGradesSpec, BbTokenSpec, MoodleSpec,
       DegreedSpec, PctSpec, LearnSpec, MigSpec

\* The state of every client is of its type, whatever the numbers of courses, payloads, customers,
\* workers, learners, columns and rows (TypeOK).
THEOREM ClientsTyped == Spec => []TypeOK
<1>1. CanvasCourseTypeOK /\ GradebookTypeOK /\ BbCoursesTypeOK /\ BbGradesTypeOK /\ BbTokenTypeOK
      /\ MoodleTypeOK /\ DegreedTypeOK /\ PctTypeOK /\ LearnTypeOK /\ MigTypeOK => TypeOK
  BY DEF TypeOK
<1> QED
  BY ClientsSideBySide, CanvasCourseStaysTyped, GradebookStaysTyped, BbCoursesStaysTyped,
     BbGradesStaysTyped, BbTokenStaysTyped, MoodleStaysTyped, DegreedStaysTyped, PctStaysTyped,
     LearnStaysTyped, MigStaysTyped, <1>1, PTL
=============================================================================
