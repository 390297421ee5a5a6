--------------------------- MODULE BlackboardProofs ---------------------------
(***************************************************************************)
(* What holds of the Blackboard channel for every number of workers, pages,   *)
(* learners and payloads: its refresh token, its courses and its grades.       *)
(***************************************************************************)
EXTENDS BlackboardTokens, BlackboardCourses, BlackboardGrades, WellFoundedInduction, TLAPS

-----------------------------------------------------------------------------
(* The refresh token *)

BbTokenState == [pc : {"idle", "ask", "save"}, row : BbTokenRow]

\* A worker has the row locked from when it reads it until it is done, the row stays as
\* it read it, and once its token has been used Blackboard takes it no more.
BbTokenHeld ==
    \A w \in BbTokenWorkers :
        /\ bbTokenActor[w].pc # "idle" => bbTokenLock = w
        /\ bbTokenActor[w].pc = "ask" => bbTokenActor[w].row = bbTokenRow
        /\ bbTokenActor[w].pc = "save" => bbTokenRow.token < bbTokenValid

BbTokenInv == BbTokenTypeOK /\ BbTokenHeld

LEMMA BbTokenInvInit == BbTokenInit => BbTokenInv
<1> SUFFICES ASSUME BbTokenInit PROVE BbTokenInv
  OBVIOUS
<1>1. BbTokenBlank \in BbTokenRow /\ 0 \in 0 .. BbTokens /\ 0 \in 0 .. BbTokenEdits
  BY BbTokenAssumption DEF BbTokenBlank, BbTokenRow
<1>2. [pc |-> "idle", row |-> BbTokenBlank] \in BbTokenState
  BY <1>1 DEF BbTokenState
<1>3. BbTokenTypeOK
  BY <1>1, <1>2 DEF BbTokenInit, BbTokenTypeOK, BbTokenState
<1>4. \A w \in BbTokenWorkers : bbTokenActor[w].pc = "idle"
  BY DEF BbTokenInit, BbTokenActors
<1> QED
  BY <1>3, <1>4 DEF BbTokenInv, BbTokenHeld

\* What a step of one request does to the others.
LEMMA BbTokenGoesTo ==
    ASSUME BbTokenTypeOK, NEW a \in BbTokenActors, NEW pc \in {"idle", "ask", "save"},
           NEW row \in BbTokenRow, BbTokenGoes(a, pc, row)
    PROVE  /\ bbTokenActor' \in [BbTokenActors -> BbTokenState]
           /\ bbTokenActor'[a].pc = pc /\ bbTokenActor'[a].row = row
           /\ \A b \in BbTokenActors : b # a => bbTokenActor'[b] = bbTokenActor[b]
BY DEF BbTokenTypeOK, BbTokenGoes, BbTokenState

LEMMA BbTokenParts ==
    ASSUME BbTokenInv
    PROVE  /\ bbTokenRow \in BbTokenRow /\ bbTokenValid \in 0 .. BbTokens /\ bbTokenValid \in Nat
           /\ bbTokenRow.token \in Nat /\ BbTokenBlank \in BbTokenRow
           /\ bbTokenLock \in BbTokenWorkers \cup {BbTokenNone}
           /\ \A a \in BbTokenActors :
                 /\ bbTokenActor[a] \in BbTokenState /\ bbTokenActor[a].row \in BbTokenRow
                 /\ bbTokenValid < BbTokens =>
                       [bbTokenActor[a].row EXCEPT !.token = bbTokenValid + 1] \in BbTokenRow
                 /\ [bbTokenActor[a].row EXCEPT !.token = bbTokenValid + 1].token = bbTokenValid + 1
BY BbTokenAssumption DEF BbTokenInv, BbTokenTypeOK, BbTokenState, BbTokenRow, BbTokenBlank

\* What a worker that has the lock does: it comes to it while nobody has it, or has had it.
LEMMA BbTokenWorkerStep ==
    ASSUME BbTokenInv, NEW w \in BbTokenWorkers,
           BbTokenRead(w) \/ BbTokenRotate(w) \/ BbTokenSave(w) \/ BbTokenRefused(w) \/ BbTokenLost(w)
    PROVE  BbTokenInv'
<1>0. w \in BbTokenActors /\ \A v \in BbTokenWorkers : v \in BbTokenActors
  BY DEF BbTokenActors
<1>1. \A v \in BbTokenWorkers : v # w /\ bbTokenActor[v].pc # "idle" => bbTokenLock # w /\ bbTokenLock # BbTokenNone
  BY BbTokenAssumption DEF BbTokenInv, BbTokenHeld
<1>2. CASE BbTokenRead(w)
  <2>1. BbTokenGoes(w, "ask", bbTokenRow) /\ bbTokenLock = BbTokenNone /\ bbTokenLock' = w
        /\ UNCHANGED <<bbTokenRow, bbTokenValid, bbTokenEdits>>
    BY <1>2 DEF BbTokenRead
  <2>2. /\ bbTokenActor' \in [BbTokenActors -> BbTokenState]
        /\ bbTokenActor'[w].pc = "ask" /\ bbTokenActor'[w].row = bbTokenRow
        /\ \A b \in BbTokenActors : b # w => bbTokenActor'[b] = bbTokenActor[b]
    BY <1>0, <2>1, BbTokenGoesTo, BbTokenParts DEF BbTokenInv
  <2>3. BbTokenTypeOK'
    BY <2>1, <2>2 DEF BbTokenInv, BbTokenTypeOK, BbTokenState
  <2>4. BbTokenHeld'
    BY <1>0, <1>1, <2>1, <2>2 DEF BbTokenInv, BbTokenHeld
  <2> QED
    BY <2>3, <2>4 DEF BbTokenInv
<1>3. CASE BbTokenRotate(w)
  <2> DEFINE row == [bbTokenActor[w].row EXCEPT !.token = bbTokenValid + 1]
  <2>1. /\ bbTokenActor[w].pc = "ask" /\ bbTokenActor[w].row.token = bbTokenValid /\ bbTokenValid < BbTokens
        /\ bbTokenValid' = bbTokenValid + 1 /\ BbTokenGoes(w, "save", row)
        /\ UNCHANGED <<bbTokenRow, bbTokenLock, bbTokenEdits>>
    BY <1>3 DEF BbTokenRotate
  <2>2. row \in BbTokenRow
    BY <1>0, <2>1, BbTokenParts
  <2> HIDE DEF row
  <2>3. /\ bbTokenActor' \in [BbTokenActors -> BbTokenState]
        /\ bbTokenActor'[w].pc = "save"
        /\ \A b \in BbTokenActors : b # w => bbTokenActor'[b] = bbTokenActor[b]
    BY <1>0, <2>1, <2>2, BbTokenGoesTo DEF BbTokenInv
  <2>4. BbTokenTypeOK'
    BY <2>1, <2>3, BbTokenAssumption, BbTokenParts DEF BbTokenInv, BbTokenTypeOK, BbTokenState
  <2>5. bbTokenLock = w /\ bbTokenRow.token = bbTokenValid
    BY <2>1 DEF BbTokenInv, BbTokenHeld
  <2>6. BbTokenHeld'
    BY <1>0, <1>1, <2>1, <2>3, <2>5, BbTokenParts DEF BbTokenInv, BbTokenHeld
  <2> QED
    BY <2>4, <2>6 DEF BbTokenInv
<1>4. CASE BbTokenSave(w) \/ BbTokenRefused(w) \/ BbTokenLost(w)
  <2>1. /\ bbTokenActor[w].pc # "idle" /\ BbTokenUnlock(w) /\ BbTokenGoes(w, "idle", BbTokenBlank)
        /\ bbTokenRow' \in {bbTokenRow, bbTokenActor[w].row} /\ UNCHANGED <<bbTokenValid, bbTokenEdits>>
    BY <1>4 DEF BbTokenSave, BbTokenRefused, BbTokenLost
  <2>2. bbTokenLock = w /\ bbTokenLock' = BbTokenNone
    BY <2>1 DEF BbTokenInv, BbTokenHeld, BbTokenUnlock
  <2>3. /\ bbTokenActor' \in [BbTokenActors -> BbTokenState]
        /\ bbTokenActor'[w].pc = "idle"
        /\ \A b \in BbTokenActors : b # w => bbTokenActor'[b] = bbTokenActor[b]
    BY <1>0, <2>1, BbTokenGoesTo, BbTokenParts DEF BbTokenInv
  <2>4. BbTokenTypeOK'
    BY <1>0, <2>1, <2>2, <2>3, BbTokenParts DEF BbTokenInv, BbTokenTypeOK, BbTokenState
  <2>5. \A v \in BbTokenWorkers : bbTokenActor'[v].pc = "idle"
    BY <1>0, <1>1, <2>2, <2>3
  <2> QED
    BY <2>4, <2>5 DEF BbTokenInv, BbTokenHeld
<1> QED
  BY <1>2, <1>3, <1>4

\* What the others do: a row is saved only while nobody has it locked.
LEMMA BbTokenOtherStep ==
    ASSUME BbTokenInv, NEW a \in BbTokenViews \cup BbTokenEditors,
           \/ BbTokenComplete(a) \/ BbTokenExchange(a) \/ BbTokenError(a)
           \/ BbTokenEdit(a) \/ BbTokenOverwrite(a) \/ BbTokenLost(a)
    PROVE  BbTokenInv'
<1>0. a \in BbTokenActors /\ \A v \in BbTokenWorkers : v \in BbTokenActors /\ v # a
  BY BbTokenAssumption DEF BbTokenActors
<1>7. bbTokenLock = a => bbTokenLock = BbTokenNone
  BY <1>0, BbTokenParts
<1>1. PICK pc \in {"idle", "ask", "save"}, row \in BbTokenRow : BbTokenGoes(a, pc, row)
  <2>1. CASE BbTokenComplete(a)
    BY <2>1, BbTokenParts DEF BbTokenComplete
  <2>2. CASE BbTokenExchange(a)
    BY <1>0, <2>2, BbTokenParts DEF BbTokenExchange
  <2>3. CASE BbTokenError(a) \/ BbTokenOverwrite(a) \/ BbTokenLost(a)
    BY <2>3, BbTokenParts DEF BbTokenError, BbTokenOverwrite, BbTokenLost
  <2>4. CASE BbTokenEdit(a)
    <3>1. [bbTokenRow EXCEPT !.active = ~@] \in BbTokenRow
      BY BbTokenParts DEF BbTokenRow
    <3> QED
      BY <2>4, <3>1 DEF BbTokenEdit
  <2> QED
    BY <2>1, <2>2, <2>3, <2>4
<1>2. /\ bbTokenActor' \in [BbTokenActors -> BbTokenState]
      /\ \A v \in BbTokenWorkers : bbTokenActor'[v] = bbTokenActor[v]
  BY <1>0, <1>1, BbTokenGoesTo DEF BbTokenInv
<1>3. /\ bbTokenLock' = bbTokenLock /\ bbTokenValid' \in 0 .. BbTokens /\ bbTokenValid' >= bbTokenValid
      /\ bbTokenEdits' \in 0 .. BbTokenEdits
      /\ \/ bbTokenRow' = bbTokenRow
         \/ bbTokenRow' = bbTokenActor[a].row /\ bbTokenLock = BbTokenNone
  BY <1>7, BbTokenParts, BbTokenAssumption
  DEF BbTokenInv, BbTokenTypeOK, BbTokenComplete, BbTokenExchange, BbTokenError, BbTokenEdit, BbTokenOverwrite,
      BbTokenLost, BbTokenUnlock
<1>4. BbTokenTypeOK'
  BY <1>0, <1>2, <1>3, BbTokenParts DEF BbTokenInv, BbTokenTypeOK, BbTokenState
<1>5. bbTokenLock = BbTokenNone => \A v \in BbTokenWorkers : bbTokenActor[v].pc = "idle"
  BY BbTokenAssumption DEF BbTokenInv, BbTokenHeld
<1>6. BbTokenHeld'
  BY <1>2, <1>3, <1>5, BbTokenParts, BbTokenAssumption DEF BbTokenInv, BbTokenHeld
<1> QED
  BY <1>4, <1>6 DEF BbTokenInv

LEMMA BbTokenInvStep == BbTokenInv /\ [BbTokenNext]_bbTokenVars => BbTokenInv'
<1> SUFFICES ASSUME BbTokenInv, [BbTokenNext]_bbTokenVars PROVE BbTokenInv'
  OBVIOUS
<1>1. CASE BbTokenNext
  BY <1>1, BbTokenWorkerStep, BbTokenOtherStep DEF BbTokenNext
<1>2. CASE UNCHANGED bbTokenVars
  BY <1>2 DEF bbTokenVars, BbTokenInv, BbTokenTypeOK, BbTokenHeld
<1> QED
  BY <1>1, <1>2

BbTokenHolder(a) == bbTokenActor[a].pc = "save" /\ bbTokenActor[a].row.token = bbTokenValid

LEMMA BbConnectedBy ==
    /\ BbConnected <=>
          bbTokenValid = bbTokenRow.token \/ \E a \in BbTokenWorkers \cup BbTokenViews : BbTokenHolder(a)
    /\ BbConnected' <=>
          bbTokenValid' = bbTokenRow'.token \/ \E a \in BbTokenWorkers \cup BbTokenViews : BbTokenHolder(a)'
BY DEF BbConnected, BbTokenHolder

BbTokenNowLost ==
    \/ \E a \in BbTokenWorkers \cup BbTokenViews :
           BbTokenLost(a) /\ bbTokenActor[a].row.token = bbTokenValid
    \/ \E a \in BbTokenViews \cup BbTokenEditors : BbTokenStale(a) /\ BbTokenOverwrite(a)

\* A step of one request leaves the token with those who have it.
LEMMA BbTokenKept ==
    ASSUME BbTokenInv, BbConnected, NEW b \in BbTokenActors,
           \A a \in BbTokenActors : a # b => bbTokenActor'[a] = bbTokenActor[a],
           bbTokenValid' = bbTokenValid, ~BbTokenHolder(b),
           bbTokenValid = bbTokenRow.token => bbTokenRow'.token = bbTokenRow.token
    PROVE  BbConnected'
<1>1. BbTokenWorkers \cup BbTokenViews \subseteq BbTokenActors
  BY DEF BbTokenActors
<1>2. ASSUME NEW a \in BbTokenWorkers \cup BbTokenViews, BbTokenHolder(a) PROVE BbTokenHolder(a)'
  <2>1. a # b
    BY <1>2
  <2> QED
    BY <1>1, <1>2, <2>1 DEF BbTokenHolder
<1> QED
  BY <1>2, BbConnectedBy

LEMMA BbTokenConnection ==
    ASSUME BbTokenInv, BbTokenNext, BbConnected, ~BbConnected'
    PROVE  BbTokenNowLost
<1>0. BbTokenWorkers \cup BbTokenViews \subseteq BbTokenActors /\ BbTokenEditors \subseteq BbTokenActors
  BY DEF BbTokenActors
<1>1. ASSUME NEW a \in BbTokenActors, NEW pc \in {"idle", "ask", "save"}, NEW row, BbTokenGoes(a, pc, row)
      PROVE  /\ bbTokenActor'[a].pc = pc /\ bbTokenActor'[a].row = row
             /\ \A b \in BbTokenActors : b # a => bbTokenActor'[b] = bbTokenActor[b]
  BY <1>1 DEF BbTokenInv, BbTokenTypeOK, BbTokenGoes
<1>2. ASSUME NEW w \in BbTokenWorkers, BbTokenRead(w) \/ BbTokenRefused(w) PROVE FALSE
  BY <1>0, <1>1, <1>2, BbTokenKept DEF BbTokenRead, BbTokenRefused, BbTokenHolder
\* The new token is with whoever got it.
<1>3. ASSUME NEW a \in BbTokenWorkers \cup BbTokenViews, NEW row,
             BbTokenGoes(a, "save", [row EXCEPT !.token = bbTokenValid + 1]), row \in BbTokenRow,
             bbTokenValid' = bbTokenValid + 1
      PROVE  FALSE
  <2>1. [row EXCEPT !.token = bbTokenValid + 1].token = bbTokenValid + 1
    BY <1>3 DEF BbTokenRow
  <2>2. BbTokenHolder(a)'
    BY <1>0, <1>1, <1>3, <2>1 DEF BbTokenHolder
  <2> QED
    BY <2>2, BbConnectedBy
<1>4. ASSUME NEW w \in BbTokenWorkers, BbTokenRotate(w) PROVE FALSE
  BY <1>0, <1>3, <1>4, BbTokenParts DEF BbTokenRotate
\* A row that somebody saves: the token he has is the row's from now on.
<1>5. ASSUME NEW a \in BbTokenActors, bbTokenActor[a].pc = "save", bbTokenRow' = bbTokenActor[a].row,
             BbTokenGoes(a, "idle", BbTokenBlank), bbTokenValid' = bbTokenValid
      PROVE  /\ bbTokenActor[a].row.token # bbTokenValid
             /\ bbTokenActor[a].row.token # bbTokenRow.token /\ bbTokenValid = bbTokenRow.token
  <2>1. bbTokenActor[a].row.token # bbTokenValid
    BY <1>5, BbConnectedBy
  <2>2. CASE bbTokenValid # bbTokenRow.token
    BY <1>1, <1>5, <2>1, <2>2, BbTokenKept DEF BbTokenHolder
  <2> QED
    BY <2>1, <2>2
<1>6. ASSUME NEW w \in BbTokenWorkers, BbTokenSave(w) PROVE FALSE
  <2>1. bbTokenRow.token < bbTokenValid
    BY <1>6 DEF BbTokenSave, BbTokenInv, BbTokenHeld
  <2>2. bbTokenValid = bbTokenRow.token
    BY <1>0, <1>5, <1>6 DEF BbTokenSave
  <2> QED
    BY <2>1, <2>2, BbTokenParts
<1>7. ASSUME NEW a \in BbTokenWorkers \cup BbTokenViews, BbTokenLost(a)
      PROVE  bbTokenActor[a].row.token = bbTokenValid
  BY <1>0, <1>1, <1>7, BbTokenKept DEF BbTokenLost, BbTokenHolder
<1>8. ASSUME NEW v \in BbTokenViews, BbTokenComplete(v) \/ BbTokenError(v) PROVE FALSE
  BY <1>0, <1>1, <1>8, BbTokenKept DEF BbTokenComplete, BbTokenError, BbTokenHolder
<1>9. ASSUME NEW v \in BbTokenViews, BbTokenExchange(v) PROVE FALSE
  BY <1>0, <1>3, <1>9, BbTokenParts DEF BbTokenExchange
<1>10. ASSUME NEW e \in BbTokenEditors, BbTokenEdit(e) PROVE FALSE
  BY <1>0, <1>1, <1>10, BbTokenKept DEF BbTokenEdit, BbTokenHolder
<1>11. ASSUME NEW a \in BbTokenViews \cup BbTokenEditors, BbTokenOverwrite(a) PROVE BbTokenStale(a)
  BY <1>0, <1>5, <1>11 DEF BbTokenOverwrite, BbTokenStale
<1> QED
  BY <1>2, <1>4, <1>6, <1>7, <1>8, <1>9, <1>10, <1>11 DEF BbTokenNext, BbTokenNowLost

\* However many workers, views and editors there are: a worker about to use a token has
\* the one Blackboard takes, if the row has it; and a connection is lost only by the worker
\* or view that got the new token and never saved it, or by a save over a token that was
\* refreshed meanwhile.
THEOREM WorkersKeepTheToken == BbTokenSpec => BbTokensTakeTurns
<1>1. BbTokenInv /\ BbTokenInv' /\ [BbTokenNext]_bbTokenVars =>
        [/\ \A w \in BbTokenWorkers :
               bbTokenActor'[w].pc = "ask" /\ bbTokenRow'.token = bbTokenValid'
                   => bbTokenActor'[w].row.token = bbTokenValid'
         /\ BbConnected /\ ~BbConnected' => BbTokenNowLost]_bbTokenVars
  <2> SUFFICES ASSUME BbTokenInv, BbTokenInv', BbTokenNext
               PROVE  /\ \A w \in BbTokenWorkers :
                            bbTokenActor'[w].pc = "ask" /\ bbTokenRow'.token = bbTokenValid'
                                => bbTokenActor'[w].row.token = bbTokenValid'
                      /\ BbConnected /\ ~BbConnected' => BbTokenNowLost
    OBVIOUS
  <2>1. \A w \in BbTokenWorkers :
          bbTokenActor'[w].pc = "ask" /\ bbTokenRow'.token = bbTokenValid'
              => bbTokenActor'[w].row.token = bbTokenValid'
    BY DEF BbTokenInv, BbTokenHeld
  <2> QED
    BY <2>1, BbTokenConnection
<1> QED
  BY BbTokenInvInit, BbTokenInvStep, <1>1, PTL DEF BbTokenSpec, BbTokensTakeTurns, BbTokenNowLost

-----------------------------------------------------------------------------
(* The courses *)

BbItems == [payload : BbPayloads, child : BOOLEAN]
BbPCs == {"course", "patch", "list", "unlist", "content", "child", "dropContent", "dropCourse", "remove"}
BbCallType == [op : {"create", "update", "delete"}, payload : BbPayloads, clean : BOOLEAN, pc : BbPCs \cup BbAnswers]

BbMade(child) == <<[payload |-> bbCall.payload, child |-> child]>>

\* How far a call has got.
BbStage ==
    /\ bbCall.pc = "course" => bbCall.op = "create"
    /\ bbCall.pc = "patch" => bbCall.op = "update"
    /\ bbCall.pc \in {"list", "unlist"} => bbCall.op = "update" /\ bbCourse = bbCall.payload
    /\ bbCall.pc = "unlist" => bbContents # <<>>
    /\ bbCall.pc \in {"content", "child", "dropContent"} => bbCall.op # "delete" /\ bbCourse = bbCall.payload
    /\ bbCall.pc = "content" => bbContents = <<>>
    /\ bbCall.pc \in {"child", "dropContent"} => bbContents = BbMade(FALSE)
    /\ bbCall.pc = "dropCourse" => bbCall.op = "create"
    /\ bbCall.pc = "remove" => bbCall.op = "delete"

\* There is one item at the most.
BbCoursesInv ==
    /\ bbCourse \in 0 .. BbVersions /\ bbCall \in BbCallType
    /\ bbContents = <<>> \/ \E item \in BbItems : bbContents = <<item>>
    /\ BbStage

LEMMA OneItem ==
    ASSUME NEW item
    PROVE  /\ Front(<<item>>) = <<>> /\ Len(<<item>>) = 1 /\ <<item>> # <<>>
           /\ Append(<<>>, item) = <<item>> /\ <<item>>[1] = item
           /\ \A y : [<<item>> EXCEPT ![1] = y] = <<y>>
<1>1. Len(<<item>>) = 1 /\ <<item>> # <<>> /\ Append(<<>>, item) = <<item>> /\ <<item>>[1] = item
  OBVIOUS
<1>2. Front(<<item>>) = <<>>
  BY <1>1 DEF Front
<1>3. \A y : [<<item>> EXCEPT ![1] = y] = <<y>>
  OBVIOUS
<1> QED
  BY <1>1, <1>2, <1>3

\* The item gets its child.
LEMMA ChildAdded ==
    ASSUME NEW v \in BbPayloads
    PROVE  [<<[payload |-> v, child |-> FALSE]>> EXCEPT ![Len(<<[payload |-> v, child |-> FALSE]>>)].child = TRUE]
               = <<[payload |-> v, child |-> TRUE]>>
<1> DEFINE item == [payload |-> v, child |-> FALSE]
           whole == [item EXCEPT !.child = TRUE]
<1>1. item \in BbItems /\ item.payload = v
  BY DEF BbItems
<1> HIDE DEF item
<1>2. whole \in BbItems /\ whole.payload = v /\ whole.child = TRUE
  BY <1>1 DEF BbItems
<1> HIDE DEF whole
<1>3. whole = [payload |-> v, child |-> TRUE]
  BY <1>2 DEF BbItems
<1>4. [<<item>> EXCEPT ![1] = whole] = <<whole>> /\ <<item>>[1] = item /\ Len(<<item>>) = 1
  BY OneItem
<1>5. [<<item>> EXCEPT ![Len(<<item>>)].child = TRUE] = <<whole>>
  BY <1>4, Zenon DEF whole
<1> QED
  BY <1>3, <1>5 DEF item

LEMMA BbCoursesInvInit == BbCoursesInit => BbCoursesInv
<1> SUFFICES ASSUME BbCoursesInit PROVE BbCoursesInv
  OBVIOUS
<1>1. 1 \in BbPayloads /\ 0 \in 0 .. BbVersions
  BY BbCoursesAssumption DEF BbPayloads
<1> QED
  BY <1>1 DEF BbCoursesInit, BbCoursesInv, BbCallType, BbStage, BbAnswers, BbPCs

\* Where a request takes the call.
LEMMA BbCallMoved ==
    ASSUME BbCoursesInv, NEW pc \in BbPCs \cup BbAnswers, BbGoto(pc) \/ BbUnclean(pc)
    PROVE  /\ bbCall' \in BbCallType /\ bbCall'.pc = pc
           /\ bbCall'.op = bbCall.op /\ bbCall'.payload = bbCall.payload
           /\ BbGoto(pc) => bbCall'.clean = bbCall.clean
           /\ BbUnclean(pc) => bbCall'.clean = FALSE
BY DEF BbCoursesInv, BbCallType, BbGoto, BbUnclean

\* A call that ends without an answer may leave its object as it is.
LEMMA BbCallEnds ==
    ASSUME BbCoursesInv, NEW pc \in BbAnswers, BbGoto(pc) \/ BbUnclean(pc),
           bbCourse' \in 0 .. BbVersions,
           bbContents' = <<>> \/ \E item \in BbItems : bbContents' = <<item>>
    PROVE  BbCoursesInv'
<1>1. bbCall' \in BbCallType /\ bbCall'.pc = pc
  BY BbCallMoved
<1> QED
  BY <1>1 DEF BbCoursesInv, BbStage, BbAnswers

\* What the property asks of a step.
BbStepIsWhole ==
    /\ Len(bbContents') <= 1
    /\ BbEnds({"ok"}) =>
          IF bbCall.op = "delete" THEN bbCourse' = 0
          ELSE /\ bbCourse' = bbCall.payload
               /\ bbContents' = <<[payload |-> bbCall.payload, child |-> TRUE]>>
    /\ bbCall.op = "create" /\ BbEnds({"failed"}) /\ bbCall'.clean =>
          bbCourse' = 0 \/ bbCall.pc = "course"

\* A step keeps the invariant and is whole.
LEMMA BbCoursesStep == ASSUME BbCoursesInv, BbCoursesNext PROVE BbCoursesInv' /\ BbStepIsWhole
<1>1. /\ bbCourse \in 0 .. BbVersions /\ bbCall \in BbCallType /\ bbCall.payload \in BbPayloads
      /\ bbContents = <<>> \/ \E item \in BbItems : bbContents = <<item>>
      /\ 0 \in 0 .. BbVersions /\ bbCall.payload \in 0 .. BbVersions /\ bbCall.payload # 0
  BY BbCoursesAssumption DEF BbCoursesInv, BbCallType, BbPayloads
<1>2. ASSUME BbCoursesInv' PROVE Len(bbContents') <= 1
  <2>1. CASE bbContents' = <<>>
    BY <2>1
  <2>2. ASSUME NEW item, bbContents' = <<item>> PROVE Len(bbContents') <= 1
    BY <2>2, OneItem
  <2> QED
    BY <1>2, <2>1, <2>2 DEF BbCoursesInv
<1>3. BbMade(FALSE) = <<BbContent>> /\ BbContent \in BbItems
  BY <1>1 DEF BbMade, BbContent, BbItems
\* Steps that do not end the call.
<1>4. ASSUME NEW op \in {"create", "update", "delete"}, NEW v \in BbPayloads, BbBegin(op, v)
      PROVE  BbCoursesInv' /\ BbStepIsWhole
  <2>1. /\ bbCall.pc \in BbAnswers /\ UNCHANGED <<bbCourse, bbContents>>
        /\ bbCall' = [op |-> op, payload |-> v, clean |-> TRUE,
                      pc |-> CASE op = "create" -> "course" [] op = "update" -> "patch" [] OTHER -> "remove"]
    BY <1>4 DEF BbBegin
  <2>2. BbCoursesInv'
    BY <1>1, <2>1 DEF BbCoursesInv, BbCallType, BbStage, BbPCs, BbAnswers
  <2> QED
    BY <1>2, <2>1, <2>2 DEF BbStepIsWhole, BbEnds
<1>5. CASE BbPostCourse
  <2>1. bbCall.pc = "course" /\ bbCall.op = "create"
    BY <1>5 DEF BbPostCourse, BbCoursesInv, BbStage
  <2>2. CASE BbGoto("content")
    <3>1. /\ bbCall' \in BbCallType /\ bbCall'.pc = "content" /\ bbCall'.op = "create"
          /\ bbCall'.payload = bbCall.payload
      BY <2>1, <2>2, BbCallMoved DEF BbPCs
    <3>2. bbCourse' = bbCall.payload /\ bbContents' = <<>>
      BY <1>5, <3>1 DEF BbPostCourse, BbRequest, BbGoto, BbUnclean, BbCallType
    <3>3. BbCoursesInv'
      BY <1>1, <3>1, <3>2 DEF BbCoursesInv, BbStage
    <3> QED
      BY <1>2, <3>1, <3>3 DEF BbStepIsWhole, BbEnds
  <2>3. CASE ~BbGoto("content")
    <3>1. /\ BbGoto("notModified") \/ BbGoto("failed") \/ BbUnclean("failed")
          /\ bbCourse' \in {bbCourse, bbCall.payload} /\ bbContents' \in {bbContents, <<>>}
      BY <1>5, <2>3 DEF BbPostCourse, BbRequest
    <3>2. BbCoursesInv'
      BY <1>1, <3>1, BbCallEnds DEF BbAnswers
    <3>3. bbCall'.pc \in {"notModified", "failed"}
      BY <3>1, BbCallMoved DEF BbAnswers
    <3> QED
      BY <1>2, <2>1, <3>2, <3>3 DEF BbStepIsWhole, BbEnds
  <2> QED
    BY <2>2, <2>3
\* A request that fails, or is not answered, and ends the call.
<1>6. ASSUME NEW pc \in {"notModified", "failed"}, BbGoto(pc) \/ BbUnclean(pc),
             bbCourse' \in 0 .. BbVersions,
             bbContents' = <<>> \/ \E item \in BbItems : bbContents' = <<item>>,
             bbCall.op = "create" /\ ~BbUnclean(pc) => bbCourse' = 0
      PROVE  BbCoursesInv' /\ BbStepIsWhole
  <2>1. BbCoursesInv'
    BY <1>6, BbCallEnds DEF BbAnswers
  <2>2. bbCall'.pc = pc /\ (bbCall'.clean => ~BbUnclean(pc))
    BY <1>6, BbCallMoved DEF BbAnswers
  <2> QED
    BY <1>2, <1>6, <2>1, <2>2 DEF BbStepIsWhole, BbEnds
<1>7. CASE BbPatchCourse
  <2>1. bbCall.pc = "patch" /\ bbCall.op = "update"
    BY <1>7 DEF BbPatchCourse, BbCoursesInv, BbStage
  <2>2. CASE BbGoto("failed")
    <3>1. bbCourse' \in {bbCourse, bbCall.payload} /\ bbContents' = bbContents
      BY <1>7 DEF BbPatchCourse, BbRequest
    <3> QED
      BY <1>1, <1>6, <2>1, <2>2, <3>1
  <2>3. CASE ~BbGoto("failed")
    <3>1. BbGoto("list") /\ bbCourse' = bbCall.payload /\ bbContents' = bbContents
      BY <1>7, <2>3 DEF BbPatchCourse, BbRequest
    <3>2. /\ bbCall' \in BbCallType /\ bbCall'.pc = "list" /\ bbCall'.op = "update"
          /\ bbCall'.payload = bbCall.payload
      BY <2>1, <3>1, BbCallMoved DEF BbPCs
    <3>3. BbCoursesInv'
      BY <1>1, <3>1, <3>2 DEF BbCoursesInv, BbStage
    <3> QED
      BY <1>2, <3>2, <3>3 DEF BbStepIsWhole, BbEnds
  <2> QED
    BY <2>2, <2>3
<1>8. CASE BbListContents
  <2>1. /\ bbCall.pc = "list" /\ bbCall.op = "update" /\ bbCourse = bbCall.payload
        /\ UNCHANGED <<bbCourse, bbContents>>
    BY <1>8 DEF BbListContents, BbCoursesInv, BbStage
  <2>2. CASE BbGoto("failed")
    BY <1>1, <1>6, <2>1, <2>2
  <2>3. CASE ~BbGoto("failed")
    <3> DEFINE pc == IF bbContents = <<>> THEN "content" ELSE "unlist"
    <3>1. BbGoto(pc) /\ pc \in BbPCs
      BY <1>8, <2>3 DEF BbListContents, BbPCs
    <3>2. /\ bbCall' \in BbCallType /\ bbCall'.pc = pc /\ bbCall'.op = "update"
          /\ bbCall'.payload = bbCall.payload
      BY <2>1, <3>1, BbCallMoved
    <3>3. BbCoursesInv'
      BY <1>1, <2>1, <3>2 DEF BbCoursesInv, BbStage
    <3> QED
      BY <1>2, <3>2, <3>3 DEF BbStepIsWhole, BbEnds
  <2> QED
    BY <2>2, <2>3
<1>9. CASE BbRemoveContent
  <2>1. bbCall.pc = "unlist" /\ bbCall.op = "update" /\ bbCourse = bbCall.payload /\ bbContents # <<>>
    BY <1>9 DEF BbRemoveContent, BbCoursesInv, BbStage
  <2>2. BbWithoutLast = <<>>
    BY <1>1, <2>1, OneItem DEF BbWithoutLast
  <2>3. CASE BbGoto("failed")
    <3>1. bbCourse' = bbCourse /\ bbContents' \in {bbContents, <<>>}
      BY <1>9, <2>2 DEF BbRemoveContent, BbRequest
    <3> QED
      BY <1>1, <1>6, <2>1, <2>3, <3>1
  <2>4. CASE ~BbGoto("failed")
    <3>1. BbGoto("content") /\ bbCourse' = bbCourse /\ bbContents' = <<>>
      BY <1>9, <2>2, <2>4 DEF BbRemoveContent, BbRequest
    <3>2. /\ bbCall' \in BbCallType /\ bbCall'.pc = "content" /\ bbCall'.op = "update"
          /\ bbCall'.payload = bbCall.payload
      BY <2>1, <3>1, BbCallMoved DEF BbPCs
    <3>3. BbCoursesInv'
      BY <1>1, <2>1, <3>1, <3>2 DEF BbCoursesInv, BbStage
    <3> QED
      BY <1>2, <3>2, <3>3 DEF BbStepIsWhole, BbEnds
  <2> QED
    BY <2>3, <2>4
<1>10. CASE BbPostContent
  <2> DEFINE failed == IF bbCall.op = "create" THEN "dropCourse" ELSE "failed"
  <2>1. /\ bbCall.pc = "content" /\ bbCall.op # "delete" /\ bbCourse = bbCall.payload /\ bbContents = <<>>
    BY <1>10 DEF BbPostContent, BbCoursesInv, BbStage
  <2>2. Append(bbContents, BbContent) = BbMade(FALSE)
    BY <1>3, <2>1, OneItem
  <2>3. bbCourse' = bbCourse /\ bbContents' \in {<<>>, BbMade(FALSE)}
        /\ \/ bbContents' = BbMade(FALSE) /\ (BbGoto("child") \/ BbUnclean("failed"))
           \/ bbContents' = <<>> /\ BbGoto(failed)
    BY <1>10, <2>1, <2>2 DEF BbPostContent, BbRequest
  <2>4. CASE BbUnclean("failed")
    BY <1>1, <1>3, <1>6, <2>3, <2>4
  <2>5. CASE BbGoto("child") /\ bbContents' = BbMade(FALSE)
    <3>1. /\ bbCall' \in BbCallType /\ bbCall'.pc = "child" /\ bbCall'.op = bbCall.op
          /\ bbCall'.payload = bbCall.payload
      BY <2>5, BbCallMoved DEF BbPCs
    <3>2. BbCoursesInv'
      BY <1>1, <1>3, <2>1, <2>3, <2>5, <3>1 DEF BbCoursesInv, BbStage, BbMade
    <3> QED
      BY <1>2, <3>1, <3>2 DEF BbStepIsWhole, BbEnds
  <2>6. CASE bbContents' = <<>> /\ BbGoto("failed") /\ bbCall.op # "create"
    BY <1>1, <1>6, <2>3, <2>6
  <2>7. CASE bbContents' = <<>> /\ BbGoto("dropCourse") /\ bbCall.op = "create"
    <3>1. /\ bbCall' \in BbCallType /\ bbCall'.pc = "dropCourse" /\ bbCall'.op = "create"
      BY <2>7, BbCallMoved DEF BbPCs
    <3>2. BbCoursesInv'
      BY <1>1, <2>3, <2>7, <3>1 DEF BbCoursesInv, BbStage
    <3> QED
      BY <1>2, <3>1, <3>2 DEF BbStepIsWhole, BbEnds
  <2> QED
    BY <2>3, <2>4, <2>5, <2>6, <2>7
<1>11. CASE BbPostChild
  <2>1. bbCall.pc = "child" /\ bbCall.op # "delete" /\ bbCourse = bbCall.payload /\ bbContents = BbMade(FALSE)
    BY <1>11 DEF BbPostChild, BbCoursesInv, BbStage
  <2>2. [bbContents EXCEPT ![Len(bbContents)].child = TRUE] = BbMade(TRUE)
    BY <1>1, <2>1, ChildAdded DEF BbMade
  <2>3. /\ bbCourse' = bbCourse
        /\ \/ bbContents' = BbMade(TRUE) /\ (BbGoto("ok") \/ BbUnclean("failed"))
           \/ bbContents' = bbContents /\ BbGoto("dropContent")
    BY <1>11, <2>2 DEF BbPostChild, BbRequest
  <2>4. \E item \in BbItems : BbMade(TRUE) = <<item>>
    BY <1>1 DEF BbMade, BbItems
  <2>5. CASE BbUnclean("failed") /\ bbContents' = BbMade(TRUE)
    BY <1>1, <1>6, <2>3, <2>4, <2>5
  <2>6. CASE BbGoto("ok") /\ bbContents' = BbMade(TRUE)
    <3>1. BbCoursesInv' /\ bbCall'.pc = "ok"
      BY <1>1, <2>3, <2>4, <2>6, BbCallEnds, BbCallMoved DEF BbAnswers
    <3> QED
      BY <1>2, <2>1, <2>3, <2>6, <3>1 DEF BbStepIsWhole, BbEnds, BbMade
  <2>7. CASE BbGoto("dropContent") /\ bbContents' = bbContents
    <3>1. /\ bbCall' \in BbCallType /\ bbCall'.pc = "dropContent" /\ bbCall'.op = bbCall.op
          /\ bbCall'.payload = bbCall.payload
      BY <2>7, BbCallMoved DEF BbPCs
    <3>2. BbCoursesInv'
      BY <1>1, <2>1, <2>3, <2>7, <3>1 DEF BbCoursesInv, BbStage, BbMade
    <3> QED
      BY <1>2, <3>1, <3>2 DEF BbStepIsWhole, BbEnds
  <2> QED
    BY <2>3, <2>5, <2>6, <2>7
<1>12. CASE BbDropContent
  <2>1. bbCall.pc = "dropContent" /\ bbCourse = bbCall.payload /\ bbContents = BbMade(FALSE)
    BY <1>12 DEF BbDropContent, BbCoursesInv, BbStage
  <2>2. BbWithoutLast = <<>>
    BY <2>1, OneItem DEF BbWithoutLast, BbMade
  <2>3. /\ bbCourse' = bbCourse /\ bbContents' \in {bbContents, <<>>}
        /\ \/ BbGoto("dropCourse") /\ bbCall.op = "create" /\ bbContents' = <<>>
           \/ BbGoto("failed") /\ bbCall.op # "create"
           \/ BbUnclean("failed")
    BY <1>12, <2>2 DEF BbDropContent, BbRequest
  <2>4. CASE BbUnclean("failed")
    BY <1>1, <1>6, <2>3, <2>4
  <2>5. CASE BbGoto("failed") /\ bbCall.op # "create"
    BY <1>1, <1>6, <2>3, <2>5
  <2>6. CASE BbGoto("dropCourse") /\ bbCall.op = "create" /\ bbContents' = <<>>
    <3>1. /\ bbCall' \in BbCallType /\ bbCall'.pc = "dropCourse" /\ bbCall'.op = "create"
      BY <2>6, BbCallMoved DEF BbPCs
    <3>2. BbCoursesInv'
      BY <1>1, <2>3, <2>6, <3>1 DEF BbCoursesInv, BbStage
    <3> QED
      BY <1>2, <3>1, <3>2 DEF BbStepIsWhole, BbEnds
  <2> QED
    BY <2>3, <2>4, <2>5, <2>6
<1>13. CASE BbDropCourse
  <2>1. /\ bbCourse' \in {bbCourse, 0} /\ bbContents' \in {bbContents, <<>>}
        /\ \/ BbGoto("failed") /\ bbCourse' = 0
           \/ BbUnclean("failed")
    BY <1>13 DEF BbDropCourse, BbRequest
  <2> QED
    BY <1>1, <1>6, <2>1
<1>14. CASE BbRemoveCourse
  <2>1. bbCall.pc = "remove" /\ bbCall.op = "delete"
    BY <1>14 DEF BbRemoveCourse, BbCoursesInv, BbStage
  <2>2. /\ bbCourse' \in {bbCourse, 0} /\ bbContents' \in {bbContents, <<>>}
        /\ \/ BbGoto("ok") /\ bbCourse' = 0
           \/ BbGoto("failed")
    BY <1>14 DEF BbRemoveCourse, BbRequest
  <2>3. CASE BbGoto("failed")
    BY <1>1, <1>6, <2>1, <2>2, <2>3
  <2>4. CASE BbGoto("ok") /\ bbCourse' = 0
    <3>1. BbCoursesInv' /\ bbCall'.pc = "ok"
      BY <1>1, <2>2, <2>4, BbCallEnds, BbCallMoved DEF BbAnswers
    <3> QED
      BY <1>2, <2>1, <2>4, <3>1 DEF BbStepIsWhole, BbEnds
  <2> QED
    BY <2>2, <2>3, <2>4
<1> QED
  BY <1>4, <1>5, <1>7, <1>8, <1>9, <1>10, <1>11, <1>12, <1>13, <1>14 DEF BbCoursesNext, BbStep

\* For any number of payloads: there are never two items, an answer of success means that
\* the course, its item and the item's child are what was asked for, and a creation that
\* fails with every answer seen leaves no course behind.
THEOREM CoursesStayWhole == BbCoursesSpec => BbCourseIsWhole
<1>1. BbCoursesInv /\ [BbCoursesNext]_bbCoursesVars => BbCoursesInv' /\ [BbStepIsWhole]_bbCoursesVars
  <2> SUFFICES ASSUME BbCoursesInv, [BbCoursesNext]_bbCoursesVars
               PROVE  BbCoursesInv' /\ [BbStepIsWhole]_bbCoursesVars
    OBVIOUS
  <2>1. CASE BbCoursesNext
    BY <2>1, BbCoursesStep
  <2>2. CASE UNCHANGED bbCoursesVars
    BY <2>2 DEF bbCoursesVars, BbCoursesInv, BbStage, BbMade
  <2> QED
    BY <2>1, <2>2
<1> QED
  BY BbCoursesInvInit, <1>1, PTL DEF BbCoursesSpec, BbCourseIsWhole, BbStepIsWhole

-----------------------------------------------------------------------------
(* The grades *)

\* A column that was made lies within the pages that are read: only then is it found again
\* (PAGE_TRAVERSAL_LIMIT).
BbPagesSuffice == BbMaxColumns <= BbPageLimit + 2

BbReportPCs == {"course", "enrolment", "list", "correct", "create", "submit", "answer"} \cup BbIdle

\* The report's column is n, and none before it is of its kind.
BbFirstOf(n, k) ==
    /\ n \in 1 .. Len(bbColumns) /\ bbColumns[n].kind = k
    /\ \A m \in 1 .. n - 1 : bbColumns[m].kind # k

BbGradesTyped ==
    /\ bbColumns \in Seq(BbColumn) /\ Len(bbColumns) <= BbMaxColumns
    /\ bbReport \in [learner : BbLearners, kind : BbKinds, grade : BbGrades, page : Nat, column : Nat, pc : BbReportPCs]
    /\ bbReported \in [BbLearners \X BbKinds -> BbShown]

\* What a report knows of the columns it has read, and what the one it found shows.
BbReportKnows ==
    /\ bbReport.page >= 1
    /\ bbReport.pc \in {"course", "enrolment"} => bbReport.page = 1
    /\ bbReport.pc = "list" =>
          \A m \in 1 .. Len(bbColumns) : bbColumns[m].kind = bbReport.kind => m >= bbReport.page
    /\ bbReport.pc = "create" =>
          \A m \in 1 .. Len(bbColumns) : bbColumns[m].kind = bbReport.kind =>
              m > bbReport.page /\ bbReport.page > BbPageLimit
    /\ bbReport.pc \in {"correct", "submit", "answer"} => BbFirstOf(bbReport.column, bbReport.kind)
    /\ bbReport.pc = "answer" =>
          bbColumns[bbReport.column].grades[bbReport.learner] = bbReport.grade

BbGradesInv == BbGradesTyped /\ BbReportKnows

\* A nonempty set of numbers has a least.
LEMMA LeastIsThere ==
    ASSUME NEW S \in SUBSET Nat, S # {}
    PROVE  \E n \in S : \A m \in S : n <= m
<1> DEFINE R == OpToRel(<, Nat)
<1>1. IsWellFoundedOn(R, Nat)
  BY NatLessThanWellFounded
<1> HIDE DEF R
<1>2. PICK n \in S : \A m \in S : ~(<<m, n>> \in R)
  BY <1>1, WFMin
<1>3. \A m \in S : ~(m < n)
  BY <1>2 DEF R, OpToRel
<1> QED
  BY <1>3

BbOfKind(columns, k) == {n \in DOMAIN columns : columns[n].kind = k}
BbLeast(S) == CHOOSE n \in S : \A m \in S : n <= m

LEMMA BbLeastIs ==
    ASSUME NEW S \in SUBSET Nat
    PROVE  /\ S # {} => BbLeast(S) \in S /\ \A m \in S : BbLeast(S) <= m
           /\ \A n \in S : (\A m \in S : n <= m) => BbLeast(S) = n
<1>1. ASSUME S # {} PROVE BbLeast(S) \in S /\ \A m \in S : BbLeast(S) <= m
  BY <1>1, LeastIsThere DEF BbLeast
<1>2. ASSUME NEW n \in S, \A m \in S : n <= m PROVE BbLeast(S) = n
  <2>1. BbLeast(S) \in S /\ BbLeast(S) <= n
    BY <1>1, <1>2
  <2>2. n <= BbLeast(S) /\ n \in Nat /\ BbLeast(S) \in Nat
    BY <1>2, <2>1
  <2> QED
    BY <2>1, <2>2
<1> QED
  BY <1>1, <1>2

\* The grades shown, by the columns.
BbShownBy(columns, l, k) ==
    IF BbOfKind(columns, k) = {} THEN BbNoGrade ELSE columns[BbLeast(BbOfKind(columns, k))].grades[l]

LEMMA BbShownIs ==
    /\ \A l, k : BbGradeShown(l, k) = BbShownBy(bbColumns, l, k)
    /\ \A l, k : BbGradeShown(l, k)' = BbShownBy(bbColumns', l, k)
BY DEF BbGradeShown, BbShownBy, BbOfKind, BbLeast

\* Columns keep their kinds and a learner's grades of a kind: what is shown stays.
LEMMA BbShownStays ==
    ASSUME NEW old \in Seq(BbColumn), NEW new \in Seq(BbColumn), NEW l, NEW k, Len(old) <= Len(new),
           \A n \in 1 .. Len(old) :
               new[n].kind = old[n].kind /\ (old[n].kind = k => new[n].grades[l] = old[n].grades[l]),
           \A n \in Len(old) + 1 .. Len(new) : new[n].kind # k
    PROVE  BbShownBy(new, l, k) = BbShownBy(old, l, k)
<1>1. DOMAIN old = 1 .. Len(old) /\ DOMAIN new = 1 .. Len(new) /\ Len(old) \in Nat /\ Len(new) \in Nat
  OBVIOUS
<1>2. BbOfKind(new, k) = BbOfKind(old, k)
  <2>1. \A n \in 1 .. Len(new) : n \in 1 .. Len(old) \/ n \in Len(old) + 1 .. Len(new)
    BY <1>1
  <2>2. \A n \in 1 .. Len(old) : n \in 1 .. Len(new)
    BY <1>1
  <2> QED
    BY <1>1, <2>1, <2>2 DEF BbOfKind
<1>3. CASE BbOfKind(old, k) = {}
  BY <1>2, <1>3 DEF BbShownBy
<1>4. CASE BbOfKind(old, k) # {}
  <2>1. BbLeast(BbOfKind(old, k)) \in BbOfKind(old, k)
    BY <1>1, <1>4, BbLeastIs DEF BbOfKind
  <2>2. \A n \in BbOfKind(old, k) : new[n].grades[l] = old[n].grades[l]
    BY <1>1 DEF BbOfKind
  <2> QED
    BY <1>2, <1>4, <2>1, <2>2 DEF BbShownBy
<1> QED
  BY <1>3, <1>4

\* What is shown is what the first column has.
LEMMA BbShownFirst ==
    ASSUME NEW columns \in Seq(BbColumn), NEW n \in 1 .. Len(columns), NEW l,
           \A m \in 1 .. n - 1 : columns[m].kind # columns[n].kind
    PROVE  BbShownBy(columns, l, columns[n].kind) = columns[n].grades[l]
<1> DEFINE S == BbOfKind(columns, columns[n].kind)
<1>1. DOMAIN columns = 1 .. Len(columns) /\ Len(columns) \in Nat
  OBVIOUS
<1>2. n \in S /\ S \subseteq Nat
  BY <1>1 DEF BbOfKind
<1>3. \A m \in S : n <= m
  <2> SUFFICES ASSUME NEW m \in S, ~(n <= m) PROVE FALSE
    OBVIOUS
  <2>1. m \in 1 .. Len(columns) /\ columns[m].kind = columns[n].kind
    BY <1>1 DEF BbOfKind
  <2>2. m \in 1 .. n - 1
    BY <1>1, <2>1
  <2> QED
    BY <2>1, <2>2
<1> HIDE DEF S
<1>4. BbLeast(S) = n /\ S # {}
  BY <1>2, <1>3, BbLeastIs
<1> QED
  BY <1>4 DEF BbShownBy, S

LEMMA BbGradesInvInit == BbGradesInit => BbGradesInv
<1> SUFFICES ASSUME BbGradesInit PROVE BbGradesInv
  OBVIOUS
<1>1. (CHOOSE l \in BbLearners : TRUE) \in BbLearners /\ (CHOOSE g \in BbGrades : TRUE) \in BbGrades
  BY BbGradesAssumption
<1>2. bbColumns \in Seq(BbColumn) /\ Len(bbColumns) = 0
  BY DEF BbGradesInit
<1>3. bbReported \in [BbLearners \X BbKinds -> BbShown]
  BY DEF BbGradesInit, BbShown
<1>4. bbReport \in [learner : BbLearners, kind : BbKinds, grade : BbGrades, page : Nat, column : Nat, pc : BbReportPCs]
  BY <1>1 DEF BbGradesInit, BbReportPCs, BbIdle, BbKinds
<1>5. bbReport.pc = "failed" /\ bbReport.page = 1
  BY DEF BbGradesInit
<1> QED
  BY <1>2, <1>3, <1>4, <1>5, BbGradesAssumption DEF BbGradesInv, BbGradesTyped, BbReportKnows

\* One column is changed, but for its kind.
LEMMA BbColumnChanged ==
    ASSUME BbGradesTyped, NEW n \in 1 .. Len(bbColumns), NEW column \in BbColumn,
           column.kind = bbColumns[n].kind, bbColumns' = [bbColumns EXCEPT ![n] = column]
    PROVE  /\ bbColumns' \in Seq(BbColumn) /\ Len(bbColumns') = Len(bbColumns)
           /\ bbColumns'[n] = column
           /\ \A m \in 1 .. Len(bbColumns) :
                 /\ bbColumns'[m].kind = bbColumns[m].kind
                 /\ m # n => bbColumns'[m] = bbColumns[m]
BY DEF BbGradesTyped

\* A column is added at the end.
LEMMA BbColumnAdded ==
    ASSUME BbGradesTyped, NEW kind \in BbKinds \cup {"teacher"}, NEW counts \in BOOLEAN, BbAppend(kind, counts)
    PROVE  /\ bbColumns' \in Seq(BbColumn) /\ Len(bbColumns') = Len(bbColumns) + 1
           /\ Len(bbColumns') <= BbMaxColumns
           /\ bbColumns'[Len(bbColumns) + 1].kind = kind
           /\ bbColumns'[Len(bbColumns) + 1].grades = [l \in BbLearners |-> BbNoGrade]
           /\ \A m \in 1 .. Len(bbColumns) : bbColumns'[m] = bbColumns[m]
<1> DEFINE column == [kind |-> kind, counts |-> counts, grades |-> [l \in BbLearners |-> BbNoGrade]]
<1>1. column \in BbColumn /\ column.kind = kind /\ column.grades = [l \in BbLearners |-> BbNoGrade]
  BY DEF BbColumn, BbShown
<1>2. bbColumns' = Append(bbColumns, column) /\ Len(bbColumns) < BbMaxColumns
  BY DEF BbAppend
<1> HIDE DEF column
<1>3. bbColumns \in Seq(BbColumn) /\ Len(bbColumns) \in Nat
  BY DEF BbGradesTyped
<1>4. /\ bbColumns' \in Seq(BbColumn) /\ Len(bbColumns') = Len(bbColumns) + 1
      /\ bbColumns'[Len(bbColumns) + 1] = column
      /\ \A m \in 1 .. Len(bbColumns) : bbColumns'[m] = bbColumns[m]
  BY <1>1, <1>2, <1>3
<1> QED
  BY <1>1, <1>2, <1>3, <1>4, BbGradesAssumption

\* The column a report has found stays the first of its kind.
LEMMA BbFirstStays ==
    ASSUME Len(bbColumns) \in Nat, Len(bbColumns') \in Nat, Len(bbColumns) <= Len(bbColumns'),
           \A m \in 1 .. Len(bbColumns) : bbColumns'[m].kind = bbColumns[m].kind,
           bbReport'.column = bbReport.column, bbReport'.kind = bbReport.kind,
           BbFirstOf(bbReport.column, bbReport.kind)
    PROVE  BbFirstOf(bbReport.column, bbReport.kind)'
<1>1. bbReport.column \in 1 .. Len(bbColumns) /\ bbReport.column \in 1 .. Len(bbColumns')
  BY DEF BbFirstOf
<1>2. \A m \in 1 .. bbReport.column - 1 : m \in 1 .. Len(bbColumns)
  BY <1>1
<1> QED
  BY <1>1, <1>2 DEF BbFirstOf

\* Where a step takes the report.
LEMMA BbReportMoved ==
    ASSUME BbGradesTyped, NEW pc \in BbReportPCs, BbReportGoto(pc)
    PROVE  /\ bbReport' \in [learner : BbLearners, kind : BbKinds, grade : BbGrades,
                             page : Nat, column : Nat, pc : BbReportPCs]
           /\ bbReport'.pc = pc /\ bbReport'.learner = bbReport.learner /\ bbReport'.kind = bbReport.kind
           /\ bbReport'.grade = bbReport.grade /\ bbReport'.page = bbReport.page
           /\ bbReport'.column = bbReport.column
BY DEF BbGradesTyped, BbReportGoto

BbGradebook == [r \in BbLearners \X BbKinds |-> BbGradeShown(r[1], r[2])]

\* A step changes nothing that learners see, ...
BbSilent == UNCHANGED <<BbGradebook, bbReported>>

\* ... records a grade, or answers a report.
BbReports ==
    \E r \in BbLearners \X BbKinds :
        \/ bbReported' = [bbReported EXCEPT ![r] = BbGradebook[r]] /\ UNCHANGED BbGradebook
        \/ \E g \in BbGrades : BbGradebook' = [BbGradebook EXCEPT ![r] = g] /\ UNCHANGED bbReported

\* Nothing is seen of a step that keeps kinds and grades, and at most adds a column that
\* is a teacher's or the first of its kind.
LEMMA BbStepIsSilent ==
    ASSUME bbColumns \in Seq(BbColumn), bbColumns' \in Seq(BbColumn), Len(bbColumns) <= Len(bbColumns'),
           \A n \in 1 .. Len(bbColumns) :
               bbColumns'[n].kind = bbColumns[n].kind /\ bbColumns'[n].grades = bbColumns[n].grades,
           \A n \in Len(bbColumns) + 1 .. Len(bbColumns') : bbColumns'[n].kind \notin BbKinds,
           UNCHANGED bbReported
    PROVE  BbSilent
<1>1. ASSUME NEW r \in BbLearners \X BbKinds PROVE BbGradeShown(r[1], r[2])' = BbGradeShown(r[1], r[2])
  <2>1. r[2] \in BbKinds
    OBVIOUS
  <2>2. BbShownBy(bbColumns', r[1], r[2]) = BbShownBy(bbColumns, r[1], r[2])
    BY <2>1, BbShownStays
  <2> QED
    BY <2>2, BbShownIs
<1> QED
  BY <1>1 DEF BbSilent, BbGradebook

LEMMA BbGradesStep ==
    ASSUME BbPagesSuffice, BbGradesInv, BbGradesNext
    PROVE  BbGradesInv' /\ (BbSilent \/ BbReports)
<1>0. BbGradesTyped /\ BbReportKnows
  BY DEF BbGradesInv
<1>1. /\ bbColumns \in Seq(BbColumn) /\ Len(bbColumns) \in Nat /\ Len(bbColumns) <= BbMaxColumns
      /\ bbReport \in [learner : BbLearners, kind : BbKinds, grade : BbGrades, page : Nat, column : Nat, pc : BbReportPCs]
      /\ bbReported \in [BbLearners \X BbKinds -> BbShown]
      /\ bbReport.page \in Nat /\ bbReport.page >= 1 /\ bbReport.kind \in BbKinds /\ bbReport.column \in Nat
      /\ BbPageLimit \in Nat /\ BbMaxColumns \in Nat
  BY <1>0, BbGradesAssumption DEF BbGradesTyped, BbReportKnows
\* A step of the report's that leaves the columns and the answers alone.
<1>2. ASSUME UNCHANGED <<bbColumns, bbReported>> PROVE BbSilent
  BY <1>1, <1>2, BbStepIsSilent
<1>3. ASSUME NEW l \in BbLearners, NEW k \in BbKinds, NEW g \in BbGrades, BbReportBegin(l, k, g)
      PROVE  BbGradesInv' /\ BbSilent
  <2>1. /\ bbReport' = [learner |-> l, kind |-> k, grade |-> g, page |-> 1, column |-> 0, pc |-> "course"]
        /\ UNCHANGED <<bbColumns, bbReported>>
    BY <1>3 DEF BbReportBegin
  <2>2. BbGradesTyped'
    BY <1>0, <2>1 DEF BbGradesTyped, BbReportPCs
  <2>3. BbReportKnows'
    BY <2>1 DEF BbReportKnows
  <2> QED
    BY <1>2, <2>1, <2>2, <2>3 DEF BbGradesInv
<1>4. ASSUME NEW pc \in {"failed", "enrolment", "list"}, BbReportGoto(pc), UNCHANGED <<bbColumns, bbReported>>,
             pc # "failed" => bbReport.page = 1
      PROVE  BbGradesInv' /\ BbSilent
  <2>1. /\ bbReport' \in [learner : BbLearners, kind : BbKinds, grade : BbGrades,
                          page : Nat, column : Nat, pc : BbReportPCs]
        /\ bbReport'.pc = pc /\ bbReport'.page = bbReport.page
    BY <1>0, <1>4, BbReportMoved DEF BbReportPCs, BbIdle
  <2>2. BbGradesTyped'
    BY <1>0, <1>4, <2>1 DEF BbGradesTyped
  <2>3. BbReportKnows'
    BY <1>1, <1>4, <2>1 DEF BbReportKnows
  <2> QED
    BY <1>2, <1>4, <2>2, <2>3 DEF BbGradesInv
<1>5. CASE BbReportFails \/ BbResolveCourse \/ BbFindEnrolment
  BY <1>0, <1>4, <1>5 DEF BbReportFails, BbResolveCourse, BbFindEnrolment, BbReportKnows
<1>6. CASE BbFindColumn
  <2>0. /\ bbReport.pc = "list" /\ UNCHANGED <<bbColumns, bbReported>>
        /\ \A m \in 1 .. Len(bbColumns) : bbColumns[m].kind = bbReport.kind => m >= bbReport.page
    BY <1>0, <1>6 DEF BbFindColumn, BbReportKnows
  <2>1. CASE BbOnPage
    <3> DEFINE pc == IF bbColumns[bbReport.page].counts /\ bbReport.kind # "final" THEN "correct" ELSE "submit"
    <3>1. bbReport' = [bbReport EXCEPT !.column = bbReport.page, !.pc = pc]
      BY <1>6, <2>1 DEF BbFindColumn, BbColumnFound
    <3>2. pc \in {"correct", "submit"}
      OBVIOUS
    <3> HIDE DEF pc
    <3>3. /\ bbReport' \in [learner : BbLearners, kind : BbKinds, grade : BbGrades,
                            page : Nat, column : Nat, pc : BbReportPCs]
          /\ bbReport'.pc = pc /\ bbReport'.page = bbReport.page /\ bbReport'.column = bbReport.page
          /\ bbReport'.kind = bbReport.kind
      BY <1>1, <3>1, <3>2 DEF BbReportPCs
    <3>4. BbFirstOf(bbReport.page, bbReport.kind)
      BY <1>1, <2>0, <2>1 DEF BbFirstOf, BbOnPage
    <3>5. BbGradesTyped'
      BY <1>0, <2>0, <3>3 DEF BbGradesTyped
    <3>6. BbReportKnows'
      BY <1>1, <2>0, <3>2, <3>3, <3>4 DEF BbReportKnows, BbFirstOf
    <3> QED
      BY <1>2, <2>0, <3>5, <3>6 DEF BbGradesInv
  <2>2. CASE ~BbOnPage /\ bbReport.page < Len(bbColumns) /\ bbReport.page <= BbPageLimit
    <3>1. bbReport' = [bbReport EXCEPT !.page = bbReport.page + 1]
      BY <1>6, <2>2 DEF BbFindColumn
    <3>2. /\ bbReport' \in [learner : BbLearners, kind : BbKinds, grade : BbGrades,
                            page : Nat, column : Nat, pc : BbReportPCs]
          /\ bbReport'.pc = "list" /\ bbReport'.page = bbReport.page + 1 /\ bbReport'.kind = bbReport.kind
      BY <1>1, <2>0, <3>1
    <3>3. \A m \in 1 .. Len(bbColumns) : bbColumns[m].kind = bbReport.kind => m >= bbReport.page + 1
      BY <1>1, <2>0, <2>2 DEF BbOnPage
    <3>4. BbGradesTyped'
      BY <1>0, <2>0, <3>2 DEF BbGradesTyped
    <3>5. BbReportKnows'
      BY <1>1, <2>0, <3>2, <3>3 DEF BbReportKnows
    <3> QED
      BY <1>2, <2>0, <3>4, <3>5 DEF BbGradesInv
  <2>3. CASE ~BbOnPage /\ ~(bbReport.page < Len(bbColumns) /\ bbReport.page <= BbPageLimit)
    <3>1. BbReportGoto("create")
      BY <1>6, <2>3 DEF BbFindColumn
    <3>2. /\ bbReport' \in [learner : BbLearners, kind : BbKinds, grade : BbGrades,
                            page : Nat, column : Nat, pc : BbReportPCs]
          /\ bbReport'.pc = "create" /\ bbReport'.page = bbReport.page /\ bbReport'.kind = bbReport.kind
      BY <1>0, <3>1, BbReportMoved DEF BbReportPCs
    <3>3. \A m \in 1 .. Len(bbColumns) : bbColumns[m].kind = bbReport.kind =>
            m > bbReport.page /\ bbReport.page > BbPageLimit
      BY <1>1, <2>0, <2>3 DEF BbOnPage
    <3>4. BbGradesTyped'
      BY <1>0, <2>0, <3>2 DEF BbGradesTyped
    <3>5. BbReportKnows'
      BY <1>1, <2>0, <3>2, <3>3 DEF BbReportKnows
    <3> QED
      BY <1>2, <2>0, <3>4, <3>5 DEF BbGradesInv
  <2> QED
    BY <2>1, <2>2, <2>3
<1>7. CASE BbCorrectColumn
  <2> DEFINE n == bbReport.column
             column == [bbColumns[n] EXCEPT !.counts = FALSE]
  <2>1. /\ bbReport.pc = "correct" /\ BbReportGoto("submit") /\ UNCHANGED bbReported
        /\ bbColumns' = [bbColumns EXCEPT ![n].counts = FALSE]
    BY <1>7 DEF BbCorrectColumn
  <2>2. BbFirstOf(n, bbReport.kind) /\ n \in 1 .. Len(bbColumns)
    BY <1>0, <2>1 DEF BbReportKnows, BbFirstOf
  <2>3. bbColumns' = [bbColumns EXCEPT ![n] = column]
    BY <2>1, Zenon
  <2>4. bbColumns[n] \in BbColumn
    BY <1>1, <2>2
  <2>5. column \in BbColumn /\ column.kind = bbColumns[n].kind /\ column.grades = bbColumns[n].grades
    BY <2>4 DEF BbColumn
  <2> HIDE DEF column
  <2>6. /\ bbColumns' \in Seq(BbColumn) /\ Len(bbColumns') = Len(bbColumns) /\ bbColumns'[n] = column
        /\ \A m \in 1 .. Len(bbColumns) :
              bbColumns'[m].kind = bbColumns[m].kind /\ (m # n => bbColumns'[m] = bbColumns[m])
    BY <1>0, <2>2, <2>3, <2>5, BbColumnChanged
  <2>7. /\ bbReport' \in [learner : BbLearners, kind : BbKinds, grade : BbGrades,
                          page : Nat, column : Nat, pc : BbReportPCs]
        /\ bbReport'.pc = "submit" /\ bbReport'.page = bbReport.page /\ bbReport'.kind = bbReport.kind
        /\ bbReport'.column = n
    BY <1>0, <2>1, BbReportMoved DEF BbReportPCs
  <2>8. BbGradesTyped'
    BY <1>0, <2>1, <2>6, <2>7 DEF BbGradesTyped
  <2>9. BbReportKnows'
    BY <1>1, <2>2, <2>6, <2>7, BbFirstStays DEF BbReportKnows
  <2>10. \A m \in 1 .. Len(bbColumns) : bbColumns'[m].grades = bbColumns[m].grades
    BY <2>5, <2>6
  <2>11. BbSilent
    BY <1>1, <2>1, <2>6, <2>10, BbStepIsSilent
  <2> QED
    BY <2>8, <2>9, <2>11 DEF BbGradesInv
<1>8. CASE BbCreateColumn
  <2> DEFINE new == Len(bbColumns) + 1
  <2>1. /\ bbReport.pc = "create" /\ BbAppend(bbReport.kind, bbReport.kind = "final") /\ UNCHANGED bbReported
        /\ \/ bbReport' = [bbReport EXCEPT !.pc = "submit", !.column = new]
           \/ BbReportGoto("failed")
    BY <1>8 DEF BbCreateColumn
  <2>2. /\ bbColumns' \in Seq(BbColumn) /\ Len(bbColumns') = new /\ new <= BbMaxColumns
        /\ bbColumns'[new].kind = bbReport.kind /\ bbColumns'[new].grades = [l \in BbLearners |-> BbNoGrade]
        /\ \A m \in 1 .. Len(bbColumns) : bbColumns'[m] = bbColumns[m]
    BY <1>0, <1>1, <2>1, BbColumnAdded
  <2>3. \A m \in 1 .. Len(bbColumns) : bbColumns[m].kind # bbReport.kind
    <3> SUFFICES ASSUME NEW m \in 1 .. Len(bbColumns), bbColumns[m].kind = bbReport.kind PROVE FALSE
      OBVIOUS
    <3>1. m > bbReport.page /\ bbReport.page > BbPageLimit
      BY <1>0, <2>1 DEF BbReportKnows
    <3> QED
      BY <1>1, <2>2, <3>1 DEF BbPagesSuffice
  <2>4. BbGradesInv'
    <3>1. CASE bbReport' = [bbReport EXCEPT !.pc = "submit", !.column = new]
      <4>1. /\ bbReport' \in [learner : BbLearners, kind : BbKinds, grade : BbGrades,
                              page : Nat, column : Nat, pc : BbReportPCs]
            /\ bbReport'.pc = "submit" /\ bbReport'.page = bbReport.page /\ bbReport'.kind = bbReport.kind
            /\ bbReport'.column = new
        <5>1. new \in Nat
          BY <1>1
        <5> HIDE DEF new
        <5> QED
          BY <1>1, <3>1, <5>1 DEF BbReportPCs
      <4>2. BbFirstOf(bbReport.column, bbReport.kind)'
        BY <1>1, <2>2, <2>3, <4>1 DEF BbFirstOf
      <4>3. BbGradesTyped'
        BY <1>0, <2>1, <2>2, <4>1 DEF BbGradesTyped
      <4>4. BbReportKnows'
        BY <1>1, <4>1, <4>2 DEF BbReportKnows
      <4> QED
        BY <4>3, <4>4 DEF BbGradesInv
    <3>2. CASE BbReportGoto("failed")
      <4>1. /\ bbReport' \in [learner : BbLearners, kind : BbKinds, grade : BbGrades,
                              page : Nat, column : Nat, pc : BbReportPCs]
            /\ bbReport'.pc = "failed" /\ bbReport'.page = bbReport.page
        BY <1>0, <3>2, BbReportMoved DEF BbReportPCs, BbIdle
      <4>2. BbGradesTyped'
        BY <1>0, <2>1, <2>2, <4>1 DEF BbGradesTyped
      <4>3. BbReportKnows'
        BY <1>1, <4>1 DEF BbReportKnows
      <4> QED
        BY <4>2, <4>3 DEF BbGradesInv
    <3> QED
      BY <2>1, <3>1, <3>2
  <2>5. ASSUME NEW l \in BbLearners, NEW k \in BbKinds
        PROVE  BbShownBy(bbColumns', l, k) = BbShownBy(bbColumns, l, k)
    <3>1. CASE k # bbReport.kind
      BY <1>1, <2>2, <3>1, BbShownStays, SMTT(40)
    <3>2. CASE k = bbReport.kind
      <4>1. BbShownBy(bbColumns, l, k) = BbNoGrade
        BY <1>1, <2>3, <3>2 DEF BbShownBy, BbOfKind
      <4>2. new \in 1 .. Len(bbColumns') /\ \A m \in 1 .. new - 1 : bbColumns'[m].kind # bbColumns'[new].kind
        BY <1>1, <2>2, <2>3, SMTT(40)
      <4>3. BbShownBy(bbColumns', l, bbColumns'[new].kind) = bbColumns'[new].grades[l]
        BY <2>2, <4>2, BbShownFirst, SMTT(40)
      <4> QED
        BY <2>2, <3>2, <4>1, <4>3
    <3> QED
      BY <3>1, <3>2
  <2>6. BbSilent
    <3>1. \A r \in BbLearners \X BbKinds : BbGradeShown(r[1], r[2])' = BbGradeShown(r[1], r[2])
      BY <2>5, BbShownIs
    <3> QED
      BY <2>1, <3>1 DEF BbSilent, BbGradebook
  <2> QED
    BY <2>4, <2>6
<1>9. CASE BbSubmitGrade
  <2> DEFINE n == bbReport.column
             learner == bbReport.learner
             grades == [bbColumns[n].grades EXCEPT ![learner] = bbReport.grade]
             column == [bbColumns[n] EXCEPT !.grades = grades]
  <2>1. /\ bbReport.pc = "submit" /\ BbReportGoto("answer") /\ UNCHANGED bbReported
        /\ bbColumns' = [bbColumns EXCEPT ![n].grades[learner] = bbReport.grade]
    BY <1>9 DEF BbSubmitGrade
  <2>2. /\ BbFirstOf(n, bbReport.kind) /\ n \in 1 .. Len(bbColumns) /\ bbColumns[n].kind = bbReport.kind
        /\ \A m \in 1 .. n - 1 : bbColumns[m].kind # bbReport.kind
    BY <1>0, <2>1 DEF BbReportKnows, BbFirstOf
  <2>3. bbColumns' = [bbColumns EXCEPT ![n] = column]
    BY <2>1, Zenon
  <2>4. bbColumns[n] \in BbColumn /\ learner \in BbLearners /\ bbReport.grade \in BbShown /\ bbReport.grade \in BbGrades
    BY <1>1, <2>2 DEF BbShown
  <2>5. /\ grades \in [BbLearners -> BbShown] /\ grades[learner] = bbReport.grade
        /\ \A l \in BbLearners : l # learner => grades[l] = bbColumns[n].grades[l]
    BY <2>4 DEF BbColumn
  <2> HIDE DEF grades
  <2>6. column \in BbColumn /\ column.kind = bbColumns[n].kind /\ column.grades = grades
    BY <2>4, <2>5 DEF BbColumn
  <2> HIDE DEF column
  <2>7. /\ bbColumns' \in Seq(BbColumn) /\ Len(bbColumns') = Len(bbColumns) /\ bbColumns'[n] = column
        /\ \A m \in 1 .. Len(bbColumns) :
              bbColumns'[m].kind = bbColumns[m].kind /\ (m # n => bbColumns'[m] = bbColumns[m])
    BY <1>0, <2>2, <2>3, <2>6, BbColumnChanged
  <2>8. /\ bbReport' \in [learner : BbLearners, kind : BbKinds, grade : BbGrades,
                          page : Nat, column : Nat, pc : BbReportPCs]
        /\ bbReport'.pc = "answer" /\ bbReport'.page = bbReport.page /\ bbReport'.kind = bbReport.kind
        /\ bbReport'.column = n /\ bbReport'.learner = learner /\ bbReport'.grade = bbReport.grade
    BY <1>0, <2>1, BbReportMoved DEF BbReportPCs
  <2>9. BbGradesTyped'
    BY <1>0, <2>1, <2>7, <2>8 DEF BbGradesTyped
  <2>10. BbFirstOf(bbReport.column, bbReport.kind)'
    BY <1>1, <2>2, <2>7, <2>8, BbFirstStays
  <2>11. bbColumns'[bbReport'.column].grades[bbReport'.learner] = bbReport'.grade
    BY <2>5, <2>6, <2>7, <2>8
  <2>12. BbReportKnows'
    BY <1>1, <2>8, <2>10, <2>11 DEF BbReportKnows
  <2>13. BbShownBy(bbColumns', learner, bbReport.kind) = bbReport.grade
    <3>1. n \in 1 .. Len(bbColumns') /\ \A m \in 1 .. n - 1 : bbColumns'[m].kind # bbColumns'[n].kind
      BY <1>1, <2>2, <2>7
    <3>2. BbShownBy(bbColumns', learner, bbColumns'[n].kind) = bbColumns'[n].grades[learner]
      BY <2>7, <3>1, BbShownFirst
    <3> QED
      BY <2>2, <2>5, <2>6, <2>7, <3>2
  <2>14. ASSUME NEW l \in BbLearners, NEW k \in BbKinds, <<l, k>> # <<learner, bbReport.kind>>
         PROVE  BbShownBy(bbColumns', l, k) = BbShownBy(bbColumns, l, k)
    <3>1. \A m \in 1 .. Len(bbColumns) : bbColumns[m].kind = k => bbColumns'[m].grades[l] = bbColumns[m].grades[l]
      BY <2>2, <2>5, <2>6, <2>7, <2>14
    <3> QED
      BY <1>1, <2>7, <3>1, BbShownStays
  <2>15. BbGradebook' = [BbGradebook EXCEPT ![<<learner, bbReport.kind>>] = bbReport.grade]
    <3>1. \A r \in BbLearners \X BbKinds : r = <<r[1], r[2]>> /\ r[1] \in BbLearners /\ r[2] \in BbKinds
      OBVIOUS
    <3>2. \A r \in BbLearners \X BbKinds :
            BbGradeShown(r[1], r[2])' = IF r = <<learner, bbReport.kind>> THEN bbReport.grade
                                        ELSE BbGradeShown(r[1], r[2])
      BY <2>13, <2>14, <3>1, BbShownIs
    <3> QED
      BY <3>2 DEF BbGradebook
  <2>16. <<learner, bbReport.kind>> \in BbLearners \X BbKinds
    BY <1>1, <2>4
  <2>17. BbReports
    BY <2>1, <2>4, <2>15, <2>16 DEF BbReports
  <2> QED
    BY <2>9, <2>12, <2>17 DEF BbGradesInv
<1>10. CASE BbAnswered
  <2> DEFINE n == bbReport.column
             r == <<bbReport.learner, bbReport.kind>>
  <2>1. /\ bbReport.pc = "answer" /\ BbReportGoto("ok") /\ UNCHANGED bbColumns
        /\ bbReported' = [bbReported EXCEPT ![r] = bbReport.grade]
    BY <1>10 DEF BbAnswered
  <2>2. /\ n \in 1 .. Len(bbColumns) /\ bbColumns[n].kind = bbReport.kind
        /\ \A m \in 1 .. n - 1 : bbColumns[m].kind # bbReport.kind
        /\ bbColumns[n].grades[bbReport.learner] = bbReport.grade
    BY <1>0, <2>1 DEF BbReportKnows, BbFirstOf
  <2>3. BbShownBy(bbColumns, bbReport.learner, bbReport.kind) = bbReport.grade
    <3>1. n \in 1 .. Len(bbColumns) /\ \A m \in 1 .. n - 1 : bbColumns[m].kind # bbColumns[n].kind
      BY <1>1, <2>2
    <3>2. BbShownBy(bbColumns, bbReport.learner, bbColumns[n].kind) = bbColumns[n].grades[bbReport.learner]
      BY <1>1, <3>1, BbShownFirst
    <3> QED
      BY <2>2, <3>2
  <2>4. r \in BbLearners \X BbKinds /\ BbGradebook[r] = bbReport.grade
    BY <1>1, <2>3, BbShownIs DEF BbGradebook
  <2>5. /\ bbReport' \in [learner : BbLearners, kind : BbKinds, grade : BbGrades,
                          page : Nat, column : Nat, pc : BbReportPCs]
        /\ bbReport'.pc = "ok" /\ bbReport'.page = bbReport.page
    BY <1>0, <2>1, BbReportMoved DEF BbReportPCs, BbIdle
  <2>6. BbGradesTyped'
    <3>1. bbReport.grade \in BbShown
      BY <1>1 DEF BbShown
    <3>2. bbReported' \in [BbLearners \X BbKinds -> BbShown]
      BY <1>1, <2>1, <2>4, <3>1
    <3> QED
      BY <1>0, <2>1, <2>5, <3>2 DEF BbGradesTyped
  <2>7. BbReportKnows'
    BY <1>1, <2>5 DEF BbReportKnows
  <2>8. UNCHANGED BbGradebook
    <3>1. \A s \in BbLearners \X BbKinds : BbGradeShown(s[1], s[2])' = BbGradeShown(s[1], s[2])
      BY <2>1, BbShownIs
    <3> QED
      BY <3>1 DEF BbGradebook
  <2> HIDE DEF r
  <2>9. BbReports
    BY <2>1, <2>4, <2>8 DEF BbReports
  <2> QED
    BY <2>6, <2>7, <2>9 DEF BbGradesInv
<1>11. ASSUME NEW l \in BbLearners, BbEnrol(l) PROVE BbGradesInv' /\ BbSilent
  <2>1. UNCHANGED <<bbColumns, bbReport, bbReported>>
    BY <1>11 DEF BbEnrol
  <2> QED
    BY <1>0, <1>2, <2>1 DEF BbGradesInv, BbGradesTyped, BbReportKnows, BbFirstOf
<1>12. CASE BbTeacherAdds
  <2>1. BbAppend("teacher", TRUE) /\ UNCHANGED <<bbReport, bbReported>>
    BY <1>12 DEF BbTeacherAdds
  <2>2. /\ bbColumns' \in Seq(BbColumn) /\ Len(bbColumns') = Len(bbColumns) + 1 /\ Len(bbColumns') <= BbMaxColumns
        /\ bbColumns'[Len(bbColumns) + 1].kind = "teacher"
        /\ \A m \in 1 .. Len(bbColumns) : bbColumns'[m] = bbColumns[m]
    BY <1>0, <2>1, BbColumnAdded
  <2>3. "teacher" \notin BbKinds
    BY DEF BbKinds
  <2>4. \A m \in 1 .. Len(bbColumns') : bbColumns'[m].kind = bbReport.kind => m \in 1 .. Len(bbColumns)
    BY <1>1, <2>2, <2>3
  <2>5. BbGradesTyped'
    BY <1>0, <2>1, <2>2 DEF BbGradesTyped
  <2>6. BbFirstOf(bbReport.column, bbReport.kind) => BbFirstOf(bbReport.column, bbReport.kind)'
    BY <1>1, <2>1, <2>2, BbFirstStays
  <2>7. BbReportKnows'
    <3>1. bbReport.pc = "answer" => bbReport.column \in 1 .. Len(bbColumns)
      BY <1>0 DEF BbReportKnows, BbFirstOf
    <3> QED
      BY <1>0, <2>1, <2>2, <2>4, <2>6, <3>1 DEF BbReportKnows
  <2>8. BbSilent
    BY <1>1, <2>1, <2>2, <2>3, BbStepIsSilent
  <2> QED
    BY <2>5, <2>7, <2>8 DEF BbGradesInv
<1>13. ASSUME NEW n \in DOMAIN bbColumns, BbTeacherIncludes(n) PROVE BbGradesInv' /\ BbSilent
  <2> DEFINE column == [bbColumns[n] EXCEPT !.counts = ~@]
  <2>1. /\ bbReport.pc \in BbIdle /\ UNCHANGED <<bbReport, bbReported>>
        /\ bbColumns' = [bbColumns EXCEPT ![n].counts = ~@]
    BY <1>13 DEF BbTeacherIncludes
  <2>2. bbColumns' = [bbColumns EXCEPT ![n] = column]
    BY <2>1, Zenon
  <2>3. n \in 1 .. Len(bbColumns) /\ bbColumns[n] \in BbColumn
    BY <1>1
  <2>4. column \in BbColumn /\ column.kind = bbColumns[n].kind /\ column.grades = bbColumns[n].grades
    BY <2>3 DEF BbColumn
  <2> HIDE DEF column
  <2>5. /\ bbColumns' \in Seq(BbColumn) /\ Len(bbColumns') = Len(bbColumns) /\ bbColumns'[n] = column
        /\ \A m \in 1 .. Len(bbColumns) :
              bbColumns'[m].kind = bbColumns[m].kind /\ (m # n => bbColumns'[m] = bbColumns[m])
    BY <1>0, <2>2, <2>3, <2>4, BbColumnChanged
  <2>6. BbGradesTyped' /\ BbReportKnows'
    BY <1>0, <2>1, <2>5 DEF BbGradesTyped, BbReportKnows, BbIdle
  <2>7. \A m \in 1 .. Len(bbColumns) : bbColumns'[m].grades = bbColumns[m].grades
    BY <2>4, <2>5
  <2>8. BbSilent
    BY <1>1, <2>1, <2>5, <2>7, BbStepIsSilent
  <2> QED
    BY <2>6, <2>8 DEF BbGradesInv
<1> QED
  BY <1>3, <1>5, <1>6, <1>7, <1>8, <1>9, <1>10, <1>11, <1>12, <1>13 DEF BbGradesNext, BbReportStep

\* The client implements GradeReporting, for any number of learners, grades and columns
\* that the pages it reads can hold: a report that is answered has recorded its grade in
\* the column that learners see, one that fails may or may not have, and nothing else
\* changes what is shown.
THEOREM GradesAreReported == ASSUME BbPagesSuffice PROVE BbGradesSpec => BlackboardReportsGrades
<1>1. BbGradesInit => Gradebook!GradeReportingInit
  <2> SUFFICES ASSUME BbGradesInit PROVE Gradebook!GradeReportingInit
    OBVIOUS
  <2>1. \A l, k : BbGradeShown(l, k) = BbNoGrade
    BY BbShownIs DEF BbGradesInit, BbShownBy, BbOfKind
  <2> QED
    BY <2>1 DEF BbGradesInit, Gradebook!GradeReportingInit
<1>2. BbGradesInv /\ [BbGradesNext]_bbGradesVars =>
        /\ BbGradesInv'
        /\ [Gradebook!GradeReportingNext]_<<[r \in BbLearners \X BbKinds |-> BbGradeShown(r[1], r[2])], bbReported>>
  <2> SUFFICES ASSUME BbGradesInv, [BbGradesNext]_bbGradesVars
               PROVE  /\ BbGradesInv'
                      /\ \/ Gradebook!GradeReportingNext
                         \/ UNCHANGED <<[r \in BbLearners \X BbKinds |-> BbGradeShown(r[1], r[2])], bbReported>>
    OBVIOUS
  <2>1. CASE BbGradesNext
    <3>1. BbGradesInv' /\ (BbSilent \/ BbReports)
      BY <2>1, BbGradesStep
    <3>2. BbReports => Gradebook!GradeReportingNext
      BY DEF BbReports, BbGradebook, Gradebook!GradeReportingNext, Gradebook!Record, Gradebook!Confirm
    <3>3. BbSilent => UNCHANGED <<[r \in BbLearners \X BbKinds |-> BbGradeShown(r[1], r[2])], bbReported>>
      BY DEF BbSilent, BbGradebook
    <3> QED
      BY <3>1, <3>2, <3>3
  <2>2. CASE UNCHANGED bbGradesVars
    <3>1. BbGradesInv'
      BY <2>2 DEF bbGradesVars, BbGradesInv, BbGradesTyped, BbReportKnows, BbFirstOf
    <3>2. \A r \in BbLearners \X BbKinds : BbGradeShown(r[1], r[2])' = BbGradeShown(r[1], r[2])
      BY <2>2, BbShownIs DEF bbGradesVars
    <3> QED
      BY <2>2, <3>1, <3>2 DEF bbGradesVars
  <2> QED
    BY <2>1, <2>2
<1> QED
  BY BbGradesInvInit, <1>1, <1>2, PTL DEF BbGradesSpec, BlackboardReportsGrades, Gradebook!GradeReportingSpec

-----------------------------------------------------------------------------
(* The types of the three *)

LEMMA BbTokenStaysTyped == BbTokenSpec => []BbTokenTypeOK
<1>1. BbTokenInv => BbTokenTypeOK
  BY DEF BbTokenInv
<1> QED
  BY BbTokenInvInit, BbTokenInvStep, <1>1, PTL DEF BbTokenSpec

LEMMA BbCoursesStaysTyped == BbCoursesSpec => []BbCoursesTypeOK
<1>1. BbCoursesInv /\ [BbCoursesNext]_bbCoursesVars => BbCoursesInv'
  <2>1. ASSUME BbCoursesInv, BbCoursesNext PROVE BbCoursesInv'
    BY <2>1, BbCoursesStep
  <2>2. ASSUME BbCoursesInv, UNCHANGED bbCoursesVars PROVE BbCoursesInv'
    BY <2>2 DEF bbCoursesVars, BbCoursesInv, BbStage, BbMade
  <2> QED
    BY <2>1, <2>2
<1>2. BbCoursesInv => BbCoursesTypeOK
  <2> SUFFICES ASSUME BbCoursesInv PROVE BbCoursesTypeOK
    OBVIOUS
  <2>1. CASE bbContents = <<>>
    <3>1. Len(bbContents) = 0 /\ DOMAIN bbContents = {}
      BY <2>1
    <3> QED
      BY <3>1, BbCoursesAssumption DEF BbCoursesInv, BbCoursesTypeOK, BbCallType, BbPCs
  <2>2. ASSUME NEW item \in BbItems, bbContents = <<item>> PROVE BbCoursesTypeOK
    <3>1. Len(bbContents) = 1 /\ DOMAIN bbContents = {1} /\ bbContents[1] = item
      BY <2>2
    <3> QED
      BY <3>1, BbCoursesAssumption DEF BbCoursesInv, BbCoursesTypeOK, BbCallType, BbPCs, BbItems
  <2> QED
    BY <2>1, <2>2 DEF BbCoursesInv
<1> QED
  BY BbCoursesInvInit, <1>1, <1>2, PTL DEF BbCoursesSpec

\* The types need no assumption on pages: a report reads no page behind the columns and writes
\* to columns that are there.
BbReportFits ==
    /\ bbReport.page \in 1 .. BbMaxColumns + 1 /\ bbReport.column \in 0 .. BbMaxColumns
    /\ bbReport.pc \in {"correct", "submit"} => bbReport.column \in 1 .. Len(bbColumns)

BbGradesFit == BbGradesTyped /\ bbEnrolled \in Seq(BbLearners) /\ BbReportFits

LEMMA BbFitStep == BbGradesFit /\ [BbGradesNext]_bbGradesVars => BbGradesFit'
<1> SUFFICES ASSUME BbGradesFit, [BbGradesNext]_bbGradesVars PROVE BbGradesFit'
  OBVIOUS
<1> DEFINE R == [learner : BbLearners, kind : BbKinds, grade : BbGrades, page : Nat, column : Nat, pc : BbReportPCs]
<1>1. /\ bbColumns \in Seq(BbColumn) /\ Len(bbColumns) \in Nat /\ Len(bbColumns) <= BbMaxColumns
      /\ \A n \in 1 .. Len(bbColumns) : bbColumns[n] \in BbColumn
      /\ bbReport \in R /\ bbReported \in [BbLearners \X BbKinds -> BbShown] /\ bbEnrolled \in Seq(BbLearners)
      /\ BbReportFits /\ BbGradesTyped /\ BbMaxColumns \in Nat
      /\ bbReport.page \in Nat /\ bbReport.column \in Nat
  BY BbGradesAssumption DEF BbGradesFit, BbGradesTyped
\* The report goes on, the columns as they were or one of them changed.
<1>2. ASSUME NEW pc \in BbReportPCs, BbReportGoto(pc), bbColumns' \in Seq(BbColumn), Len(bbColumns') = Len(bbColumns),
             pc \in {"correct", "submit"} => bbReport.column \in 1 .. Len(bbColumns),
             bbReported' \in [BbLearners \X BbKinds -> BbShown], UNCHANGED bbEnrolled
      PROVE  BbGradesFit'
  <2>1. bbReport' \in R /\ bbReport'.pc = pc /\ bbReport'.page = bbReport.page /\ bbReport'.column = bbReport.column
    BY <1>1, <1>2, BbReportMoved
  <2> QED
    BY <1>1, <1>2, <2>1 DEF BbGradesFit, BbGradesTyped, BbReportFits
<1>3. ASSUME NEW l \in BbLearners, NEW k \in BbKinds, NEW g \in BbGrades, BbReportBegin(l, k, g) PROVE BbGradesFit'
  <2>1. /\ bbReport' = [learner |-> l, kind |-> k, grade |-> g, page |-> 1, column |-> 0, pc |-> "course"]
        /\ UNCHANGED <<bbColumns, bbEnrolled, bbReported>>
    BY <1>3 DEF BbReportBegin
  <2>2. bbReport' \in R /\ bbReport'.pc = "course" /\ bbReport'.page = 1 /\ bbReport'.column = 0
    BY <2>1 DEF BbReportPCs
  <2> QED
    BY <1>1, <2>1, <2>2 DEF BbGradesFit, BbGradesTyped, BbReportFits
<1>4. CASE BbReportFails \/ BbResolveCourse \/ BbFindEnrolment
  <2>1. \E pc \in {"failed", "enrolment", "list"} : BbReportGoto(pc)
    BY <1>4 DEF BbReportFails, BbResolveCourse, BbFindEnrolment
  <2>2. UNCHANGED <<bbColumns, bbEnrolled, bbReported>>
    BY <1>4 DEF BbReportFails, BbResolveCourse, BbFindEnrolment
  <2> QED
    BY <1>1, <1>2, <2>1, <2>2 DEF BbReportPCs, BbIdle
<1>5. CASE BbFindColumn
  <2>1. UNCHANGED <<bbColumns, bbEnrolled, bbReported>>
    BY <1>5 DEF BbFindColumn
  <2>2. CASE BbReportGoto("create")
    BY <1>1, <1>2, <2>1, <2>2 DEF BbReportPCs
  <2>3. CASE BbOnPage /\ BbColumnFound(bbReport.page)
    <3>1. PICK pc \in {"correct", "submit"} : bbReport' = [bbReport EXCEPT !.column = bbReport.page, !.pc = pc]
      BY <2>3 DEF BbColumnFound
    <3>2. bbReport' \in R /\ bbReport'.page = bbReport.page /\ bbReport'.column = bbReport.page
      BY <1>1, <3>1 DEF BbReportPCs
    <3>3. bbReport.page \in 1 .. Len(bbColumns)
      BY <1>1, <2>3 DEF BbOnPage, BbReportFits
    <3> QED
      BY <1>1, <2>1, <3>2, <3>3 DEF BbGradesFit, BbGradesTyped, BbReportFits
  <2>4. CASE bbReport.page < Len(bbColumns) /\ bbReport' = [bbReport EXCEPT !.page = @ + 1] /\ bbReport.pc = "list"
    <3>1. bbReport' \in R /\ bbReport'.page = bbReport.page + 1 /\ bbReport'.column = bbReport.column /\ bbReport'.pc = "list"
      BY <1>1, <2>4, SMTT(40)
    <3> QED
      BY <1>1, <2>1, <2>4, <3>1 DEF BbGradesFit, BbGradesTyped, BbReportFits
  <2> QED
    BY <1>5, <2>2, <2>3, <2>4 DEF BbFindColumn
<1>6. CASE BbCorrectColumn
  <2> DEFINE c == bbReport.column
             column == [bbColumns[c] EXCEPT !.counts = FALSE]
  <2>1. /\ bbReport.pc = "correct" /\ bbColumns' = [bbColumns EXCEPT ![c].counts = FALSE]
        /\ BbReportGoto("submit") /\ UNCHANGED <<bbEnrolled, bbReported>>
    BY <1>6 DEF BbCorrectColumn
  <2>2. c \in 1 .. Len(bbColumns) /\ bbColumns[c] \in BbColumn
    BY <1>1, <2>1 DEF BbReportFits
  <2>3. bbColumns' = [bbColumns EXCEPT ![c] = column]
    BY <2>1, Zenon
  <2>4. column \in BbColumn /\ column.kind = bbColumns[c].kind
    BY <2>2 DEF BbColumn
  <2> HIDE DEF column, c
  <2>5. bbColumns' \in Seq(BbColumn) /\ Len(bbColumns') = Len(bbColumns)
    BY <1>1, <2>2, <2>3, <2>4, BbColumnChanged
  <2> QED
    BY <1>1, <1>2, <2>1, <2>2, <2>5 DEF BbReportPCs, c
<1>7. CASE BbSubmitGrade
  <2> DEFINE c == bbReport.column
             column == [bbColumns[c] EXCEPT !.grades = [bbColumns[c].grades EXCEPT ![bbReport.learner] = bbReport.grade]]
  <2>1. /\ bbReport.pc = "submit" /\ BbReportGoto("answer") /\ UNCHANGED <<bbEnrolled, bbReported>>
        /\ bbColumns' = [bbColumns EXCEPT ![c].grades[bbReport.learner] = bbReport.grade]
    BY <1>7 DEF BbSubmitGrade
  <2>2. c \in 1 .. Len(bbColumns) /\ bbColumns[c] \in BbColumn
    BY <1>1, <2>1 DEF BbReportFits
  <2>3. bbColumns' = [bbColumns EXCEPT ![c] = column]
    BY <2>1, Zenon
  <2>4. column \in BbColumn /\ column.kind = bbColumns[c].kind
    <3>1. bbColumns[c].grades \in [BbLearners -> BbShown] /\ bbReport.grade \in BbShown
      BY <1>1, <2>2 DEF BbColumn, BbShown
    <3>2. [bbColumns[c].grades EXCEPT ![bbReport.learner] = bbReport.grade] \in [BbLearners -> BbShown]
      BY <3>1
    <3> QED
      BY <2>2, <3>2 DEF BbColumn
  <2> HIDE DEF column, c
  <2>5. bbColumns' \in Seq(BbColumn) /\ Len(bbColumns') = Len(bbColumns)
    BY <1>1, <2>2, <2>3, <2>4, BbColumnChanged
  <2> QED
    BY <1>1, <1>2, <2>1, <2>5 DEF BbReportPCs
<1>8. CASE BbCreateColumn
  <2>1. /\ BbAppend(bbReport.kind, bbReport.kind = "final") /\ UNCHANGED <<bbEnrolled, bbReported>>
        /\ \/ bbReport' = [bbReport EXCEPT !.pc = "submit", !.column = Len(bbColumns) + 1]
           \/ bbReport' = [bbReport EXCEPT !.pc = "failed"]
    BY <1>8 DEF BbCreateColumn, BbReportGoto
  <2>2. bbReport.kind \in BbKinds \cup {"teacher"} /\ (bbReport.kind = "final") \in BOOLEAN
    BY <1>1
  <2>3. bbColumns' \in Seq(BbColumn) /\ Len(bbColumns') = Len(bbColumns) + 1 /\ Len(bbColumns') <= BbMaxColumns
    BY <1>1, <2>1, <2>2, BbColumnAdded
  <2>4. /\ bbReport' \in R /\ bbReport'.page = bbReport.page
        /\ \/ bbReport'.pc = "submit" /\ bbReport'.column = Len(bbColumns) + 1
           \/ bbReport'.pc = "failed" /\ bbReport'.column = bbReport.column
    <3> DEFINE new == Len(bbColumns) + 1
    <3>1. new \in Nat /\ "submit" \in BbReportPCs /\ "failed" \in BbReportPCs
      BY <1>1 DEF BbReportPCs, BbIdle
    <3>2. \/ bbReport' = [bbReport EXCEPT !.pc = "submit", !.column = new]
          \/ bbReport' = [bbReport EXCEPT !.pc = "failed"]
      BY <2>1
    <3> HIDE DEF new
    <3>3. CASE bbReport' = [bbReport EXCEPT !.pc = "submit", !.column = new]
      <4>1. bbReport' \in R /\ bbReport'.page = bbReport.page /\ bbReport'.pc = "submit" /\ bbReport'.column = new
        BY <1>1, <3>1, <3>3
      <4> QED
        BY <4>1 DEF new
    <3>4. CASE bbReport' = [bbReport EXCEPT !.pc = "failed"]
      BY <1>1, <3>1, <3>4
    <3> QED
      BY <3>2, <3>3, <3>4
  <2> QED
    BY <1>1, <2>1, <2>3, <2>4 DEF BbGradesFit, BbGradesTyped, BbReportFits
<1>9. CASE BbAnswered
  <2>1. /\ BbReportGoto("ok") /\ UNCHANGED <<bbColumns, bbEnrolled>>
        /\ bbReported' = [bbReported EXCEPT ![<<bbReport.learner, bbReport.kind>>] = bbReport.grade]
    BY <1>9 DEF BbAnswered
  <2>2. bbReport.grade \in BbShown
    BY <1>1 DEF BbShown
  <2>3. bbReported' \in [BbLearners \X BbKinds -> BbShown]
    BY <1>1, <2>1, <2>2
  <2> QED
    BY <1>1, <1>2, <2>1, <2>3 DEF BbReportPCs, BbIdle
<1>10. ASSUME NEW l \in BbLearners, BbEnrol(l) PROVE BbGradesFit'
  <2>1. bbEnrolled' \in Seq(BbLearners) /\ UNCHANGED <<bbColumns, bbReport, bbReported>>
    BY <1>1, <1>10 DEF BbEnrol
  <2> QED
    BY <1>1, <2>1 DEF BbGradesFit, BbGradesTyped, BbReportFits
<1>11. CASE BbTeacherAdds
  <2>1. BbAppend("teacher", TRUE) /\ UNCHANGED <<bbEnrolled, bbReport, bbReported>>
    BY <1>11 DEF BbTeacherAdds
  <2>2. bbColumns' \in Seq(BbColumn) /\ Len(bbColumns') = Len(bbColumns) + 1 /\ Len(bbColumns') <= BbMaxColumns
    BY <1>1, <2>1, BbColumnAdded
  <2> QED
    BY <1>1, <2>1, <2>2 DEF BbGradesFit, BbGradesTyped, BbReportFits
<1>12. ASSUME NEW n \in DOMAIN bbColumns, BbTeacherIncludes(n) PROVE BbGradesFit'
  <2> DEFINE column == [bbColumns[n] EXCEPT !.counts = ~bbColumns[n].counts]
  <2>1. /\ bbColumns' = [bbColumns EXCEPT ![n].counts = ~bbColumns[n].counts]
        /\ UNCHANGED <<bbEnrolled, bbReport, bbReported>>
    BY <1>12 DEF BbTeacherIncludes
  <2>2. n \in 1 .. Len(bbColumns) /\ bbColumns[n] \in BbColumn
    BY <1>1
  <2>3. bbColumns' = [bbColumns EXCEPT ![n] = column]
    BY <2>1, Zenon
  <2>4. column \in BbColumn /\ column.kind = bbColumns[n].kind
    BY <2>2 DEF BbColumn
  <2> HIDE DEF column
  <2>5. bbColumns' \in Seq(BbColumn) /\ Len(bbColumns') = Len(bbColumns)
    BY <1>1, <2>2, <2>3, <2>4, BbColumnChanged
  <2> QED
    BY <1>1, <2>1, <2>5 DEF BbGradesFit, BbGradesTyped, BbReportFits
<1>13. CASE UNCHANGED bbGradesVars
  BY <1>13 DEF bbGradesVars, BbGradesFit, BbGradesTyped, BbReportFits
<1> QED
  BY <1>3, <1>4, <1>5, <1>6, <1>7, <1>8, <1>9, <1>10, <1>11, <1>12, <1>13 DEF BbGradesNext, BbReportStep

LEMMA BbGradesStaysTyped == BbGradesSpec => []BbGradesTypeOK
<1>1. BbGradesInit => BbGradesFit
  <2> SUFFICES ASSUME BbGradesInit PROVE BbGradesFit
    OBVIOUS
  <2>1. BbGradesTyped
    BY BbGradesInvInit DEF BbGradesInv
  <2>2. bbEnrolled \in Seq(BbLearners) /\ bbReport.page = 1 /\ bbReport.column = 0 /\ bbReport.pc = "failed"
    BY DEF BbGradesInit
  <2> QED
    BY <2>1, <2>2, BbGradesAssumption DEF BbGradesFit, BbReportFits
<1>2. BbGradesFit => BbGradesTypeOK
  <2> SUFFICES ASSUME BbGradesFit PROVE BbGradesTypeOK
    OBVIOUS
  <2>1. bbReport \in [learner : BbLearners, kind : BbKinds, grade : BbGrades, page : 1 .. BbMaxColumns + 1,
                      column : 0 .. BbMaxColumns, pc : BbReportPCs]
    BY DEF BbGradesFit, BbGradesTyped, BbReportFits
  <2> QED
    BY <2>1 DEF BbGradesFit, BbGradesTyped, BbGradesTypeOK, BbReportPCs
<1> QED
  BY <1>1, <1>2, BbFitStep, PTL DEF BbGradesSpec
=============================================================================
