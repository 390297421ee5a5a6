----------------------------- MODULE ChannelsProofs -----------------------------
(***************************************************************************)
(* What holds of the xAPI statements and of the budget groups for every      *)
(* number of customers, course runs, commands, orgs, groups and logins; the  *)
(* types of the other channels; and that each behaves among the others as it *)
(* does alone.                                                               *)
(***************************************************************************)
EXTENDS MCChannels, FiniteSetTheorems, WellFoundedInduction, TLAPS

-----------------------------------------------------------------------------
(* xAPI statements *)

\* What a command may rely on, given the audit records and what the LRS have been told: a
\* completion is sent from a record of the customer's, and what is being saved was accepted.
XapiRelies(cmd, audits, told) ==
    /\ cmd.pc \in {"next", "send", "save"} =>
          /\ cmd.customer \in XapiCustomers
          /\ cmd.verb = "completed" => \A item \in cmd.todo : XapiIsOf(audits[item[1]], cmd.customer)
    /\ cmd.pc \in {"send", "save"} =>
          /\ cmd.id \in XapiIds /\ cmd.run \in XapiRuns
          /\ cmd.verb = "completed" => XapiIsOf(audits[cmd.id], cmd.customer)
    /\ cmd.pc = "save" => <<cmd.verb, cmd.id>> \in told[cmd.customer]

\* A record is what an accepted enrollment has left.
XapiRecordsFollow ==
    \A c \in XapiCustomers, i \in XapiIds :
        XapiIsOf(xapiAudits[i], c) => <<"registered", i>> \in xapiTold[c]

XapiCommandsRely == \A p \in XapiProcs : XapiRelies(xapiCommand[p], xapiAudits, xapiTold)

XapiInv == XapiTypeOK /\ XapiRecordsFollow /\ XapiCommandsRely /\ XapiRecordsWereTold

LEMMA XapiInvInit == XapiInit => XapiInv
<1> SUFFICES ASSUME XapiInit PROVE XapiInv
  OBVIOUS
<1>1. XapiIdle \in XapiCommands /\ XapiIdle.pc = "idle"
  BY DEF XapiIdle, XapiCommands
<1>2. XapiTypeOK
  <2>1. 0 \in 0 .. XapiTroubles
    BY XapiAssumption
  <2> QED
    BY <1>1, <2>1 DEF XapiInit, XapiTypeOK
<1>3. XapiRecordsFollow
  BY DEF XapiInit, XapiRecordsFollow, XapiIsOf
<1>4. XapiCommandsRely
  BY <1>1 DEF XapiInit, XapiCommandsRely, XapiRelies
<1>5. XapiRecordsWereTold
  BY DEF XapiInit, XapiRecordsWereTold, XapiIsOf
<1> QED
  BY <1>2, <1>3, <1>4, <1>5 DEF XapiInv

\* What a command relies on lasts, as records stay their customers' and an LRS forgets nothing.
LEMMA XapiStillRelies ==
    ASSUME NEW audits, NEW told, NEW after, NEW tells, NEW cmd \in XapiCommands,
           \A i \in XapiIds, c \in XapiCustomers : XapiIsOf(audits[i], c) => XapiIsOf(after[i], c),
           \A c \in XapiCustomers : told[c] \subseteq tells[c],
           XapiRelies(cmd, audits, told)
    PROVE  XapiRelies(cmd, after, tells)
<1>1. \A item \in cmd.todo : item[1] \in XapiIds
  BY DEF XapiCommands
<1> QED
  BY <1>1 DEF XapiRelies

\* A step of one command that changes no record and tells no LRS keeps all of it.
LEMMA XapiCommandMoved ==
    ASSUME XapiInv, NEW p \in XapiProcs, NEW cmd \in XapiCommands,
           xapiCommand' = [xapiCommand EXCEPT ![p] = cmd],
           XapiRelies(cmd, xapiAudits, xapiTold),
           UNCHANGED <<XapiWorld, xapiAudits, xapiTold>>, xapiTroubles' \in 0 .. XapiTroubles
    PROVE  XapiInv'
<1>1. XapiTypeOK'
  BY DEF XapiInv, XapiTypeOK, XapiWorld
<1>2. XapiCommandsRely'
  BY DEF XapiInv, XapiTypeOK, XapiCommandsRely
<1>3. XapiRecordsFollow' /\ XapiRecordsWereTold'
  BY DEF XapiInv, XapiRecordsFollow, XapiRecordsWereTold
<1> QED
  BY <1>1, <1>2, <1>3 DEF XapiInv

\* The items a command works through, of a customer's.
LEMMA XapiItemsAre ==
    ASSUME XapiTypeOK, NEW verb \in {"registered", "completed"}, NEW c \in XapiCustomers
    PROVE  /\ XapiItems(verb, c) \subseteq XapiIds \X XapiRuns
           /\ verb = "completed" => \A item \in XapiItems(verb, c) : XapiIsOf(xapiAudits[item[1]], c)
<1>1. CASE verb = "completed"
  <2>1. ASSUME NEW i \in XapiIds, XapiIsOf(xapiAudits[i], c)
        PROVE  xapiAudits[i].enrollment[1] \in XapiRuns
    <3>1. xapiAudits[i] \in XapiAudit /\ xapiAudits[i].enrollment # XapiNone
      BY <2>1 DEF XapiTypeOK, XapiIsOf
    <3>2. xapiAudits[i].enrollment \in XapiEnrollments
      BY <3>1 DEF XapiAudit
    <3> QED
      BY <3>2 DEF XapiEnrollments
  <2> QED
    BY <1>1, <2>1 DEF XapiItems, XapiPassedItems, XapiUncompleted
<1>2. CASE verb = "registered"
  <2>1. XapiUntold(c) \subseteq XapiRuns
    BY DEF XapiUntold, XapiTypeOK
  <2>2. \A r \in XapiRuns : XapiCourse[r] \in XapiIds
    BY DEF XapiIds, XapiCourses
  <2> QED
    BY <1>2, <2>1, <2>2 DEF XapiItems
<1> QED
  BY <1>1, <1>2

\* A process begins, lists what there is to do, takes the next item or gives up.
LEMMA XapiMoves ==
    ASSUME XapiInv, NEW p \in XapiProcs,
           \/ \E verb \in {"registered", "completed"}, S \in SUBSET XapiCustomers : XapiBegin(p, verb, S)
           \/ \E c \in XapiCustomers : XapiList(p, c)
           \/ \E item \in XapiIds \X XapiRuns : XapiTake(p, item)
           \/ XapiEnd(p) \/ XapiNextCustomer(p) \/ XapiRefused(p) \/ XapiTrouble(p)
    PROVE  XapiInv'
<1> DEFINE cmd == xapiCommand[p]
<1>1. /\ XapiTypeOK /\ xapiTroubles \in 0 .. XapiTroubles /\ XapiTroubles \in Nat
      /\ cmd \in XapiCommands /\ XapiRelies(cmd, xapiAudits, xapiTold)
  BY XapiAssumption DEF XapiInv, XapiTypeOK, XapiCommandsRely
<1>2. XapiIdle \in XapiCommands /\ XapiIdle.pc = "idle"
  BY DEF XapiIdle, XapiCommands
<1>3. ASSUME NEW verb \in {"registered", "completed"}, NEW S \in SUBSET XapiCustomers, XapiBegin(p, verb, S)
      PROVE  XapiInv'
  <2> DEFINE next == [cmd EXCEPT !.verb = verb, !.customers = S, !.pc = "list"]
  <2>1. xapiCommand' = [xapiCommand EXCEPT ![p] = next]
        /\ UNCHANGED <<XapiWorld, xapiAudits, xapiTold, xapiTroubles>>
    BY <1>3 DEF XapiBegin
  <2>2. next \in XapiCommands /\ next.pc = "list"
    BY <1>1 DEF XapiCommands
  <2>3. XapiRelies(next, xapiAudits, xapiTold)
    BY <2>2 DEF XapiRelies
  <2> HIDE DEF next
  <2> QED
    BY <1>1, <2>1, <2>2, <2>3, XapiCommandMoved
<1>4. ASSUME NEW c \in XapiCustomers, XapiList(p, c) PROVE XapiInv'
  <2> DEFINE items == XapiItems(cmd.verb, c)
             next == [cmd EXCEPT !.customers = @ \ {c}, !.customer = c, !.todo = items, !.pc = "next"]
  <2>1. xapiCommand' = [xapiCommand EXCEPT ![p] = next]
        /\ UNCHANGED <<XapiWorld, xapiAudits, xapiTold, xapiTroubles>>
    BY <1>4 DEF XapiList
  <2>2. /\ items \subseteq XapiIds \X XapiRuns
        /\ cmd.verb = "completed" => \A item \in items : XapiIsOf(xapiAudits[item[1]], c)
    <3>1. cmd.verb \in {"registered", "completed"}
      BY <1>1 DEF XapiCommands
    <3> QED
      BY <1>1, <3>1, XapiItemsAre
  <2> HIDE DEF items
  <2>3. /\ next \in XapiCommands /\ next.pc = "next" /\ next.customer = c /\ next.todo = items
        /\ next.verb = cmd.verb
    BY <1>1, <2>2 DEF XapiCommands
  <2>4. XapiRelies(next, xapiAudits, xapiTold)
    BY <2>2, <2>3 DEF XapiRelies
  <2> HIDE DEF next
  <2> QED
    BY <1>1, <2>1, <2>3, <2>4, XapiCommandMoved
<1>5. ASSUME NEW item \in XapiIds \X XapiRuns, XapiTake(p, item) PROVE XapiInv'
  <2> DEFINE next == [cmd EXCEPT !.todo = @ \ {item}, !.id = item[1], !.run = item[2], !.pc = "send"]
  <2>1. /\ xapiCommand' = [xapiCommand EXCEPT ![p] = next] /\ cmd.pc = "next" /\ item \in cmd.todo
        /\ UNCHANGED <<XapiWorld, xapiAudits, xapiTold, xapiTroubles>>
    BY <1>5 DEF XapiTake
  <2>2. /\ next \in XapiCommands /\ next.pc = "send" /\ next.customer = cmd.customer /\ next.verb = cmd.verb
        /\ next.todo = cmd.todo \ {item} /\ next.id = item[1] /\ next.run = item[2]
        /\ item[1] \in XapiIds /\ item[2] \in XapiRuns
    BY <1>1 DEF XapiCommands
  <2> HIDE DEF next
  <2>3. XapiRelies(next, xapiAudits, xapiTold)
    BY <1>1, <2>1, <2>2 DEF XapiRelies
  <2> QED
    BY <1>1, <2>1, <2>2, <2>3, XapiCommandMoved
<1>6. CASE XapiEnd(p) \/ XapiTrouble(p)
  <2>1. /\ xapiCommand' = [xapiCommand EXCEPT ![p] = XapiIdle]
        /\ UNCHANGED <<XapiWorld, xapiAudits, xapiTold>>
        /\ xapiTroubles' \in 0 .. XapiTroubles
    BY <1>1, <1>6 DEF XapiEnd, XapiTrouble
  <2>2. XapiRelies(XapiIdle, xapiAudits, xapiTold)
    BY <1>2 DEF XapiRelies
  <2> QED
    BY <1>2, <2>1, <2>2, XapiCommandMoved
<1>7. CASE XapiNextCustomer(p)
  <2> DEFINE next == [cmd EXCEPT !.pc = "list"]
  <2>1. xapiCommand' = [xapiCommand EXCEPT ![p].pc = "list"]
        /\ UNCHANGED <<XapiWorld, xapiAudits, xapiTold, xapiTroubles>>
    BY <1>7 DEF XapiNextCustomer
  <2>2. xapiCommand' = [xapiCommand EXCEPT ![p] = next]
    BY <2>1, Zenon
  <2>3. next \in XapiCommands /\ next.pc = "list"
    BY <1>1 DEF XapiCommands
  <2>4. XapiRelies(next, xapiAudits, xapiTold)
    BY <2>3 DEF XapiRelies
  <2> HIDE DEF next
  <2> QED
    BY <1>1, <2>1, <2>2, <2>3, <2>4, XapiCommandMoved
<1>8. CASE XapiRefused(p)
  <2> DEFINE next == [cmd EXCEPT !.pc = "next"]
  <2>1. /\ xapiCommand' = [xapiCommand EXCEPT ![p].pc = "next"] /\ cmd.pc = "send"
        /\ UNCHANGED <<XapiWorld, xapiAudits, xapiTold, xapiTroubles>>
    BY <1>8 DEF XapiRefused
  <2>2. xapiCommand' = [xapiCommand EXCEPT ![p] = next]
    BY <2>1, Zenon
  <2>3. /\ next \in XapiCommands /\ next.pc = "next" /\ next.customer = cmd.customer
        /\ next.verb = cmd.verb /\ next.todo = cmd.todo
    BY <1>1 DEF XapiCommands
  <2> HIDE DEF next
  <2>4. XapiRelies(next, xapiAudits, xapiTold)
    BY <1>1, <2>1, <2>3 DEF XapiRelies
  <2> QED
    BY <1>1, <2>1, <2>2, <2>3, <2>4, XapiCommandMoved
<1> QED
  BY <1>3, <1>4, <1>5, <1>6, <1>7, <1>8

\* An LRS accepts a statement.
LEMMA XapiAccepts ==
    ASSUME XapiInv, NEW p \in XapiProcs, XapiAccepted(p) PROVE XapiInv'
<1> DEFINE cmd == xapiCommand[p]
           next == [cmd EXCEPT !.pc = "save"]
           statement == <<cmd.verb, cmd.id>>
<1>1. /\ cmd \in XapiCommands /\ XapiRelies(cmd, xapiAudits, xapiTold)
      /\ xapiTold \in [XapiCustomers -> SUBSET ({"registered", "completed"} \X XapiIds)]
  BY DEF XapiInv, XapiTypeOK, XapiCommandsRely
<1>2. /\ cmd.pc = "send" /\ xapiCommand' = [xapiCommand EXCEPT ![p].pc = "save"]
      /\ xapiTold' = [xapiTold EXCEPT ![cmd.customer] = @ \cup {statement}]
      /\ UNCHANGED <<XapiWorld, xapiAudits, xapiTroubles>>
  BY DEF XapiAccepted
<1>3. xapiCommand' = [xapiCommand EXCEPT ![p] = next]
  BY <1>2, Zenon
<1>4. /\ next \in XapiCommands /\ next.pc = "save" /\ next.customer = cmd.customer
      /\ next.verb = cmd.verb /\ next.todo = cmd.todo /\ next.id = cmd.id /\ next.run = cmd.run
      /\ cmd.verb \in {"registered", "completed"}
  BY <1>1 DEF XapiCommands
<1> HIDE DEF next
<1>5. /\ cmd.customer \in XapiCustomers /\ cmd.id \in XapiIds
      /\ cmd.verb = "completed" => XapiIsOf(xapiAudits[cmd.id], cmd.customer)
  BY <1>1, <1>2 DEF XapiRelies
<1>6. /\ xapiTold' \in [XapiCustomers -> SUBSET ({"registered", "completed"} \X XapiIds)]
      /\ xapiTold'[cmd.customer] = xapiTold[cmd.customer] \cup {statement}
      /\ \A c \in XapiCustomers : c # cmd.customer => xapiTold'[c] = xapiTold[c]
  BY <1>1, <1>2, <1>4, <1>5
<1>7. \A c \in XapiCustomers : xapiTold[c] \subseteq xapiTold'[c]
  BY <1>6
<1>8. XapiTypeOK'
  BY <1>2, <1>3, <1>4, <1>6 DEF XapiInv, XapiTypeOK, XapiWorld
<1>9. XapiRecordsFollow'
  BY <1>2, <1>7 DEF XapiInv, XapiRecordsFollow
<1>10. XapiCommandsRely'
  <2>1. XapiRelies(next, xapiAudits, xapiTold')
    <3>1. XapiRelies(cmd, xapiAudits, xapiTold')
      BY <1>1, <1>7, XapiStillRelies
    <3> QED
      BY <1>2, <1>4, <1>6, <3>1 DEF XapiRelies
  <2>2. \A q \in XapiProcs : XapiRelies(xapiCommand[q], xapiAudits, xapiTold')
    BY <1>7, XapiStillRelies DEF XapiInv, XapiTypeOK, XapiCommandsRely
  <2>3. \A q \in XapiProcs : xapiCommand'[q] = IF q = p THEN next ELSE xapiCommand[q]
    BY <1>3 DEF XapiInv, XapiTypeOK
  <2> QED
    BY <1>2, <2>1, <2>2, <2>3 DEF XapiCommandsRely
<1>11. XapiRecordsWereTold'
  <2> SUFFICES ASSUME NEW c \in XapiCustomers, NEW i \in XapiIds
               PROVE  /\ <<"completed", i>> \in xapiTold'[c] => <<"registered", i>> \in xapiTold'[c]
                      /\ XapiIsOf(xapiAudits[i], c) /\ xapiAudits[i].completed => <<"completed", i>> \in xapiTold'[c]
    BY <1>2 DEF XapiRecordsWereTold
  <2>1. ASSUME <<"completed", i>> \in xapiTold'[c], <<"completed", i>> \notin xapiTold[c]
        PROVE  <<"registered", i>> \in xapiTold'[c]
    <3>1. c = cmd.customer /\ statement = <<"completed", i>>
      BY <1>6, <2>1
    <3>2. cmd.verb = "completed" /\ cmd.id = i
      BY <3>1
    <3> QED
      BY <1>5, <1>7, <3>1, <3>2 DEF XapiInv, XapiRecordsFollow
  <2> QED
    BY <1>7, <2>1 DEF XapiInv, XapiRecordsWereTold
<1> QED
  BY <1>8, <1>9, <1>10, <1>11 DEF XapiInv

\* What a step that writes one audit record keeps: records stay their customers'.
LEMMA XapiRecordWritten ==
    ASSUME XapiInv, NEW p \in XapiProcs, NEW next \in XapiCommands, NEW j \in XapiIds,
           xapiCommand' = [xapiCommand EXCEPT ![p] = next],
           xapiAudits' \in [XapiIds -> XapiAudit \cup {XapiNone}],
           \A i \in XapiIds : i # j => xapiAudits'[i] = xapiAudits[i],
           \A c \in XapiCustomers :
               /\ XapiIsOf(xapiAudits[j], c) => XapiIsOf(xapiAudits'[j], c)
               /\ XapiIsOf(xapiAudits'[j], c) => <<"registered", j>> \in xapiTold[c]
               /\ XapiIsOf(xapiAudits'[j], c) /\ xapiAudits'[j].completed => <<"completed", j>> \in xapiTold[c],
           XapiRelies(next, xapiAudits', xapiTold),
           UNCHANGED <<XapiWorld, xapiTold, xapiTroubles>>
    PROVE  XapiInv'
<1>1. XapiTypeOK'
  BY DEF XapiInv, XapiTypeOK, XapiWorld
<1>2. \A i \in XapiIds, c \in XapiCustomers : XapiIsOf(xapiAudits[i], c) => XapiIsOf(xapiAudits'[i], c)
  BY DEF XapiIsOf
<1>3. XapiCommandsRely'
  <2>1. \A q \in XapiProcs : XapiRelies(xapiCommand[q], xapiAudits', xapiTold)
    BY <1>2, XapiStillRelies DEF XapiInv, XapiTypeOK, XapiCommandsRely
  <2>2. \A q \in XapiProcs : xapiCommand'[q] = IF q = p THEN next ELSE xapiCommand[q]
    BY DEF XapiInv, XapiTypeOK
  <2> QED
    BY <2>1, <2>2 DEF XapiCommandsRely
<1>4. XapiRecordsFollow'
  BY DEF XapiInv, XapiRecordsFollow
<1>5. XapiRecordsWereTold'
  BY DEF XapiInv, XapiRecordsWereTold
<1> QED
  BY <1>1, <1>3, <1>4, <1>5 DEF XapiInv

\* The record of an enrollment is made once its statement was accepted.
LEMMA XapiSavesEnrollment ==
    ASSUME XapiInv, NEW p \in XapiProcs, XapiSaveEnrollment(p) PROVE XapiInv'
<1> DEFINE cmd == xapiCommand[p]
           record == [enrollment |-> XapiEnrollment(cmd.run, cmd.customer), completed |-> FALSE]
           next == IF cmd.id = cmd.run THEN [cmd EXCEPT !.pc = "next"]
                   ELSE [cmd EXCEPT !.id = cmd.run, !.pc = "send"]
<1>1. /\ cmd \in XapiCommands /\ XapiRelies(cmd, xapiAudits, xapiTold)
      /\ xapiAudits \in [XapiIds -> XapiAudit \cup {XapiNone}]
  BY DEF XapiInv, XapiTypeOK, XapiCommandsRely
<1>2. /\ cmd.pc = "save" /\ cmd.verb = "registered"
      /\ xapiAudits' = IF xapiAudits[cmd.id] # XapiNone THEN xapiAudits
                       ELSE [xapiAudits EXCEPT ![cmd.id] = record]
      /\ xapiCommand' = [xapiCommand EXCEPT ![p] = next]
      /\ UNCHANGED <<XapiWorld, xapiTold, xapiTroubles>>
  BY DEF XapiSaveEnrollment
<1>3. /\ cmd.customer \in XapiCustomers /\ cmd.id \in XapiIds /\ cmd.run \in XapiRuns
      /\ <<"registered", cmd.id>> \in xapiTold[cmd.customer]
  BY <1>1, <1>2 DEF XapiRelies
<1>4. /\ XapiEnrollment(cmd.run, cmd.customer) \in XapiEnrollments \cup {XapiNone}
      /\ XapiEnrollment(cmd.run, cmd.customer) # XapiNone =>
             XapiEnrollment(cmd.run, cmd.customer) = <<cmd.run, cmd.customer>>
  BY <1>3 DEF XapiEnrollment, XapiEnrollments
<1>5. /\ record \in XapiAudit /\ ~record.completed
      /\ \A c \in XapiCustomers : XapiIsOf(record, c) => c = cmd.customer
  BY <1>4 DEF XapiAudit, XapiIsOf
<1> HIDE DEF record
<1>6. /\ next \in XapiCommands /\ next.pc \in {"next", "send"} /\ next.customer = cmd.customer
      /\ next.verb = cmd.verb /\ next.todo = cmd.todo /\ next.run = cmd.run /\ next.id \in XapiIds
  <2>1. cmd.run \in XapiIds
    BY <1>3 DEF XapiIds
  <2>2. cmd.id = cmd.run => next = [cmd EXCEPT !.pc = "next"]
    OBVIOUS
  <2>3. cmd.id # cmd.run => next = [cmd EXCEPT !.id = cmd.run, !.pc = "send"]
    OBVIOUS
  <2> HIDE DEF next
  <2>4. CASE cmd.id = cmd.run
    BY <1>1, <1>3, <2>2, <2>4 DEF XapiCommands
  <2>5. CASE cmd.id # cmd.run
    BY <1>1, <1>3, <2>1, <2>3, <2>5 DEF XapiCommands
  <2> QED
    BY <2>4, <2>5
<1> HIDE DEF next
<1>7. /\ xapiAudits' \in [XapiIds -> XapiAudit \cup {XapiNone}]
      /\ \A i \in XapiIds : i # cmd.id => xapiAudits'[i] = xapiAudits[i]
      /\ xapiAudits'[cmd.id] = IF xapiAudits[cmd.id] # XapiNone THEN xapiAudits[cmd.id] ELSE record
  BY <1>1, <1>2, <1>3, <1>5
<1>8. ASSUME NEW c \in XapiCustomers
      PROVE  /\ XapiIsOf(xapiAudits[cmd.id], c) => XapiIsOf(xapiAudits'[cmd.id], c)
             /\ XapiIsOf(xapiAudits'[cmd.id], c) => <<"registered", cmd.id>> \in xapiTold[c]
             /\ XapiIsOf(xapiAudits'[cmd.id], c) /\ xapiAudits'[cmd.id].completed
                    => <<"completed", cmd.id>> \in xapiTold[c]
  <2>1. CASE xapiAudits[cmd.id] # XapiNone
    BY <1>3, <1>7, <2>1 DEF XapiInv, XapiRecordsFollow, XapiRecordsWereTold
  <2>2. CASE xapiAudits[cmd.id] = XapiNone
    <3>1. xapiAudits'[cmd.id] = record /\ ~XapiIsOf(xapiAudits[cmd.id], c)
      BY <1>7, <2>2 DEF XapiIsOf
    <3> QED
      BY <1>3, <1>5, <3>1
  <2> QED
    BY <2>1, <2>2
<1>9. XapiRelies(next, xapiAudits', xapiTold)
  BY <1>2, <1>3, <1>6 DEF XapiRelies
<1> QED
  BY <1>2, <1>3, <1>6, <1>7, <1>8, <1>9, XapiRecordWritten

\* The record of a completion is marked once its statement was accepted.
LEMMA XapiSavesCompletion ==
    ASSUME XapiInv, NEW p \in XapiProcs, XapiSaveCompletion(p) PROVE XapiInv'
<1> DEFINE cmd == xapiCommand[p]
           old == xapiAudits[cmd.id]
           record == [old EXCEPT !.completed = TRUE]
           next == [cmd EXCEPT !.pc = "next"]
<1>1. /\ cmd \in XapiCommands /\ XapiRelies(cmd, xapiAudits, xapiTold)
      /\ xapiAudits \in [XapiIds -> XapiAudit \cup {XapiNone}]
  BY DEF XapiInv, XapiTypeOK, XapiCommandsRely
<1>2. /\ cmd.pc = "save" /\ cmd.verb = "completed"
      /\ xapiAudits' = [xapiAudits EXCEPT ![cmd.id].completed = TRUE]
      /\ xapiCommand' = [xapiCommand EXCEPT ![p].pc = "next"]
      /\ UNCHANGED <<XapiWorld, xapiTold, xapiTroubles>>
  BY DEF XapiSaveCompletion
<1>3. xapiAudits' = [xapiAudits EXCEPT ![cmd.id] = record]
  BY <1>2, Zenon
<1>4. xapiCommand' = [xapiCommand EXCEPT ![p] = next]
  BY <1>2, Zenon
<1>5. /\ cmd.customer \in XapiCustomers /\ cmd.id \in XapiIds
      /\ XapiIsOf(old, cmd.customer) /\ <<"completed", cmd.id>> \in xapiTold[cmd.customer]
      /\ \A item \in cmd.todo : XapiIsOf(xapiAudits[item[1]], cmd.customer)
  BY <1>1, <1>2 DEF XapiRelies
<1>6. old \in XapiAudit
  BY <1>1, <1>5 DEF XapiIsOf
<1>7. record \in XapiAudit /\ record.enrollment = old.enrollment
  BY <1>6 DEF XapiAudit
<1>8. /\ next \in XapiCommands /\ next.pc = "next" /\ next.customer = cmd.customer
      /\ next.verb = cmd.verb /\ next.todo = cmd.todo
  BY <1>1 DEF XapiCommands
<1>9. \A item \in cmd.todo : item[1] \in XapiIds
  BY <1>1 DEF XapiCommands
<1> HIDE DEF record, next
<1>10. /\ xapiAudits' \in [XapiIds -> XapiAudit \cup {XapiNone}]
       /\ \A i \in XapiIds : i # cmd.id => xapiAudits'[i] = xapiAudits[i]
       /\ xapiAudits'[cmd.id] = record
  BY <1>1, <1>3, <1>5, <1>7
<1>11. \A c \in XapiCustomers :
         /\ XapiIsOf(old, c) <=> XapiIsOf(record, c)
         /\ XapiIsOf(record, c) => c = cmd.customer
  BY <1>5, <1>6, <1>7, XapiAssumption DEF XapiIsOf
<1>12. ASSUME NEW c \in XapiCustomers
       PROVE  /\ XapiIsOf(old, c) => XapiIsOf(xapiAudits'[cmd.id], c)
              /\ XapiIsOf(xapiAudits'[cmd.id], c) => <<"registered", cmd.id>> \in xapiTold[c]
              /\ XapiIsOf(xapiAudits'[cmd.id], c) /\ xapiAudits'[cmd.id].completed
                     => <<"completed", cmd.id>> \in xapiTold[c]
  BY <1>5, <1>10, <1>11 DEF XapiInv, XapiRecordsFollow
<1>13. XapiRelies(next, xapiAudits', xapiTold)
  <2>1. \A item \in cmd.todo : XapiIsOf(xapiAudits'[item[1]], cmd.customer)
    BY <1>5, <1>9, <1>10, <1>11
  <2> QED
    BY <1>5, <1>8, <2>1 DEF XapiRelies
<1> QED
  BY <1>2, <1>4, <1>5, <1>8, <1>10, <1>12, <1>13, XapiRecordWritten

LEMMA XapiInvStep == XapiInv /\ [XapiNext]_xapiVars => XapiInv'
<1> SUFFICES ASSUME XapiInv, [XapiNext]_xapiVars PROVE XapiInv'
  OBVIOUS
<1>1. ASSUME NEW p \in XapiProcs, XapiStep(p) PROVE XapiInv'
  BY <1>1, XapiMoves, XapiAccepts, XapiSavesEnrollment, XapiSavesCompletion DEF XapiStep
<1>2. ASSUME NEW p \in XapiProcs, XapiTrouble(p) PROVE XapiInv'
  BY <1>2, XapiMoves
<1>3. ASSUME NEW p \in XapiProcs, NEW verb \in {"registered", "completed"},
             XapiBegin(p, verb, XapiCustomers) \/ \E c \in XapiCustomers : XapiBegin(p, verb, {c})
      PROVE  XapiInv'
  <2>1. \E S \in SUBSET XapiCustomers : XapiBegin(p, verb, S)
    <3>1. XapiCustomers \in SUBSET XapiCustomers /\ \A c \in XapiCustomers : {c} \in SUBSET XapiCustomers
      OBVIOUS
    <3> QED
      BY <1>3, <3>1
  <2> QED
    BY <2>1, XapiMoves
<1>4. ASSUME NEW r \in XapiRuns, XapiEnroll(r) \/ XapiPass(r) \/ XapiAge(r) PROVE XapiInv'
  <2>1. UNCHANGED <<xapiAudits, xapiTold, xapiCommand, xapiTroubles>>
    BY <1>4 DEF XapiEnroll, XapiPass, XapiAge
  <2>2. /\ xapiEnrolled' \subseteq XapiRuns /\ xapiOld' \subseteq xapiEnrolled'
        /\ xapiPassed' \subseteq xapiEnrolled'
    BY <1>4 DEF XapiEnroll, XapiPass, XapiAge, XapiInv, XapiTypeOK
  <2> QED
    BY <2>1, <2>2 DEF XapiInv, XapiTypeOK, XapiRecordsFollow, XapiCommandsRely, XapiRecordsWereTold
<1>5. CASE UNCHANGED xapiVars
  BY <1>5 DEF xapiVars, XapiInv, XapiTypeOK, XapiRecordsFollow, XapiCommandsRely, XapiRecordsWereTold
<1> QED
  BY <1>1, <1>2, <1>3, <1>4, <1>5 DEF XapiNext

\* An LRS that has been told of a completion was told of the enrollment before, and a record
\* is marked completed only if its own customer's LRS accepted the statement, whichever
\* commands run at once, fail or die (XapiRecordsWereTold).
THEOREM StatementsInOrder == XapiSpec => []XapiRecordsWereTold
<1>1. XapiInv => XapiRecordsWereTold
  BY DEF XapiInv
<1> QED
  BY XapiInvInit, XapiInvStep, <1>1, PTL DEF XapiSpec

-----------------------------------------------------------------------------
(* Budget groups *)

TpaLoginState == [pc : {"idle", "group", "join", "stale", "drop", "commit"},
                  group : TpaGroups \cup {TpaNone}, drop : SUBSET TpaGroups]

\* The allow-list names budgets only, and so a login joins a budget and drops budgets.
TpaNamesBudgets ==
    /\ \A o \in TpaOrgs : tpaMap[o] \in TpaBudgets \cup {TpaNone}
    /\ \A p \in TpaLogins :
          /\ tpaLogin[p].pc \in {"join", "stale", "drop", "commit"} => tpaLogin[p].group \in TpaBudgets
          /\ tpaLogin[p].pc \in {"drop", "commit"} => tpaLogin[p].drop \subseteq TpaBudgets

TpaInv == TpaTypeOK /\ TpaNamesBudgets

LEMMA TpaInvInit == TpaInit => TpaInv
<1> SUFFICES ASSUME TpaInit PROVE TpaInv
  OBVIOUS
<1>1. TpaIdle \in TpaLoginState /\ TpaIdle.pc = "idle"
  BY DEF TpaIdle, TpaLoginState
<1>2. 0 \in 0 .. TpaChanges
  BY TpaAssumption
<1>3. TpaTypeOK
  BY <1>1, <1>2 DEF TpaInit, TpaTypeOK, TpaLoginState
<1>4. TpaNamesBudgets
  BY <1>1 DEF TpaInit, TpaNamesBudgets
<1> QED
  BY <1>3, <1>4 DEF TpaInv

\* What is stale is mapped, and so a budget's.
LEMMA TpaStaleAreBudgets ==
    ASSUME TpaInv, NEW g PROVE TpaStale(g) \subseteq TpaBudgets
BY DEF TpaInv, TpaTypeOK, TpaNamesBudgets, TpaStale, TpaMapped

\* A login's step: login is what becomes of it, member what becomes of the memberships.
LEMMA TpaLoginMoved ==
    ASSUME TpaInv, NEW p \in TpaLogins, NEW login \in TpaLoginState,
           tpaLogin' = [tpaLogin EXCEPT ![p] = login],
           login.pc \in {"join", "stale", "drop", "commit"} => login.group \in TpaBudgets,
           login.pc \in {"drop", "commit"} => login.drop \subseteq TpaBudgets,
           UNCHANGED <<tpaOrg, tpaList, tpaMap, tpaRemoved>>, tpaChanges' \in 0 .. TpaChanges,
           tpaMember' \subseteq TpaGroups, tpaSynced' \subseteq tpaMember'
    PROVE  TpaInv'
<1>1. TpaTypeOK'
  BY DEF TpaInv, TpaTypeOK, TpaLoginState
<1>2. TpaNamesBudgets'
  <2>1. \A q \in TpaLogins : tpaLogin'[q] = IF q = p THEN login ELSE tpaLogin[q]
    BY DEF TpaInv, TpaTypeOK
  <2> QED
    BY <2>1 DEF TpaInv, TpaNamesBudgets
<1> QED
  BY <1>1, <1>2 DEF TpaInv

\* A login's step keeps the invariant and leaves other groups alone.
TpaFine == TpaInv' /\ tpaMember' \cap TpaOtherGroups = tpaMember \cap TpaOtherGroups

LEMMA TpaLoginSteps ==
    ASSUME TpaInv, NEW p \in TpaLogins, TpaStep(p) \/ TpaRollBack(p) PROVE TpaFine
<1> DEFINE login == tpaLogin[p]
<1>1. /\ login \in TpaLoginState /\ tpaMember \subseteq TpaGroups /\ tpaSynced \subseteq tpaMember
      /\ tpaChanges \in 0 .. TpaChanges /\ TpaChanges \in Nat
      /\ login.pc \in {"join", "stale", "drop", "commit"} => login.group \in TpaBudgets
      /\ login.pc \in {"drop", "commit"} => login.drop \subseteq TpaBudgets
  BY TpaAssumption DEF TpaInv, TpaTypeOK, TpaNamesBudgets, TpaLoginState
<1>2. TpaIdle \in TpaLoginState /\ TpaIdle.pc = "idle"
  BY DEF TpaIdle, TpaLoginState
<1>3. CASE TpaLookUp(p)
  <2> DEFINE next == [login EXCEPT !.pc = "group", !.group = tpaMap[tpaOrg]]
  <2>1. /\ tpaLogin' = [tpaLogin EXCEPT ![p] = next] /\ tpaOrg \in tpaList
        /\ UNCHANGED <<tpaOrg, tpaList, tpaMap, tpaRemoved, tpaChanges, tpaMember, tpaSynced>>
    BY <1>3 DEF TpaLookUp, TpaSettings
  <2>2. tpaMap[tpaOrg] \in TpaGroups \cup {TpaNone}
    BY <2>1 DEF TpaInv, TpaTypeOK
  <2>3. next \in TpaLoginState /\ next.pc = "group"
    BY <1>1, <2>2 DEF TpaLoginState
  <2> HIDE DEF next
  <2>4. TpaInv'
    BY <1>1, <2>1, <2>3, TpaLoginMoved
  <2> QED
    BY <2>1, <2>4 DEF TpaFine
<1>4. CASE TpaFindGroup(p)
  <2> DEFINE next == [login EXCEPT !.pc = "join"]
  <2>1. /\ tpaLogin' = [tpaLogin EXCEPT ![p] = IF TpaUsable(login.group) THEN next ELSE TpaIdle]
        /\ UNCHANGED <<tpaOrg, tpaList, tpaMap, tpaRemoved, tpaChanges, tpaMember, tpaSynced>>
    BY <1>4 DEF TpaFindGroup, TpaSettings
  <2>2. next \in TpaLoginState /\ next.pc = "join" /\ next.group = login.group
    BY <1>1 DEF TpaLoginState
  <2> HIDE DEF next
  <2>3. TpaInv'
    <3>1. CASE TpaUsable(login.group)
      <4>1. tpaLogin' = [tpaLogin EXCEPT ![p] = next] /\ login.group \in TpaBudgets
        BY <2>1, <3>1 DEF TpaUsable
      <4> QED
        BY <1>1, <2>1, <2>2, <4>1, TpaLoginMoved
    <3>2. CASE ~TpaUsable(login.group)
      <4>1. tpaLogin' = [tpaLogin EXCEPT ![p] = TpaIdle]
        BY <2>1, <3>2
      <4> QED
        BY <1>1, <1>2, <2>1, <4>1, TpaLoginMoved
    <3> QED
      BY <3>1, <3>2
  <2> QED
    BY <2>1, <2>3 DEF TpaFine
<1>5. CASE TpaJoin(p)
  <2> DEFINE next == [login EXCEPT !.pc = "stale"]
  <2>1. /\ tpaLogin' = [tpaLogin EXCEPT ![p].pc = "stale"] /\ login.pc = "join"
        /\ UNCHANGED <<tpaOrg, tpaList, tpaMap, tpaRemoved, tpaChanges, tpaMember, tpaSynced>>
    BY <1>5 DEF TpaJoin, TpaSettings
  <2>2. tpaLogin' = [tpaLogin EXCEPT ![p] = next]
    BY <2>1, Zenon
  <2>3. next \in TpaLoginState /\ next.pc = "stale" /\ next.group = login.group
    BY <1>1 DEF TpaLoginState
  <2> HIDE DEF next
  <2>4. TpaInv'
    BY <1>1, <2>1, <2>2, <2>3, TpaLoginMoved
  <2> QED
    BY <2>1, <2>4 DEF TpaFine
<1>6. CASE TpaFindStale(p)
  <2> DEFINE stale == TpaStale(login.group)
             next == [login EXCEPT !.pc = "drop", !.drop = stale]
  <2>1. /\ tpaLogin' = [tpaLogin EXCEPT ![p] = next] /\ login.pc = "stale"
        /\ UNCHANGED <<tpaOrg, tpaList, tpaMap, tpaRemoved, tpaChanges, tpaMember, tpaSynced>>
    BY <1>6 DEF TpaFindStale, TpaSettings
  <2>2. stale \subseteq TpaBudgets
    BY TpaStaleAreBudgets
  <2>3. stale \subseteq TpaGroups
    BY <2>2 DEF TpaGroups
  <2> HIDE DEF stale
  <2>4. next \in TpaLoginState /\ next.pc = "drop" /\ next.group = login.group /\ next.drop = stale
    BY <1>1, <2>3 DEF TpaLoginState
  <2> HIDE DEF next
  <2>5. TpaInv'
    BY <1>1, <2>1, <2>2, <2>4, TpaLoginMoved
  <2> QED
    BY <2>1, <2>5 DEF TpaFine
<1>7. CASE TpaDrop(p)
  <2> DEFINE next == [login EXCEPT !.pc = "commit"]
  <2>1. /\ tpaLogin' = [tpaLogin EXCEPT ![p].pc = "commit"] /\ login.pc = "drop"
        /\ UNCHANGED <<tpaOrg, tpaList, tpaMap, tpaRemoved, tpaChanges, tpaMember, tpaSynced>>
    BY <1>7 DEF TpaDrop, TpaSettings
  <2>2. tpaLogin' = [tpaLogin EXCEPT ![p] = next]
    BY <2>1, Zenon
  <2>3. /\ next \in TpaLoginState /\ next.pc = "commit" /\ next.group = login.group
        /\ next.drop = login.drop
    BY <1>1 DEF TpaLoginState
  <2> HIDE DEF next
  <2>4. TpaInv'
    BY <1>1, <2>1, <2>2, <2>3, TpaLoginMoved
  <2> QED
    BY <2>1, <2>4 DEF TpaFine
<1>8. CASE TpaCommit(p)
  <2>1. /\ tpaLogin' = [tpaLogin EXCEPT ![p] = TpaIdle] /\ login.pc = "commit"
        /\ tpaMember' = (tpaMember \ login.drop) \cup {login.group}
        /\ tpaSynced' = (tpaSynced \ login.drop) \cup ({login.group} \ (tpaMember \ tpaSynced))
        /\ UNCHANGED <<tpaOrg, tpaList, tpaMap, tpaRemoved, tpaChanges>>
    BY <1>8 DEF TpaCommit, TpaSettings
  <2>2. login.group \in TpaBudgets /\ login.drop \subseteq TpaBudgets /\ login.group \in TpaGroups
    BY <1>1, <2>1 DEF TpaGroups
  <2>3. tpaMember' \subseteq TpaGroups /\ tpaSynced' \subseteq tpaMember'
    BY <1>1, <2>1, <2>2
  <2>4. TpaInv'
    BY <1>1, <1>2, <2>1, <2>3, TpaLoginMoved
  <2>5. tpaMember' \cap TpaOtherGroups = tpaMember \cap TpaOtherGroups
    BY <2>1, <2>2, TpaAssumption
  <2> QED
    BY <2>4, <2>5 DEF TpaFine
<1>9. CASE TpaRollBack(p)
  <2>1. /\ tpaLogin' = [tpaLogin EXCEPT ![p] = TpaIdle] /\ tpaChanges' \in 0 .. TpaChanges
        /\ UNCHANGED <<tpaOrg, tpaList, tpaMap, tpaRemoved, tpaMember, tpaSynced>>
    BY <1>1, <1>9 DEF TpaRollBack
  <2>2. TpaInv'
    BY <1>1, <1>2, <2>1, TpaLoginMoved
  <2> QED
    BY <2>1, <2>2 DEF TpaFine
<1> QED
  BY <1>3, <1>4, <1>5, <1>6, <1>7, <1>8, <1>9 DEF TpaStep

\* The database rolls one of two logins back: it is one step back and one step on.
LEMMA TpaDeadlockStep ==
    ASSUME TpaInv, NEW p \in TpaLogins, NEW q \in TpaLogins, TpaDeadlock(p, q) PROVE TpaFine
<1> DEFINE next == [tpaLogin[q] EXCEPT !.pc = "commit"]
<1>1. /\ tpaLogin \in [TpaLogins -> TpaLoginState] /\ tpaLogin[q] \in TpaLoginState
      /\ tpaLogin[q].pc = "drop" /\ p # q
      /\ tpaLogin' = [tpaLogin EXCEPT ![p] = TpaIdle, ![q].pc = "commit"]
      /\ UNCHANGED <<tpaOrg, tpaList, tpaMap, tpaRemoved, tpaChanges, tpaMember, tpaSynced>>
  BY DEF TpaInv, TpaTypeOK, TpaLoginState, TpaDeadlock, TpaSettings
<1>2. TpaIdle \in TpaLoginState /\ TpaIdle.pc = "idle"
  BY DEF TpaIdle, TpaLoginState
<1>3. next \in TpaLoginState /\ next.pc = "commit" /\ next.group = tpaLogin[q].group /\ next.drop = tpaLogin[q].drop
  BY <1>1 DEF TpaLoginState
<1>4. \A r \in TpaLogins : tpaLogin'[r] = IF r = q THEN next ELSE IF r = p THEN TpaIdle ELSE tpaLogin[r]
  BY <1>1
<1> HIDE DEF next
<1>5. tpaLogin' \in [TpaLogins -> TpaLoginState]
  <2>1. tpaLogin' = [r \in TpaLogins |-> tpaLogin'[r]]
    BY <1>1
  <2>2. \A r \in TpaLogins : tpaLogin'[r] \in TpaLoginState
    BY <1>1, <1>2, <1>3, <1>4
  <2> QED
    BY <2>1, <2>2
<1>6. TpaTypeOK'
  BY <1>1, <1>5 DEF TpaInv, TpaTypeOK, TpaLoginState
<1>7. TpaNamesBudgets'
  BY <1>1, <1>2, <1>3, <1>4 DEF TpaInv, TpaNamesBudgets
<1> QED
  BY <1>1, <1>6, <1>7 DEF TpaInv, TpaFine

\* What people do: no entry they make names another group than a budget.
LEMMA TpaPeopleStep ==
    ASSUME TpaInv,
           \/ \E o \in TpaOrgs : TpaMove(o) \/ TpaDeleteEntry(o) \/ \E g \in TpaGroups \cup {TpaNone} : TpaSetEntry(o, g)
           \/ \E g \in TpaGroups : TpaRemoveGroup(g) \/ TpaAddMember(g)
    PROVE  TpaInv' /\ UNCHANGED tpaLogin
<1>1. TpaChange
  BY DEF TpaMove, TpaDeleteEntry, TpaSetEntry, TpaRemoveGroup, TpaAddMember
<1>2. UNCHANGED tpaLogin /\ tpaChanges' \in 0 .. TpaChanges
  BY <1>1, TpaAssumption DEF TpaChange, TpaInv, TpaTypeOK
<1>3. CASE \E o \in TpaOrgs : TpaMove(o)
  BY <1>2, <1>3 DEF TpaMove, TpaInv, TpaTypeOK, TpaNamesBudgets
<1>4. CASE \E o \in TpaOrgs : TpaDeleteEntry(o)
  <2>1. PICK o \in TpaOrgs : TpaDeleteEntry(o)
    BY <1>4
  <2>2. /\ tpaMap' = [tpaMap EXCEPT ![o] = TpaNone] /\ tpaList' = tpaList \ {o}
        /\ UNCHANGED <<tpaOrg, tpaRemoved, tpaMember, tpaSynced>>
    BY <2>1 DEF TpaDeleteEntry
  <2>3. TpaTypeOK'
    BY <1>2, <2>2 DEF TpaInv, TpaTypeOK
  <2>4. TpaNamesBudgets'
    BY <1>2, <2>2 DEF TpaInv, TpaTypeOK, TpaNamesBudgets
  <2> QED
    BY <1>2, <2>3, <2>4 DEF TpaInv
<1>5. CASE \E o \in TpaOrgs, g \in TpaGroups \cup {TpaNone} : TpaSetEntry(o, g)
  <2>1. PICK o \in TpaOrgs, g \in TpaGroups \cup {TpaNone} : TpaSetEntry(o, g)
    BY <1>5
  <2>2. /\ tpaMap' = [tpaMap EXCEPT ![o] = g] /\ tpaList' = tpaList \cup {o}
        /\ g \in TpaBudgets \cup {TpaNone}
        /\ UNCHANGED <<tpaOrg, tpaRemoved, tpaMember, tpaSynced>>
    BY <2>1 DEF TpaSetEntry, TpaValid
  <2>3. TpaTypeOK'
    BY <1>2, <2>2 DEF TpaInv, TpaTypeOK
  <2>4. TpaNamesBudgets'
    BY <1>2, <2>2 DEF TpaInv, TpaTypeOK, TpaNamesBudgets
  <2> QED
    BY <1>2, <2>3, <2>4 DEF TpaInv
<1>6. CASE \E g \in TpaGroups : TpaRemoveGroup(g) \/ TpaAddMember(g)
  BY <1>2, <1>6 DEF TpaRemoveGroup, TpaAddMember, TpaInv, TpaTypeOK, TpaNamesBudgets
<1> QED
  BY <1>2, <1>3, <1>4, <1>5, <1>6

LEMMA TpaInvStep ==
    TpaInv /\ [TpaNext]_tpaVars =>
        /\ TpaInv'
        /\ [tpaLogin' # tpaLogin => tpaMember' \cap TpaOtherGroups = tpaMember \cap TpaOtherGroups]_tpaVars
<1> SUFFICES ASSUME TpaInv, [TpaNext]_tpaVars
             PROVE  TpaInv' /\ (tpaLogin' # tpaLogin => tpaMember' \cap TpaOtherGroups = tpaMember \cap TpaOtherGroups)
  OBVIOUS
<1>1. CASE \E p \in TpaLogins : TpaStep(p) \/ TpaRollBack(p)
  BY <1>1, TpaLoginSteps DEF TpaFine
<1>2. CASE \E p, q \in TpaLogins : TpaDeadlock(p, q)
  BY <1>2, TpaDeadlockStep DEF TpaFine
<1>3. CASE \/ \E o \in TpaOrgs : TpaMove(o) \/ TpaDeleteEntry(o) \/ \E g \in TpaGroups \cup {TpaNone} : TpaSetEntry(o, g)
           \/ \E g \in TpaGroups : TpaRemoveGroup(g) \/ TpaAddMember(g)
  BY <1>3, TpaPeopleStep
<1>4. CASE UNCHANGED tpaVars
  BY <1>4 DEF tpaVars, TpaInv, TpaTypeOK, TpaNamesBudgets
<1> QED
  BY <1>1, <1>2, <1>3, <1>4 DEF TpaNext

\* No login touches a membership in a group that is not a budget of this customer, whatever
\* people do to the allow-list between the steps of logins (TpaOthersUntouched).
THEOREM OtherGroupsUntouched == TpaSpec => TpaOthersUntouched
  BY TpaInvInit, TpaInvStep, PTL DEF TpaSpec, TpaOthersUntouched

-----------------------------------------------------------------------------
(* The types of the others: SAP's content *)

SapJobState == [pc : {"idle", "next", "post"}, batch : SUBSET SapCourses, course : SapCourses,
                left : 0 .. SapLimit, attempts : 0 .. SapRetries, deaths : 0 .. SapDeaths,
                payload : [SapCourses -> SapVersion]]
SapAuditState == [sent : SapVersion, rest : 0 .. SapJobsADay]

SapContentTyped ==
    /\ sapCatalog \in [SapCourses -> [version : SapVersion, changes : SapVersion]]
    /\ sapAudit \in [SapCourses -> SapAuditState]
    /\ sapCourse \in [SapCourses -> SapVersion]
    /\ sapRefused \subseteq SapRefusable
    /\ sapJob \in SapJobState

\* The audit of the course being posted is saved, whatever SAP answered.
LEMMA SapSavedTyped ==
    ASSUME SapContentTyped, NEW ok \in BOOLEAN, SapSaved(ok)
    PROVE  sapJob' \in SapJobState /\ sapAudit' \in [SapCourses -> SapAuditState]
<1>1. sapJob \in SapJobState /\ sapAudit \in [SapCourses -> SapAuditState] /\ sapJob.course \in SapCourses
  BY DEF SapContentTyped, SapJobState
<1>2. sapJob' \in SapJobState
  BY <1>1 DEF SapSaved, SapJobState
<1> DEFINE saved == IF ok THEN [sent |-> sapJob.payload[sapJob.course], rest |-> 0]
                    ELSE [sapAudit[sapJob.course] EXCEPT !.rest = SapJobsADay]
<1>3. sapAudit' = [sapAudit EXCEPT ![sapJob.course] = saved]
  BY <1>1 DEF SapSaved
<1>4. saved \in SapAuditState
  BY <1>1, SapContentAssumption DEF SapJobState, SapAuditState, SapVersion
<1> HIDE DEF saved
<1> QED
  BY <1>1, <1>2, <1>3, <1>4

LEMMA SapContentStep == SapContentTyped /\ [SapContentNext]_sapContentVars => SapContentTyped'
<1> SUFFICES ASSUME SapContentTyped, [SapContentNext]_sapContentVars PROVE SapContentTyped'
  OBVIOUS
<1>1. /\ sapCatalog \in [SapCourses -> [version : SapVersion, changes : SapVersion]]
      /\ sapAudit \in [SapCourses -> SapAuditState] /\ sapCourse \in [SapCourses -> SapVersion]
      /\ sapRefused \subseteq SapRefusable /\ sapJob \in SapJobState
      /\ sapJob.course \in SapCourses /\ sapJob.payload[sapJob.course] \in SapVersion
      /\ 0 \in SapVersion /\ 0 \in 0 .. SapLimit /\ SapLimit \in 0 .. SapLimit /\ 0 \in 0 .. SapRetries
  BY SapContentAssumption DEF SapContentTyped, SapJobState, SapVersion
<1>2. SapJobEnded \in SapJobState /\ SapJobEnded.deaths = sapJob.deaths
  BY <1>1 DEF SapJobEnded, SapJobState
<1>3. CASE SapJobBegins
  <2> DEFINE rested(c) == [sapAudit[c] EXCEPT !.rest = IF @ = 0 THEN 0 ELSE @ - 1]
             payload == [c \in SapCourses |-> sapCatalog[c].version]
             batch == SapBatch(sapAudit')
  <2>1. /\ sapAudit' = [c \in SapCourses |-> rested(c)]
        /\ sapJob' = [sapJob EXCEPT !.pc = "next", !.batch = batch, !.left = SapLimit, !.payload = payload]
        /\ UNCHANGED <<sapCatalog, sapCourse, sapRefused>>
    BY <1>3 DEF SapJobBegins, SapRested
  <2>2. ASSUME NEW c \in SapCourses PROVE rested(c) \in SapAuditState
    <3>1. sapAudit[c] \in SapAuditState
      BY <1>1
    <3> QED
      BY <3>1, SapContentAssumption DEF SapAuditState
  <2>3. payload \in [SapCourses -> SapVersion]
    BY <1>1
  <2>4. batch \subseteq SapCourses
    BY DEF SapBatch, SapDue
  <2> HIDE DEF rested, payload, batch
  <2>5. sapJob' \in SapJobState
    BY <1>1, <2>1, <2>3, <2>4 DEF SapJobState
  <2>6. sapAudit' \in [SapCourses -> SapAuditState]
    BY <2>1, <2>2
  <2> QED
    BY <1>1, <2>1, <2>5, <2>6 DEF SapContentTyped
<1>4. CASE SapNextChunk
  <2>1. UNCHANGED <<sapCatalog, sapAudit, sapCourse, sapRefused>>
    BY <1>4 DEF SapNextChunk
  <2>2. CASE sapJob' = SapJobEnded
    BY <1>1, <1>2, <2>1, <2>2 DEF SapContentTyped
  <2>3. ASSUME NEW c \in sapJob.batch, sapJob.left > 0,
               sapJob' = [sapJob EXCEPT !.pc = "post", !.course = c, !.attempts = 0,
                                        !.batch = @ \ {c}, !.left = @ - 1]
        PROVE  SapContentTyped'
    <3>1. c \in SapCourses /\ sapJob.left - 1 \in 0 .. SapLimit /\ sapJob.batch \ {c} \in SUBSET SapCourses
      BY <1>1, <2>3, SapContentAssumption DEF SapJobState
    <3>2. sapJob' \in SapJobState
      BY <1>1, <2>3, <3>1 DEF SapJobState
    <3> QED
      BY <1>1, <2>1, <3>2 DEF SapContentTyped
  <2> QED
    BY <1>4, <2>2, <2>3 DEF SapNextChunk
<1>5. CASE SapAccepts \/ SapAnswerLost
  <2>1. /\ SapSaved(TRUE) \/ SapSaved(FALSE)
        /\ sapCourse' = [sapCourse EXCEPT ![sapJob.course] = sapJob.payload[sapJob.course]]
        /\ UNCHANGED <<sapCatalog, sapRefused>>
    BY <1>5 DEF SapAccepts, SapAnswerLost
  <2>2. sapJob' \in SapJobState /\ sapAudit' \in [SapCourses -> SapAuditState]
    BY <2>1, SapSavedTyped
  <2>3. sapCourse' \in [SapCourses -> SapVersion]
    BY <1>1, <2>1
  <2> QED
    BY <1>1, <2>1, <2>2, <2>3 DEF SapContentTyped
<1>6. CASE SapThrottles \/ SapRejects
  <2>1. UNCHANGED <<sapCatalog, sapCourse, sapRefused>>
    BY <1>6 DEF SapThrottles, SapRejects
  <2>2. CASE SapSaved(FALSE)
    BY <1>1, <2>1, <2>2, SapSavedTyped DEF SapContentTyped
  <2>3. CASE /\ sapJob.attempts < SapRetries /\ sapJob' = [sapJob EXCEPT !.attempts = @ + 1]
             /\ UNCHANGED sapAudit
    <3>1. sapJob.attempts + 1 \in 0 .. SapRetries
      BY <1>1, <2>3, SapContentAssumption DEF SapJobState
    <3>2. sapJob' \in SapJobState
      BY <1>1, <2>3, <3>1 DEF SapJobState
    <3> QED
      BY <1>1, <2>1, <2>3, <3>2 DEF SapContentTyped
  <2> QED
    BY <1>6, <2>2, <2>3 DEF SapThrottles, SapRejects
<1>7. CASE SapDies
  <2>1. /\ sapJob' = [SapJobEnded EXCEPT !.deaths = @ + 1] /\ sapJob.deaths < SapDeaths
        /\ UNCHANGED <<sapCatalog, sapAudit, sapCourse, sapRefused>>
    BY <1>7 DEF SapDies
  <2>2. sapJob.deaths + 1 \in 0 .. SapDeaths
    BY <1>1, <2>1, SapContentAssumption DEF SapJobState
  <2>3. sapJob' \in SapJobState
    BY <1>2, <2>1, <2>2 DEF SapJobState
  <2> QED
    BY <1>1, <2>1, <2>3 DEF SapContentTyped
<1>8. ASSUME NEW c \in SapCourses, SapCatalogChanges(c) PROVE SapContentTyped'
  <2>1. PICK v \in {0, sapCatalog[c].changes + 1} :
           sapCatalog' = [sapCatalog EXCEPT ![c] = [version |-> v, changes |-> @.changes + 1]]
    BY <1>8 DEF SapCatalogChanges
  <2>2. sapCatalog[c].changes < SapChanges /\ UNCHANGED <<sapAudit, sapCourse, sapRefused, sapJob>>
    BY <1>8 DEF SapCatalogChanges
  <2>3. sapCatalog[c].changes + 1 \in SapVersion /\ v \in SapVersion
    BY <1>1, <2>2, SapContentAssumption DEF SapVersion
  <2>4. sapCatalog' \in [SapCourses -> [version : SapVersion, changes : SapVersion]]
    BY <1>1, <2>1, <2>3
  <2> QED
    BY <1>1, <2>2, <2>4 DEF SapContentTyped
<1>9. ASSUME NEW c \in SapRefusable, SapRefuses(c) PROVE SapContentTyped'
  BY <1>9 DEF SapRefuses, SapContentTyped
<1>10. CASE UNCHANGED sapContentVars
  BY <1>10 DEF sapContentVars, SapContentTyped
<1> QED
  BY <1>3, <1>4, <1>5, <1>6, <1>7, <1>8, <1>9, <1>10 DEF SapContentNext

LEMMA SapContentStaysTyped == SapContentSpec => []SapContentTypeOK
<1>1. SapContentInit => SapContentTyped
  <2> SUFFICES ASSUME SapContentInit PROVE SapContentTyped
    OBVIOUS
  <2>1. (CHOOSE c \in SapCourses : TRUE) \in SapCourses
    BY SapContentAssumption
  <2>2. 0 \in SapVersion /\ 0 \in 0 .. SapJobsADay /\ 0 \in 0 .. SapLimit /\ 0 \in 0 .. SapRetries /\ 0 \in 0 .. SapDeaths
    BY SapContentAssumption DEF SapVersion
  <2> QED
    BY <2>1, <2>2 DEF SapContentInit, SapContentTyped, SapJobState, SapAuditState
<1>2. SapContentTyped => SapContentTypeOK
  BY DEF SapContentTyped, SapContentTypeOK, SapJobState, SapAuditState
<1> QED
  BY <1>1, <1>2, SapContentStep, PTL DEF SapContentSpec

-----------------------------------------------------------------------------
(* SAP's learners *)

\* A next page is asked for only if SAP has that many learners.
SapLearnersTyped ==
    /\ sapInactive \in SUBSET SapStudent /\ sapMoves \in 0 .. SapMoves
    /\ sapLink \in [SapStudent -> SapLink]
    /\ sapScan \in [pc : {"idle", "page", "unlink"}, skip : 0 .. SapStudents + SapPageSize, found : SUBSET SapStudent]
    /\ sapScan.pc = "page" => sapScan.skip <= SapStudents
    /\ sapReport \in [student : 0 .. SapStudents, count : 0 .. SapReports, link : SapLink]

LEMMA SapCountsStudents == ASSUME NEW S \in SUBSET SapStudent PROVE Cardinality(S) \in 0 .. SapStudents
<1>1. SapStudents \in Nat
  BY SapLearnersAssumption
<1>2. IsFiniteSet(SapStudent) /\ Cardinality(SapStudent) = SapStudents
  BY <1>1, FS_Interval DEF SapStudent
<1> QED
  BY <1>1, <1>2, FS_Subset, FS_CardinalityType

LEMMA SapLearnersStep == SapLearnersTyped /\ [SapLearnersNext]_sapLearnerVars => SapLearnersTyped'
<1> SUFFICES ASSUME SapLearnersTyped, [SapLearnersNext]_sapLearnerVars PROVE SapLearnersTyped'
  OBVIOUS
<1>1. /\ SapStudents \in Nat /\ SapPageSize \in Nat /\ SapPageSize > 0 /\ SapMoves \in Nat /\ SapReports \in Nat
      /\ [linked |-> TRUE, active |-> TRUE] \in SapLink /\ [linked |-> FALSE, active |-> FALSE] \in SapLink
  BY SapLearnersAssumption DEF SapLink
<1>2. CASE SapScanBegins
  BY <1>1, <1>2 DEF SapScanBegins, SapLearnersTyped
<1>3. CASE SapReadPage
  <2>1. /\ sapScan.pc = "page"
        /\ sapScan' = [sapScan EXCEPT !.found = @ \cup SapPage, !.skip = @ + SapPageSize,
               !.pc = IF Cardinality(sapInactive) > sapScan.skip + SapPageSize THEN "page" ELSE "unlink"]
        /\ UNCHANGED <<sapInactive, sapMoves, sapLink, sapReport>>
    BY <1>3 DEF SapReadPage
  <2>2. SapPage \subseteq SapStudent
    BY DEF SapPage, SapLearnersTyped
  <2>3. Cardinality(sapInactive) \in 0 .. SapStudents
    BY SapCountsStudents DEF SapLearnersTyped
  <2>4. sapScan.skip \in Nat /\ sapScan.skip <= SapStudents
    BY <1>1, <2>1 DEF SapLearnersTyped
  <2>5. sapScan.skip + SapPageSize \in 0 .. SapStudents + SapPageSize
    BY <1>1, <2>4
  <2>6. sapScan' \in [pc : {"idle", "page", "unlink"}, skip : 0 .. SapStudents + SapPageSize, found : SUBSET SapStudent]
    BY <2>1, <2>2, <2>5 DEF SapLearnersTyped
  <2>7. sapScan'.pc = "page" => sapScan'.skip <= SapStudents
    BY <1>1, <2>1, <2>3, <2>4 DEF SapLearnersTyped
  <2> QED
    BY <2>1, <2>6, <2>7 DEF SapLearnersTyped
<1>4. CASE SapReadFails \/ SapScanEnds
  BY <1>1, <1>4 DEF SapReadFails, SapScanEnds, SapScanIdle, SapLearnersTyped
<1>5. ASSUME NEW s \in SapStudent, SapUnlink(s) PROVE SapLearnersTyped'
  BY <1>1, <1>5 DEF SapUnlink, SapLearnersTyped
<1>6. ASSUME NEW s \in SapStudent, SapReportRefused(s) PROVE SapLearnersTyped'
  <2>1. sapReport.count + 1 \in 0 .. SapReports /\ s \in 0 .. SapStudents /\ sapLink[s] \in SapLink
    BY <1>1, <1>6 DEF SapReportRefused, SapLearnersTyped, SapStudent
  <2> QED
    BY <1>6, <2>1 DEF SapReportRefused, SapLearnersTyped
<1>7. CASE SapDeactivate
  <2> DEFINE link == sapReport.link
  <2>1. link \in SapLink /\ 0 \in 0 .. SapStudents
    BY <1>1 DEF SapLearnersTyped
  <2>2. [link EXCEPT !.active = FALSE] \in SapLink
    BY <2>1 DEF SapLink
  <2> QED
    BY <1>7, <2>1, <2>2 DEF SapDeactivate, SapLearnersTyped
<1>8. ASSUME NEW s \in SapStudent, SapMoved(s) PROVE SapLearnersTyped'
  <2>1. sapMoves' \in 0 .. SapMoves
    BY <1>1, <1>8 DEF SapMoved, SapLearnersTyped
  <2> QED
    BY <1>8, <2>1 DEF SapMoved, SapLearnersTyped
<1>9. ASSUME NEW s \in SapStudent, SapSignsIn(s) PROVE SapLearnersTyped'
  BY <1>1, <1>9 DEF SapSignsIn, SapLearnersTyped
<1>10. CASE UNCHANGED sapLearnerVars
  BY <1>10 DEF sapLearnerVars, SapLearnersTyped
<1> QED
  BY <1>2, <1>3, <1>4, <1>5, <1>6, <1>7, <1>8, <1>9, <1>10 DEF SapLearnersNext

LEMMA SapLearnersStayTyped == SapLearnersSpec => []SapLearnersTypeOK
<1>1. SapLearnersInit => SapLearnersTyped
  BY SapLearnersAssumption DEF SapLearnersInit, SapLearnersTyped, SapLink
<1>2. SapLearnersTyped => SapLearnersTypeOK
  BY DEF SapLearnersTyped, SapLearnersTypeOK
<1> QED
  BY <1>1, <1>2, SapLearnersStep, PTL DEF SapLearnersSpec

-----------------------------------------------------------------------------
(* The grades of subsections *)

\* A task has a subsection at hand while it sends and saves, and what it was told of is one.
SubTyped ==
    /\ SubTypeOK
    /\ \A p \in SubTasks :
          (subTask[p].pc \in {"send", "save"} \/ subTask[p].ok) => subTask[p].item \in SubSections

SubTaskState == [pc : {"idle", "next", "send", "save"}, read : [SubSections -> SubAnyGrade],
                 todo : SUBSET SubSections, item : SubSections \cup {SubNone}, ok : BOOLEAN]

LEMMA SubMoves ==
    ASSUME SubTyped, NEW p \in SubTasks, NEW task \in SubTaskState, SubMove(p, task),
           task.pc \in {"send", "save"} \/ task.ok => task.item \in SubSections
    PROVE  /\ subTask' \in [SubTasks -> SubTaskState]
           /\ \A q \in SubTasks :
                 (subTask'[q].pc \in {"send", "save"} \/ subTask'[q].ok) => subTask'[q].item \in SubSections
<1>1. subTask \in [SubTasks -> SubTaskState]
  BY DEF SubTyped, SubTypeOK, SubTaskState
<1>2. subTask' = [subTask EXCEPT ![p] = task]
  BY DEF SubMove
<1>3. subTask' \in [SubTasks -> SubTaskState]
  BY <1>1, <1>2
<1>4. ASSUME NEW q \in SubTasks PROVE IF q = p THEN subTask'[q] = task ELSE subTask'[q] = subTask[q]
  BY <1>1, <1>2
<1> QED
  BY <1>3, <1>4 DEF SubTyped

LEMMA SubBlankTasks ==
    /\ SubIdle \in SubTaskState /\ SubIdle.pc = "idle" /\ ~SubIdle.ok
    /\ SubTyped => SubExport \in SubTaskState /\ SubExport.pc = "next" /\ ~SubExport.ok
<1>1. SubIdle \in SubTaskState /\ SubIdle.pc = "idle" /\ ~SubIdle.ok
  BY DEF SubIdle, SubTaskState, SubBlank, SubAnyGrade
<1>2. ASSUME SubTyped PROVE SubExport \in SubTaskState /\ SubExport.pc = "next" /\ ~SubExport.ok
  <2>1. subGrade \in [SubSections -> SubAnyGrade] /\ SubRecords \in SUBSET SubSections
    BY <1>2 DEF SubTyped, SubTypeOK, SubRecords
  <2> QED
    BY <1>1, <2>1 DEF SubExport, SubTaskState
<1> QED
  BY <1>1, <1>2

LEMMA SubTaskSteps ==
    ASSUME SubTyped, NEW p \in SubTasks, SubStep(p) \/ SubRejected(p) \/ SubAnswerLost(p) \/ SubDies(p)
    PROVE  SubTyped'
<1> DEFINE task == subTask[p]
<1>1. /\ task \in SubTaskState
      /\ task.pc \in {"send", "save"} \/ task.ok => task.item \in SubSections
  BY DEF SubTyped, SubTypeOK, SubTaskState
<1>2. /\ subGrade \in [SubSections -> SubAnyGrade] /\ subLatest \in [SubSections -> SubAnyGrade]
      /\ subShown \in [SubSections -> SubAnyGrade] /\ subSignals \subseteq [section : SubSections, grade : SubGrades]
      /\ subChanges \in 0 .. SubChanges /\ subTroubles \in 0 .. SubTroubles /\ subUnsure \subseteq SubSections
  BY DEF SubTyped, SubTypeOK
<1>3. SubTrouble => subTroubles' \in 0 .. SubTroubles
  BY <1>2, SubAssumption DEF SubTrouble
<1>4. SubShows(p) /\ task.pc = "send" => subShown' \in [SubSections -> SubAnyGrade]
  BY <1>1, <1>2 DEF SubShows, SubTaskState
<1>5. task.pc = "send" =>
         /\ [task EXCEPT !.pc = "save", !.ok = TRUE] \in SubTaskState
         /\ [task EXCEPT !.pc = "save", !.ok = FALSE] \in SubTaskState
         /\ [task EXCEPT !.pc = "save", !.ok = TRUE].item \in SubSections
         /\ [task EXCEPT !.pc = "save", !.ok = FALSE].item \in SubSections
  BY <1>1 DEF SubTaskState
<1>6. CASE SubAccepted(p)
  <2>1. /\ subTask' \in [SubTasks -> SubTaskState]
        /\ \A q \in SubTasks :
              (subTask'[q].pc \in {"send", "save"} \/ subTask'[q].ok) => subTask'[q].item \in SubSections
    BY <1>5, <1>6, SubMoves DEF SubAccepted
  <2>2. subUnsure' \subseteq SubSections
    BY <1>1, <1>2, <1>6 DEF SubAccepted
  <2> QED
    BY <1>2, <1>4, <1>6, <2>1, <2>2 DEF SubAccepted, SubTyped, SubTypeOK, SubTaskState
<1>7. CASE SubSave(p)
  <2> DEFINE next == IF task.todo = {} THEN SubIdle ELSE [task EXCEPT !.pc = "next", !.item = SubNone, !.ok = FALSE]
  <2>1. SubMove(p, next) /\ task.pc = "save"
    BY <1>7 DEF SubSave
  <2>2. next \in SubTaskState /\ next.pc \in {"idle", "next"} /\ ~next.ok
    BY <1>1, SubBlankTasks DEF SubTaskState
  <2>3. subLatest' \in [SubSections -> SubAnyGrade]
    BY <1>1, <1>2, <1>7 DEF SubSave, SubTaskState
  <2> HIDE DEF next
  <2>4. /\ subTask' \in [SubTasks -> SubTaskState]
        /\ \A q \in SubTasks :
              (subTask'[q].pc \in {"send", "save"} \/ subTask'[q].ok) => subTask'[q].item \in SubSections
    BY <2>1, <2>2, SubMoves
  <2> QED
    BY <1>2, <1>7, <2>3, <2>4 DEF SubSave, SubTyped, SubTypeOK, SubTaskState
<1>8. ASSUME NEW s \in SubSections, SubPick(p, s) PROVE SubTyped'
  <2> DEFINE rest == task.todo \ {s}
             after == IF rest = {} THEN SubIdle ELSE [task EXCEPT !.todo = rest]
             next == IF SubSkips(p, s) THEN after ELSE [task EXCEPT !.pc = "send", !.todo = rest, !.item = s]
  <2>1. SubMove(p, next) /\ task.pc = "next"
    BY <1>8 DEF SubPick
  <2>2. after \in SubTaskState /\ (after.ok => after.item \in SubSections) /\ after.pc \in {"idle", "next"}
    BY <1>1, <2>1, SubBlankTasks DEF SubTaskState
  <2>3. next \in SubTaskState /\ (next.pc \in {"send", "save"} \/ next.ok => next.item \in SubSections)
    BY <1>1, <2>2 DEF SubTaskState
  <2> HIDE DEF next
  <2>4. /\ subTask' \in [SubTasks -> SubTaskState]
        /\ \A q \in SubTasks :
              (subTask'[q].pc \in {"send", "save"} \/ subTask'[q].ok) => subTask'[q].item \in SubSections
    BY <2>1, <2>3, SubMoves
  <2> QED
    BY <1>2, <1>8, <2>4 DEF SubPick, SubTyped, SubTypeOK, SubTaskState
<1>9. CASE SubRejected(p)
  <2>1. /\ subTask' \in [SubTasks -> SubTaskState]
        /\ \A q \in SubTasks :
              (subTask'[q].pc \in {"send", "save"} \/ subTask'[q].ok) => subTask'[q].item \in SubSections
    BY <1>5, <1>9, SubMoves DEF SubRejected
  <2> QED
    BY <1>2, <1>3, <1>9, <2>1 DEF SubRejected, SubTyped, SubTypeOK, SubTaskState
<1>10. CASE SubAnswerLost(p) \/ SubDies(p)
  <2>1. /\ subTask' \in [SubTasks -> SubTaskState]
        /\ \A q \in SubTasks :
              (subTask'[q].pc \in {"send", "save"} \/ subTask'[q].ok) => subTask'[q].item \in SubSections
    BY <1>10, SubBlankTasks, SubMoves DEF SubAnswerLost, SubDies
  <2>2. subUnsure' \subseteq SubSections /\ subShown' \in [SubSections -> SubAnyGrade]
    BY <1>1, <1>2, <1>4, <1>10 DEF SubAnswerLost, SubDies
  <2> QED
    BY <1>2, <1>3, <1>10, <2>1, <2>2 DEF SubAnswerLost, SubDies, SubTyped, SubTypeOK, SubTaskState
<1> QED
  BY <1>6, <1>7, <1>8, <1>9, <1>10 DEF SubStep

LEMMA SubNextStep == SubTyped /\ [SubNext]_subVars => SubTyped'
<1> SUFFICES ASSUME SubTyped, [SubNext]_subVars PROVE SubTyped'
  OBVIOUS
<1>1. CASE \E p \in SubTasks : SubStep(p) \/ SubRejected(p) \/ SubAnswerLost(p) \/ SubDies(p)
  BY <1>1, SubTaskSteps
<1>2. CASE SubStartBulk
  <2>1. SubBulk \in SubTasks
    BY DEF SubTasks
  <2>2. /\ subTask' \in [SubTasks -> SubTaskState]
        /\ \A q \in SubTasks :
              (subTask'[q].pc \in {"send", "save"} \/ subTask'[q].ok) => subTask'[q].item \in SubSections
    BY <1>2, <2>1, SubBlankTasks, SubMoves DEF SubStartBulk
  <2> QED
    BY <1>2, <2>2 DEF SubStartBulk, SubTyped, SubTypeOK, SubTaskState
<1>3. ASSUME NEW p \in SubSingles, NEW signal \in subSignals, SubStartSingle(p, signal) PROVE SubTyped'
  <2> DEFINE next == IF SubTransmitted(signal.section, signal.grade) \/ SubRecords = {} THEN SubIdle ELSE SubExport
  <2>1. p \in SubTasks /\ SubMove(p, next)
    BY <1>3 DEF SubTasks, SubStartSingle
  <2>2. next \in SubTaskState /\ next.pc \in {"idle", "next"} /\ ~next.ok
    BY SubBlankTasks
  <2> HIDE DEF next
  <2>3. /\ subTask' \in [SubTasks -> SubTaskState]
        /\ \A q \in SubTasks :
              (subTask'[q].pc \in {"send", "save"} \/ subTask'[q].ok) => subTask'[q].item \in SubSections
    BY <2>1, <2>2, SubMoves
  <2> QED
    BY <1>3, <2>3 DEF SubStartSingle, SubTyped, SubTypeOK, SubTaskState
<1>4. ASSUME NEW s \in SubSections, NEW g \in SubAnyGrade, SubRegrade(s, g) PROVE SubTyped'
  <2>1. subGrade' \in [SubSections -> SubAnyGrade] /\ subChanges' \in 0 .. SubChanges
    BY <1>4, SubAssumption DEF SubRegrade, SubTyped, SubTypeOK
  <2>2. g > 0 => [section |-> s, grade |-> g] \in [section : SubSections, grade : SubGrades]
    BY DEF SubAnyGrade
  <2>3. subSignals' \subseteq [section : SubSections, grade : SubGrades]
    BY <1>4, <2>2 DEF SubRegrade, SubTyped, SubTypeOK
  <2> QED
    BY <1>4, <2>1, <2>3 DEF SubRegrade, SubTyped, SubTypeOK
<1>5. CASE UNCHANGED subVars
  BY <1>5 DEF subVars, SubTyped, SubTypeOK
<1> QED
  BY <1>1, <1>2, <1>3, <1>4, <1>5 DEF SubNext

LEMMA SubStaysTyped == SubSpec => []SubTypeOK
<1>1. SubInit => SubTyped
  BY SubBlankTasks, SubAssumption DEF SubInit, SubTyped, SubTypeOK, SubTaskState, SubBlank, SubAnyGrade
<1>2. SubTyped => SubTypeOK
  BY DEF SubTyped
<1> QED
  BY <1>1, <1>2, SubNextStep, PTL DEF SubSpec

-----------------------------------------------------------------------------
(* Completions for Cornerstone *)

CsodTaskState == [pc : {"idle", "next", "send", "save"}, todo : SUBSET CsodLearners, token : CsodToken,
                  ok : BOOLEAN, learner : CsodLearners, record : CsodRecord]

CsodCompletionsTyped ==
    /\ csodRecord \in [CsodLearners -> CsodRecord]
    /\ csodToken \in [CsodConfigs -> CsodToken]
    /\ csodLaunched \in [CsodConfigs \X CsodLearners -> CsodToken]
    /\ csodLive \in SUBSET CsodToken
    /\ csodCompleted \in SUBSET CsodLearners
    /\ csodTask \in [CsodConfigs -> CsodTaskState]
    /\ csodTold \in SUBSET (CsodConfigs \X CsodLearners)

\* The number of the last launch: a nonempty set of numbers up to a bound has a greatest.
LEMMA CsodCounts == ASSUME csodLive \in SUBSET CsodToken PROVE CsodLaunchCount \in Nat
<1> DEFINE R == OpToRel(<, Nat)
           T == {CsodLaunches - t : t \in csodLive}
<1>1. CsodLaunches \in Nat /\ \A t \in csodLive : t \in Nat /\ t <= CsodLaunches
  BY CsodCompletionsAssumption DEF CsodToken
<1>2. CASE csodLive = {}
  BY <1>2 DEF CsodLaunchCount
<1>3. CASE csodLive # {}
  <2>1. T \subseteq Nat /\ T # {}
    BY <1>1, <1>3
  <2>2. IsWellFoundedOn(R, Nat)
    BY NatLessThanWellFounded
  <2> HIDE DEF T, R
  <2>3. PICK m \in T : \A n \in T : ~(<<n, m>> \in R)
    BY <2>1, <2>2, WFMin
  <2>4. \A n \in T : ~(n < m)
    BY <2>1, <2>3 DEF R, OpToRel
  <2>5. PICK t \in csodLive : m = CsodLaunches - t
    BY DEF T
  <2>6. \A u \in csodLive : u <= t
    <3> SUFFICES ASSUME NEW u \in csodLive PROVE u <= t
      OBVIOUS
    <3>1. CsodLaunches - u \in T
      BY DEF T
    <3> QED
      BY <1>1, <2>4, <2>5, <3>1
  <2>7. CsodLaunchCount \in csodLive
    BY <1>3, <2>6 DEF CsodLaunchCount
  <2> QED
    BY <1>1, <2>7
<1> QED
  BY <1>2, <1>3

LEMMA CsodTaskSteps ==
    ASSUME CsodCompletionsTyped, NEW c \in CsodConfigs, CsodTaskStep(c)
    PROVE  CsodCompletionsTyped'
<1> DEFINE task == csodTask[c]
<1>1. /\ csodRecord \in [CsodLearners -> CsodRecord] /\ csodToken \in [CsodConfigs -> CsodToken]
      /\ csodTask \in [CsodConfigs -> CsodTaskState] /\ csodTold \in SUBSET (CsodConfigs \X CsodLearners)
      /\ csodCompleted \in SUBSET CsodLearners
  BY DEF CsodCompletionsTyped
<1>2. /\ task \in CsodTaskState /\ task.learner \in CsodLearners /\ task.record \in CsodRecord
      /\ task.todo \in SUBSET CsodLearners /\ task.ok \in BOOLEAN
  BY <1>1 DEF CsodTaskState
<1>3. ASSUME NEW new \in CsodTaskState, csodTask' = [csodTask EXCEPT ![c] = new],
             UNCHANGED <<csodToken, csodLaunched, csodLive, csodCompleted>>,
             csodRecord' \in [CsodLearners -> CsodRecord], csodTold' \in SUBSET (CsodConfigs \X CsodLearners)
      PROVE  CsodCompletionsTyped'
  <2>1. csodTask' \in [CsodConfigs -> CsodTaskState]
    BY <1>1, <1>3
  <2> QED
    BY <1>3, <2>1 DEF CsodCompletionsTyped
<1>4. CASE CsodTaskBegins(c)
  <2> DEFINE todo == {l \in csodCompleted : c \in CsodLinks[l]}
             new == [task EXCEPT !.pc = "next", !.token = csodToken[c], !.todo = todo]
  <2>1. csodTask' = [csodTask EXCEPT ![c] = new]
    BY <1>1, <1>4 DEF CsodTaskBegins
  <2>2. todo \in SUBSET CsodLearners /\ csodToken[c] \in CsodToken
    BY <1>1
  <2>3. new \in CsodTaskState
    BY <1>2, <2>2 DEF CsodTaskState
  <2> HIDE DEF new
  <2> QED
    BY <1>1, <1>3, <1>4, <2>1, <2>3 DEF CsodTaskBegins
<1>5. ASSUME NEW l \in CsodLearners, CsodPick(c, l) PROVE CsodCompletionsTyped'
  <2> DEFINE record == csodRecord[l]
             due == record.config = c /\ ~(record.transmitted /\ record.graded)
             graded == [record EXCEPT !.graded = TRUE]
             new == [task EXCEPT !.todo = @ \ {l}, !.learner = l, !.record = graded,
                                 !.pc = IF due THEN "send" ELSE "next"]
  <2>1. csodTask' = [csodTask EXCEPT ![c] = new]
    BY <1>1, <1>5 DEF CsodPick
  <2>2. record \in CsodRecord
    BY <1>1
  <2>3. graded \in CsodRecord
    BY <2>2 DEF CsodRecord
  <2> HIDE DEF graded
  <2>4. new \in CsodTaskState
    BY <1>2, <2>3 DEF CsodTaskState
  <2> HIDE DEF new
  <2> QED
    BY <1>1, <1>3, <1>5, <2>1, <2>4 DEF CsodPick
<1>6. CASE CsodTaskEnds(c)
  <2> DEFINE new == [task EXCEPT !.pc = "idle"]
  <2>1. csodTask' = [csodTask EXCEPT ![c] = new] /\ new \in CsodTaskState
    BY <1>1, <1>2, <1>6 DEF CsodTaskEnds, CsodTaskState
  <2> HIDE DEF new
  <2> QED
    BY <1>1, <1>3, <1>6, <2>1 DEF CsodTaskEnds
<1>7. CASE CsodSendAccepted(c)
  <2> DEFINE new == [task EXCEPT !.pc = "save", !.ok = TRUE]
  <2>1. csodTask' = [csodTask EXCEPT ![c] = new] /\ new \in CsodTaskState
    BY <1>1, <1>2, <1>7 DEF CsodSendAccepted, CsodTaskState
  <2>2. csodTold' \in SUBSET (CsodConfigs \X CsodLearners)
    BY <1>1, <1>2, <1>7 DEF CsodSendAccepted
  <2> HIDE DEF new
  <2> QED
    BY <1>1, <1>3, <1>7, <2>1, <2>2 DEF CsodSendAccepted
<1>8. CASE CsodSendFails(c)
  <2>1. /\ [task EXCEPT !.pc = "save", !.ok = FALSE] \in CsodTaskState
        /\ [task EXCEPT !.pc = "idle", !.todo = {}] \in CsodTaskState
    BY <1>2 DEF CsodTaskState
  <2>2. \/ csodTask' = [csodTask EXCEPT ![c] = [task EXCEPT !.pc = "save", !.ok = FALSE]]
        \/ csodTask' = [csodTask EXCEPT ![c] = [task EXCEPT !.pc = "idle", !.todo = {}]]
    BY <1>1, <1>8 DEF CsodSendFails
  <2>3. UNCHANGED <<csodRecord, csodToken, csodLaunched, csodLive, csodCompleted, csodTold>>
    BY <1>8 DEF CsodSendFails
  <2> QED
    BY <1>1, <1>3, <2>1, <2>2, <2>3
<1>9. CASE CsodSave(c)
  <2> DEFINE new == [task EXCEPT !.pc = "next"]
             saved == [task.record EXCEPT !.transmitted = task.ok]
  <2>1. csodTask' = [csodTask EXCEPT ![c] = new] /\ new \in CsodTaskState
    BY <1>1, <1>2, <1>9 DEF CsodSave, CsodTaskState
  <2>2. csodRecord' = [csodRecord EXCEPT ![task.learner] = saved] /\ saved \in CsodRecord
    BY <1>2, <1>9 DEF CsodSave, CsodRecord
  <2> HIDE DEF new, saved
  <2>3. csodRecord' \in [CsodLearners -> CsodRecord]
    BY <1>1, <1>2, <2>2
  <2> QED
    BY <1>1, <1>3, <1>9, <2>1, <2>3 DEF CsodSave
<1> QED
  BY <1>4, <1>5, <1>6, <1>7, <1>8, <1>9 DEF CsodTaskStep

LEMMA CsodCompletionsStep ==
    CsodCompletionsTyped /\ [CsodCompletionsNext]_csodLearnerVars => CsodCompletionsTyped'
<1> SUFFICES ASSUME CsodCompletionsTyped, [CsodCompletionsNext]_csodLearnerVars PROVE CsodCompletionsTyped'
  OBVIOUS
<1>1. ASSUME NEW c \in CsodConfigs, NEW l \in CsodLearners, CsodLaunch(c, l) PROVE CsodCompletionsTyped'
  <2> DEFINE t == CsodLaunchCount + 1
             launched == [csodRecord[l] EXCEPT !.config = c, !.launch = t]
  <2>1. CsodLaunchCount \in Nat
    BY CsodCounts DEF CsodCompletionsTyped
  <2>2. t \in CsodToken
    BY <1>1, <2>1, CsodCompletionsAssumption DEF CsodLaunch, CsodToken
  <2>3. /\ csodRecord \in [CsodLearners -> CsodRecord] /\ csodToken \in [CsodConfigs -> CsodToken]
        /\ csodLaunched \in [CsodConfigs \X CsodLearners -> CsodToken] /\ csodLive \in SUBSET CsodToken
        /\ csodRecord[l] \in CsodRecord
    BY DEF CsodCompletionsTyped
  <2>4. /\ csodToken' = [csodToken EXCEPT ![c] = t] /\ csodLive' = csodLive \cup {t}
        /\ csodLaunched' = [csodLaunched EXCEPT ![<<c, l>>] = t]
        /\ \/ csodRecord' = [csodRecord EXCEPT ![l] = launched]
           \/ csodRecord' = csodRecord
        /\ UNCHANGED <<csodCompleted, csodTask, csodTold>>
    BY <1>1, <2>3 DEF CsodLaunch
  <2>5. launched \in CsodRecord
    BY <2>2, <2>3 DEF CsodRecord
  <2> HIDE DEF t, launched
  <2>6. csodRecord' \in [CsodLearners -> CsodRecord]
    BY <2>3, <2>4, <2>5
  <2>7. <<c, l>> \in CsodConfigs \X CsodLearners
    OBVIOUS
  <2>8. csodLaunched' \in [CsodConfigs \X CsodLearners -> CsodToken]
    BY <2>2, <2>3, <2>4, <2>7
  <2>9. csodToken' \in [CsodConfigs -> CsodToken] /\ csodLive' \in SUBSET CsodToken
    BY <2>2, <2>3, <2>4
  <2> QED
    BY <2>4, <2>6, <2>8, <2>9 DEF CsodCompletionsTyped
<1>2. CASE \E c \in CsodConfigs : CsodTaskStep(c)
  BY <1>2, CsodTaskSteps
<1>3. ASSUME NEW l \in CsodLearners, CsodComplete(l) PROVE CsodCompletionsTyped'
  BY <1>3 DEF CsodComplete, CsodCompletionsTyped
<1>4. ASSUME NEW t \in 1 .. CsodLaunches, CsodExpires(t) PROVE CsodCompletionsTyped'
  BY <1>4 DEF CsodExpires, CsodCompletionsTyped
<1>5. CASE UNCHANGED csodLearnerVars
  BY <1>5 DEF csodLearnerVars, CsodCompletionsTyped
<1> QED
  BY <1>1, <1>2, <1>3, <1>4, <1>5 DEF CsodCompletionsNext

LEMMA CsodCompletionsStayTyped == CsodCompletionsSpec => []CsodCompletionsTypeOK
<1>1. CsodCompletionsInit => CsodCompletionsTyped
  <2> SUFFICES ASSUME CsodCompletionsInit PROVE CsodCompletionsTyped
    OBVIOUS
  <2> DEFINE blank == [config |-> CsodNoConfig, launch |-> 0, graded |-> FALSE, transmitted |-> FALSE]
             first == CHOOSE l \in CsodLearners : TRUE
             idle == [pc |-> "idle", todo |-> {}, token |-> 0, ok |-> FALSE, learner |-> first, record |-> blank]
  <2>1. first \in CsodLearners /\ 0 \in CsodToken
    BY CsodCompletionsAssumption DEF CsodToken
  <2>2. blank \in CsodRecord
    BY <2>1 DEF CsodRecord
  <2>3. /\ csodRecord = [l \in CsodLearners |-> blank] /\ csodTask = [c \in CsodConfigs |-> idle]
        /\ csodToken = [c \in CsodConfigs |-> 0] /\ csodLaunched = [p \in CsodConfigs \X CsodLearners |-> 0]
        /\ csodLive = {} /\ csodCompleted = {} /\ csodTold = {}
    BY DEF CsodCompletionsInit
  <2> HIDE DEF blank, first
  <2>4. idle \in CsodTaskState
    BY <2>1, <2>2 DEF CsodTaskState
  <2> HIDE DEF idle
  <2> QED
    BY <2>1, <2>2, <2>3, <2>4 DEF CsodCompletionsTyped
<1>2. CsodCompletionsTyped => CsodCompletionsTypeOK
  BY DEF CsodCompletionsTyped, CsodCompletionsTypeOK, CsodTaskState
<1> QED
  BY <1>1, <1>2, CsodCompletionsStep, PTL DEF CsodCompletionsSpec

-----------------------------------------------------------------------------
(* Content for Cornerstone *)

CsodMarkedAudit == {a \in CsodAudit : a.marked \in CsodMarks}

\* Copies of audits of some of the contents.
CsodCopies(audits) == UNION {[S -> audits] : S \in SUBSET CsodContents}

CsodJobState == [pc : {"idle", "build"}, items : CsodCopies(CsodAudit),
                 overlaps : 0 .. CsodOverlaps, deaths : 0 .. CsodDeaths]

\* A request has copies of marked audits only: of no other is it defined what is sent.
CsodPullState == [pc : {"idle", "open"}, since : BOOLEAN, items : CsodCopies(CsodMarkedAudit)]

CsodContentTyped ==
    /\ csodCatalog \in [CsodContents -> [version : CsodVersion, changes : CsodVersion]]
    /\ csodAudit \in [CsodContents -> CsodAudit]
    /\ csodJob \in CsodJobState
    /\ csodPull \in [CsodPullers -> CsodPullState]
    /\ csodCourse \in [CsodContents -> CsodVersion]

LEMMA CsodCopiesAre ==
    ASSUME NEW audits, NEW items \in CsodCopies(audits)
    PROVE  DOMAIN items \in SUBSET CsodContents /\ \A c \in DOMAIN items : items[c] \in audits
  BY DEF CsodCopies

LEMMA CsodCopiesOf ==
    ASSUME NEW audits, NEW S \in SUBSET CsodContents, NEW items \in [S -> audits]
    PROVE  items \in CsodCopies(audits)
  BY DEF CsodCopies

\* What a pull and the job make of an audit are audits.
LEMMA CsodAudits ==
    ASSUME NEW a \in CsodAudit
    PROVE  /\ a.marked \in CsodMarks => CsodSent(a) \in CsodAudit
           /\ \A m \in CsodMarks : [a EXCEPT !.marked = m] \in CsodAudit
           /\ \A v \in CsodVersion : /\ CsodNewAudit(v) \in CsodAudit
                                     /\ [a EXCEPT !.payload = v, !.active = TRUE, !.version = v] \in CsodAudit
<1>1. 0 \in CsodVersion
  BY CsodContentAssumption DEF CsodVersion
<1>2. ASSUME a.marked \in CsodMarks PROVE CsodSent(a) \in CsodAudit
  BY <1>2 DEF CsodSent, CsodAudit, CsodMarks
<1>3. \A m \in CsodMarks : [a EXCEPT !.marked = m] \in CsodAudit
  BY DEF CsodAudit
<1>4. \A v \in CsodVersion : [a EXCEPT !.payload = v, !.active = TRUE, !.version = v] \in CsodAudit
  BY DEF CsodAudit
<1>5. ASSUME NEW v \in CsodVersion PROVE CsodNewAudit(v) \in CsodAudit
  BY <1>1 DEF CsodNewAudit, CsodNoAudit, CsodAudit, CsodMarks
<1> QED
  BY <1>2, <1>3, <1>4, <1>5

LEMMA CsodNoItemsAre == \A audits : CsodNoItems \in CsodCopies(audits)
<1> SUFFICES ASSUME NEW audits PROVE CsodNoItems \in CsodCopies(audits)
  OBVIOUS
<1>1. CsodNoItems \in [{} -> audits] /\ {} \in SUBSET CsodContents
  BY DEF CsodNoItems
<1> QED
  BY <1>1, CsodCopiesOf

\* The steps of the job.
LEMMA CsodJobSteps ==
    ASSUME CsodContentTyped,
           CsodJobMarks \/ CsodJobEnds \/ CsodJobDies \/ \E c \in CsodContents : CsodJobBuilds(c)
    PROVE  CsodContentTyped'
<1>1. /\ csodCatalog \in [CsodContents -> [version : CsodVersion, changes : CsodVersion]]
      /\ csodAudit \in [CsodContents -> CsodAudit] /\ csodJob \in CsodJobState
      /\ csodJob.items \in CsodCopies(CsodAudit)
      /\ UNCHANGED <<csodCatalog, csodPull, csodCourse>>
  BY DEF CsodContentTyped, CsodJobState, CsodJobMarks, CsodJobEnds, CsodJobDies, CsodJobBuilds
<1>2. ASSUME csodJob' \in CsodJobState, csodAudit' \in [CsodContents -> CsodAudit] PROVE CsodContentTyped'
  BY <1>1, <1>2 DEF CsodContentTyped
<1>3. CASE CsodJobMarks
  <2> DEFINE mark(c) ==
               CASE c \in CsodToCreate -> CsodMarkCreate(c)
                 [] c \in CsodToUpdate -> [csodAudit[c] EXCEPT !.marked = "update"]
                 [] c \in CsodToDelete -> [csodAudit[c] EXCEPT !.marked = "delete"]
                 [] OTHER -> csodAudit[c]
             marked == [c \in CsodContents |-> mark(c)]
             due == CsodToCreate \cup CsodToUpdate \cup CsodToDelete
             items == [c \in due |-> marked[c]]
  <2>1. csodAudit' = marked /\ csodJob' = [csodJob EXCEPT !.pc = "build", !.items = items]
    BY <1>3 DEF CsodJobMarks
  <2>2. ASSUME NEW c \in CsodContents PROVE mark(c) \in CsodAudit
    <3>1. csodAudit[c] \in CsodAudit /\ csodCatalog[c].version \in CsodVersion
      BY <1>1
    <3>2. {"create", "update", "delete"} \subseteq CsodMarks
      BY DEF CsodMarks
    <3>3. CsodMarkCreate(c) \in CsodAudit
      BY <3>1, <3>2, CsodAudits DEF CsodMarkCreate
    <3>4. /\ [csodAudit[c] EXCEPT !.marked = "update"] \in CsodAudit
          /\ [csodAudit[c] EXCEPT !.marked = "delete"] \in CsodAudit
      BY <3>1, <3>2, CsodAudits
    <3> QED
      BY <3>1, <3>3, <3>4
  <2>3. due \in SUBSET CsodContents
    BY DEF CsodToCreate, CsodToUpdate, CsodToDelete
  <2> HIDE DEF mark, due
  <2>4. marked \in [CsodContents -> CsodAudit] /\ items \in [due -> CsodAudit]
    BY <2>2, <2>3
  <2> HIDE DEF marked, items
  <2>5. items \in CsodCopies(CsodAudit)
    BY <2>3, <2>4, CsodCopiesOf
  <2>6. csodJob' \in CsodJobState
    BY <1>1, <2>1, <2>5 DEF CsodJobState
  <2> QED
    BY <1>2, <2>1, <2>4, <2>6
<1>4. CASE CsodJobEnds
  BY <1>1, <1>2, <1>4 DEF CsodJobEnds, CsodJobState
<1>5. CASE CsodJobDies
  <2>1. csodJob.deaths + 1 \in 0 .. CsodDeaths
    BY <1>1, <1>5, CsodContentAssumption DEF CsodJobDies, CsodJobState
  <2> QED
    BY <1>1, <1>2, <1>5, <2>1, CsodNoItemsAre DEF CsodJobDies, CsodJobState
<1>6. ASSUME NEW c \in CsodContents, CsodJobBuilds(c) PROVE CsodContentTyped'
  <2> DEFINE rest == CsodWithoutItem(csodJob.items, c)
             overlaps == IF CsodRequestOpen THEN csodJob.overlaps + 1 ELSE csodJob.overlaps
  <2>1. /\ c \in DOMAIN csodJob.items /\ csodJob' = [csodJob EXCEPT !.items = rest, !.overlaps = overlaps]
        /\ CsodRequestOpen => csodJob.overlaps < CsodOverlaps
        /\ csodAudit' = IF csodJob.items[c].marked # "delete" /\ (c \in CsodWithout \/ ~CsodOffered(c))
                        THEN csodAudit ELSE [csodAudit EXCEPT ![c] = CsodBuilt(c)]
    BY <1>6 DEF CsodJobBuilds
  <2>2. overlaps \in 0 .. CsodOverlaps
    BY <1>1, <2>1, CsodContentAssumption DEF CsodJobState
  <2>3. /\ DOMAIN csodJob.items \in SUBSET CsodContents
        /\ \A d \in DOMAIN csodJob.items : csodJob.items[d] \in CsodAudit
    BY <1>1, CsodCopiesAre
  <2>4. DOMAIN csodJob.items \ {c} \in SUBSET CsodContents /\ rest \in [DOMAIN csodJob.items \ {c} -> CsodAudit]
    BY <2>3 DEF CsodWithoutItem
  <2> HIDE DEF rest, overlaps
  <2>5. rest \in CsodCopies(CsodAudit)
    BY <2>4, CsodCopiesOf
  <2>6. csodJob' \in CsodJobState
    BY <1>1, <2>1, <2>2, <2>5 DEF CsodJobState
  <2>7. CsodBuilt(c) \in CsodAudit
    <3>1. csodJob.items[c] \in CsodAudit /\ csodCatalog[c].version \in CsodVersion
      BY <1>1, <2>1, <2>3
    <3> QED
      BY <3>1, CsodAudits DEF CsodBuilt
  <2>8. csodAudit' \in [CsodContents -> CsodAudit]
    BY <1>1, <2>1, <2>7
  <2> QED
    BY <1>2, <2>6, <2>8
<1> QED
  BY <1>3, <1>4, <1>5, <1>6

\* The steps of a request.
LEMMA CsodPullSteps ==
    ASSUME CsodContentTyped, NEW p \in CsodPullers,
           (\E since \in CsodHeaders : CsodPullReads(p, since)) \/ CsodPullAnswered(p) \/ CsodPullFails(p)
    PROVE  CsodContentTyped'
<1>1. /\ csodAudit \in [CsodContents -> CsodAudit] /\ csodPull \in [CsodPullers -> CsodPullState]
      /\ csodCourse \in [CsodContents -> CsodVersion]
      /\ csodPull[p] \in CsodPullState /\ csodPull[p].items \in CsodCopies(CsodMarkedAudit)
      /\ UNCHANGED <<csodCatalog, csodJob>>
  BY DEF CsodContentTyped, CsodPullState, CsodPullReads, CsodPullAnswered, CsodPullFails
<1>2. ASSUME csodPull' \in [CsodPullers -> CsodPullState], csodAudit' \in [CsodContents -> CsodAudit],
             csodCourse' \in [CsodContents -> CsodVersion]
      PROVE  CsodContentTyped'
  BY <1>1, <1>2 DEF CsodContentTyped
<1>3. CsodClosed \in CsodPullState
  BY CsodNoItemsAre DEF CsodClosed, CsodPullState
<1>4. ASSUME NEW since \in CsodHeaders, CsodPullReads(p, since) PROVE CsodContentTyped'
  <2> DEFINE items == [c \in CsodMarkedContents |-> csodAudit[c]]
             open == [pc |-> "open", since |-> since, items |-> items]
  <2>1. /\ csodPull' = [csodPull EXCEPT ![p] = open] /\ UNCHANGED <<csodAudit, csodCourse>>
    BY <1>4 DEF CsodPullReads
  <2>2. ASSUME NEW c \in CsodMarkedContents PROVE c \in CsodContents /\ csodAudit[c] \in CsodMarkedAudit
    BY <1>1 DEF CsodMarkedContents, CsodMarkedAudit, CsodAudit
  <2>3. CsodMarkedContents \in SUBSET CsodContents /\ items \in [CsodMarkedContents -> CsodMarkedAudit]
    BY <2>2
  <2> HIDE DEF items
  <2>4. items \in CsodCopies(CsodMarkedAudit) /\ since \in BOOLEAN
    BY <2>3, CsodCopiesOf, CsodContentAssumption
  <2>5. open \in CsodPullState
    BY <2>4 DEF CsodPullState
  <2> HIDE DEF open
  <2> QED
    BY <1>1, <1>2, <2>1, <2>5
<1>5. CASE CsodPullFails(p)
  BY <1>1, <1>2, <1>3, <1>5 DEF CsodPullFails
<1>6. CASE CsodPullAnswered(p)
  <2> DEFINE items == csodPull[p].items
             saved(c) == IF c \in DOMAIN items THEN CsodSent(items[c]) ELSE csodAudit[c]
             listed(c) == IF c \in DOMAIN items THEN CsodLists(p, c) ELSE csodCourse[c]
  <2>1. /\ csodPull' = [csodPull EXCEPT ![p] = CsodClosed]
        /\ csodAudit' = [c \in CsodContents |-> saved(c)]
        /\ csodCourse' = [c \in CsodContents |-> listed(c)] \/ csodCourse' = csodCourse
    BY <1>6 DEF CsodPullAnswered
  <2>2. ASSUME NEW c \in DOMAIN items PROVE CsodSent(items[c]) \in CsodAudit
    <3>1. items[c] \in CsodMarkedAudit
      BY <1>1, CsodCopiesAre
    <3> QED
      BY <3>1, CsodAudits DEF CsodMarkedAudit
  <2>3. ASSUME NEW c \in CsodContents PROVE saved(c) \in CsodAudit
    BY <1>1, <2>2
  <2>4. 0 \in CsodVersion
    BY CsodContentAssumption DEF CsodVersion
  <2>5. ASSUME NEW c \in CsodContents PROVE listed(c) \in CsodVersion
    <3>1. CASE c \in DOMAIN items
      <4>1. CsodSent(items[c]).payload \in CsodVersion
        BY <2>2, <3>1 DEF CsodAudit
      <4> QED
        BY <1>1, <2>4, <3>1, <4>1 DEF CsodLists
    <3> QED
      BY <1>1, <3>1
  <2> HIDE DEF saved, listed
  <2>6. csodAudit' \in [CsodContents -> CsodAudit] /\ csodCourse' \in [CsodContents -> CsodVersion]
    BY <1>1, <2>1, <2>3, <2>5
  <2>7. csodPull' \in [CsodPullers -> CsodPullState]
    BY <1>1, <1>3, <2>1
  <2> QED
    BY <1>2, <2>6, <2>7
<1> QED
  BY <1>4, <1>5, <1>6

LEMMA CsodContentStep == CsodContentTyped /\ [CsodContentNext]_csodContentVars => CsodContentTyped'
<1> SUFFICES ASSUME CsodContentTyped, [CsodContentNext]_csodContentVars PROVE CsodContentTyped'
  OBVIOUS
<1>1. CASE CsodJobMarks \/ CsodJobEnds \/ CsodJobDies \/ \E c \in CsodContents : CsodJobBuilds(c)
  BY <1>1, CsodJobSteps
<1>2. ASSUME NEW p \in CsodPullers,
             (\E since \in CsodHeaders : CsodPullReads(p, since)) \/ CsodPullAnswered(p) \/ CsodPullFails(p)
      PROVE  CsodContentTyped'
  BY <1>2, CsodPullSteps
<1>3. ASSUME NEW c \in CsodContents, CsodCatalogChanges(c) PROVE CsodContentTyped'
  <2>1. PICK v \in {0, csodCatalog[c].changes + 1} :
           csodCatalog' = [csodCatalog EXCEPT ![c] = [version |-> v, changes |-> @.changes + 1]]
    BY <1>3 DEF CsodCatalogChanges
  <2>2. /\ csodCatalog[c].changes < CsodChanges /\ UNCHANGED <<csodAudit, csodJob, csodPull, csodCourse>>
        /\ csodCatalog \in [CsodContents -> [version : CsodVersion, changes : CsodVersion]]
    BY <1>3 DEF CsodCatalogChanges, CsodContentTyped
  <2>3. csodCatalog[c].changes + 1 \in CsodVersion /\ v \in CsodVersion
    BY <2>2, CsodContentAssumption DEF CsodVersion
  <2>4. csodCatalog' \in [CsodContents -> [version : CsodVersion, changes : CsodVersion]]
    BY <2>1, <2>2, <2>3
  <2> QED
    BY <2>2, <2>4 DEF CsodContentTyped
<1>4. CASE UNCHANGED csodContentVars
  BY <1>4 DEF csodContentVars, CsodContentTyped
<1> QED
  BY <1>1, <1>2, <1>3, <1>4 DEF CsodContentNext

LEMMA CsodContentStaysTyped == CsodContentSpec => []CsodContentTypeOK
<1>1. CsodContentInit => CsodContentTyped
  <2> SUFFICES ASSUME CsodContentInit PROVE CsodContentTyped
    OBVIOUS
  <2>1. 0 \in CsodVersion /\ 0 \in 0 .. CsodOverlaps /\ 0 \in 0 .. CsodDeaths
    BY CsodContentAssumption DEF CsodVersion
  <2>2. CsodNoAudit \in CsodAudit
    BY <2>1 DEF CsodNoAudit, CsodAudit
  <2> QED
    BY <2>1, <2>2, CsodNoItemsAre DEF CsodContentInit, CsodContentTyped, CsodJobState, CsodPullState
<1>2. CsodContentTyped => CsodContentTypeOK
  <2> SUFFICES ASSUME CsodContentTyped PROVE CsodContentTypeOK
    OBVIOUS
  <2>1. CsodItemsOK(csodJob.items) /\ csodJob.pc \in {"idle", "build"}
        /\ csodJob.overlaps \in 0 .. CsodOverlaps /\ csodJob.deaths \in 0 .. CsodDeaths
    BY CsodCopiesAre DEF CsodContentTyped, CsodJobState, CsodItemsOK
  <2>2. ASSUME NEW p \in CsodPullers
        PROVE  csodPull[p].pc \in {"idle", "open"} /\ CsodItemsOK(csodPull[p].items)
    <3>1. csodPull[p] \in CsodPullState
      BY DEF CsodContentTyped
    <3> QED
      BY <3>1, CsodCopiesAre DEF CsodPullState, CsodItemsOK, CsodMarkedAudit
  <2> QED
    BY <2>1, <2>2 DEF CsodContentTyped, CsodContentTypeOK
<1> QED
  BY <1>1, <1>2, CsodContentStep, PTL DEF CsodContentSpec

-----------------------------------------------------------------------------
(* All of them *)

LEMMA XapiStaysTyped == XapiSpec => []XapiTypeOK
<1>1. XapiInv => XapiTypeOK
  BY DEF XapiInv
<1> QED
  BY XapiInvInit, XapiInvStep, <1>1, PTL DEF XapiSpec

LEMMA TpaStaysTyped == TpaSpec => []TpaTypeOK
<1>1. TpaInv => TpaTypeOK
  BY DEF TpaInv
<1> QED
  BY TpaInvInit, TpaInvStep, <1>1, PTL DEF TpaSpec

LEMMA ChannelsStartAlone ==
    Init => /\ SapContentInit /\ SapLearnersInit /\ CsodContentInit /\ CsodCompletionsInit
            /\ XapiInit /\ TpaInit /\ SubInit
BY DEF Init

LEMMA ChannelsStepAlone ==
    [Next]_channelVars =>
        /\ [SapContentNext]_sapContentVars /\ [SapLearnersNext]_sapLearnerVars
        /\ [CsodContentNext]_csodContentVars /\ [CsodCompletionsNext]_csodLearnerVars
        /\ [XapiNext]_xapiVars /\ [TpaNext]_tpaVars /\ [SubNext]_subVars
<1> SUFFICES ASSUME Next \/ UNCHANGED channelVars
             PROVE  /\ SapContentNext \/ UNCHANGED sapContentVars
                    /\ SapLearnersNext \/ UNCHANGED sapLearnerVars
                    /\ CsodContentNext \/ UNCHANGED csodContentVars
                    /\ CsodCompletionsNext \/ UNCHANGED csodLearnerVars
                    /\ XapiNext \/ UNCHANGED xapiVars
                    /\ TpaNext \/ UNCHANGED tpaVars
                    /\ SubNext \/ UNCHANGED subVars
  OBVIOUS
<1>1. CASE SapContentOnly(SapContentNext) \/ SapLearnersOnly(SapLearnersNext)
  BY <1>1 DEF SapContentOnly, SapLearnersOnly, csodVars
<1>2. CASE CsodContentOnly(CsodContentNext) \/ CsodCompletionsOnly(CsodCompletionsNext)
  BY <1>2 DEF CsodContentOnly, CsodCompletionsOnly, sapVars
<1>3. CASE XapiOnly(XapiNext) \/ TpaOnly(TpaNext) \/ SubOnly(SubNext)
  BY <1>3 DEF XapiOnly, TpaOnly, SubOnly, sapVars, csodVars
<1>4. CASE UNCHANGED channelVars
  BY <1>4 DEF channelVars, sapVars, csodVars
<1> QED
  BY <1>1, <1>2, <1>3, <1>4 DEF Next

\* The composition of the channels hides nothing: each of the seven behaves in it as on its own,
\* so that what is proved of a channel holds of it among the others (MCChannels).
THEOREM ChannelsSideBySide ==
    Spec => /\ SapContentSpec /\ SapLearnersSpec /\ CsodContentSpec /\ CsodCompletionsSpec
            /\ XapiSpec /\ TpaSpec /\ SubSpec
BY ChannelsStartAlone, ChannelsStepAlone, PTL
   DEF Spec, SapContentSpec, SapLearnersSpec, CsodContentSpec, CsodCompletionsSpec, XapiSpec, TpaSpec, SubSpec

\* The state of every channel is of its type, whatever the numbers of courses, students, pages,
\* requests, configurations, learners, launches, subsections and grades: no page is asked for
\* beyond the list, no copy is of something unknown, no number passes its bound (TypeOK).
THEOREM ChannelsTyped == Spec => []TypeOK
<1>1. SapContentTypeOK /\ SapLearnersTypeOK /\ CsodContentTypeOK /\ CsodCompletionsTypeOK
      /\ XapiTypeOK /\ TpaTypeOK /\ SubTypeOK => TypeOK
  BY DEF TypeOK
<1> QED
  BY ChannelsSideBySide, SapContentStaysTyped, SapLearnersStayTyped, CsodContentStaysTyped,
     CsodCompletionsStayTyped, XapiStaysTyped, TpaStaysTyped, SubStaysTyped, <1>1, PTL
=============================================================================
