--------------------------- MODULE WebhookDelivery ---------------------------
(***************************************************************************)
(* What the webhook queue promises for the rows of its table, leaving out   *)
(* how: an enqueued row is sent a bounded number of times, only while it is *)
(* open, and is concluded once and for all.  It is concluded as delivered   *)
(* only if the endpoint took it in.                                         *)
(***************************************************************************)
EXTENDS Naturals

CONSTANTS RowIds,     \* rows of the queue
          MaxSends    \* requests a row may cost

VARIABLES phase,      \* "absent", "open", "delivered" or "abandoned"
          sent,       \* requests sent for a row
          taken       \* requests the endpoint took in

avars == <<phase, sent, taken>>

DeliveryInit ==
    /\ phase = [i \in RowIds |-> "absent"]
    /\ sent = [i \in RowIds |-> 0]
    /\ taken = [i \in RowIds |-> 0]

Enqueue(i) ==
    /\ phase[i] = "absent"
    /\ phase' = [phase EXCEPT ![i] = "open"]
    /\ UNCHANGED <<sent, taken>>

\* A request is sent; the endpoint may take it in.
Send(i) ==
    /\ phase[i] = "open"
    /\ sent[i] < MaxSends
    /\ sent' = [sent EXCEPT ![i] = @ + 1]
    /\ \/ taken' = [taken EXCEPT ![i] = @ + 1]
       \/ UNCHANGED taken
    /\ UNCHANGED phase

Conclude(i) ==
    /\ phase[i] = "open"
    /\ \/ /\ taken[i] > 0
          /\ phase' = [phase EXCEPT ![i] = "delivered"]
       \/ phase' = [phase EXCEPT ![i] = "abandoned"]
    /\ UNCHANGED <<sent, taken>>

DeliveryNext == \E i \in RowIds : Enqueue(i) \/ Send(i) \/ Conclude(i)

DeliverySpec == DeliveryInit /\ [][DeliveryNext]_avars
=============================================================================
