-------------------------- MODULE WebhookRefinement --------------------------
(***************************************************************************)
(* WebhookQueue as an implementation of WebhookDelivery.                    *)
(***************************************************************************)
EXTENDS WebhookQueue

\* The phase of a row with this status.
Phase(s) == IF s = "none" THEN "absent"
            ELSE IF s \in {"pending", "processing"} THEN "open"
            ELSE IF s = "success" THEN "delivered" ELSE "abandoned"

Delivery == INSTANCE WebhookDelivery WITH
    phase <- [i \in RowIds |-> Phase(row[i].status)],
    sent <- posts,
    taken <- accepted,
    MaxSends <- MaxRetries + 1

\* Row by row, the queue keeps the promise of WebhookDelivery: sent a bounded
\* number of times, only while open, concluded once, delivered only if accepted.
ImplementsDelivery == Delivery!DeliverySpec
=============================================================================
