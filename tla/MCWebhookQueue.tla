--------------------------- MODULE MCWebhookQueue ---------------------------
(***************************************************************************)
(* WebhookQueue for TLC, and what the code's comments say that is not so.    *)
(***************************************************************************)
EXTENDS WebhookRefinement, TLC

\* Rows that are done with are left alone (tasks.py: "Don't process if already
\* done or cancelled").  Fails: the status is tested when the task starts, on a
\* row it then overwrites.
SettledNotReprocessed ==
    [][\A i \in RowIds : row[i].status \in {"success", "cancelled"} =>
          row'[i].status \in {"success", "cancelled"}]_vars

\* get_or_create makes routing idempotent under races (webhook_routing.py).
\* Fails: the index lets a second row in once the first has failed.
OneRowPerKey ==
    \A i, j \in RowIds :
        row[i].status # "none" /\ row[j].status # "none" /\ row[i].key = row[j].key => i = j

\* The delays the comment in _schedule_retry lists.  Fails: 30 s, 60 s, 120 s.
DelaysAsCommented ==
    \A i \in RowIds : row[i].status = "pending" =>
        row[i].delay = <<0, 30, 120, 300>>[row[i].attempts + 1]

ProcessSymmetry == Permutations(Routers) \cup Permutations(Workers)
=============================================================================
