---------------------------- MODULE MCContentSync ----------------------------
(***************************************************************************)
(* ContentSync for TLC, and what the code's docs say that is not so.        *)
(***************************************************************************)
EXTENDS ContentSync, TLC

\* max_payload_count is "a maximum number of changes/payloads to export at once"
\* (exporters/content_metadata.py).  Fails: each catalog is truncated to the whole
\* maximum, whatever the catalogs before it have used up.
PayloadWithinMax == Count(job.items) <= MaxPayload

\* Orphans "were successfully sent to the integrated channel" (models.py).  Fails:
\* a failed creation has remote_created_at set and is taken for one.
OrphansWereSent ==
    [][\A x \in Contents : orphan[x] = "none" /\ orphan'[x] = "unresolved"
                              => remote[x] # Absent]_vars

\* Audits not linked to a catalog of the customer are marked as orphaned
\* (tasks.py).  Fails: get_or_create finds the resolved record of an earlier time.
OrphansAreMarked ==
    \A x \in Contents : Orphaned(x) ~> (orphan[x] = "unresolved" \/ ~Orphaned(x))

\* What is removed as an orphan lost its catalog (models.py).  Fails: nothing
\* takes the mark back when the catalog is linked again.
OrphansLostTheirCatalog ==
    [][job.pc = "export" /\ job'.pc = "delete" =>
          \A x \in DOMAIN job'.items["delete"] \ DOMAIN job.items["delete"] :
              audit[x].catalog \notin linked \/ x \notin offered[audit[x].catalog]]_vars

ContentSymmetry == Permutations(Contents)
=============================================================================
