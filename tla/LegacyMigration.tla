--------------------------- MODULE LegacyMigration ----------------------------
(***************************************************************************)
(* The move from the legacy integrated_channels application                   *)
(* (ic_migrate_data_from_legacy_app, ic_truncate_destination_tables): tables  *)
(* are copied one by one with INSERT IGNORE, under the ids they have, while   *)
(* both applications may go on writing.  Four tables of one channel; the     *)
(* audits point to their API record by a foreign key and to their             *)
(* configuration by a number.                                                 *)
(***************************************************************************)
EXTENDS Naturals, Sequences, FiniteSetsExt

CONSTANTS
    MigIds,            \* 1 .. n: the ids a table may give
    MigAbsent,         \* no row
    MigWrites,         \* bound: rows the applications write after the start
    MigTroubles        \* bound: statements that fail, commands that die

VARIABLES
    migOld,            \* the rows of the legacy tables
    migNew,            \* the rows of the destination tables
    migCopy,           \* the migration command: its tables still to do, ...
    migEmpty,          \* the truncation command: its tables still to empty
    migWrites,         \* rows written so far
    migTroubles        \* troubles so far

migVars == <<migOld, migNew, migCopy, migEmpty, migWrites, migTroubles>>

MigTables == {"content", "record", "config", "learner"}
MigAudits == {"content", "learner"}
MigRow == [of : {"legacy", "new"}, record : MigIds \cup {0}, config : MigIds \cup {0}]

ASSUME MigAssumption ==
    /\ IsFiniteSet(MigIds) /\ MigIds = 1 .. Cardinality(MigIds) /\ MigIds # {} /\ MigAbsent \notin MigRow
    /\ MigWrites \in Nat /\ MigTroubles \in Nat

\* runs: how many runs of every table went without trouble since the legacy application
\* last wrote a row and since the last truncation, whatever other runs came between them.
MigTypeOK ==
    /\ migOld \in [MigTables -> [MigIds -> MigRow \cup {MigAbsent}]]
    /\ migNew \in [MigTables -> [MigIds -> MigRow \cup {MigAbsent}]]
    /\ migCopy \in [pc : {"idle", "copy"}, todo : SUBSET MigTables, full : BOOLEAN, runs : 0 .. 2]
    /\ migEmpty \subseteq MigTables
    /\ migWrites \in 0 .. MigWrites
    /\ migTroubles \in 0 .. MigTroubles

MigRows(tables, t) == {id \in MigIds : tables[t][id] # MigAbsent}

MigNothing == [t \in MigTables |-> [id \in MigIds |-> MigAbsent]]

\* get_model_mapping: content audits come before the records, learner audits after the
\* configuration of their channel.
MigOrder == <<"content", "record", "config", "learner">>

MigBefore(t, u) == \E i, j \in DOMAIN MigOrder : i < j /\ MigOrder[i] = t /\ MigOrder[j] = u

\* No audit has the record: api_record is one to one.
MigFree(tables, t, id) == \A other \in MigRows(tables, t) : tables[t][other].record # id

\* The rows an application may write: an audit of a free record or of none.
MigMayWrite(tables, t, row) ==
    IF t \in MigAudits
    THEN /\ row.record # 0 => row.record \in MigRows(tables, "record") /\ MigFree(tables, t, row.record)
         /\ row.config \in MigRows(tables, "config")
    ELSE row.record = 0 /\ row.config = 0

\* The legacy tables hold rows already: one record, one configuration and an audit of
\* each kind, the content's with the record.
MigInit ==
    LET row(record, config) == [of |-> "legacy", record |-> record, config |-> config]
        first(r) == [id \in MigIds |-> IF id = 1 THEN r ELSE MigAbsent]
    IN  /\ migOld = [t \in MigTables |-> first(CASE t = "content" -> row(1, 1)
                                                 [] t = "learner" -> row(0, 1)
                                                 [] OTHER -> row(0, 0))]
        /\ migNew = MigNothing
        /\ migCopy = [pc |-> "idle", todo |-> {}, full |-> FALSE, runs |-> 0]
        /\ migEmpty = {} /\ migWrites = 0 /\ migTroubles = 0

-----------------------------------------------------------------------------
(* The applications write: the next id of a table follows its greatest *)

MigNextId(tables, t) == IF MigRows(tables, t) = {} THEN 1 ELSE Max(MigRows(tables, t)) + 1

MigRoom(tables, t) == MigNextId(tables, t) \in MigIds

MigAdded(tables, t, row) == [tables EXCEPT ![t][MigNextId(tables, t)] = row]

MigWrite(t, row) ==
    /\ migWrites < MigWrites
    /\ IF row.of = "legacy"
       THEN /\ MigMayWrite(migOld, t, row) /\ MigRoom(migOld, t)
            /\ migOld' = MigAdded(migOld, t, row) /\ UNCHANGED migNew
       ELSE /\ MigMayWrite(migNew, t, row) /\ MigRoom(migNew, t)
            /\ migNew' = MigAdded(migNew, t, row) /\ UNCHANGED migOld
    /\ migWrites' = migWrites + 1
    /\ migCopy' = IF row.of = "legacy" THEN [migCopy EXCEPT !.full = FALSE, !.runs = 0] ELSE migCopy
    /\ UNCHANGED <<migEmpty, migTroubles>>

\* An answer arrives: the audit gets its record.
MigAnswer(t, id, record) ==
    /\ t \in MigAudits /\ id \in MigRows(migOld, t) /\ migOld[t][id].record = 0
    /\ MigMayWrite(migOld, t, [migOld[t][id] EXCEPT !.record = record])
    /\ migOld' = [migOld EXCEPT ![t][id].record = record]
    /\ UNCHANGED <<migNew, migCopy, migEmpty, migWrites, migTroubles>>

-----------------------------------------------------------------------------
(* ic_migrate_data_from_legacy_app *)

\* Fault: a table that has rows is taken for migrated.
MigChosen_Empty(chosen) == {t \in chosen : MigRows(migNew, t) = {}}

\* --only-models, --skip-models, --config-only and --logs-only choose among the tables.
MigChosen(chosen) == chosen

MigStart(chosen) ==
    /\ migCopy.pc = "idle" /\ migEmpty = {}
    /\ migCopy' = [migCopy EXCEPT !.pc = "copy", !.todo = MigChosen(chosen), !.full = chosen = MigTables]
    /\ UNCHANGED <<migOld, migNew, migEmpty, migWrites, migTroubles>>

\* INSERT IGNORE leaves out a row with a taken id, with a record another audit has, or
\* with a record that is not there.
MigTakes(t, id) ==
    /\ id \in MigRows(migOld, t) \ MigRows(migNew, t)
    /\ LET record == migOld[t][id].record IN
       record # 0 => record \in MigRows(migNew, "record") /\ MigFree(migNew, t, record)

\* migrate_model_data of the next table.
MigCopyTable(t) ==
    /\ migCopy.pc = "copy" /\ t \in migCopy.todo /\ ~\E u \in migCopy.todo : MigBefore(u, t)
    /\ migNew' = [migNew EXCEPT ![t] = [id \in MigIds |-> IF MigTakes(t, id) THEN migOld[t][id] ELSE @[id]]]
    /\ migCopy' = [migCopy EXCEPT !.todo = @ \ {t}]
    /\ UNCHANGED <<migOld, migEmpty, migWrites, migTroubles>>

MigTrouble == migTroubles < MigTroubles /\ migTroubles' = migTroubles + 1

\* The statement fails: --continue-on-error goes on with the next table.
MigTableFails(t, goOn) ==
    /\ migCopy.pc = "copy" /\ t \in migCopy.todo /\ ~\E u \in migCopy.todo : MigBefore(u, t)
    /\ MigTrouble
    /\ migCopy' = [migCopy EXCEPT !.todo = IF goOn THEN @ \ {t} ELSE {}, !.full = FALSE]
    /\ UNCHANGED <<migOld, migNew, migEmpty, migWrites>>

MigDone ==
    /\ migCopy.pc = "copy" /\ migCopy.todo = {}
    /\ migCopy' = [pc |-> "idle", todo |-> {}, full |-> FALSE,
                   runs |-> IF migCopy.full THEN IF migCopy.runs = 0 THEN 1 ELSE 2 ELSE migCopy.runs]
    /\ UNCHANGED <<migOld, migNew, migEmpty, migWrites, migTroubles>>

-----------------------------------------------------------------------------
(* ic_truncate_destination_tables: the tables that had rows when it counted *)

MigTruncateStart(chosen) ==
    /\ migCopy.pc = "idle" /\ migEmpty = {}
    /\ migEmpty' = {t \in chosen : MigRows(migNew, t) # {}}
    /\ migEmpty' # {}
    /\ migCopy' = [migCopy EXCEPT !.runs = 0]
    /\ UNCHANGED <<migOld, migNew, migWrites, migTroubles>>

\* FOREIGN_KEY_CHECKS is 0 for the connection.
MigTruncate(t) ==
    /\ t \in migEmpty
    /\ migNew' = [migNew EXCEPT ![t] = MigNothing[t]]
    /\ migEmpty' = migEmpty \ {t}
    /\ UNCHANGED <<migOld, migCopy, migWrites, migTroubles>>

MigTruncateFails(t) ==
    /\ t \in migEmpty /\ MigTrouble
    /\ migEmpty' = migEmpty \ {t}
    /\ UNCHANGED <<migOld, migNew, migCopy, migWrites>>

MigNext ==
    \/ MigDone
    \/ \E chosen \in SUBSET MigTables : MigStart(chosen) \/ MigTruncateStart(chosen)
    \/ \E t \in MigTables :
          \/ MigCopyTable(t) \/ MigTruncate(t) \/ MigTruncateFails(t)
          \/ \E goOn \in BOOLEAN : MigTableFails(t, goOn)
          \/ \E row \in MigRow : MigWrite(t, row)
          \/ \E id, record \in MigIds : MigAnswer(t, id, record)

MigSpec == MigInit /\ [][MigNext]_migVars

-----------------------------------------------------------------------------
(* Properties *)

MigComplete == \A t \in MigTables : MigRows(migOld, t) \subseteq MigRows(migNew, t)

\* The new application has written no row of its own into the destination tables.
MigLegacyOnly == \A t \in MigTables : \A id \in MigRows(migNew, t) : migNew[t][id].of = "legacy"

\* A migration may be repeated (migrate_model_data, INSERT IGNORE).  Two runs of every table
\* without a failure leave no legacy row behind, whatever runs of some tables, failures and
\* truncations came before the first of them, whatever other runs were stopped or failed between
\* the two, and whatever records the legacy audits got meanwhile, unless the new application has
\* rows of its own; and only a truncation takes away or changes a row of the new application.
MigrationIsRepeatable ==
    [][/\ migCopy'.runs = 2 /\ MigLegacyOnly' => MigComplete'
       /\ migEmpty' = migEmpty =>
             \A t \in MigTables : \A id \in MigRows(migNew, t) : migNew'[t][id] = migNew[t][id]]_migVars

\* "Uses optimized bulk operations to copy entire tables between apps" (Command): one run
\* of every table leaves no legacy row behind.  Fails: the content audits are copied before
\* the records they point to, and INSERT IGNORE drops every one that has a record.
FirstRunCompletes == migCopy.runs >= 1 /\ MigLegacyOnly => MigComplete

\* An audit that was copied has the record and the configuration it had.  Fails: the new
\* application has given the ids to rows of its own.
MigratedPointToTheirOwn ==
    \A t \in MigAudits : \A id \in MigRows(migNew, t) :
        migNew[t][id].of = "legacy" =>
            /\ migNew[t][id].record \in MigRows(migNew, "record") =>
                  migNew["record"][migNew[t][id].record].of = "legacy"
            /\ migNew[t][id].config \in MigRows(migNew, "config") =>
                  migNew["config"][migNew[t][id].config].of = "legacy"

\* Audits point to records that are there.  Fails: --only-models empties the records alone.
MigRecordsExist ==
    \A t \in MigAudits : \A id \in MigRows(migNew, t) :
        migNew[t][id].record \in MigRows(migNew, "record") \cup {0}

\* A second run brings what the legacy application changed.  Fails: the id is taken.
MigratedAgrees ==
    [][MigDone /\ migCopy.full /\ migCopy.runs > 0 =>
          \A t \in MigTables : \A id \in MigRows(migOld, t) : migNew[t][id] = migOld[t][id]]_migVars
=============================================================================
