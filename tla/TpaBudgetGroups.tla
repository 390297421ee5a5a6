--------------------------- MODULE TpaBudgetGroups ---------------------------
(***************************************************************************)
(* The budget group of a learner who signs in through SSO                     *)
(* (integrated_channel/pipeline.py, services/org_group_sync_service.py,       *)
(* services/tpa_org_id_service.py, api/v1/tpa_org_allowlist).  Every login    *)
(* moves the learner, in a transaction, into the group the allow-list maps    *)
(* the learner's org to.  The database reads what is committed and locks the  *)
(* rows it writes until the end of the transaction.                            *)
(***************************************************************************)
EXTENDS Naturals, FiniteSets

CONSTANTS
    TpaOrgs,           \* org ids of one enterprise customer
    TpaBudgets,        \* its groups of type "budget"
    TpaOtherGroups,    \* its other groups, and groups of other customers
    TpaNone,           \* no group, no org
    TpaLogins,         \* processes that serve logins
    TpaChanges         \* bound: changes that people make, and database errors

ASSUME TpaAssumption ==
    /\ TpaBudgets \cap TpaOtherGroups = {}
    /\ TpaNone \notin TpaOrgs \cup TpaBudgets \cup TpaOtherGroups
    /\ TpaChanges \in Nat

VARIABLES
    tpaOrg,            \* the org in the learner's social auth record
    tpaList,           \* TpaOrgAllowlist: the orgs with an entry
    tpaMap,            \* the enterprise_group_uuid of each entry
    tpaRemoved,        \* soft-deleted groups
    tpaMember,         \* the groups the learner has a membership in that is not removed
    tpaSynced,         \* those of them that a login has made
    tpaLogin,          \* the logins under way
    tpaChanges         \* how many of these there have been

tpaVars == <<tpaOrg, tpaList, tpaMap, tpaRemoved, tpaMember, tpaSynced, tpaLogin, tpaChanges>>

TpaGroups == TpaBudgets \cup TpaOtherGroups

\* group: the group to join; drop: the stale memberships that were found.
TpaIdle == [pc |-> "idle", group |-> TpaNone, drop |-> {}]

TpaTypeOK ==
    /\ tpaOrg \in TpaOrgs \cup {TpaNone} /\ tpaList \subseteq TpaOrgs
    /\ tpaMap \in [TpaOrgs -> TpaGroups \cup {TpaNone}]
    /\ tpaRemoved \subseteq TpaGroups /\ tpaMember \subseteq TpaGroups /\ tpaSynced \subseteq tpaMember
    /\ tpaLogin \in [TpaLogins -> [pc : {"idle", "group", "join", "stale", "drop", "commit"},
                                   group : TpaGroups \cup {TpaNone}, drop : SUBSET TpaGroups]]
    /\ tpaChanges \in 0 .. TpaChanges

TpaInit ==
    /\ tpaOrg = TpaNone /\ tpaList = {} /\ tpaMap = [o \in TpaOrgs |-> TpaNone]
    /\ tpaRemoved = {} /\ tpaMember = {} /\ tpaSynced = {}
    /\ tpaLogin = [p \in TpaLogins |-> TpaIdle]
    /\ tpaChanges = 0

-----------------------------------------------------------------------------
(* A login: sync_learner_budget_group *)

TpaSettings == <<tpaOrg, tpaList, tpaMap, tpaRemoved, tpaChanges>>

\* The rows of EnterpriseGroupMembership that a login has locked.
TpaLocked(p) ==
    CASE tpaLogin[p].pc \in {"stale", "drop"} -> {tpaLogin[p].group}
      [] tpaLogin[p].pc = "commit" -> {tpaLogin[p].group} \cup tpaLogin[p].drop
      [] OTHER -> {}
TpaLockedByOthers(p) == UNION {TpaLocked(q) : q \in TpaLogins \ {p}}

\* The entry of the learner's org, if it names a group; no entry ends the login's part here.
TpaLookUp(p) ==
    /\ tpaLogin[p].pc = "idle"
    /\ tpaOrg \in tpaList /\ tpaMap[tpaOrg] # TpaNone
    /\ tpaLogin' = [tpaLogin EXCEPT ![p] = [@ EXCEPT !.pc = "group", !.group = tpaMap[tpaOrg]]]
    /\ UNCHANGED <<TpaSettings, tpaMember, tpaSynced>>

\* available_objects, of this customer, of type budget.
TpaUsable(g) == g \in TpaBudgets \ tpaRemoved

TpaFindGroup(p) ==
    /\ tpaLogin[p].pc = "group"
    /\ tpaLogin' = [tpaLogin EXCEPT ![p] = IF TpaUsable(tpaLogin[p].group) THEN [@ EXCEPT !.pc = "join"] ELSE TpaIdle]
    /\ UNCHANGED <<TpaSettings, tpaMember, tpaSynced>>

\* update_or_create locks the row of this group, and waits for a login that has locked it.
TpaJoin(p) ==
    /\ tpaLogin[p].pc = "join" /\ tpaLogin[p].group \notin TpaLockedByOthers(p)
    /\ tpaLogin' = [tpaLogin EXCEPT ![p].pc = "stale"]
    /\ UNCHANGED <<TpaSettings, tpaMember, tpaSynced>>

TpaMapped == {tpaMap[o] : o \in tpaList} \ {TpaNone}

\* Fault: every other group of the learner's is stale.
TpaStale_All(g) == tpaMember \ {g}

\* Fault: nothing is ever stale.
TpaStale_None(g) == {}

\* _cleanup_stale_memberships: what is committed, of the groups that are mapped.
TpaStale(g) == tpaMember \cap (TpaMapped \ {g})

TpaFindStale(p) ==
    /\ tpaLogin[p].pc = "stale"
    /\ tpaLogin' = [tpaLogin EXCEPT ![p] = [@ EXCEPT !.pc = "drop", !.drop = TpaStale(tpaLogin[p].group)]]
    /\ UNCHANGED <<TpaSettings, tpaMember, tpaSynced>>

TpaDrop(p) ==
    /\ tpaLogin[p].pc = "drop" /\ tpaLogin[p].drop \cap TpaLockedByOthers(p) = {}
    /\ tpaLogin' = [tpaLogin EXCEPT ![p].pc = "commit"]
    /\ UNCHANGED <<TpaSettings, tpaMember, tpaSynced>>

TpaCommit(p) ==
    LET login == tpaLogin[p] IN
    /\ login.pc = "commit"
    /\ tpaMember' = (tpaMember \ login.drop) \cup {login.group}
    /\ tpaSynced' = (tpaSynced \ login.drop) \cup ({login.group} \ (tpaMember \ tpaSynced))
    /\ tpaLogin' = [tpaLogin EXCEPT ![p] = TpaIdle]
    /\ UNCHANGED TpaSettings

\* The database raises: all is rolled back, and the login goes on.
TpaRollBack(p) ==
    /\ tpaLogin[p].pc # "idle" /\ tpaChanges < TpaChanges
    /\ tpaLogin' = [tpaLogin EXCEPT ![p] = TpaIdle] /\ tpaChanges' = tpaChanges + 1
    /\ UNCHANGED <<tpaOrg, tpaList, tpaMap, tpaRemoved, tpaMember, tpaSynced>>

\* Each of two logins would drop the membership that the other has locked: the database
\* rolls one of them back, and the other has the lock it waits for.
TpaDeadlock(p, q) ==
    /\ p # q /\ tpaLogin[p].pc = "drop" /\ tpaLogin[q].pc = "drop"
    /\ tpaLogin[p].group \in tpaLogin[q].drop /\ tpaLogin[q].group \in tpaLogin[p].drop
    /\ tpaLogin' = [tpaLogin EXCEPT ![p] = TpaIdle, ![q].pc = "commit"]
    /\ UNCHANGED <<TpaSettings, tpaMember, tpaSynced>>

-----------------------------------------------------------------------------
(* People *)

TpaChange == tpaChanges < TpaChanges /\ tpaChanges' = tpaChanges + 1 /\ UNCHANGED tpaLogin

\* The learner signs in from another org: the social auth record is overwritten.
TpaMove(o) ==
    /\ TpaChange /\ tpaOrg # o /\ tpaOrg' = o
    /\ UNCHANGED <<tpaList, tpaMap, tpaRemoved, tpaMember, tpaSynced>>

\* TpaOrgAllowlistSerializer.validate.
TpaValid(g) == g = TpaNone \/ g \in TpaBudgets \ tpaRemoved

\* POST and PATCH.
TpaSetEntry(o, g) ==
    /\ TpaChange /\ TpaValid(g)
    /\ tpaList' = tpaList \cup {o} /\ tpaMap' = [tpaMap EXCEPT ![o] = g]
    /\ UNCHANGED <<tpaOrg, tpaRemoved, tpaMember, tpaSynced>>

TpaDeleteEntry(o) ==
    /\ TpaChange /\ o \in tpaList
    /\ tpaList' = tpaList \ {o} /\ tpaMap' = [tpaMap EXCEPT ![o] = TpaNone]
    /\ UNCHANGED <<tpaOrg, tpaRemoved, tpaMember, tpaSynced>>

\* An administrator soft-deletes a group.
TpaRemoveGroup(g) ==
    /\ TpaChange /\ tpaRemoved' = tpaRemoved \cup {g}
    /\ UNCHANGED <<tpaOrg, tpaList, tpaMap, tpaMember, tpaSynced>>

\* An administrator makes the learner a member of a group.
TpaAddMember(g) ==
    /\ TpaChange /\ g \notin tpaMember /\ tpaMember' = tpaMember \cup {g}
    /\ UNCHANGED <<tpaOrg, tpaList, tpaMap, tpaRemoved, tpaSynced>>

TpaStep(p) ==
    TpaLookUp(p) \/ TpaFindGroup(p) \/ TpaJoin(p) \/ TpaFindStale(p) \/ TpaDrop(p) \/ TpaCommit(p)

TpaNext ==
    \/ \E p \in TpaLogins : TpaStep(p) \/ TpaRollBack(p)
    \/ \E p, q \in TpaLogins : TpaDeadlock(p, q)
    \/ \E o \in TpaOrgs : TpaMove(o) \/ TpaDeleteEntry(o) \/ \E g \in TpaGroups \cup {TpaNone} : TpaSetEntry(o, g)
    \/ \E g \in TpaGroups : TpaRemoveGroup(g) \/ TpaAddMember(g)

TpaSpec == TpaInit /\ [][TpaNext]_tpaVars

\* The learner signs in again and again; the database ends a deadlock.
TpaFairness ==
    /\ \A p \in TpaLogins : WF_tpaVars(TpaStep(p))
    /\ WF_tpaVars(\E p, q \in TpaLogins : TpaDeadlock(p, q))

TpaFairSpec == TpaSpec /\ TpaFairness

-----------------------------------------------------------------------------
(* Properties *)

\* "never flex groups" (_cleanup_stale_memberships): no step of a login touches a
\* membership in a group that is not a budget of this customer.  It rests on the
\* serializer that lets no entry name such a group.
TpaOthersUntouched ==
    [][tpaLogin' # tpaLogin => tpaMember' \cap TpaOtherGroups = tpaMember \cap TpaOtherGroups]_tpaVars

\* When people make no more changes and the org's group can be used, the learner ends up in
\* that group and in no other group that the allow-list names, whichever logins met on the
\* way (sync_learner_budget_group).
TpaInSync ==
    <>[](tpaOrg \in tpaList /\ TpaUsable(tpaMap[tpaOrg]) => tpaMember \cap TpaMapped = {tpaMap[tpaOrg]})

\* "A learner should only be able to redeem from the budget matching the org they logged in
\* under": a login leaves the learner in no budget group of an earlier login's.  Fails:
\* an entry that is mapped to another group, or deleted, takes the old group out of those
\* that _cleanup_stale_memberships looks at.
TpaOneBudget ==
    [][\A p \in TpaLogins :
          tpaLogin[p].pc = "commit" /\ tpaMember' # tpaMember => tpaSynced' \subseteq {tpaLogin[p].group}]_tpaVars
=============================================================================
