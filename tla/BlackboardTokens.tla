--------------------------- MODULE BlackboardTokens ---------------------------
(***************************************************************************)
(* The refresh token in a Blackboard configuration (blackboard/client.py       *)
(* _get_oauth_access_token, blackboard/views.py, api/v1/blackboard).           *)
(* Blackboard takes one refresh token, and every use of it brings a new one.   *)
(* Workers use it under the lock of the configuration's row; the OAuth view    *)
(* and the editors of the configuration save the row as a whole, without it.   *)
(***************************************************************************)
EXTENDS Naturals, FiniteSets

CONSTANTS
    BbTokenWorkers,    \* clients of tasks of one configuration
    BbTokenViews,      \* requests to the OAuth view
    BbTokenEditors,    \* requests of the REST API or the admin that edit the configuration
    BbTokenNone,       \* no worker holds the lock
    BbTokens,          \* bound: refresh tokens that Blackboard has given out
    BbTokenEdits       \* bound: edits

ASSUME BbTokenAssumption ==
    /\ BbTokenWorkers \cap (BbTokenViews \cup BbTokenEditors) = {} /\ BbTokenNone \notin BbTokenWorkers
    /\ BbTokens \in Nat /\ BbTokenEdits \in Nat

VARIABLES
    bbTokenRow,        \* the configuration: its refresh token (0: none) and whether it is active
    bbTokenLock,       \* the worker that has the row locked
    bbTokenValid,      \* the refresh token that Blackboard takes
    bbTokenActor,      \* each request: where it is, the row or the token it holds
    bbTokenEdits       \* how many edits there have been

bbTokenVars == <<bbTokenRow, bbTokenLock, bbTokenValid, bbTokenActor, bbTokenEdits>>

BbTokenActors == BbTokenWorkers \cup BbTokenViews \cup BbTokenEditors
BbTokenRow == [token : 0 .. BbTokens, active : BOOLEAN]

BbTokenTypeOK ==
    /\ bbTokenRow \in BbTokenRow /\ bbTokenLock \in BbTokenWorkers \cup {BbTokenNone}
    /\ bbTokenValid \in 0 .. BbTokens /\ bbTokenEdits \in 0 .. BbTokenEdits
    /\ bbTokenActor \in [BbTokenActors -> [pc : {"idle", "ask", "save"}, row : BbTokenRow]]

BbTokenBlank == [token |-> 0, active |-> TRUE]

BbTokenInit ==
    /\ bbTokenRow = BbTokenBlank /\ bbTokenLock = BbTokenNone /\ bbTokenValid = 0
    /\ bbTokenActor = [a \in BbTokenActors |-> [pc |-> "idle", row |-> BbTokenBlank]]
    /\ bbTokenEdits = 0

BbTokenGoes(a, pc, row) == bbTokenActor' = [bbTokenActor EXCEPT ![a] = [pc |-> pc, row |-> row]]

-----------------------------------------------------------------------------
(* A worker needs an access token: _get_oauth_access_token *)

\* Fault: the row is read without a lock.
BbTokenRead_Unlocked(w) ==
    /\ bbTokenActor[w].pc = "idle" /\ bbTokenRow.token # 0
    /\ BbTokenGoes(w, "ask", bbTokenRow)
    /\ UNCHANGED <<bbTokenRow, bbTokenLock, bbTokenValid, bbTokenEdits>>

\* select_for_update: the row as it is now, locked.  No token in it is a ClientError.
BbTokenRead(w) ==
    /\ bbTokenActor[w].pc = "idle" /\ bbTokenLock = BbTokenNone /\ bbTokenRow.token # 0
    /\ bbTokenLock' = w
    /\ BbTokenGoes(w, "ask", bbTokenRow)
    /\ UNCHANGED <<bbTokenRow, bbTokenValid, bbTokenEdits>>

\* Blackboard takes the token and gives out the next one.
BbTokenRotate(w) ==
    /\ bbTokenActor[w].pc = "ask" /\ bbTokenActor[w].row.token = bbTokenValid /\ bbTokenValid < BbTokens
    /\ bbTokenValid' = bbTokenValid + 1
    /\ BbTokenGoes(w, "save", [bbTokenActor[w].row EXCEPT !.token = bbTokenValid + 1])
    /\ UNCHANGED <<bbTokenRow, bbTokenLock, bbTokenEdits>>

BbTokenUnlock(w) == bbTokenLock' = IF bbTokenLock = w THEN BbTokenNone ELSE bbTokenLock

\* channel_config.save(), and the end of the transaction.
BbTokenSave(w) ==
    /\ bbTokenActor[w].pc = "save"
    /\ bbTokenRow' = bbTokenActor[w].row
    /\ BbTokenUnlock(w) /\ BbTokenGoes(w, "idle", BbTokenBlank)
    /\ UNCHANGED <<bbTokenValid, bbTokenEdits>>

\* Blackboard refuses the token, or the request fails on its way there.
BbTokenRefused(w) ==
    /\ bbTokenActor[w].pc = "ask"
    /\ BbTokenUnlock(w) /\ BbTokenGoes(w, "idle", BbTokenBlank)
    /\ UNCHANGED <<bbTokenRow, bbTokenValid, bbTokenEdits>>

\* The worker dies, the answer is lost, or it lacks access_token or expires_in: the
\* exception rolls the save back, and the new token is lost.  The same for the OAuth view:
\* log_auth_response raises a KeyError for an answer without token_type or expires_in,
\* and an error page is shown though Blackboard has given out the token.
BbTokenLost(a) ==
    /\ bbTokenActor[a].pc = "save"
    /\ BbTokenUnlock(a) /\ BbTokenGoes(a, "idle", BbTokenBlank)
    /\ UNCHANGED <<bbTokenRow, bbTokenValid, bbTokenEdits>>

-----------------------------------------------------------------------------
(* Requests that save the whole row *)

BbTokenOverwrite(a) ==
    /\ bbTokenActor[a].pc = "save" /\ bbTokenLock = BbTokenNone
    /\ bbTokenRow' = bbTokenActor[a].row
    /\ BbTokenGoes(a, "idle", BbTokenBlank)
    /\ UNCHANGED <<bbTokenLock, bbTokenValid, bbTokenEdits>>

\* BlackboardCompleteOAuthView: the configuration is found ...
BbTokenComplete(v) ==
    /\ bbTokenActor[v].pc = "idle" /\ bbTokenValid < BbTokens
    /\ BbTokenGoes(v, "ask", bbTokenRow)
    /\ UNCHANGED <<bbTokenRow, bbTokenLock, bbTokenValid, bbTokenEdits>>

\* ... the code is exchanged for a refresh token ...
BbTokenExchange(v) ==
    /\ bbTokenActor[v].pc = "ask" /\ bbTokenValid < BbTokens
    /\ bbTokenValid' = bbTokenValid + 1
    /\ BbTokenGoes(v, "save", [bbTokenActor[v].row EXCEPT !.token = bbTokenValid + 1])
    /\ UNCHANGED <<bbTokenRow, bbTokenLock, bbTokenEdits>>

\* ... or an error page is shown, for there is none in the answer, or no answer; and then
\* the configuration is saved, or the token is lost (BbTokenLost).
BbTokenError(v) ==
    /\ bbTokenActor[v].pc = "ask"
    /\ BbTokenGoes(v, "idle", BbTokenBlank)
    /\ UNCHANGED <<bbTokenRow, bbTokenLock, bbTokenValid, bbTokenEdits>>

\* A PATCH or the admin's form reads the configuration and saves it, switched on or off.
BbTokenEdit(e) ==
    /\ bbTokenActor[e].pc = "idle" /\ bbTokenEdits < BbTokenEdits
    /\ bbTokenEdits' = bbTokenEdits + 1
    /\ BbTokenGoes(e, "save", [bbTokenRow EXCEPT !.active = ~@])
    /\ UNCHANGED <<bbTokenRow, bbTokenLock, bbTokenValid>>

BbTokenNext ==
    \/ \E w \in BbTokenWorkers :
          BbTokenRead(w) \/ BbTokenRotate(w) \/ BbTokenSave(w) \/ BbTokenRefused(w)
    \/ \E v \in BbTokenViews : BbTokenComplete(v) \/ BbTokenExchange(v) \/ BbTokenError(v)
    \/ \E e \in BbTokenEditors : BbTokenEdit(e)
    \/ \E a \in BbTokenWorkers \cup BbTokenViews : BbTokenLost(a)
    \/ \E a \in BbTokenViews \cup BbTokenEditors : BbTokenOverwrite(a)

BbTokenSpec == BbTokenInit /\ [][BbTokenNext]_bbTokenVars

-----------------------------------------------------------------------------
(* Properties *)

\* Somebody still has the token that Blackboard takes: the row, or the one who got it last.
BbConnected ==
    bbTokenValid \in {bbTokenRow.token} \cup {bbTokenActor[a].row.token :
        a \in {b \in BbTokenWorkers \cup BbTokenViews : bbTokenActor[b].pc = "save"}}

\* A request that will save a token that is not the row's.
BbTokenStale(a) == bbTokenActor[a].pc = "save" /\ bbTokenActor[a].row.token # bbTokenRow.token

\* "so that multiple sessions such as this don't interfere with each other's Blackboard
\* refresh token state" (_get_oauth_access_token): a worker that is about to use a token has
\* the one Blackboard takes, unless the connection was lost or somebody has authorized anew;
\* and the connection is lost only with the newest token itself, by the worker or the OAuth
\* view that got it and did not save it, or by a view's or an editor's save over a token
\* that was refreshed meanwhile: workers that take turns never lose it to each other.
BbTokensTakeTurns ==
    [][/\ \A w \in BbTokenWorkers :
             bbTokenActor'[w].pc = "ask" /\ bbTokenRow'.token = bbTokenValid'
                 => bbTokenActor'[w].row.token = bbTokenValid'
       /\ BbConnected /\ ~BbConnected'
             => \/ \E a \in BbTokenWorkers \cup BbTokenViews :
                       BbTokenLost(a) /\ bbTokenActor[a].row.token = bbTokenValid
                \/ \E a \in BbTokenViews \cup BbTokenEditors :
                       BbTokenStale(a) /\ BbTokenOverwrite(a)]_bbTokenVars

\* An edit of the configuration leaves the connection alone.  Fails: the editor's save waits
\* for the worker that refreshes the token, and then puts the used token back.
BbEditKeepsToken ==
    [][\A e \in BbTokenEditors :
          BbConnected /\ bbTokenActor[e].pc = "save" /\ bbTokenActor'[e].pc = "idle" => BbConnected']_bbTokenVars

\* Who switches a configuration off has it off.  Fails: the OAuth view saves the
\* configuration as it was before the code was exchanged.
BbSwitchedOffStays ==
    [][\A v \in BbTokenViews :
          bbTokenActor[v].pc = "save" /\ bbTokenActor'[v].pc = "idle"
              => bbTokenRow'.active = bbTokenRow.active]_bbTokenVars
=============================================================================
