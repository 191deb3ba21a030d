-------------------------- MODULE ContractContext --------------------------
(***************************************************************************)
(* The state one SyncManager consults before anything may be written to    *)
(* the server: the attached project, the login, the epochs that make late  *)
(* answers recognisable, the structure authority in force and the server   *)
(* state of the project last seen (sync_manager.py, handshake_lifecycle.py *)
(* and network_recovery.py).                                               *)
(*                                                                         *)
(* The UI thread attaches projects and signs in and out; worker threads    *)
(* find a login expired or renew it.  Every block under _contract_lock is  *)
(* one action.  What a thread read before a network call is compared after *)
(* it by value, through counters: a change that is undone meanwhile must   *)
(* still be noticed.                                                       *)
(***************************************************************************)
EXTENDS Naturals, FiniteSets

CONSTANTS
    Project, Account,
    Nothing,        \* no project, no account
    MaxChanges      \* bound on the events that come from the user, the login and the queue

ASSUME ContextAssumption ==
    Nothing \notin Project \cup Account /\ Nothing \notin Nat \X Nat /\ MaxChanges \in Nat

VARIABLES
    open,           \* the attached project
    generation,     \* _v2_context_generation
    login,          \* _auth_context_generation
    holder,         \* the account whose tokens the client holds
    authenticated,  \* _antigravity_authenticated
    restoring,      \* _antigravity_restore_pending
    authBlocked,    \* _auth_retry_blocked
    uiCall,         \* what the UI thread cannot be interrupted in
    epoch,          \* _contract_epoch
    authority,      \* _v2_structure_authority, and the identity it was chosen for
    writeEpoch,     \* _contract_write_epoch
    projectState,   \* project -> server_state
    stateSeenIn,    \* _contract_project_state_context
    changes         \* counts what MaxChanges bounds

attached == <<open, generation>>
session == <<holder, authenticated, restoring, authBlocked>>
decision == <<authority, writeEpoch>>
observed == <<projectState, stateSeenIn>>
contextVars == <<open, generation, login, holder, authenticated, restoring, authBlocked, uiCall,
                 epoch, authority, writeEpoch, projectState, stateSeenIn, changes>>

\* _contract_identity: the account of the token, while the client counts as logged in.
Identity == IF authenticated THEN holder ELSE Nothing

\* The ids that stand beside the generation in the code change only with it.
PullIdentity == <<generation, login>>                   \* _v2_pull_identity
ContextKey == <<generation, epoch, Identity>>           \* _contract_context_key
ProjectContext == <<PullIdentity, Identity>>            \* _contract_project_context

Restoring == restoring /\ ~authBlocked                  \* _session_restore_waiting

\* _structure_authority_allows_dispatch, asked of every write.
DispatchAllowed == authority.of = PullIdentity => authority.choice = "accepted"

\* _contract_authority_observation, asked of the contract path alone.
AuthorityAllows ==
    /\ authority = [choice |-> "accepted", of |-> PullIdentity]
    /\ open # Nothing /\ projectState[open] = "active" /\ stateSeenIn = ProjectContext

ContextInit ==
    /\ open = Nothing /\ generation = 0
    /\ holder \in Account \cup {Nothing} /\ login = 0
    /\ restoring \in BOOLEAN /\ authenticated = (holder # Nothing)
    /\ restoring => holder = Nothing
    /\ authBlocked = FALSE /\ uiCall = "none"
    /\ epoch = 0 /\ writeEpoch = 0
    /\ authority = [choice |-> "none", of |-> Nothing]
    /\ projectState = [p \in Project |-> "active"]
    /\ stateSeenIn = Nothing
    /\ changes = 0

-----------------------------------------------------------------------------
(* What the handlers share *)

Change == changes < MaxChanges /\ changes' = changes + 1

\* _forget_contract_handshake: whoever carries the old epoch is too late.
ForgetNothing == UNCHANGED epoch
Forget == epoch' = epoch + 1

Choose(choice) == authority' = [choice |-> choice, of |-> PullIdentity]

\* _begin_structure_authority_selection and its two ends.
BeginSelection == Choose("unknown") /\ writeEpoch' = writeEpoch + 1

Accept ==
    /\ Choose("accepted")
    /\ writeEpoch' = IF authority' = authority THEN writeEpoch ELSE writeEpoch + 1

Block == Choose("blocked") /\ writeEpoch' = writeEpoch + 1

\* _mark_auth_required: the login is over, whoever finds out.
MarkAuthRequired ==
    /\ authBlocked' = TRUE /\ authenticated' = FALSE
    /\ login' = login + 1
    /\ Forget
    /\ UNCHANGED <<holder, restoring>>

\* mark_project_server_state for the open project.
IsNews(state) == projectState[open] # state \/ stateSeenIn # ProjectContext
SeeState(state) ==
    projectState' = [projectState EXCEPT ![open] = state] /\ stateSeenIn' = ProjectContext

MarkState(state) ==
    /\ SeeState(state)
    /\ writeEpoch' = IF IsNews(state) THEN writeEpoch + 1 ELSE writeEpoch
    /\ UNCHANGED authority

-----------------------------------------------------------------------------
(* The project *)

\* configure_v2: every request in the air is of an earlier generation now.
Attach(p) ==
    /\ uiCall = "none"
    /\ IF generation = 0 THEN UNCHANGED changes ELSE Change
    /\ open' = p /\ generation' = generation + 1 /\ UNCHANGED login
    /\ Forget
    /\ authority' = [choice |-> "unknown", of |-> PullIdentity']
    /\ UNCHANGED <<session, uiCall, writeEpoch, observed>>

\* release_v2.
Release ==
    /\ uiCall = "none" /\ open # Nothing /\ Change
    /\ open' = Nothing /\ generation' = generation + 1
    /\ Forget
    /\ authority' = [choice |-> "none", of |-> Nothing]
    /\ UNCHANGED <<login, session, uiCall, writeEpoch, observed>>

-----------------------------------------------------------------------------
(* The login *)

\* sign_in and sign_out hold the UI thread while the server is asked; the other
\* threads go on.
LoginCallBegins(call) ==
    /\ uiCall = "none" /\ Change
    /\ uiCall' = call
    /\ authBlocked' = TRUE /\ login' = login + 1
    /\ restoring' = IF call = "sign_out" THEN FALSE ELSE restoring
    /\ Forget
    /\ UNCHANGED <<attached, holder, authenticated, decision, observed>>

SignInRefused ==
    /\ uiCall = "sign_in" /\ uiCall' = "none"
    /\ UNCHANGED <<attached, login, session, epoch, decision, observed, changes>>

SignedIn(a) ==
    /\ uiCall = "sign_in" /\ uiCall' = "none"
    /\ holder' = a /\ authenticated' = TRUE /\ restoring' = FALSE /\ authBlocked' = FALSE
    /\ Forget
    /\ IF open = Nothing THEN UNCHANGED decision ELSE BeginSelection
    /\ UNCHANGED <<attached, login, observed, changes>>

SignedOut ==
    /\ uiCall = "sign_out" /\ uiCall' = "none"
    /\ holder' = Nothing /\ authenticated' = FALSE /\ authBlocked' = TRUE
    /\ Forget
    /\ UNCHANGED <<attached, login, restoring, decision, observed, changes>>

\* A worker finds the session gone (ensure_session_valid, _call_with_session).
LoginExpires ==
    /\ ~restoring /\ Change
    /\ MarkAuthRequired
    /\ UNCHANGED <<attached, uiCall, decision, observed>>

\* A worker's renewal of the tokens it had at hand succeeds.
LoginRenewed ==
    /\ holder # Nothing /\ ~restoring /\ (authBlocked \/ ~authenticated) /\ Change
    /\ authenticated' = TRUE /\ authBlocked' = FALSE
    /\ UNCHANGED <<attached, login, holder, restoring, uiCall, epoch, decision, observed>>

\* request_session_recovery_async: the saved login is restored, or it is not.
SessionRestored(a) ==
    /\ uiCall = "none" /\ Restoring /\ Change
    /\ holder' = a /\ authenticated' = TRUE /\ restoring' = FALSE
    /\ login' = login + 1 /\ UNCHANGED attached
    /\ Forget
    /\ IF open = Nothing THEN UNCHANGED decision
       ELSE /\ authority' = [choice |-> "unknown", of |-> PullIdentity']
            /\ writeEpoch' = writeEpoch + 1
    /\ UNCHANGED <<authBlocked, uiCall, observed>>

SessionLost ==
    /\ uiCall = "none" /\ Restoring /\ Change
    /\ restoring' = FALSE
    /\ authBlocked' = TRUE /\ authenticated' = FALSE /\ login' = login + 1
    /\ Forget
    /\ UNCHANGED <<attached, holder, uiCall, decision, observed>>

\* A write of the ordinary queue is answered well, however old its login is:
\* _record_sync_success takes the login for valid again.
OrdinarySuccess ==
    /\ uiCall = "none" /\ authBlocked /\ Change
    /\ authBlocked' = FALSE
    /\ UNCHANGED <<attached, login, holder, authenticated, restoring, uiCall, epoch, decision, observed>>

LoginStep ==
    \/ \E call \in {"sign_in", "sign_out"} : LoginCallBegins(call)
    \/ SignInRefused \/ SignedOut \/ LoginExpires \/ LoginRenewed \/ SessionLost
    \/ \E a \in Account : SignedIn(a) \/ SessionRestored(a)

-----------------------------------------------------------------------------
(* Its values *)

IdentityOrNothing == (Nat \X Nat) \cup {Nothing}

CountersOK ==
    /\ open \in Project \cup {Nothing} /\ uiCall \in {"none", "sign_in", "sign_out", "pull"}
    /\ generation \in Nat /\ login \in Nat /\ epoch \in Nat /\ writeEpoch \in Nat
    /\ changes \in 0 .. MaxChanges

SessionOK ==
    /\ holder \in Account \cup {Nothing}
    /\ authenticated \in BOOLEAN /\ restoring \in BOOLEAN /\ authBlocked \in BOOLEAN
    /\ authenticated => holder # Nothing

DecisionOK ==
    /\ authority \in [choice : {"none", "unknown", "accepted", "blocked"}, of : IdentityOrNothing]
    /\ projectState \in [Project -> {"active", "trashed"}]
    /\ stateSeenIn \in ((Nat \X Nat) \X (Account \cup {Nothing})) \cup {Nothing}

ContextTypeOK == CountersOK /\ SessionOK /\ DecisionOK
=============================================================================
