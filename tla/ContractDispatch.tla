-------------------------- MODULE ContractDispatch --------------------------
(***************************************************************************)
(* How a structure batch of the contract path leaves: the handshake that   *)
(* says whether the server supports the path, and the worker that sends    *)
(* one batch (handshake_lifecycle.py), which reads the session and the     *)
(* project status on the way and checks before and after each call that    *)
(* what it captured at its start still holds.                              *)
(*                                                                         *)
(* The pull that chooses the structure authority appears by its decisions  *)
(* alone; PullCoordination says when it takes them.  Answers of the server *)
(* are any it may give.                                                    *)
(***************************************************************************)
EXTENDS ContractContext

VARIABLES
    reading,        \* _contract_handshake
    tried,          \* _contract_handshake_attempt
    probe,          \* _contract_handshake_inflight: the handshake on its way
    pathEnabled,    \* project -> contract_path_enabled
    blockedOps,     \* project -> some operation is blocked or in conflict
    queueStamp,     \* project -> contract_queue_authority_stamp
    asked,          \* the reading of the project status on its way
    sender          \* the V2StructureBatchWorker

handshake == <<reading, tried, probe>>
queueState == <<pathEnabled, blockedOps, queueStamp>>
dispatchVars == <<contextVars, reading, tried, probe, pathEnabled, blockedOps, queueStamp, asked, sender>>

DispatchInit ==
    /\ ContextInit
    /\ reading = Nothing /\ tried = Nothing /\ probe = Nothing
    /\ pathEnabled = [p \in Project |-> FALSE]
    /\ blockedOps = [p \in Project |-> FALSE]
    /\ queueStamp = [p \in Project |-> 0]
    /\ asked = Nothing /\ sender = Nothing

\* _contract_handshake_reading: only while it describes what is open now.
Fresh == reading # Nothing /\ open # Nothing /\ Identity # Nothing /\ reading.key = ContextKey

\* _uses_contract_structure: the local gate and a supported reading.
UsesContract == open # Nothing /\ pathEnabled[open] /\ Fresh /\ reading.supported

QueueIsFree(s) == ~blockedOps[open]
QueueUndisturbed(s) == ~blockedOps[open] /\ s.stamp = queueStamp[open]

\* _check_contract_dispatch, of what a worker captured.
MayDispatch(s) ==
    /\ s.key = ContextKey /\ Identity # Nothing /\ ~authBlocked
    /\ s.write = writeEpoch
    /\ AuthorityAllows /\ UsesContract
    /\ QueueUndisturbed(s)

-----------------------------------------------------------------------------
(* What a change elsewhere does to the reading and to the sender *)

\* Each new epoch is a _forget_contract_handshake.
ForgetWhenTold ==
    IF epoch' = epoch THEN UNCHANGED <<reading, tried>> ELSE reading' = Nothing /\ tried' = Nothing

\* What has to hold all the time from the launch of a sender to its request: its
\* project is open and active, its account is logged in, the structure authority
\* is chosen, the local gate is open and nothing of the queue is blocked.
Authorized(s) ==
    /\ open = s.project /\ generation = s.key[1]
    /\ Identity = s.key[3] /\ ~authBlocked
    /\ AuthorityAllows
    /\ pathEnabled[s.project] /\ ~blockedOps[s.project]

OnItsWay(s) == s.stage \in {"launched", "session", "status", "checked"}

Watch ==                    \* history: has the authorization lapsed on the way
    \E s \in {sender} :
        sender' = IF s # Nothing /\ OnItsWay(s)
                  THEN [s EXCEPT !.lapsed = @ \/ ~Authorized(s)'] ELSE s

Around == ForgetWhenTold /\ UNCHANGED <<probe, queueState, asked>> /\ Watch

ProjectEvent == (\E p \in Project : Attach(p)) \/ Release
LoginEvent == LoginStep \/ OrdinarySuccess

\* The pull begins, and decides, on the UI thread.
PullBegins ==
    /\ uiCall = "none" /\ open # Nothing /\ ~authBlocked /\ ~restoring /\ Change
    /\ BeginSelection
    /\ UNCHANGED <<attached, login, session, uiCall, epoch, observed>>

PullDecides ==
    /\ uiCall = "none" /\ authority = [choice |-> "unknown", of |-> PullIdentity]
    /\ Accept \/ Block
    /\ UNCHANGED <<attached, login, session, uiCall, epoch, observed, changes>>

Elsewhere == (ProjectEvent \/ LoginEvent \/ PullBegins \/ PullDecides) /\ Around

-----------------------------------------------------------------------------
(* The handshake *)

\* perform_contract_handshake takes the slot; unasked, once for each key.
BeginHandshake(automatic) ==
    /\ open # Nothing /\ Identity # Nothing /\ probe = Nothing
    /\ IF automatic THEN ~authBlocked /\ tried # ContextKey /\ UNCHANGED changes ELSE Change
    /\ probe' = [key |-> ContextKey, as |-> Nothing]
    /\ reading' = Nothing
    /\ UNCHANGED <<attached, login, session, uiCall, epoch, decision, observed, tried, queueState, asked>>
    /\ Watch

AskHandshake ==
    /\ probe # Nothing /\ probe.as = Nothing /\ holder # Nothing
    /\ probe' = [probe EXCEPT !.as = <<holder, login>>]
    /\ UNCHANGED <<contextVars, reading, tried, queueState, asked, sender>>

\* The answer is kept if nothing has changed since the slot was taken.
Publish(key) == key = ContextKey

HandshakeAnswered(supported) ==
    /\ probe # Nothing /\ probe.as # Nothing
    /\ probe' = Nothing
    /\ IF Publish(probe.key)
       THEN reading' = [key |-> probe.key, as |-> probe.as, supported |-> supported] /\ tried' = probe.key
       ELSE UNCHANGED <<reading, tried>>
    /\ UNCHANGED <<contextVars, queueState, asked>>
    /\ Watch

HandshakeFails(transient) ==
    /\ probe # Nothing
    /\ probe' = Nothing
    /\ tried' = IF ~Publish(probe.key) THEN tried ELSE IF transient THEN Nothing ELSE probe.key
    /\ UNCHANGED <<contextVars, reading, queueState, asked, sender>>

\* It fails because the login is over.
HandshakeUnauthorized ==
    /\ probe # Nothing /\ Publish(probe.key) /\ Change
    /\ probe' = Nothing
    /\ MarkAuthRequired
    /\ ForgetWhenTold
    /\ UNCHANGED <<attached, uiCall, decision, observed, queueState, asked>>
    /\ Watch

-----------------------------------------------------------------------------
(* The local gate, the queue and the project status *)

\* enable_contract_path, after a handshake of its own.
EnablePath ==
    /\ Fresh /\ reading.supported
    /\ pathEnabled' = [pathEnabled EXCEPT ![open] = TRUE]
    /\ UNCHANGED <<contextVars, handshake, blockedOps, queueStamp, asked>>
    /\ Watch

DisablePath ==
    /\ open # Nothing /\ pathEnabled[open] /\ Change
    /\ pathEnabled' = [pathEnabled EXCEPT ![open] = FALSE]
    /\ Forget /\ ForgetWhenTold
    /\ UNCHANGED <<attached, login, session, uiCall, decision, observed, probe, blockedOps, queueStamp, asked>>
    /\ Watch

\* An operation enters or leaves "blocked" or "conflict": one more event.
QueueBlocks(p) ==
    /\ IF blockedOps[p] THEN UNCHANGED changes ELSE Change
    /\ blockedOps' = [blockedOps EXCEPT ![p] = ~@]
    /\ queueStamp' = [queueStamp EXCEPT ![p] = @ + 1]
    /\ UNCHANGED <<attached, login, session, uiCall, epoch, decision, observed, handshake, pathEnabled, asked>>
    /\ Watch

\* _fetch_v2_project_status, by another worker.
AskStatus ==
    /\ open # Nothing /\ ~authBlocked /\ Identity # Nothing /\ asked = Nothing
    /\ asked' = [context |-> ProjectContext, write |-> writeEpoch]
    /\ UNCHANGED <<contextVars, handshake, queueState, sender>>

StatusAnswered(state) ==
    /\ asked # Nothing /\ asked' = Nothing
    /\ IF asked.context = ProjectContext /\ asked.write = writeEpoch
       THEN /\ MarkState(state)
            /\ IF state = projectState[open] THEN UNCHANGED changes ELSE Change
       ELSE UNCHANGED <<decision, observed, changes>>
    /\ UNCHANGED <<attached, login, session, uiCall, epoch, handshake, queueState>>
    /\ Watch

-----------------------------------------------------------------------------
(* The sender *)

Captured == [key |-> ContextKey, write |-> writeEpoch, stamp |-> queueStamp[open],
             project |-> open, stage |-> "launched", lapsed |-> FALSE]

\* _launch_contract_structure_batch, from retry_pending_syncs.
Launch ==
    /\ uiCall = "none" /\ sender = Nothing
    /\ open # Nothing /\ MayDispatch(Captured)
    /\ sender' = Captured
    /\ UNCHANGED <<contextVars, handshake, queueState, asked>>

\* Each call of _check_contract_dispatch that the worker passes; the last one
\* reserves the batch for sending (_contract_sending).
StageAfter(stage) ==
    CASE stage = "launched" -> "session" [] stage = "session" -> "status"
      [] stage = "status" -> "checked"   [] stage = "checked" -> "http"

Passes ==
    /\ sender # Nothing /\ OnItsWay(sender) /\ MayDispatch(sender)
    /\ sender' = [sender EXCEPT !.stage = StageAfter(@)]
    /\ UNCHANGED <<contextVars, handshake, queueState, asked>>

\* get_project_status says the project is in the trash.
FindsTrashed ==
    /\ sender # Nothing /\ sender.stage = "status" /\ MayDispatch(sender)
    /\ MarkState("trashed")
    /\ sender' = Nothing
    /\ UNCHANGED <<attached, login, session, uiCall, epoch, handshake, queueState, asked, changes>>

Paused ==                                               \* ContractDispatchPaused
    /\ sender # Nothing /\ OnItsWay(sender) /\ ~MayDispatch(sender)
    /\ sender' = Nothing
    /\ UNCHANGED <<contextVars, handshake, queueState, asked>>

\* A call fails, or the batch is answered; some answers overtake the handshake
\* (_forget_stale_contract_handshake), if it is still the one that was captured.
SenderEnds(overtakes) ==
    /\ sender # Nothing /\ sender.stage \in {"session", "status", "http"}
    /\ sender' = Nothing
    /\ IF overtakes THEN sender.key = ContextKey /\ Change /\ Forget
                    ELSE ForgetNothing /\ UNCHANGED changes
    /\ ForgetWhenTold
    /\ UNCHANGED <<attached, login, session, uiCall, decision, observed, probe, queueState, asked>>

DispatchNext ==
    \/ Elsewhere
    \/ \E automatic \in BOOLEAN : BeginHandshake(automatic)
    \/ AskHandshake
    \/ \E supported \in BOOLEAN : HandshakeAnswered(supported)
    \/ \E transient \in BOOLEAN : HandshakeFails(transient)
    \/ HandshakeUnauthorized
    \/ EnablePath \/ DisablePath
    \/ \E p \in Project : QueueBlocks(p)
    \/ AskStatus \/ \E state \in {"active", "trashed"} : StatusAnswered(state)
    \/ Launch \/ Passes \/ FindsTrashed \/ Paused
    \/ \E overtakes \in BOOLEAN : SenderEnds(overtakes)

DispatchSpec == DispatchInit /\ [][DispatchNext]_dispatchVars

-----------------------------------------------------------------------------
(* Properties *)

Keys == Nat \X Nat \X (Account \cup {Nothing})
Logins == (Account \X Nat) \cup {Nothing}

HandshakeOK ==
    /\ reading \in [key : Keys, as : Logins \ {Nothing}, supported : BOOLEAN] \cup {Nothing}
    /\ tried \in Keys \cup {Nothing}
    /\ probe \in [key : Keys, as : Logins] \cup {Nothing}
    /\ asked \in [context : (Nat \X Nat) \X (Account \cup {Nothing}), write : Nat] \cup {Nothing}

QueueOK ==
    /\ pathEnabled \in [Project -> BOOLEAN] /\ blockedOps \in [Project -> BOOLEAN]
    /\ queueStamp \in [Project -> Nat]

Sender == [key : Keys, write : Nat, stamp : Nat, project : Project, lapsed : BOOLEAN,
           stage : {"launched", "session", "status", "checked", "http"}]

SenderTypeOK ==
    /\ sender \in Sender \cup {Nothing}
    /\ sender # Nothing => /\ sender.key[1] <= generation /\ sender.key[2] <= epoch
                           /\ sender.write <= writeEpoch /\ sender.stamp <= queueStamp[sender.project]

\* The handshake, the queue and the sender have the values the code gives them,
\* and what a sender captured is never ahead of the counters.
DispatchTypeOK == ContextTypeOK /\ HandshakeOK /\ QueueOK /\ SenderTypeOK

\* A batch goes to the server only if what allowed it at the launch has held
\* without interruption: a login that ended and came back, an authority chosen
\* again, a project that left the trash or a conflict that was resolved
\* meanwhile all stop it, although every check finds what it looks for.
SentUnderOneAuthorization == sender # Nothing /\ sender.stage = "http" => ~sender.lapsed

\* "Only while it still describes what is open": a reading that is used was
\* answered to the account and in the login that are in force.
FreshReadingIsThisLogin == Fresh => reading.as = <<holder, login>>
=============================================================================
