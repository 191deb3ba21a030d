------------------------- MODULE ReviewedExecution -------------------------
(***************************************************************************)
(* The once-only execution of one reviewed structure batch.                *)
(*                                                                         *)
(* A batch may be tried in three rounds, each with its own human approval: *)
(* the original execution (reviewed_contract_sender.py), one recovery      *)
(* after an original that stopped before any HTTP                          *)
(* (contract_http_zero_recovery.py) and one resume after both stopped      *)
(* (contract_post_coordination_resume.py).  The rounds and the gate of the *)
(* contract path live in one SQLite database that several processes of the *)
(* program may have open at once; opening it closes what processes before  *)
(* left behind (sync_v2_store.py, _initialize).  A second process is kept  *)
(* away by a local socket only while the first answers it (SingleApp-      *)
(* lication), so the code, and this model, allow for several.              *)
(*                                                                         *)
(* Every checked condition that is not part of this state (handshake,      *)
(* session, project status, local baseline, account) may fail at any time: *)
(* action Refuse.  The same batch is meant in every round: its identifier  *)
(* and hash are constants of the source.                                   *)
(***************************************************************************)
EXTENDS Naturals, FiniteSets

CONSTANTS
    Process,    \* runs of the program; each has its own PROCESS_TOKEN
    None        \* no owner, no verdict

Round == {"original", "recovery", "resume"}

\* The rounds that must be recorded as stopped, without HTTP, before r.
Before(r) == CASE r = "original" -> {}
               [] r = "recovery" -> {"original"}
               [] r = "resume"   -> {"original", "recovery"}

Verdict == {"committed", "rejected"}

ASSUME NoneIsNothing == None \notin Process \cup Verdict \cup {"request"}

Attempted == {"attempted", "uncertain"} \cup Verdict
Open == {"preparing", "attempted"}                      \* not yet settled
RoundState == {"none", "preparing", "stopped"} \cup Attempted

\* Where a process is: opening the store, idle, or in _send_reviewed_once and
\* _send_contract_request, whose stages have the names the code records.
Stage == {"open_gate", "open_row", "idle", "claim", "initial_remote", "gate_before", "gate_after",
          "second_remote", "rpc_constructed", "http", "waiting", "stop", "gate_close"}
Unsent == {"claim", "initial_remote", "gate_before", "gate_after",
           "second_remote", "rpc_constructed"}

VARIABLES
    state,      \* round -> its recorded state, "none" before it is claimed
    attempts,   \* round -> http_attempts
    owner,      \* round -> the process that claimed it
    receipt,    \* round -> the verdict kept for it
    gate,       \* contract_path_enabled of the project
    running,    \* the processes that are running
    started,    \* the processes that have ever run
    stage,      \* process -> where its worker is
    round,      \* process -> the round its worker executes or its opening looks at
    sent,       \* round -> requests handed to HTTP
    wire,       \* round -> what is on the wire: a request, an answer, nothing
    server,     \* the server's verdict on the batch
    solo        \* the process, if any, that started alone and still is (history)

ledger == <<state, attempts, owner, receipt>>
vars == <<state, attempts, owner, receipt, gate, running, started, stage, round, sent, wire, server, solo>>

Init ==
    /\ state = [r \in Round |-> "none"]
    /\ attempts = [r \in Round |-> 0]
    /\ owner = [r \in Round |-> None]
    /\ receipt = [r \in Round |-> None]
    /\ gate = FALSE
    /\ running = {} /\ started = {}
    /\ stage = [p \in Process |-> "idle"]
    /\ round = [p \in Process |-> "original"]
    /\ sent = [r \in Round |-> 0]
    /\ wire = [r \in Round |-> None]
    /\ server = None
    /\ solo = {}

-----------------------------------------------------------------------------
(* Opening the database *)

\* What the recorded state becomes when an open round is given up.
GivenUpAsStopped(s, a) == IF s \in Open THEN "stopped" ELSE s
GivenUp(s, a) == IF s \in Open THEN (IF a = 1 THEN "uncertain" ELSE "stopped") ELSE s

At(p, s) == p \in running /\ stage[p] = s
Go(p, s) == stage' = [stage EXCEPT ![p] = s]

\* The process starts and opens its store; Reopen constructs a further store,
\* as the project dialogs and the sync manager do before a worker can run.
Start(p) ==
    /\ p \notin started
    /\ started' = started \cup {p} /\ running' = running \cup {p}
    /\ solo' = IF running = {} THEN {p} ELSE {}
    /\ Go(p, "open_gate") /\ round' = [round EXCEPT ![p] = "original"]
    /\ UNCHANGED <<ledger, gate, sent, wire, server>>

Reopen(p) ==
    /\ At(p, "idle")
    /\ Go(p, "open_gate") /\ round' = [round EXCEPT ![p] = "original"]
    /\ UNCHANGED <<ledger, gate, running, started, sent, wire, server, solo>>

\* The opening looks at one round after the other.  executescript has ended the
\* transaction it began, so each UPDATE is a transaction of its own.
Foreign(p, r) == owner[r] \notin {None, p}

NextRound(r) == CASE r = "original" -> "recovery"
                  [] r = "recovery" -> "resume"
                  [] r = "resume"   -> "resume"

LookOn(p) ==
    /\ round' = [round EXCEPT ![p] = NextRound(@)]
    /\ Go(p, IF round[p] = "resume" THEN "idle" ELSE "open_gate")

\* A round of another process, settled or not, closes the gate ...
GateAfterOpeningUnlessSettled(p, r) == gate /\ ~ (Foreign(p, r) /\ state[r] \in Open)
GateAfterOpening(p, r) == gate /\ ~ Foreign(p, r)

CloseForeignGate(p) ==
    /\ At(p, "open_gate")
    /\ gate' = GateAfterOpening(p, round[p])
    /\ IF Foreign(p, round[p]) \/ round[p] = "original"
       THEN Go(p, "open_row") /\ UNCHANGED round
       ELSE LookOn(p)
    /\ UNCHANGED <<ledger, running, started, sent, wire, server, solo>>

\* ... and is given up if it is still open.
GiveUpForeign(p) ==
    /\ At(p, "open_row")
    /\ state' = IF Foreign(p, round[p])
                THEN [state EXCEPT ![round[p]] = GivenUp(@, attempts[round[p]])]
                ELSE state
    /\ LookOn(p)
    /\ UNCHANGED <<attempts, owner, receipt, gate, running, started, sent, wire, server, solo>>

\* The process dies; what is on the wire stays there.
Crash(p) ==
    /\ p \in running
    /\ running' = running \ {p}
    /\ Go(p, "idle")
    /\ UNCHANGED <<ledger, gate, started, round, sent, wire, server, solo>>

-----------------------------------------------------------------------------
(* One execution *)

\* _review_execution_busy lets one worker run, and only with the gate closed.
Begin(p, r) ==
    /\ At(p, "idle")
    /\ ~gate
    /\ Go(p, "claim") /\ round' = [round EXCEPT ![p] = r]
    /\ UNCHANGED <<ledger, gate, running, started, sent, wire, server, solo>>

HistoryIsSettled(r) == \A q \in Before(r) : state[q] \notin {"none"} \cup Open
HistoryAllows(r) == \A q \in Before(r) : state[q] = "stopped"

Claimable(r) == /\ state[r] = "none"
                /\ HistoryAllows(r)
                /\ r = "resume" => ~gate

\* One transaction records the round before any slow read.
Claim(p) ==
    /\ At(p, "claim")
    /\ Claimable(round[p])
    /\ state' = [state EXCEPT ![round[p]] = "preparing"]
    /\ owner' = [owner EXCEPT ![round[p]] = p]
    /\ Go(p, "initial_remote")
    /\ UNCHANGED <<attempts, receipt, gate, running, started, round, sent, wire, server, solo>>

\* The claim is refused, for the history or for the approval: nothing was
\* claimed, so nothing is closed.
ClaimRefused(p) ==
    /\ At(p, "claim")
    /\ Go(p, "idle")
    /\ UNCHANGED <<ledger, gate, running, started, round, sent, wire, server, solo>>

\* check_http_zero_round; the original's own check_local asks nothing of its row.
StillMine(p) == LET r == round[p] IN
    r # "original" => /\ state[r] = "preparing" /\ owner[r] = p
                      /\ receipt[r] = None
                      /\ HistoryAllows(r)

\* check_server_ledger: a recovery proceeds only if the server knows no attempt.
ServerSawNothing(p) == round[p] # "original" => server = None

ReadServer(p) ==
    /\ At(p, "initial_remote")
    /\ ServerSawNothing(p) /\ StillMine(p)
    /\ Go(p, "gate_before")
    /\ UNCHANGED <<ledger, gate, running, started, round, sent, wire, server, solo>>

OpenGate(p) ==
    /\ At(p, "gate_before")
    /\ StillMine(p)
    /\ gate' = TRUE
    /\ Go(p, "gate_after")
    /\ UNCHANGED <<ledger, running, started, round, sent, wire, server, solo>>

\* _check_contract_dispatch before and after the session and status reads.
Prepare(p) ==
    /\ At(p, "gate_after")
    /\ gate /\ StillMine(p)
    /\ Go(p, "second_remote")
    /\ UNCHANGED <<ledger, gate, running, started, round, sent, wire, server, solo>>

ReadServerAgain(p) ==
    /\ At(p, "second_remote")
    /\ ServerSawNothing(p) /\ StillMine(p)
    /\ Go(p, "rpc_constructed")
    /\ UNCHANGED <<ledger, gate, running, started, round, sent, wire, server, solo>>

\* mark_reviewed_http_attempt and check_http_zero_round(mark_attempt=True): one
\* UPDATE that finds the round still preparing.
MayAttempt(p) == state[round[p]] = "preparing"
Counted(a) == a + 1

Attempt(p) ==
    /\ At(p, "rpc_constructed")
    /\ gate /\ StillMine(p) /\ MayAttempt(p)
    /\ state' = [state EXCEPT ![round[p]] = "attempted"]
    /\ attempts' = [attempts EXCEPT ![round[p]] = Counted(@)]
    /\ Go(p, "http")
    /\ UNCHANGED <<owner, receipt, gate, running, started, round, sent, wire, server, solo>>

Send(p) ==
    /\ At(p, "http")
    /\ sent' = [sent EXCEPT ![round[p]] = @ + 1]
    /\ wire' = [wire EXCEPT ![round[p]] = "request"]
    /\ Go(p, "waiting")
    /\ UNCHANGED <<ledger, gate, running, started, round, server, solo>>

\* Any other condition fails, any read raises, before the HTTP request leaves.
Refuse(p) ==
    /\ p \in running /\ stage[p] \in (Unsent \ {"claim"}) \cup {"http"}
    /\ Go(p, "stop")
    /\ UNCHANGED <<ledger, gate, running, started, round, sent, wire, server, solo>>

\* The worker gives up waiting, or the answer is no valid response.
NoAnswer(p) ==
    /\ At(p, "waiting")
    /\ Go(p, "stop")
    /\ UNCHANGED <<ledger, gate, running, started, round, sent, wire, server, solo>>

-----------------------------------------------------------------------------
(* The server and the wire *)

\* The server commits or rejects the batch once; a repeated request is answered
\* with the verdict it already has.
Serve(r) ==
    /\ wire[r] = "request"
    /\ \E v \in Verdict : /\ server \in {None, v}
                          /\ server' = v
                          /\ wire' = [wire EXCEPT ![r] = v]
    /\ UNCHANGED <<ledger, gate, running, started, stage, round, sent, solo>>

Lose(r) ==
    /\ wire[r] # None
    /\ wire' = [wire EXCEPT ![r] = None]
    /\ UNCHANGED <<ledger, gate, running, started, stage, round, sent, server, solo>>

\* finish_reviewed_response takes the answer only while the row says attempted;
\* finish_http_zero_response also keeps a late receipt, without rewriting the row.
Keepable(r) == state[r] = "attempted" \/ (r # "original" /\ state[r] = "uncertain")
SettledAsCommitted(s, v) == IF s = "attempted" THEN "committed" ELSE s
Settled(s, v) == IF s = "attempted" THEN v ELSE s

Record(p) ==
    LET r == round[p] IN
    /\ At(p, "waiting")
    /\ wire[r] \in Verdict
    /\ Keepable(r)
    /\ receipt' = [receipt EXCEPT ![r] = wire[r]]
    /\ state' = [state EXCEPT ![r] = Settled(@, wire[r])]
    /\ wire' = [wire EXCEPT ![r] = None]
    /\ Go(p, "gate_close")
    /\ UNCHANGED <<attempts, owner, gate, running, started, round, sent, server, solo>>

\* The answer arrives after another process gave the original up.
AnswerRefused(p) ==
    LET r == round[p] IN
    /\ At(p, "waiting")
    /\ wire[r] \in Verdict
    /\ ~Keepable(r)
    /\ wire' = [wire EXCEPT ![r] = None]
    /\ Go(p, "stop")
    /\ UNCHANGED <<ledger, gate, running, started, round, sent, server, solo>>

-----------------------------------------------------------------------------
(* The end of an execution *)

Stop(p) ==
    /\ At(p, "stop")
    /\ state' = [state EXCEPT ![round[p]] = GivenUp(@, attempts[round[p]])]
    /\ Go(p, "gate_close")
    /\ UNCHANGED <<attempts, owner, receipt, gate, running, started, round, sent, wire, server, solo>>

\* finally: the gate of the captured store is closed whatever happened.
CloseGate(p) ==
    /\ At(p, "gate_close")
    /\ gate' = FALSE
    /\ Go(p, "idle")
    /\ UNCHANGED <<ledger, running, started, round, sent, wire, server, solo>>

\* The store cannot be written: the rest of the finally blocks still runs.
StoreFails(p) ==
    /\ p \in running /\ stage[p] \in {"stop", "gate_close"}
    /\ Go(p, IF stage[p] = "stop" THEN "gate_close" ELSE "idle")
    /\ UNCHANGED <<ledger, gate, running, started, round, sent, wire, server, solo>>

Execute(p) ==
    \/ Claim(p) \/ ClaimRefused(p) \/ ReadServer(p) \/ OpenGate(p) \/ Prepare(p)
    \/ ReadServerAgain(p) \/ Attempt(p) \/ Send(p) \/ Refuse(p) \/ NoAnswer(p)
    \/ Record(p) \/ AnswerRefused(p) \/ Stop(p) \/ CloseGate(p)
    \/ StoreFails(p)

Next ==
    \/ \E p \in Process : \/ Start(p) \/ Reopen(p) \/ Crash(p) \/ Execute(p)
                          \/ CloseForeignGate(p) \/ GiveUpForeign(p)
    \/ \E p \in Process, r \in Round : Begin(p, r)
    \/ \E r \in Round : Serve(r) \/ Lose(r)

Spec == Init /\ [][Next]_vars

-----------------------------------------------------------------------------
(* What the ledger promises *)

\* Each variable has its type; http_attempts counts what the state says, as the
\* CHECK of the recovery tables demands; a process that does not run has no
\* worker.
TypeOK ==
    /\ state \in [Round -> RoundState]
    /\ attempts \in [Round -> {0, 1}]
    /\ \A r \in Round : attempts[r] = 1 <=> state[r] \in Attempted
    /\ owner \in [Round -> Process \cup {None}]
    /\ receipt \in [Round -> Verdict \cup {None}]
    /\ gate \in BOOLEAN
    /\ running \subseteq started /\ started \subseteq Process
    /\ stage \in [Process -> Stage]
    /\ \A p \in Process : stage[p] # "idle" => p \in running
    /\ round \in [Process -> Round]
    /\ sent \in [Round -> Nat]
    /\ wire \in [Round -> {None, "request"} \cup Verdict]
    /\ server \in Verdict \cup {None}
    /\ solo \subseteq started

\* Over all rounds, processes, crashes and reopenings the batch is handed to
\* HTTP at most once: a recovery or a resume never repeats a request that may
\* have reached the server.
AtMostOneHttp ==
    /\ \A r \in Round : sent[r] <= 1
    /\ \A r, q \in Round : sent[r] > 0 /\ sent[q] > 0 => r = q

\* A round recorded as stopped counts no attempt and has put nothing on the wire,
\* so a new approval may rely on it: the stop of another process and the attempt
\* of a slow worker never cross.
StoppedMeansUnsent ==
    \A r \in Round : state[r] = "stopped" => attempts[r] = 0 /\ sent[r] = 0 /\ wire[r] = None

\* If the server has a verdict, some round is recorded as attempted; a kept
\* receipt is the server's verdict; a round recorded as committed or rejected is
\* what its receipt says, and only an uncertain round may have another receipt.
LedgerTellsTheTruth ==
    /\ server # None => \E r \in Round : state[r] \in Attempted
    /\ \A r \in Round :
         /\ receipt[r] # None => receipt[r] = server /\ state[r] \in {receipt[r], "uncertain"}
         /\ state[r] \in Verdict => receipt[r] = state[r]

\* Never two rounds of the batch in progress at once, whichever processes claim.
OneOpenRound ==
    \A r, q \in Round : state[r] \in Open /\ state[q] \in Open => r = q

\* A row only moves along the arrows its trigger allows (*_no_reset), never
\* changes its owner once claimed, and a receipt is never rewritten: the code
\* never runs into its own triggers.
RowAdvances(r) ==
    /\ \/ state'[r] = state[r]
       \/ state[r] = "none" /\ state'[r] = "preparing"
       \/ state[r] = "preparing" /\ state'[r] \in {"attempted", "stopped"}
       \/ state[r] = "attempted" /\ state'[r] \in Verdict \cup {"uncertain"}
    /\ owner[r] # None => owner'[r] = owner[r]
    /\ receipt[r] # None => receipt'[r] = receipt[r]

LedgerOnlyAdvances == [][\A r \in Round : RowAdvances(r)]_vars

\* A process that has been alone since its start ends each opening with no round
\* of an earlier process in progress, and if there is such a round with the gate
\* closed, wherever the earlier processes died ("A new process closes the old
\* execution's gate", reviewed_contract_sender.py:57).
EndsOpening(p) == stage[p] \in {"open_gate", "open_row"} /\ stage'[p] = "idle" /\ p \in running'

OpeningCleansUp ==
    [][\A p \in solo, r \in Round :
          EndsOpening(p) /\ Foreign(p, r) => ~gate' /\ state'[r] \notin Open]_vars
=============================================================================
