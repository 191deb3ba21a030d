-------------------------- MODULE PullCoordination --------------------------
(***************************************************************************)
(* When the program reads the project from the server and lets the answer  *)
(* choose the structure authority (sync_manager.py, pull_remote_changes_-  *)
(* async to handle_finished, retry_pending_syncs), beside local edits, the *)
(* queue that sends them, changes of login and project, and the execution  *)
(* of a reviewed batch (reviewed_contract_sender.py), which pulls must not *)
(* disturb.                                                                *)
(*                                                                         *)
(* A pull is reserved, started, answered and finished in four steps of the *)
(* UI thread, with anything in between; each must recognise that it is too *)
(* late.  Waiting times are left out: a timer may fire at any moment.      *)
(***************************************************************************)
EXTENDS ContractContext

CONSTANT MaxPulls   \* bound on the pulls ever reserved

ASSUME PullsAssumption == MaxPulls \in Nat

VARIABLES
    coord,          \* the pull coordinator made last; those of older identities are dead
    pulls,          \* the pulls reserved, running, or answered and not finished
    reserved,       \* the number of the latest pull, its pull_reservation
    wakes,          \* pulls queued on the UI thread for an identity and an account
    queued,         \* project -> the kinds of work that wait in its queue
    stuck,          \* project -> the kinds that are blocked or in conflict
    sending,        \* the operation that is being sent
    reviewing       \* _review_execution_busy

work == <<queued, stuck, sending>>
pullVars == <<contextVars, coord, pulls, reserved, wakes, queued, stuck, sending, reviewing>>

Kind == {"document", "structure"}

NewCoordinator(identity) ==
    [of |-> identity, validated |-> FALSE, pending |-> TRUE, pulling |-> 0,
     backoff |-> FALSE, deferred |-> {}]

\* _current_pull_coordinator: one made for another identity is replaced.
IsCurrent(c) == open # Nothing /\ c.of = PullIdentity
Coordinator == IF IsCurrent(coord) THEN coord ELSE NewCoordinator(PullIdentity)

PullInit ==
    /\ ContextInit
    /\ coord = NewCoordinator(Nothing) /\ pulls = {} /\ reserved = 0 /\ wakes = {}
    /\ queued = [p \in Project |-> {}] /\ stuck = [p \in Project |-> {}]
    /\ sending = Nothing /\ reviewing = FALSE

Outbound == queued[open] # {}                                    \* _outbound_work_count
StructureIntent == "structure" \in queued[open] \cup stuck[open] \* has_outstanding_structure_intent

-----------------------------------------------------------------------------
(* Asking for a pull: pull_remote_changes_async on the coordinator c, the   *)
(* pulls being those in rest.                                               *)

\* A general pull asks for an empty queue and a chosen authority.
OrdinaryGateIsOpen(c) ==
    c.validated /\ ~Outbound /\ stuck[open] = {} /\ DispatchAllowed

IsBaseline(c, reason) ==
    \/ reason = "baseline" \/ "baseline" \in c.deferred \/ c.backoff
    \/ reason = "any" /\ ~c.validated

NoPull(c, rest) == coord' = c /\ pulls' = rest /\ UNCHANGED <<decision, uiCall, reserved>>

\* The execution of a reviewed batch goes first; what was asked for is kept.
Deferred(c, flags, reason) ==
    [c EXCEPT !.pending = TRUE,
              !.deferred = @ \cup flags \cup (IF reason = "baseline" THEN {"baseline"} ELSE {})]

\* Reasons to wait: a blocked authority, unless the user asks; a pull on its way;
\* the gate.
WaitsForGate(c, flags, reason, rest) ==
    \/ authority = [choice |-> "blocked", of |-> PullIdentity] /\ "manual" \notin flags \cup c.deferred
    \/ ~IsBaseline(c, reason) /\ ~OrdinaryGateIsOpen(c)

MustWait(c, flags, reason, rest) ==
    \/ authority = [choice |-> "blocked", of |-> PullIdentity] /\ "manual" \notin flags \cup c.deferred
    \/ c.pulling # 0 \/ \E q \in rest : q.at # "reserved" /\ q.of = PullIdentity
    \/ ~IsBaseline(c, reason) /\ ~OrdinaryGateIsOpen(c)

\* The pull is reserved under the lock; the UI thread goes on to start it.
Reserve(c, flags, reason, rest) ==
    /\ reserved < MaxPulls
    /\ reserved' = reserved + 1
    /\ coord' = [c EXCEPT !.pending = FALSE, !.pulling = reserved + 1, !.deferred = {}]
    /\ pulls' = rest \cup {[n |-> reserved + 1, of |-> PullIdentity, account |-> Identity,
                            flags |-> (flags \cup c.deferred) \ {"baseline"},
                            baseline |-> IsBaseline(c, reason),
                            stale |-> FALSE, then |-> "nothing", at |-> "reserved"]}
    /\ uiCall' = "pull"
    /\ BeginSelection

RequestPull(c, flags, reason, rest) ==
    \/ reviewing /\ NoPull(Deferred(c, flags, reason), rest)
    \/ ~reviewing /\ (authBlocked \/ Restoring) /\ NoPull(c, rest)
    \/ /\ ~reviewing /\ ~authBlocked /\ ~Restoring
       /\ IF MustWait(c, flags, reason, rest)
          THEN NoPull([c EXCEPT !.pending = TRUE], rest) ELSE Reserve(c, flags, reason, rest)

\* _maybe_start_deferred_pull.
DeferredPull(c, rest) ==
    IF c.pending THEN RequestPull(c, {}, "general", rest) ELSE NoPull(c, rest)

-----------------------------------------------------------------------------
(* The queue: retry_pending_syncs *)

\* A structure batch of the contract path may not be ready, nothing is sent then.
SendNext(c, rest) ==
    \E kind \in queued[open] :
       \/ /\ sending' = [project |-> open, kind |-> kind]
          /\ NoPull([c EXCEPT !.pending = @ \/ c.validated], rest)
       \/ kind = "structure" /\ UNCHANGED sending /\ NoPull(c, rest)

MayDrain == ~authBlocked /\ ~reviewing /\ DispatchAllowed /\ projectState[open] = "active" /\ sending = Nothing

\* A blocked authority is asked for again by the explicit retry alone.
AsksAgainUnasked(manual) ==
    ~authBlocked /\ ~reviewing /\ authority = [choice |-> "blocked", of |-> PullIdentity]

AsksAgain(manual) ==
    manual /\ ~authBlocked /\ ~reviewing /\ authority = [choice |-> "blocked", of |-> PullIdentity]

Drain(c, manual, rest) ==
    \/ AsksAgain(manual) /\ RequestPull(c, {"manual", "drain"}, "any", rest) /\ UNCHANGED sending
    \/ ~AsksAgain(manual) /\ ~MayDrain /\ NoPull(c, rest) /\ UNCHANGED sending
    \/ MayDrain /\ Outbound /\ SendNext(c, rest)
    \/ MayDrain /\ ~Outbound /\ DeferredPull(c, rest) /\ UNCHANGED sending

\* What no request for a pull touches.
Kept == UNCHANGED <<attached, login, session, epoch, observed, queued, stuck, reviewing>>

\* A timer, a notification of the server, a user: any of them asks for a pull.
AskForPull(flags, reason) ==
    /\ uiCall = "none" /\ open # Nothing
    /\ IF flags = {} /\ reason = "any" THEN UNCHANGED changes ELSE Change
    /\ RequestPull(Coordinator, flags, reason, pulls)
    /\ Kept /\ UNCHANGED <<wakes, sending>>

RetryPending(manual) ==
    /\ uiCall = "none" /\ open # Nothing
    /\ IF manual THEN Change ELSE UNCHANGED changes
    /\ Drain(Coordinator, manual, pulls)
    /\ Kept /\ UNCHANGED wakes

\* The user writes, or changes the tree; a pull that started before is stale.
Edit(kind) ==
    /\ uiCall = "none" /\ open # Nothing /\ Change
    /\ queued' = [queued EXCEPT ![open] = @ \cup {kind}]
    /\ pulls' = IF kind = "document" THEN pulls
                ELSE {[q EXCEPT !.stale = @ \/ q.at = "running"] : q \in pulls}
    /\ UNCHANGED <<attached, login, session, uiCall, epoch, decision, observed,
                   coord, reserved, wakes, stuck, sending, reviewing>>

\* The answer to what was sent: the queue has more of it or not; it is refused for
\* good; or it is tried again.  Any ordinary success counts as a login.
SendEnds(outcome) ==
    /\ uiCall = "none" /\ sending # Nothing /\ sending' = Nothing
    /\ IF outcome = "stuck" THEN Change ELSE UNCHANGED changes
    /\ queued' = [queued EXCEPT ![sending.project] = IF outcome \in {"last", "stuck"} THEN @ \ {sending.kind} ELSE @]
    /\ stuck' = [stuck EXCEPT ![sending.project] = IF outcome = "stuck" THEN @ \cup {sending.kind} ELSE @]
    /\ authBlocked' \in IF outcome = "retry" THEN {authBlocked}
                        ELSE IF sending.kind = "document" THEN {FALSE} ELSE {authBlocked, FALSE}
    /\ UNCHANGED <<attached, login, holder, authenticated, restoring, uiCall, epoch, decision, observed,
                   coord, pulls, reserved, wakes, reviewing>>

\* The user settles what is stuck, which may leave something to send.
Settle(kind) ==
    /\ uiCall = "none" /\ open # Nothing /\ kind \in stuck[open]
    /\ stuck' = [stuck EXCEPT ![open] = @ \ {kind}]
    /\ queued' \in {queued, [queued EXCEPT ![open] = @ \cup {kind}]}
    /\ UNCHANGED <<contextVars, coord, pulls, reserved, wakes, sending, reviewing>>

-----------------------------------------------------------------------------
(* One pull: _start_reserved_pull, handle_result, handle_finished *)

\* The pull is the one its coordinator has reserved.
Owns(q) == coord.of = q.of /\ coord.pulling = q.n
\* ... and the project, the login and the account are those it was reserved for.
IsLive(q) == Owns(q) /\ IsCurrent(coord) /\ q.account = Identity

Moved(q, changed) == pulls' = (pulls \ {q}) \cup {changed}

\* The worker starts, unless the pull is too late; or that fails.
StartPull(q) ==
    /\ q.at = "reserved" /\ uiCall' = "none"
    /\ \/ /\ IsLive(q) /\ Moved(q, [q EXCEPT !.at = "running"])
          /\ UNCHANGED <<coord, decision, changes>>
       \/ /\ ~IsLive(q) /\ pulls' = pulls \ {q}
          /\ coord' = IF Owns(q) THEN [coord EXCEPT !.pulling = 0] ELSE coord
          /\ UNCHANGED <<decision, changes>>
       \/ /\ Change /\ pulls' = pulls \ {q}
          /\ coord' = IF Owns(q)
                      THEN [coord EXCEPT !.pulling = 0, !.pending = TRUE, !.validated = FALSE,
                                         !.deferred = @ \cup q.flags \cup {"baseline"}]
                      ELSE coord
          /\ IF IsLive(q) THEN BeginSelection ELSE UNCHANGED decision
    /\ UNCHANGED <<attached, login, session, epoch, observed, reserved, wakes, work, reviewing>>

\* What the answer leads to. The order and the conflicts of the tree may have to be
\* settled again first (_retire_stuck_tree_order_conflict_from_snapshot).
Retires == stuck' \in {stuck} \cup {[stuck EXCEPT ![open] = @ \ {"structure"}]}
           /\ queued' = IF stuck' = stuck THEN queued
                        ELSE [queued EXCEPT ![open] = @ \cup {"structure"}]

Answered(q, then) == Moved(q, [q EXCEPT !.at = "finishing", !.then = then])
Then(q) == IF "drain" \in q.flags THEN "drain" ELSE "nothing"
Accepted == [coord EXCEPT !.validated = TRUE, !.backoff = FALSE]

\* The local tree is not in the server's answer yet: it is not applied, but the
\* authority is chosen and the queue may go.
DefersApply(q) ==
    /\ q.account # Nothing /\ Retires /\ q.baseline /\ StructureIntent'
    /\ Accept /\ Answered(q, Then(q))
    /\ coord' = [Accepted EXCEPT !.pending = TRUE]
    /\ UNCHANGED <<authBlocked, authenticated, login, epoch, observed>>

Stale(q) ==
    /\ q.account # Nothing /\ Retires /\ ~(q.baseline /\ StructureIntent') /\ q.stale
    /\ Answered(q, "again")
    /\ coord' = [coord EXCEPT !.pending = TRUE]
    /\ UNCHANGED <<authBlocked, authenticated, login, epoch, decision, observed>>

Applied(q) ==
    /\ q.account # Nothing /\ Retires /\ ~(q.baseline /\ StructureIntent')
    /\ Accept /\ Answered(q, Then(q))
    /\ coord' = [Accepted EXCEPT !.pending = @ \/ Outbound']
    /\ authBlocked' = FALSE
    /\ UNCHANGED <<authenticated, login, epoch, observed>>

\* No decision, an application that fails, or an error nobody retries; the server
\* may say with it that the project is in the trash.
Refused(q, trashed) ==
    /\ Change /\ Answered(q, "nothing")
    /\ Choose("blocked")
    /\ coord' = [coord EXCEPT !.backoff = FALSE]
    /\ IF trashed THEN /\ SeeState("trashed")
                       /\ writeEpoch' = IF IsNews("trashed") THEN writeEpoch + 2 ELSE writeEpoch + 1
                  ELSE UNCHANGED observed /\ writeEpoch' = writeEpoch + 1
    /\ UNCHANGED <<queued, stuck, authBlocked, authenticated, login, epoch>>

Fails(q) ==
    /\ Change /\ Answered(q, "nothing") /\ BeginSelection
    /\ coord' = [coord EXCEPT !.backoff = TRUE, !.validated = FALSE, !.pending = TRUE]
    /\ UNCHANGED <<queued, stuck, authBlocked, authenticated, login, epoch, observed>>

Unauthorized(q) ==
    /\ Answered(q, "nothing") /\ MarkAuthRequired /\ UNCHANGED changes
    /\ UNCHANGED <<queued, stuck, coord, decision, observed>>

TooLate(q) ==
    /\ ~IsLive(q) /\ Answered(q, "nothing")
    /\ UNCHANGED <<queued, stuck, coord, authBlocked, authenticated, login, epoch, decision, observed, changes>>

PullResult(q) ==
    /\ uiCall = "none" /\ q.at = "running"
    /\ UNCHANGED <<attached, holder, restoring, uiCall, reserved, wakes, sending, reviewing>>
    /\ \/ TooLate(q)
       \/ IsLive(q) /\ (DefersApply(q) \/ Stale(q) \/ Applied(q)) /\ UNCHANGED changes
       \/ IsLive(q) /\ (Fails(q) \/ Unauthorized(q) \/ \E trashed \in BOOLEAN : Refused(q, trashed))

\* The slot is free again.  What the pull was for, and what came meanwhile, follows
\* in the same step; another attempt is queued as an event of its own.
PullFinished(q) ==
    /\ uiCall = "none" /\ q.at = "finishing"
    /\ LET freed == [coord EXCEPT !.pulling = 0]
           rest == pulls \ {q}
       IN \/ ~Owns(q) /\ NoPull(coord, rest) /\ UNCHANGED <<wakes, sending>>
          \/ Owns(q) /\ ~IsLive(q) /\ NoPull(freed, rest) /\ UNCHANGED <<wakes, sending>>
          \/ /\ IsLive(q) /\ (q.then = "drain" \/ (coord.validated /\ Outbound))
             /\ Drain(freed, TRUE, rest) /\ UNCHANGED wakes
          \/ /\ IsLive(q) /\ ~(q.then = "drain" \/ (coord.validated /\ Outbound))
             /\ IF q.then = "again"
                THEN /\ wakes' = wakes \cup {[of |-> q.of, account |-> q.account, reason |-> "baseline"]}
                     /\ NoPull(freed, rest)
                ELSE UNCHANGED wakes /\ DeferredPull(freed, rest)
             /\ UNCHANGED sending
    /\ Kept /\ UNCHANGED changes

\* A queued pull: only for the project, the login and the account it was queued for.
\* The one after a review has to be pending still, and waits for the next review.
WakeUp(w) ==
    /\ uiCall = "none" /\ wakes' = wakes \ {w}
    /\ IF w.of = PullIdentity /\ w.account = Identity /\ IsCurrent(coord)
          /\ (w.reason = "any" => coord.pending /\ ~reviewing)
       THEN RequestPull(coord, {}, w.reason, pulls)
       ELSE NoPull(coord, pulls)
    /\ Kept /\ UNCHANGED <<sending, changes>>

-----------------------------------------------------------------------------
(* The execution of a reviewed batch *)

ReviewBeginsBesidePull ==
    /\ ~reviewing /\ open # Nothing /\ Identity # Nothing /\ Change
    /\ \A q \in pulls : q.at = "reserved" \/ q.of # PullIdentity
    /\ reviewing' = TRUE
    /\ UNCHANGED <<attached, login, session, uiCall, epoch, decision, observed,
                   coord, pulls, reserved, wakes, work>>

ReviewBegins ==
    /\ ~reviewing /\ open # Nothing /\ Identity # Nothing /\ Change
    /\ coord.pulling = 0 \/ ~IsCurrent(coord)
    /\ \A q \in pulls : q.at = "reserved" \/ q.of # PullIdentity
    /\ reviewing' = TRUE
    /\ UNCHANGED <<attached, login, session, uiCall, epoch, decision, observed,
                   coord, pulls, reserved, wakes, work>>

ReviewEnds ==
    /\ reviewing /\ reviewing' = FALSE
    /\ wakes' = IF IsCurrent(coord) /\ coord.pending
                THEN wakes \cup {[of |-> PullIdentity, account |-> Identity, reason |-> "any"]} ELSE wakes
    /\ Forget \/ ForgetNothing
    /\ UNCHANGED <<attached, login, session, uiCall, decision, observed, changes,
                   coord, pulls, reserved, work>>

-----------------------------------------------------------------------------

AttachProject(p) ==
    /\ Attach(p)
    /\ coord' = NewCoordinator(PullIdentity')
    /\ UNCHANGED <<pulls, reserved, wakes, work, reviewing>>

\* Another worker reads the status of the project.
StatusSeen(state) ==
    /\ open # Nothing /\ ~authBlocked /\ Identity # Nothing /\ IsNews(state) /\ Change
    /\ MarkState(state)
    /\ UNCHANGED <<attached, login, session, uiCall, epoch>>

Login == (Release \/ LoginStep \/ \E state \in {"active", "trashed"} : StatusSeen(state))
         /\ UNCHANGED <<coord, pulls, reserved, wakes, work, reviewing>>

PullNext ==
    \/ \E p \in Project : AttachProject(p)
    \/ Login
    \/ \E flags \in {{}, {"manual"}, {"manual", "drain"}}, reason \in {"any", "baseline"} : AskForPull(flags, reason)
    \/ \E manual \in BOOLEAN : RetryPending(manual)
    \/ \E kind \in Kind : Edit(kind) \/ Settle(kind)
    \/ \E outcome \in {"last", "more", "stuck", "retry"} : SendEnds(outcome)
    \/ \E q \in pulls : StartPull(q) \/ PullResult(q) \/ PullFinished(q)
    \/ \E w \in wakes : WakeUp(w)
    \/ ReviewBegins \/ ReviewEnds

PullSpec == PullInit /\ [][PullNext]_pullVars

\* The UI thread goes on with its events, its five-second timer asks for pulls and
\* for the queue, and what was sent is answered.
PullFairness ==
    /\ WF_pullVars(\E q \in pulls : StartPull(q))
    /\ WF_pullVars(\E q \in pulls : PullResult(q))
    /\ WF_pullVars(\E q \in pulls : PullFinished(q))
    /\ WF_pullVars(\E w \in wakes : WakeUp(w))
    /\ WF_pullVars(AskForPull({}, "any"))
    /\ WF_pullVars(RetryPending(FALSE))
    /\ WF_pullVars(\E outcome \in {"last", "stuck"} : SendEnds(outcome))
    /\ WF_pullVars(ReviewEnds)

FairPullSpec == PullSpec /\ PullFairness

-----------------------------------------------------------------------------
(* Properties *)

CoordinatorRow ==
    [of : IdentityOrNothing, validated : BOOLEAN, pending : BOOLEAN, pulling : 0 .. MaxPulls,
     backoff : BOOLEAN, deferred : SUBSET {"manual", "drain", "baseline"}]
PullRow ==
    [n : 1 .. MaxPulls, of : Nat \X Nat, account : Account \cup {Nothing},
     flags : SUBSET {"manual", "drain"}, baseline : BOOLEAN, stale : BOOLEAN,
     then : {"nothing", "drain", "again"}, at : {"reserved", "running", "finishing"}]
WakeRow == [of : Nat \X Nat, account : Account \cup {Nothing}, reason : {"any", "baseline"}]

\* The pulls have the values the code gives them.
PullTypeOK ==
    /\ ContextTypeOK
    /\ coord \in CoordinatorRow
    /\ \A q \in pulls : q \in PullRow
    /\ reserved \in 0 .. MaxPulls /\ reviewing \in BOOLEAN
    /\ \A w \in wakes : w \in WakeRow
    /\ queued \in [Project -> SUBSET Kind] /\ stuck \in [Project -> SUBSET Kind]
    /\ sending \in [project : Project, kind : Kind] \cup {Nothing}

\* The slot a coordinator counts as taken is that of a pull on its way, which will
\* give it back; and there is at most one pull for the project and login at hand.
OnePullAtATime ==
    /\ coord.pulling # 0 => \E q \in pulls : Owns(q)
    /\ \A q, r \in pulls : q.of = r.of => q = r

\* While a reviewed batch is executed no pull changes the authority it was prepared
\* under, as long as project and login stay (docs/windows-pull-review-coordination-
\* 2026-09-07.md): nothing that was on its way when it began, and nothing that is
\* asked for meanwhile.
ReviewSeesOneAuthority ==
    [][reviewing /\ authority.of = PullIdentity /\ authority.of = PullIdentity'
       => authority' = authority]_pullVars

UserAsks ==
    \/ RetryPending(TRUE)
    \/ \E flags \in {{"manual"}, {"manual", "drain"}}, reason \in {"any", "baseline"} : AskForPull(flags, reason)

\* A blocked authority is left only because the user asks, signs in or opens a
\* project; no timer, no finished pull and no queued event does it.
BlockedIsSticky ==
    [][IsCurrent(coord) /\ authority = [choice |-> "blocked", of |-> PullIdentity]
       /\ authority.of = PullIdentity'
       => \/ authority' = authority
          \/ "manual" \in coord.deferred
          \/ UserAsks]_pullVars

\* No pull takes the authority from under a reviewed batch, and only the user
\* leaves a blocked one.
AuthorityIsHeld == ReviewSeesOneAuthority /\ BlockedIsSticky

\* While the authority is open and no pull is on its way to choose it, the next
\* request is remembered, or will be a first reading, which no queue holds up.
UnknownIsRemembered ==
    authority = [choice |-> "unknown", of |-> PullIdentity] /\ (\A q \in pulls : q.of # PullIdentity)
    => Coordinator.pending \/ ~Coordinator.validated

\* Timers, notifications, the user and the pulls themselves ask for pulls in any
\* order: the slot has one owner and no request is forgotten.
PullsAreOrderly == OnePullAtATime /\ UnknownIsRemembered

\* A selection is under way, a project is open and the login is good.
Choosing == /\ open # Nothing /\ authority = [choice |-> "unknown", of |-> PullIdentity]
            /\ ~authBlocked /\ ~restoring

\* "Close every server-write exit while one pull chooses its source": the exits are
\* not closed for good.
ClosedOnlyWhileChoosing == Choosing ~> ~Choosing \/ reserved = MaxPulls
=============================================================================
