------------------------ MODULE PullCoordinationProofs ------------------------
(***************************************************************************)
(* Proofs about PullCoordination, for any projects, accounts and bounds.   *)
(*                                                                         *)
(* What makes a late pull recognisable is that the two counters of its     *)
(* identity only grow: an identity that was left never comes back.  The    *)
(* invariant therefore speaks of the pull for the identity at hand, and of *)
(* the coordinator it was reserved by.  Its parts take the coordinator and *)
(* the pulls as parameters, because the last step of a pull first frees    *)
(* the slot and then asks for the next one.                                *)
(***************************************************************************)
EXTENDS PullCoordination, TLAPS

\* No identity that was handed out is newer than the one at hand.
NotNewer(i) == i # Nothing => i[1] <= generation /\ i[2] <= login

Open == [choice |-> "unknown", of |-> PullIdentity]
Blocked == [choice |-> "blocked", of |-> PullIdentity]

\* A pull for the identity at hand runs beside no review; its account is still
\* there; and until it is answered the authority is open.
PullFits(q) ==
  /\ ~reviewing /\ open # Nothing
  /\ q.account # Nothing => q.account = Identity
  /\ q.at # "finishing" => authority = Open

PullsInv(ps) ==
  /\ \A q \in ps : q \in PullRow /\ NotNewer(q.of)
  /\ \A q, r \in ps : q.of = r.of => q = r
  /\ \A q \in ps : q.at = "reserved" => uiCall = "pull" /\ \A r \in ps : r.at = "reserved" => r = q
  /\ \A q \in ps : q.of = PullIdentity => PullFits(q)

\* The pull owns the slot; nothing was put off since it was reserved; an account
\* was there when the project was validated; and an answer that closes the
\* authority leaves no reason to ask again.
Holds(c, q) ==
  /\ c.of = q.of /\ c.pulling = q.n /\ c.deferred = {}
  /\ c.validated => q.account # Nothing
  /\ q.at = "finishing" /\ authority = Blocked => ~c.backoff /\ q.then # "drain"

Unanswered(ps) == authority = Open /\ \A q \in ps : q.of = PullIdentity => q.at = "finishing"

\* A sign-in or a sign-out has left the old identity when it begins; and a request
\* that no choice has answered is remembered.
CoordinatorFits(c, ps) ==
  /\ uiCall \notin {"sign_in", "sign_out"}
  /\ c.validated => Identity # Nothing
  /\ Unanswered(ps) => c.pending \/ ~c.validated

SlotInv(c, ps) ==
  /\ c \in CoordinatorRow /\ NotNewer(c.of)
  /\ c.pulling # 0 => \E q \in ps : c.of = q.of /\ c.pulling = q.n
  /\ \A q \in ps : q.of = PullIdentity => Holds(c, q)
  /\ c.of = PullIdentity => CoordinatorFits(c, ps)

ContextInv ==
  /\ ContextTypeOK /\ NotNewer(authority.of)
  /\ uiCall \in {"sign_in", "sign_out"} => authority.of # PullIdentity
  /\ reserved \in 0 .. MaxPulls /\ reviewing \in BOOLEAN

WorkInv ==
  /\ \A w \in wakes : w \in WakeRow
  /\ queued \in [Project -> SUBSET Kind] /\ stuck \in [Project -> SUBSET Kind]
  /\ sending \in [project : Project, kind : Kind] \cup {Nothing}

PullInv == ContextInv /\ PullsInv(pulls) /\ SlotInv(coord, pulls) /\ WorkInv

-----------------------------------------------------------------------------
(* Identities *)

LEMMA IdentityIsKnown ==
  ASSUME ContextInv
  PROVE  /\ PullIdentity \in Nat \X Nat /\ PullIdentity # Nothing
         /\ NotNewer(PullIdentity) /\ Identity \in Account \cup {Nothing}
<1>1. generation \in Nat /\ login \in Nat /\ holder \in Account \cup {Nothing}
  BY DEF ContextInv, ContextTypeOK, CountersOK, SessionOK
<1>2. PullIdentity \in Nat \X Nat
  BY <1>1 DEF PullIdentity
<1>3. PullIdentity # Nothing
  BY <1>2, ContextAssumption
<1>4. PullIdentity[1] = generation /\ PullIdentity[2] = login
  BY DEF PullIdentity
<1>5. NotNewer(PullIdentity)
  BY <1>1, <1>4 DEF NotNewer
<1> QED BY <1>1, <1>2, <1>3, <1>5 DEF Identity

\* An identity that is left is left for good.
LEMMA LeftForGood ==
  ASSUME ContextInv, NEW i \in IdentityOrNothing, NotNewer(i),
         generation' \in Nat, login' \in Nat, generation' >= generation, login' >= login,
         generation' > generation \/ login' > login
  PROVE  i # PullIdentity' /\ NotNewer(i)'
<1>1. generation \in Nat /\ login \in Nat
  BY DEF ContextInv, ContextTypeOK, CountersOK
<1>2. PullIdentity' \in Nat \X Nat /\ PullIdentity'[1] = generation' /\ PullIdentity'[2] = login'
  BY DEF PullIdentity
<1>3. CASE i = Nothing
  BY <1>2, <1>3, ContextAssumption DEF NotNewer
<1>4. CASE i # Nothing
  <2>1. i[1] \in Nat /\ i[2] \in Nat /\ i[1] <= generation /\ i[2] <= login
    BY <1>4 DEF NotNewer, IdentityOrNothing
  <2>2. i[1] # PullIdentity'[1] \/ i[2] # PullIdentity'[2]
    BY <1>1, <1>2, <2>1
  <2>3. NotNewer(i)'
    BY <1>1, <2>1 DEF NotNewer
  <2> QED BY <2>2, <2>3
<1> QED BY <1>3, <1>4

-----------------------------------------------------------------------------
(* Asking for a pull *)

\* The project, the login and the account stay; the rest keeps its type.
ContextStays ==
  /\ UNCHANGED <<attached, login, holder, authenticated, reviewing>>
  /\ epoch' \in Nat /\ restoring' \in BOOLEAN /\ authBlocked' \in BOOLEAN
  /\ projectState' \in [Project -> {"active", "trashed"}]
  /\ stateSeenIn' \in ((Nat \X Nat) \X (Account \cup {Nothing})) \cup {Nothing}
  /\ changes' \in 0 .. MaxChanges

LEMMA ContextKept ==
  ASSUME ContextInv, UNCHANGED <<attached, login, session, epoch, observed, reviewing>>,
         UNCHANGED changes \/ Change
  PROVE  ContextStays
<1>1. changes' \in 0 .. MaxChanges
  BY ContextAssumption DEF ContextInv, ContextTypeOK, CountersOK, Change
<1> QED BY <1>1 DEF ContextInv, ContextTypeOK, CountersOK, SessionOK, DecisionOK, ContextStays,
                session, observed

LEMMA SameIdentity ==
  ASSUME ContextStays
  PROVE  /\ PullIdentity' = PullIdentity /\ Identity' = Identity
         /\ open' = open /\ reviewing' = reviewing
         /\ \A i : NotNewer(i)' <=> NotNewer(i)
BY DEF ContextStays, attached, PullIdentity, Identity, NotNewer

\* The same coordinator and pulls, once the UI thread has gone on.
LEMMA SameChoice ==
  ASSUME ContextInv, ContextStays, NEW c, NEW rest, PullsInv(rest), SlotInv(c, rest),
         coord' = c, pulls' = rest, UNCHANGED <<authority, reserved>>, writeEpoch' \in Nat,
         uiCall' = uiCall \/ (uiCall' = "none" /\ \A q \in rest : q.at # "reserved")
  PROVE  ContextInv' /\ PullsInv(pulls)' /\ SlotInv(coord, pulls)'
<1>1. /\ PullIdentity' = PullIdentity /\ Identity' = Identity
      /\ open' = open /\ reviewing' = reviewing
      /\ \A i : NotNewer(i)' <=> NotNewer(i)
  BY SameIdentity
<1>2. Open' = Open /\ Blocked' = Blocked
  BY <1>1 DEF Open, Blocked
<1>3. ContextInv'
  BY <1>1 DEF ContextInv, ContextStays, attached, ContextTypeOK,
       CountersOK, SessionOK, DecisionOK
<1>4. PullsInv(pulls)'
  BY <1>1, <1>2 DEF PullsInv, PullFits
<1>5. SlotInv(coord, pulls)'
  BY <1>1, <1>2 DEF SlotInv, Holds, CoordinatorFits, Unanswered
<1> QED BY <1>3, <1>4, <1>5

LEMMA NoPullKeeps ==
  ASSUME ContextInv, ContextStays, NEW c, NEW rest, PullsInv(rest), SlotInv(c, rest),
         NoPull(c, rest)
  PROVE  ContextInv' /\ PullsInv(pulls)' /\ SlotInv(coord, pulls)'
<1>1. /\ coord' = c /\ pulls' = rest /\ UNCHANGED <<authority, reserved>>
      /\ uiCall' = uiCall /\ writeEpoch' \in Nat
  BY DEF NoPull, decision, ContextInv, ContextTypeOK, CountersOK
<1> QED BY <1>1, SameChoice

\* A coordinator that only remembers more.
LEMMA RememberKeeps ==
  ASSUME NEW c, NEW d \in CoordinatorRow, NEW rest, SlotInv(c, rest),
         d.of = c.of, d.validated = c.validated, d.pulling = c.pulling, d.backoff = c.backoff,
         d.pending \/ d.pending = c.pending,
         d.deferred = c.deferred \/ \A q \in rest : q.of # PullIdentity
  PROVE  SlotInv(d, rest)
<1>1. \A q \in rest : q.of = PullIdentity => Holds(d, q)
  BY DEF SlotInv, Holds
<1>2. d.of = PullIdentity => CoordinatorFits(d, rest)
  BY DEF SlotInv, CoordinatorFits
<1> QED BY <1>1, <1>2 DEF SlotInv
\* The slot is free: no pull for the identity at hand is on its way.
LEMMA FreeSlot ==
  ASSUME NEW c, NEW rest, PullsInv(rest), SlotInv(c, rest), c.pulling = 0
  PROVE  \A q \in rest : q.of # PullIdentity
BY DEF PullsInv, SlotInv, Holds, PullRow

LEMMA ReserveKeeps ==
  ASSUME ContextInv, ContextStays, WorkInv, open # Nothing, uiCall = "none", ~reviewing,
         NEW c, NEW rest, PullsInv(rest), SlotInv(c, rest),
         c.of = PullIdentity, c.pulling = 0,
         NEW flags \in SUBSET {"manual", "drain"}, NEW reason,
         Reserve(c, flags, reason, rest)
  PROVE  ContextInv' /\ PullsInv(pulls)' /\ SlotInv(coord, pulls)'
<1>1. /\ PullIdentity' = PullIdentity /\ Identity' = Identity
      /\ open' = open /\ reviewing' = reviewing
      /\ \A i : NotNewer(i)' <=> NotNewer(i)
  BY SameIdentity
<1>2. /\ PullIdentity \in Nat \X Nat /\ PullIdentity # Nothing
      /\ NotNewer(PullIdentity) /\ Identity \in Account \cup {Nothing}
  BY IdentityIsKnown
<1>3. \A q \in rest : q.of # PullIdentity
  BY FreeSlot
<1> DEFINE new == [n |-> reserved + 1, of |-> PullIdentity, account |-> Identity,
                   flags |-> (flags \cup c.deferred) \ {"baseline"},
                   baseline |-> IsBaseline(c, reason),
                   stale |-> FALSE, then |-> "nothing", at |-> "reserved"]
           held == [c EXCEPT !.pending = FALSE, !.pulling = reserved + 1, !.deferred = {}]
<1>4. /\ reserved' = reserved + 1 /\ coord' = held /\ pulls' = rest \cup {new}
      /\ uiCall' = "pull" /\ authority' = Open /\ writeEpoch' = writeEpoch + 1
  BY DEF Reserve, BeginSelection, Choose, Open
<1>5. reserved + 1 \in 1 .. MaxPulls /\ reserved + 1 \in 0 .. MaxPulls
  BY PullsAssumption DEF Reserve, ContextInv
<1>6. c \in CoordinatorRow
  BY DEF SlotInv
<1>7. IsBaseline(c, reason) \in BOOLEAN
  BY DEF IsBaseline
<1>8. /\ new \in PullRow /\ new.n = reserved + 1 /\ new.of = PullIdentity
      /\ new.account = Identity /\ new.at = "reserved"
  <2>1. (flags \cup c.deferred) \ {"baseline"} \in SUBSET {"manual", "drain"}
    BY <1>6 DEF CoordinatorRow
  <2> HIDE <1>4
  <2> QED BY <1>2, <1>5, <1>7, <2>1 DEF PullRow
<1>9. /\ held \in CoordinatorRow /\ held.of = PullIdentity /\ held.validated = c.validated
      /\ held.pulling = reserved + 1 /\ held.deferred = {}
  BY <1>5, <1>6 DEF CoordinatorRow
<1> HIDE DEF new, held
<1>10. Open' = Open
  BY <1>1 DEF Open
<1>11. ContextInv'
  <2>1. authority' \in [choice : {"none", "unknown", "accepted", "blocked"}, of : IdentityOrNothing]
    BY <1>2, <1>4 DEF Open, IdentityOrNothing
  <2>2. NotNewer(authority.of)'
    BY <1>1, <1>2, <1>4 DEF Open
  <2>3. ContextTypeOK'
    BY <1>4, <2>1 DEF ContextInv, ContextStays, attached, ContextTypeOK,
       CountersOK, SessionOK, DecisionOK
  <2> QED BY <1>1, <1>4, <1>5, <2>2, <2>3 DEF ContextInv
<1>12. \A q \in rest : q.at # "reserved"
  BY DEF PullsInv
<1>13. \A q \in pulls' : q \in rest \/ q = new
  BY <1>4
<1>14. PullsInv(pulls)'
  <2>1. \A q \in pulls' : q \in PullRow /\ NotNewer(q.of)'
    BY <1>1, <1>2, <1>8, <1>13 DEF PullsInv
  <2>2. \A q, r \in pulls' : q.of = r.of => q = r
    BY <1>3, <1>8, <1>13 DEF PullsInv
  <2>3. \A q \in pulls' : q.at = "reserved" =>
          uiCall' = "pull" /\ \A r \in pulls' : r.at = "reserved" => r = q
    BY <1>4, <1>12, <1>13
  <2>4. \A q \in pulls' : q.of = PullIdentity' => PullFits(q)'
    BY <1>1, <1>3, <1>4, <1>8, <1>10, <1>13 DEF PullFits
  <2> QED BY <2>1, <2>2, <2>3, <2>4 DEF PullsInv
<1>15. SlotInv(coord, pulls)'
  <2>1. new \in pulls'
    BY <1>4
  <2>2. c.validated => Identity # Nothing
    BY DEF SlotInv, CoordinatorFits
  <2>3. \A q \in pulls' : q.of = PullIdentity' => Holds(coord, q)'
    BY <1>1, <1>3, <1>4, <1>8, <1>9, <1>13, <2>2 DEF Holds
  <2>4. CoordinatorFits(coord, pulls)'
    BY <1>1, <1>4, <1>8, <1>9, <2>1, <2>2 DEF CoordinatorFits, Unanswered
  <2> QED BY <1>1, <1>2, <1>4, <1>8, <1>9, <2>1, <2>3, <2>4 DEF SlotInv
<1> QED BY <1>11, <1>14, <1>15

LEMMA RequestKeeps ==
  ASSUME ContextInv, ContextStays, WorkInv, open # Nothing, uiCall = "none",
         NEW c, NEW rest, PullsInv(rest), SlotInv(c, rest), c.of = PullIdentity,
         NEW flags \in SUBSET {"manual", "drain"}, NEW reason,
         RequestPull(c, flags, reason, rest)
  PROVE  ContextInv' /\ PullsInv(pulls)' /\ SlotInv(coord, pulls)'
<1>1. CASE reviewing
  <2> DEFINE d == Deferred(c, flags, reason)
  <2>1. \A q \in rest : q.of # PullIdentity
    BY <1>1 DEF PullsInv, PullFits
  <2>2. c \in CoordinatorRow
    BY DEF SlotInv
  <2>3. /\ d \in CoordinatorRow /\ d.of = c.of /\ d.validated = c.validated
        /\ d.pulling = c.pulling /\ d.backoff = c.backoff /\ d.pending
    BY <2>2 DEF Deferred, CoordinatorRow
  <2>4. NoPull(d, rest)
    BY <1>1 DEF RequestPull
  <2> HIDE DEF d
  <2>5. SlotInv(d, rest)
    BY <2>1, <2>3, RememberKeeps
  <2> QED BY <2>4, <2>5, NoPullKeeps
<1>2. CASE NoPull(c, rest)
  BY <1>2, NoPullKeeps
<1>3. CASE NoPull([c EXCEPT !.pending = TRUE], rest)
  <2> DEFINE d == [c EXCEPT !.pending = TRUE]
  <2>1. c \in CoordinatorRow
    BY DEF SlotInv
  <2>2. /\ d \in CoordinatorRow /\ d.of = c.of /\ d.validated = c.validated
        /\ d.pulling = c.pulling /\ d.backoff = c.backoff /\ d.pending
        /\ d.deferred = c.deferred
    BY <2>1 DEF CoordinatorRow
  <2>3. NoPull(d, rest)
    BY <1>3
  <2> HIDE DEF d
  <2>4. SlotInv(d, rest)
    BY <2>2, RememberKeeps
  <2> QED BY <2>3, <2>4, NoPullKeeps
<1>4. CASE /\ ~reviewing /\ ~MustWait(c, flags, reason, rest)
           /\ Reserve(c, flags, reason, rest)
  <2>1. c.pulling = 0
    BY <1>4 DEF MustWait
  <2> QED BY <1>4, <2>1, ReserveKeeps
<1> QED BY <1>1, <1>2, <1>3, <1>4 DEF RequestPull
LEMMA DeferredPullKeeps ==
  ASSUME ContextInv, ContextStays, WorkInv, open # Nothing, uiCall = "none",
         NEW c, NEW rest, PullsInv(rest), SlotInv(c, rest), c.of = PullIdentity,
         DeferredPull(c, rest)
  PROVE  ContextInv' /\ PullsInv(pulls)' /\ SlotInv(coord, pulls)'
<1>1. {} \in SUBSET {"manual", "drain"}
  OBVIOUS
<1>2. RequestPull(c, {}, "general", rest) \/ NoPull(c, rest)
  BY DEF DeferredPull
<1> QED BY <1>1, <1>2, RequestKeeps, NoPullKeeps

LEMMA DrainKeeps ==
  ASSUME ContextInv, ContextStays, WorkInv, open # Nothing, uiCall = "none",
         NEW c, NEW rest, PullsInv(rest), SlotInv(c, rest), c.of = PullIdentity,
         NEW manual \in BOOLEAN, Drain(c, manual, rest)
  PROVE  /\ ContextInv' /\ PullsInv(pulls)' /\ SlotInv(coord, pulls)'
         /\ sending' = sending \/ sending' \in [project : Project, kind : Kind]
<1>1. CASE RequestPull(c, {"manual", "drain"}, "any", rest) /\ UNCHANGED sending
  BY <1>1, RequestKeeps
<1>2. CASE NoPull(c, rest) /\ UNCHANGED sending
  BY <1>2, NoPullKeeps
<1>3. CASE SendNext(c, rest)
  <2>1. PICK kind \in queued[open] :
          \/ /\ sending' = [project |-> open, kind |-> kind]
             /\ NoPull([c EXCEPT !.pending = @ \/ c.validated], rest)
          \/ UNCHANGED sending /\ NoPull(c, rest)
    BY <1>3 DEF SendNext
  <2>2. open \in Project /\ kind \in Kind
    BY DEF ContextInv, ContextTypeOK, CountersOK, WorkInv
  <2>3. CASE UNCHANGED sending /\ NoPull(c, rest)
    BY <2>3, NoPullKeeps
  <2>4. CASE /\ sending' = [project |-> open, kind |-> kind]
             /\ NoPull([c EXCEPT !.pending = @ \/ c.validated], rest)
    <3> DEFINE d == [c EXCEPT !.pending = @ \/ c.validated]
    <3>1. c \in CoordinatorRow
      BY DEF SlotInv
    <3>2. c.pending \in BOOLEAN /\ c.validated \in BOOLEAN
      BY <3>1 DEF CoordinatorRow
    <3>3. (c.pending \/ c.validated) \in BOOLEAN
      BY <3>2
    <3>4. /\ d \in CoordinatorRow /\ d.of = c.of /\ d.validated = c.validated
          /\ d.pulling = c.pulling /\ d.backoff = c.backoff /\ d.deferred = c.deferred
      BY <3>1, <3>3 DEF CoordinatorRow
    <3>5. d.pending = (c.pending \/ c.validated)
      BY <3>1 DEF CoordinatorRow
    <3>6. d.pending \/ d.pending = c.pending
      BY <3>2, <3>5
    <3>7. NoPull(d, rest)
      BY <2>4
    <3> HIDE DEF d
    <3>8. SlotInv(d, rest)
      BY <3>4, <3>6, RememberKeeps
    <3>9. sending' \in [project : Project, kind : Kind]
      BY <2>2, <2>4
    <3> QED BY <3>7, <3>8, <3>9, NoPullKeeps
  <2> QED BY <2>1, <2>3, <2>4
<1>4. CASE DeferredPull(c, rest) /\ UNCHANGED sending
  BY <1>4, DeferredPullKeeps
<1> QED BY <1>1, <1>2, <1>3, <1>4 DEF Drain

\* _current_pull_coordinator keeps the invariant, whether it makes one or not.
LEMMA CoordinatorIsSound ==
  ASSUME PullInv, open # Nothing, uiCall = "none"
  PROVE  Coordinator.of = PullIdentity /\ SlotInv(Coordinator, pulls)
<1>1. CASE coord.of = PullIdentity
  <2>1. Coordinator = coord
    BY <1>1 DEF Coordinator, IsCurrent
  <2> QED BY <1>1, <2>1 DEF PullInv
<1>2. CASE coord.of # PullIdentity
  <2> DEFINE c == NewCoordinator(PullIdentity)
  <2>1. Coordinator = c
    BY <1>2 DEF Coordinator, IsCurrent
  <2>2. /\ PullIdentity \in Nat \X Nat /\ NotNewer(PullIdentity)
    BY IdentityIsKnown DEF PullInv
  <2>3. 0 \in 0 .. MaxPulls
    BY PullsAssumption
  <2>4. /\ c \in CoordinatorRow /\ c.of = PullIdentity /\ ~c.validated /\ c.pending
        /\ c.pulling = 0
    BY <2>2, <2>3 DEF NewCoordinator, CoordinatorRow, IdentityOrNothing
  <2>5. \A q \in pulls : q.of # PullIdentity
    BY <1>2 DEF PullInv, SlotInv, Holds
  <2> HIDE DEF c
  <2>6. SlotInv(c, pulls)
    BY <2>2, <2>4, <2>5 DEF SlotInv, CoordinatorFits
  <2> QED BY <2>1, <2>4, <2>6
<1> QED BY <1>1, <1>2

-----------------------------------------------------------------------------
(* Requests and edits *)

LEMMA KeptStays ==
  ASSUME PullInv, Kept, UNCHANGED changes \/ Change
  PROVE  ContextStays /\ queued' = queued /\ stuck' = stuck
BY ContextKept DEF PullInv, Kept

LEMMA AskForPullStep ==
  ASSUME PullInv, NEW flags \in SUBSET {"manual", "drain"}, NEW reason,
         AskForPull(flags, reason)
  PROVE  PullInv'
<1>1. /\ open # Nothing /\ uiCall = "none" /\ Kept /\ UNCHANGED <<wakes, sending>>
      /\ UNCHANGED changes \/ Change
      /\ RequestPull(Coordinator, flags, reason, pulls)
  BY DEF AskForPull
<1>2. ContextStays /\ queued' = queued /\ stuck' = stuck
  BY <1>1, KeptStays
<1>3. Coordinator.of = PullIdentity /\ SlotInv(Coordinator, pulls)
  BY <1>1, CoordinatorIsSound
<1>4. ContextInv' /\ PullsInv(pulls)' /\ SlotInv(coord, pulls)'
  BY <1>1, <1>2, <1>3, RequestKeeps DEF PullInv
<1>5. WorkInv'
  BY <1>1, <1>2 DEF PullInv, WorkInv
<1> QED BY <1>4, <1>5 DEF PullInv

LEMMA RetryPendingStep ==
  ASSUME PullInv, NEW manual \in BOOLEAN, RetryPending(manual)
  PROVE  PullInv'
<1>1. /\ open # Nothing /\ uiCall = "none" /\ Kept /\ UNCHANGED wakes
      /\ UNCHANGED changes \/ Change
      /\ Drain(Coordinator, manual, pulls)
  BY DEF RetryPending
<1>2. ContextStays /\ queued' = queued /\ stuck' = stuck
  BY <1>1, KeptStays
<1>3. Coordinator.of = PullIdentity /\ SlotInv(Coordinator, pulls)
  BY <1>1, CoordinatorIsSound
<1>4. /\ ContextInv' /\ PullsInv(pulls)' /\ SlotInv(coord, pulls)'
      /\ sending' = sending \/ sending' \in [project : Project, kind : Kind]
  BY <1>1, <1>2, <1>3, DrainKeeps DEF PullInv
<1>5. WorkInv'
  BY <1>1, <1>2, <1>4 DEF PullInv, WorkInv
<1> QED BY <1>4, <1>5 DEF PullInv

LEMMA WakeUpStep ==
  ASSUME PullInv, NEW w \in wakes, WakeUp(w)
  PROVE  PullInv'
<1>1. /\ uiCall = "none" /\ Kept /\ UNCHANGED <<sending, changes>> /\ wakes' = wakes \ {w}
  BY DEF WakeUp
<1>2. ContextStays /\ queued' = queued /\ stuck' = stuck
  BY <1>1, KeptStays
<1>3. ContextInv' /\ PullsInv(pulls)' /\ SlotInv(coord, pulls)'
  <2>1. CASE IsCurrent(coord) /\ RequestPull(coord, {}, w.reason, pulls)
    <3>1. {} \in SUBSET {"manual", "drain"} /\ open # Nothing /\ coord.of = PullIdentity
      BY <2>1 DEF IsCurrent
    <3> QED BY <1>1, <1>2, <2>1, <3>1, RequestKeeps DEF PullInv
  <2>2. CASE NoPull(coord, pulls)
    BY <1>2, <2>2, NoPullKeeps DEF PullInv
  <2> QED BY <2>1, <2>2 DEF WakeUp
<1>4. WorkInv'
  BY <1>1, <1>2 DEF PullInv, WorkInv
<1> QED BY <1>3, <1>4 DEF PullInv

\* What waits in the queue is no concern of the pulls.
LEMMA PullsStay ==
  ASSUME PullInv, ContextStays, UNCHANGED <<decision, coord, pulls, reserved, uiCall>>
  PROVE  ContextInv' /\ PullsInv(pulls)' /\ SlotInv(coord, pulls)'
<1>1. NoPull(coord, pulls)
  BY DEF NoPull
<1> QED BY <1>1, NoPullKeeps DEF PullInv

LEMMA EditStep ==
  ASSUME PullInv, NEW kind \in Kind, Edit(kind)
  PROVE  PullInv'
<1>1. /\ UNCHANGED <<attached, login, session, uiCall, epoch, decision, observed,
                     coord, reserved, wakes, stuck, sending, reviewing>>
      /\ queued' = [queued EXCEPT ![open] = @ \cup {kind}]
      /\ open # Nothing /\ Change
  BY DEF Edit
<1>3. ContextStays
  BY <1>1, ContextKept DEF PullInv
<1>4. WorkInv'
  <2>1. open \in Project
    BY <1>1 DEF PullInv, ContextInv, ContextTypeOK, CountersOK
  <2>2. queued' \in [Project -> SUBSET Kind]
    BY <1>1, <2>1 DEF PullInv, WorkInv
  <2> QED BY <1>1, <2>2 DEF PullInv, WorkInv
<1>5. ASSUME kind = "document" PROVE ContextInv' /\ PullsInv(pulls)' /\ SlotInv(coord, pulls)'
  <2>1. UNCHANGED pulls
    BY <1>5 DEF Edit
  <2> QED BY <1>1, <1>3, <2>1, PullsStay
<1>6. ASSUME kind # "document" PROVE ContextInv' /\ PullsInv(pulls)' /\ SlotInv(coord, pulls)'
  <2> DEFINE later(r) == [r EXCEPT !.stale = @ \/ r.at = "running"]
  <2>1. pulls' = {later(r) : r \in pulls}
    BY <1>6 DEF Edit
  <2>2. ASSUME NEW r \in pulls
        PROVE  /\ r \in PullRow /\ later(r) \in PullRow
               /\ later(r).n = r.n /\ later(r).of = r.of /\ later(r).account = r.account
               /\ later(r).at = r.at /\ later(r).then = r.then
    <3>1. r \in PullRow
      BY DEF PullInv, PullsInv
    <3>2. r.stale \in BOOLEAN
      BY <3>1 DEF PullRow
    <3>3. (r.stale \/ r.at = "running") \in BOOLEAN
      BY <3>2
    <3> QED BY <3>1, <3>3 DEF PullRow
  <2> HIDE DEF later
  <2>3. /\ PullIdentity' = PullIdentity /\ Identity' = Identity
        /\ open' = open /\ reviewing' = reviewing
        /\ \A i : NotNewer(i)' <=> NotNewer(i)
    BY <1>3, SameIdentity
  <2>4. Open' = Open /\ Blocked' = Blocked /\ authority' = authority /\ uiCall' = uiCall /\ coord' = coord
    BY <1>1, <2>3 DEF Open, Blocked, decision
  <2>5. ContextInv'
    BY <1>1, <1>3, <2>3, <2>4 DEF PullInv, ContextInv, ContextStays, attached, decision,
         ContextTypeOK, CountersOK, SessionOK, DecisionOK
  <2>6. PullsInv(pulls)'
    <3>1. PullsInv(pulls)
      BY DEF PullInv
    <3>2. \A q \in pulls' : q \in PullRow /\ NotNewer(q.of)'
      BY <2>1, <2>2, <2>3, <3>1 DEF PullsInv
    <3>3. \A q, r \in pulls' : q.of = r.of => q = r
      BY <2>1, <2>2, <3>1 DEF PullsInv
    <3>4. \A q \in pulls' : q.at = "reserved" =>
            uiCall' = "pull" /\ \A r \in pulls' : r.at = "reserved" => r = q
      BY <2>1, <2>2, <2>4, <3>1 DEF PullsInv
    <3>5. \A q \in pulls' : q.of = PullIdentity' => PullFits(q)'
      BY <2>1, <2>2, <2>3, <2>4, <3>1 DEF PullsInv, PullFits
    <3> QED BY <3>2, <3>3, <3>4, <3>5 DEF PullsInv
  <2>7. SlotInv(coord, pulls)'
    <3>1. SlotInv(coord, pulls)
      BY DEF PullInv
    <3>2. coord'.pulling # 0 => \E q \in pulls' : coord'.of = q.of /\ coord'.pulling = q.n
      BY <2>1, <2>2, <2>4, <3>1 DEF SlotInv
    <3>3. \A q \in pulls' : q.of = PullIdentity' => Holds(coord, q)'
      BY <2>1, <2>2, <2>3, <2>4, <3>1 DEF SlotInv, Holds
    <3>4. Unanswered(pulls)' => Unanswered(pulls)
      BY <2>1, <2>2, <2>3, <2>4 DEF Unanswered
    <3>5. coord'.of = PullIdentity' => CoordinatorFits(coord, pulls)'
      BY <2>3, <2>4, <3>1, <3>4 DEF SlotInv, CoordinatorFits
    <3> QED BY <2>3, <2>4, <3>1, <3>2, <3>3, <3>5 DEF SlotInv
  <2> QED BY <2>5, <2>6, <2>7
<1> QED BY <1>4, <1>5, <1>6 DEF PullInv

LEMMA SettleStep ==
  ASSUME PullInv, NEW kind \in Kind, Settle(kind)
  PROVE  PullInv'
<1>1. /\ UNCHANGED <<contextVars, coord, pulls, reserved, wakes, sending, reviewing>>
      /\ open # Nothing /\ stuck' = [stuck EXCEPT ![open] = @ \ {kind}]
      /\ queued' \in {queued, [queued EXCEPT ![open] = @ \cup {kind}]}
  BY DEF Settle
<1>2. ContextStays /\ UNCHANGED <<decision, uiCall>>
  <2>1. UNCHANGED <<attached, login, session, epoch, observed, decision, uiCall, changes>>
    BY <1>1 DEF contextVars, attached, session, observed, decision
  <2> QED BY <1>1, <2>1, ContextKept DEF PullInv
<1>3. ContextInv' /\ PullsInv(pulls)' /\ SlotInv(coord, pulls)'
  BY <1>1, <1>2, PullsStay
<1>4. WorkInv'
  <2>1. open \in Project
    BY <1>1 DEF PullInv, ContextInv, ContextTypeOK, CountersOK
  <2>2. queued' \in [Project -> SUBSET Kind] /\ stuck' \in [Project -> SUBSET Kind]
    BY <1>1, <2>1 DEF PullInv, WorkInv
  <2> QED BY <1>1, <2>2 DEF PullInv, WorkInv
<1> QED BY <1>3, <1>4 DEF PullInv

\* Whether the login counts as blocked is no concern of the pulls either.
LEMMA SendEndsStep ==
  ASSUME PullInv, NEW outcome, SendEnds(outcome)
  PROVE  PullInv'
<1>1. /\ UNCHANGED <<attached, login, holder, authenticated, restoring, uiCall, epoch, decision,
                     observed, coord, pulls, reserved, wakes, reviewing>>
      /\ sending # Nothing /\ sending' = Nothing
      /\ UNCHANGED changes \/ Change
  BY DEF SendEnds
<1>2. authBlocked' \in BOOLEAN
  <2>1. authBlocked \in BOOLEAN
    BY DEF PullInv, ContextInv, ContextTypeOK, SessionOK
  <2> QED BY <2>1 DEF SendEnds
<1>3. changes' \in 0 .. MaxChanges
  BY <1>1, ContextAssumption DEF PullInv, ContextInv, ContextTypeOK, CountersOK, Change
<1>4. ContextStays
  BY <1>1, <1>2, <1>3 DEF PullInv, ContextInv, ContextTypeOK, CountersOK, SessionOK, DecisionOK,
    ContextStays, observed
<1>5. ContextInv' /\ PullsInv(pulls)' /\ SlotInv(coord, pulls)'
  BY <1>1, <1>4, PullsStay
<1>9. WorkInv'
  <2>1. sending.project \in Project /\ sending.kind \in Kind
    BY <1>1 DEF PullInv, WorkInv
  <2>2. /\ queued' = [queued EXCEPT ![sending.project] =
                        IF outcome \in {"last", "stuck"} THEN @ \ {sending.kind} ELSE @]
        /\ stuck' = [stuck EXCEPT ![sending.project] =
                       IF outcome = "stuck" THEN @ \cup {sending.kind} ELSE @]
    BY DEF SendEnds
  <2>3. queued' \in [Project -> SUBSET Kind] /\ stuck' \in [Project -> SUBSET Kind]
    BY <2>1, <2>2 DEF PullInv, WorkInv
  <2> QED BY <1>1, <2>3 DEF PullInv, WorkInv
<1> QED BY <1>5, <1>9 DEF PullInv
-----------------------------------------------------------------------------
(* One pull *)

LEMMA FewerPulls ==
  ASSUME NEW ps, PullsInv(ps), NEW q
  PROVE  PullsInv(ps \ {q})
BY DEF PullsInv, PullFits

\* A pull that does not own the slot disappears.
LEMMA ForgottenKeeps ==
  ASSUME NEW c, NEW ps, PullsInv(ps), SlotInv(c, ps), NEW q \in ps,
         ~(c.of = q.of /\ c.pulling = q.n)
  PROVE  PullsInv(ps \ {q}) /\ SlotInv(c, ps \ {q})
<1>1. q.of # PullIdentity
  BY DEF SlotInv, Holds
<1>2. Unanswered(ps \ {q}) => Unanswered(ps)
  BY <1>1 DEF Unanswered
<1>3. SlotInv(c, ps \ {q})
  BY <1>2 DEF SlotInv, CoordinatorFits, Holds
<1> QED BY <1>3, FewerPulls

\* The pull that owns the slot disappears, and the slot is free.
LEMMA FreedKeeps ==
  ASSUME NEW c, NEW ps, PullsInv(ps), SlotInv(c, ps), NEW q \in ps,
         c.of = q.of, c.pulling = q.n,
         NEW d \in CoordinatorRow, d.of = c.of, d.pulling = 0, d.validated => c.validated,
         q.of = PullIdentity /\ Unanswered(ps \ {q}) => d.pending \/ ~d.validated
  PROVE  PullsInv(ps \ {q}) /\ SlotInv(d, ps \ {q})
<1>1. \A r \in ps \ {q} : r.of # PullIdentity
  BY DEF PullsInv, SlotInv, Holds
<1>2. NotNewer(d.of)
  BY DEF SlotInv
<1>3. d.of = PullIdentity => CoordinatorFits(d, ps \ {q})
  BY DEF SlotInv, CoordinatorFits
<1> QED BY <1>1, <1>2, <1>3, FewerPulls DEF SlotInv

\* What is left of a choice when a pull has taken its next step.
ChoiceFits(q, c) ==
  /\ q.at # "finishing" => authority = Open
  /\ c.validated => q.account # Nothing
  /\ q.at = "finishing" /\ authority = Blocked => ~c.backoff /\ q.then # "drain"
  /\ q.at = "finishing" /\ authority = Open => c.pending \/ ~c.validated

LEMMA MovedKeeps ==
  ASSUME PullInv, ContextStays, NEW q \in pulls, NEW new \in PullRow,
         new.n = q.n, new.of = q.of, new.account = q.account, new.at # "reserved",
         Moved(q, new),
         coord' \in CoordinatorRow, coord'.of = coord.of, coord'.pulling = coord.pulling,
         coord'.deferred = coord.deferred,
         UNCHANGED reserved, writeEpoch' \in Nat,
         uiCall' = uiCall \/ (uiCall' = "none" /\ q.at = "reserved"),
         authority' = authority \/ (/\ q.of = PullIdentity /\ authority'.of = PullIdentity
                                    /\ authority' \in [choice : {"none", "unknown", "accepted", "blocked"},
                                                       of : IdentityOrNothing]),
         q.of # PullIdentity => coord' = coord,
         q.of = PullIdentity => ChoiceFits(new, coord)'
  PROVE  ContextInv' /\ PullsInv(pulls)' /\ SlotInv(coord, pulls)'
<1>1. /\ PullIdentity' = PullIdentity /\ Identity' = Identity
      /\ open' = open /\ reviewing' = reviewing
      /\ \A i : NotNewer(i)' <=> NotNewer(i)
  BY SameIdentity
<1>2. Open' = Open /\ Blocked' = Blocked
  BY <1>1 DEF Open, Blocked
<1>3. PullsInv(pulls) /\ SlotInv(coord, pulls) /\ ContextInv
  BY DEF PullInv
<1>4. q.of = PullIdentity => coord.of = PullIdentity /\ CoordinatorFits(coord, pulls)
  BY <1>3 DEF SlotInv, Holds
<1>5. \A r \in pulls' : (r \in pulls /\ r # q) \/ r = new
  BY DEF Moved
<1>6. new \in pulls' /\ \A r \in pulls : r # q => r \in pulls'
  BY DEF Moved
<1>7. NotNewer(PullIdentity)
  BY <1>3, IdentityIsKnown
<1>8. ContextInv'
  <2>1. authority' \in [choice : {"none", "unknown", "accepted", "blocked"}, of : IdentityOrNothing]
    BY <1>3 DEF ContextInv, ContextTypeOK, DecisionOK
  <2>2. NotNewer(authority.of)'
    BY <1>1, <1>3, <1>7 DEF ContextInv
  <2>3. uiCall' \in {"none", "sign_in", "sign_out", "pull"}
    BY <1>3 DEF ContextInv, ContextTypeOK, CountersOK
  <2>4. ContextTypeOK'
    BY <1>3, <2>1, <2>3 DEF ContextInv, ContextStays, attached, ContextTypeOK,
      CountersOK, SessionOK, DecisionOK
  <2>5. uiCall' \in {"sign_in", "sign_out"} => authority'.of # PullIdentity'
    BY <1>1, <1>3, <1>4 DEF ContextInv, CoordinatorFits
  <2> QED BY <1>1, <1>3, <2>2, <2>4, <2>5 DEF ContextInv
<1>9. PullsInv(pulls)'
  <2>1. \A r \in pulls' : r \in PullRow /\ NotNewer(r.of)'
    BY <1>1, <1>3, <1>5 DEF PullsInv
  <2>2. \A r, s \in pulls' : r.of = s.of => r = s
    BY <1>3, <1>5 DEF PullsInv
  <2>3. \A r \in pulls' : r.at = "reserved" =>
          uiCall' = "pull" /\ \A s \in pulls' : s.at = "reserved" => s = r
    BY <1>3, <1>5 DEF PullsInv
  <2>4. \A r \in pulls' : r.of = PullIdentity' => PullFits(r)'
    <3> SUFFICES ASSUME NEW r \in pulls', r.of = PullIdentity' PROVE PullFits(r)'
      OBVIOUS
    <3>1. CASE r = new
      BY <1>1, <1>2, <1>3, <3>1 DEF PullsInv, PullFits, ChoiceFits
    <3>2. CASE r \in pulls /\ r # q
      <4>1. q.of # PullIdentity
        BY <1>1, <1>3, <3>2 DEF PullsInv
      <4> QED BY <1>1, <1>2, <1>3, <3>2, <4>1 DEF PullsInv, PullFits
    <3> QED BY <1>5, <3>1, <3>2
  <2> QED BY <2>1, <2>2, <2>3, <2>4 DEF PullsInv
<1>10. SlotInv(coord, pulls)'
  <2>1. coord'.pulling # 0 => \E r \in pulls' : coord'.of = r.of /\ coord'.pulling = r.n
    BY <1>3, <1>6 DEF SlotInv
  <2>2. \A r \in pulls' : r.of = PullIdentity' => Holds(coord, r)'
    <3> SUFFICES ASSUME NEW r \in pulls', r.of = PullIdentity' PROVE Holds(coord, r)'
      OBVIOUS
    <3>1. CASE r = new
      <4>1. Holds(coord, q)
        BY <1>1, <1>3, <3>1 DEF SlotInv
      <4> QED BY <1>1, <1>2, <3>1, <4>1 DEF Holds, ChoiceFits
    <3>2. CASE r \in pulls /\ r # q
      <4>1. q.of # PullIdentity
        BY <1>1, <1>3, <3>2 DEF PullsInv
      <4>2. Holds(coord, r)
        BY <1>1, <1>3, <3>2 DEF SlotInv
      <4> QED BY <1>2, <4>1, <4>2 DEF Holds
    <3> QED BY <1>5, <3>1, <3>2
  <2>3. coord'.of = PullIdentity' => CoordinatorFits(coord, pulls)'
    <3> SUFFICES ASSUME coord.of = PullIdentity PROVE CoordinatorFits(coord, pulls)'
      BY <1>1
    <3>1. CoordinatorFits(coord, pulls)
      BY <1>3 DEF SlotInv
    <3>2. CASE q.of = PullIdentity
      <4>1. coord'.validated => Identity' # Nothing
        BY <1>1, <1>3, <3>2 DEF ChoiceFits, PullsInv, PullFits
      <4>2. Unanswered(pulls)' => coord'.pending \/ ~coord'.validated
        BY <1>1, <1>2, <1>6, <3>2 DEF ChoiceFits, Unanswered
      <4> QED BY <3>1, <4>1, <4>2 DEF CoordinatorFits
    <3>3. CASE q.of # PullIdentity
      <4>1. Unanswered(pulls)' => Unanswered(pulls)
        BY <1>1, <1>2, <1>6, <3>3 DEF Unanswered
      <4> QED BY <1>1, <3>1, <3>3, <4>1 DEF CoordinatorFits
    <3> QED BY <3>2, <3>3
  <2> QED BY <1>1, <1>3, <2>1, <2>2, <2>3 DEF SlotInv
<1> QED BY <1>8, <1>9, <1>10
\* A validated project has its account, so the pull for it is live.
LEMMA ValidatedIsLive ==
  ASSUME PullInv, NEW q \in pulls, q.of = PullIdentity, coord.validated
  PROVE  IsLive(q)
BY DEF PullInv, PullsInv, PullFits, SlotInv, Holds, IsLive, Owns, IsCurrent

LEMMA StartPullStep ==
  ASSUME PullInv, NEW q \in pulls, StartPull(q)
  PROVE  PullInv'
<1>1. /\ q.at = "reserved" /\ uiCall' = "none"
      /\ UNCHANGED <<attached, login, session, epoch, observed, reserved, wakes, work, reviewing>>
      /\ UNCHANGED changes \/ Change
  BY DEF StartPull
<1>2. ContextStays
  BY <1>1, ContextKept DEF PullInv
<1>3. WorkInv'
  BY <1>1 DEF PullInv, WorkInv, work
<1>4. /\ PullsInv(pulls) /\ SlotInv(coord, pulls) /\ ContextInv
      /\ coord \in CoordinatorRow /\ q \in PullRow
  BY DEF PullInv, PullsInv, SlotInv
<1>5. \A r \in pulls \ {q} : r.at # "reserved"
  BY <1>1, <1>4 DEF PullsInv
<1>6. writeEpoch \in Nat
  BY <1>4 DEF ContextInv, ContextTypeOK, CountersOK
<1>7. CASE IsLive(q) /\ Moved(q, [q EXCEPT !.at = "running"]) /\ UNCHANGED <<coord, decision, changes>>
  <2> DEFINE new == [q EXCEPT !.at = "running"]
  <2>1. /\ new \in PullRow /\ new.n = q.n /\ new.of = q.of /\ new.account = q.account
        /\ new.at = "running"
    BY <1>4 DEF PullRow
  <2>2. Moved(q, new)
    BY <1>7
  <2> HIDE DEF new
  <2>3. q.of = PullIdentity /\ authority = Open /\ (coord.validated => q.account # Nothing)
    BY <1>1, <1>4, <1>7 DEF IsLive, Owns, IsCurrent, PullsInv, PullFits, SlotInv, Holds
  <2>4. UNCHANGED <<coord, authority, writeEpoch>>
    BY <1>7 DEF decision
  <2>5. Open' = Open
    BY <1>2, SameIdentity DEF Open
  <2>6. ChoiceFits(new, coord)'
    BY <2>1, <2>3, <2>4, <2>5 DEF ChoiceFits
  <2>7. ContextInv' /\ PullsInv(pulls)' /\ SlotInv(coord, pulls)'
    BY <1>1, <1>2, <1>4, <1>6, <2>1, <2>2, <2>3, <2>4, <2>6, MovedKeeps
  <2> QED BY <1>3, <2>7 DEF PullInv
<1>8. CASE /\ ~IsLive(q) /\ pulls' = pulls \ {q} /\ UNCHANGED <<decision, changes>>
           /\ coord' = IF Owns(q) THEN [coord EXCEPT !.pulling = 0] ELSE coord
  <2>1. CASE Owns(q)
    <3> DEFINE d == [coord EXCEPT !.pulling = 0]
    <3>1. 0 \in 0 .. MaxPulls
      BY PullsAssumption
    <3>2. /\ d \in CoordinatorRow /\ d.of = coord.of /\ d.pulling = 0
          /\ d.validated = coord.validated
      BY <1>4, <3>1 DEF CoordinatorRow
    <3>3. coord' = d
      BY <1>8, <2>1
    <3> HIDE DEF d
    <3>4. q.of = PullIdentity => ~d.validated
      BY <1>8, <3>2, ValidatedIsLive
    <3>5. PullsInv(pulls \ {q}) /\ SlotInv(d, pulls \ {q})
      BY <1>4, <2>1, <3>2, <3>4, FreedKeeps DEF Owns
    <3>6. ContextInv' /\ PullsInv(pulls)' /\ SlotInv(coord, pulls)'
      BY <1>1, <1>2, <1>4, <1>5, <1>6, <1>8, <3>3, <3>5, SameChoice DEF decision
    <3> QED BY <1>3, <3>6 DEF PullInv
  <2>2. CASE ~Owns(q)
    <3>1. PullsInv(pulls \ {q}) /\ SlotInv(coord, pulls \ {q})
      BY <1>4, <2>2, ForgottenKeeps DEF Owns
    <3>2. ContextInv' /\ PullsInv(pulls)' /\ SlotInv(coord, pulls)'
      BY <1>1, <1>2, <1>4, <1>5, <1>6, <1>8, <2>2, <3>1, SameChoice DEF decision
    <3> QED BY <1>3, <3>2 DEF PullInv
  <2> QED BY <2>1, <2>2
<1>9. CASE /\ Change /\ pulls' = pulls \ {q}
           /\ coord' = IF Owns(q)
                       THEN [coord EXCEPT !.pulling = 0, !.pending = TRUE, !.validated = FALSE,
                                          !.deferred = @ \cup q.flags \cup {"baseline"}]
                       ELSE coord
           /\ IF IsLive(q) THEN BeginSelection ELSE UNCHANGED decision
  <2>0. UNCHANGED authority /\ writeEpoch' \in Nat
    <3>1. CASE IsLive(q)
      <4>1. authority = Open
        BY <1>1, <1>4, <3>1 DEF IsLive, Owns, IsCurrent, PullsInv, PullFits
      <4>2. authority' = Open
        BY <1>9, <3>1 DEF BeginSelection, Choose, Open
      <4>3. writeEpoch' = writeEpoch + 1
        BY <1>9, <3>1 DEF BeginSelection
      <4> QED BY <1>6, <4>1, <4>2, <4>3
    <3>2. CASE ~IsLive(q)
      BY <1>6, <1>9, <3>2 DEF decision
    <3> QED BY <3>1, <3>2
  <2>1. CASE Owns(q)
    <3> DEFINE d == [coord EXCEPT !.pulling = 0, !.pending = TRUE, !.validated = FALSE,
                                  !.deferred = @ \cup q.flags \cup {"baseline"}]
    <3>1. 0 \in 0 .. MaxPulls
      BY PullsAssumption
    <3>2. coord.deferred \cup q.flags \cup {"baseline"} \in SUBSET {"manual", "drain", "baseline"}
      BY <1>4 DEF CoordinatorRow, PullRow
    <3>3. /\ d \in CoordinatorRow /\ d.of = coord.of /\ d.pulling = 0
          /\ d.validated = FALSE
      BY <1>4, <3>1, <3>2 DEF CoordinatorRow
    <3>4. coord' = d
      BY <1>9, <2>1
    <3> HIDE DEF d
    <3>5. PullsInv(pulls \ {q}) /\ SlotInv(d, pulls \ {q})
      BY <1>4, <2>1, <3>3, FreedKeeps DEF Owns
    <3>6. ContextInv' /\ PullsInv(pulls)' /\ SlotInv(coord, pulls)'
      BY <1>1, <1>2, <1>4, <1>5, <1>9, <2>0, <3>4, <3>5, SameChoice
    <3> QED BY <1>3, <3>6 DEF PullInv
  <2>2. CASE ~Owns(q)
    <3>1. PullsInv(pulls \ {q}) /\ SlotInv(coord, pulls \ {q})
      BY <1>4, <2>2, ForgottenKeeps DEF Owns
    <3>2. ContextInv' /\ PullsInv(pulls)' /\ SlotInv(coord, pulls)'
      BY <1>1, <1>2, <1>4, <1>5, <1>9, <2>0, <2>2, <3>1, SameChoice
    <3> QED BY <1>3, <3>2 DEF PullInv
  <2> QED BY <2>1, <2>2
<1> QED BY <1>7, <1>8, <1>9 DEF StartPull
-----------------------------------------------------------------------------
(* Leaving an identity *)

\* The pulls of an identity that was left may go on, but none is for the new one.
LEMMA LeavingKeeps ==
  ASSUME PullInv, ContextTypeOK', generation' >= generation, login' >= login,
         generation' > generation \/ login' > login,
         UNCHANGED <<reserved, reviewing>>,
         \/ UNCHANGED pulls
         \/ \E q \in pulls, r \in PullRow :
              Moved(q, r) /\ r.of = q.of /\ r.n = q.n /\ r.at # "reserved",
         uiCall' = uiCall \/ uiCall # "pull",
         \/ UNCHANGED coord
         \/ coord' = NewCoordinator(PullIdentity') /\ uiCall' \notin {"sign_in", "sign_out"},
         \/ UNCHANGED authority \/ authority'.of = Nothing
         \/ authority'.of = PullIdentity' /\ uiCall' \notin {"sign_in", "sign_out"}
  PROVE  ContextInv' /\ PullsInv(pulls)' /\ SlotInv(coord, pulls)'
<1>1. /\ PullsInv(pulls) /\ SlotInv(coord, pulls) /\ ContextInv
      /\ generation' \in Nat /\ login' \in Nat /\ generation \in Nat /\ login \in Nat
  BY DEF PullInv, ContextInv, ContextTypeOK, CountersOK
<1>2. PullIdentity' \in Nat \X Nat /\ PullIdentity' # Nothing /\ NotNewer(PullIdentity)'
  <2>1. PullIdentity' \in Nat \X Nat /\ PullIdentity'[1] = generation' /\ PullIdentity'[2] = login'
    BY <1>1 DEF PullIdentity
  <2>2. PullIdentity' # Nothing
    BY <2>1, ContextAssumption
  <2>3. NotNewer(PullIdentity)'
    BY <1>1, <2>1 DEF NotNewer
  <2> QED BY <2>1, <2>2, <2>3
<1>3. \A i \in IdentityOrNothing : NotNewer(i) => i # PullIdentity' /\ NotNewer(i)'
  BY <1>1, LeftForGood
<1>4. authority.of \in IdentityOrNothing /\ coord.of \in IdentityOrNothing
  BY <1>1 DEF SlotInv, CoordinatorRow, ContextInv, ContextTypeOK, DecisionOK
<1>5. \A q \in pulls : q.of \in IdentityOrNothing /\ NotNewer(q.of)
  BY <1>1 DEF PullsInv, PullRow, IdentityOrNothing
<1>6. \A r \in pulls' : \E q \in pulls : r.of = q.of /\ r.n = q.n /\ (r.at = "reserved" => r = q)
  BY DEF Moved
<1>7. \A q \in pulls : \E r \in pulls' : r.of = q.of /\ r.n = q.n
  BY DEF Moved
<1>8. \A q \in pulls' : q.of # PullIdentity' /\ NotNewer(q.of)'
  BY <1>3, <1>5, <1>6
<1>10. ContextInv'
  <2>1. NotNewer(authority.of)'
    BY <1>1, <1>2, <1>3, <1>4 DEF ContextInv, NotNewer
  <2>2. uiCall' \in {"sign_in", "sign_out"} => authority'.of # PullIdentity'
    BY <1>1, <1>2, <1>3, <1>4 DEF ContextInv
  <2> QED BY <1>1, <2>1, <2>2 DEF ContextInv
<1>11. PullsInv(pulls)'
  <2>1. \A q \in pulls' : q \in PullRow
    BY <1>1 DEF PullsInv, Moved
  <2>2. \A q, r \in pulls' : q.of = r.of => q = r
    BY <1>1 DEF PullsInv, Moved
  <2>3. \A q \in pulls' : q.at = "reserved" =>
          uiCall' = "pull" /\ \A r \in pulls' : r.at = "reserved" => r = q
    BY <1>1, <1>6 DEF PullsInv
  <2> QED BY <1>8, <2>1, <2>2, <2>3 DEF PullsInv
<1>12. SlotInv(coord, pulls)'
  <2>1. CASE UNCHANGED coord
    BY <1>1, <1>3, <1>4, <1>7, <1>8, <2>1 DEF SlotInv
  <2>2. CASE coord' = NewCoordinator(PullIdentity') /\ uiCall' \notin {"sign_in", "sign_out"}
    <3>1. 0 \in 0 .. MaxPulls
      BY PullsAssumption
    <3>2. /\ coord' \in CoordinatorRow /\ coord'.of = PullIdentity' /\ coord'.pending
          /\ coord'.pulling = 0 /\ ~coord'.validated
      BY <1>2, <2>2, <3>1 DEF NewCoordinator, CoordinatorRow, IdentityOrNothing
    <3> QED BY <1>2, <1>8, <2>2, <3>2 DEF SlotInv, CoordinatorFits
  <2> QED BY <2>1, <2>2
<1> QED BY <1>10, <1>11, <1>12
-----------------------------------------------------------------------------
(* The answer to a pull *)

Choices == {"unknown", "accepted", "blocked"}

LEMMA AnsweredKeeps ==
  ASSUME PullInv, ContextStays, NEW q \in pulls, IsLive(q),
         NEW then \in {"nothing", "drain", "again"}, Answered(q, then),
         UNCHANGED <<reserved, uiCall>>, writeEpoch' \in Nat,
         coord' \in CoordinatorRow, coord'.of = coord.of, coord'.pulling = coord.pulling,
         coord'.deferred = coord.deferred,
         NEW choice \in Choices, authority' = [choice |-> choice, of |-> PullIdentity],
         coord'.validated => q.account # Nothing,
         choice = "blocked" => ~coord'.backoff /\ then # "drain",
         choice = "unknown" => coord'.pending \/ ~coord'.validated
  PROVE  ContextInv' /\ PullsInv(pulls)' /\ SlotInv(coord, pulls)'
<1> DEFINE new == [q EXCEPT !.at = "finishing", !.then = then]
<1>1. q \in PullRow
  BY DEF PullInv, PullsInv
<1>2. /\ new \in PullRow /\ new.n = q.n /\ new.of = q.of /\ new.account = q.account
      /\ new.at = "finishing" /\ new.then = then
  BY <1>1 DEF PullRow
<1>3. Moved(q, new)
  BY DEF Answered
<1> HIDE DEF new
<1>4. q.of = PullIdentity
  BY DEF IsLive, Owns, IsCurrent
<1>5. PullIdentity \in Nat \X Nat
  BY IdentityIsKnown DEF PullInv
<1>6. /\ authority'.of = PullIdentity
      /\ authority' \in [choice : {"none", "unknown", "accepted", "blocked"}, of : IdentityOrNothing]
  BY <1>5 DEF Choices, IdentityOrNothing
<1>7. Open' = Open /\ Blocked' = Blocked
  BY SameIdentity DEF Open, Blocked
<1>8. ChoiceFits(new, coord)'
  BY <1>2, <1>7 DEF ChoiceFits, Open, Blocked
<1> QED BY <1>2, <1>3, <1>4, <1>6, <1>8, MovedKeeps

\* What the answer makes of the queue.
LEMMA RetiresKeeps ==
  ASSUME PullInv, open # Nothing, Retires
  PROVE  queued' \in [Project -> SUBSET Kind] /\ stuck' \in [Project -> SUBSET Kind]
<1>1. /\ open \in Project
      /\ queued \in [Project -> SUBSET Kind] /\ stuck \in [Project -> SUBSET Kind]
  BY DEF PullInv, ContextInv, ContextTypeOK, CountersOK, WorkInv
<1>2. stuck' = stuck \/ stuck' = [stuck EXCEPT ![open] = @ \ {"structure"}]
  BY DEF Retires
<1>3. queued' = queued \/ queued' = [queued EXCEPT ![open] = @ \cup {"structure"}]
  BY DEF Retires
<1> QED BY <1>1, <1>2, <1>3 DEF Kind

LEMMA TooLateStep ==
  ASSUME PullInv, NEW q \in pulls, q.at = "running", TooLate(q),
         UNCHANGED <<attached, holder, restoring, uiCall, reserved, wakes, sending, reviewing>>
  PROVE  PullInv'
<1>1. /\ ~IsLive(q) /\ Answered(q, "nothing")
      /\ UNCHANGED <<queued, stuck, coord, authBlocked, authenticated, login, epoch,
                     decision, observed, changes>>
  BY DEF TooLate
<1>2. ContextStays
  BY <1>1, ContextKept DEF session, PullInv
<1> DEFINE new == [q EXCEPT !.at = "finishing", !.then = "nothing"]
<1>3. q \in PullRow
  BY DEF PullInv, PullsInv
<1>4. /\ new \in PullRow /\ new.n = q.n /\ new.of = q.of /\ new.account = q.account
      /\ new.at = "finishing" /\ new.then = "nothing"
  BY <1>3 DEF PullRow
<1>5. Moved(q, new)
  BY <1>1 DEF Answered
<1> HIDE DEF new
<1>6. Open' = Open /\ Blocked' = Blocked /\ Open # Blocked
  BY <1>2, SameIdentity DEF Open, Blocked
<1>7. UNCHANGED <<authority, writeEpoch>>
  BY <1>1 DEF decision
<1>8. q.of = PullIdentity => authority = Open /\ ~coord.validated
  BY <1>1, ValidatedIsLive DEF PullInv, PullsInv, PullFits
<1>9. q.of = PullIdentity => ChoiceFits(new, coord)'
  BY <1>1, <1>4, <1>6, <1>7, <1>8 DEF ChoiceFits
<1>10. coord \in CoordinatorRow /\ writeEpoch \in Nat
  BY DEF PullInv, SlotInv, ContextInv, ContextTypeOK, CountersOK
<1>11. ContextInv' /\ PullsInv(pulls)' /\ SlotInv(coord, pulls)'
  BY <1>1, <1>2, <1>4, <1>5, <1>7, <1>9, <1>10, MovedKeeps
<1>12. WorkInv'
  BY <1>1 DEF PullInv, WorkInv
<1> QED BY <1>11, <1>12 DEF PullInv
\* The answers that leave the login as it is.
LEMMA LiveAnswerStep ==
  ASSUME PullInv, NEW q \in pulls, q.at = "running", IsLive(q),
         UNCHANGED <<attached, holder, restoring, uiCall, reserved, wakes, sending, reviewing>>,
         \/ (DefersApply(q) \/ Stale(q) \/ Applied(q)) /\ UNCHANGED changes
         \/ Fails(q) \/ \E trashed \in BOOLEAN : Refused(q, trashed)
  PROVE  PullInv'
<1>1. /\ coord \in CoordinatorRow /\ q \in PullRow /\ writeEpoch \in Nat
      /\ q.of = PullIdentity /\ authority = Open /\ open # Nothing /\ open \in Project
      /\ (coord.validated => q.account # Nothing)
  BY DEF PullInv, PullsInv, PullFits, SlotInv, Holds, IsLive, Owns, IsCurrent,
    ContextInv, ContextTypeOK, CountersOK
<1>2. Then(q) \in {"nothing", "drain", "again"}
  BY DEF Then
<1>3. ContextInv /\ changes \in 0 .. MaxChanges /\ authBlocked \in BOOLEAN /\ epoch \in Nat
  BY DEF PullInv, ContextInv, ContextTypeOK, CountersOK, SessionOK
<1>4. ASSUME UNCHANGED <<authenticated, login, epoch>>, authBlocked' \in BOOLEAN,
             UNCHANGED changes \/ Change, UNCHANGED observed
      PROVE  ContextStays
  <2>1. changes' \in 0 .. MaxChanges
    BY <1>3, <1>4, ContextAssumption DEF Change
  <2> QED BY <1>3, <1>4, <2>1 DEF ContextInv, ContextTypeOK, CountersOK, SessionOK, DecisionOK,
       ContextStays, observed
<1>5. ASSUME Accept PROVE /\ authority' = [choice |-> "accepted", of |-> PullIdentity]
                          /\ writeEpoch' \in Nat
  BY <1>1, <1>5 DEF Accept, Choose
<1>6. CASE DefersApply(q) /\ UNCHANGED changes
  <2>1. ContextStays
    BY <1>3, <1>4, <1>6 DEF DefersApply
  <2>2. /\ coord' \in CoordinatorRow /\ coord'.of = coord.of /\ coord'.pulling = coord.pulling
        /\ coord'.deferred = coord.deferred
    BY <1>1, <1>6 DEF DefersApply, Accepted, CoordinatorRow
  <2>3. /\ q.account # Nothing /\ Accept /\ Retires /\ Answered(q, Then(q))
    BY <1>6 DEF DefersApply
  <2>4. ContextInv' /\ PullsInv(pulls)' /\ SlotInv(coord, pulls)'
    BY <1>2, <1>5, <2>1, <2>2, <2>3, AnsweredKeeps DEF Choices
  <2>5. WorkInv'
    BY <1>1, <2>3, RetiresKeeps DEF PullInv, WorkInv
  <2> QED BY <2>4, <2>5 DEF PullInv
<1>7. CASE Stale(q) /\ UNCHANGED changes
  <2>1. ContextStays
    BY <1>3, <1>4, <1>7 DEF Stale
  <2>2. /\ coord' \in CoordinatorRow /\ coord'.of = coord.of /\ coord'.pulling = coord.pulling
        /\ coord'.deferred = coord.deferred /\ coord'.pending
    BY <1>1, <1>7 DEF Stale, CoordinatorRow
  <2>3. /\ q.account # Nothing /\ Retires /\ Answered(q, "again")
        /\ authority' = [choice |-> "unknown", of |-> PullIdentity] /\ writeEpoch' = writeEpoch
    BY <1>1, <1>7 DEF Stale, decision, Open
  <2>4. ContextInv' /\ PullsInv(pulls)' /\ SlotInv(coord, pulls)'
    BY <1>1, <2>1, <2>2, <2>3, AnsweredKeeps DEF Choices
  <2>5. WorkInv'
    BY <1>1, <2>3, RetiresKeeps DEF PullInv, WorkInv
  <2> QED BY <2>4, <2>5 DEF PullInv
<1>8. CASE Applied(q) /\ UNCHANGED changes
  <2>1. ContextStays
    BY <1>3, <1>4, <1>8 DEF Applied
  <2>2. (coord.pending \/ Outbound') \in BOOLEAN
    BY <1>1 DEF CoordinatorRow, Outbound
  <2>3. coord' = [Accepted EXCEPT !.pending = @ \/ Outbound']
    BY <1>8 DEF Applied
  <2>4. /\ coord' \in CoordinatorRow /\ coord'.of = coord.of /\ coord'.pulling = coord.pulling
        /\ coord'.deferred = coord.deferred
    BY <1>1, <2>2, <2>3 DEF Accepted, CoordinatorRow
  <2>5. /\ q.account # Nothing /\ Accept /\ Retires /\ Answered(q, Then(q))
    BY <1>8 DEF Applied
  <2>6. ContextInv' /\ PullsInv(pulls)' /\ SlotInv(coord, pulls)'
    BY <1>2, <1>5, <2>1, <2>4, <2>5, AnsweredKeeps DEF Choices
  <2>7. WorkInv'
    BY <1>1, <2>5, RetiresKeeps DEF PullInv, WorkInv
  <2> QED BY <2>6, <2>7 DEF PullInv
<1>9. CASE Fails(q)
  <2>1. ContextStays
    BY <1>3, <1>4, <1>9 DEF Fails
  <2>2. /\ coord' \in CoordinatorRow /\ coord'.of = coord.of /\ coord'.pulling = coord.pulling
        /\ coord'.deferred = coord.deferred /\ coord'.pending /\ ~coord'.validated
    BY <1>1, <1>9 DEF Fails, CoordinatorRow
  <2>3. /\ Answered(q, "nothing") /\ authority' = [choice |-> "unknown", of |-> PullIdentity]
        /\ writeEpoch' = writeEpoch + 1 /\ UNCHANGED <<queued, stuck>>
    BY <1>9 DEF Fails, BeginSelection, Choose
  <2>4. ContextInv' /\ PullsInv(pulls)' /\ SlotInv(coord, pulls)'
    BY <1>1, <2>1, <2>2, <2>3, AnsweredKeeps DEF Choices
  <2>5. WorkInv'
    BY <2>3 DEF PullInv, WorkInv
  <2> QED BY <2>4, <2>5 DEF PullInv
<1>10. ASSUME NEW trashed \in BOOLEAN, Refused(q, trashed) PROVE PullInv'
  <2>1. /\ Answered(q, "nothing") /\ Change
        /\ authority' = [choice |-> "blocked", of |-> PullIdentity]
        /\ coord' = [coord EXCEPT !.backoff = FALSE]
        /\ UNCHANGED <<queued, stuck, authBlocked, authenticated, login, epoch>>
    BY <1>10 DEF Refused, Choose
  <2>2. /\ projectState' \in [Project -> {"active", "trashed"}]
        /\ stateSeenIn' \in ((Nat \X Nat) \X (Account \cup {Nothing})) \cup {Nothing}
    <3>1. CASE trashed
      <4>1. /\ projectState' = [projectState EXCEPT ![open] = "trashed"]
            /\ stateSeenIn' = ProjectContext
        BY <1>10, <3>1 DEF Refused, SeeState
      <4>2. PullIdentity \in Nat \X Nat /\ Identity \in Account \cup {Nothing}
        BY <1>3, IdentityIsKnown
      <4> QED BY <1>3, <4>1, <4>2 DEF ContextInv, ContextTypeOK, DecisionOK, ProjectContext
    <3>2. CASE ~trashed
      BY <1>3, <1>10, <3>2 DEF Refused, observed, ContextInv, ContextTypeOK, DecisionOK
    <3> QED BY <3>1, <3>2
  <2>3. writeEpoch' \in Nat
    BY <1>1, <1>10 DEF Refused
  <2>4. changes' \in 0 .. MaxChanges
    BY <1>3, <2>1, ContextAssumption DEF Change
  <2>5. ContextStays
    BY <1>3, <2>1, <2>2, <2>4 DEF ContextInv, ContextTypeOK, CountersOK, SessionOK, ContextStays
  <2>6. /\ coord' \in CoordinatorRow /\ coord'.of = coord.of /\ coord'.pulling = coord.pulling
        /\ coord'.deferred = coord.deferred /\ ~coord'.backoff /\ coord'.validated = coord.validated
    BY <1>1, <2>1 DEF CoordinatorRow
  <2>7. ContextInv' /\ PullsInv(pulls)' /\ SlotInv(coord, pulls)'
    BY <1>1, <2>1, <2>3, <2>5, <2>6, AnsweredKeeps DEF Choices
  <2>8. WorkInv'
    BY <2>1 DEF PullInv, WorkInv
  <2> QED BY <2>7, <2>8 DEF PullInv
<1> QED BY <1>6, <1>7, <1>8, <1>9, <1>10

LEMMA UnauthorizedStep ==
  ASSUME PullInv, NEW q \in pulls, q.at = "running", Unauthorized(q),
         UNCHANGED <<attached, holder, restoring, uiCall, reserved, wakes, sending, reviewing>>
  PROVE  PullInv'
<1>1. /\ Answered(q, "nothing") /\ authBlocked' = TRUE /\ authenticated' = FALSE
      /\ login' = login + 1 /\ epoch' = epoch + 1
      /\ UNCHANGED <<queued, stuck, coord, decision, observed, changes>>
  BY DEF Unauthorized, MarkAuthRequired, Forget
<1>2. ContextTypeOK'
  <2>1. ContextTypeOK
    BY DEF PullInv, ContextInv
  <2>2. CountersOK'
    BY <1>1, <2>1 DEF ContextTypeOK, CountersOK, attached, decision
  <2>3. SessionOK'
    BY <1>1, <2>1 DEF ContextTypeOK, SessionOK
  <2>4. DecisionOK'
    BY <1>1, <2>1 DEF ContextTypeOK, DecisionOK, decision, observed
  <2> QED BY <2>2, <2>3, <2>4 DEF ContextTypeOK
<1>3. generation' = generation /\ login \in Nat /\ generation \in Nat
  BY DEF attached, PullInv, ContextInv, ContextTypeOK, CountersOK
<1> DEFINE new == [q EXCEPT !.at = "finishing", !.then = "nothing"]
<1>4. q \in PullRow
  BY DEF PullInv, PullsInv
<1>5. new \in PullRow /\ new.n = q.n /\ new.of = q.of /\ new.at = "finishing"
  BY <1>4 DEF PullRow
<1>6. Moved(q, new)
  BY <1>1 DEF Answered
<1> HIDE DEF new
<1>8. ContextInv' /\ PullsInv(pulls)' /\ SlotInv(coord, pulls)'
  BY <1>1, <1>2, <1>3, <1>5, <1>6, LeavingKeeps DEF decision
<1>9. WorkInv'
  BY <1>1 DEF PullInv, WorkInv
<1> QED BY <1>8, <1>9 DEF PullInv

LEMMA PullResultStep ==
  ASSUME PullInv, NEW q \in pulls, PullResult(q)
  PROVE  PullInv'
BY TooLateStep, LiveAnswerStep, UnauthorizedStep DEF PullResult
\* The slot is freed first, whatever is asked for next.
LEMMA FinishedFreesTheSlot ==
  ASSUME PullInv, NEW q \in pulls, q.at = "finishing"
  PROVE  /\ PullsInv(pulls \ {q})
         /\ ~Owns(q) => SlotInv(coord, pulls \ {q})
         /\ Owns(q) => SlotInv([coord EXCEPT !.pulling = 0], pulls \ {q})
<1>1. /\ PullsInv(pulls) /\ SlotInv(coord, pulls) /\ coord \in CoordinatorRow
  BY DEF PullInv, SlotInv
<1>2. CASE ~Owns(q)
  BY <1>1, <1>2, ForgottenKeeps DEF Owns
<1>3. CASE Owns(q)
  <2> DEFINE d == [coord EXCEPT !.pulling = 0]
  <2>1. 0 \in 0 .. MaxPulls
    BY PullsAssumption
  <2>2. /\ d \in CoordinatorRow /\ d.of = coord.of /\ d.pulling = 0
        /\ d.validated = coord.validated /\ d.pending = coord.pending
    BY <1>1, <2>1 DEF CoordinatorRow
  <2> HIDE DEF d
  <2>3. ASSUME q.of = PullIdentity, Unanswered(pulls \ {q}) PROVE d.pending \/ ~d.validated
    <3>1. Unanswered(pulls)
      BY <2>3 DEF Unanswered
    <3>2. CoordinatorFits(coord, pulls)
      BY <1>1, <1>3, <2>3 DEF SlotInv, Owns
    <3> QED BY <2>2, <3>1, <3>2 DEF CoordinatorFits
  <2>4. PullsInv(pulls \ {q}) /\ SlotInv(d, pulls \ {q})
    BY <1>1, <1>3, <2>2, <2>3, FreedKeeps DEF Owns
  <2> QED BY <1>3, <2>4 DEF d
<1> QED BY <1>2, <1>3

LEMMA PullFinishedStep ==
  ASSUME PullInv, NEW q \in pulls, PullFinished(q)
  PROVE  PullInv'
<1> DEFINE freed == [coord EXCEPT !.pulling = 0]
           rest == pulls \ {q}
<1>1. uiCall = "none" /\ q.at = "finishing" /\ Kept /\ UNCHANGED changes
  BY DEF PullFinished
<1>2. \/ ~Owns(q) /\ NoPull(coord, rest) /\ UNCHANGED <<wakes, sending>>
      \/ Owns(q) /\ ~IsLive(q) /\ NoPull(freed, rest) /\ UNCHANGED <<wakes, sending>>
      \/ /\ IsLive(q) /\ Drain(freed, TRUE, rest) /\ UNCHANGED wakes
      \/ /\ IsLive(q) /\ UNCHANGED sending
         /\ wakes' = wakes \cup {[of |-> q.of, account |-> q.account, reason |-> "baseline"]}
         /\ NoPull(freed, rest)
      \/ IsLive(q) /\ UNCHANGED <<wakes, sending>> /\ DeferredPull(freed, rest)
  BY DEF PullFinished
<1>3. PullsInv(rest) /\ (~Owns(q) => SlotInv(coord, rest)) /\ (Owns(q) => SlotInv(freed, rest))
  BY <1>1, FinishedFreesTheSlot
<1>4. freed.of = coord.of
  BY DEF PullInv, SlotInv, CoordinatorRow
<1>5. IsLive(q) => Owns(q) /\ coord.of = PullIdentity /\ open # Nothing
  BY DEF IsLive, IsCurrent
<1>6. ContextStays /\ queued' = queued /\ stuck' = stuck /\ ContextInv /\ WorkInv
  BY <1>1, KeptStays DEF PullInv
<1> HIDE DEF freed, rest
<1>7. CASE ~Owns(q) /\ NoPull(coord, rest) /\ UNCHANGED <<wakes, sending>>
  <2>1. ContextInv' /\ PullsInv(pulls)' /\ SlotInv(coord, pulls)'
    BY <1>3, <1>6, <1>7, NoPullKeeps
  <2>2. WorkInv'
    BY <1>6, <1>7 DEF WorkInv
  <2> QED BY <2>1, <2>2 DEF PullInv
<1>8. CASE Owns(q) /\ NoPull(freed, rest) /\ UNCHANGED <<wakes, sending>>
  <2>1. ContextInv' /\ PullsInv(pulls)' /\ SlotInv(coord, pulls)'
    BY <1>3, <1>6, <1>8, NoPullKeeps
  <2>2. WorkInv'
    BY <1>6, <1>8 DEF WorkInv
  <2> QED BY <2>1, <2>2 DEF PullInv
<1>9. CASE IsLive(q) /\ Drain(freed, TRUE, rest) /\ UNCHANGED wakes
  <2>1. /\ ContextInv' /\ PullsInv(pulls)' /\ SlotInv(coord, pulls)'
        /\ sending' = sending \/ sending' \in [project : Project, kind : Kind]
    BY <1>1, <1>3, <1>4, <1>5, <1>6, <1>9, DrainKeeps
  <2>2. WorkInv'
    BY <1>6, <1>9, <2>1 DEF WorkInv
  <2> QED BY <2>1, <2>2 DEF PullInv
<1>10. CASE /\ IsLive(q) /\ UNCHANGED sending
            /\ wakes' = wakes \cup {[of |-> q.of, account |-> q.account, reason |-> "baseline"]}
            /\ NoPull(freed, rest)
  <2>1. ContextInv' /\ PullsInv(pulls)' /\ SlotInv(coord, pulls)'
    BY <1>3, <1>5, <1>6, <1>10, NoPullKeeps
  <2>2. q \in PullRow
    BY DEF PullInv, PullsInv
  <2>3. [of |-> q.of, account |-> q.account, reason |-> "baseline"] \in WakeRow
    BY <2>2 DEF PullRow, WakeRow
  <2>4. WorkInv'
    BY <1>6, <1>10, <2>3 DEF WorkInv
  <2> QED BY <2>1, <2>4 DEF PullInv
<1>11. CASE IsLive(q) /\ UNCHANGED <<wakes, sending>> /\ DeferredPull(freed, rest)
  <2>1. ContextInv' /\ PullsInv(pulls)' /\ SlotInv(coord, pulls)'
    BY <1>1, <1>3, <1>4, <1>5, <1>6, <1>11, DeferredPullKeeps
  <2>2. WorkInv'
    BY <1>6, <1>11 DEF WorkInv
  <2> QED BY <2>1, <2>2 DEF PullInv
<1> QED BY <1>2, <1>7, <1>8, <1>9, <1>10, <1>11
-----------------------------------------------------------------------------
(* The project, the login and the reviewed batch *)

\* Nothing is on its way for the identity at hand while a sign-in or a sign-out
\* holds the UI thread; what it decides cannot disturb a pull.
LEMMA NothingCurrentKeeps ==
  ASSUME PullInv, ContextTypeOK', UNCHANGED <<generation, login>>,
         UNCHANGED <<coord, pulls, reserved, reviewing>>,
         coord.of # PullIdentity, uiCall # "pull", uiCall' \notin {"sign_in", "sign_out"},
         UNCHANGED authority \/ authority'.of = PullIdentity'
  PROVE  ContextInv' /\ PullsInv(pulls)' /\ SlotInv(coord, pulls)'
<1>1. PullsInv(pulls) /\ SlotInv(coord, pulls) /\ ContextInv
  BY DEF PullInv
<1>2. PullIdentity' = PullIdentity /\ \A i : NotNewer(i)' <=> NotNewer(i)
  BY DEF PullIdentity, NotNewer
<1>3. NotNewer(PullIdentity)
  BY <1>1, IdentityIsKnown
<1>4. \A q \in pulls : q.of # PullIdentity
  BY <1>1 DEF SlotInv, Holds
<1>5. \A q \in pulls : q.at # "reserved"
  BY <1>1 DEF PullsInv
<1>6. ContextInv'
  BY <1>1, <1>2, <1>3 DEF ContextInv
<1>7. PullsInv(pulls)'
  BY <1>1, <1>2, <1>4, <1>5 DEF PullsInv
<1>8. SlotInv(coord, pulls)'
  BY <1>1, <1>2, <1>4 DEF SlotInv
<1> QED BY <1>6, <1>7, <1>8

\* No coordinator outlives the beginning of a sign-in or a sign-out.
LEMMA CallsComeFirst ==
  ASSUME PullInv, uiCall \in {"sign_in", "sign_out"}
  PROVE  coord.of # PullIdentity /\ authority.of # PullIdentity
BY DEF PullInv, SlotInv, CoordinatorFits, ContextInv

LEMMA AttachStep ==
  ASSUME PullInv, NEW p \in Project, AttachProject(p)
  PROVE  PullInv'
<1>1. /\ uiCall = "none" /\ open' = p /\ generation' = generation + 1 /\ UNCHANGED login
      /\ epoch' = epoch + 1 /\ authority' = [choice |-> "unknown", of |-> PullIdentity']
      /\ UNCHANGED <<session, uiCall, writeEpoch, observed>>
      /\ UNCHANGED changes \/ Change
      /\ coord' = NewCoordinator(PullIdentity')
      /\ UNCHANGED <<pulls, reserved, wakes, work, reviewing>>
  BY DEF AttachProject, Attach, Forget
<1>2. ContextTypeOK /\ generation \in Nat /\ login \in Nat
  BY DEF PullInv, ContextInv, ContextTypeOK, CountersOK
<1>3. CountersOK'
  BY <1>1, <1>2, ContextAssumption DEF ContextTypeOK, CountersOK, Change
<1>4. PullIdentity' \in Nat \X Nat
  BY <1>1, <1>2 DEF PullIdentity
<1>5. SessionOK' /\ DecisionOK'
  BY <1>1, <1>2, <1>4 DEF ContextTypeOK, SessionOK, DecisionOK, session, observed, IdentityOrNothing
<1>6. ContextInv' /\ PullsInv(pulls)' /\ SlotInv(coord, pulls)'
  BY <1>1, <1>2, <1>3, <1>5, LeavingKeeps DEF ContextTypeOK
<1>7. WorkInv'
  BY <1>1 DEF PullInv, WorkInv, work
<1> QED BY <1>6, <1>7 DEF PullInv

\* Every step that is an end of the project or of the login at hand.
LEMMA LeavingStep ==
  ASSUME PullInv, UNCHANGED <<coord, pulls, reserved, wakes, work, reviewing>>,
         \/ Release \/ LoginExpires \/ SessionLost
         \/ \E call \in {"sign_in", "sign_out"} : LoginCallBegins(call)
         \/ \E a \in Account : SessionRestored(a)
  PROVE  PullInv'
<1>1. ContextTypeOK /\ generation \in Nat /\ login \in Nat /\ open \in Project \cup {Nothing}
  BY DEF PullInv, ContextInv, ContextTypeOK, CountersOK
<1>2. WorkInv'
  BY DEF PullInv, WorkInv, work
<1>3. ASSUME Change PROVE changes' \in 0 .. MaxChanges
  BY <1>1, <1>3, ContextAssumption DEF Change, ContextTypeOK, CountersOK
<1>4. CASE Release
  <2>1. /\ uiCall = "none" /\ open' = Nothing /\ generation' = generation + 1 /\ epoch' = epoch + 1
        /\ authority' = [choice |-> "none", of |-> Nothing] /\ Change
        /\ UNCHANGED <<login, session, uiCall, writeEpoch, observed>>
    BY <1>4 DEF Release, Forget
  <2>2. CountersOK'
    BY <1>1, <1>3, <2>1 DEF ContextTypeOK, CountersOK
  <2>3. SessionOK' /\ DecisionOK'
    BY <1>1, <2>1 DEF ContextTypeOK, SessionOK, DecisionOK, session, observed, IdentityOrNothing
  <2>4. ContextInv' /\ PullsInv(pulls)' /\ SlotInv(coord, pulls)'
    BY <1>1, <2>1, <2>2, <2>3, LeavingKeeps DEF ContextTypeOK
  <2> QED BY <1>2, <2>4 DEF PullInv
<1>5. CASE LoginExpires
  <2>1. /\ authBlocked' = TRUE /\ authenticated' = FALSE /\ login' = login + 1 /\ epoch' = epoch + 1
        /\ UNCHANGED <<holder, restoring>> /\ UNCHANGED <<attached, uiCall, decision, observed>>
        /\ Change
    BY <1>5 DEF LoginExpires, MarkAuthRequired, Forget
  <2>2. CountersOK'
    BY <1>1, <1>3, <2>1 DEF ContextTypeOK, CountersOK, attached, decision
  <2>3. SessionOK'
    BY <1>1, <2>1 DEF ContextTypeOK, SessionOK
  <2>4. DecisionOK'
    BY <1>1, <2>1 DEF ContextTypeOK, DecisionOK, decision, observed
  <2>5. ContextInv' /\ PullsInv(pulls)' /\ SlotInv(coord, pulls)'
    BY <1>1, <2>1, <2>2, <2>3, <2>4, LeavingKeeps DEF ContextTypeOK, attached, decision
  <2> QED BY <1>2, <2>5 DEF PullInv
<1>6. CASE SessionLost
  <2>1. /\ authBlocked' = TRUE /\ authenticated' = FALSE /\ login' = login + 1 /\ epoch' = epoch + 1
        /\ restoring' = FALSE
        /\ UNCHANGED holder /\ UNCHANGED <<attached, uiCall, decision, observed>>
        /\ Change
    BY <1>6 DEF SessionLost, Forget
  <2>2. CountersOK'
    BY <1>1, <1>3, <2>1 DEF ContextTypeOK, CountersOK, attached, decision
  <2>3. SessionOK'
    BY <1>1, <2>1 DEF ContextTypeOK, SessionOK
  <2>4. DecisionOK'
    BY <1>1, <2>1 DEF ContextTypeOK, DecisionOK, decision, observed
  <2>5. ContextInv' /\ PullsInv(pulls)' /\ SlotInv(coord, pulls)'
    BY <1>1, <2>1, <2>2, <2>3, <2>4, LeavingKeeps DEF ContextTypeOK, attached, decision
  <2> QED BY <1>2, <2>5 DEF PullInv
<1>7. ASSUME NEW call \in {"sign_in", "sign_out"}, LoginCallBegins(call) PROVE PullInv'
  <2>1. /\ uiCall = "none" /\ uiCall' = call /\ authBlocked' = TRUE
        /\ login' = login + 1 /\ epoch' = epoch + 1 /\ Change
        /\ UNCHANGED <<attached, holder, authenticated, decision, observed>>
        /\ restoring' = IF call = "sign_out" THEN FALSE ELSE restoring
    BY <1>7 DEF LoginCallBegins, Forget
  <2>2. CountersOK'
    BY <1>1, <1>3, <2>1 DEF ContextTypeOK, CountersOK, attached, decision
  <2>3. SessionOK'
    BY <1>1, <2>1 DEF ContextTypeOK, SessionOK
  <2>4. DecisionOK'
    BY <1>1, <2>1 DEF ContextTypeOK, DecisionOK, decision, observed
  <2>5. ContextInv' /\ PullsInv(pulls)' /\ SlotInv(coord, pulls)'
    BY <1>1, <2>1, <2>2, <2>3, <2>4, LeavingKeeps DEF ContextTypeOK, attached, decision
  <2> QED BY <1>2, <2>5 DEF PullInv
<1>8. ASSUME NEW a \in Account, SessionRestored(a) PROVE PullInv'
  <2>1. /\ uiCall = "none" /\ Change /\ holder' = a /\ authenticated' = TRUE /\ restoring' = FALSE
        /\ login' = login + 1 /\ UNCHANGED attached /\ epoch' = epoch + 1
        /\ UNCHANGED <<authBlocked, uiCall, observed>>
        /\ \/ UNCHANGED decision
           \/ /\ authority' = [choice |-> "unknown", of |-> PullIdentity']
              /\ writeEpoch' = writeEpoch + 1
    BY <1>8 DEF SessionRestored, Forget
  <2>2. CountersOK'
    BY <1>1, <1>3, <2>1 DEF ContextTypeOK, CountersOK, attached, decision
  <2>3. SessionOK'
    BY <1>1, <2>1, ContextAssumption DEF ContextTypeOK, SessionOK
  <2>4. PullIdentity' \in Nat \X Nat
    BY <1>1, <2>1 DEF PullIdentity, attached
  <2>5. DecisionOK'
    BY <1>1, <2>1, <2>4 DEF ContextTypeOK, DecisionOK, decision, observed, IdentityOrNothing
  <2>6. ContextInv' /\ PullsInv(pulls)' /\ SlotInv(coord, pulls)'
    BY <1>1, <2>1, <2>2, <2>3, <2>5, LeavingKeeps DEF ContextTypeOK, attached, decision
  <2> QED BY <1>2, <2>6 DEF PullInv
<1> QED BY <1>4, <1>5, <1>6, <1>7, <1>8
\* The ends of a sign-in or a sign-out.
LEMMA CallEndsStep ==
  ASSUME PullInv, UNCHANGED <<coord, pulls, reserved, wakes, work, reviewing>>,
         SignInRefused \/ SignedOut \/ \E a \in Account : SignedIn(a)
  PROVE  PullInv'
<1>1. ContextTypeOK /\ generation \in Nat /\ login \in Nat
  BY DEF PullInv, ContextInv, ContextTypeOK, CountersOK
<1>2. WorkInv'
  BY DEF PullInv, WorkInv, work
<1>3. uiCall \in {"sign_in", "sign_out"} /\ uiCall' = "none" /\ UNCHANGED <<attached, login, observed, changes>>
  BY DEF SignInRefused, SignedOut, SignedIn
<1>4. PullIdentity' = PullIdentity /\ PullIdentity \in Nat \X Nat
  BY <1>1, <1>3 DEF PullIdentity, attached
<1>5. coord.of # PullIdentity
  BY <1>3, CallsComeFirst
<1>6. /\ epoch' \in Nat /\ writeEpoch' \in Nat
      /\ UNCHANGED authority \/ authority' = [choice |-> "unknown", of |-> PullIdentity']
  BY <1>1, <1>4 DEF SignInRefused, SignedOut, SignedIn, ContextTypeOK, CountersOK, Forget, decision,
    BeginSelection, Choose
<1>7. SessionOK'
  <2>1. CASE SignInRefused
    BY <1>1, <2>1 DEF SignInRefused, ContextTypeOK, SessionOK, session
  <2>2. CASE SignedOut
    BY <1>1, <2>2 DEF SignedOut, ContextTypeOK, SessionOK
  <2>3. ASSUME NEW a \in Account, SignedIn(a) PROVE SessionOK'
    BY <2>3, ContextAssumption DEF SignedIn, SessionOK
  <2> QED BY <2>1, <2>2, <2>3
<1>8. CountersOK'
  BY <1>1, <1>3, <1>6 DEF ContextTypeOK, CountersOK, attached
<1>9. DecisionOK'
  BY <1>1, <1>3, <1>4, <1>6 DEF ContextTypeOK, DecisionOK, observed, IdentityOrNothing
<1>10. ContextTypeOK'
  BY <1>7, <1>8, <1>9 DEF ContextTypeOK
<1>11. ContextInv' /\ PullsInv(pulls)' /\ SlotInv(coord, pulls)'
  BY <1>3, <1>5, <1>6, <1>10, NothingCurrentKeeps DEF attached
<1> QED BY <1>2, <1>11 DEF PullInv

\* A renewal finds the account the pulls were reserved under, or none was.
LEMMA LoginRenewedStep ==
  ASSUME PullInv, LoginRenewed, UNCHANGED <<coord, pulls, reserved, wakes, work, reviewing>>
  PROVE  PullInv'
<1>1. /\ PullsInv(pulls) /\ SlotInv(coord, pulls) /\ ContextInv
      /\ ContextTypeOK /\ generation \in Nat /\ login \in Nat
  BY DEF PullInv, ContextInv, ContextTypeOK, CountersOK
<1>2. WorkInv'
  BY DEF PullInv, WorkInv, work
<1>3. /\ holder # Nothing /\ authenticated' = TRUE /\ authBlocked' = FALSE /\ Change
      /\ UNCHANGED <<attached, login, holder, restoring, uiCall, epoch, decision, observed>>
  BY DEF LoginRenewed
<1>4. PullIdentity' = PullIdentity /\ open' = open /\ \A i : NotNewer(i)' <=> NotNewer(i)
  BY <1>3 DEF PullIdentity, NotNewer, attached
<1>5. Identity # Nothing => Identity' = Identity
  BY <1>3 DEF Identity
<1>6. Identity' # Nothing
  BY <1>3 DEF Identity
<1>7. Open' = Open /\ Blocked' = Blocked /\ UNCHANGED authority
  BY <1>3, <1>4 DEF Open, Blocked, decision
<1>8. ContextInv'
  <2>1. changes' \in 0 .. MaxChanges
    BY <1>1, <1>3, ContextAssumption DEF Change, ContextTypeOK, CountersOK
  <2>2. CountersOK'
    BY <1>1, <1>3, <2>1 DEF ContextTypeOK, CountersOK, attached, decision
  <2>3. SessionOK'
    BY <1>1, <1>3 DEF ContextTypeOK, SessionOK
  <2>4. DecisionOK'
    BY <1>1, <1>3 DEF ContextTypeOK, DecisionOK, decision, observed
  <2> QED BY <1>1, <1>3, <1>4, <1>7, <2>2, <2>3, <2>4 DEF ContextInv, ContextTypeOK
<1>9. PullsInv(pulls)'
  BY <1>1, <1>3, <1>4, <1>5, <1>7 DEF PullsInv, PullFits
<1>10. SlotInv(coord, pulls)'
  BY <1>1, <1>3, <1>4, <1>6, <1>7 DEF SlotInv, Holds, CoordinatorFits, Unanswered
<1> QED BY <1>2, <1>8, <1>9, <1>10 DEF PullInv

LEMMA StatusSeenStep ==
  ASSUME PullInv, NEW state \in {"active", "trashed"}, StatusSeen(state),
         UNCHANGED <<coord, pulls, reserved, wakes, work, reviewing>>
  PROVE  PullInv'
<1>1. /\ open # Nothing /\ Change /\ UNCHANGED <<attached, login, session, uiCall, epoch, authority>>
      /\ projectState' = [projectState EXCEPT ![open] = state] /\ stateSeenIn' = ProjectContext
      /\ writeEpoch' = IF IsNews(state) THEN writeEpoch + 1 ELSE writeEpoch
  BY DEF StatusSeen, MarkState, SeeState
<1>2. /\ PullsInv(pulls) /\ SlotInv(coord, pulls) /\ ContextInv /\ ContextTypeOK /\ writeEpoch \in Nat
  BY DEF PullInv, ContextInv, ContextTypeOK, CountersOK
<1>3. PullIdentity \in Nat \X Nat /\ Identity \in Account \cup {Nothing}
  BY <1>2, IdentityIsKnown
<1>4. changes' \in 0 .. MaxChanges
  BY <1>1, <1>2, ContextAssumption DEF Change, ContextTypeOK, CountersOK
<1>5. ContextStays
  BY <1>1, <1>2, <1>3, <1>4 DEF ContextStays, ContextTypeOK, CountersOK, SessionOK, DecisionOK,
    session, ProjectContext
<1>6. ContextInv' /\ PullsInv(pulls)' /\ SlotInv(coord, pulls)'
  <2>1. writeEpoch' \in Nat
    BY <1>1, <1>2
  <2> QED BY <1>1, <1>2, <1>5, <2>1, SameChoice
<1>7. WorkInv'
  BY DEF PullInv, WorkInv, work
<1> QED BY <1>6, <1>7 DEF PullInv

\* The execution of a reviewed batch begins beside no pull for the identity at hand.
LEMMA ReviewBeginsStep ==
  ASSUME PullInv, ReviewBegins
  PROVE  PullInv'
<1>1. /\ UNCHANGED <<attached, login, session, uiCall, epoch, decision, observed,
                     coord, pulls, reserved, wakes, work>>
      /\ reviewing' = TRUE /\ Change /\ open # Nothing
      /\ coord.pulling = 0 \/ ~IsCurrent(coord)
  BY DEF ReviewBegins
<1>2. /\ PullsInv(pulls) /\ SlotInv(coord, pulls) /\ ContextInv /\ ContextTypeOK
  BY DEF PullInv, ContextInv
<1>3. \A q \in pulls : q.of # PullIdentity
  BY <1>1, <1>2, FreeSlot DEF IsCurrent, SlotInv, Holds
<1>4. /\ PullIdentity' = PullIdentity /\ Identity' = Identity /\ open' = open
      /\ \A i : NotNewer(i)' <=> NotNewer(i)
  BY <1>1 DEF PullIdentity, Identity, NotNewer, attached, session
<1>5. Open' = Open /\ Blocked' = Blocked /\ UNCHANGED authority
  BY <1>1, <1>4 DEF Open, Blocked, decision
<1>6. ContextInv'
  <2>1. changes' \in 0 .. MaxChanges
    BY <1>1, <1>2, ContextAssumption DEF Change, ContextTypeOK, CountersOK
  <2>2. CountersOK'
    BY <1>1, <1>2, <2>1 DEF ContextTypeOK, CountersOK, attached, decision
  <2>3. SessionOK' /\ DecisionOK'
    BY <1>1, <1>2 DEF ContextTypeOK, SessionOK, DecisionOK, session, decision, observed
  <2> QED BY <1>1, <1>2, <1>4, <1>5, <2>2, <2>3 DEF ContextInv, ContextTypeOK
<1>7. PullsInv(pulls)'
  BY <1>1, <1>2, <1>3, <1>4 DEF PullsInv
<1>8. SlotInv(coord, pulls)'
  BY <1>1, <1>2, <1>3, <1>4, <1>5 DEF SlotInv, CoordinatorFits, Unanswered
<1>9. WorkInv'
  BY <1>1 DEF PullInv, WorkInv, work
<1> QED BY <1>6, <1>7, <1>8, <1>9 DEF PullInv

LEMMA ReviewEndsStep ==
  ASSUME PullInv, ReviewEnds
  PROVE  PullInv'
<1>1. /\ UNCHANGED <<attached, login, session, uiCall, decision, observed, changes,
                     coord, pulls, reserved, work>>
      /\ reviewing' = FALSE /\ epoch' \in {epoch, epoch + 1}
  BY DEF ReviewEnds, Forget, ForgetNothing
<1>2. /\ PullsInv(pulls) /\ SlotInv(coord, pulls) /\ ContextInv /\ ContextTypeOK
  BY DEF PullInv, ContextInv
<1>3. /\ PullIdentity' = PullIdentity /\ Identity' = Identity /\ open' = open
      /\ \A i : NotNewer(i)' <=> NotNewer(i)
  BY <1>1 DEF PullIdentity, Identity, NotNewer, attached, session
<1>4. Open' = Open /\ Blocked' = Blocked /\ UNCHANGED authority
  BY <1>1, <1>3 DEF Open, Blocked, decision
<1>5. ContextInv'
  <2>1. CountersOK'
    BY <1>1, <1>2 DEF ContextTypeOK, CountersOK, attached, decision
  <2>2. SessionOK' /\ DecisionOK'
    BY <1>1, <1>2 DEF ContextTypeOK, SessionOK, DecisionOK, session, decision, observed
  <2> QED BY <1>1, <1>2, <1>3, <1>4, <2>1, <2>2 DEF ContextInv, ContextTypeOK
<1>6. PullsInv(pulls)'
  BY <1>1, <1>2, <1>3, <1>4 DEF PullsInv, PullFits
<1>7. SlotInv(coord, pulls)'
  BY <1>1, <1>2, <1>3, <1>4 DEF SlotInv, Holds, CoordinatorFits, Unanswered
<1>8. WorkInv'
  <2>1. IsCurrent(coord) => [of |-> PullIdentity, account |-> Identity, reason |-> "any"] \in WakeRow
    BY <1>2, IdentityIsKnown DEF WakeRow
  <2>2. wakes' = IF IsCurrent(coord) /\ coord.pending
                 THEN wakes \cup {[of |-> PullIdentity, account |-> Identity, reason |-> "any"]}
                 ELSE wakes
    BY DEF ReviewEnds
  <2> QED BY <1>1, <2>1, <2>2 DEF PullInv, WorkInv, work
<1> QED BY <1>5, <1>6, <1>7, <1>8 DEF PullInv
-----------------------------------------------------------------------------
(* The invariant *)

LEMMA PullInitHolds ==
  ASSUME PullInit
  PROVE  PullInv
<1>1. /\ coord = NewCoordinator(Nothing) /\ pulls = {} /\ reserved = 0 /\ wakes = {}
      /\ queued = [p \in Project |-> {}] /\ stuck = [p \in Project |-> {}]
      /\ sending = Nothing /\ reviewing = FALSE /\ ContextInit
  BY DEF PullInit
<1>2. 0 \in 0 .. MaxPulls /\ 0 \in 0 .. MaxChanges
  BY PullsAssumption, ContextAssumption
<1>3. PullIdentity \in Nat \X Nat /\ PullIdentity # Nothing
  <2>1. PullIdentity \in Nat \X Nat
    BY <1>1 DEF ContextInit, PullIdentity
  <2> QED BY <2>1, ContextAssumption
<1>4. ContextInv
  <2>1. CountersOK
    BY <1>1, <1>2 DEF ContextInit, CountersOK
  <2>2. SessionOK
    BY <1>1 DEF ContextInit, SessionOK
  <2>3. DecisionOK
    BY <1>1 DEF ContextInit, DecisionOK, IdentityOrNothing
  <2>4. NotNewer(authority.of) /\ uiCall = "none"
    BY <1>1 DEF ContextInit, NotNewer
  <2> QED BY <1>1, <1>2, <2>1, <2>2, <2>3, <2>4 DEF ContextInv, ContextTypeOK
<1>5. PullsInv(pulls)
  BY <1>1 DEF PullsInv
<1>6. SlotInv(coord, pulls)
  <2>1. coord \in CoordinatorRow /\ coord.of = Nothing /\ coord.pulling = 0
    BY <1>1, <1>2 DEF NewCoordinator, CoordinatorRow, IdentityOrNothing
  <2> QED BY <1>1, <1>3, <2>1 DEF SlotInv, NotNewer
<1>7. WorkInv
  BY <1>1 DEF WorkInv
<1> QED BY <1>4, <1>5, <1>6, <1>7 DEF PullInv

LEMMA LoginKeeps ==
  ASSUME PullInv, Login
  PROVE  PullInv'
<1>1. UNCHANGED <<coord, pulls, reserved, wakes, work, reviewing>>
  BY DEF Login
<1>2. CASE \/ Release \/ LoginExpires \/ SessionLost
           \/ \E call \in {"sign_in", "sign_out"} : LoginCallBegins(call)
           \/ \E a \in Account : SessionRestored(a)
  BY <1>1, <1>2, LeavingStep
<1>3. CASE SignInRefused \/ SignedOut \/ \E a \in Account : SignedIn(a)
  BY <1>1, <1>3, CallEndsStep
<1>4. CASE LoginRenewed
  BY <1>1, <1>4, LoginRenewedStep
<1>5. CASE \E state \in {"active", "trashed"} : StatusSeen(state)
  BY <1>1, <1>5, StatusSeenStep
<1> QED BY <1>2, <1>3, <1>4, <1>5 DEF Login, LoginStep

LEMMA PullNextKeeps ==
  ASSUME PullInv, [PullNext]_pullVars
  PROVE  PullInv'
<1>1. CASE UNCHANGED pullVars
  <2>1. UNCHANGED <<contextVars, coord, pulls, reserved, wakes, queued, stuck, sending, reviewing>>
    BY <1>1 DEF pullVars
  <2>2. UNCHANGED <<attached, login, session, epoch, observed, decision, uiCall, changes>>
    BY <2>1 DEF contextVars, attached, session, observed, decision
  <2>3. ContextStays
    BY <2>1, <2>2, ContextKept DEF PullInv
  <2>4. ContextInv' /\ PullsInv(pulls)' /\ SlotInv(coord, pulls)'
    BY <2>1, <2>2, <2>3, PullsStay
  <2>5. WorkInv'
    BY <2>1 DEF PullInv, WorkInv
  <2> QED BY <2>4, <2>5 DEF PullInv
<1>2. CASE \E p \in Project : AttachProject(p)
  BY <1>2, AttachStep
<1>3. CASE Login
  BY <1>3, LoginKeeps
<1>4. CASE \E flags \in {{}, {"manual"}, {"manual", "drain"}}, reason \in {"any", "baseline"} :
             AskForPull(flags, reason)
  <2>1. \A flags \in {{}, {"manual"}, {"manual", "drain"}} : flags \in SUBSET {"manual", "drain"}
    OBVIOUS
  <2> QED BY <1>4, <2>1, AskForPullStep
<1>5. CASE \E manual \in BOOLEAN : RetryPending(manual)
  BY <1>5, RetryPendingStep
<1>6. CASE \E kind \in Kind : Edit(kind) \/ Settle(kind)
  BY <1>6, EditStep, SettleStep
<1>7. CASE \E outcome \in {"last", "more", "stuck", "retry"} : SendEnds(outcome)
  BY <1>7, SendEndsStep
<1>8. CASE \E q \in pulls : StartPull(q) \/ PullResult(q) \/ PullFinished(q)
  BY <1>8, StartPullStep, PullResultStep, PullFinishedStep
<1>9. CASE \E w \in wakes : WakeUp(w)
  BY <1>9, WakeUpStep
<1>10. CASE ReviewBegins \/ ReviewEnds
  BY <1>10, ReviewBeginsStep, ReviewEndsStep
<1> QED BY <1>1, <1>2, <1>3, <1>4, <1>5, <1>6, <1>7, <1>8, <1>9, <1>10 DEF PullNext

\* In every state the pulls, the slot and the authority fit one another as PullInv
\* says, through every change of project, login and account.
THEOREM PullInvariant == PullSpec => []PullInv
<1>1. PullInit => PullInv
  BY PullInitHolds
<1>2. PullInv /\ [PullNext]_pullVars => PullInv'
  BY PullNextKeeps
<1> QED BY <1>1, <1>2, PTL DEF PullSpec

LEMMA PullInvMeans ==
  ASSUME PullInv
  PROVE  PullTypeOK /\ PullsAreOrderly
<1>1. PullTypeOK
  BY DEF PullInv, ContextInv, PullsInv, SlotInv, WorkInv, PullTypeOK
<1>2. OnePullAtATime
  BY DEF PullInv, PullsInv, SlotInv, OnePullAtATime, Owns
<1>3. ASSUME authority = Open, \A q \in pulls : q.of # PullIdentity
      PROVE  Coordinator.pending \/ ~Coordinator.validated
  <2>1. Unanswered(pulls)
    BY <1>3 DEF Unanswered
  <2>2. CASE IsCurrent(coord)
    BY <2>1, <2>2 DEF PullInv, SlotInv, CoordinatorFits, IsCurrent, Coordinator
  <2>3. CASE ~IsCurrent(coord)
    BY <2>3 DEF Coordinator, NewCoordinator
  <2> QED BY <2>2, <2>3
<1>4. UnknownIsRemembered
  BY <1>3 DEF UnknownIsRemembered, Open
<1> QED BY <1>1, <1>2, <1>4 DEF PullsAreOrderly

\* The values of a coordinator, of its pulls and of the queue are those of the code.
THEOREM PullTypes == PullSpec => []PullTypeOK
BY PullInvariant, PullInvMeans, PTL

\* Timers, notifications, the user and the pulls themselves may ask in any order and
\* number: at most one pull is on its way for a project and login, the slot belongs
\* to it, and no request for a first reading is forgotten.
THEOREM PullsStayOrderly == PullSpec => []PullsAreOrderly
BY PullInvariant, PullInvMeans, PTL
-----------------------------------------------------------------------------
(* Who changes the authority *)

Held == reviewing /\ authority.of = PullIdentity /\ authority.of = PullIdentity' => authority' = authority

Sticky ==
  IsCurrent(coord) /\ authority = Blocked /\ authority.of = PullIdentity'
  => authority' = authority \/ "manual" \in coord.deferred \/ UserAsks

\* What is asked for during a review is put off.
LEMMA ReviewPutsOff ==
  ASSUME reviewing, NEW c, NEW flags, NEW reason, NEW rest, RequestPull(c, flags, reason, rest)
  PROVE  UNCHANGED authority
BY DEF RequestPull, NoPull, decision

\* A blocked authority is only read again if the user asks, now or before.
LEMMA BlockedWaits ==
  ASSUME authority = Blocked, NEW c, NEW flags, NEW reason, NEW rest, RequestPull(c, flags, reason, rest),
         "manual" \notin flags \cup c.deferred
  PROVE  UNCHANGED authority
<1>1. MustWait(c, flags, reason, rest)
  BY DEF MustWait, Blocked
<1> QED BY <1>1 DEF RequestPull, NoPull, decision

\* Nor does a request that is none for a first reading, once the project is validated.
LEMMA ValidatedWaits ==
  ASSUME authority = Blocked, NEW c, c.validated, c.deferred = {}, ~c.backoff,
         NEW flags, NEW rest, RequestPull(c, flags, "any", rest)
  PROVE  UNCHANGED authority
<1>1. ~DispatchAllowed
  BY DEF DispatchAllowed, Blocked
<1>2. ~IsBaseline(c, "any")
  BY DEF IsBaseline
<1>3. MustWait(c, flags, "any", rest)
  BY <1>1, <1>2 DEF MustWait, OrdinaryGateIsOpen
<1> QED BY <1>3 DEF RequestPull, NoPull, decision

LEMMA DrainHolds ==
  ASSUME NEW c, NEW manual \in BOOLEAN, NEW rest, Drain(c, manual, rest),
         \/ reviewing
         \/ authority = Blocked /\ c.deferred = {} /\ ~c.backoff /\ c.validated
         \/ authority = Blocked /\ ~manual /\ "manual" \notin c.deferred
  PROVE  UNCHANGED authority
<1>1. ASSUME NoPull(c, rest) PROVE UNCHANGED authority
  BY <1>1 DEF NoPull, decision
<1>2. ASSUME SendNext(c, rest) PROVE UNCHANGED authority
  BY <1>2 DEF SendNext, NoPull, decision
<1>3. CASE RequestPull(c, {"manual", "drain"}, "any", rest) /\ AsksAgain(manual)
  <2>1. manual /\ ~reviewing
    BY <1>3 DEF AsksAgain
  <2> QED BY <1>3, <2>1, ValidatedWaits
<1>4. CASE MayDrain /\ DeferredPull(c, rest)
  <2>1. ~reviewing /\ authority # Blocked
    BY <1>4 DEF MayDrain, DispatchAllowed, Blocked
  <2>2. c.validated
    BY <2>1
  <2> QED BY <2>1
<1> QED BY <1>1, <1>2, <1>3, <1>4 DEF Drain

\* A pull that starts opens an authority that was open already.
LEMMA StartPullHolds ==
  ASSUME PullInv, NEW q \in pulls, StartPull(q)
  PROVE  UNCHANGED authority
<1>1. q.at = "reserved" /\ (UNCHANGED decision \/ (IsLive(q) /\ BeginSelection))
  BY DEF StartPull
<1>2. IsLive(q) => authority = Open
  BY <1>1 DEF PullInv, PullsInv, PullFits, IsLive, Owns, IsCurrent
<1> QED BY <1>1, <1>2 DEF BeginSelection, Choose, Open, decision

\* Only the answer to the pull at hand chooses, beside no review, an authority that
\* is open.
LEMMA PullResultHolds ==
  ASSUME PullInv, NEW q \in pulls, PullResult(q)
  PROVE  UNCHANGED authority \/ (~reviewing /\ authority = Open)
<1>1. q.at = "running" /\ (IsLive(q) \/ TooLate(q))
  BY DEF PullResult
<1>2. IsLive(q) => ~reviewing /\ authority = Open
  BY <1>1 DEF PullInv, PullsInv, PullFits, IsLive, Owns, IsCurrent
<1>3. TooLate(q) => UNCHANGED authority
  BY DEF TooLate, decision
<1> QED BY <1>1, <1>2, <1>3

\* The end of a pull that blocked the authority does not ask for another.
LEMMA PullFinishedHolds ==
  ASSUME PullInv, NEW q \in pulls, PullFinished(q), reviewing \/ authority = Blocked
  PROVE  UNCHANGED authority
<1> DEFINE freed == [coord EXCEPT !.pulling = 0]
           rest == pulls \ {q}
<1>1. CASE ~IsLive(q)
  BY <1>1 DEF PullFinished, NoPull, decision, IsLive
<1>2. CASE IsLive(q)
  <2>1. q.at = "finishing" /\ Owns(q) /\ q.of = PullIdentity
    BY <1>2 DEF PullFinished, IsLive, Owns, IsCurrent
  <2>2. ~reviewing /\ Holds(coord, q) /\ coord \in CoordinatorRow
    BY <2>1 DEF PullInv, PullsInv, PullFits, SlotInv
  <2>3. /\ coord.deferred = {} /\ ~coord.backoff /\ q.then # "drain" /\ authority = Blocked
    BY <2>1, <2>2 DEF Holds
  <2>4. freed.deferred = {} /\ freed.backoff = coord.backoff /\ freed.validated = coord.validated
    BY <2>2, <2>3 DEF CoordinatorRow
  <2>5. \/ coord.validated /\ Drain(freed, TRUE, rest)
        \/ NoPull(freed, rest)
        \/ DeferredPull(freed, rest)
    BY <1>2, <2>3 DEF PullFinished, IsLive
  <2> HIDE DEF freed, rest
  <2>6. ASSUME NoPull(freed, rest) PROVE UNCHANGED authority
    BY <2>6 DEF NoPull, decision
  <2>7. ASSUME coord.validated, Drain(freed, TRUE, rest) PROVE UNCHANGED authority
    BY <2>3, <2>4, <2>7, DrainHolds
  <2>8. ASSUME DeferredPull(freed, rest) PROVE UNCHANGED authority
    <3>1. CASE RequestPull(freed, {}, "general", rest)
      BY <2>3, <2>4, <3>1, BlockedWaits
    <3> QED BY <2>6, <2>8, <3>1 DEF DeferredPull
  <2> QED BY <2>5, <2>6, <2>7, <2>8
<1> QED BY <1>1, <1>2

\* Whoever opens, leaves or signs in has another identity, or none yet.
LEMMA ContextHolds ==
  ASSUME PullInv, Login \/ \E p \in Project : AttachProject(p), authority.of = PullIdentity,
         authority.of = PullIdentity'
  PROVE  UNCHANGED authority
<1>1. generation \in Nat /\ login \in Nat /\ PullIdentity = <<generation, login>>
  BY DEF PullInv, ContextInv, ContextTypeOK, CountersOK, PullIdentity
<1>2. generation' # generation + 1 /\ login' # login + 1
  BY <1>1 DEF PullIdentity
<1>3. uiCall \notin {"sign_in", "sign_out"}
  BY CallsComeFirst
<1>4. Login
  BY <1>2 DEF AttachProject, Attach
<1>5. ~Release /\ ~LoginExpires /\ ~SessionLost
  BY <1>2 DEF Release, LoginExpires, MarkAuthRequired, SessionLost
<1>6. ~\E call \in {"sign_in", "sign_out"} : LoginCallBegins(call)
  BY <1>2 DEF LoginCallBegins
<1>7. ~\E a \in Account : SignedIn(a) \/ SessionRestored(a)
  BY <1>2, <1>3 DEF SignedIn, SessionRestored
<1>8. ~SignInRefused /\ ~SignedOut
  BY <1>3 DEF SignInRefused, SignedOut
<1>9. LoginRenewed \/ \E state \in {"active", "trashed"} : StatusSeen(state)
  BY <1>4, <1>5, <1>6, <1>7, <1>8 DEF Login, LoginStep
<1> QED BY <1>9 DEF LoginRenewed, StatusSeen, MarkState, decision

LEMMA AuthorityStep ==
  ASSUME PullInv, [PullNext]_pullVars
  PROVE  Held /\ Sticky
<1>1. CASE UNCHANGED authority
  BY <1>1 DEF Held, Sticky
<1>2. CASE Login \/ \E p \in Project : AttachProject(p)
  BY <1>2, ContextHolds DEF Held, Sticky, Blocked
<1>3. ASSUME NEW flags \in {{}, {"manual"}, {"manual", "drain"}}, NEW reason \in {"any", "baseline"},
             AskForPull(flags, reason)
      PROVE  Held /\ Sticky
  <2>1. RequestPull(Coordinator, flags, reason, pulls)
    BY <1>3 DEF AskForPull
  <2>2. Held
    BY <2>1, ReviewPutsOff DEF Held
  <2>3. CASE flags # {}
    BY <1>3, <2>2, <2>3 DEF Sticky, UserAsks
  <2>4. CASE flags = {}
    <3> SUFFICES ASSUME IsCurrent(coord), authority = Blocked, "manual" \notin coord.deferred
                 PROVE  UNCHANGED authority
      BY <2>2 DEF Sticky
    <3>1. RequestPull(coord, flags, reason, pulls)
      BY <2>1 DEF Coordinator
    <3> QED BY <2>4, <3>1, BlockedWaits
  <2> QED BY <2>3, <2>4
<1>4. ASSUME NEW manual \in BOOLEAN, RetryPending(manual) PROVE Held /\ Sticky
  <2>1. Drain(Coordinator, manual, pulls)
    BY <1>4 DEF RetryPending
  <2>2. Held
    BY <2>1, DrainHolds DEF Held
  <2>3. CASE manual
    BY <1>4, <2>2, <2>3 DEF Sticky, UserAsks
  <2>4. CASE ~manual
    <3> SUFFICES ASSUME IsCurrent(coord), authority = Blocked, "manual" \notin coord.deferred
                 PROVE  UNCHANGED authority
      BY <2>2 DEF Sticky
    <3>1. Drain(coord, manual, pulls)
      BY <2>1 DEF Coordinator
    <3> QED BY <2>4, <3>1, DrainHolds
  <2> QED BY <2>3, <2>4
<1>5. ASSUME NEW w \in wakes, WakeUp(w) PROVE Held /\ Sticky
  <2>1. RequestPull(coord, {}, w.reason, pulls) \/ NoPull(coord, pulls)
    BY <1>5 DEF WakeUp
  <2>2. CASE NoPull(coord, pulls)
    BY <1>1, <2>2 DEF NoPull, decision
  <2>3. CASE RequestPull(coord, {}, w.reason, pulls)
    BY <2>3, ReviewPutsOff, BlockedWaits DEF Held, Sticky
  <2> QED BY <2>1, <2>2, <2>3
<1>6. ASSUME NEW q \in pulls, StartPull(q) \/ PullResult(q) \/ PullFinished(q)
      PROVE  Held /\ Sticky
  <2>1. Open # Blocked
    BY DEF Open, Blocked
  <2> QED BY <1>6, <2>1, StartPullHolds, PullResultHolds, PullFinishedHolds DEF Held, Sticky
<1>7. CASE \E kind \in Kind : Edit(kind) \/ Settle(kind)
  BY <1>1, <1>7 DEF Edit, Settle, contextVars, decision
<1>8. CASE \E outcome \in {"last", "more", "stuck", "retry"} : SendEnds(outcome)
  BY <1>1, <1>8 DEF SendEnds, decision
<1>9. CASE ReviewBegins \/ ReviewEnds
  BY <1>1, <1>9 DEF ReviewBegins, ReviewEnds, decision
<1>10. CASE UNCHANGED pullVars
  BY <1>1, <1>10 DEF pullVars, contextVars
<1> QED BY <1>2, <1>3, <1>4, <1>5, <1>6, <1>7, <1>8, <1>9, <1>10 DEF PullNext

\* While a reviewed batch is executed its authority stands; and a blocked authority
\* is left only when the user asks, signs in or opens a project.
THEOREM AuthorityStands == PullSpec => AuthorityIsHeld
<1>1. PullInv /\ [PullNext]_pullVars
      => /\ [reviewing /\ authority.of = PullIdentity /\ authority.of = PullIdentity'
             => authority' = authority]_pullVars
         /\ [IsCurrent(coord) /\ authority = [choice |-> "blocked", of |-> PullIdentity]
             /\ authority.of = PullIdentity'
             => authority' = authority \/ "manual" \in coord.deferred \/ UserAsks]_pullVars
  BY AuthorityStep DEF Held, Sticky, Blocked
<1> QED BY <1>1, PullInvariant, PTL DEF PullSpec, AuthorityIsHeld, ReviewSeesOneAuthority, BlockedIsSticky
=============================================================================
