------------------------ MODULE ContractPathProofs ------------------------
(***************************************************************************)
(* The two parts of the contract path that MCContractPath checks together, *)
(* for any processes, projects, accounts and bounds.                       *)
(*                                                                         *)
(* ReviewedExecution: the inductive invariant adds to the properties what  *)
(* ties a worker to its round: a worker past its claim owns the round, so  *)
(* no two workers share one; the rounds before a claimed one are stopped   *)
(* for ever; a worker about to send has its attempt recorded and has sent  *)
(* nothing.                                                                *)
(*                                                                         *)
(* ContractDispatch: the worker that sends a batch only ever compares the  *)
(* counters it captured at its launch with those of now.  That suffices    *)
(* because every step that takes away what allows the batch moves one of   *)
(* them, and none of them ever moves back.  The first half of the argument *)
(* says so of each action (Noticed, QueueNoticed); the second follows the  *)
(* sender, the reading and the question on its way through the actions     *)
(* (IInv).                                                                 *)
(***************************************************************************)
EXTENDS ReviewedExecution, ContractDispatch, TLAPS

PastClaim == Stage \ {"idle", "claim", "open_gate", "open_row"}
BeforeReceipt == PastClaim \ {"stop", "gate_close"}

\* A round has an owner exactly from its claim on, a process that has started;
\* an open gate was opened for a claimed round.
Claims ==
    /\ \A r \in Round : /\ state[r] = "none" <=> owner[r] = None
                        /\ owner[r] # None => owner[r] \in started
    /\ gate => \E r \in Round : owner[r] # None

\* What had to be stopped for a claim stays stopped.
Lineage == \A r \in Round : state[r] # "none" => \A q \in Before(r) : state[q] = "stopped"

Workers ==
    \A p \in Process :
        /\ stage[p] \in PastClaim => owner[round[p]] = p
        /\ stage[p] \in BeforeReceipt => receipt[round[p]] = None
        /\ stage[p] \in PastClaim \ {"http", "waiting", "stop", "gate_close"} => sent[round[p]] = 0
        /\ stage[p] = "http" => /\ sent[round[p]] = 0
                                /\ state[round[p]] \in {"attempted", "uncertain"}

Traffic ==
    \A r \in Round :
        /\ state[r] \notin Attempted => sent[r] = 0 /\ wire[r] = None
        /\ sent[r] <= 1
        /\ wire[r] \in Verdict => server = wire[r]

RowTypes ==
    /\ state \in [Round -> RoundState]
    /\ attempts \in [Round -> {0, 1}]
    /\ \A r \in Round : attempts[r] = 1 <=> state[r] \in Attempted
    /\ owner \in [Round -> Process \cup {None}]
    /\ receipt \in [Round -> Verdict \cup {None}]
    /\ gate \in BOOLEAN

ProcTypes ==
    /\ running \subseteq started /\ started \subseteq Process
    /\ stage \in [Process -> Stage]
    /\ \A p \in Process : stage[p] # "idle" => p \in running
    /\ round \in [Process -> Round]
    /\ solo \subseteq started

NetTypes ==
    /\ sent \in [Round -> Nat]
    /\ wire \in [Round -> {None, "request"} \cup Verdict]
    /\ server \in Verdict \cup {None}

\* What an undisturbed opening has already put right: the rounds it has passed
\* are those Before the one it looks at.
Opening ==
    /\ solo # {} => running \subseteq solo
    /\ \A p, q \in solo : p = q
    /\ \A p \in solo :
         /\ stage[p] \in {"open_gate", "open_row"} =>
              \A r \in Before(round[p]) : Foreign(p, r) => ~gate /\ state[r] \notin Open
         /\ stage[p] = "open_row" => (Foreign(p, round[p]) => ~gate)

Parts ==
    /\ RowTypes /\ ProcTypes /\ NetTypes
    /\ Claims /\ Lineage /\ Workers /\ Traffic /\ LedgerTellsTheTruth /\ Opening

USE NoneIsNothing DEF Verdict, At, Go, ledger

-----------------------------------------------------------------------------
\* The rounds before a round are rounds.
LEMMA BeforeRounds == \A r \in Round : Before(r) \subseteq Round
  BY DEF Round, Before

\* Every action keeps every part of the invariant.
LEMMA NextKeeps == ASSUME Parts, Next PROVE Parts'
<1>1. ASSUME NEW p \in Process, Start(p) PROVE Parts'
  <2>1. RowTypes' /\ NetTypes' /\ Lineage' /\ Traffic' /\ LedgerTellsTheTruth'
    BY <1>1 DEF Start, Parts, RowTypes, NetTypes, Lineage, Traffic, LedgerTellsTheTruth
  <2>2. ProcTypes'
    BY <1>1 DEF Start, ProcTypes, Stage, Round, Parts
  <2>3. Claims'
    BY <1>1 DEF Start, Claims, RowTypes, ProcTypes, Workers, PastClaim, Stage, Parts
  <2>4. Workers'
    BY <1>1 DEF Start, Workers, PastClaim, BeforeReceipt, Stage, RowTypes, ProcTypes,
       NetTypes, Claims, Parts
  <2>5. Opening'
    BY <1>1 DEF Start, Opening, Foreign, Stage, Before, Round, RowTypes, ProcTypes,
       Workers, PastClaim, Parts
  <2> QED BY <2>1, <2>2, <2>3, <2>4, <2>5 DEF Parts
<1>2. ASSUME NEW p \in Process, Reopen(p) PROVE Parts'
  <2>1. RowTypes' /\ NetTypes' /\ Claims' /\ Lineage' /\ Traffic' /\
     LedgerTellsTheTruth'
    BY <1>2 DEF Reopen, Parts, RowTypes, NetTypes, Claims, Lineage, Traffic,
       LedgerTellsTheTruth
  <2>2. ProcTypes'
    BY <1>2 DEF Reopen, ProcTypes, Stage, Round, Parts
  <2>3. Workers'
    BY <1>2 DEF Reopen, Workers, PastClaim, BeforeReceipt, Stage, RowTypes, ProcTypes,
       NetTypes, Claims, Parts
  <2>4. Opening'
    BY <1>2 DEF Reopen, Opening, Foreign, Stage, Before, Round, RowTypes, ProcTypes,
       Workers, PastClaim, Parts
  <2> QED BY <2>1, <2>2, <2>3, <2>4 DEF Parts
<1>3. ASSUME NEW p \in Process, CloseForeignGate(p) PROVE Parts'
  <2>1. NetTypes' /\ Lineage' /\ Traffic' /\ LedgerTellsTheTruth'
    BY <1>3 DEF CloseForeignGate, Parts, NetTypes, Lineage, Traffic, LedgerTellsTheTruth
  <2>2. RowTypes'
    BY <1>3 DEF CloseForeignGate, GateAfterOpening, Foreign, LookOn, NextRound, Round,
       RowTypes, RoundState, Attempted, ProcTypes, Parts
  <2>3. ProcTypes'
    BY <1>3 DEF CloseForeignGate, GateAfterOpening, Foreign, LookOn, NextRound, Round,
       ProcTypes, Stage, Parts
  <2>4. Claims'
    BY <1>3 DEF CloseForeignGate, GateAfterOpening, Foreign, LookOn, NextRound, Round,
       Claims, RowTypes, ProcTypes, Workers, PastClaim, Stage, Parts
  <2>5. Workers'
    BY <1>3 DEF CloseForeignGate, GateAfterOpening, Foreign, LookOn, NextRound, Round,
       Workers, PastClaim, BeforeReceipt, Stage, RowTypes, ProcTypes, NetTypes, Claims,
       Parts
  <2>6. Opening'
    <3>1. running' = running /\ solo' = solo /\ state' = state /\ owner' = owner
          /\ (gate' => gate) /\ p \in running
      BY <1>3 DEF CloseForeignGate, GateAfterOpening
    <3>2. ASSUME NEW k \in solo', k # p
          PROVE  FALSE
      BY <3>1, <3>2 DEF Opening, Parts
    <3>3. ASSUME p \in solo', stage'[p] = "open_row"
          PROVE  /\ round'[p] = round[p]
                 /\ Foreign(p, round[p]) => ~gate'
      BY <1>3, <3>3 DEF CloseForeignGate, GateAfterOpening, LookOn, Parts, ProcTypes
    <3>4. ASSUME p \in solo', stage'[p] = "open_gate"
          PROVE  /\ ~Foreign(p, round[p])
                 /\ round'[p] = NextRound(round[p])
                 /\ round[p] \in {"recovery", "resume"}
      BY <1>3, <3>4 DEF CloseForeignGate, LookOn, Parts, ProcTypes, Round
    <3>5. ASSUME p \in solo', stage'[p] \in {"open_gate", "open_row"},
                 NEW r \in Before(round'[p]), Foreign(p, r)
          PROVE  ~gate' /\ state[r] \notin Open
      <4>1. r \in Before(round[p])
        BY <3>3, <3>4, <3>5 DEF Before, NextRound
      <4> QED BY <4>1, <1>3, <3>1, <3>5 DEF CloseForeignGate, Opening, Parts
    <3> QED BY <3>1, <3>2, <3>3, <3>5 DEF Opening, Foreign, Parts
  <2> QED BY <2>1, <2>2, <2>3, <2>4, <2>5, <2>6 DEF Parts
<1>4. ASSUME NEW p \in Process, GiveUpForeign(p) PROVE Parts'
  <2>1. NetTypes'
    BY <1>4 DEF GiveUpForeign, Parts, NetTypes
  <2>2. RowTypes'
    BY <1>4 DEF GiveUpForeign, Foreign, GivenUp, Open, LookOn, NextRound, Round,
       RowTypes, RoundState, Attempted, ProcTypes, Parts
  <2>3. ProcTypes'
    BY <1>4 DEF GiveUpForeign, Foreign, GivenUp, Open, LookOn, NextRound, Round,
       ProcTypes, Stage, Parts
  <2>4. Claims'
    BY <1>4 DEF GiveUpForeign, Foreign, GivenUp, Open, LookOn, NextRound, Round, Claims,
       RowTypes, ProcTypes, Workers, PastClaim, Stage, Parts
  <2>5. Lineage'
    BY BeforeRounds, <1>4 DEF GiveUpForeign, Foreign, GivenUp, Open, LookOn, NextRound,
       Round, Lineage, RowTypes, ProcTypes, Parts
  <2>6. Workers'
    BY <1>4 DEF GiveUpForeign, Foreign, GivenUp, Open, LookOn, NextRound, Round,
       Workers, PastClaim, BeforeReceipt, Stage, RowTypes, ProcTypes, NetTypes, Claims,
       Attempted, Parts
  <2>7. Traffic'
    BY <1>4 DEF GiveUpForeign, Foreign, GivenUp, Open, LookOn, NextRound, Round,
       Traffic, Attempted, RowTypes, NetTypes, Workers, Parts
  <2>8. LedgerTellsTheTruth'
    BY <1>4 DEF GiveUpForeign, Foreign, GivenUp, Open, LookOn, NextRound, Round,
       LedgerTellsTheTruth, Attempted, Traffic, Workers, RowTypes, Parts
  <2>9. Opening'
    BY <1>4 DEF GiveUpForeign, Foreign, GivenUp, Open, LookOn, NextRound, Round,
       Opening, Stage, Before, RowTypes, ProcTypes, Workers, PastClaim, Attempted, Parts
  <2> QED BY <2>1, <2>2, <2>3, <2>4, <2>5, <2>6, <2>7, <2>8, <2>9 DEF Parts
<1>5. ASSUME NEW p \in Process, Crash(p) PROVE Parts'
  <2>1. RowTypes' /\ NetTypes' /\ Claims' /\ Lineage' /\ Traffic' /\
     LedgerTellsTheTruth'
    BY <1>5 DEF Crash, Parts, RowTypes, NetTypes, Claims, Lineage, Traffic,
       LedgerTellsTheTruth
  <2>2. ProcTypes'
    BY <1>5 DEF Crash, ProcTypes, Stage, Parts
  <2>3. Workers'
    BY <1>5 DEF Crash, Workers, PastClaim, BeforeReceipt, Stage, RowTypes, ProcTypes,
       NetTypes, Claims, Parts
  <2>4. Opening'
    BY <1>5 DEF Crash, Opening, Foreign, Stage, Before, Round, RowTypes, ProcTypes,
       Workers, PastClaim, Parts
  <2> QED BY <2>1, <2>2, <2>3, <2>4 DEF Parts
<1>6. ASSUME NEW p \in Process, NEW r \in Round, Begin(p, r) PROVE Parts'
  <2>1. RowTypes' /\ NetTypes' /\ Claims' /\ Lineage' /\ Traffic' /\
     LedgerTellsTheTruth'
    BY <1>6 DEF Begin, Parts, RowTypes, NetTypes, Claims, Lineage, Traffic,
       LedgerTellsTheTruth
  <2>2. ProcTypes'
    BY <1>6 DEF Begin, ProcTypes, Stage, Parts
  <2>3. Workers'
    BY <1>6 DEF Begin, Workers, PastClaim, BeforeReceipt, Stage, RowTypes, ProcTypes,
       NetTypes, Claims, Parts
  <2>4. Opening'
    BY <1>6 DEF Begin, Opening, Foreign, Stage, Before, Round, RowTypes, ProcTypes,
       Workers, PastClaim, Parts
  <2> QED BY <2>1, <2>2, <2>3, <2>4 DEF Parts
<1>7. ASSUME NEW p \in Process, Claim(p) PROVE Parts'
  <2>1. NetTypes'
    BY <1>7 DEF Claim, Parts, NetTypes
  <2>2. RowTypes'
    BY <1>7 DEF Claim, Claimable, HistoryAllows, RowTypes, RoundState, Attempted,
       ProcTypes, Parts
  <2>3. ProcTypes'
    BY <1>7 DEF Claim, Claimable, HistoryAllows, ProcTypes, Stage, Parts
  <2>4. Claims'
    BY <1>7 DEF Claim, Claimable, HistoryAllows, Claims, RowTypes, ProcTypes, Workers,
       PastClaim, Stage, Parts
  <2>5. Lineage'
    BY BeforeRounds, <1>7 DEF Claim, Claimable, HistoryAllows, Lineage, Open, RowTypes,
       ProcTypes, Parts
  <2>6. Workers'
    BY <1>7 DEF Claim, Claimable, HistoryAllows, Workers, PastClaim, BeforeReceipt,
       Stage, RowTypes, ProcTypes, NetTypes, Claims, Attempted, Traffic,
       LedgerTellsTheTruth, Parts
  <2>7. Traffic'
    BY <1>7 DEF Claim, Claimable, HistoryAllows, Traffic, Attempted, RowTypes, NetTypes,
       Workers, Parts
  <2>8. LedgerTellsTheTruth'
    BY <1>7 DEF Claim, Claimable, HistoryAllows, LedgerTellsTheTruth, Attempted,
       Traffic, Workers, RowTypes, Parts
  <2>9. Opening'
    BY <1>7 DEF Claim, Claimable, HistoryAllows, Opening, Foreign, Stage, Before, Round,
       RowTypes, ProcTypes, Workers, PastClaim, Parts
  <2> QED BY <2>1, <2>2, <2>3, <2>4, <2>5, <2>6, <2>7, <2>8, <2>9 DEF Parts
<1>8. ASSUME NEW p \in Process, ClaimRefused(p) PROVE Parts'
  <2>1. RowTypes' /\ NetTypes' /\ Claims' /\ Lineage' /\ Traffic' /\
     LedgerTellsTheTruth'
    BY <1>8 DEF ClaimRefused, Parts, RowTypes, NetTypes, Claims, Lineage, Traffic,
       LedgerTellsTheTruth
  <2>2. ProcTypes'
    BY <1>8 DEF ClaimRefused, ProcTypes, Stage, Parts
  <2>3. Workers'
    BY <1>8 DEF ClaimRefused, Workers, PastClaim, BeforeReceipt, Stage, RowTypes,
       ProcTypes, NetTypes, Claims, Parts
  <2>4. Opening'
    BY <1>8 DEF ClaimRefused, Opening, Foreign, Stage, Before, Round, RowTypes,
       ProcTypes, Workers, PastClaim, Parts
  <2> QED BY <2>1, <2>2, <2>3, <2>4 DEF Parts
<1>9. ASSUME NEW p \in Process, ReadServer(p) PROVE Parts'
  <2>1. RowTypes' /\ NetTypes' /\ Claims' /\ Lineage' /\ Traffic' /\
     LedgerTellsTheTruth'
    BY <1>9 DEF ReadServer, Parts, RowTypes, NetTypes, Claims, Lineage, Traffic,
       LedgerTellsTheTruth
  <2>2. ProcTypes'
    BY <1>9 DEF ReadServer, ProcTypes, Stage, Parts
  <2>3. Workers'
    BY <1>9 DEF ReadServer, Workers, PastClaim, BeforeReceipt, Stage, RowTypes,
       ProcTypes, NetTypes, Claims, Parts
  <2>4. Opening'
    BY <1>9 DEF ReadServer, Opening, Foreign, Stage, Before, Round, RowTypes, ProcTypes,
       Workers, PastClaim, Parts
  <2> QED BY <2>1, <2>2, <2>3, <2>4 DEF Parts
<1>10. ASSUME NEW p \in Process, OpenGate(p) PROVE Parts'
  <2>1. NetTypes' /\ Lineage' /\ Traffic' /\ LedgerTellsTheTruth'
    BY <1>10 DEF OpenGate, Parts, NetTypes, Lineage, Traffic, LedgerTellsTheTruth
  <2>2. RowTypes'
    BY <1>10 DEF OpenGate, RowTypes, RoundState, Attempted, ProcTypes, Parts
  <2>3. ProcTypes'
    BY <1>10 DEF OpenGate, ProcTypes, Stage, Parts
  <2>4. Claims'
    BY <1>10 DEF OpenGate, Claims, RowTypes, ProcTypes, Workers, PastClaim, Stage, Parts
  <2>5. Workers'
    BY <1>10 DEF OpenGate, Workers, PastClaim, BeforeReceipt, Stage, RowTypes,
       ProcTypes, NetTypes, Claims, Parts
  <2>6. Opening'
    BY <1>10 DEF OpenGate, Opening, Foreign, Stage, Before, Round, RowTypes, ProcTypes,
       Workers, PastClaim, Parts
  <2> QED BY <2>1, <2>2, <2>3, <2>4, <2>5, <2>6 DEF Parts
<1>11. ASSUME NEW p \in Process, Prepare(p) PROVE Parts'
  <2>1. RowTypes' /\ NetTypes' /\ Claims' /\ Lineage' /\ Traffic' /\
     LedgerTellsTheTruth'
    BY <1>11 DEF Prepare, Parts, RowTypes, NetTypes, Claims, Lineage, Traffic,
       LedgerTellsTheTruth
  <2>2. ProcTypes'
    BY <1>11 DEF Prepare, ProcTypes, Stage, Parts
  <2>3. Workers'
    BY <1>11 DEF Prepare, Workers, PastClaim, BeforeReceipt, Stage, RowTypes, ProcTypes,
       NetTypes, Claims, Parts
  <2>4. Opening'
    BY <1>11 DEF Prepare, Opening, Foreign, Stage, Before, Round, RowTypes, ProcTypes,
       Workers, PastClaim, Parts
  <2> QED BY <2>1, <2>2, <2>3, <2>4 DEF Parts
<1>12. ASSUME NEW p \in Process, ReadServerAgain(p) PROVE Parts'
  <2>1. RowTypes' /\ NetTypes' /\ Claims' /\ Lineage' /\ Traffic' /\
     LedgerTellsTheTruth'
    BY <1>12 DEF ReadServerAgain, Parts, RowTypes, NetTypes, Claims, Lineage, Traffic,
       LedgerTellsTheTruth
  <2>2. ProcTypes'
    BY <1>12 DEF ReadServerAgain, ProcTypes, Stage, Parts
  <2>3. Workers'
    BY <1>12 DEF ReadServerAgain, Workers, PastClaim, BeforeReceipt, Stage, RowTypes,
       ProcTypes, NetTypes, Claims, Parts
  <2>4. Opening'
    BY <1>12 DEF ReadServerAgain, Opening, Foreign, Stage, Before, Round, RowTypes,
       ProcTypes, Workers, PastClaim, Parts
  <2> QED BY <2>1, <2>2, <2>3, <2>4 DEF Parts
<1>13. ASSUME NEW p \in Process, Attempt(p) PROVE Parts'
  <2>1. NetTypes'
    BY <1>13 DEF Attempt, Parts, NetTypes
  <2>2. RowTypes'
    BY <1>13 DEF Attempt, MayAttempt, Counted, RowTypes, RoundState, Attempted,
       ProcTypes, Parts
  <2>3. ProcTypes'
    BY <1>13 DEF Attempt, MayAttempt, Counted, ProcTypes, Stage, Parts
  <2>4. Claims'
    BY <1>13 DEF Attempt, MayAttempt, Counted, Claims, RowTypes, ProcTypes, Workers,
       PastClaim, Stage, Parts
  <2>5. Lineage'
    BY BeforeRounds, <1>13 DEF Attempt, MayAttempt, Counted, Lineage, Open, RowTypes,
       ProcTypes, Parts
  <2>6. Workers'
    BY <1>13 DEF Attempt, MayAttempt, Counted, Workers, PastClaim, BeforeReceipt, Stage,
       RowTypes, ProcTypes, NetTypes, Claims, Parts
  <2>7. Traffic'
    BY <1>13 DEF Attempt, MayAttempt, Counted, Traffic, Attempted, RowTypes, NetTypes,
       Workers, Parts
  <2>8. LedgerTellsTheTruth'
    BY <1>13 DEF Attempt, MayAttempt, Counted, LedgerTellsTheTruth, Attempted, Traffic,
       Workers, RowTypes, Parts
  <2>9. Opening'
    BY <1>13 DEF Attempt, MayAttempt, Counted, Opening, Foreign, Stage, Before, Round,
       RowTypes, ProcTypes, Workers, PastClaim, Parts
  <2> QED BY <2>1, <2>2, <2>3, <2>4, <2>5, <2>6, <2>7, <2>8, <2>9 DEF Parts
<1>14. ASSUME NEW p \in Process, Send(p) PROVE Parts'
  <2>1. RowTypes' /\ Claims' /\ Lineage' /\ LedgerTellsTheTruth'
    BY <1>14 DEF Send, Parts, RowTypes, Claims, Lineage, LedgerTellsTheTruth
  <2>2. ProcTypes'
    BY <1>14 DEF Send, ProcTypes, Stage, Parts
  <2>3. NetTypes'
    BY <1>14 DEF Send, NetTypes, ProcTypes, Parts
  <2>4. Workers'
    BY <1>14 DEF Send, Workers, PastClaim, BeforeReceipt, Stage, RowTypes, ProcTypes,
       NetTypes, Claims, Parts
  <2>5. Traffic'
    BY <1>14 DEF Send, Traffic, Attempted, RowTypes, NetTypes, Workers, Parts
  <2>6. Opening'
    BY <1>14 DEF Send, Opening, Foreign, Stage, Before, Round, RowTypes, ProcTypes,
       Workers, PastClaim, Parts
  <2> QED BY <2>1, <2>2, <2>3, <2>4, <2>5, <2>6 DEF Parts
<1>15. ASSUME NEW p \in Process, Refuse(p) PROVE Parts'
  <2>1. RowTypes' /\ NetTypes' /\ Claims' /\ Lineage' /\ Traffic' /\
     LedgerTellsTheTruth'
    BY <1>15 DEF Refuse, Parts, RowTypes, NetTypes, Claims, Lineage, Traffic,
       LedgerTellsTheTruth
  <2>2. ProcTypes'
    BY <1>15 DEF Refuse, Unsent, ProcTypes, Stage, Parts
  <2>3. Workers'
    BY <1>15 DEF Refuse, Unsent, Workers, PastClaim, BeforeReceipt, Stage, RowTypes,
       ProcTypes, NetTypes, Claims, Parts
  <2>4. Opening'
    BY <1>15 DEF Refuse, Unsent, Opening, Foreign, Stage, Before, Round, RowTypes,
       ProcTypes, Workers, PastClaim, Parts
  <2> QED BY <2>1, <2>2, <2>3, <2>4 DEF Parts
<1>16. ASSUME NEW p \in Process, NoAnswer(p) PROVE Parts'
  <2>1. RowTypes' /\ NetTypes' /\ Claims' /\ Lineage' /\ Traffic' /\
     LedgerTellsTheTruth'
    BY <1>16 DEF NoAnswer, Parts, RowTypes, NetTypes, Claims, Lineage, Traffic,
       LedgerTellsTheTruth
  <2>2. ProcTypes'
    BY <1>16 DEF NoAnswer, ProcTypes, Stage, Parts
  <2>3. Workers'
    BY <1>16 DEF NoAnswer, Workers, PastClaim, BeforeReceipt, Stage, RowTypes,
       ProcTypes, NetTypes, Claims, Parts
  <2>4. Opening'
    BY <1>16 DEF NoAnswer, Opening, Foreign, Stage, Before, Round, RowTypes, ProcTypes,
       Workers, PastClaim, Parts
  <2> QED BY <2>1, <2>2, <2>3, <2>4 DEF Parts
<1>17. ASSUME NEW p \in Process, Record(p) PROVE Parts'
  <2>1. RowTypes'
    BY <1>17 DEF Record, Keepable, Settled, RowTypes, RoundState, Attempted, ProcTypes,
       Parts
  <2>2. ProcTypes'
    BY <1>17 DEF Record, Keepable, Settled, ProcTypes, Stage, Parts
  <2>3. NetTypes'
    BY <1>17 DEF Record, Keepable, Settled, NetTypes, ProcTypes, Parts
  <2>4. Claims'
    BY <1>17 DEF Record, Keepable, Settled, Claims, RowTypes, ProcTypes, Workers,
       PastClaim, Stage, Parts
  <2>5. Lineage'
    BY BeforeRounds, <1>17 DEF Record, Keepable, Settled, Lineage, Open, RowTypes,
       ProcTypes, Parts
  <2>6. Workers'
    BY <1>17 DEF Record, Keepable, Settled, Workers, PastClaim, BeforeReceipt, Stage,
       RowTypes, ProcTypes, NetTypes, Claims, Parts
  <2>7. Traffic'
    BY <1>17 DEF Record, Keepable, Settled, Traffic, Attempted, RowTypes, NetTypes,
       Workers, Parts
  <2>8. LedgerTellsTheTruth'
    BY <1>17 DEF Record, Keepable, Settled, LedgerTellsTheTruth, Attempted, Traffic,
       Workers, RowTypes, Parts
  <2>9. Opening'
    BY <1>17 DEF Record, Keepable, Settled, Opening, Foreign, Stage, Before, Round,
       RowTypes, ProcTypes, Workers, PastClaim, Parts
  <2> QED BY <2>1, <2>2, <2>3, <2>4, <2>5, <2>6, <2>7, <2>8, <2>9 DEF Parts
<1>18. ASSUME NEW p \in Process, AnswerRefused(p) PROVE Parts'
  <2>1. RowTypes' /\ Claims' /\ Lineage' /\ LedgerTellsTheTruth'
    BY <1>18 DEF AnswerRefused, Parts, RowTypes, Claims, Lineage, LedgerTellsTheTruth
  <2>2. ProcTypes'
    BY <1>18 DEF AnswerRefused, ProcTypes, Stage, Parts
  <2>3. NetTypes'
    BY <1>18 DEF AnswerRefused, NetTypes, ProcTypes, Parts
  <2>4. Workers'
    BY <1>18 DEF AnswerRefused, Workers, PastClaim, BeforeReceipt, Stage, RowTypes,
       ProcTypes, NetTypes, Claims, Parts
  <2>5. Traffic'
    BY <1>18 DEF AnswerRefused, Traffic, Attempted, RowTypes, NetTypes, Workers, Parts
  <2>6. Opening'
    BY <1>18 DEF AnswerRefused, Opening, Foreign, Stage, Before, Round, RowTypes,
       ProcTypes, Workers, PastClaim, Parts
  <2> QED BY <2>1, <2>2, <2>3, <2>4, <2>5, <2>6 DEF Parts
<1>19. ASSUME NEW p \in Process, Stop(p) PROVE Parts'
  <2>1. NetTypes'
    BY <1>19 DEF Stop, Parts, NetTypes
  <2>2. RowTypes'
    BY <1>19 DEF Stop, GivenUp, Open, RowTypes, RoundState, Attempted, ProcTypes, Parts
  <2>3. ProcTypes'
    BY <1>19 DEF Stop, GivenUp, Open, ProcTypes, Stage, Parts
  <2>4. Claims'
    BY <1>19 DEF Stop, GivenUp, Open, Claims, RowTypes, ProcTypes, Workers, PastClaim,
       Stage, Parts
  <2>5. Lineage'
    BY BeforeRounds, <1>19 DEF Stop, GivenUp, Open, Lineage, RowTypes, ProcTypes, Parts
  <2>6. Workers'
    BY <1>19 DEF Stop, GivenUp, Open, Workers, PastClaim, BeforeReceipt, Stage,
       RowTypes, ProcTypes, NetTypes, Claims, Parts
  <2>7. Traffic'
    BY <1>19 DEF Stop, GivenUp, Open, Traffic, Attempted, RowTypes, NetTypes, Workers,
       Parts
  <2>8. LedgerTellsTheTruth'
    BY <1>19 DEF Stop, GivenUp, Open, LedgerTellsTheTruth, Attempted, Traffic, Workers,
       RowTypes, Parts
  <2>9. Opening'
    BY <1>19 DEF Stop, GivenUp, Open, Opening, Foreign, Stage, Before, Round, RowTypes,
       ProcTypes, Workers, PastClaim, Parts
  <2> QED BY <2>1, <2>2, <2>3, <2>4, <2>5, <2>6, <2>7, <2>8, <2>9 DEF Parts
<1>20. ASSUME NEW p \in Process, StoreFails(p) PROVE Parts'
  <2>1. RowTypes' /\ NetTypes' /\ Claims' /\ Lineage' /\ Traffic' /\
     LedgerTellsTheTruth'
    BY <1>20 DEF StoreFails, Parts, RowTypes, NetTypes, Claims, Lineage, Traffic,
       LedgerTellsTheTruth
  <2>2. ProcTypes'
    BY <1>20 DEF StoreFails, ProcTypes, Stage, Parts
  <2>3. Workers'
    BY <1>20 DEF StoreFails, Workers, PastClaim, BeforeReceipt, Stage, RowTypes,
       ProcTypes, NetTypes, Claims, Parts
  <2>4. Opening'
    BY <1>20 DEF StoreFails, Opening, Foreign, Stage, Before, Round, RowTypes,
       ProcTypes, Workers, PastClaim, Parts
  <2> QED BY <2>1, <2>2, <2>3, <2>4 DEF Parts
<1>21. ASSUME NEW p \in Process, CloseGate(p) PROVE Parts'
  <2>1. NetTypes' /\ Lineage' /\ Traffic' /\ LedgerTellsTheTruth'
    BY <1>21 DEF CloseGate, Parts, NetTypes, Lineage, Traffic, LedgerTellsTheTruth
  <2>2. RowTypes'
    BY <1>21 DEF CloseGate, RowTypes, RoundState, Attempted, ProcTypes, Parts
  <2>3. ProcTypes'
    BY <1>21 DEF CloseGate, ProcTypes, Stage, Parts
  <2>4. Claims'
    BY <1>21 DEF CloseGate, Claims, RowTypes, ProcTypes, Workers, PastClaim, Stage,
       Parts
  <2>5. Workers'
    BY <1>21 DEF CloseGate, Workers, PastClaim, BeforeReceipt, Stage, RowTypes,
       ProcTypes, NetTypes, Claims, Parts
  <2>6. Opening'
    BY <1>21 DEF CloseGate, Opening, Foreign, Stage, Before, Round, RowTypes, ProcTypes,
       Workers, PastClaim, Parts
  <2> QED BY <2>1, <2>2, <2>3, <2>4, <2>5, <2>6 DEF Parts
<1>22. ASSUME NEW r \in Round, Serve(r) PROVE Parts'
  <2>1. RowTypes' /\ ProcTypes' /\ Claims' /\ Lineage' /\ Workers' /\ Opening'
    BY <1>22 DEF Serve, Parts, RowTypes, ProcTypes, Claims, Lineage, Workers, Opening,
       Foreign
  <2>2. NetTypes'
    BY <1>22 DEF Serve, NetTypes, ProcTypes, Parts
  <2>3. Traffic'
    BY <1>22 DEF Serve, Traffic, Attempted, RowTypes, NetTypes, Workers, Parts
  <2>4. LedgerTellsTheTruth'
    BY <1>22 DEF Serve, LedgerTellsTheTruth, Attempted, Traffic, Workers, RowTypes,
       Parts
  <2> QED BY <2>1, <2>2, <2>3, <2>4 DEF Parts
<1>23. ASSUME NEW r \in Round, Lose(r) PROVE Parts'
  <2>1. RowTypes' /\ ProcTypes' /\ Claims' /\ Lineage' /\ Workers' /\
     LedgerTellsTheTruth' /\ Opening'
    BY <1>23 DEF Lose, Parts, RowTypes, ProcTypes, Claims, Lineage, Workers,
       LedgerTellsTheTruth, Opening, Foreign
  <2>2. NetTypes'
    BY <1>23 DEF Lose, NetTypes, ProcTypes, Parts
  <2>3. Traffic'
    BY <1>23 DEF Lose, Traffic, Attempted, RowTypes, NetTypes, Workers, Parts
  <2> QED BY <2>1, <2>2, <2>3 DEF Parts
<1> QED
    BY <1>1, <1>2, <1>3, <1>4, <1>5, <1>6, <1>7, <1>8, <1>9, <1>10, <1>11, <1>12,
     <1>13, <1>14, <1>15, <1>16, <1>17, <1>18, <1>19, <1>20, <1>21, <1>22, <1>23
     DEF Next, Execute

\* A stuttering step changes no part.
LEMMA StutterKeeps == ASSUME Parts, UNCHANGED vars PROVE Parts'
  BY DEF vars, Parts, RowTypes, ProcTypes, NetTypes, Claims, Lineage, Workers,
     Traffic, LedgerTellsTheTruth, Opening, Foreign

LEMMA RoundsOpen == Init => Parts
  <1> SUFFICES ASSUME Init PROVE Parts OBVIOUS
  <1>1. RowTypes
    <2>1. state \in [Round -> RoundState]
      BY DEF Init, RoundState
    <2>2. /\ attempts \in [Round -> {0, 1}]
          /\ \A r \in Round : attempts[r] = 1 <=> state[r] \in Attempted
      BY DEF Init, Attempted
    <2> QED BY <2>1, <2>2 DEF Init, RowTypes
  <1>2. ProcTypes
    BY DEF Init, ProcTypes, Stage, Round
  <1>3. NetTypes
    BY DEF Init, NetTypes
  <1>4. Claims /\ Lineage
    BY BeforeRounds DEF Init, Claims, Lineage
  <1>5. Workers
    BY DEF Init, Workers, PastClaim, BeforeReceipt
  <1>6. Traffic /\ LedgerTellsTheTruth
    BY DEF Init, Traffic, LedgerTellsTheTruth, Attempted
  <1>7. Opening
    BY DEF Init, Opening
  <1> QED BY <1>1, <1>2, <1>3, <1>4, <1>5, <1>6, <1>7 DEF Parts

THEOREM PartsHold == Spec => []Parts
  <1>1. Parts /\ [Next]_vars => Parts'
    BY NextKeeps, StutterKeeps
  <1> QED BY RoundsOpen, <1>1, PTL DEF Spec

-----------------------------------------------------------------------------
(* The properties *)

\* Every variable keeps its type, and http_attempts what the state says.
THEOREM ExecutionTypes == Spec => []TypeOK
  <1>1. Parts => TypeOK
    BY DEF Parts, RowTypes, ProcTypes, NetTypes, TypeOK
  <1> QED BY PartsHold, <1>1, PTL

\* The ledger agrees with the server, whatever processes die or reopen the store.
THEOREM Truthful == Spec => []LedgerTellsTheTruth
  <1>1. Parts => LedgerTellsTheTruth
    BY DEF Parts
  <1> QED BY PartsHold, <1>1, PTL

\* Stopped means unsent: what a new approval relies on.
THEOREM StoppedIsUnsent == Spec => []StoppedMeansUnsent
  <1>1. Parts => StoppedMeansUnsent
    BY DEF Parts, RowTypes, Traffic, StoppedMeansUnsent, Attempted
  <1> QED BY PartsHold, <1>1, PTL

\* Of two different rounds that were claimed, one had to be stopped for the other.
LEMMA OneStopped ==
  ASSUME Lineage, NEW r \in Round, NEW q \in Round, r # q,
         state[r] # "none", state[q] # "none"
  PROVE  state[r] = "stopped" \/ state[q] = "stopped"
  <1>1. q \in Before(r) \/ r \in Before(q)
    BY DEF Round, Before
  <1> QED BY <1>1 DEF Lineage

\* The batch goes to HTTP at most once, over every round and any number of
\* processes.
THEOREM OnceOnly == Spec => []AtMostOneHttp
  <1>1. Parts => AtMostOneHttp
    <2> SUFFICES ASSUME Parts PROVE AtMostOneHttp OBVIOUS
    <2>1. \A r \in Round : sent[r] <= 1
      BY DEF Parts, Traffic
    <2>2. ASSUME NEW r \in Round, NEW q \in Round, sent[r] > 0, sent[q] > 0, r # q
          PROVE FALSE
      <3>1. state[r] \in Attempted /\ state[q] \in Attempted
        BY <2>2 DEF Parts, Traffic
      <3> QED BY <2>2, <3>1, OneStopped DEF Parts, Attempted
    <2> QED BY <2>1, <2>2 DEF AtMostOneHttp
  <1> QED BY PartsHold, <1>1, PTL

\* Never two rounds in progress.
THEOREM OneAtATime == Spec => []OneOpenRound
  <1>1. Parts => OneOpenRound
    BY OneStopped DEF Parts, OneOpenRound, Open
  <1> QED BY PartsHold, <1>1, PTL

-----------------------------------------------------------------------------
(* The action properties *)

\* No action rewrites a settled row, an owner or a receipt.
LEMMA StepsAdvance ==
  ASSUME Parts, Next, NEW k \in Round
  PROVE  RowAdvances(k)
<1> USE DEF RowAdvances
<1>1. ASSUME NEW p \in Process, GiveUpForeign(p) PROVE RowAdvances(k)
  BY <1>1 DEF GiveUpForeign, GivenUp, Open, Parts, RowTypes, Attempted
<1>2. ASSUME NEW p \in Process, Claim(p) PROVE RowAdvances(k)
  BY <1>2 DEF Claim, Claimable, Parts, RowTypes, ProcTypes, Claims
<1>3. ASSUME NEW p \in Process, Attempt(p) PROVE RowAdvances(k)
  BY <1>3 DEF Attempt, MayAttempt, Parts, RowTypes, ProcTypes
<1>4. ASSUME NEW p \in Process, Record(p) PROVE RowAdvances(k)
  BY <1>4 DEF Record, Keepable, Settled, Parts, RowTypes, ProcTypes, Workers,
     BeforeReceipt, PastClaim, Stage
<1>5. ASSUME NEW p \in Process, Stop(p) PROVE RowAdvances(k)
  BY <1>5 DEF Stop, GivenUp, Open, Parts, RowTypes, ProcTypes, Attempted
<1>6. CASE UNCHANGED <<state, owner, receipt>>
  BY <1>6
<1> QED
  BY <1>1, <1>2, <1>3, <1>4, <1>5, <1>6
     DEF Next, Execute, Start, Reopen, CloseForeignGate, Crash, Begin, ClaimRefused, ReadServer, OpenGate, Prepare,
         ReadServerAgain, Send, Refuse, NoAnswer, AnswerRefused, StoreFails, CloseGate,
         Serve, Lose

\* The code never runs into the triggers that guard the ledger.
THEOREM Advances == Spec => LedgerOnlyAdvances
  <1>1. Parts /\ [Next]_vars => [\A r \in Round : RowAdvances(r)]_vars
    BY StepsAdvance
  <1> QED BY PartsHold, <1>1, PTL DEF Spec, LedgerOnlyAdvances

\* Only the two steps of an opening end one, the last of them past every round.
LEMMA OpeningEndsClean ==
  ASSUME Parts, Next, NEW k \in solo, NEW r \in Round, EndsOpening(k), Foreign(k, r)
  PROVE  ~gate' /\ state'[r] \notin Open
<1>1. k \in Process /\ k \in running'
  BY DEF Parts, ProcTypes, EndsOpening
<1>2. ASSUME NEW p \in Process, CloseForeignGate(p) PROVE ~gate' /\ state'[r] \notin Open
  BY <1>1, <1>2 DEF CloseForeignGate, GateAfterOpening, LookOn, EndsOpening, Foreign,
     Before, Round, Parts, ProcTypes, Opening
<1>3. ASSUME NEW p \in Process, GiveUpForeign(p) PROVE ~gate' /\ state'[r] \notin Open
  BY <1>1, <1>3 DEF GiveUpForeign, GivenUp, Open, LookOn, EndsOpening, Foreign,
     Before, Round, Parts, ProcTypes, RowTypes, Opening
<1>4. CASE \E p \in Process : Crash(p)
  BY <1>1, <1>4 DEF Crash, EndsOpening, Parts, ProcTypes
<1>5. ASSUME NEW p \in Process, Start(p) \/ Reopen(p) \/ Execute(p) PROVE FALSE
  BY <1>1, <1>5 DEF Start, Reopen, Execute, Claim, ClaimRefused, ReadServer, OpenGate,
     Prepare, ReadServerAgain, Attempt, Send, Refuse, Unsent, NoAnswer, Record,
     AnswerRefused, Stop, CloseGate, StoreFails, EndsOpening, Parts, ProcTypes
<1>6. ASSUME NEW p \in Process, NEW q \in Round, Begin(p, q) PROVE FALSE
  BY <1>1, <1>6 DEF Begin, EndsOpening, Parts, ProcTypes
<1>7. ASSUME NEW q \in Round, Serve(q) \/ Lose(q) PROVE FALSE
  BY <1>1, <1>7 DEF Serve, Lose, EndsOpening
<1> QED
  BY <1>2, <1>3, <1>4, <1>5, <1>6, <1>7 DEF Next

\* A process that has been alone since its start leaves no open round of an
\* earlier process and no gate such a process opened.
THEOREM OpeningsCleanUp == Spec => OpeningCleansUp
  <1>1. Parts /\ [Next]_vars
          => [\A p \in solo, r \in Round :
                EndsOpening(p) /\ Foreign(p, r) => ~gate' /\ state'[r] \notin Open]_vars
    BY OpeningEndsClean
  <1> QED BY PartsHold, <1>1, PTL DEF Spec, OpeningCleansUp

-----------------------------------------------------------------------------
(* The dispatch of batches (ContractDispatch) *)

\* No counter moves back ...
Grow == generation' >= generation /\ epoch' >= epoch /\ writeEpoch' >= writeEpoch

\* ... and if none of them moves,
Steady == generation' = generation /\ epoch' = epoch /\ writeEpoch' = writeEpoch

\* then nothing is taken away: a login may only be found valid again.
Undisturbed ==
    /\ open' = open /\ login' = login /\ holder' = holder
    /\ authority' = authority /\ projectState' = projectState /\ stateSeenIn' = stateSeenIn
    /\ authBlocked' => authBlocked
    /\ authenticated => authenticated'

\* The project changes with the generation alone, the account and its login with
\* the epoch.
CountersTell ==
    /\ generation' = generation => open' = open
    /\ epoch' = epoch => holder' = holder /\ login' = login

Noticed == ContextTypeOK' /\ Grow /\ CountersTell /\ (Steady => Undisturbed)

\* What the actions do to the state of ContractContext.
LEMMA QuietStep ==
  ASSUME ContextTypeOK, UNCHANGED contextVars
  PROVE  Noticed
<1> USE ContextAssumption DEF ContextTypeOK, CountersOK, SessionOK, DecisionOK, Change,
      attached, session, decision, observed
<1> USE DEF contextVars
<1>1. CountersOK'  OBVIOUS
<1>2. SessionOK'  OBVIOUS
<1>3. DecisionOK'  BY DEF IdentityOrNothing
<1>4. Grow /\ CountersTell /\ (Steady => Undisturbed)
  BY DEF Grow, CountersTell, Steady, Undisturbed
<1> QED BY <1>1, <1>2, <1>3, <1>4 DEF Noticed

LEMMA CountedStep ==
  ASSUME ContextTypeOK, Change \/ UNCHANGED changes,
         UNCHANGED <<attached, login, session, uiCall, epoch, decision, observed>>
  PROVE  Noticed
<1> USE ContextAssumption DEF ContextTypeOK, CountersOK, SessionOK, DecisionOK, Change,
      attached, session, decision, observed
<1>1. CountersOK'  OBVIOUS
<1>2. SessionOK'  OBVIOUS
<1>3. DecisionOK'  BY DEF IdentityOrNothing
<1>4. Grow /\ CountersTell /\ (Steady => Undisturbed)
  BY DEF Grow, CountersTell, Steady, Undisturbed
<1> QED BY <1>1, <1>2, <1>3, <1>4 DEF Noticed

LEMMA ForgetStep ==
  ASSUME ContextTypeOK, Change \/ UNCHANGED changes, Forget \/ ForgetNothing,
         UNCHANGED <<attached, login, session, uiCall, decision, observed>>
  PROVE  Noticed
<1> USE ContextAssumption DEF ContextTypeOK, CountersOK, SessionOK, DecisionOK, Change,
      attached, session, decision, observed
<1> USE DEF Forget, ForgetNothing
<1>1. CountersOK'  OBVIOUS
<1>2. SessionOK'  OBVIOUS
<1>3. DecisionOK'  BY DEF IdentityOrNothing
<1>4. Grow /\ CountersTell /\ (Steady => Undisturbed)
  BY DEF Grow, CountersTell, Steady, Undisturbed
<1> QED BY <1>1, <1>2, <1>3, <1>4 DEF Noticed

LEMMA MarkStateStep ==
  ASSUME ContextTypeOK, NEW mark \in {"active", "trashed"}, MarkState(mark),
         Change \/ UNCHANGED changes, UNCHANGED <<attached, login, session, uiCall, epoch>>
  PROVE  Noticed
<1> USE ContextAssumption DEF ContextTypeOK, CountersOK, SessionOK, DecisionOK, Change,
      attached, session, decision, observed
<1> USE DEF MarkState, SeeState, IsNews, ProjectContext, PullIdentity, Identity
<1>1. CountersOK'  OBVIOUS
<1>2. SessionOK'  OBVIOUS
<1>3. DecisionOK'  BY DEF IdentityOrNothing
<1>4. Grow /\ CountersTell /\ (Steady => Undisturbed)
  BY DEF Grow, CountersTell, Steady, Undisturbed
<1> QED BY <1>1, <1>2, <1>3, <1>4 DEF Noticed

LEMMA ExpiryStep ==
  ASSUME ContextTypeOK, MarkAuthRequired, Change, UNCHANGED <<attached, uiCall, decision, observed>>
  PROVE  Noticed
<1> USE ContextAssumption DEF ContextTypeOK, CountersOK, SessionOK, DecisionOK, Change,
      attached, session, decision, observed
<1> USE DEF MarkAuthRequired, Forget
<1>1. CountersOK'  OBVIOUS
<1>2. SessionOK'  OBVIOUS
<1>3. DecisionOK'  BY DEF IdentityOrNothing
<1>4. Grow /\ CountersTell /\ (Steady => Undisturbed)
  BY DEF Grow, CountersTell, Steady, Undisturbed
<1> QED BY <1>1, <1>2, <1>3, <1>4 DEF Noticed

LEMMA ProjectStep == ASSUME ContextTypeOK, ProjectEvent PROVE Noticed
<1> USE ContextAssumption DEF ContextTypeOK, CountersOK, SessionOK, DecisionOK, Change,
      attached, session, decision, observed
<1>1. ASSUME NEW p \in Project, Attach(p) PROVE Noticed
  <2> USE <1>1 DEF Attach, Forget, PullIdentity
  <2>1. CountersOK'  OBVIOUS
  <2>2. SessionOK'  OBVIOUS
  <2>3. DecisionOK'  BY DEF IdentityOrNothing
  <2>4. Grow /\ CountersTell /\ (Steady => Undisturbed)
    BY DEF Grow, CountersTell, Steady, Undisturbed
  <2> QED BY <2>1, <2>2, <2>3, <2>4 DEF Noticed
<1>2. CASE Release
  <2> USE <1>2 DEF Release, Forget
  <2>1. CountersOK'  OBVIOUS
  <2>2. SessionOK'  OBVIOUS
  <2>3. DecisionOK'  BY DEF IdentityOrNothing
  <2>4. Grow /\ CountersTell /\ (Steady => Undisturbed)
    BY DEF Grow, CountersTell, Steady, Undisturbed
  <2> QED BY <2>1, <2>2, <2>3, <2>4 DEF Noticed
<1> QED BY <1>1, <1>2 DEF ProjectEvent

LEMMA PullStep == ASSUME ContextTypeOK, PullBegins \/ PullDecides PROVE Noticed
<1> USE ContextAssumption DEF ContextTypeOK, CountersOK, SessionOK, DecisionOK, Change,
      attached, session, decision, observed
<1> USE DEF PullBegins, PullDecides, BeginSelection, Accept, Block, Choose, PullIdentity
<1>1. CountersOK'  OBVIOUS
<1>2. SessionOK'  OBVIOUS
<1>3. DecisionOK'  BY DEF IdentityOrNothing
<1>4. Grow /\ CountersTell /\ (Steady => Undisturbed)
  BY DEF Grow, CountersTell, Steady, Undisturbed
<1> QED BY <1>1, <1>2, <1>3, <1>4 DEF Noticed

LEMMA LoginEventStep == ASSUME ContextTypeOK, LoginEvent PROVE Noticed
<1> USE ContextAssumption DEF ContextTypeOK, CountersOK, SessionOK, DecisionOK, Change,
      attached, session, decision, observed
<1>1. ASSUME NEW call \in {"sign_in", "sign_out"}, LoginCallBegins(call) PROVE Noticed
  <2> USE <1>1 DEF LoginCallBegins, Forget
  <2>1. CountersOK'  OBVIOUS
  <2>2. SessionOK'  OBVIOUS
  <2>3. DecisionOK'  BY DEF IdentityOrNothing
  <2>4. Grow /\ CountersTell /\ (Steady => Undisturbed)
    BY DEF Grow, CountersTell, Steady, Undisturbed
  <2> QED BY <2>1, <2>2, <2>3, <2>4 DEF Noticed
<1>2. CASE SignInRefused
  <2> USE <1>2 DEF SignInRefused
  <2>1. CountersOK'  OBVIOUS
  <2>2. SessionOK'  OBVIOUS
  <2>3. DecisionOK'  BY DEF IdentityOrNothing
  <2>4. Grow /\ CountersTell /\ (Steady => Undisturbed)
    BY DEF Grow, CountersTell, Steady, Undisturbed
  <2> QED BY <2>1, <2>2, <2>3, <2>4 DEF Noticed
<1>3. CASE SignedOut
  <2> USE <1>3 DEF SignedOut, Forget
  <2>1. CountersOK'  OBVIOUS
  <2>2. SessionOK'  OBVIOUS
  <2>3. DecisionOK'  BY DEF IdentityOrNothing
  <2>4. Grow /\ CountersTell /\ (Steady => Undisturbed)
    BY DEF Grow, CountersTell, Steady, Undisturbed
  <2> QED BY <2>1, <2>2, <2>3, <2>4 DEF Noticed
<1>4. CASE LoginExpires
  BY <1>4, ExpiryStep DEF LoginExpires
<1>5. CASE LoginRenewed
  <2> USE <1>5 DEF LoginRenewed
  <2>1. CountersOK'  OBVIOUS
  <2>2. SessionOK'  OBVIOUS
  <2>3. DecisionOK'  BY DEF IdentityOrNothing
  <2>4. Grow /\ CountersTell /\ (Steady => Undisturbed)
    BY DEF Grow, CountersTell, Steady, Undisturbed
  <2> QED BY <2>1, <2>2, <2>3, <2>4 DEF Noticed
<1>6. CASE SessionLost
  <2> USE <1>6 DEF SessionLost, Forget
  <2>1. CountersOK'  OBVIOUS
  <2>2. SessionOK'  OBVIOUS
  <2>3. DecisionOK'  BY DEF IdentityOrNothing
  <2>4. Grow /\ CountersTell /\ (Steady => Undisturbed)
    BY DEF Grow, CountersTell, Steady, Undisturbed
  <2> QED BY <2>1, <2>2, <2>3, <2>4 DEF Noticed
<1>7. ASSUME NEW a \in Account, SignedIn(a) PROVE Noticed
  <2> USE <1>7 DEF SignedIn, Forget, BeginSelection, Choose, PullIdentity
  <2>1. CountersOK'  OBVIOUS
  <2>2. SessionOK'  OBVIOUS
  <2>3. DecisionOK'  BY DEF IdentityOrNothing
  <2>4. Grow /\ CountersTell /\ (Steady => Undisturbed)
    BY DEF Grow, CountersTell, Steady, Undisturbed
  <2> QED BY <2>1, <2>2, <2>3, <2>4 DEF Noticed
<1>8. ASSUME NEW a \in Account, SessionRestored(a) PROVE Noticed
  <2> USE <1>8 DEF SessionRestored, Forget, PullIdentity
  <2>1. CountersOK'  OBVIOUS
  <2>2. SessionOK'  OBVIOUS
  <2>3. DecisionOK'  BY DEF IdentityOrNothing
  <2>4. Grow /\ CountersTell /\ (Steady => Undisturbed)
    BY DEF Grow, CountersTell, Steady, Undisturbed
  <2> QED BY <2>1, <2>2, <2>3, <2>4 DEF Noticed
<1>9. CASE OrdinarySuccess
  <2> USE <1>9 DEF OrdinarySuccess
  <2>1. CountersOK'  OBVIOUS
  <2>2. SessionOK'  OBVIOUS
  <2>3. DecisionOK'  BY DEF IdentityOrNothing
  <2>4. Grow /\ CountersTell /\ (Steady => Undisturbed)
    BY DEF Grow, CountersTell, Steady, Undisturbed
  <2> QED BY <2>1, <2>2, <2>3, <2>4 DEF Noticed
<1> QED BY <1>1, <1>2, <1>3, <1>4, <1>5, <1>6, <1>7, <1>8, <1>9 DEF LoginEvent, LoginStep

-----------------------------------------------------------------------------
(* The invariant *)

\* A counter has moved since s was captured: no check lets s pass any more.
Behind(s) ==
    \/ s.key[1] < generation \/ s.key[2] < epoch
    \/ s.write < writeEpoch \/ s.stamp < queueStamp[s.project]

\* As long as none has, what allowed the batch holds, and has never lapsed.
SenderOK ==
    sender # Nothing =>
        /\ sender.key[3] # Nothing
        /\ sender.key[1] = generation => open = sender.project
        /\ OnItsWay(sender) /\ ~Behind(sender) => Authorized(sender) /\ ~sender.lapsed
        /\ sender.stage = "http" => ~sender.lapsed

\* A reading, or a question asked, that is of this epoch is of this login.
ReadingOK ==
    /\ reading # Nothing => /\ reading.key[2] <= epoch
                            /\ reading.key[2] = epoch => reading.as = <<holder, login>>
    /\ probe # Nothing => /\ probe.key[2] <= epoch
                          /\ probe.as # Nothing /\ probe.key[2] = epoch => probe.as = <<holder, login>>

IInv == DispatchTypeOK /\ SenderOK /\ ReadingOK

\* The local gate closes with a new epoch, and what is blocked changes with an
\* event of the queue.
QueueNoticed ==
    /\ QueueOK'
    /\ \A p \in Project : queueStamp'[p] >= queueStamp[p]
    /\ Steady => \A p \in Project : pathEnabled[p] => pathEnabled'[p]
    /\ \A p \in Project : queueStamp'[p] = queueStamp[p] => blockedOps'[p] = blockedOps[p]

LEMMA QueueUnchanged == ASSUME QueueOK, UNCHANGED queueState PROVE QueueNoticed
  BY DEF QueueOK, QueueNoticed, queueState

\* A key is one of the keys.
LEMMA KeyType == ASSUME ContextTypeOK PROVE ContextKey \in Keys
  BY DEF ContextTypeOK, CountersOK, SessionOK, ContextKey, Keys, Identity

\* While no counter moves, nothing an authorized sender relies on goes away.
LEMMA StillAuthorized ==
  ASSUME ContextTypeOK, QueueOK, QueueNoticed, Steady, Undisturbed,
         NEW s \in Sender, s.key[3] # Nothing, Authorized(s), s.stamp = queueStamp[s.project],
         queueStamp'[s.project] = s.stamp
  PROVE  Authorized(s)'
<1>1. s.project \in Project /\ open = s.project
  BY DEF Sender, Authorized
<1>2. authenticated /\ Identity = holder
  BY DEF Authorized, Identity
<1>3. Identity' = Identity
  BY <1>2 DEF Undisturbed, Identity
<1>4. AuthorityAllows'
  BY <1>3 DEF Authorized, AuthorityAllows, Undisturbed, Steady, PullIdentity, ProjectContext
<1>5. pathEnabled'[s.project] /\ ~blockedOps'[s.project]
  BY <1>1 DEF Authorized, QueueNoticed
<1>6. ~authBlocked' /\ open' = s.project /\ generation' = s.key[1]
  BY <1>1 DEF Authorized, Undisturbed, Steady
<1> QED BY <1>3, <1>4, <1>5, <1>6 DEF Authorized

\* A sender that is watched, or left alone, keeps its invariant.
LEMMA WatchStep ==
  ASSUME IInv, Noticed, QueueNoticed, Watch
  PROVE  SenderTypeOK' /\ SenderOK'
<1>1. CASE sender = Nothing
  <2>1. sender' = Nothing
    BY <1>1 DEF Watch
  <2> QED BY <2>1 DEF SenderTypeOK, SenderOK
<1>2. CASE sender # Nothing
  <2>1. PICK s \in {sender} : sender' = IF s # Nothing /\ OnItsWay(s)
                                         THEN [s EXCEPT !.lapsed = @ \/ ~Authorized(s)'] ELSE s
    BY DEF Watch
  <2>2. s = sender /\ s # Nothing /\ s \in Sender
    BY <1>2, <2>1 DEF IInv, DispatchTypeOK, SenderTypeOK
  <2>3. /\ sender' \in Sender
        /\ sender'.key = s.key /\ sender'.write = s.write /\ sender'.stamp = s.stamp
        /\ sender'.project = s.project /\ sender'.stage = s.stage
        /\ OnItsWay(s) => sender'.lapsed = (s.lapsed \/ ~Authorized(s)')
        /\ ~OnItsWay(s) => sender'.lapsed = s.lapsed
    <3>1. CASE OnItsWay(s)
      <4> DEFINE l == s.lapsed \/ ~Authorized(s)'
      <4>1. sender' = [s EXCEPT !.lapsed = l] /\ l \in BOOLEAN
        BY <2>1, <2>2, <3>1
      <4> HIDE DEF l
      <4>2. /\ sender' \in Sender /\ sender'.lapsed = l
            /\ sender'.key = s.key /\ sender'.write = s.write /\ sender'.stamp = s.stamp
            /\ sender'.project = s.project /\ sender'.stage = s.stage
        BY <2>2, <4>1 DEF Sender
      <4> QED BY <3>1, <4>2 DEF l
    <3>2. CASE ~OnItsWay(s)
      BY <2>1, <2>2, <3>2
    <3> QED BY <3>1, <3>2
  <2>4. /\ s.key[1] \in Nat /\ s.key[2] \in Nat /\ s.write \in Nat /\ s.stamp \in Nat
        /\ s.project \in Project
        /\ s.key[1] <= generation /\ s.key[2] <= epoch /\ s.write <= writeEpoch
        /\ s.stamp <= queueStamp[s.project]
    BY <2>2 DEF IInv, DispatchTypeOK, SenderTypeOK, Sender, Keys
  <2>5. /\ generation \in Nat /\ generation' \in Nat /\ epoch \in Nat /\ epoch' \in Nat
        /\ writeEpoch \in Nat /\ writeEpoch' \in Nat
        /\ queueStamp[s.project] \in Nat /\ queueStamp'[s.project] \in Nat
        /\ generation' >= generation /\ epoch' >= epoch /\ writeEpoch' >= writeEpoch
        /\ queueStamp'[s.project] >= queueStamp[s.project]
    BY <2>4 DEF IInv, DispatchTypeOK, ContextTypeOK, CountersOK, QueueOK, Noticed, Grow, QueueNoticed
  <2>6. SenderTypeOK'
    BY <2>3, <2>4, <2>5 DEF SenderTypeOK
  <2>7. ASSUME s.key[1] = generation' PROVE open' = s.project
    <3>1. s.key[1] = generation /\ generation' = generation
      BY <2>4, <2>5, <2>7
    <3> QED BY <2>2, <3>1 DEF IInv, SenderOK, Noticed, CountersTell
  <2>8. ASSUME OnItsWay(s), ~Behind(s)' PROVE Authorized(s)' /\ ~s.lapsed
    <3>1. /\ Steady /\ queueStamp'[s.project] = s.stamp /\ s.stamp = queueStamp[s.project]
          /\ ~Behind(s)
      BY <2>4, <2>5, <2>8 DEF Behind, Steady
    <3>2. Authorized(s) /\ ~s.lapsed /\ s.key[3] # Nothing
      BY <2>2, <2>8, <3>1 DEF IInv, SenderOK
    <3>3. Undisturbed
      BY <3>1 DEF Noticed
    <3> QED BY <2>2, <3>1, <3>2, <3>3, StillAuthorized DEF IInv, DispatchTypeOK
  <2>9. SenderOK'
    <3>1. OnItsWay(sender)' <=> OnItsWay(s)
      BY <2>3 DEF OnItsWay
    <3>2. Behind(sender)' <=> Behind(s)'
      BY <2>3 DEF Behind
    <3>3. Authorized(sender)' <=> Authorized(s)'
      BY <2>3 DEF Authorized
    <3>4. OnItsWay(s) /\ ~Behind(s)' => Authorized(s)' /\ ~sender'.lapsed
      BY <2>3, <2>8
    <3>5. s.stage = "http" => ~OnItsWay(s) /\ ~s.lapsed
      BY <2>2 DEF OnItsWay, IInv, SenderOK
    <3>6. sender'.stage = "http" => ~sender'.lapsed
      BY <2>3, <3>5
    <3>7. sender'.key[3] # Nothing
      BY <2>2, <2>3 DEF IInv, SenderOK
    <3> QED BY <2>3, <2>7, <3>1, <3>2, <3>3, <3>4, <3>6, <3>7 DEF SenderOK
  <2> QED BY <2>6, <2>9
<1> QED BY <1>1, <1>2

\* A sender that nobody touches, with what it relies on.
LEMMA SenderUntouched ==
  ASSUME IInv, UNCHANGED <<contextVars, queueState, sender>>
  PROVE  SenderTypeOK' /\ SenderOK'
<1>1. UNCHANGED <<generation, epoch, writeEpoch, open, holder, authenticated, authBlocked, login,
                  authority, projectState, stateSeenIn, pathEnabled, blockedOps, queueStamp, sender>>
  BY DEF contextVars, queueState
<1>2. SenderTypeOK'
  BY <1>1 DEF IInv, DispatchTypeOK, SenderTypeOK
<1>3. Behind(sender)' <=> Behind(sender)
  BY <1>1 DEF Behind
<1>4. AuthorityAllows' <=> AuthorityAllows
  BY <1>1 DEF AuthorityAllows, ProjectContext, PullIdentity, Identity
<1>5. Authorized(sender)' <=> Authorized(sender)
  BY <1>1, <1>4 DEF Authorized, Identity
<1> QED BY <1>1, <1>2, <1>3, <1>5 DEF IInv, SenderOK, OnItsWay

\* A handshake that is left alone, or forgotten with its epoch.
LEMMA ForgetWhenToldStep ==
  ASSUME IInv, Noticed, ForgetWhenTold,
         probe' = probe \/ probe' = Nothing, asked' = asked \/ asked' = Nothing
  PROVE  HandshakeOK' /\ ReadingOK'
<1>1. HandshakeOK'
  BY DEF IInv, DispatchTypeOK, HandshakeOK, ForgetWhenTold
<1>2. epoch \in Nat /\ epoch' \in Nat /\ epoch' >= epoch
  BY DEF IInv, DispatchTypeOK, ContextTypeOK, CountersOK, Noticed, Grow
<1>3. CASE epoch' = epoch
  BY <1>1, <1>3 DEF IInv, ReadingOK, Noticed, CountersTell, ForgetWhenTold
<1>4. CASE epoch' # epoch
  <2>1. reading' = Nothing
    BY <1>4 DEF ForgetWhenTold
  <2>2. probe # Nothing => probe.key[2] \in Nat
    BY DEF IInv, DispatchTypeOK, HandshakeOK, Keys
  <2>3. probe # Nothing => probe.key[2] <= epoch
    BY DEF IInv, ReadingOK
  <2>4. probe' # Nothing => probe'.key[2] <= epoch' /\ probe'.key[2] # epoch'
    BY <1>2, <1>4, <2>2, <2>3
  <2> QED BY <1>1, <2>1, <2>4 DEF ReadingOK
<1> QED BY <1>3, <1>4

\* What a step has to keep.
LEMMA Kept ==
  ASSUME Noticed, QueueNoticed, HandshakeOK', ReadingOK', SenderTypeOK', SenderOK'
  PROVE  IInv'
  BY DEF IInv, DispatchTypeOK, Noticed, QueueNoticed

\* A check that lets a sender pass: no counter has moved since it was captured.
LEMMA PassedIsNotBehind ==
  ASSUME IInv, sender # Nothing, MayDispatch(sender)
  PROVE  ~Behind(sender)
<1>1. sender.key[1] = generation /\ sender.key[2] = epoch /\ sender.write = writeEpoch
  BY DEF MayDispatch, ContextKey
<1>2. open = sender.project
  BY <1>1 DEF IInv, SenderOK
<1>3. sender.stamp = queueStamp[sender.project]
  BY <1>2 DEF MayDispatch, QueueUndisturbed
<1> QED BY <1>1, <1>3 DEF Behind, IInv, DispatchTypeOK, ContextTypeOK, CountersOK, QueueOK,
                          SenderTypeOK, Sender

-----------------------------------------------------------------------------
(* The steps *)

LEMMA ElsewhereStep == ASSUME IInv, Elsewhere PROVE IInv'
<1>1. Noticed
  BY ProjectStep, LoginEventStep, PullStep DEF Elsewhere, IInv, DispatchTypeOK
<1>2. QueueNoticed
  BY QueueUnchanged DEF Elsewhere, Around, IInv, DispatchTypeOK
<1>3. SenderTypeOK' /\ SenderOK'
  BY <1>1, <1>2, WatchStep DEF Elsewhere, Around
<1>4. HandshakeOK' /\ ReadingOK'
  BY <1>1, ForgetWhenToldStep DEF Elsewhere, Around
<1> QED BY <1>1, <1>2, <1>3, <1>4, Kept

LEMMA HandshakeStep ==
  ASSUME IInv,
         \/ \E automatic \in BOOLEAN : BeginHandshake(automatic)
         \/ AskHandshake
         \/ \E supported \in BOOLEAN : HandshakeAnswered(supported)
         \/ \E transient \in BOOLEAN : HandshakeFails(transient)
         \/ HandshakeUnauthorized
  PROVE  IInv'
<1> USE DEF IInv, DispatchTypeOK
<1>1. ASSUME NEW automatic \in BOOLEAN, BeginHandshake(automatic) PROVE IInv'
  <2>1. Noticed
    BY <1>1, CountedStep DEF BeginHandshake
  <2>2. QueueNoticed
    BY <1>1, QueueUnchanged DEF BeginHandshake
  <2>3. SenderTypeOK' /\ SenderOK'
    BY <1>1, <2>1, <2>2, WatchStep DEF BeginHandshake
  <2>4. /\ reading' = Nothing /\ tried' = tried /\ asked' = asked
        /\ probe' = [key |-> ContextKey, as |-> Nothing] /\ epoch' = epoch
    BY <1>1 DEF BeginHandshake
  <2>5. ContextKey \in Keys /\ ContextKey[2] = epoch /\ epoch \in Nat
    BY KeyType DEF ContextKey, ContextTypeOK, CountersOK
  <2>6. HandshakeOK'
    BY <2>4, <2>5 DEF HandshakeOK, Logins
  <2>7. ReadingOK'
    BY <2>4, <2>5 DEF ReadingOK
  <2> QED BY <2>1, <2>2, <2>3, <2>6, <2>7, Kept
<1>2. CASE AskHandshake
  <2>1. Noticed
    BY <1>2, QuietStep DEF AskHandshake
  <2>2. QueueNoticed
    BY <1>2, QueueUnchanged DEF AskHandshake
  <2>3. SenderTypeOK' /\ SenderOK'
    BY <1>2, SenderUntouched DEF AskHandshake
  <2>4. /\ UNCHANGED <<reading, tried, asked, epoch, holder, login>>
        /\ probe # Nothing /\ probe' = [probe EXCEPT !.as = <<holder, login>>]
    BY <1>2 DEF AskHandshake, contextVars
  <2>5. <<holder, login>> \in Logins
    BY <1>2, ContextAssumption DEF AskHandshake, ContextTypeOK, CountersOK, SessionOK, Logins
  <2>6. probe' \in [key : Keys, as : Logins] /\ probe'.key = probe.key /\ probe'.as = <<holder, login>>
    BY <2>4, <2>5 DEF HandshakeOK
  <2>7. HandshakeOK'
    BY <2>4, <2>6 DEF HandshakeOK
  <2>8. ReadingOK'
    BY <2>4, <2>6 DEF ReadingOK
  <2> QED BY <2>1, <2>2, <2>3, <2>7, <2>8, Kept
<1>3. ASSUME NEW supported \in BOOLEAN, HandshakeAnswered(supported) PROVE IInv'
  <2>1. Noticed
    BY <1>3, QuietStep DEF HandshakeAnswered
  <2>2. QueueNoticed
    BY <1>3, QueueUnchanged DEF HandshakeAnswered
  <2>3. SenderTypeOK' /\ SenderOK'
    BY <1>3, <2>1, <2>2, WatchStep DEF HandshakeAnswered
  <2>4. /\ UNCHANGED <<asked, epoch, holder, login>>
        /\ probe # Nothing /\ probe.as # Nothing /\ probe' = Nothing
    BY <1>3 DEF HandshakeAnswered, contextVars
  <2>5. probe.key \in Keys /\ probe.as \in Logins \ {Nothing}
    BY <2>4 DEF HandshakeOK
  <2>6. CASE Publish(probe.key)
    <3>1. /\ reading' = [key |-> probe.key, as |-> probe.as, supported |-> supported]
          /\ tried' = probe.key
      BY <1>3, <2>6 DEF HandshakeAnswered
    <3>2. HandshakeOK'
      BY <2>4, <2>5, <3>1 DEF HandshakeOK
    <3>3. ReadingOK'
      BY <2>4, <3>1 DEF ReadingOK
    <3> QED BY <2>1, <2>2, <2>3, <3>2, <3>3, Kept
  <2>7. CASE ~Publish(probe.key)
    <3>1. UNCHANGED <<reading, tried>>
      BY <1>3, <2>7 DEF HandshakeAnswered
    <3>2. HandshakeOK' /\ ReadingOK'
      BY <2>4, <3>1 DEF HandshakeOK, ReadingOK
    <3> QED BY <2>1, <2>2, <2>3, <3>2, Kept
  <2> QED BY <2>6, <2>7
<1>4. ASSUME NEW transient \in BOOLEAN, HandshakeFails(transient) PROVE IInv'
  <2>1. Noticed
    BY <1>4, QuietStep DEF HandshakeFails
  <2>2. QueueNoticed
    BY <1>4, QueueUnchanged DEF HandshakeFails
  <2>3. SenderTypeOK' /\ SenderOK'
    BY <1>4, SenderUntouched DEF HandshakeFails
  <2>4. /\ UNCHANGED <<reading, asked, epoch, holder, login>>
        /\ probe # Nothing /\ probe' = Nothing /\ tried' \in {tried, Nothing, probe.key}
    BY <1>4 DEF HandshakeFails, contextVars
  <2>5. HandshakeOK' /\ ReadingOK'
    BY <2>4 DEF HandshakeOK, ReadingOK
  <2> QED BY <2>1, <2>2, <2>3, <2>5, Kept
<1>5. CASE HandshakeUnauthorized
  <2>1. Noticed
    BY <1>5, ExpiryStep DEF HandshakeUnauthorized
  <2>2. QueueNoticed
    BY <1>5, QueueUnchanged DEF HandshakeUnauthorized
  <2>3. SenderTypeOK' /\ SenderOK'
    BY <1>5, <2>1, <2>2, WatchStep DEF HandshakeUnauthorized
  <2>4. HandshakeOK' /\ ReadingOK'
    BY <1>5, <2>1, ForgetWhenToldStep DEF HandshakeUnauthorized
  <2> QED BY <2>1, <2>2, <2>3, <2>4, Kept
<1> QED BY <1>1, <1>2, <1>3, <1>4, <1>5

LEMMA GateStep ==
  ASSUME IInv,
         \/ EnablePath \/ DisablePath
         \/ \E p \in Project : QueueBlocks(p)
         \/ AskStatus \/ \E mark \in {"active", "trashed"} : StatusAnswered(mark)
  PROVE  IInv'
<1> USE DEF IInv, DispatchTypeOK
<1>1. CASE EnablePath
  <2>1. Noticed
    BY <1>1, QuietStep DEF EnablePath
  <2>2. QueueNoticed
    <3>1. /\ pathEnabled' = [pathEnabled EXCEPT ![open] = TRUE]
          /\ blockedOps' = blockedOps /\ queueStamp' = queueStamp
      BY <1>1 DEF EnablePath
    <3>2. QueueOK'
      BY <3>1 DEF QueueOK
    <3>3. \A p \in Project : queueStamp'[p] >= queueStamp[p]
      BY <3>1 DEF QueueOK
    <3>4. \A p \in Project : pathEnabled[p] => pathEnabled'[p]
      BY <3>1 DEF QueueOK
    <3> QED BY <3>1, <3>2, <3>3, <3>4 DEF QueueNoticed
  <2>3. SenderTypeOK' /\ SenderOK'
    BY <1>1, <2>1, <2>2, WatchStep DEF EnablePath
  <2>4. HandshakeOK' /\ ReadingOK'
    BY <1>1 DEF EnablePath, handshake, contextVars, HandshakeOK, ReadingOK
  <2> QED BY <2>1, <2>2, <2>3, <2>4, Kept
<1>2. CASE DisablePath
  <2>1. Noticed
    BY <1>2, ForgetStep DEF DisablePath
  <2>2. QueueNoticed
    <3>1. /\ pathEnabled' = [pathEnabled EXCEPT ![open] = FALSE]
          /\ blockedOps' = blockedOps /\ queueStamp' = queueStamp
      BY <1>2 DEF DisablePath
    <3>2. ~Steady
      BY <1>2 DEF DisablePath, Forget, Steady, ContextTypeOK, CountersOK
    <3>3. QueueOK'
      BY <3>1 DEF QueueOK
    <3>4. \A p \in Project : queueStamp'[p] >= queueStamp[p]
      BY <3>1 DEF QueueOK
    <3> QED BY <3>1, <3>2, <3>3, <3>4 DEF QueueNoticed
  <2>3. SenderTypeOK' /\ SenderOK'
    BY <1>2, <2>1, <2>2, WatchStep DEF DisablePath
  <2>4. HandshakeOK' /\ ReadingOK'
    BY <1>2, <2>1, ForgetWhenToldStep DEF DisablePath
  <2> QED BY <2>1, <2>2, <2>3, <2>4, Kept
<1>3. ASSUME NEW p \in Project, QueueBlocks(p) PROVE IInv'
  <2>1. Noticed
    BY <1>3, CountedStep DEF QueueBlocks
  <2>2. QueueNoticed
    <3>1. /\ pathEnabled' = pathEnabled
          /\ blockedOps' = [blockedOps EXCEPT ![p] = ~@]
          /\ queueStamp' = [queueStamp EXCEPT ![p] = @ + 1]
      BY <1>3 DEF QueueBlocks
    <3> QED BY <3>1 DEF QueueOK, QueueNoticed
  <2>3. SenderTypeOK' /\ SenderOK'
    BY <1>3, <2>1, <2>2, WatchStep DEF QueueBlocks
  <2>4. HandshakeOK' /\ ReadingOK'
    BY <1>3 DEF QueueBlocks, handshake, session, HandshakeOK, ReadingOK
  <2> QED BY <2>1, <2>2, <2>3, <2>4, Kept
<1>4. CASE AskStatus
  <2>1. Noticed
    BY <1>4, QuietStep DEF AskStatus
  <2>2. QueueNoticed
    BY <1>4, QueueUnchanged DEF AskStatus
  <2>3. SenderTypeOK' /\ SenderOK'
    BY <1>4, SenderUntouched DEF AskStatus
  <2>4. asked' \in [context : (Nat \X Nat) \X (Account \cup {Nothing}), write : Nat]
    BY <1>4 DEF AskStatus, ProjectContext, PullIdentity, Identity, ContextTypeOK, CountersOK, SessionOK
  <2>5. HandshakeOK' /\ ReadingOK'
    BY <1>4, <2>4 DEF AskStatus, handshake, contextVars, HandshakeOK, ReadingOK
  <2> QED BY <2>1, <2>2, <2>3, <2>5, Kept
<1>5. ASSUME NEW mark \in {"active", "trashed"}, StatusAnswered(mark) PROVE IInv'
  <2>1. Noticed
    BY <1>5, MarkStateStep, CountedStep DEF StatusAnswered
  <2>2. QueueNoticed
    BY <1>5, QueueUnchanged DEF StatusAnswered
  <2>3. SenderTypeOK' /\ SenderOK'
    BY <1>5, <2>1, <2>2, WatchStep DEF StatusAnswered
  <2>4. HandshakeOK' /\ ReadingOK'
    BY <1>5 DEF StatusAnswered, handshake, session, HandshakeOK, ReadingOK
  <2> QED BY <2>1, <2>2, <2>3, <2>4, Kept
<1> QED BY <1>1, <1>2, <1>3, <1>4, <1>5

LEMMA SenderStep ==
  ASSUME IInv,
         \/ Launch \/ Passes \/ FindsTrashed \/ Paused
         \/ \E overtakes \in BOOLEAN : SenderEnds(overtakes)
  PROVE  IInv'
<1> USE DEF IInv, DispatchTypeOK
<1>1. CASE Launch
  <2>1. Noticed
    BY <1>1, QuietStep DEF Launch
  <2>2. QueueNoticed
    BY <1>1, QueueUnchanged DEF Launch
  <2>3. HandshakeOK' /\ ReadingOK'
    BY <1>1 DEF Launch, handshake, contextVars, HandshakeOK, ReadingOK
  <2>4. /\ sender' = Captured /\ MayDispatch(Captured) /\ open \in Project
        /\ UNCHANGED <<contextVars, queueState>>
    BY <1>1 DEF Launch, ContextTypeOK, CountersOK
  <2>5. ContextKey \in Keys /\ ContextKey[1] = generation /\ ContextKey[2] = epoch /\ ContextKey[3] = Identity
    BY KeyType DEF ContextKey
  <2>6. /\ Captured \in Sender /\ Captured.key = ContextKey /\ Captured.write = writeEpoch
        /\ Captured.stamp = queueStamp[open] /\ Captured.project = open
        /\ Captured.stage = "launched" /\ Captured.lapsed = FALSE
    BY <2>4, <2>5 DEF Captured, Sender, ContextTypeOK, CountersOK, QueueOK
  <2>7. Authorized(Captured) /\ Captured.key[3] # Nothing
    BY <2>4, <2>5, <2>6 DEF MayDispatch, Authorized, UsesContract, QueueUndisturbed
  <2>8. UNCHANGED <<generation, epoch, writeEpoch, open, holder, authenticated, authBlocked, login,
                    authority, projectState, stateSeenIn, pathEnabled, blockedOps, queueStamp>>
    BY <2>4 DEF contextVars, queueState
  <2> HIDE DEF Captured
  <2>9. SenderTypeOK'
    <3>1. generation \in Nat /\ epoch \in Nat /\ writeEpoch \in Nat /\ queueStamp[open] \in Nat
      BY <2>4 DEF ContextTypeOK, CountersOK, QueueOK
    <3> QED BY <2>4, <2>5, <2>6, <2>8, <3>1 DEF SenderTypeOK
  <2>10. SenderOK'
    <3>1. AuthorityAllows' <=> AuthorityAllows
      BY <2>8 DEF AuthorityAllows, ProjectContext, PullIdentity, Identity
    <3>2. Authorized(sender)' <=> Authorized(Captured)
      BY <2>4, <2>8, <3>1 DEF Authorized, Identity
    <3> QED BY <2>4, <2>6, <2>7, <2>8, <3>2 DEF SenderOK, OnItsWay
  <2> QED BY <2>1, <2>2, <2>3, <2>9, <2>10, Kept
<1>2. CASE Passes
  <2>1. Noticed
    BY <1>2, QuietStep DEF Passes
  <2>2. QueueNoticed
    BY <1>2, QueueUnchanged DEF Passes
  <2>3. HandshakeOK' /\ ReadingOK'
    BY <1>2 DEF Passes, handshake, contextVars, HandshakeOK, ReadingOK
  <2>4. /\ sender # Nothing /\ OnItsWay(sender) /\ ~Behind(sender)
        /\ UNCHANGED <<contextVars, queueState>> /\ sender \in Sender
    BY <1>2, PassedIsNotBehind DEF Passes, SenderTypeOK
  <2>5. Authorized(sender) /\ ~sender.lapsed
    BY <2>4 DEF SenderOK
  <2>6. StageAfter(sender.stage) \in {"session", "status", "checked", "http"}
    BY <2>4 DEF OnItsWay, StageAfter
  <2>7. /\ sender' \in Sender /\ sender'.key = sender.key /\ sender'.write = sender.write
        /\ sender'.stamp = sender.stamp /\ sender'.project = sender.project
        /\ sender'.lapsed = sender.lapsed
    BY <1>2, <2>4, <2>6 DEF Passes, Sender
  <2>8. UNCHANGED <<generation, epoch, writeEpoch, open, holder, authenticated, authBlocked, login,
                    authority, projectState, stateSeenIn, pathEnabled, blockedOps, queueStamp>>
    BY <2>4 DEF contextVars, queueState
  <2>9. SenderTypeOK'
    BY <2>4, <2>7, <2>8 DEF SenderTypeOK
  <2>10. SenderOK'
    <3>1. AuthorityAllows' <=> AuthorityAllows
      BY <2>8 DEF AuthorityAllows, ProjectContext, PullIdentity, Identity
    <3>2. Authorized(sender)' <=> Authorized(sender)
      BY <2>7, <2>8, <3>1 DEF Authorized, Identity
    <3> QED BY <2>4, <2>5, <2>7, <2>8, <3>2 DEF SenderOK
  <2> QED BY <2>1, <2>2, <2>3, <2>9, <2>10, Kept
<1>3. CASE FindsTrashed
  <2>1. Noticed
    BY <1>3, MarkStateStep DEF FindsTrashed
  <2>2. QueueNoticed
    BY <1>3, QueueUnchanged DEF FindsTrashed
  <2>3. HandshakeOK' /\ ReadingOK'
    BY <1>3 DEF FindsTrashed, handshake, session, HandshakeOK, ReadingOK
  <2> QED BY <1>3, <2>1, <2>2, <2>3, Kept DEF FindsTrashed, SenderTypeOK, SenderOK
<1>4. CASE Paused
  <2>1. Noticed
    BY <1>4, QuietStep DEF Paused
  <2>2. QueueNoticed
    BY <1>4, QueueUnchanged DEF Paused
  <2>3. HandshakeOK' /\ ReadingOK'
    BY <1>4 DEF Paused, handshake, contextVars, HandshakeOK, ReadingOK
  <2> QED BY <1>4, <2>1, <2>2, <2>3, Kept DEF Paused, SenderTypeOK, SenderOK
<1>5. ASSUME NEW overtakes \in BOOLEAN, SenderEnds(overtakes) PROVE IInv'
  <2>1. Noticed
    BY <1>5, ForgetStep DEF SenderEnds
  <2>2. QueueNoticed
    BY <1>5, QueueUnchanged DEF SenderEnds
  <2>3. HandshakeOK' /\ ReadingOK'
    BY <1>5, <2>1, ForgetWhenToldStep DEF SenderEnds
  <2> QED BY <1>5, <2>1, <2>2, <2>3, Kept DEF SenderEnds, SenderTypeOK, SenderOK
<1> QED BY <1>1, <1>2, <1>3, <1>4, <1>5

-----------------------------------------------------------------------------
(* The theorems *)

LEMMA DispatchOpens == ASSUME DispatchInit PROVE IInv
<1>1. ContextTypeOK
  <2>1. CountersOK
    BY ContextAssumption DEF DispatchInit, ContextInit, CountersOK
  <2>2. SessionOK
    BY DEF DispatchInit, ContextInit, SessionOK
  <2>3. DecisionOK
    BY DEF DispatchInit, ContextInit, DecisionOK, IdentityOrNothing
  <2> QED BY <2>1, <2>2, <2>3 DEF ContextTypeOK
<1>2. HandshakeOK /\ QueueOK
  BY DEF DispatchInit, HandshakeOK, QueueOK
<1>3. SenderTypeOK /\ SenderOK /\ ReadingOK
  BY DEF DispatchInit, SenderTypeOK, SenderOK, ReadingOK
<1> QED BY <1>1, <1>2, <1>3 DEF IInv, DispatchTypeOK

LEMMA Stutter == ASSUME IInv, UNCHANGED dispatchVars PROVE IInv'
<1>1. Noticed
  BY QuietStep DEF dispatchVars, IInv, DispatchTypeOK
<1>2. QueueNoticed
  BY QueueUnchanged DEF dispatchVars, queueState, IInv, DispatchTypeOK
<1>3. SenderTypeOK' /\ SenderOK'
  BY SenderUntouched DEF dispatchVars, queueState
<1>4. HandshakeOK' /\ ReadingOK'
  BY DEF dispatchVars, contextVars, IInv, DispatchTypeOK, HandshakeOK, ReadingOK
<1> QED BY <1>1, <1>2, <1>3, <1>4, Kept

\* The invariant holds of every state the program reaches.
THEOREM Invariance == DispatchSpec => []IInv
<1>1. DispatchInit => IInv
  BY DispatchOpens
<1>2. IInv /\ [DispatchNext]_dispatchVars => IInv'
  BY ElsewhereStep, HandshakeStep, GateStep, SenderStep, Stutter DEF DispatchNext
<1> QED BY <1>1, <1>2, PTL DEF DispatchSpec

\* The session, the handshake, the queue and the sender have the values the code
\* gives them (sync_manager.py, handshake_lifecycle.py), for any projects and
\* accounts and any number of changes.
THEOREM DispatchTypeCorrect == DispatchSpec => []DispatchTypeOK
<1>1. IInv => DispatchTypeOK
  BY DEF IInv
<1> QED BY <1>1, Invariance, PTL

\* A structure batch whose request goes out (send_contract_structure_batch) had
\* one project, one account, one accepted authority, an open gate and a queue
\* without conflicts from its launch to its request, without interruption.
THEOREM BatchIsAuthorized == DispatchSpec => []SentUnderOneAuthorization
<1>1. IInv => SentUnderOneAuthorization
  BY DEF IInv, SenderOK, SentUnderOneAuthorization
<1> QED BY <1>1, Invariance, PTL

\* A handshake reading that counts (_contract_handshake_reading) was asked with
\* the tokens, and in the login, that are in force.
THEOREM ReadingIsThisLogin == DispatchSpec => []FreshReadingIsThisLogin
<1>1. IInv => FreshReadingIsThisLogin
  BY DEF IInv, ReadingOK, FreshReadingIsThisLogin, Fresh, ContextKey
<1> QED BY <1>1, Invariance, PTL
=============================================================================
