--------------------------- MODULE MCContractPath ---------------------------
(* Three things that happen around the contract path, each in behaviours of   *)
(* its own: a reviewed batch is executed by up to three processes, batches    *)
(* are dispatched, and pulls choose the structure authority.                  *)
EXTENDS ReviewedExecution, ContractDispatch, PullCoordination, TLC

VARIABLE part

reviewedVars == vars
dispatchOnly == <<reading, tried, probe, pathEnabled, blockedOps, queueStamp, asked, sender>>
pullOnly == <<coord, pulls, reserved, wakes, queued, stuck, sending, reviewing>>

PathInit ==
    /\ part \in {"reviewed", "dispatch", "pull"}
    /\ Init /\ DispatchInit /\ PullInit
    /\ part = "reviewed" => holder = Nothing /\ ~restoring

PathNext ==
    /\ UNCHANGED part
    /\ \/ part = "reviewed" /\ Next /\ UNCHANGED <<contextVars, dispatchOnly, pullOnly>>
       \/ part = "dispatch" /\ DispatchNext /\ UNCHANGED <<reviewedVars, pullOnly>>
       \/ part = "pull" /\ PullNext /\ UNCHANGED <<reviewedVars, dispatchOnly>>

PathSpec == PathInit /\ [][PathNext]_<<part, reviewedVars, contextVars, dispatchOnly, pullOnly>>

Symmetric == Permutations(Process) \cup Permutations(Account)
=============================================================================
