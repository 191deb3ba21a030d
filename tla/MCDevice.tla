-------------------------------- MODULE MCDevice --------------------------------
(* One device in behaviours of its own for each of several parts: the queue of *)
(* its saves drains, within MaxOps operations (OperationQueue); the            *)
(* single-document editor (NormalEditor); the batches that a tool leaves for   *)
(* the application (StructureTrial); the opening of an older store             *)
(* (StoreUpgrade); and the backups of one work (ProjectArchive).               *)
EXTENDS OperationQueue

CONSTANTS Nothing, MaxActs, MaxSurprises, MaxBatches, MaxRuns, MaxOthers,
  Opener, Operation, MaxOpenings, MaxSends,
  File, Listing, Damaged, MaxSaves, MaxTries, MaxDamages

VARIABLES
  kept, action, wire, texts, past,
  site, batches, remote, program, rounds,
  file, opening, history,
  work, capture, package, restore, restored, moments,
  part

ASSUME DeviceAssumption ==
  /\ Nothing \notin Nat \cup {"looked", "made", "queued", "rehearsing", "rehearsed", "sending"}
  /\ Listing \notin File
  /\ \A op \in Operation, k \in {1, 2} : <<op, k>> # Nothing

typed == <<kept, action, wire, texts, past>>
tried == <<site, batches, remote, program, rounds>>

opened == <<file, opening, history>>

backed == <<work, capture, package, restore, restored, moments>>

T == INSTANCE StructureTrial
U == INSTANCE StoreUpgrade
N == INSTANCE NormalEditor WITH server <- texts

A == INSTANCE ProjectArchive WITH Document <- File, Identity <- Listing, past <- moments

OldFile == CHOOSE f \in U!OldFiles([op \in Operation |-> "pending"]) : f.version = 8012

\* The queue of a part that stands still is empty.
DeviceInit ==
  /\ part \in {"queue", "normal", "trial", "opening", "backup"}
  /\ Init /\ N!NormalInit /\ T!TrialInit /\ U!UpgradeInit /\ A!ArchiveInit
  /\ part # "opening" => file = OldFile
  /\ part # "backup" => work.disk = {CHOOSE d \in File : TRUE}

DeviceNext ==
  /\ UNCHANGED part
  /\ \/ part = "queue" /\ Len(store.ops) <= MaxOps /\ Next /\ UNCHANGED <<typed, tried, opened, backed>>
     \/ part = "normal" /\ N!NormalNext /\ UNCHANGED <<vars, tried, opened, backed>>
     \/ part = "trial" /\ T!TrialNext /\ UNCHANGED <<vars, typed, opened, backed>>
     \/ part = "opening" /\ U!UpgradeNext /\ UNCHANGED <<vars, typed, tried, backed>>
     \/ part = "backup" /\ A!ArchiveNext /\ UNCHANGED <<vars, typed, tried, opened>>

DeviceSpec == DeviceInit /\ [][DeviceNext]_<<part, vars, typed, tried, opened, backed>> /\ Progress

\* Wherever the program stops, the records of the single-document editor explain
\* its file, its gate and its queue; a commit leaves once; and what was received
\* from another device is not undone unseen, and its reception can be finished.
NormalEditorIsSound ==
  part = "normal" =>
    /\ N!HistoryExplains /\ N!CommittedOnce
    /\ N!PeersAreNotReverted /\ N!ReceptionsFinish

\* The tool's folder is made once, and its probe moves nothing.
TrialIsHarmless ==
  part = "trial" => T!FolderIsMadeOnce /\ T!ProbeMovesNothing

\* An older file can be opened however often its opening was killed, its settled
\* operations are not sent again, and its version tells what it holds.
OldStoresOpen ==
  part = "opening" => U!SettledStaySettled /\ U!OpensAfterKill /\ U!VersionTellsSchema

\* A backup is the work at one moment, and what is restored from it is that.
BackupsAreTrue ==
  part = "backup" => A!BackupsAreMoments /\ A!RestoredIsTheBackup
=============================================================================
