------------------------------- MODULE MCFolders -------------------------------
(* The folders of a project on both sides, in behaviours of their own: on the *)
(* server (FolderServer: one device that owns the project, two folders, one  *)
(* name in two spellings) and on a device that pulls them (RemoteTree).       *)
EXTENDS FolderServer, TLC

CONSTANTS
  desktop, draft, Draft,
  Directory, Label, Leaf, Own, Tree, Trash, None, first, second, left,
  MaxChanges, MaxLocal, MaxFaults,
  MaxDisturbances       \* bound: changes of the writer and faults together

VARIABLES
  server, peer, place, at, bare, store, queued, typing, pull, bounds, past,
  part

T == INSTANCE RemoteTree WITH Folder <- Directory, Name <- Label, Document <- Leaf

pulled == <<server, peer, place, at, bare, store, queued, typing, pull, bounds, past>>

MCUserOf == [c \in Client |-> "owner"]
MCMemberRole == [u \in Users |-> "none"]
MCLower == (draft :> 1) @@ (Draft :> 1)

\* The first folder has the first name; the part that stands still starts in
\* one state only.
FoldersInit ==
  /\ part \in {"server", "pull"}
  /\ FolderInit /\ T!TreeInit
  /\ place[second] # None => \E d \in Leaf : at[d] = first
  /\ part = "pull" => place[first] = T!Live(left)
  /\ part = "server" => place[first] = None

FoldersNext ==
  /\ UNCHANGED part
  /\ \/ part = "server" /\ FolderNext /\ UNCHANGED pulled
     \/ /\ part = "pull" /\ T!TreeNext /\ UNCHANGED <<vars, folderVars>>
        /\ bounds'.local + bounds'.faults <= MaxDisturbances

FoldersSpec == FoldersInit /\ [][FoldersNext]_<<part, vars, folderVars, pulled>>

\* Whatever a pull brings, a document with unsent work stays where it is; and a
\* pull that ends well leaves the binder of the other device.
PullsKeepAndAgree == T!LocalWorkStays /\ T!AppliedPullAgrees
=============================================================================
