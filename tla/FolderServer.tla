----------------------------- MODULE FolderServer -----------------------------
(***************************************************************************)
(* Folder identities on the server, beside the documents of                *)
(* DocumentServer: the folder tree of each project, its append-only ledger *)
(* and the one RPC that writes them, commit_folder.                        *)
(*                                                                         *)
(* commit_folder takes the advisory lock of the project before it reads    *)
(* anything, so that a call is one step.                                   *)
(***************************************************************************)
EXTENDS DocumentServer

CONSTANTS
  Folder, Name,
  Lower,             \* lower(name): what sibling names are compared by
  Root, NoFolder     \* the NULL parent; "no such row"

FolderRow ==
  [project : Project, parent : Folder \cup {Root}, name : Name,
   revision : Nat \ {0}, deleted : BOOLEAN]

FolderKind == {"create", "rename", "move", "update", "delete", "restore"}

FolderVersionRow ==
  [folder : Folder, project : Project, revision : Nat \ {0}, base : Nat,
   op : Operation, client : Client, kind : FolderKind,
   parent : Folder \cup {Root}, name : Name, deleted : BOOLEAN]

FolderRequest ==
  [op : Operation, client : Client, folder : Folder, project : Project,
   base : 0 .. MaxBase, parent : Folder \cup {Root}, name : Name,
   deleted : BOOLEAN]

ASSUME FoldersAssumption ==
  /\ Root \notin Folder
  /\ NoFolder \notin FolderRow
  /\ Name \subseteq DOMAIN Lower

VARIABLES
  folders,          \* public.folders
  folderVersions    \* public.folder_versions

folderVars == <<folders, folderVersions>>

-----------------------------------------------------------------------------
(* Helpers *)

Known(f) == folders[f] # NoFolder

InProject(f, p) == Known(f) /\ folders[f].project = p

Live(f) == Known(f) /\ ~ folders[f].deleted

FolderVersionOf(op) == {v \in folderVersions : v.op = op}

SameFolderRequest(v, r) ==
  /\ v.folder = r.folder
  /\ v.project = r.project
  /\ v.base = r.base
  /\ v.client = r.client
  /\ v.parent = r.parent
  /\ v.name = r.name
  /\ v.deleted = r.deleted

\* A set of folders that holds the parent, in project p, of each of its own.
ClosedUpwards(S, p) ==
  \A f \in S :
    /\ InProject(f, p)
    /\ folders[f].parent # Root
    /\ InProject(folders[f].parent, p)
    => folders[f].parent \in S

\* Mutant: compares with the parent only.
ParentAlone(g, p) == {g}

\* The recursive query: the folder and everything above it.
Ancestors(g, p) ==
  {a \in Folder : \A S \in SUBSET Folder :
                    g \in S /\ ClosedUpwards(S, p) => a \in S}

ParentMissing(r) ==
  r.parent # Root /\ ~ (InProject(r.parent, r.project) /\ Live(r.parent))

MakesCycle(r) ==
  r.parent # Root /\ r.folder \in Ancestors(r.parent, r.project)

\* folders_live_root_name_uidx and folders_live_child_name_uidx, checked first.
NameTaken(r) ==
  \E f \in Folder \ {r.folder} :
    /\ InProject(f, r.project)
    /\ Live(f)
    /\ folders[f].parent = r.parent
    /\ Lower[folders[f].name] = Lower[r.name]

\* A folder with a live folder in it cannot be deleted; the documents in it are
\* not looked at.
Occupied(f, p) ==
  \E g \in Folder : InProject(g, p) /\ folders[g].parent = f /\ Live(g)

CreateFolderVerdict(r) ==
  IF Known(r.folder) THEN "FOLDER_ALREADY_EXISTS"
  ELSE IF r.deleted THEN "INVALID_ARGUMENT"
  ELSE IF NameTaken(r) THEN "FOLDER_NAME_CONFLICT"
  ELSE "committed"

ContinueFolderVerdict(r) ==
  IF ~ InProject(r.folder, r.project) THEN "FOLDER_NOT_FOUND"
  ELSE IF folders[r.folder].revision # r.base THEN "REVISION_CONFLICT"
  ELSE IF r.deleted /\ Occupied(r.folder, r.project) THEN "FOLDER_NOT_EMPTY"
  ELSE IF ~ r.deleted /\ NameTaken(r) THEN "FOLDER_NAME_CONFLICT"
  ELSE "committed"

\* What commit_folder answers, in the order the code decides it.
FolderVerdict(r) ==
  IF r.parent = r.folder THEN "FOLDER_CYCLE"
  ELSE IF projects[r.project] = NoProject THEN "PROJECT_NOT_FOUND"
  ELSE IF projects[r.project].trashed THEN "PROJECT_TRASHED"
  ELSE IF ~ MayEdit(r.project, r.client) THEN "FORBIDDEN"
  ELSE IF FolderVersionOf(r.op) # {}
  THEN IF \A v \in FolderVersionOf(r.op) : SameFolderRequest(v, r)
       THEN "replayed" ELSE "OPERATION_ID_REUSED"
  ELSE IF ParentMissing(r) THEN "PARENT_FOLDER_NOT_FOUND"
  ELSE IF MakesCycle(r) THEN "FOLDER_CYCLE"
  ELSE IF r.base = 0 THEN CreateFolderVerdict(r) ELSE ContinueFolderVerdict(r)

FolderKindOf(r) ==
  IF r.base = 0 THEN "create"
  ELSE IF ~ folders[r.folder].deleted /\ r.deleted THEN "delete"
  ELSE IF folders[r.folder].deleted /\ ~ r.deleted THEN "restore"
  ELSE IF folders[r.folder].parent # r.parent THEN "move"
  ELSE IF folders[r.folder].name # r.name THEN "rename"
  ELSE "update"

\* Mutant: keeps the revision the request was made from.
SameRevision(r) == r.base

NextRevision(r) == r.base + 1

-----------------------------------------------------------------------------
(* Actions *)

\* Refused and replayed calls change nothing.
CommitFolder(r) ==
  /\ FolderVerdict(r) = "committed"
  /\ folders' = [folders EXCEPT ![r.folder] =
       [project |-> r.project, parent |-> r.parent, name |-> r.name,
        revision |-> NextRevision(r), deleted |-> r.deleted]]
  /\ folderVersions' = folderVersions \cup
       {[folder |-> r.folder, project |-> r.project, base |-> r.base,
         revision |-> NextRevision(r), op |-> r.op, client |-> r.client,
         kind |-> FolderKindOf(r), parent |-> r.parent, name |-> r.name,
         deleted |-> r.deleted]}
  /\ UNCHANGED vars

\* The folders of a purged project cascade away with its documents.
PurgeFolders(c, p) ==
  /\ PurgeProject(c, p)
  /\ folders' = [f \in Folder |-> IF InProject(f, p) THEN NoFolder
                                  ELSE folders[f]]
  /\ folderVersions' = {v \in folderVersions : v.project # p}

\* The rest of the server does not know of folders.
OtherProjectStep ==
  /\ \E c \in Client, p \in Project :
       EnsureProject(c, p) \/ TrashProject(c, p) \/ RestoreProject(c, p)
  /\ UNCHANGED folderVars

DocumentStep == (LeaseStep \/ CommitStep \/ Tick) /\ UNCHANGED folderVars

FolderInit ==
  /\ Init
  /\ folders = [f \in Folder |-> NoFolder]
  /\ folderVersions = {}

FolderNext ==
  \/ \E r \in FolderRequest : CommitFolder(r)
  \/ \E c \in Client, p \in Project : PurgeFolders(c, p)
  \/ OtherProjectStep
  \/ DocumentStep

FolderSpec == FolderInit /\ [][FolderNext]_<<vars, folderVars>>

-----------------------------------------------------------------------------
(* Properties *)

\* Both tables hold rows of their types.
FolderTypeOK ==
  /\ folders \in [Folder -> FolderRow \cup {NoFolder}]
  /\ folderVersions \in SUBSET FolderVersionRow

\* However folders are moved, deleted and restored, no folder comes to lie in
\* itself: going up from a folder, deleted or not, ends at the root.
NoFolderCycle ==
  \A S \in SUBSET Folder :
    S # {} => \E f \in S : ~ Known(f) \/ folders[f].parent \notin S

\* A folder that can be seen hangs from folders that can be seen, all of one
\* project.
LiveFoldersHang ==
  \A f \in Folder :
    Live(f) /\ folders[f].parent # Root =>
      /\ Live(folders[f].parent)
      /\ folders[folders[f].parent].project = folders[f].project

\* No two live siblings have names that differ only in case: Windows could not
\* hold both.
SiblingNamesDiffer ==
  \A f, g \in Folder :
    /\ Live(f) /\ Live(g)
    /\ folders[f].project = folders[g].project
    /\ folders[f].parent = folders[g].parent
    /\ Lower[folders[f].name] = Lower[folders[g].name]
    => f = g

\* Whatever is moved, renamed, deleted, restored and purged, in any order, the
\* live folders of a project stay one tree that Windows can hold.
FoldersFormATree == NoFolderCycle /\ LiveFoldersHang /\ SiblingNamesDiffer
=============================================================================
