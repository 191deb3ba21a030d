--------------------------- MODULE ProjectIdentity ---------------------------
(***************************************************************************)
(* A project's files and its identity file, which names every one of them. *)
(* Each command of the binder and each adoption of a pull changes both as  *)
(* one journalled transaction (project_creation_v1.py): the journal is     *)
(* written, the files change, the identity file is replaced, the journal   *)
(* is removed.  A crash may fall between any two of these, the file system *)
(* may refuse one of them, and the next opening finishes what the journals *)
(* tell, then compares both sides and refuses a project that differs.      *)
(* Modelled at file granularity: a file is the uuid it was born with.      *)
(***************************************************************************)
EXTENDS Naturals, Sequences, FiniteSets, SequencesExt, FiniteSetsExt, Functions

CONSTANTS FolderName, DocName,
          Uuid,             \* the ids this device or a peer may issue
          Main, Bin,        \* the nodes of 메인 and 메인/휴지통, always there
          Trash,            \* the name of 휴지통
          Idle,             \* no command is running
          Fault,            \* what may go wrong: a subset of FaultKind
          MaxFaults,
          MaxOrder          \* bound: sibling places are counted up to this one

FaultKind == {"crash", "refused files", "refused identity", "refused record"}
Name == FolderName \cup DocName

LivePath == {<<n>> : n \in Name} \cup {<<f, d>> : f \in FolderName, d \in DocName}
TrashPath == {<<Trash>> \o p : p \in LivePath}
Path == LivePath \cup TrashPath
SameKind(m, n) == (m \in FolderName) <=> (n \in FolderName)

VARIABLES
  disk,       \* the tree: path -> the uuid its file or folder was born with
              \* (Main for a folder that was only made on the way)
  identity,   \* identity-v1.json: uuid -> [path, parent, order]
  issued,     \* the uuids issued so far
  journals,   \* the journal files: sets of [kind, nodes]
  step,       \* the command under the structure gate, or Idle
  reserved,   \* trash paths a deleted document's row still holds in the store
  project,    \* "closed", "opening", "open" or "blocked"
  faults,
  causes      \* history: what left a difference no journal explains

treeVars == <<disk, identity, issued, journals, step, reserved, project, faults, causes>>

NodeOf(u) == [uuid |-> u, path |-> identity[u].path, parent |-> identity[u].parent,
              order |-> identity[u].order]
Node == [uuid : Uuid, path : Path, parent : Uuid \cup {Main, Bin}, order : Nat]
JournalKind == {"create", "adopt", "relocate", "remove", "release"}
Cause == {"purge cut short", "unnamed copy", "renamed in trash", "worked over a journal"}

TreeTypeOK ==
  /\ DOMAIN disk \subseteq Path /\ Range(disk) \subseteq issued \cup {Main}
  /\ DOMAIN identity \subseteq issued /\ issued \subseteq Uuid
  /\ \A u \in DOMAIN identity : NodeOf(u) \in Node
  /\ \A j \in journals : j.kind \in JournalKind /\ j.nodes \subseteq Node
  /\ reserved \subseteq TrashPath /\ causes \subseteq Cause
  /\ project \in {"closed", "opening", "open", "blocked"} /\ faults \in 0..MaxFaults

TreeInit ==
  /\ disk = <<>> /\ identity = <<>> /\ issued = {} /\ journals = {}
  /\ step = Idle /\ reserved = {} /\ project = "open" /\ faults = 0 /\ causes = {}

(***************************************************************************)
(* Reading the tree and the identity file.                                 *)
(***************************************************************************)
Without(fn, S) == Restrict(fn, DOMAIN fn \ S)
Over(fn, rest) ==
  [x \in DOMAIN fn \cup DOMAIN rest |-> IF x \in DOMAIN fn THEN fn[x] ELSE rest[x]]
Below(p) == {q \in DOMAIN disk : IsPrefix(p, q)}
OnDisk(p) == p \in DOMAIN disk
NodesAt(p) == {u \in DOMAIN identity : identity[u].path = p}
Known(p) == p \in {<<>>, <<Trash>>} \/ NodesAt(p) # {}
NodeForPath(p) ==
  IF p = <<>> THEN Main ELSE IF p = <<Trash>> THEN Bin ELSE CHOOSE u \in NodesAt(p) : TRUE

NextOrder(nodes, parent) ==
  LET orders == {nodes[u].order : u \in {v \in DOMAIN nodes : nodes[v].parent = parent}}
  IN IF orders = {} THEN 0 ELSE Max(orders) + 1

\* What _validate_nodes accepts: known folder parents, no two siblings in one place.
ValidNodes(nodes) ==
  /\ \A u \in DOMAIN nodes : nodes[u].parent \in DOMAIN nodes \cup {Main, Bin}
  /\ \A u, v \in DOMAIN nodes :
       u # v => <<nodes[u].parent, nodes[u].order>> # <<nodes[v].parent, nodes[v].order>>

Recorded(n) == [path |-> n.path, parent |-> n.parent, order |-> n.order]

\* append_nodes: a uuid recorded with other values is refused.
CanAppend(nodes) ==
  \A n \in nodes : n.uuid \in DOMAIN identity => identity[n.uuid] = Recorded(n)
Appended(nodes) ==
  Over([u \in {n.uuid : n \in nodes} |-> Recorded(CHOOSE n \in nodes : n.uuid = u)],
       identity)

\* The path of what lay at or below old, once that is at new.
Rebased(p, old, new) == new \o SubSeq(p, Len(old) + 1, Len(p))

\* Mutant: keeps the parent the node had.
ReparentedNever(n) ==
  LET old == identity[n.uuid].path IN
  [u \in DOMAIN identity |->
     IF u = n.uuid THEN [Recorded(n) EXCEPT !.parent = identity[u].parent]
     ELSE IF IsPrefix(old, identity[u].path) /\ identity[u].path # old
          THEN [identity[u] EXCEPT !.path = Rebased(@, old, n.path)]
          ELSE identity[u]]

\* relocate_nodes for one move: descendants follow the prefix, uuids stay.
Relocated(n) ==
  LET old == identity[n.uuid].path IN
  [u \in DOMAIN identity |->
     IF u = n.uuid THEN Recorded(n)
     ELSE IF IsPrefix(old, identity[u].path) /\ identity[u].path # old
          THEN [identity[u] EXCEPT !.path = Rebased(@, old, n.path)]
          ELSE identity[u]]

Descendants(S) ==
  S \cup {u \in DOMAIN identity : identity[u].parent \in S}
RemoveNodes(nodes) == Without(identity, Descendants({n.uuid : n \in nodes}))

\* audit: nodes without their file, files without a node.
Mismatch ==
  \/ \E u \in DOMAIN identity : ~OnDisk(identity[u].path)
  \/ \E p \in DOMAIN disk : NodesAt(p) = {}

MovedDisk(old, new) ==
  LET q(p) == IF IsPrefix(new, p) THEN Rebased(p, new, old) ELSE p
      to == {IF IsPrefix(old, p) THEN Rebased(p, old, new) ELSE p : p \in DOMAIN disk}
  IN [p \in to |-> disk[q(p)]]

(***************************************************************************)
(* Commands.  Each starts under the structure gate with the journal file.  *)
(***************************************************************************)
CanStart == project = "open" /\ step = Idle
OverJournal == IF journals = {} THEN {} ELSE {"worked over a journal"}

Begin(kind, nodes, first, target) ==
  /\ journals' = journals \cup {[kind |-> kind, nodes |-> nodes]}
  /\ step' = [journal |-> [kind |-> kind, nodes |-> nodes], stage |-> first,
              target |-> target]
  /\ causes' = causes \cup OverJournal

NewNode(u, parent, n, order) ==
  [uuid |-> u, path |-> Append(parent, n), parent |-> NodeForPath(parent), order |-> order]

\* create_item: one folder or document below a recorded folder, under a name
\* _unique_name finds free on disk.
CreateItem(parent, n) ==
  /\ CanStart /\ Append(parent, n) \in LivePath \ DOMAIN disk /\ Known(parent)
  /\ \E u \in Uuid \ issued :
       /\ issued' = issued \cup {u}
       /\ Begin("create",
                {NewNode(u, parent, n, NextOrder(identity, NodeForPath(parent)))},
                "files", <<>>)
  /\ UNCHANGED <<disk, identity, reserved, project, faults>>

\* create_volume: a folder and its chapters in one transaction.
CreateVolume(f, d) ==
  /\ CanStart /\ ~OnDisk(<<f>>) /\ NodesAt(<<f>>) = {}
  /\ \E u, v \in Uuid \ issued :
       /\ u # v
       /\ issued' = issued \cup {u, v}
       /\ Begin("create",
                {NewNode(u, <<>>, f, NextOrder(identity, Main)),
                 [uuid |-> v, path |-> <<f, d>>, parent |-> u, order |-> 0]},
                "files", <<>>)
  /\ UNCHANGED <<disk, identity, reserved, project, faults>>

\* The four commands that move an item.
Renames(old, new) == old \in LivePath /\ new \in LivePath /\ Front(old) = Front(new)
Moves(old, new) == old \in LivePath /\ new \in LivePath /\ Last(old) = Last(new)
Trashes(old, new) ==
  /\ old \in LivePath /\ Front(new) = <<Trash>>
  /\ \/ Last(new) = Last(old)
     \/ OnDisk(<<Trash, Last(old)>>) /\ ~Known(new)   \* a timestamped name
Restores(old, new) == Front(old) = <<Trash>> /\ new \in LivePath

Movable(old, new) ==
  /\ OnDisk(old) /\ ~OnDisk(new) /\ SameKind(Last(old), Last(new))
  /\ \A p \in Below(old) : Rebased(p, old, new) \in Path
  /\ Front(new) \in {<<>>, <<Trash>>} \/ OnDisk(Front(new))

\* relocate_path: identity refuses a recorded target and an unrecorded parent
\* before anything moves.
CanRelocate(new) == NodesAt(new) = {} /\ Known(Front(new))
Relocation(old, new) ==
  LET u == NodeForPath(old)
      parent == NodeForPath(Front(new))
  IN [uuid |-> u, path |-> new, parent |-> parent,
      order |-> IF parent = identity[u].parent THEN identity[u].order
                ELSE NextOrder(identity, parent)]

\* An item identity does not know moves on disk alone.
RelocatePath(old, new) ==
  /\ CanStart /\ Movable(old, new)
  /\ Renames(old, new) \/ Moves(old, new) \/ Trashes(old, new) \/ Restores(old, new)
  /\ IF NodesAt(old) = {}
     THEN /\ disk' = MovedDisk(old, new)
          /\ reserved' = {p \in reserved : ~IsPrefix(old, p)}
          /\ causes' = causes \cup OverJournal
          /\ UNCHANGED <<journals, step>>
     ELSE /\ CanRelocate(new) /\ Relocation(old, new).order <= MaxOrder
          /\ Begin("relocate", {Relocation(old, new)}, "files", old)
          /\ UNCHANGED <<disk, reserved>>
  /\ UNCHANGED <<identity, issued, project, faults>>

\* delete_from_trash and empty_trash: S are entries of the trash.
Purge(S) ==
  /\ CanStart /\ S # {} /\ S \subseteq DOMAIN disk
  /\ LET nodes == {NodeOf(u) : u \in UNION {NodesAt(p) : p \in S}}
     IN IF nodes = {}
        THEN /\ disk' = Without(disk, UNION {Below(p) : p \in S})
             /\ causes' = causes \cup OverJournal
             /\ UNCHANGED <<journals, step>>
        ELSE Begin("remove", nodes, "files", S) /\ UNCHANGED disk
  /\ UNCHANGED <<identity, issued, reserved, project, faults>>

TrashEntries == {p \in DOMAIN disk : Len(p) = 2 /\ Head(p) = Trash}
PurgeItem(p) == Purge({p})
EmptyTrash == Cardinality(TrashEntries) > 1 /\ Purge(TrashEntries)

\* A pull brings a document or folder nobody has here: its server id is
\* adopted before its bytes are written.
AdoptRemote(p) ==
  /\ CanStart /\ p \in LivePath /\ ~OnDisk(p) /\ NodesAt(p) = {} /\ Known(Front(p))
  /\ \E u \in Uuid \ issued :
       /\ issued' = issued \cup {u}
       /\ Begin("adopt",
                {NewNode(u, Front(p), Last(p), NextOrder(identity, NodeForPath(Front(p))))},
                "files", <<>>)
  /\ UNCHANGED <<disk, identity, reserved, project, faults>>

\* materialize_remote_tombstone: the copy is written first and named later.
CopyTombstone(d) ==
  /\ CanStart /\ ~OnDisk(<<Trash, d>>) /\ NodesAt(<<Trash, d>>) = {}
  /\ \E u \in Uuid \ issued :
       /\ issued' = issued \cup {u}
       /\ disk' = Over([p \in {<<Trash, d>>} |-> u], disk)
       /\ step' = [journal |-> [kind |-> "adopt",
                                nodes |-> {NewNode(u, <<Trash>>, d, NextOrder(identity, Bin))}],
                   stage |-> "copied", target |-> <<>>]
  /\ causes' = causes \cup OverJournal
  /\ UNCHANGED <<identity, journals, reserved, project, faults>>

SettleCopy ==
  /\ step # Idle /\ step.stage = "copied"
  /\ journals' = journals \cup {step.journal}
  /\ step' = [step EXCEPT !.stage = "files"]
  /\ UNCHANGED <<disk, identity, issued, reserved, project, faults, causes>>

(***************************************************************************)
(* The steps of a transaction.                                             *)
(***************************************************************************)
At(kinds, stage) == step # Idle /\ step.journal.kind \in kinds /\ step.stage = stage
Goto(stage) == step' = [step EXCEPT !.stage = stage]

Made(nodes) ==
  LET files == [p \in {n.path : n \in nodes} |-> (CHOOSE n \in nodes : n.path = p).uuid]
      onTheWay == [p \in {Front(n.path) : n \in nodes} \cap Path |-> Main]
  IN Over(disk, Over(files, onTheWay))
Leaf(p) == Below(p) = {p}
Emptied(nodes) == Without(disk, {p \in {n.path : n \in nodes} : Leaf(p)})

\* _materialize, node by node, parents first, folders on the way as well.
Materialize ==
  /\ At({"create", "adopt"}, "files")
  /\ LET missing == {n \in step.journal.nodes : ~OnDisk(n.path)} IN
     IF missing = {} THEN Goto("identity") /\ UNCHANGED disk
     ELSE /\ \E n \in missing :
               /\ \A m \in missing : Len(n.path) <= Len(m.path)
               /\ disk' = Made({n})
          /\ UNCHANGED step
  /\ UNCHANGED <<identity, issued, journals, reserved, project, faults, causes>>

MoveFiles ==
  /\ At({"relocate"}, "files")
  /\ \E n \in step.journal.nodes : disk' = MovedDisk(step.target, n.path)
  /\ Goto("identity")
  /\ UNCHANGED <<identity, issued, journals, reserved, project, faults, causes>>

Doomed(S) == UNION {Below(p) : p \in S}

\* rmtree: file by file, a folder after what it holds.
DeleteFile ==
  /\ At({"remove"}, "files")
  /\ IF Doomed(step.target) = {} THEN Goto("identity") /\ UNCHANGED disk
     ELSE /\ \E p \in Doomed(step.target) : Leaf(p) /\ disk' = Without(disk, {p})
          /\ UNCHANGED step
  /\ UNCHANGED <<identity, issued, journals, reserved, project, faults, causes>>

\* The identity file is replaced by one rename.
NewIdentity(j) ==
  IF j.kind \in {"create", "adopt"} THEN Appended(j.nodes)
  ELSE IF j.kind = "relocate" THEN Relocated(CHOOSE n \in j.nodes : TRUE)
  ELSE RemoveNodes(j.nodes)
Acceptable(j) ==
  /\ j.kind \in {"create", "adopt"} => CanAppend(j.nodes)
  /\ j.kind = "relocate" => \A n \in j.nodes : n.uuid \in DOMAIN identity
  /\ ValidNodes(NewIdentity(j))

WriteIdentity ==
  /\ step # Idle /\ step.stage = "identity" /\ Acceptable(step.journal)
  /\ identity' = NewIdentity(step.journal)
  /\ Goto(IF step.journal.kind = "release" THEN "files" ELSE "unlink")
  /\ UNCHANGED <<disk, issued, journals, reserved, project, faults, causes>>

\* release_adopted_nodes drops what it named only once it is nameless.
ReleaseFiles ==
  /\ At({"release"}, "files")
  /\ disk' = Emptied(step.journal.nodes)
  /\ Goto("unlink")
  /\ UNCHANGED <<identity, issued, journals, reserved, project, faults, causes>>

Documents(S) == {p \in S : Last(p) \in DocName}

\* The journal goes; the caller then records the command in the store: the rows
\* of a trashed item hold their trash paths, those of a restored one let go, and
\* the row of a purged item lets go only if the server has acknowledged it.
Unlink ==
  /\ step # Idle /\ step.stage = "unlink"
  /\ journals' = journals \ {step.journal}
  /\ IF step.journal.kind = "relocate"
     THEN \E n \in step.journal.nodes :
       IF n.path \in TrashPath
       THEN Goto("tombstone") /\ UNCHANGED reserved
       ELSE Goto("record") /\ reserved' = {p \in reserved : ~IsPrefix(step.target, p)}
     ELSE IF step.journal.kind = "remove"
     THEN /\ step' = Idle
          /\ reserved' \in {reserved, {p \in reserved : \A q \in step.target : ~IsPrefix(q, p)}}
     ELSE IF step.journal.kind = "adopt" /\ \A n \in step.journal.nodes : n.path \in LivePath
     THEN Goto("content") /\ UNCHANGED reserved
     ELSE step' = Idle /\ UNCHANGED reserved
  /\ UNCHANGED <<disk, identity, issued, project, faults, causes>>

\* record_path_change follows a rename or a move into the store.
RecordMove ==
  /\ step # Idle /\ step.stage = "record" /\ step' = Idle
  /\ UNCHANGED <<disk, identity, issued, journals, reserved, project, faults, causes>>

\* record_tombstone: while a destination is held by another row the item is
\* given a fresh trash name, on disk only (relocate_trash_item).
RecordTombstone ==
  /\ step # Idle /\ step.stage = "tombstone"
  /\ LET at == (CHOOSE n \in step.journal.nodes : TRUE).path IN
     IF Documents(Below(at)) \cap reserved = {}
     THEN /\ reserved' = reserved \cup Documents(Below(at)) /\ step' = Idle
          /\ UNCHANGED <<disk, causes>>
     ELSE \E n \in Name :
            /\ SameKind(n, Last(at)) /\ ~OnDisk(<<Trash, n>>) /\ ~Known(<<Trash, n>>)
            /\ \A p \in reserved : ~IsPrefix(<<Trash, n>>, p)
            /\ disk' = MovedDisk(at, <<Trash, n>>)
            /\ reserved' = reserved
                 \cup {Rebased(p, at, <<Trash, n>>) : p \in Documents(Below(at))}
            /\ causes' = causes \cup {"renamed in trash"}
            /\ step' = Idle
  /\ UNCHANGED <<identity, issued, journals, project, faults>>

\* The adopted document's bytes land, or its id is given back.
WriteContent ==
  /\ step # Idle /\ step.stage = "content" /\ step' = Idle
  /\ UNCHANGED <<disk, identity, issued, journals, reserved, project, faults, causes>>

(***************************************************************************)
(* Faults.                                                                 *)
(***************************************************************************)
Fails(kind) == kind \in Fault /\ faults < MaxFaults /\ faults' = faults + 1

\* A purge that stops short leaves nodes without files for good where recovery
\* finds the item still there; one that is refused has dropped its journal.
Missing(S) == \E u \in Descendants(S) : ~OnDisk(identity[u].path)
CutShort(refused) ==
  /\ At({"remove"}, "files")
  /\ \E n \in step.journal.nodes : (refused \/ OnDisk(n.path)) /\ Missing({n.uuid})
Interrupted(refused) ==
  (IF CutShort(refused) THEN {"purge cut short"} ELSE {})
    \cup (IF step # Idle /\ step.stage = "copied" THEN {"unnamed copy"} ELSE {})

\* The process stops wherever it is.
CrashProject ==
  /\ project \in {"open", "opening"} /\ Fails("crash")
  /\ project' = "closed" /\ step' = Idle
  /\ causes' = causes \cup Interrupted(FALSE)
  /\ UNCHANGED <<disk, identity, issued, journals, reserved>>

\* A file is in use, the disk is full: the journal of a move or a purge is
\* dropped and the error shown; an adoption takes back what it made; a creation
\* stays journalled; a failed download gives the adopted id back.
RefuseFiles ==
  /\ step # Idle /\ step.stage \in {"files", "content"} /\ Fails("refused files")
  /\ IF step.stage = "content"
     THEN LET j == [kind |-> "release", nodes |-> step.journal.nodes] IN
          /\ journals' = journals \cup {j}
          /\ step' = [step EXCEPT !.journal = j, !.stage = "identity"]
          /\ UNCHANGED disk
     ELSE /\ step' = Idle
          /\ journals' = IF step.journal.kind \in {"relocate", "remove", "adopt"}
                         THEN journals \ {step.journal} ELSE journals
          /\ disk' = IF step.journal.kind = "adopt" /\ step.journal.nodes \cap
                          {n \in step.journal.nodes : n.path \in TrashPath} = {}
                     THEN Emptied(step.journal.nodes) ELSE disk
  /\ causes' = causes \cup Interrupted(TRUE)
       \cup (IF At({"adopt"}, "files")
                /\ \E n \in step.journal.nodes : n.path \in TrashPath
             THEN {"unnamed copy"} ELSE {})
  /\ UNCHANGED <<identity, issued, reserved, project>>

\* The store refuses the change: the file goes back, by the same transaction.
RollbackMove ==
  /\ step # Idle /\ step.stage = "record" /\ Fails("refused record")
  /\ LET now == (CHOOSE n \in step.journal.nodes : TRUE).path IN
     IF Movable(now, step.target) /\ CanRelocate(step.target)
        /\ Relocation(now, step.target).order <= MaxOrder
     THEN Begin("relocate", {Relocation(now, step.target)}, "files", now)
     ELSE step' = Idle /\ UNCHANGED <<journals, causes>>   \* FILESYSTEM_ROLLBACK_FAILED
  /\ UNCHANGED <<disk, identity, issued, reserved, project>>

\* The identity file cannot be replaced, or the nodes are not acceptable.
RefuseIdentity ==
  /\ step # Idle /\ step.stage = "identity"
  /\ IF Acceptable(step.journal) THEN Fails("refused identity") ELSE UNCHANGED faults
  /\ step' = Idle
  /\ IF step.journal.kind = "adopt"
     THEN /\ journals' = journals \ {step.journal}
          /\ LET made == {n \in step.journal.nodes : n.path \in LivePath} IN
             disk' = Emptied(made)
          /\ causes' = causes \cup
               (IF \E n \in step.journal.nodes : n.path \in TrashPath
                THEN {"unnamed copy"} ELSE {})
     ELSE UNCHANGED <<journals, disk, causes>>
  /\ UNCHANGED <<identity, issued, reserved, project>>

(***************************************************************************)
(* Opening: recover_project, then the audit.                               *)
(***************************************************************************)
CloseProject ==
  /\ CanStart /\ project' = "closed"
  /\ UNCHANGED <<disk, identity, issued, journals, step, reserved, faults, causes>>

OpenProject ==
  /\ project \in {"closed", "blocked"} /\ project' = "opening"
  /\ UNCHANGED <<disk, identity, issued, journals, step, reserved, faults, causes>>

\* _finish_relocate and _finish_remove ask the disk which nodes moved or went.
Landed(j) ==
  IF j.kind = "relocate" THEN {n \in j.nodes : OnDisk(n.path)}
  ELSE IF j.kind = "remove" THEN {n \in j.nodes : ~OnDisk(n.path)}
  ELSE IF j.kind = "release" THEN {}
  ELSE j.nodes

Remade(j) ==
  IF j.kind \in {"create", "adopt"}
  THEN Made(j.nodes)
  ELSE IF j.kind = "release" THEN Emptied({n \in j.nodes : n.uuid \notin DOMAIN identity})
  ELSE disk

RecoverJournal(j) ==
  /\ project = "opening" /\ j \in journals
  /\ LET landed == [j EXCEPT !.nodes = Landed(j)] IN
     /\ disk' = Remade(j)
     /\ IF landed.nodes # {} /\ ~Acceptable(landed)
        THEN project' = "blocked" /\ UNCHANGED <<identity, journals>>
        ELSE /\ identity' = IF landed.nodes = {} THEN identity ELSE NewIdentity(landed)
             /\ journals' = journals \ {j} /\ UNCHANGED project
  /\ UNCHANGED <<issued, step, reserved, faults, causes>>

AuditProject ==
  /\ project = "opening" /\ journals = {}
  /\ project' = IF Mismatch THEN "blocked" ELSE "open"
  /\ UNCHANGED <<disk, identity, issued, journals, step, reserved, faults, causes>>

TreeNext ==
  \/ \E parent \in {<<>>} \cup {<<f>> : f \in FolderName}, n \in Name : CreateItem(parent, n)
  \/ \E f \in FolderName, d \in DocName : CreateVolume(f, d)
  \/ \E old, new \in Path : RelocatePath(old, new)
  \/ \E p \in TrashEntries : PurgeItem(p)
  \/ EmptyTrash
  \/ \E p \in LivePath : AdoptRemote(p)
  \/ \E d \in DocName : CopyTombstone(d)
  \/ SettleCopy \/ Materialize \/ MoveFiles \/ DeleteFile \/ WriteIdentity
  \/ ReleaseFiles \/ Unlink \/ RecordMove \/ RecordTombstone \/ WriteContent
  \/ CrashProject \/ RefuseFiles \/ RollbackMove \/ RefuseIdentity
  \/ CloseProject \/ OpenProject
  \/ \E j \in journals : RecoverJournal(j)
  \/ AuditProject

TreeSpec == TreeInit /\ [][TreeNext]_treeVars

(***************************************************************************)
(* Properties.                                                             *)
(***************************************************************************)

\* Between commands every difference of the tree from identity has a journal
\* that explains it, unless one of the named causes has happened
\* (project_creation_v1.py: "A mismatch with no journal behind it is reported").
MismatchIsJournalled ==
  step = Idle /\ causes = {} /\ Mismatch => journals # {}

\* Opening refuses a project only after one of the named causes: a crash or a
\* refusal anywhere else is finished or undone by the journals.
RefusalHasACause == project = "blocked" => causes # {}

\* What explains an identity that does not fit the files, while the project is
\* open and when it is refused.
MismatchIsExplained == MismatchIsJournalled /\ RefusalHasACause

\* A uuid goes on naming the file it was issued for, below the folder that
\* holds it, and no two nodes name one path, through every command, fault and
\* recovery.
NodesNameTheirFiles ==
  project = "open" /\ step = Idle /\ journals = {} /\ causes = {} =>
    \A u \in DOMAIN identity :
      /\ disk[identity[u].path] = u
      /\ identity[u].parent = NodeForPath(Front(identity[u].path))
      /\ NodesAt(identity[u].path) = {u}

\* Both: the uuids name the files, or a journal or a named cause says why not.
IdentityNamesFiles == MismatchIsExplained /\ NodesNameTheirFiles

\* What journalled_remove's comment promises ("Delete files and their identity
\* entries as one recoverable transaction ... gone means finish the identity
\* removal, present means the delete never happened"): an interrupted permanent
\* deletion is never what a project is refused for.
PurgesRecover == project = "blocked" => "purge cut short" \notin causes
=============================================================================
