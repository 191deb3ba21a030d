------------------------------ MODULE ProjectArchive ------------------------------
(* Backups of one work and their restoration: project_archive.create_archive,    *)
(* verify_archive and restore_archive around the portable package of             *)
(* project_backup_v1, and IndependentProjectBackupStore. The work is read file   *)
(* by file while the writer goes on; everything is built beside the destination  *)
(* and renamed at the end; the process may be killed at any step; and a file of  *)
(* a published package may be damaged at any time.                               *)
EXTENDS Naturals

CONSTANTS
  Document,        \* files of the work
  Identity,        \* the file that lists them
  Damaged,         \* the content of a damaged file
  Nothing,
  MaxSaves,        \* bound: changes of the work
  MaxTries,        \* bound: captures and restorations
  MaxDamages       \* bound: damaged files

VARIABLES
  work,            \* names on disk and their contents
  capture,         \* the backup being made, or Nothing
  package,         \* the backup at the destination, or Nothing
  restore,         \* the restoration under way, or Nothing
  restored,        \* the restored files, or Nothing
  past             \* counters and every state the work has been in

archiveVars == <<work, capture, package, restore, restored, past>>

Kinds == {"archive", "preservation", "independent"}

\* The work as one function from the names on disk to their contents.
Now == [name \in work.disk \cup {Identity} |->
          IF name = Identity THEN work.listed ELSE work.text[name]]

\* One more file beside the others.
With(files, added, text) ==
  [name \in DOMAIN files \cup {added} |-> IF name \in DOMAIN files THEN files[name] ELSE text]

\* audit: the files are those of the identity, and no command is half done.
Sound(files) == DOMAIN files \ {Identity} = files[Identity]

ArchiveInit ==
  /\ \E first \in Document :
       work = [disk |-> {first}, listed |-> {first}, text |-> [d \in Document |-> 0]]
  /\ capture = Nothing /\ package = Nothing /\ restore = Nothing /\ restored = Nothing
  /\ past = [saves |-> 0, tries |-> 0, damages |-> 0, states |-> {Now}]

-----------------------------------------------------------------------------
(* The writer *)

Changes ==
  /\ past.saves < MaxSaves
  /\ past' = [past EXCEPT !.saves = @ + 1, !.states = @ \cup {Now'}]
  /\ UNCHANGED <<capture, package, restore, restored>>

Save ==
  /\ \E d \in work.disk : work' = [work EXCEPT !.text[d] = @ + 1]
  /\ Changes

\* A new document: its file, then the identity that names it.
CreateFile ==
  /\ Sound(Now)
  /\ \E d \in Document \ work.disk : work' = [work EXCEPT !.disk = @ \cup {d}]
  /\ Changes

CommitIdentity ==
  /\ ~ Sound(Now)
  /\ work' = [work EXCEPT !.listed = work.disk]
  /\ Changes

-----------------------------------------------------------------------------
(* Making a backup *)

AtStep(step) == capture # Nothing /\ capture.step = step

Idle == capture = Nothing /\ restore = Nothing

GiveUp == capture' = Nothing

\* One worker at a time, and a destination that is not there.
CaptureStarts ==
  /\ Idle /\ package = Nothing /\ past.tries < MaxTries
  /\ \E kind \in Kinds :
       capture' = [kind |-> kind, step |-> IF kind = "independent" THEN "copy" ELSE "look",
                   left |-> IF kind = "independent" THEN work.listed ELSE DOMAIN Now,
                   seen |-> <<>>, copied |-> <<>>]
  /\ past' = [past EXCEPT !.tries = @ + 1]
  /\ UNCHANGED <<work, package, restore, restored>>

\* _inventory lists the names, then digests one file after another.
LookAt ==
  /\ AtStep("look")
  /\ \E name \in capture.left :
       capture' = [capture EXCEPT !.left = @ \ {name},
                     !.seen = With(@, name, Now[name]),
                     !.step = IF capture.left = {name} THEN "audit" ELSE @]
  /\ UNCHANGED <<work, package, restore, restored, past>>

\* Only a sound work is archived; any other is preserved as it is.
Audit ==
  /\ AtStep("audit")
  /\ IF capture.kind = "archive" /\ ~ Sound(Now) THEN GiveUp
     ELSE capture' = [capture EXCEPT !.step = "copy", !.left = DOMAIN capture.seen]
  /\ UNCHANGED <<work, package, restore, restored, past>>

\* _copy_inventory: the copy must be what was seen. The independent store
\* records what it copies.
Copy ==
  /\ AtStep("copy") /\ capture.left # {}
  /\ \E name \in capture.left :
       IF capture.kind # "independent" /\ Now[name] # capture.seen[name] THEN GiveUp
       ELSE capture' = [capture EXCEPT !.left = @ \ {name},
                          !.copied = With(@, name, Now[name])]
  /\ UNCHANGED <<work, package, restore, restored, past>>

\* backup_project writes the portable package from the copy, never from the work.
MakePortable ==
  /\ AtStep("copy") /\ capture.left = {} /\ capture.kind # "independent"
  /\ IF capture.kind = "archive" /\ ~ (capture.copied[Identity] \subseteq DOMAIN capture.copied)
     THEN GiveUp
     ELSE capture' = [capture EXCEPT !.step = "again", !.left = DOMAIN Now]
  /\ UNCHANGED <<work, package, restore, restored, past>>

\* Mutant: what was copied is not compared with the work any more.
LookedOnce ==
  /\ AtStep("again")
  /\ capture' = [capture EXCEPT !.step = "index"]
  /\ UNCHANGED <<work, package, restore, restored, past>>

\* The second inventory: same names, same signatures.
LookAgain ==
  /\ AtStep("again")
  /\ IF capture.left = {}
     THEN capture' = [capture EXCEPT !.step = "index"]
     ELSE \E name \in capture.left :
            IF name \in DOMAIN capture.seen /\ Now[name] = capture.seen[name]
            THEN capture' = [capture EXCEPT !.left = @ \ {name}]
            ELSE GiveUp
  /\ UNCHANGED <<work, package, restore, restored, past>>

Files == capture.copied

\* verify_archive of the built tree, which nobody else can reach, and its rename.
Publish ==
  /\ \/ AtStep("index")
     \/ AtStep("copy") /\ capture.left = {} /\ capture.kind = "independent"
  /\ package' = IF package # Nothing \/ (capture.kind = "archive" /\ ~ Sound(Files)) THEN package
                ELSE [kind |-> capture.kind, manifest |-> Files, data |-> Files,
                      portable |-> IF capture.kind = "archive"
                                   THEN [d \in Files[Identity] |-> Files[d]] ELSE <<>>]
  /\ GiveUp
  /\ UNCHANGED <<work, restore, restored, past>>

-----------------------------------------------------------------------------
(* Restoring it *)

\* verify_archive and verify_backup: exactly the files of the manifest, and in
\* the portable package the texts of the same work.
Verifies ==
  /\ package.data = package.manifest
  /\ \A d \in DOMAIN package.portable : package.portable[d] = package.manifest[d]

Restoring(step) == restore # Nothing /\ restore.step = step

Stop == restore' = Nothing

RestoreStarts ==
  /\ Idle /\ package # Nothing /\ restored = Nothing /\ past.tries < MaxTries
  /\ restore' = IF ~ Verifies THEN Nothing
                ELSE [step |-> IF package.kind = "independent" THEN "copy" ELSE "portable",
                      left |-> IF package.kind = "independent" THEN DOMAIN package.manifest
                               ELSE DOMAIN package.portable,
                      listing |-> package.manifest, built |-> <<>>]
  /\ past' = [past EXCEPT !.tries = @ + 1]
  /\ UNCHANGED <<work, capture, package, restored>>

\* restore_project: the documents of the portable package, each with its digest;
\* the identity is written from the manifest.
Materialize ==
  /\ Restoring("portable")
  /\ IF restore.left = {}
     THEN restore' = [restore EXCEPT !.step = "list",
            !.built = IF package.kind = "archive"
                      THEN With(@, Identity, package.manifest[Identity]) ELSE @]
     ELSE \E d \in restore.left :
            IF package.portable[d] # package.manifest[d] THEN Stop
            ELSE restore' = [restore EXCEPT !.left = @ \ {d},
                               !.built = With(@, d, package.portable[d])]
  /\ UNCHANGED <<work, capture, package, restored, past>>

\* The files to add are listed anew from the package.
ListData ==
  /\ Restoring("list")
  /\ restore' = [restore EXCEPT !.step = "copy", !.listing = package.data,
                   !.left = DOMAIN package.data \ {n \in {Identity} : package.kind = "archive"}]
  /\ UNCHANGED <<work, capture, package, restored, past>>

\* A file that is there already is compared, any other is copied and compared;
\* the independent store compares once everything is copied.
CopyBack ==
  /\ Restoring("copy")
  /\ IF restore.left = {} THEN restore' = [restore EXCEPT !.step = "verify"]
     ELSE \E name \in restore.left :
            LET there == name \in DOMAIN restore.built
                text  == IF there THEN restore.built[name] ELSE package.data[name]
            IN IF package.kind # "independent" /\ text # restore.listing[name] THEN Stop
               ELSE restore' = [restore EXCEPT !.left = @ \ {name},
                                  !.built = IF there THEN @ ELSE With(@, name, text)]
  /\ UNCHANGED <<work, capture, package, restored, past>>

\* Mutant: the package is verified before the copy only.
VerifiedBefore == package.kind # "independent" \/ restore.built = package.manifest

\* The archive is verified once more; the other store verifies what it has built.
VerifiedAgain ==
  IF package.kind = "independent" THEN restore.built = package.manifest ELSE Verifies

FinishRestore ==
  /\ Restoring("verify")
  /\ restored' = IF VerifiedAgain THEN restore.built ELSE Nothing
  /\ Stop
  /\ UNCHANGED <<work, capture, package, past>>

-----------------------------------------------------------------------------

\* The process is killed: what it has built stays beside the destination, under
\* a name nobody reads.
Kill ==
  /\ ~ Idle
  /\ capture' = Nothing /\ restore' = Nothing
  /\ UNCHANGED <<work, package, restored, past>>

Damage ==
  /\ package # Nothing /\ past.damages < MaxDamages
  /\ \/ \E name \in DOMAIN package.data : package' = [package EXCEPT !.data[name] = Damaged]
     \/ \E d \in DOMAIN package.portable : package' = [package EXCEPT !.portable[d] = Damaged]
  /\ past' = [past EXCEPT !.damages = @ + 1]
  /\ UNCHANGED <<work, capture, restore, restored>>

ArchiveNext ==
  \/ Save \/ CreateFile \/ CommitIdentity
  \/ CaptureStarts \/ LookAt \/ Audit \/ Copy \/ MakePortable \/ LookAgain \/ Publish
  \/ RestoreStarts \/ Materialize \/ ListData \/ CopyBack \/ FinishRestore
  \/ Kill \/ Damage

ArchiveSpec == ArchiveInit /\ [][ArchiveNext]_archiveVars

-----------------------------------------------------------------------------

\* An archive is the work as it was at one moment, though it was read file by
\* file while the writer went on, and one that can be opened names all its files;
\* of the independent store only this is true: no file is one the work never had.
BackupsAreMoments ==
  package # Nothing =>
    IF package.kind = "independent"
    THEN \A d \in DOMAIN package.manifest :
           \E state \in past.states : d \in DOMAIN state /\ state[d] = package.manifest[d]
    ELSE /\ package.manifest \in past.states
         /\ package.kind = "archive" => Sound(package.manifest)

\* What is restored is what was backed up, whatever has happened to the package
\* since.
RestoredIsTheBackup == restored # Nothing => restored = package.manifest
=============================================================================
