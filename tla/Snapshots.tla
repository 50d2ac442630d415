------------------------------- MODULE Snapshots ------------------------------
(***************************************************************************)
(* SnapshotManager of src/src/undo.rs over the manifests of one session    *)
(* directory: baseline, incremental, restore, resume.  The walk over the   *)
(* file system, the object store and the writing of a manifest are those   *)
(* of the nono crate, taken as the bindings use them: a baseline is number *)
(* 0, an incremental snapshot is one more than the manifest it is given,   *)
(* the crate's own count is the number of the last snapshot it took plus   *)
(* one, and a manifest is on disk whole or not at all.                     *)
(***************************************************************************)
EXTENDS Naturals, Sequences, FiniteSetsExt

CONSTANTS
  Roots,        \* tracked paths
  Names,        \* file names below each of them
  FileStates,   \* hash and permissions of a file
  Absent,       \* no such file
  NoManifest,   \* None
  Exclusion,    \* the ExclusionConfig
  Gitignore,    \* Gitignore[r]: the names the .gitignore of root r excludes
  MaxNumber,    \* bound on snapshot numbers
  MaxTaken      \* bound on the snapshots ever taken

ASSUME SnapshotsAssumption ==
  /\ Absent \notin FileStates
  /\ Gitignore \in [Roots -> SUBSET Names]
  /\ Exclusion \in [use_gitignore : BOOLEAN, patterns : SUBSET Names, force_include : SUBSET Names]
  /\ MaxNumber \in Nat /\ MaxTaken \in Nat

VARIABLES
  files,      \* files[r, n]: the state of that file
  manifests,  \* manifests[n]: the manifest number n on disk
  manager,    \* the SnapshotManager of the process, if it is open
  answer,     \* what its last call returned: an outcome and a set of changes
  taken,      \* history: the manifests in the order they were taken
  rebased     \* history: a baseline was taken over manifests of an earlier one

snapshotVars == <<files, manifests, manager, answer, taken, rebased>>

-----------------------------------------------------------------------------
Paths == Roots \X Names
Numbers == 0..MaxNumber

(* build_per_root_filters: the .gitignore of a root speaks of that root. *)
Kept(root) ==
  {n \in Names : \/ n \in Exclusion.force_include
                 \/ /\ n \notin Exclusion.patterns
                    /\ ~(Exclusion.use_gitignore /\ n \in Gitignore[root])}
Tracked == {p \in Paths : p[2] \in Kept(p[1])}

(* A manifest: what it holds of the tracked files. *)
Manifest(number, parent) ==
  [number |-> number, parent |-> parent, files |-> [p \in Tracked |-> files[p]]]

(* What a manifest on disk may be, and that it is not mistaken for none. *)
Manifests ==
  [number : Numbers, parent : Numbers \cup {NoManifest},
   files : [Tracked -> FileStates \cup {Absent}]]
ASSUME ManifestAssumption == NoManifest \notin Manifests

ChangeType(old, new) ==
  IF old = Absent THEN "created"
  ELSE IF new = Absent THEN "deleted"
  ELSE IF old.hash # new.hash THEN "modified"
  ELSE "permissions_changed"

Changes(old, new) ==
  {[path |-> p, change_type |-> ChangeType(old[p], new[p])]
     : p \in {q \in Tracked : old[q] # new[q]}}

(* find_latest_manifest_on_disk: the highest number there is. *)
OnDisk == {n \in Numbers : manifests[n] # NoManifest}

(* A plausible bug: the first entry of the directory instead of the highest. *)
FindLatest_First == IF OnDisk = {} THEN NoManifest ELSE manifests[Min(OnDisk)]

FindLatest == IF OnDisk = {} THEN NoManifest ELSE manifests[Max(OnDisk)]

NoAnswer == [outcome |-> "none", changes |-> {}]
Answer(changes) == [outcome |-> "ok", changes |-> changes]

Closed == [open |-> FALSE, latest |-> NoManifest, inner_count |-> 0, resumed_count |-> 0]

SnapshotCount == Max({manager.inner_count, manager.resumed_count})

-----------------------------------------------------------------------------
SnapshotsInit ==
  /\ files \in [Paths -> FileStates \cup {Absent}]
  /\ manifests = [n \in Numbers |-> NoManifest]
  /\ manager = Closed
  /\ answer = NoAnswer
  /\ taken = <<>>
  /\ rebased = FALSE

(* SnapshotManager::new, in a fresh directory or over an earlier session. *)
NewManager ==
  /\ ~manager.open
  /\ manager' = [open |-> TRUE, latest |-> FindLatest, inner_count |-> 0,
                 resumed_count |-> IF FindLatest = NoManifest THEN 0
                                   ELSE FindLatest.number + 1]
  /\ UNCHANGED <<files, manifests, answer, taken, rebased>>

(* A plausible bug: the new snapshot is added to the ones found at resume. *)
Record_AddsToResumed(m, changes) ==
  /\ Len(taken) < MaxTaken
  /\ manifests' = [manifests EXCEPT ![m.number] = m]
  /\ manager' = [manager EXCEPT !.latest = m,
                                !.inner_count = manager.resumed_count + m.number + 1]
  /\ taken' = Append(taken, m)
  /\ answer' = Answer(changes)
  /\ UNCHANGED files

(* What both kinds of snapshot end with: on disk, and the latest from here. *)
Record(m, changes) ==
  /\ Len(taken) < MaxTaken
  /\ manifests' = [manifests EXCEPT ![m.number] = m]
  /\ manager' = [manager EXCEPT !.latest = m, !.inner_count = m.number + 1]
  /\ taken' = Append(taken, m)
  /\ answer' = Answer(changes)
  /\ UNCHANGED files

CreateBaseline ==
  /\ manager.open
  /\ Record(Manifest(0, NoManifest), {})
  /\ rebased' = (rebased \/ OnDisk # {})

CreateIncremental ==
  /\ manager.open /\ manager.latest # NoManifest /\ manager.latest.number < MaxNumber
  /\ LET m == Manifest(manager.latest.number + 1, manager.latest.number)
     IN  Record(m, Changes(manager.latest.files, m.files))
  /\ UNCHANGED rebased

(* Without a snapshot to compare with it refuses. *)
CreateIncrementalRefused ==
  /\ manager.open /\ manager.latest = NoManifest
  /\ answer' = [NoAnswer EXCEPT !.outcome = "RuntimeError"]
  /\ UNCHANGED <<files, manifests, manager, taken, rebased>>

RestoreDiff(n) == Changes(files, manifests[n].files)

ComputeRestoreDiff(n) ==
  /\ manager.open /\ n \in OnDisk
  /\ answer' = Answer(RestoreDiff(n))
  /\ UNCHANGED <<files, manifests, manager, taken, rebased>>

(* restore_to leaves the latest manifest what it was. *)
RestoreTo(n) ==
  /\ manager.open /\ n \in OnDisk
  /\ answer' = Answer(RestoreDiff(n))
  /\ files' = [p \in Paths |-> IF p \in Tracked THEN manifests[n].files[p] ELSE files[p]]
  /\ UNCHANGED <<manifests, manager, taken, rebased>>

(* The wrapper goes away, by the application or with its process. *)
DropManager ==
  /\ manager.open
  /\ manager' = Closed
  /\ answer' = NoAnswer
  /\ UNCHANGED <<files, manifests, taken, rebased>>

(* The command of the session at work. *)
CommandWrites ==
  /\ \E p \in Paths, s \in FileStates \cup {Absent} :
       files[p] # s /\ files' = [files EXCEPT ![p] = s]
  /\ UNCHANGED <<manifests, manager, answer, taken, rebased>>

SnapshotStep ==
  \/ NewManager \/ CreateBaseline \/ CreateIncremental \/ CreateIncrementalRefused
  \/ \E n \in Numbers : ComputeRestoreDiff(n) \/ RestoreTo(n)

-----------------------------------------------------------------------------
SnapshotsTypeOK ==
  /\ files \in [Paths -> FileStates \cup {Absent}]
  /\ manifests \in [Numbers -> Manifests \cup {NoManifest}]
  /\ \A n \in OnDisk : manifests[n].number = n
  /\ manager \in [open : BOOLEAN, latest : Manifests \cup {NoManifest},
                 inner_count : 0..(MaxNumber + 1), resumed_count : 0..(MaxNumber + 1)]
  /\ taken \in Seq(Manifests)
  /\ rebased \in BOOLEAN

Newest == taken[Len(taken)]

(* "Create an incremental snapshot capturing changes since the last         *)
(* snapshot": the manifest an open manager compares with is the one taken   *)
(* last, by it or by any manager before it, and so is the one a resumed     *)
(* session would find; its count is the number of snapshots on disk, which  *)
(* are numbered without gaps and each the child of the one before.  Not     *)
(* once a baseline was taken over the manifests of an earlier one: those of *)
(* higher numbers stay behind and win.                                      *)
ResumeIsWhole ==
  taken # <<>> /\ ~rebased =>
    /\ FindLatest = Newest
    /\ OnDisk = 0..Newest.number
    /\ \A n \in OnDisk \ {0} : manifests[n].parent = n - 1
    /\ manager.open => /\ manager.latest = Newest
                       /\ SnapshotCount = Cardinality(OnDisk)
=============================================================================
