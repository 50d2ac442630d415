----------------------------- MODULE SessionProofs -----------------------------
(***************************************************************************)
(* Theorems about a session, for all roots, names, events and bounds: its  *)
(* snapshots are whole and its events in order, whatever mix of calls,     *)
(* crashes and restarts it went through.                                   *)
(***************************************************************************)
EXTENDS Session, SequenceTheorems, FiniteSetTheorems, InductionLemmas

-----------------------------------------------------------------------------
(* The inductive invariant.  On the side of the snapshots: what an open     *)
(* manager holds agrees with the manifests on disk.                         *)

\* A manager without a manifest has counted nothing.
CountInv ==
  /\ ~manager.open => manager = Closed
  /\ manager.latest = NoManifest => manager.inner_count = 0 /\ manager.resumed_count = 0

\* Before the first snapshot there is nothing.
FreshInv == taken = <<>> => OnDisk = {} /\ manager.latest = NoManifest

\* The manifest taken last is the highest on disk and the one compared with.
DiskInv ==
  taken # <<>> /\ ~rebased =>
    /\ OnDisk = 0..Newest.number
    /\ manifests[Newest.number] = Newest
    /\ \A n \in OnDisk \ {0} : manifests[n].parent = n - 1
    /\ manager.open =>
         /\ manager.latest = Newest
         /\ \/ manager.inner_count = 0 /\ manager.resumed_count = Newest.number + 1
            \/ /\ manager.inner_count = Newest.number + 1
               /\ manager.resumed_count <= Newest.number + 1

SnapshotsInv == SnapshotsTypeOK /\ CountInv /\ FreshInv /\ DiskInv

(* On the side of the events: what was drained is older than what is still  *)
(* in the buffer.                                                           *)
Settled(events) ==
  /\ InOrderOnce(events)
  /\ \A i \in DOMAIN events : /\ events[i].id < observed
                              /\ \A j \in DOMAIN buffer : events[i].id < buffer[j].id

BufferInv == InOrderOnce(buffer) /\ \A i \in DOMAIN buffer : buffer[i].id < observed

HandInv == Settled(hand)

\* A stored event has its fields, whatever the dictionary had: it survives being
\* read and set again, and being saved and loaded.
Whole(events) == \A i \in DOMAIN events : GivesBack(ToDict(events[i]), ToDict(events[i]))

MetadataInv ==
  \A m \in {meta, saved} \ {NoMetadata} : Settled(m.network_events) /\ Whole(m.network_events)

AcceptedInv == StoredIsTheAcceptedList

EventsInv == EventsTypeOK /\ BufferInv /\ HandInv /\ MetadataInv /\ AcceptedInv

IInv == SnapshotsInv /\ EventsInv

-----------------------------------------------------------------------------
(* Lemmas about the operators of the model.                                 *)

LEMMA MaxOfInterval ==
  ASSUME NEW n \in Nat
  PROVE  Max(0..n) = n
<1>1. n \in 0..n /\ \A y \in 0..n : n >= y
  OBVIOUS
<1>2. \A x \in 0..n : (\A y \in 0..n : x >= y) => x = n
  OBVIOUS
<1> QED
  BY <1>1, <1>2 DEF Max

\* A set of numbers up to n has a greatest one.
LEMMA MaxIsThere ==
  ASSUME NEW n \in Nat, NEW S \in SUBSET (0..n), S # {}
  PROVE  Max(S) \in S
<1> DEFINE gaps == {k \in Nat : n - k \in S}
<1>1. gaps # {}
  <2>1. PICK x \in S : TRUE
    OBVIOUS
  <2>2. n - x \in Nat /\ n - (n - x) \in S
    BY <2>1
  <2> QED
    BY <2>2
<1>2. PICK m \in gaps : \A k \in gaps : <<k, m>> \notin OpToRel(<, Nat)
  BY <1>1, WFMin, NatLessThanWellFounded, Zenon
<1>3. \A k \in gaps : ~(k < m)
  BY <1>2, Zenon DEF OpToRel
<1>4. \A y \in S : n - m >= y
  <2> SUFFICES ASSUME NEW y \in S
               PROVE  n - m >= y
    OBVIOUS
  <2>1. n - y \in gaps
    <3>1. n - y \in Nat /\ n - (n - y) = y
      OBVIOUS
    <3> QED
      BY <3>1
  <2>2. m \in Nat /\ y \in Nat /\ ~(n - y < m)
    BY <1>3, <2>1
  <2> HIDE DEF gaps
  <2> QED
    BY <2>2
<1>5. n - m \in S
  OBVIOUS
<1> QED
  BY <1>4, <1>5 DEF Max

LEMMA MaxOfPair ==
  ASSUME NEW a \in Nat, NEW b \in Nat
  PROVE  Max({a, b}) = IF a >= b THEN a ELSE b
<1>1. \A x \in {a, b} : (\A y \in {a, b} : x >= y) => x = IF a >= b THEN a ELSE b
  OBVIOUS
<1>2. \E x \in {a, b} : \A y \in {a, b} : x >= y
  OBVIOUS
<1> QED
  BY <1>1, <1>2 DEF Max

\* An event keeps its id through the dictionary; what the metadata stores of a
\* readable dictionary gives it back, as often as it is read and set again.
LEMMA EventShapes ==
  /\ \A e \in Observable : ToDict(e) \in Dictionaries /\ ToDict(e).id = e.id
  /\ \A d \in Dictionaries : /\ FromDict(d) \in Stored
                             /\ FromDict(d).id = d.id
                             /\ Readable(d) => /\ GivesBack(ToDict(FromDict(d)), d)
                                               /\ GivesBack(ToDict(FromDict(d)), ToDict(FromDict(d)))
  /\ \A e \in Stored : ToDict(e) \in Dictionaries /\ ToDict(e).id = e.id
  /\ \A e \in Observable \cup Dictionaries \cup Stored : e.id \in Nat
<1>1. \A e \in Observable : ToDict(e) \in Dictionaries /\ ToDict(e).id = e.id
  BY EventsAssumption DEF Observable, Stamp, Dictionaries, ToDict, EventsAssumption
<1>2. ASSUME NEW d \in Dictionaries
      PROVE  /\ FromDict(d) \in Stored
             /\ FromDict(d).id = d.id
             /\ Readable(d) => /\ GivesBack(ToDict(FromDict(d)), d)
                               /\ GivesBack(ToDict(FromDict(d)), ToDict(FromDict(d)))
  <2>1. /\ d.id \in Ids /\ d.fields \in [Fields -> Texts]
        /\ None \in Texts
    <3>1. None \in Texts
      BY DEF Texts
    <3> QED
      BY <3>1 DEF Dictionaries
  <2>2. \A f \in Fields : Given(d, f) \in Texts
    BY <2>1 DEF Given
  <2>3. FromDict(d) \in Stored /\ FromDict(d).id = d.id
    BY <2>1, <2>2 DEF FromDict, Stored
  <2>4. ASSUME Readable(d)
        PROVE  /\ GivesBack(ToDict(FromDict(d)), d)
               /\ GivesBack(ToDict(FromDict(d)), ToDict(FromDict(d)))
    <3> DEFINE back == ToDict(FromDict(d))
    <3>1. back.id = d.id /\ \A f \in Fields : back.fields[f] = Given(d, f)
      BY DEF ToDict, FromDict
    <3>2. {"mode", "decision"} \subseteq Fields
      BY DEF Fields
    <3>3. back.fields["mode"] \in ReadModes /\ back.fields["decision"] \in ReadDecisions
      BY <2>4, <3>1, <3>2 DEF Readable
    <3>4. None \notin {back.fields["mode"], back.fields["decision"]}
      BY <3>3, EventsAssumption DEF EventsAssumption
    <3>5. \A f \in Fields : back.fields[f] \notin {Missing, Untyped}
      BY <3>1, EventsAssumption DEF Given, EventsAssumption
    <3> HIDE DEF back
    <3>6. GivesBack(back, d) /\ GivesBack(back, back)
      BY <3>1, <3>4, <3>5 DEF GivesBack, Given
    <3> QED
      BY <3>6 DEF back
  <2> QED
    BY <2>3, <2>4
<1>3. \A e \in Stored : ToDict(e) \in Dictionaries /\ ToDict(e).id = e.id
  BY DEF Stored, ToDict, Dictionaries
<1>4. \A e \in Observable \cup Dictionaries \cup Stored : e.id \in Nat
  BY EventsAssumption DEF Observable, Stamp, Dictionaries, Stored, Ids, EventsAssumption
<1> QED
  BY <1>1, <1>2, <1>3, <1>4

-----------------------------------------------------------------------------
(* The snapshots.                                                           *)

LEMMA NumbersProperties ==
  /\ MaxNumber \in Nat
  /\ 0 \in Numbers
  /\ \A n \in Numbers : n \in Nat /\ 0..n \subseteq Numbers
BY SnapshotsAssumption DEF SnapshotsAssumption, Numbers

LEMMA ManifestIsOne ==
  ASSUME SnapshotsTypeOK, NEW n \in Numbers, NEW p \in Numbers \cup {NoManifest}
  PROVE  /\ Manifest(n, p) \in Manifests
         /\ Manifest(n, p).number = n
         /\ Manifest(n, p).parent = p
         /\ Manifest(n, p) # NoManifest
<1>1. \A q \in Tracked : files[q] \in FileStates \cup {Absent}
  BY DEF SnapshotsTypeOK, Tracked
<1>2. Manifest(n, p) \in Manifests
  BY <1>1 DEF Manifest, Manifests
<1> QED
  BY <1>2, ManifestAssumption DEF Manifest, ManifestAssumption

\* What recording a manifest does to the manifests, the manager and the history.
LEMMA RecordEffect ==
  ASSUME SnapshotsInv, NEW m \in Manifests, NEW changes, Record(m, changes),
         rebased' \in BOOLEAN, manager.open
  PROVE  /\ SnapshotsTypeOK'
         /\ CountInv'
         /\ FreshInv'
         /\ taken' # <<>>
         /\ Newest' = m
         /\ OnDisk' = OnDisk \cup {m.number}
         /\ manifests'[m.number] = m
         /\ \A n \in Numbers \ {m.number} : manifests'[n] = manifests[n]
         /\ manager'.open /\ manager'.latest = m
         /\ manager'.inner_count = m.number + 1
         /\ manager'.resumed_count = manager.resumed_count
<1> USE NumbersProperties
<1>1. m.number \in Numbers /\ m # NoManifest
  BY ManifestAssumption DEF Manifests, ManifestAssumption
<1>2. /\ manifests' \in [Numbers -> Manifests \cup {NoManifest}]
      /\ manifests'[m.number] = m
      /\ \A n \in Numbers \ {m.number} : manifests'[n] = manifests[n]
  BY <1>1 DEF Record, SnapshotsInv, SnapshotsTypeOK
<1>3. OnDisk' = OnDisk \cup {m.number}
  BY <1>1, <1>2 DEF OnDisk
<1>4. taken' \in Seq(Manifests) /\ taken' # <<>> /\ Newest' = m
  BY AppendProperties DEF Record, SnapshotsInv, SnapshotsTypeOK, Newest
<1>5. m.number + 1 \in 0..(MaxNumber + 1)
  BY <1>1 DEF Numbers
<1>6. /\ manager' \in [open : BOOLEAN, latest : Manifests \cup {NoManifest},
                       inner_count : 0..(MaxNumber + 1), resumed_count : 0..(MaxNumber + 1)]
      /\ manager'.open /\ manager'.latest = m
      /\ manager'.inner_count = m.number + 1
      /\ manager'.resumed_count = manager.resumed_count
  BY <1>5 DEF Record, SnapshotsInv, SnapshotsTypeOK
<1>7. SnapshotsTypeOK'
  BY <1>2, <1>3, <1>4, <1>6 DEF SnapshotsInv, SnapshotsTypeOK, OnDisk, Record
<1> QED
  BY <1>1, <1>2, <1>3, <1>4, <1>6, <1>7 DEF CountInv, FreshInv

LEMMA CreateBaselineKeeps ==
  ASSUME SnapshotsInv, CreateBaseline
  PROVE  SnapshotsInv'
<1> USE NumbersProperties
<1> DEFINE m == Manifest(0, NoManifest)
<1>1. m \in Manifests /\ m.number = 0
  BY ManifestIsOne DEF SnapshotsInv
<1>2. manager.open /\ Record(m, {}) /\ rebased' = (rebased \/ OnDisk # {})
  BY DEF CreateBaseline
<1>3. rebased' \in BOOLEAN
  BY <1>2 DEF SnapshotsInv, SnapshotsTypeOK
<1> HIDE DEF m
<1>4. /\ SnapshotsTypeOK' /\ CountInv' /\ FreshInv'
      /\ Newest' = m /\ OnDisk' = OnDisk \cup {0} /\ manifests'[0] = m
      /\ manager'.latest = m /\ manager'.inner_count = 1
      /\ manager'.resumed_count = manager.resumed_count
  BY <1>1, <1>2, <1>3, RecordEffect
<1>5. CASE rebased'
  BY <1>4, <1>5 DEF DiskInv, SnapshotsInv
<1>6. CASE ~rebased'
  <2>1. OnDisk = {} /\ ~rebased
    BY <1>2, <1>6
  <2>2. taken = <<>>
    <3>1. taken # <<>> => Newest \in Manifests
      BY EmptySeq, ElementOfSeq, LenProperties DEF SnapshotsInv, SnapshotsTypeOK, Newest
    <3>2. taken # <<>> => 0 \in OnDisk
      BY <2>1, <3>1 DEF SnapshotsInv, DiskInv, Manifests
    <3> QED
      BY <2>1, <3>2
  <2>3. manager.resumed_count = 0
    BY <2>2 DEF SnapshotsInv, FreshInv, CountInv
  <2>4. OnDisk' = 0..0 /\ OnDisk' \ {0} = {}
    BY <1>4, <2>1
  <2> QED
    BY <1>1, <1>4, <2>3, <2>4 DEF DiskInv, SnapshotsInv
<1> QED
  BY <1>5, <1>6, <1>3

LEMMA CreateIncrementalKeeps ==
  ASSUME SnapshotsInv, CreateIncremental
  PROVE  SnapshotsInv'
<1> USE NumbersProperties
<1> DEFINE k == manager.latest.number
           m == Manifest(k + 1, k)
<1>1. manager.open /\ manager.latest # NoManifest /\ k < MaxNumber
      /\ rebased' = rebased
      /\ Record(m, Changes(manager.latest.files, m.files))
  BY DEF CreateIncremental
<1>2. manager.latest \in Manifests /\ k \in Numbers /\ k + 1 \in Numbers
  BY <1>1 DEF SnapshotsInv, SnapshotsTypeOK, Manifests, Numbers
<1>3. m \in Manifests /\ m.number = k + 1 /\ m.parent = k
  BY <1>2, ManifestIsOne DEF SnapshotsInv
<1> HIDE DEF k, m
<1>4. /\ SnapshotsTypeOK' /\ CountInv' /\ FreshInv'
      /\ Newest' = m /\ OnDisk' = OnDisk \cup {k + 1} /\ manifests'[k + 1] = m
      /\ \A n \in Numbers \ {k + 1} : manifests'[n] = manifests[n]
      /\ manager'.latest = m /\ manager'.inner_count = k + 2
      /\ manager'.resumed_count = manager.resumed_count
  <2>1. rebased' \in BOOLEAN
    BY <1>1 DEF SnapshotsInv, SnapshotsTypeOK
  <2> QED
    BY <1>1, <1>2, <1>3, <2>1, RecordEffect
<1>5. ASSUME ~rebased
      PROVE  DiskInv'
  <2>1. taken # <<>>
    BY <1>1 DEF SnapshotsInv, FreshInv
  <2>2. manager.latest = Newest /\ Newest.number = k /\ OnDisk = 0..k
    BY <1>1, <1>5, <2>1 DEF SnapshotsInv, DiskInv, k
  <2>3. OnDisk' = 0..(k + 1)
    BY <1>2, <1>4, <2>2
  <2>4. \A n \in OnDisk' \ {0} : manifests'[n].parent = n - 1
    <3>1. \A n \in OnDisk \ {0} : manifests[n].parent = n - 1
      BY <1>5, <2>1 DEF SnapshotsInv, DiskInv
    <3>2. \A n \in OnDisk : manifests'[n] = manifests[n]
      BY <1>2, <1>4, <2>2
    <3> QED
      BY <1>2, <1>3, <1>4, <3>1, <3>2
  <2>5. manager.resumed_count <= k + 2 /\ manager.resumed_count \in Nat
    <3>1. \/ manager.resumed_count = k + 1
          \/ manager.resumed_count <= k + 1
      BY <1>1, <1>5, <2>1, <2>2 DEF SnapshotsInv, DiskInv
    <3>2. manager.resumed_count \in Nat
      BY DEF SnapshotsInv, SnapshotsTypeOK
    <3> QED
      BY <1>2, <3>1, <3>2
  <2> QED
    BY <1>2, <1>3, <1>4, <2>3, <2>4, <2>5 DEF DiskInv
<1>6. CASE rebased
  BY <1>1, <1>4, <1>6 DEF DiskInv, SnapshotsInv
<1> QED
  BY <1>4, <1>5, <1>6 DEF SnapshotsInv

\* What find_latest_manifest_on_disk finds.
LEMMA LatestIsNewest ==
  ASSUME SnapshotsInv
  PROVE  /\ FindLatest \in Manifests \cup {NoManifest}
         /\ FindLatest # NoManifest => FindLatest.number \in Numbers
         /\ taken = <<>> => FindLatest = NoManifest
         /\ taken # <<>> /\ ~rebased =>
              /\ Newest \in Manifests /\ Newest # NoManifest
              /\ FindLatest = Newest
<1> USE NumbersProperties
<1>1. taken # <<>> => Newest \in Manifests
  BY EmptySeq, ElementOfSeq, LenProperties DEF SnapshotsInv, SnapshotsTypeOK, Newest
<1>2. ASSUME OnDisk # {}
      PROVE  Max(OnDisk) \in OnDisk
  <2>1. OnDisk \subseteq 0..MaxNumber
    BY DEF OnDisk, Numbers
  <2> QED
    BY <1>2, <2>1, MaxIsThere
<1>3. /\ FindLatest \in Manifests \cup {NoManifest}
      /\ FindLatest # NoManifest => FindLatest.number \in Numbers
  BY <1>2 DEF FindLatest, SnapshotsInv, SnapshotsTypeOK, OnDisk, Manifests
<1>4. ASSUME taken # <<>>, ~rebased
      PROVE  FindLatest = Newest
  <2>1. Newest.number \in Nat
    BY <1>1, <1>4 DEF Manifests
  <2>2. OnDisk = 0..Newest.number /\ manifests[Newest.number] = Newest
    BY <1>4 DEF SnapshotsInv, DiskInv
  <2> QED
    BY <2>1, <2>2, MaxOfInterval DEF FindLatest
<1> QED
  BY <1>1, <1>3, <1>4, ManifestAssumption
     DEF FindLatest, SnapshotsInv, FreshInv, ManifestAssumption

LEMMA NewManagerKeeps ==
  ASSUME SnapshotsInv, NewManager
  PROVE  SnapshotsInv'
<1> USE NumbersProperties
<1>1. /\ manager'.open /\ manager'.latest = FindLatest /\ manager'.inner_count = 0
      /\ manager'.resumed_count = IF FindLatest = NoManifest THEN 0
                                 ELSE FindLatest.number + 1
      /\ DOMAIN manager' = {"open", "latest", "inner_count", "resumed_count"}
  BY DEF NewManager
<1>2. manager'.resumed_count \in 0..(MaxNumber + 1) /\ manager'.inner_count \in 0..(MaxNumber + 1)
  BY <1>1, LatestIsNewest DEF Numbers
<1>3. UNCHANGED <<files, manifests, taken, rebased>>
  BY DEF NewManager
<1>4. SnapshotsTypeOK'
  <2>1. manager' \in [open : BOOLEAN, latest : Manifests \cup {NoManifest},
                     inner_count : 0..(MaxNumber + 1), resumed_count : 0..(MaxNumber + 1)]
    BY <1>1, <1>2, LatestIsNewest DEF NewManager
  <2> QED
    BY <1>3, <2>1 DEF SnapshotsInv, SnapshotsTypeOK, OnDisk
<1>5. CountInv'
  BY <1>1 DEF CountInv
<1>6. FreshInv'
  BY <1>1, <1>3, LatestIsNewest DEF SnapshotsInv, FreshInv, OnDisk
<1>7. DiskInv'
  BY <1>1, <1>3, LatestIsNewest DEF SnapshotsInv, DiskInv, OnDisk, Newest
<1> QED
  BY <1>4, <1>5, <1>6, <1>7 DEF SnapshotsInv

\* Closing the manager, by the application or with its process.
LEMMA ClosingKeeps ==
  ASSUME SnapshotsInv, manager' = Closed, UNCHANGED <<files, manifests, taken, rebased>>
  PROVE  SnapshotsInv'
<1> USE NumbersProperties
<1>1. SnapshotsTypeOK'
  BY DEF SnapshotsInv, SnapshotsTypeOK, OnDisk, Closed
<1>2. CountInv'
  BY DEF CountInv, Closed
<1>3. FreshInv'
  BY DEF SnapshotsInv, FreshInv, OnDisk, Closed
<1>4. DiskInv'
  BY DEF SnapshotsInv, DiskInv, OnDisk, Newest, Closed
<1> QED
  BY <1>1, <1>2, <1>3, <1>4 DEF SnapshotsInv

\* Whatever changes the files alone.
LEMMA FilesKeep ==
  ASSUME SnapshotsInv, files' \in [Paths -> FileStates \cup {Absent}],
         UNCHANGED <<manifests, manager, taken, rebased>>
  PROVE  SnapshotsInv'
BY DEF SnapshotsInv, SnapshotsTypeOK, CountInv, FreshInv, DiskInv, OnDisk, Newest

LEMMA RestoredFiles ==
  ASSUME SnapshotsInv, NEW n \in Numbers, RestoreTo(n)
  PROVE  files' \in [Paths -> FileStates \cup {Absent}]
<1>1. manifests[n] \in Manifests
  BY DEF RestoreTo, OnDisk, SnapshotsInv, SnapshotsTypeOK
<1>2. \A p \in Tracked : manifests[n].files[p] \in FileStates \cup {Absent}
  BY <1>1 DEF Manifests
<1>3. \A p \in Paths : files[p] \in FileStates \cup {Absent}
  BY DEF SnapshotsInv, SnapshotsTypeOK
<1> QED
  BY <1>2, <1>3 DEF RestoreTo

LEMMA SnapshotsMoveKeeps ==
  ASSUME SnapshotsInv, SnapshotStep \/ DropManager \/ CommandWrites
  PROVE  SnapshotsInv'
<1>1. CASE NewManager
  BY <1>1, NewManagerKeeps
<1>2. CASE CreateBaseline
  BY <1>2, CreateBaselineKeeps
<1>3. CASE CreateIncremental
  BY <1>3, CreateIncrementalKeeps
<1>4. CASE CreateIncrementalRefused
  BY <1>4, FilesKeep DEF CreateIncrementalRefused, SnapshotsInv, SnapshotsTypeOK
<1>5. ASSUME NEW n \in Numbers, ComputeRestoreDiff(n)
      PROVE  SnapshotsInv'
  BY <1>5, FilesKeep DEF ComputeRestoreDiff, SnapshotsInv, SnapshotsTypeOK
<1>6. ASSUME NEW n \in Numbers, RestoreTo(n)
      PROVE  SnapshotsInv'
  BY <1>6, RestoredFiles, FilesKeep DEF RestoreTo
<1>7. CASE DropManager
  BY <1>7, ClosingKeeps DEF DropManager
<1>8. CASE CommandWrites
  <2>1. files' \in [Paths -> FileStates \cup {Absent}]
    BY <1>8 DEF CommandWrites, SnapshotsInv, SnapshotsTypeOK
  <2> QED
    BY <1>8, <2>1, FilesKeep DEF CommandWrites
<1> QED
  BY <1>1, <1>2, <1>3, <1>4, <1>5, <1>6, <1>7, <1>8 DEF SnapshotStep

LEMMA ResumeIsWholeFollows ==
  ASSUME SnapshotsInv
  PROVE  ResumeIsWhole
<1> USE NumbersProperties
<1> SUFFICES ASSUME taken # <<>>, ~rebased
             PROVE  /\ FindLatest = Newest
                    /\ OnDisk = 0..Newest.number
                    /\ \A n \in OnDisk \ {0} : manifests[n].parent = n - 1
                    /\ manager.open => /\ manager.latest = Newest
                                       /\ SnapshotCount = Cardinality(OnDisk)
  BY DEF ResumeIsWhole
<1>1. /\ OnDisk = 0..Newest.number
      /\ \A n \in OnDisk \ {0} : manifests[n].parent = n - 1
      /\ manager.open =>
           /\ manager.latest = Newest
           /\ \/ manager.inner_count = 0 /\ manager.resumed_count = Newest.number + 1
              \/ /\ manager.inner_count = Newest.number + 1
                 /\ manager.resumed_count <= Newest.number + 1
  BY DEF SnapshotsInv, DiskInv
<1>2. FindLatest = Newest /\ Newest.number \in Nat
  BY LatestIsNewest DEF Manifests
<1>3. Cardinality(OnDisk) = Newest.number + 1
  <2>1. \A k \in Nat : Cardinality(0..k) = k + 1
    BY FS_Interval
  <2> QED
    BY <1>1, <1>2, <2>1
<1>4. manager.inner_count \in Nat /\ manager.resumed_count \in Nat
  BY DEF SnapshotsInv, SnapshotsTypeOK
<1>5. manager.open => SnapshotCount = Newest.number + 1
  BY <1>1, <1>2, <1>4, MaxOfPair DEF SnapshotCount
<1> QED
  BY <1>1, <1>2, <1>3, <1>5

-----------------------------------------------------------------------------
(* The events.                                                              *)

LEMMA DictsProperties ==
  ASSUME NEW es, es \in Seq(Observable) \/ es \in Seq(Stored)
  PROVE  /\ Dicts(es) \in Seq(Dictionaries)
         /\ Len(Dicts(es)) = Len(es)
         /\ DOMAIN Dicts(es) = DOMAIN es
         /\ \A i \in DOMAIN es : Dicts(es)[i] \in Dictionaries /\ Dicts(es)[i].id = es[i].id
<1>1. /\ Len(es) \in Nat /\ DOMAIN es = 1..Len(es)
      /\ \A i \in 1..Len(es) : es[i] \in Observable \cup Stored
  BY LenProperties, ElementOfSeq
<1>2. \A i \in 1..Len(es) : Dicts(es)[i] \in Dictionaries /\ Dicts(es)[i].id = es[i].id
  BY <1>1, EventShapes DEF Dicts
<1>3. Dicts(es) \in [1..Len(es) -> Dictionaries]
  BY <1>1, <1>2 DEF Dicts
<1>4. Dicts(es) \in Seq(Dictionaries)
  BY <1>1, <1>3, SeqDef
<1>5. Len(Dicts(es)) = Len(es)
  BY <1>1, <1>3, <1>4, LenProperties
<1> QED
  BY <1>1, <1>2, <1>3, <1>4, <1>5

LEMMA EventsProperties ==
  ASSUME NEW ds \in Seq(Dictionaries), \A i \in DOMAIN ds : Readable(ds[i])
  PROVE  /\ Events(ds) \in Seq(Stored)
         /\ DOMAIN Events(ds) = DOMAIN ds
         /\ \A i \in DOMAIN ds : Events(ds)[i].id = ds[i].id
         /\ Whole(Events(ds))
         /\ \A i \in DOMAIN ds : GivesBack(Dicts(Events(ds))[i], ds[i])
<1>1. /\ Len(ds) \in Nat /\ DOMAIN ds = 1..Len(ds)
      /\ \A i \in 1..Len(ds) : ds[i] \in Dictionaries
  BY LenProperties, ElementOfSeq
<1>2. \A i \in 1..Len(ds) :
        /\ Events(ds)[i] \in Stored
        /\ Events(ds)[i].id = ds[i].id
        /\ GivesBack(ToDict(Events(ds)[i]), ds[i])
        /\ GivesBack(ToDict(Events(ds)[i]), ToDict(Events(ds)[i]))
  BY <1>1, EventShapes DEF Events
<1>3. Events(ds) \in [1..Len(ds) -> Stored]
  BY <1>1, <1>2 DEF Events
<1>4. Events(ds) \in Seq(Stored) /\ DOMAIN Events(ds) = DOMAIN ds
  BY <1>1, <1>3, SeqDef
<1>5. \A i \in DOMAIN ds : Dicts(Events(ds))[i] = ToDict(Events(ds)[i])
  BY <1>4 DEF Dicts
<1> QED
  BY <1>1, <1>2, <1>4, <1>5 DEF Whole

\* What is settled depends on the ids alone, and stays so while the buffer loses
\* events or gets younger ones.
LEMMA SettledKeeps ==
  ASSUME NEW es, NEW fs, Settled(es), DOMAIN fs = DOMAIN es,
         \A i \in DOMAIN es : es[i].id \in Nat /\ fs[i].id = es[i].id,
         observed \in Nat, observed' \in Nat, observed <= observed',
         \A j \in DOMAIN buffer' : \/ buffer'[j].id = observed
                                   \/ j \in DOMAIN buffer /\ buffer'[j] = buffer[j]
  PROVE  /\ InOrderOnce(fs)
         /\ \A i \in DOMAIN fs : /\ fs[i].id < observed'
                                 /\ \A j \in DOMAIN buffer' : fs[i].id < buffer'[j].id
<1>1. InOrderOnce(fs)
  BY DEF Settled, InOrderOnce
<1>2. \A i \in DOMAIN fs : fs[i].id \in Nat /\ fs[i].id < observed
  BY DEF Settled
<1>3. ASSUME NEW i \in DOMAIN fs, NEW j \in DOMAIN buffer'
      PROVE  fs[i].id < buffer'[j].id
  BY <1>2, <1>3 DEF Settled
<1> QED
  BY <1>1, <1>2, <1>3

LEMMA ElementIds ==
  ASSUME EventsInv
  PROVE  /\ \A i \in DOMAIN buffer : buffer[i].id \in Nat
         /\ \A i \in DOMAIN hand : hand[i].id \in Nat
         /\ \A m \in {meta, saved} \ {NoMetadata} :
              /\ m \in [network_events : Seq(Stored)]
              /\ \A i \in DOMAIN m.network_events : m.network_events[i].id \in Nat
<1> USE DEF EventsInv, EventsTypeOK
<1>1. \A S : \A s \in Seq(S) : \A i \in DOMAIN s : s[i] \in S
  BY ElementOfSeq, LenProperties
<1>2. \A i \in DOMAIN buffer : buffer[i].id \in Nat
  BY <1>1, EventShapes
<1>3. \A i \in DOMAIN hand : hand[i].id \in Nat
  BY <1>1, EventShapes
<1>4. \A m \in {meta, saved} \ {NoMetadata} :
         /\ m \in [network_events : Seq(Stored)]
         /\ \A i \in DOMAIN m.network_events : m.network_events[i].id \in Nat
  BY <1>1, EventShapes
<1> QED
  BY <1>2, <1>3, <1>4

LEMMA NewMetadataIsOne ==
  /\ NewMetadata \in [network_events : Seq(Stored)]
  /\ NewMetadata # NoMetadata
  /\ DOMAIN NewMetadata.network_events = {}
  /\ Dicts(NewMetadata.network_events) = <<>>
<1>1. /\ <<>> \in Seq(Stored) /\ DOMAIN <<>> = {}
  BY EmptySeq, LenProperties
<1>2. Dicts(<<>>) = <<>>
  <2>1. Dicts(<<>>) \in Seq(Dictionaries) /\ Len(Dicts(<<>>)) = 0
    BY <1>1, DictsProperties, EmptySeq
  <2> QED
    BY <2>1, EmptySeq
<1>3. NewMetadata.network_events = <<>>
  BY DEF NewMetadata
<1>4. NewMetadata \in [network_events : Seq(Stored)]
  BY <1>1 DEF NewMetadata
<1> QED
  BY <1>1, <1>2, <1>3, <1>4, EventsAssumption DEF EventsAssumption

LEMMA ProxyObservesKeeps ==
  ASSUME EventsInv, ProxyObserves
  PROVE  EventsInv'
<1>1. PICK k \in EventKinds : buffer' = Append(buffer, Stamp(k, observed))
  BY DEF ProxyObserves
<1>2. /\ observed \in Nat /\ observed < MaxEvents /\ observed' = observed + 1
      /\ MaxEvents \in Nat
      /\ UNCHANGED <<proxy, hand, meta, saved, reply, accepted>>
  BY EventsAssumption DEF ProxyObserves, EventsInv, EventsTypeOK, EventsAssumption
<1>3. Stamp(k, observed) \in Observable /\ Stamp(k, observed).id = observed
  BY <1>2 DEF Observable, Stamp, Ids
<1>4. /\ buffer' \in Seq(Observable)
      /\ Len(buffer) \in Nat /\ DOMAIN buffer = 1..Len(buffer)
      /\ DOMAIN buffer' = 1..(Len(buffer) + 1)
      /\ \A i \in 1..Len(buffer) : buffer'[i] = buffer[i]
      /\ buffer'[Len(buffer) + 1].id = observed
  BY <1>1, <1>3, AppendProperties, LenProperties DEF EventsInv, EventsTypeOK
<1>5. EventsTypeOK'
  BY <1>2, <1>4 DEF EventsInv, EventsTypeOK
<1>6. BufferInv'
  <2>1. \A i \in 1..Len(buffer) : buffer[i].id \in Nat /\ buffer[i].id < observed
    BY <1>4, ElementIds DEF EventsInv, BufferInv
  <2>2. \A i, j \in 1..Len(buffer) : i < j => buffer[i].id < buffer[j].id
    BY <1>4 DEF EventsInv, BufferInv, InOrderOnce
  <2>3. \A i \in DOMAIN buffer' : buffer'[i].id < observed'
    BY <1>2, <1>4, <2>1
  <2>4. \A i, j \in DOMAIN buffer' : i < j => buffer'[i].id < buffer'[j].id
    BY <1>2, <1>4, <2>1, <2>2
  <2> QED
    BY <2>3, <2>4 DEF BufferInv, InOrderOnce
<1>7. \A j \in DOMAIN buffer' : \/ buffer'[j].id = observed
                                \/ j \in DOMAIN buffer /\ buffer'[j] = buffer[j]
  BY <1>4
<1>8. HandInv'
  BY <1>2, <1>7, ElementIds, SettledKeeps DEF EventsInv, HandInv, Settled
<1>9. MetadataInv'
  BY <1>2, <1>7, ElementIds, SettledKeeps DEF EventsInv, MetadataInv, Settled, Whole
<1>10. AcceptedInv'
  BY <1>2 DEF EventsInv, AcceptedInv, StoredIsTheAcceptedList
<1> QED
  BY <1>5, <1>6, <1>8, <1>9, <1>10 DEF EventsInv

LEMMA DrainAuditEventsKeeps ==
  ASSUME EventsInv, DrainAuditEvents
  PROVE  EventsInv'
<1> DEFINE ds == Dicts(buffer)
<1>1. /\ hand' = hand \o ds /\ buffer' = <<>>
      /\ UNCHANGED <<proxy, observed, meta, saved, reply, accepted>>
      /\ observed \in Nat
  BY EventsAssumption DEF DrainAuditEvents, EventsInv, EventsTypeOK, EventsAssumption
<1>2. /\ ds \in Seq(Dictionaries) /\ DOMAIN ds = DOMAIN buffer
      /\ \A i \in DOMAIN ds : ds[i] \in Dictionaries /\ ds[i].id = buffer[i].id /\ ds[i].id \in Nat
  BY DictsProperties, ElementIds DEF EventsInv, EventsTypeOK
<1> HIDE DEF ds
<1>3. /\ Len(hand) \in Nat /\ DOMAIN hand = 1..Len(hand)
      /\ Len(ds) \in Nat /\ DOMAIN ds = 1..Len(ds)
      /\ hand' \in Seq(Dictionaries)
      /\ DOMAIN hand' = 1..(Len(hand) + Len(ds))
      /\ \A i \in 1..Len(hand) : hand'[i] = hand[i]
      /\ \A i \in (Len(hand) + 1)..(Len(hand) + Len(ds)) : hand'[i] = ds[i - Len(hand)]
  <2>1. hand \in Seq(Dictionaries) /\ ds \in Seq(Dictionaries)
    BY <1>2 DEF EventsInv, EventsTypeOK
  <2> QED
    BY <1>1, <2>1, ConcatProperties, LenProperties
<1>4. buffer' \in Seq(Observable) /\ DOMAIN buffer' = {}
  BY <1>1, EmptySeq, LenProperties
<1>5. EventsTypeOK'
  BY <1>1, <1>3, <1>4 DEF EventsInv, EventsTypeOK
<1>6. BufferInv'
  BY <1>4 DEF BufferInv, InOrderOnce
<1>7. HandInv'
  <2>2. Settled(hand) /\ \A i \in DOMAIN hand : hand[i].id \in Nat
    BY ElementIds DEF EventsInv, HandInv
  <2>3. \A i, j \in 1..Len(ds) : i < j => ds[i].id < ds[j].id
    BY <1>2, <1>3 DEF EventsInv, BufferInv, InOrderOnce
  <2>4. \A i \in 1..Len(hand), j \in 1..Len(ds) : hand[i].id < ds[j].id
    BY <1>2, <1>3, <2>2 DEF Settled
  <2>5. \A i \in 1..Len(ds) : ds[i].id < observed
    BY <1>2, <1>3 DEF EventsInv, BufferInv
  <2>6. \A i, j \in 1..Len(hand) : i < j => hand[i].id < hand[j].id
    BY <1>3, <2>2 DEF Settled, InOrderOnce
  <2>7. \A i \in 1..Len(hand) : hand[i].id < observed
    BY <1>3, <2>2 DEF Settled
  <2>8. InOrderOnce(hand')
    <3> SUFFICES ASSUME NEW i \in DOMAIN hand', NEW j \in DOMAIN hand', i < j
                 PROVE  hand'[i].id < hand'[j].id
      BY DEF InOrderOnce
    <3>1. CASE j <= Len(hand)
      BY <1>3, <2>6, <3>1
    <3>2. CASE i <= Len(hand) /\ Len(hand) < j
      BY <1>3, <2>4, <3>2
    <3>3. CASE Len(hand) < i
      <4>1. i - Len(hand) \in 1..Len(ds) /\ j - Len(hand) \in 1..Len(ds)
        BY <1>3, <3>3
      <4> QED
        BY <1>3, <2>3, <3>3, <4>1
    <3> QED
      BY <1>3, <3>1, <3>2, <3>3
  <2>9. \A i \in DOMAIN hand' : hand'[i].id < observed
    BY <1>3, <2>5, <2>7
  <2> QED
    BY <1>1, <1>4, <2>8, <2>9 DEF HandInv, Settled
<1>8. MetadataInv'
  BY <1>1, <1>4 DEF EventsInv, MetadataInv, Settled, Whole
<1>9. AcceptedInv'
  BY <1>1 DEF EventsInv, AcceptedInv, StoredIsTheAcceptedList
<1> QED
  BY <1>5, <1>6, <1>7, <1>8, <1>9 DEF EventsInv

LEMMA SetNetworkEventsKeeps ==
  ASSUME EventsInv, SetNetworkEvents
  PROVE  EventsInv'
<1>1. UNCHANGED <<proxy, buffer, observed, hand, saved>> /\ meta # NoMetadata
  BY DEF SetNetworkEvents
<1>2. CASE UNCHANGED <<meta, accepted>> /\ reply' = "error"
  BY <1>1, <1>2 DEF EventsInv, EventsTypeOK, BufferInv, HandInv, MetadataInv, AcceptedInv,
                    StoredIsTheAcceptedList, Settled, Whole
<1>3. CASE /\ \A i \in DOMAIN hand : Readable(hand[i])
           /\ meta' = [meta EXCEPT !.network_events = Events(hand)]
           /\ reply' = "ok" /\ accepted' = hand
  <2>1. hand \in Seq(Dictionaries) /\ \A i \in DOMAIN hand : hand[i].id \in Nat
    BY ElementIds DEF EventsInv, EventsTypeOK
  <2>2. Settled(hand)
    BY DEF EventsInv, HandInv
  <2>3. /\ Events(hand) \in Seq(Stored) /\ DOMAIN Events(hand) = DOMAIN hand
        /\ \A i \in DOMAIN hand : Events(hand)[i].id = hand[i].id
        /\ Whole(Events(hand))
        /\ \A i \in DOMAIN hand : GivesBack(Dicts(Events(hand))[i], hand[i])
    BY <1>3, <2>1, EventsProperties
  <2>4. meta' \in [network_events : Seq(Stored)] /\ meta'.network_events = Events(hand)
    BY <1>1, <1>3, <2>3, ElementIds
  <2>5. Settled(Events(hand))
    BY <2>2, <2>3 DEF Settled, InOrderOnce
  <2>6. EventsTypeOK'
    BY <1>1, <1>3, <2>4 DEF EventsInv, EventsTypeOK
  <2>7. BufferInv' /\ HandInv'
    BY <1>1 DEF EventsInv, BufferInv, HandInv, Settled
  <2>8. MetadataInv'
    BY <1>1, <2>3, <2>4, <2>5 DEF EventsInv, MetadataInv, Settled, Whole
  <2>9. AcceptedInv'
    BY <1>3, <2>3, <2>4 DEF AcceptedInv, StoredIsTheAcceptedList
  <2> QED
    BY <2>6, <2>7, <2>8, <2>9 DEF EventsInv
<1> QED
  BY <1>2, <1>3 DEF SetNetworkEvents

LEMMA ReadNetworkEventsKeeps ==
  ASSUME EventsInv, ReadNetworkEvents
  PROVE  EventsInv'
<1> DEFINE es == meta.network_events
<1>1. /\ meta # NoMetadata /\ hand' = Dicts(es)
      /\ UNCHANGED <<proxy, buffer, observed, meta, saved, reply, accepted>>
  BY DEF ReadNetworkEvents
<1>2. Settled(es) /\ es \in Seq(Stored)
  BY <1>1, ElementIds DEF EventsInv, MetadataInv
<1> HIDE DEF es
<1>3. /\ hand' \in Seq(Dictionaries) /\ DOMAIN hand' = DOMAIN es
      /\ \A i \in DOMAIN es : hand'[i].id = es[i].id
  BY <1>1, <1>2, DictsProperties
<1>4. Settled(hand)'
  BY <1>1, <1>2, <1>3 DEF Settled, InOrderOnce
<1> QED
  BY <1>1, <1>3, <1>4 DEF EventsInv, EventsTypeOK, BufferInv, HandInv, MetadataInv,
                          AcceptedInv, StoredIsTheAcceptedList, Settled, Whole

LEMMA ApplicationEditsKeeps ==
  ASSUME EventsInv, ApplicationEdits
  PROVE  EventsInv'
<1>1. PICK i \in DOMAIN hand, edit \in Edits :
        hand' = [hand EXCEPT ![i].fields[edit[1]] = edit[2]]
  BY DEF ApplicationEdits
<1>2. /\ Len(hand) \in Nat /\ DOMAIN hand = 1..Len(hand)
      /\ \A j \in 1..Len(hand) : hand[j] \in Dictionaries
      /\ edit[1] \in Fields /\ edit[2] \in Texts
  BY ElementOfSeq, LenProperties, EventsAssumption DEF EventsInv, EventsTypeOK, EventsAssumption
<1>3. PICK fields : fields = [hand[i].fields EXCEPT ![edit[1]] = edit[2]]
  OBVIOUS
<1>4. /\ DOMAIN hand' = 1..Len(hand)
      /\ \A j \in 1..Len(hand) : hand'[j] = IF j = i THEN [hand[i] EXCEPT !.fields = fields]
                                                     ELSE hand[j]
  BY <1>1, <1>2, <1>3
<1>5. fields \in [Fields -> Texts]
  BY <1>1, <1>2, <1>3 DEF Dictionaries
<1>6. \A j \in 1..Len(hand) : hand'[j] \in Dictionaries /\ hand'[j].id = hand[j].id
  BY <1>1, <1>2, <1>4, <1>5 DEF Dictionaries
<1>7. hand' \in Seq(Dictionaries)
  <2>1. hand' \in [1..Len(hand) -> Dictionaries]
    BY <1>1, <1>2, <1>4, <1>6
  <2> QED
    BY <1>2, <2>1, SeqDef
<1>8. UNCHANGED <<proxy, buffer, observed, meta, saved, reply, accepted>>
  BY DEF ApplicationEdits
<1>9. HandInv'
  BY <1>2, <1>4, <1>6, <1>8 DEF EventsInv, HandInv, Settled, InOrderOnce
<1> QED
  BY <1>7, <1>8, <1>9 DEF EventsInv, EventsTypeOK, BufferInv, MetadataInv, AcceptedInv,
                          StoredIsTheAcceptedList, Settled, Whole

LEMMA ProcessEndsKeeps ==
  ASSUME EventsInv, ProcessEnds
  PROVE  EventsInv'
<1>1. /\ proxy' = "none" /\ buffer' = <<>> /\ hand' = <<>> /\ meta' = NoMetadata
      /\ reply' = "none" /\ accepted' = <<>> /\ UNCHANGED <<observed, saved>>
  BY DEF ProcessEnds
<1>2. /\ buffer' \in Seq(Observable) /\ hand' \in Seq(Dictionaries)
      /\ DOMAIN buffer' = {} /\ DOMAIN hand' = {}
  BY <1>1, EmptySeq, LenProperties
<1>3. EventsTypeOK'
  BY <1>1, <1>2 DEF EventsInv, EventsTypeOK
<1>4. BufferInv' /\ HandInv'
  BY <1>2 DEF BufferInv, HandInv, Settled, InOrderOnce
<1>5. MetadataInv' /\ AcceptedInv'
  BY <1>1, <1>2 DEF EventsInv, MetadataInv, Settled, Whole, AcceptedInv,
                    StoredIsTheAcceptedList
<1> QED
  BY <1>3, <1>4, <1>5 DEF EventsInv

\* Creating, saving and loading metadata.
LEMMA MetadataMovesKeep ==
  ASSUME EventsInv, UNCHANGED <<proxy, buffer, observed, hand, reply>>,
         {meta', saved'} \subseteq {meta, saved, NewMetadata},
         \/ UNCHANGED <<meta, accepted>>
         \/ meta' # NoMetadata /\ accepted' = Dicts(meta'.network_events)
  PROVE  EventsInv'
<1>1. EventsTypeOK'
  BY NewMetadataIsOne DEF EventsInv, EventsTypeOK
<1>2. BufferInv' /\ HandInv'
  BY DEF EventsInv, BufferInv, HandInv, Settled
<1>3. Settled(NewMetadata.network_events) /\ Whole(NewMetadata.network_events)
  BY NewMetadataIsOne DEF Settled, InOrderOnce, Whole
<1>4. MetadataInv'
  BY <1>3 DEF EventsInv, MetadataInv, Settled, Whole
<1>5. AcceptedInv'
  <2>1. CASE UNCHANGED <<meta, accepted>>
    BY <2>1 DEF EventsInv, AcceptedInv, StoredIsTheAcceptedList
  <2>2. CASE meta' # NoMetadata /\ accepted' = Dicts(meta'.network_events)
    <3>1. Whole(meta'.network_events)
      BY <1>4, <2>2 DEF MetadataInv
    <3>2. /\ DOMAIN Dicts(meta'.network_events) = DOMAIN meta'.network_events
          /\ \A i \in DOMAIN meta'.network_events :
               Dicts(meta'.network_events)[i] = ToDict(meta'.network_events[i])
      BY DEF Dicts
    <3> QED
      BY <2>2, <3>1, <3>2 DEF Whole, AcceptedInv, StoredIsTheAcceptedList
  <2> QED
    BY <2>1, <2>2
<1> QED
  BY <1>1, <1>2, <1>4, <1>5 DEF EventsInv

LEMMA EventStepKeeps ==
  ASSUME EventsInv, EventStep \/ SaveSessionMetadata \/ ProcessEnds
  PROVE  EventsInv'
<1>1. CASE StartProxy \/ Shutdown
  BY <1>1 DEF StartProxy, Shutdown, EventsInv, EventsTypeOK, BufferInv, HandInv, MetadataInv,
              AcceptedInv, StoredIsTheAcceptedList, Settled, Whole
<1>2. CASE ProxyObserves
  BY <1>2, ProxyObservesKeeps
<1>3. CASE DrainAuditEvents
  BY <1>3, DrainAuditEventsKeeps
<1>4. CASE ApplicationEdits
  BY <1>4, ApplicationEditsKeeps
<1>5. CASE SetNetworkEvents
  BY <1>5, SetNetworkEventsKeeps
<1>6. CASE ReadNetworkEvents
  BY <1>6, ReadNetworkEventsKeeps
<1>7. CASE CreateMetadata
  BY <1>7, MetadataMovesKeep, NewMetadataIsOne DEF CreateMetadata
<1>8. CASE LoadSessionMetadata
  BY <1>8, MetadataMovesKeep DEF LoadSessionMetadata
<1>9. CASE SaveSessionMetadata
  BY <1>9, MetadataMovesKeep DEF SaveSessionMetadata
<1>10. CASE ProcessEnds
  BY <1>10, ProcessEndsKeeps
<1> QED
  BY <1>1, <1>2, <1>3, <1>4, <1>5, <1>6, <1>7, <1>8, <1>9, <1>10 DEF EventStep

-----------------------------------------------------------------------------
(* The session.                                                             *)

LEMMA InitEstablishes ==
  SessionInit => IInv
<1> SUFFICES ASSUME SessionInit
             PROVE  IInv
  OBVIOUS
<1>1. OnDisk = {}
  BY DEF SessionInit, SnapshotsInit, OnDisk
<1>2. SnapshotsTypeOK
  BY <1>1, NumbersProperties, EmptySeq
     DEF SessionInit, SnapshotsInit, SnapshotsTypeOK, Closed, OnDisk
<1>3. CountInv /\ FreshInv /\ DiskInv
  BY <1>1 DEF SessionInit, SnapshotsInit, CountInv, FreshInv, DiskInv, Closed
<1>4. EventsTypeOK
  BY EmptySeq, EventsAssumption DEF SessionInit, EventsInit, EventsTypeOK, EventsAssumption
<1>5. DOMAIN buffer = {} /\ DOMAIN hand = {}
  BY EmptySeq, LenProperties DEF SessionInit, EventsInit
<1>6. BufferInv /\ HandInv
  BY <1>5 DEF BufferInv, HandInv, Settled, InOrderOnce
<1>7. MetadataInv /\ AcceptedInv
  BY DEF SessionInit, EventsInit, MetadataInv, AcceptedInv, StoredIsTheAcceptedList
<1> QED
  BY <1>2, <1>3, <1>4, <1>6, <1>7 DEF IInv, SnapshotsInv, EventsInv

LEMMA NextKeeps ==
  IInv /\ [Next]_sessionVars => IInv'
<1> SUFFICES ASSUME IInv, [Next]_sessionVars
             PROVE  IInv'
  OBVIOUS
<1>1. UNCHANGED snapshotVars => SnapshotsInv'
  BY DEF IInv, snapshotVars, SnapshotsInv, SnapshotsTypeOK, CountInv, FreshInv, DiskInv,
         OnDisk, Newest
<1>2. UNCHANGED eventVars => EventsInv'
  BY DEF IInv, eventVars, EventsInv, EventsTypeOK, BufferInv, HandInv, MetadataInv,
         AcceptedInv, StoredIsTheAcceptedList, Settled, Whole
<1>3. CASE SaveSession
  BY <1>1, <1>3, EventStepKeeps DEF IInv, SaveSession
<1>4. CASE SnapshotsMove
  BY <1>2, <1>4, SnapshotsMoveKeeps DEF IInv, SnapshotsMove
<1>5. CASE EventsMove
  BY <1>1, <1>5, EventStepKeeps DEF IInv, EventsMove
<1>6. CASE SessionProcessEnds
  BY <1>6, EventStepKeeps, ClosingKeeps DEF IInv, SessionProcessEnds
<1>7. CASE UNCHANGED sessionVars
  BY <1>1, <1>2, <1>7 DEF IInv, sessionVars
<1> QED
  BY <1>3, <1>4, <1>5, <1>6, <1>7 DEF Next

\* The invariant the theorems below follow from.
THEOREM SessionInvariant == Spec => []IInv
BY InitEstablishes, NextKeeps, PTL DEF Spec

\* Every variable of a session keeps its type: manifests are under their number,
\* and what metadata holds are events.
THEOREM TypeCorrect == Spec => []SessionTypeOK
<1>1. IInv => SessionTypeOK
  BY DEF IInv, SnapshotsInv, EventsInv, SessionTypeOK
<1> QED
  BY <1>1, SessionInvariant, PTL

\* A manager compares with the snapshot taken last, whoever took it, and a resumed
\* session finds it (create_incremental, SnapshotManager::new).
THEOREM ResumesAreWhole == Spec => []ResumeIsWhole
<1>1. IInv => ResumeIsWhole
  BY ResumeIsWholeFollows DEF IInv
<1> QED
  BY <1>1, SessionInvariant, PTL

\* The events of a session are in the order the proxy observed them, none twice
\* (drain_audit_events, set_network_events).
THEOREM EventsStayInOrder == Spec => []EventsInOrderOnce
<1>1. IInv => EventsInOrderOnce
  BY DEF IInv, EventsInv, MetadataInv, Settled, EventsInOrderOnce
<1> QED
  BY <1>1, SessionInvariant, PTL

\* What the metadata gives back is the list that was accepted last, each dictionary
\* with the values it had and None for a field it lacked or had with another type; a
\* list that is refused changes nothing (set_network_events, network_events).
THEOREM AcceptedIsStored == Spec => []StoredIsTheAcceptedList
<1>1. IInv => StoredIsTheAcceptedList
  BY DEF IInv, EventsInv, AcceptedInv
<1> QED
  BY <1>1, SessionInvariant, PTL

-----------------------------------------------------------------------------
(* The date a session started on: years. *)

(* The days before a year, from the year 0. *)
Start(y) == 365 * y + (y + 3) \div 4 - (y + 99) \div 100 + (y + 399) \div 400

(* A year takes its days. *)
LEMMA StartStep ==
  ASSUME NEW y \in Nat
  PROVE  /\ DaysInYear(y) \in Nat /\ DaysInYear(y) >= 365 /\ Start(y) \in Nat
         /\ Start(y + 1) = Start(y) + DaysInYear(y)
<1>1. PICK a \in Nat, b \in Nat, c \in Nat : /\ a = (y + 3) \div 4 /\ b = (y + 99) \div 100
                                             /\ c = (y + 399) \div 400
  OBVIOUS
<1>2. (y + 4) \div 4 = IF y % 4 = 0 THEN a + 1 ELSE a
  BY <1>1
<1>3. (y + 100) \div 100 = IF y % 100 = 0 THEN b + 1 ELSE b
  BY <1>1
<1>4. (y + 400) \div 400 = IF y % 400 = 0 THEN c + 1 ELSE c
  BY <1>1
<1>5. (y % 400 = 0 => y % 100 = 0) /\ (y % 100 = 0 => y % 4 = 0)
  OBVIOUS
<1>6. a \in Nat /\ b \in Nat /\ c \in Nat /\ b <= y
  BY <1>1
<1>7. DaysInYear(y) = IF (y % 4 = 0 /\ y % 100 # 0) \/ y % 400 = 0 THEN 366 ELSE 365
  BY DEF DaysInYear, is_leap_year
<1>8. Start(y) = 365 * y + a - b + c
  BY <1>1 DEF Start
<1>9. Start(y + 1) = 365 * y + 365 + (y + 4) \div 4 - (y + 100) \div 100 + (y + 400) \div 400
  BY DEF Start
<1>10. Start(y) \in Nat
  BY <1>6, <1>8
<1> QED BY <1>2, <1>3, <1>4, <1>5, <1>7, <1>8, <1>9, <1>10

(* The years begin in order. *)
LEMMA StartGrows ==
  ASSUME NEW a \in Nat, NEW b \in Nat, a < b
  PROVE  Start(a + 1) <= Start(b)
<1> DEFINE S == {k \in Nat : Start(a + 1) <= Start(a + 1 + k)}
<1>1. 0 \in S
  BY StartStep
<1>2. ASSUME NEW k \in Nat, k \in S PROVE k + 1 \in S
  <2>1. a + 1 + k \in Nat /\ a + 1 \in Nat /\ (a + 1 + k) + 1 = a + 1 + (k + 1)
    OBVIOUS
  <2>2. Start(a + 1 + (k + 1)) >= Start(a + 1 + k) /\ Start(a + 1 + k) \in Nat /\ Start(a + 1) \in Nat
        /\ Start(a + 1 + (k + 1)) \in Nat
    BY <2>1, StartStep
  <2> QED BY <1>2, <2>2
<1>3. Nat \subseteq S
  <2> HIDE DEF S
  <2> QED BY <1>1, <1>2, Induction
<1>4. b - a - 1 \in Nat /\ a + 1 + (b - a - 1) = b
  OBVIOUS
<1> QED BY <1>3, <1>4

(* The year a day is in. *)
IsYearOf(y, day) == y \in Nat /\ Start(y) <= day /\ day < Start(y + 1)

(* Every day is in a year ... *)
LEMMA YearExists == \A day \in Nat : \E y \in Nat : IsYearOf(y, day)
<1> DEFINE S == {day \in Nat : \E y \in Nat : IsYearOf(y, day)}
<1>1. 0 \in S
  <2>1. Start(0) = 0 /\ Start(0 + 1) > 0
    BY StartStep DEF Start
  <2> QED BY <2>1 DEF IsYearOf
<1>2. ASSUME NEW day \in Nat, day \in S PROVE day + 1 \in S
  <2>1. PICK y \in Nat : IsYearOf(y, day)
    BY <1>2
  <2>2. /\ Start(y) \in Nat /\ Start(y + 1) \in Nat
        /\ Start((y + 1) + 1) > Start(y + 1) /\ Start((y + 1) + 1) \in Nat
    BY StartStep
  <2>3. CASE day + 1 < Start(y + 1)
    BY <2>1, <2>2, <2>3 DEF IsYearOf
  <2>4. CASE ~(day + 1 < Start(y + 1))
    <3>1. IsYearOf(y + 1, day + 1)
      BY <2>1, <2>2, <2>4 DEF IsYearOf
    <3> QED BY <3>1
  <2> QED BY <2>3, <2>4
<1>3. Nat \subseteq S
  <2> HIDE DEF S
  <2> QED BY <1>1, <1>2, Induction
<1> QED BY <1>3

(* ... and in one only. *)
LEMMA YearIsUnique ==
  ASSUME NEW day \in Nat, NEW y, NEW z, IsYearOf(y, day), IsYearOf(z, day)
  PROVE  y = z
<1>1. /\ y \in Nat /\ Start(y) \in Nat /\ Start(y + 1) \in Nat
      /\ z \in Nat /\ Start(z) \in Nat /\ Start(z + 1) \in Nat
  BY StartStep DEF IsYearOf
<1>2. ~(y < z)
  BY <1>1, StartGrows DEF IsYearOf
<1>3. ~(z < y)
  BY <1>1, StartGrows DEF IsYearOf
<1> QED BY <1>1, <1>2, <1>3

(* The day a loop state stands for. *)
DayOf(at) == Start(at.y) + at.remaining

(* The body of the year loop, as it is in Calendar. *)
YearBody(f) ==
  [at \in YearStates |->
     IF at.remaining < DaysInYear(at.y) THEN at
     ELSE f[[y |-> at.y + 1, remaining |-> at.remaining - DaysInYear(at.y)]]]

(* There is such a function ... *)
LEMMA YearLoopExists == \E f : f = YearBody(f)
<1> DEFINE Year(at) == CHOOSE y \in Nat : IsYearOf(y, DayOf(at))
           f == [at \in YearStates |-> [y |-> Year(at), remaining |-> DayOf(at) - Start(Year(at))]]
<1>1. ASSUME NEW at \in YearStates
      PROVE  /\ DayOf(at) \in Nat /\ Start(at.y) \in Nat /\ at.y \in Nat /\ at.remaining \in Nat
             /\ IsYearOf(Year(at), DayOf(at))
  <2>1. DayOf(at) \in Nat /\ Start(at.y) \in Nat /\ at.y \in Nat /\ at.remaining \in Nat
    BY StartStep DEF DayOf, YearStates
  <2>2. PICK y \in Nat : IsYearOf(y, DayOf(at))
    BY <2>1, YearExists
  <2> QED BY <2>1, <2>2
<1>2. ASSUME NEW at \in YearStates
      PROVE  f[at] = IF at.remaining < DaysInYear(at.y) THEN at
                     ELSE f[[y |-> at.y + 1, remaining |-> at.remaining - DaysInYear(at.y)]]
  <2>0. DaysInYear(at.y) \in Nat /\ Start(at.y + 1) = Start(at.y) + DaysInYear(at.y)
    BY <1>1, StartStep
  <2>1. CASE at.remaining < DaysInYear(at.y)
    <3>1. IsYearOf(at.y, DayOf(at))
      BY <1>1, <2>0, <2>1 DEF IsYearOf, DayOf
    <3>2. Year(at) = at.y
      <4> HIDE DEF Year
      <4> QED BY <1>1, <3>1, YearIsUnique
    <3>3. f[at] = [y |-> at.y, remaining |-> DayOf(at) - Start(at.y)]
      BY <3>2
    <3>4. DayOf(at) - Start(at.y) = at.remaining
      BY <1>1 DEF DayOf
    <3>5. at = [y |-> at.y, remaining |-> at.remaining]
      BY DEF YearStates
    <3> HIDE DEF f, Year
    <3> QED BY <2>1, <3>3, <3>4, <3>5
  <2>2. CASE ~(at.remaining < DaysInYear(at.y))
    <3>1. PICK next : next = [y |-> at.y + 1, remaining |-> at.remaining - DaysInYear(at.y)]
      OBVIOUS
    <3>2. next \in YearStates /\ next.y = at.y + 1 /\ next.remaining = at.remaining - DaysInYear(at.y)
      BY <1>1, <2>0, <2>2, <3>1 DEF YearStates
    <3>3. DayOf(next) = DayOf(at)
      BY <1>1, <2>0, <3>2 DEF DayOf
    <3>4. f[next] = f[at]
      BY <3>2, <3>3
    <3> HIDE DEF f, Year
    <3> QED BY <2>2, <3>1, <3>4
  <2> HIDE DEF f, Year
  <2> QED BY <2>1, <2>2
<1>3. f = YearBody(f)
  <2>1. f = [at \in YearStates |-> f[at]]
    OBVIOUS
  <2> HIDE DEF f, Year
  <2> QED BY <1>2, <2>1 DEF YearBody
<1> HIDE DEF f
<1> QED BY <1>3

(* ... and the year loop is one. *)
LEMMA YearLoop == YearAndRest = YearBody(YearAndRest)
<1>1. PICK f : f = YearBody(f)
  BY YearLoopExists
<1>2. YearAndRest = CHOOSE g : g = YearBody(g)
  BY DEF YearAndRest, YearBody
<1> QED BY <1>1, <1>2

(* The loop stops in the year of the day, with what is left of it. *)
LEMMA YearLoopIs ==
  ASSUME NEW at \in YearStates
  PROVE  LET r == YearAndRest[at]
         IN  /\ r \in YearStates /\ r.y >= at.y /\ r.remaining < DaysInYear(r.y)
             /\ DayOf(r) = DayOf(at)
<1> DEFINE Good(a, r) == /\ r \in YearStates /\ r.y >= a.y /\ r.remaining < DaysInYear(r.y)
                         /\ DayOf(r) = DayOf(a)
           S == {n \in Nat : \A a \in YearStates : a.remaining <= n => Good(a, YearAndRest[a])}
<1>1. ASSUME NEW a \in YearStates
      PROVE  /\ a.y \in Nat /\ a.remaining \in Nat /\ DaysInYear(a.y) \in Nat /\ DaysInYear(a.y) >= 365
             /\ Start(a.y) \in Nat /\ Start(a.y + 1) = Start(a.y) + DaysInYear(a.y)
  <2>1. a.y \in Nat /\ a.remaining \in Nat
    BY DEF YearStates
  <2> QED BY <2>1, StartStep
<1>0. ASSUME NEW a \in YearStates
      PROVE  YearAndRest[a] = IF a.remaining < DaysInYear(a.y) THEN a
               ELSE YearAndRest[[y |-> a.y + 1, remaining |-> a.remaining - DaysInYear(a.y)]]
  <2>1. YearAndRest[a] = YearBody(YearAndRest)[a]
    BY YearLoop
  <2> QED BY <2>1 DEF YearBody
<1>2. ASSUME NEW a \in YearStates, a.remaining < DaysInYear(a.y)
      PROVE  Good(a, YearAndRest[a])
  <2>1. YearAndRest[a] = a
    BY <1>0, <1>2
  <2>2. a.y >= a.y
    BY <1>1
  <2> QED BY <1>2, <2>1, <2>2
<1>3. 0 \in S
  <2>1. ASSUME NEW a \in YearStates, a.remaining <= 0 PROVE a.remaining < DaysInYear(a.y)
    BY <1>1, <2>1
  <2> HIDE DEF Good
  <2> QED BY <1>2, <2>1
<1>4. ASSUME NEW n \in Nat, n \in S PROVE n + 1 \in S
  <2>1. ASSUME NEW a \in YearStates, a.remaining <= n + 1 PROVE Good(a, YearAndRest[a])
    <3>1. CASE a.remaining < DaysInYear(a.y)
      BY <1>2, <3>1
    <3>2. CASE ~(a.remaining < DaysInYear(a.y))
      <4>1. PICK b : b = [y |-> a.y + 1, remaining |-> a.remaining - DaysInYear(a.y)]
        OBVIOUS
      <4>2. b \in YearStates /\ b.y = a.y + 1 /\ b.remaining = a.remaining - DaysInYear(a.y)
        BY <1>1, <3>2, <4>1 DEF YearStates
      <4>3. b.remaining <= n
        BY <1>1, <2>1, <4>2
      <4>4. Good(b, YearAndRest[b])
        <5> HIDE DEF Good
        <5> QED BY <1>4, <4>2, <4>3
      <4>5. DayOf(b) = DayOf(a)
        BY <1>1, <4>2 DEF DayOf
      <4>6. YearAndRest[a] = YearAndRest[b]
        BY <1>0, <3>2, <4>1
      <4>7. \A r : r \in YearStates => r.y \in Nat
        BY DEF YearStates
      <4> QED BY <1>1, <4>2, <4>4, <4>5, <4>6, <4>7
    <3> HIDE DEF Good
    <3> QED BY <3>1, <3>2
  <2> HIDE DEF Good
  <2> QED BY <2>1
<1>5. Nat \subseteq S
  <2> HIDE DEF S
  <2> QED BY <1>3, <1>4, Induction
<1>6. Good(at, YearAndRest[at])
  <2>1. at.remaining \in Nat /\ at.remaining <= at.remaining
    BY <1>1
  <2> HIDE DEF Good
  <2> QED BY <1>5, <2>1
<1> QED BY <1>6

-----------------------------------------------------------------------------
(* Months. *)

(* The body of the month loop, as it is in Calendar. *)
MonthBody(f) ==
  [at \in MonthStates |->
     IF at.m = 13 THEN [at EXCEPT !.m = 1]
     ELSE IF at.remaining < MonthDays(at.y)[at.m] THEN at
     ELSE f[[y |-> at.y, m |-> at.m + 1, remaining |-> at.remaining - MonthDays(at.y)[at.m]]]]

(* A month has its days. *)
LEMMA MonthDaysAre ==
  ASSUME NEW y \in Nat, NEW m \in 1..12
  PROVE  MonthDays(y)[m] \in Nat /\ MonthDays(y)[m] >= 28 /\ MonthDays(y)[m] <= 31
<1>1. \/ m = 1 \/ m = 2 \/ m = 3 \/ m = 4 \/ m = 5 \/ m = 6
      \/ m = 7 \/ m = 8 \/ m = 9 \/ m = 10 \/ m = 11 \/ m = 12
  OBVIOUS
<1>2. PICK feb : feb = IF is_leap_year(y) THEN 29 ELSE 28
  OBVIOUS
<1>3. feb \in {28, 29}
  BY <1>2
<1>4. MonthDays(y) = <<31, feb, 31, 30, 31, 30, 31, 31, 30, 31, 30, 31>>
  BY <1>2 DEF MonthDays
<1> QED BY <1>1, <1>3, <1>4

(* There is such a function: the loop from each month on, from the last. *)
LEMMA MonthLoopExists == \E f : f = MonthBody(f)
<1> DEFINE Left == [y : Nat, remaining : Nat]
           T == [Left -> MonthStates]
           At(s, m) == [y |-> s.y, m |-> m, remaining |-> s.remaining]
           Rest(s, m) == [y |-> s.y, remaining |-> s.remaining - MonthDays(s.y)[m]]
           out == [s \in Left |-> At(s, 1)]
           step == [k \in 1..12 |-> [h \in T |-> [s \in Left |->
                      IF s.remaining < MonthDays(s.y)[13 - k] THEN At(s, 13 - k)
                      ELSE h[Rest(s, 13 - k)]]]]
<1>1. out \in T
  BY DEF MonthStates
<1>2. \A s \in Left, m \in 1..12 : ~(s.remaining < MonthDays(s.y)[m]) => Rest(s, m) \in Left
  <2> TAKE s \in Left, m \in 1..12
  <2> HAVE ~(s.remaining < MonthDays(s.y)[m])
  <2>1. s.y \in Nat /\ s.remaining \in Nat /\ MonthDays(s.y)[m] \in Nat
    BY MonthDaysAre
  <2>2. s.remaining - MonthDays(s.y)[m] \in Nat
    BY <2>1
  <2> QED BY <2>1, <2>2
<1>3. step \in [1..12 -> [T -> T]]
  <2>1. ASSUME NEW k \in 1..12, NEW h \in T, NEW s \in Left
        PROVE  (IF s.remaining < MonthDays(s.y)[13 - k] THEN At(s, 13 - k)
                ELSE h[Rest(s, 13 - k)]) \in MonthStates
    <3>1. PICK m \in 1..12 : m = 13 - k
      OBVIOUS
    <3>2. At(s, m) \in MonthStates
      BY DEF MonthStates
    <3>3. ~(s.remaining < MonthDays(s.y)[m]) => h[Rest(s, m)] \in MonthStates
      <4> HIDE DEF Rest, Left
      <4> QED BY <1>2
    <3> HIDE DEF At, Rest
    <3> QED BY <3>1, <3>2, <3>3
  <2> HIDE DEF At, Rest, Left
  <2> QED BY <2>1
<1>4. PICK g : Recurs(g, 12, T, out, step)
  <2> HIDE DEF T, out, step
  <2> QED BY <1>1, <1>3, Recursion
<1> DEFINE f == [at \in MonthStates |-> g[13 - at.m][[y |-> at.y, remaining |-> at.remaining]]]
<1>5. ASSUME NEW at \in MonthStates
      PROVE  f[at] = IF at.m = 13 THEN [at EXCEPT !.m = 1]
                     ELSE IF at.remaining < MonthDays(at.y)[at.m] THEN at
                     ELSE f[[y |-> at.y, m |-> at.m + 1,
                             remaining |-> at.remaining - MonthDays(at.y)[at.m]]]
  <2>1. PICK s : s = [y |-> at.y, remaining |-> at.remaining]
    OBVIOUS
  <2>2. s \in Left /\ s.y = at.y /\ s.remaining = at.remaining /\ at.m \in 1..13
    BY <2>1 DEF MonthStates
  <2>3. f[at] = g[13 - at.m][s]
    BY <2>1
  <2>4. at = At(s, at.m)
    BY <2>2 DEF MonthStates
  <2>5. CASE at.m = 13
    <3>1. [at EXCEPT !.m = 1] = At(s, 1)
      BY <2>2 DEF MonthStates
    <3>2. g[0][s] = At(s, 1)
      BY <1>4, <2>2 DEF Recurs
    <3>3. 13 - at.m = 0
      BY <2>5
    <3> HIDE DEF f, At
    <3> QED BY <2>3, <2>5, <3>1, <3>2, <3>3
  <2>6. CASE at.m # 13
    <3>1. PICK k \in 1..12 : k = 13 - at.m
      BY <2>2, <2>6
    <3>2. 13 - k = at.m /\ at.m \in 1..12 /\ k - 1 \in 0..12
      BY <2>2, <3>1
    <3>3. g[k] = step[k][g[k - 1]] /\ g[k - 1] \in T
      <4> HIDE DEF T, out, step
      <4> QED BY <1>4, <3>2 DEF Recurs
    <3>4. g[k][s] = IF s.remaining < MonthDays(s.y)[at.m] THEN At(s, at.m) ELSE g[k - 1][Rest(s, at.m)]
      <4> HIDE DEF T, At, Rest, Left, f
      <4> QED BY <2>2, <3>2, <3>3
    <3>5. CASE at.remaining < MonthDays(at.y)[at.m]
      <4> HIDE DEF f, At, Rest, step
      <4> QED BY <2>2, <2>3, <2>4, <2>6, <3>1, <3>4, <3>5
    <3>6. CASE ~(at.remaining < MonthDays(at.y)[at.m])
      <4>1. PICK next : next = [y |-> at.y, m |-> at.m + 1,
                                remaining |-> at.remaining - MonthDays(at.y)[at.m]]
        OBVIOUS
      <4>2. Rest(s, at.m) \in Left
        <5> HIDE DEF Rest, Left
        <5> QED BY <1>2, <2>2, <3>2, <3>6
      <4>3. /\ next.y = at.y /\ next.m = at.m + 1
            /\ next.remaining = at.remaining - MonthDays(at.y)[at.m]
        BY <4>1
      <4>4. next \in MonthStates
        <5>1. at.y \in Nat /\ at.m + 1 \in 1..13
          BY <3>2 DEF MonthStates
        <5>2. at.remaining - MonthDays(at.y)[at.m] \in Nat
          BY <2>2, <4>2
        <5> QED BY <4>1, <5>1, <5>2 DEF MonthStates
      <4>5. 13 - next.m = k - 1
        BY <2>2, <3>1, <4>3
      <4>6. [y |-> next.y, remaining |-> next.remaining] = Rest(s, at.m)
        BY <2>2, <4>3
      <4>7. f[next] = g[k - 1][Rest(s, at.m)]
        <5>1. f[next] = g[13 - next.m][[y |-> next.y, remaining |-> next.remaining]]
          BY <4>4
        <5> HIDE DEF f, Rest
        <5> QED BY <4>5, <4>6, <5>1
      <4>8. g[k][s] = g[k - 1][Rest(s, at.m)]
        <5> HIDE DEF f, At, Rest, step
        <5> QED BY <2>2, <3>4, <3>6
      <4> HIDE DEF f, At, Rest, step
      <4> QED BY <2>3, <2>6, <3>1, <3>6, <4>1, <4>7, <4>8
    <3> HIDE DEF f, At, Rest, step
    <3> QED BY <3>5, <3>6
  <2> HIDE DEF f, At, Rest, step
  <2> QED BY <2>5, <2>6
<1>6. f = MonthBody(f)
  <2>1. f = [at \in MonthStates |-> f[at]]
    OBVIOUS
  <2> HIDE DEF f
  <2> QED BY <1>5, <2>1 DEF MonthBody
<1> HIDE DEF f
<1> QED BY <1>6

(* The month loop is one. *)
LEMMA MonthLoop == MonthAndRest = MonthBody(MonthAndRest)
<1>1. PICK f : f = MonthBody(f)
  BY MonthLoopExists
<1>2. MonthAndRest = CHOOSE g : g = MonthBody(g)
  BY DEF MonthAndRest, MonthBody
<1> QED BY <1>1, <1>2

(* The days of a year before each month, and of the whole year. *)
Before(y, m) ==
  LET l == IF is_leap_year(y) THEN 1 ELSE 0
  IN  <<0, 31, 59 + l, 90 + l, 120 + l, 151 + l, 181 + l, 212 + l,
        243 + l, 273 + l, 304 + l, 334 + l, 365 + l>>[m]

(* They add up. *)
LEMMA BeforeAddsUp ==
  ASSUME NEW y \in Nat, NEW m \in 1..12
  PROVE  /\ Before(y, m) \in Nat /\ Before(y, m + 1) = Before(y, m) + MonthDays(y)[m]
         /\ Before(y, 1) = 0 /\ Before(y, 13) = DaysInYear(y)
<1>1. \/ m = 1 \/ m = 2 \/ m = 3 \/ m = 4 \/ m = 5 \/ m = 6
      \/ m = 7 \/ m = 8 \/ m = 9 \/ m = 10 \/ m = 11 \/ m = 12
  OBVIOUS
<1>2. CASE is_leap_year(y)
  <2>1. MonthDays(y) = <<31, 29, 31, 30, 31, 30, 31, 31, 30, 31, 30, 31>>
    BY <1>2 DEF MonthDays
  <2>2. \A k : Before(y, k) = <<0, 31, 60, 91, 121, 152, 182, 213, 244, 274, 305, 335, 366>>[k]
    BY <1>2 DEF Before
  <2>3. DaysInYear(y) = 366
    BY <1>2 DEF DaysInYear
  <2> QED BY <1>1, <2>1, <2>2, <2>3
<1>3. CASE ~is_leap_year(y)
  <2>1. MonthDays(y) = <<31, 28, 31, 30, 31, 30, 31, 31, 30, 31, 30, 31>>
    BY <1>3 DEF MonthDays
  <2>2. \A k : Before(y, k) = <<0, 31, 59, 90, 120, 151, 181, 212, 243, 273, 304, 334, 365>>[k]
    BY <1>3 DEF Before
  <2>3. DaysInYear(y) = 365
    BY <1>3 DEF DaysInYear
  <2> QED BY <1>1, <2>1, <2>2, <2>3
<1> QED BY <1>2, <1>3

(* The loop stops in the month of the day, with what is left of it. *)
LEMMA MonthLoopIs ==
  ASSUME NEW y \in Nat, NEW rest \in Nat, rest < DaysInYear(y)
  PROVE  LET r == MonthAndRest[[y |-> y, m |-> 1, remaining |-> rest]]
         IN  /\ r.m \in 1..12 /\ r.remaining \in Nat /\ r.remaining < MonthDays(y)[r.m]
             /\ Before(y, r.m) + r.remaining = rest
<1> DEFINE At(m) == [y |-> y, m |-> m, remaining |-> rest - Before(y, m)]
           Good(r) == /\ r.m \in 1..12 /\ r.remaining \in Nat /\ r.remaining < MonthDays(y)[r.m]
                      /\ Before(y, r.m) + r.remaining = rest
           S == {k \in 0..12 : Before(y, k + 1) <= rest => k < 12 /\ Good(MonthAndRest[At(k + 1)])}
<1>1. 12 \in S
  <2>1. Before(y, 12 + 1) = DaysInYear(y) /\ DaysInYear(y) \in Nat
    BY BeforeAddsUp, StartStep
  <2> HIDE DEF Good, At
  <2> QED BY <2>1
<1>2. ASSUME NEW k \in 1..12, k \in S PROVE k - 1 \in S
  <2>1. PICK days : days = MonthDays(y)[k]
    OBVIOUS
  <2>2. /\ days \in Nat /\ Before(y, k) \in Nat /\ Before(y, k + 1) = Before(y, k) + days
    BY <2>1, BeforeAddsUp, MonthDaysAre
  <2>3. SUFFICES ASSUME Before(y, k) <= rest PROVE Good(MonthAndRest[At(k)])
    <3>1. (k - 1) + 1 = k /\ k - 1 \in 0..12 /\ k - 1 < 12
      OBVIOUS
    <3> HIDE DEF Good, At
    <3> QED BY <3>1
  <2>4. /\ At(k) \in MonthStates /\ At(k).y = y /\ At(k).m = k
        /\ At(k).remaining = rest - Before(y, k)
    BY <2>2, <2>3 DEF MonthStates
  <2>5. MonthAndRest[At(k)] =
          IF rest - Before(y, k) < days THEN At(k)
          ELSE MonthAndRest[[y |-> y, m |-> k + 1, remaining |-> (rest - Before(y, k)) - days]]
    <3>1. MonthAndRest[At(k)] = MonthBody(MonthAndRest)[At(k)]
      BY MonthLoop, Zenon
    <3>2. k # 13
      OBVIOUS
    <3> HIDE DEF At
    <3> QED BY <2>1, <2>4, <3>1, <3>2 DEF MonthBody
  <2>6. CASE rest - Before(y, k) < days
    <3>1. MonthAndRest[At(k)] = At(k)
      BY <2>5, <2>6
    <3>2. Before(y, k) + (rest - Before(y, k)) = rest /\ rest - Before(y, k) \in Nat
      BY <2>2, <2>3
    <3> HIDE DEF At
    <3> QED BY <2>1, <2>4, <2>6, <3>1, <3>2
  <2>7. CASE ~(rest - Before(y, k) < days)
    <3>1. (rest - Before(y, k)) - days = rest - Before(y, k + 1) /\ Before(y, k + 1) <= rest
      BY <2>2, <2>3, <2>7
    <3>2. MonthAndRest[At(k)] = MonthAndRest[At(k + 1)]
      BY <2>5, <2>7, <3>1
    <3> HIDE DEF Good, At
    <3> QED BY <1>2, <3>1, <3>2
  <2> HIDE DEF Good, At
  <2> QED BY <2>6, <2>7
<1>3. 0..12 \subseteq S
  <2> HIDE DEF S
  <2> QED BY <1>1, <1>2, InductionDown
<1>4. Good(MonthAndRest[At(1)])
  <2>1. Before(y, 0 + 1) = 0 /\ 0 \in 0..12 /\ 0 + 1 = 1
    BY BeforeAddsUp
  <2> HIDE DEF Good, At
  <2> QED BY <1>3, <2>1
<1>5. At(1) = [y |-> y, m |-> 1, remaining |-> rest]
  <2>1. Before(y, 1) = 0
    BY BeforeAddsUp
  <2> QED BY <2>1
<1> QED BY <1>4, <1>5

(* The day number of a date, counted from the start of the year. *)
LEMMA DayNumberIs ==
  ASSUME NEW y \in Nat, y >= 1970, NEW m \in 1..12, NEW d \in Nat
  PROVE  DayNumber(y, m, d) = (Start(y) - Start(1970)) + Before(y, m) + (d - 1)
<1>1. PICK a \in Nat, b \in Nat, c \in Nat : /\ a = (y + 3) \div 4 /\ b = (y + 99) \div 100
                                             /\ c = (y + 399) \div 400
  OBVIOUS
<1>2. Start(y) = 365 * y + a - b + c
  BY <1>1 DEF Start
<1>3. Start(1970) = 719528
  BY SMT DEF Start
<1>4. (y - 1) \div 4 = a - 1 /\ (y - 1) \div 100 = b - 1 /\ (y - 1) \div 400 = c - 1
  BY <1>1
<1>5. PICK l : l = IF is_leap_year(y) THEN 1 ELSE 0
  OBVIOUS
<1>6. y \div 4 - y \div 100 + y \div 400 = ((a - 1) - (b - 1)) + (c - 1) + l
  <2>1. y \div 4 = IF y % 4 = 0 THEN a ELSE a - 1
    BY <1>1
  <2>2. y \div 100 = IF y % 100 = 0 THEN b ELSE b - 1
    BY <1>1
  <2>3. y \div 400 = IF y % 400 = 0 THEN c ELSE c - 1
    BY <1>1
  <2>4. (y % 400 = 0 => y % 100 = 0) /\ (y % 100 = 0 => y % 4 = 0)
    OBVIOUS
  <2> QED BY <1>5, <2>1, <2>2, <2>3, <2>4 DEF is_leap_year
<1>7. l \in {0, 1}
  BY <1>5
<1>8. \A k : Before(y, k) = <<0, 31, 59 + l, 90 + l, 120 + l, 151 + l, 181 + l, 212 + l,
                            243 + l, 273 + l, 304 + l, 334 + l, 365 + l>>[k]
  BY <1>5 DEF Before
<1>9. CASE m <= 2
  <2>1. m = 1 \/ m = 2
    BY <1>9
  <2>2. DayNumber(y, m, d) =
          365 * (y - 1) + (a - 1) - (b - 1) + (c - 1) + (153 * (m + 9) + 2) \div 5 + d - 719469
    BY <1>4, <1>9 DEF DayNumber
  <2>3. (153 * (1 + 9) + 2) \div 5 = 306 /\ (153 * (2 + 9) + 2) \div 5 = 337
    OBVIOUS
  <2> QED BY <1>2, <1>3, <1>8, <2>1, <2>2, <2>3
<1>10. CASE m > 2
  <2>1. \/ m = 3 \/ m = 4 \/ m = 5 \/ m = 6
        \/ m = 7 \/ m = 8 \/ m = 9 \/ m = 10 \/ m = 11 \/ m = 12
    BY <1>10
  <2>2. DayNumber(y, m, d) =
          365 * y + y \div 4 - y \div 100 + y \div 400 + (153 * (m - 3) + 2) \div 5 + d - 719469
    BY <1>10 DEF DayNumber
  <2>3. DayNumber(y, m, d) =
          365 * y + ((a - 1) - (b - 1)) + (c - 1) + l + (153 * (m - 3) + 2) \div 5 + d - 719469
    BY <1>6, <1>7, <2>2
  <2>4. Before(y, m) = (153 * (m - 3) + 2) \div 5 + 59 + l
    BY <1>7, <1>8, <2>1
  <2>5. (153 * (m - 3) + 2) \div 5 \in Int
    OBVIOUS
  <2> QED BY <1>2, <1>3, <1>7, <2>3, <2>4, <2>5
<1> QED BY <1>9, <1>10

(* The time of any second of a day. *)
LEMMA TimeIsRight ==
  ASSUME NEW s \in SecondsOfDay
  PROVE  /\ s \div 3600 \in 0..23 /\ (s % 3600) \div 60 \in 0..59 /\ s % 60 \in 0..59
         /\ 3600 * (s \div 3600) + 60 * ((s % 3600) \div 60) + (s % 60) = s
<1>1. s \in Nat /\ s < 86400
  BY SMT DEF SecondsOfDay
<1>2. PICK q \in Nat, r \in Nat : q = s \div 3600 /\ r = s % 3600
  BY <1>1, SMT
<1>3. s = 3600 * q + r /\ r < 3600 /\ q < 24
  BY <1>1, <1>2, SMT
<1>4. PICK a \in Nat, b \in Nat : a = r \div 60 /\ b = r % 60
  BY SMT
<1>5. r = 60 * a + b /\ b < 60 /\ a < 60
  BY <1>3, <1>4, SMT
<1>6. s = 60 * (60 * q + a) + b
  BY <1>3, <1>5, SMT
<1>7. s % 60 = b
  BY <1>5, <1>6, SMT
<1> QED BY <1>2, <1>3, <1>4, <1>5, <1>7, SMT

(* The date of any clock. *)
LEMMA DateIsRight ==
  ASSUME NEW clock \in Clock
  PROVE  IsDateOf(chrono_now_iso8601(clock), clock)
<1>1. clock.day \in Nat /\ clock.second \in SecondsOfDay
  BY DEF Clock
<1>2. PICK year : year = YearAndRest[[y |-> 1970, remaining |-> clock.day]]
  OBVIOUS
<1>3. [y |-> 1970, remaining |-> clock.day] \in YearStates
  BY <1>1 DEF YearStates
<1>4. /\ year \in YearStates /\ year.y >= 1970 /\ year.remaining < DaysInYear(year.y)
      /\ DayOf(year) = DayOf([y |-> 1970, remaining |-> clock.day])
  BY <1>2, <1>3, YearLoopIs
<1>5. /\ year.y \in Nat /\ year.remaining \in Nat /\ Start(year.y) \in Nat /\ Start(1970) \in Nat
      /\ Start(year.y) + year.remaining = Start(1970) + clock.day
  BY <1>4, StartStep DEF DayOf, YearStates
<1>6. PICK month : month = MonthAndRest[[y |-> year.y, m |-> 1, remaining |-> year.remaining]]
  OBVIOUS
<1>7. /\ month.m \in 1..12 /\ month.remaining \in Nat
      /\ month.remaining < MonthDays(year.y)[month.m]
      /\ Before(year.y, month.m) + month.remaining = year.remaining
  BY <1>4, <1>5, <1>6, MonthLoopIs
<1>8. PICK y \in Nat, m \in 1..12 : y = year.y /\ m = month.m
  BY <1>5, <1>7
<1>9. PICK date : date = chrono_now_iso8601(clock)
  OBVIOUS
<1>10. /\ date.y = y /\ date.m = m /\ date.d = month.remaining + 1
       /\ date.hours = clock.second \div 3600
       /\ date.minutes = (clock.second % 3600) \div 60
       /\ date.seconds = clock.second % 60
  BY <1>2, <1>6, <1>8, <1>9 DEF chrono_now_iso8601
<1>11. PICK days : days = MonthDays(y)[m]
  OBVIOUS
<1>12. /\ days \in Nat /\ days <= 31 /\ month.remaining < days
       /\ Before(y, m) \in Nat /\ Before(y, m + 1) = Before(y, m) + days
  BY <1>7, <1>8, <1>11, MonthDaysAre, BeforeAddsUp
<1>13. /\ y >= 1970 /\ Start(y) \in Nat
       /\ Start(y) + Before(y, m) + month.remaining = Start(1970) + clock.day
  BY <1>4, <1>5, <1>7, <1>8, <1>12
<1>14. date.d \in 1..31 /\ DayNumber(y, m, date.d) = clock.day
  <2>1. date.d \in 1..31 /\ date.d \in Nat /\ date.d - 1 = month.remaining
    BY <1>7, <1>10, <1>12
  <2>2. DayNumber(y, m, date.d) = (Start(y) - Start(1970)) + Before(y, m) + (date.d - 1)
    BY <1>13, <2>1, DayNumberIs
  <2> QED BY <1>1, <1>5, <1>7, <1>12, <1>13, <2>1, <2>2
<1>15. m < 12 => DayNumber(y, m + 1, 1) > clock.day
  <2> HAVE m < 12
  <2>1. m + 1 \in 1..12 /\ 1 \in Nat
    OBVIOUS
  <2>2. DayNumber(y, m + 1, 1) = (Start(y) - Start(1970)) + Before(y, m + 1) + (1 - 1)
    BY <1>13, <2>1, DayNumberIs
  <2> QED BY <1>1, <1>5, <1>7, <1>12, <1>13, <2>2
<1>16. /\ date.hours \in 0..23 /\ date.minutes \in 0..59 /\ date.seconds \in 0..59
       /\ 3600 * date.hours + 60 * date.minutes + date.seconds = clock.second
  BY <1>1, <1>10, TimeIsRight
<1> QED BY <1>9, <1>10, <1>14, <1>15, <1>16 DEF IsDateOf

(* chrono_now_iso8601 of src/src/undo.rs gives the date of every clock, so a   *)
(* session says the date it started on.                                      *)
THEOREM StartsOnTheDate == Spec => []StartedIsTheDate
<1>1. StartedIsTheDate
  BY SessionAssumption, DateIsRight DEF StartedIsTheDate
<1> QED BY <1>1, PTL
=============================================================================
