------------------------------- MODULE Session --------------------------------
(***************************************************************************)
(* A supervisor process and its session directory: snapshots, network      *)
(* events and metadata (src/src/undo.rs, src/src/proxy.rs), with processes *)
(* that end at any moment and others that take the session up again.       *)
(***************************************************************************)
EXTENDS Snapshots, NetworkEvents, Calendar

CONSTANTS Clocks  \* what the clock may show when a session starts

ASSUME SessionAssumption == Clocks \subseteq Clock

sessionVars == <<snapshotVars, eventVars>>

-----------------------------------------------------------------------------
SessionInit == SnapshotsInit /\ EventsInit

(* Metadata is saved through the manager. *)
SaveSession ==
  /\ manager.open
  /\ SaveSessionMetadata
  /\ UNCHANGED snapshotVars

SnapshotsMove ==
  /\ SnapshotStep \/ DropManager \/ CommandWrites
  /\ UNCHANGED eventVars

EventsMove == EventStep /\ UNCHANGED snapshotVars

(* Exit or crash: the manager and what memory held go with the process. *)
SessionProcessEnds ==
  /\ ProcessEnds
  /\ manager' = Closed /\ answer' = NoAnswer
  /\ UNCHANGED <<files, manifests, taken, rebased>>

Next == SaveSession \/ SnapshotsMove \/ EventsMove \/ SessionProcessEnds

Spec == SessionInit /\ [][Next]_sessionVars

-----------------------------------------------------------------------------
SessionTypeOK == SnapshotsTypeOK /\ EventsTypeOK

(* The date a session says it started on is the date of that clock, to the  *)
(* second, in leap years, at the ends of years and over the centuries; said *)
(* where a first session has just been made, at any of the Clocks.          *)
StartedIsTheDate ==
  meta = NewMetadata /\ observed = 0 /\ taken = <<>> =>
    \A c \in Clocks : IsDateOf(chrono_now_iso8601(c), c)
=============================================================================
