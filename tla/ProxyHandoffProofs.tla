--------------------------- MODULE ProxyHandoffProofs ---------------------------
(***************************************************************************)
(* Theorems about clone-files and pidfd calls in one host process, for     *)
(* every number of calls of either kind and every descriptor table.  What  *)
(* CloneFilesBootstrapProofs proves of a clone-files call holds next to    *)
(* pidfd calls, and every call keeps the promise of ListenerHandoff.       *)
(***************************************************************************)
EXTENDS ProxyHandoff, CloneFilesBootstrapProofs

PidfdStep(e) ==
  /\ PidfdParentStep(e) \/ PidfdChildStep(e) \/ PidfdEvent(e)
  /\ UNCHANGED cloneVars

PidfdTypes ==
  /\ expired \in [Execs -> BOOLEAN]
  /\ result \in [Execs -> Results]
  /\ fallback \in [Execs -> BOOLEAN]

-----------------------------------------------------------------------------
(* Type correctness.                                                       *)

LEMMA PidfdParentTypeOK ==
  ASSUME TypeOK, PidfdTypes, NEW e \in Execs, UNCHANGED cloneVars,
         \/ ForkChild(e) \/ ForkFails(e) \/ DropChildEnd(e)
         \/ NothingToReceive(e) \/ PeerClosed(e) \/ ReceiveNumber(e)
         \/ LockToClone(e) \/ CloneFdFromChild(e) \/ CloneFdFails(e) \/ WriteAckByte(e)
         \/ StillRunning(e) \/ ChildExited(e) \/ DeadlinePasses(e) \/ AbortExecution(e)
         \/ FinishExecution(e)
  PROVE  TypeOK' /\ PidfdTypes'
<1> USE EntryTypes, ClosedType, CopyType, EmptyType, ForgetLocalsType
        DEF TypeOK, HostTypeOK, ExecTypeOK, PidfdTypes, Results, cloneVars, hostVars,
            pidfdVars, Move, ChildMove, CloseEnds, Return, ServiceReturns, AfterService
<1>1. CASE ForkChild(e)
  BY <1>1 DEF ForkChild, ParentPhases, ChildPhases, AlivePhases
<1>2. CASE ForkFails(e)
  BY <1>2 DEF ForkFails, ParentPhases
<1>3. CASE DropChildEnd(e)
  BY <1>3 DEF DropChildEnd, ParentPhases
<1>4. CASE NothingToReceive(e)
  BY <1>4 DEF NothingToReceive, ParentPhases
<1>5. CASE PeerClosed(e)
  BY <1>5 DEF PeerClosed, ParentPhases
<1>6. CASE ReceiveNumber(e)
  <2>1. Tail(toParent[e]) \in Seq(Messages)
    BY <1>6 DEF ReceiveNumber
  <2> QED
    BY <1>6, <2>1 DEF ReceiveNumber, ParentPhases
<1>7. CASE LockToClone(e)
  BY <1>7 DEF LockToClone, ParentPhases
<1>8. CASE CloneFdFromChild(e)
  <2>1. PICK p \in LowestFree(fdTable) : \E s \in LowestFreeExcept(fdTable, {p}) :
          /\ fdTable' = [fdTable EXCEPT ![s] = FileOf("listener", e)]
          /\ known' = [known EXCEPT ![e] = s]
    BY <1>8 DEF CloneFdFromChild
  <2>2. PICK s \in LowestFreeExcept(fdTable, {p}) :
          /\ fdTable' = [fdTable EXCEPT ![s] = FileOf("listener", e)]
          /\ known' = [known EXCEPT ![e] = s]
    BY <2>1
  <2>3. s \in Slots
    BY LowestFreeIsFree
  <2> QED
    BY <1>8, <2>2, <2>3 DEF CloneFdFromChild, ParentPhases, Kinds
<1>9. CASE CloneFdFails(e)
  BY <1>9 DEF CloneFdFails, ParentPhases
<1>10. CASE WriteAckByte(e)
  <2>1. OpenSomewhere(FileOf("child", e)) \in BOOLEAN
    BY DEF OpenSomewhere
  <2> QED
    BY <1>10, <2>1 DEF WriteAckByte, ParentPhases
<1>11. CASE StillRunning(e)
  BY <1>11 DEF StillRunning, ParentPhases
<1>12. CASE ChildExited(e)
  BY <1>12 DEF ChildExited, ParentPhases, ChildPhases
<1>13. CASE DeadlinePasses(e)
  BY <1>13 DEF DeadlinePasses, ParentPhases, ChildPhases
<1>14. CASE AbortExecution(e)
  BY <1>14 DEF AbortExecution, ParentPhases, ChildPhases
<1>15. CASE FinishExecution(e)
  BY <1>15 DEF FinishExecution, ParentPhases
<1> QED
  BY <1>1, <1>2, <1>3, <1>4, <1>5, <1>6, <1>7, <1>8, <1>9, <1>10, <1>11, <1>12,
     <1>13, <1>14, <1>15

LEMMA PidfdChildTypeOK ==
  ASSUME TypeOK, PidfdTypes, NEW e \in Execs, UNCHANGED cloneVars, PidfdChildStep(e)
  PROVE  TypeOK' /\ PidfdTypes'
<1> USE ClosedType, EmptyType
        DEF TypeOK, HostTypeOK, ExecTypeOK, PidfdTypes, cloneVars, hostVars, pidfdVars,
            ChildMove, ChildPhases, AlivePhases
<1>1. CASE SecureDescriptors(e)
  BY <1>1 DEF SecureDescriptors
<1>2. CASE SkipFilter(e) \/ InstallFilter(e)
  <2>1. CASE SkipFilter(e)
    BY <2>1 DEF SkipFilter
  <2>2. CASE InstallFilter(e)
    BY <2>2 DEF InstallFilter
  <2> QED
    BY <1>2, <2>1, <2>2
<1>3. CASE AnnounceNumber(e)
  <2>1. [kind |-> "LISTENER", slot |-> NoSlot] \in Messages
    BY DEF Messages
  <2>2. toParent' \in [Execs -> Seq(Messages)]
    BY <1>3, <2>1, WriteType DEF AnnounceNumber
  <2> QED
    BY <1>3, <2>2 DEF AnnounceNumber
<1>4. CASE AwaitAck(e)
  BY <1>4 DEF AwaitAck
<1>5. CASE ExecTarget(e)
  BY <1>5 DEF ExecTarget
<1> QED
  BY <1>1, <1>2, <1>3, <1>4, <1>5 DEF PidfdChildStep

LEMMA PidfdStepTypeOK ==
  ASSUME TypeOK, PidfdTypes, NEW e \in Execs, PidfdStep(e)
  PROVE  TypeOK' /\ PidfdTypes'
<1>1. CASE /\ Prepare(e) \/ LockToCloseListener(e) \/ CloseListener(e) \/ ChildDies(e)
           /\ UNCHANGED pidfdVars
  BY <1>1, SharedStepTypeOK DEF PidfdStep, PidfdTypes, pidfdVars
<1> QED
  BY <1>1, PidfdParentTypeOK, PidfdChildTypeOK
  DEF PidfdStep, PidfdParentStep, PidfdEvent

-----------------------------------------------------------------------------
(***************************************************************************)
(* The inductive invariant: IInv for the clone-files calls, and what       *)
(* follows for a pidfd call, whose listener is born in the child's own     *)
(* table and reaches the host's under the mutex.                           *)
(***************************************************************************)

Unforked == {"idle", "paired", "prepared", "failed"}
Serving == {"forked", "service", "cloneLock", "clone", "writeAck", "wait", "abort"}
Over == {"finish", "dropNotify", "closeNotify", "done"}

\* How far parent and child can be from each other, and when there is a result.
ProgressInv(p) ==
  /\ pc[p] \in Unforked \cup Serving \cup Over
  /\ cpc[p] \in {"none", "forked", "secured", "filtered", "announced", "acked", "scrubbed",
                 "target", "dead", "reaped"}
  /\ cpc[p] = "none" <=> pc[p] \in Unforked
  /\ expired[p] \/ pc[p] \in Over => cpc[p] = "reaped"
  /\ pc[p] = "writeAck" => ~expired[p]
  /\ result[p] # "none" <=> pc[p] \in Over

\* What the parent owns; the mutex is its own while it clones or closes.
OwnershipInv(p) ==
  /\ Accounts(p)
  /\ pc[p] \in {"idle", "failed", "dropNotify", "closeNotify", "done"} => held[p] = {}
  /\ pc[p] = "paired" => held[p] = {"sup", "child"}
  /\ pc[p] \in {"prepared", "forked"} => held[p] = Ends
  /\ bootstrapMutex = p <=> pc[p] \in {"clone", "closeNotify"}

\* The host has the listener from the cloning to the close, under the number the
\* parent knows, and no program that needs it runs without it.
AdoptedInv(p) ==
  /\ \A s \in Slots : HasListener(p, s) <=> s = known[p]
  /\ known[p] # NoSlot =>
       /\ known[p] \in Slots
       /\ cpc[p] \in {"announced", "acked", "target", "dead", "reaped"}
       /\ "sup" \in held[p] => pc[p] = "writeAck"
  /\ pc[p] \in Unforked \cup {"forked", "cloneLock", "clone", "done"} => known[p] = NoSlot
  /\ pc[p] \in {"writeAck", "dropNotify", "closeNotify"} => known[p] # NoSlot
  /\ ack[p] => known[p] # NoSlot /\ pc[p] # "writeAck"
  /\ cpc[p] = "acked" => ack[p]
  /\ cpc[p] = "target" => ack[p] \/ ~fallback[p]
  /\ cpc[p] \in {"filtered", "announced"} => fallback[p]
  /\ cpc[p] = "scrubbed" => ~fallback[p]

\* Until the child has announced its number it can.
ChildEndInv(p) ==
  cpc[p] \in {"forked", "secured", "filtered"} =>
    /\ fds[p]["child"] \in Slots
    /\ childTable[p][fds[p]["child"]] = FileOf("child", p)

PidfdInv(p) == ProgressInv(p) /\ OwnershipInv(p) /\ AdoptedInv(p) /\ ChildEndInv(p)

\* No copy of the table has a listener that anybody could see.
CopiesInv == \A e \in Execs : \A s \in Slots : childTable[e][s].kind # "listener"

HandoffsInv ==
  /\ IInv
  /\ PidfdTypes
  /\ \A p \in PidfdExecs : PidfdInv(p)
  /\ \A e \in CloneExecs : fallback[e]
  /\ CopiesInv

-----------------------------------------------------------------------------
(* Frames: what a step of one call leaves alone.                           *)

\* The result of f and its deadline.
PidfdKept(f) ==
  expired'[f] = expired[f] /\ result'[f] = result[f] /\ fallback'[f] = fallback[f]

\* The mutex stays, or e takes it, or e gives it back.
MutexMove(e) ==
  \/ bootstrapMutex' = bootstrapMutex
  \/ bootstrapMutex = NoExec /\ bootstrapMutex' = e
  \/ bootstrapMutex = e /\ bootstrapMutex' = NoExec

\* What all others may rely on in a step of e.
SharedFrame(e) ==
  /\ VarsStep(e) /\ TableStep(e) /\ MutexMove(e)
  /\ \A f \in Execs \ {e} : PidfdKept(f)
  /\ fallback' = fallback

\* A step that leaves the variables and the entries of p alone preserves what
\* the invariant says of p.
LEMMA PidfdFrame ==
  ASSUME NEW p \in Execs, VarsKept(p), EntriesKept(p), PidfdKept(p), PidfdInv(p),
         bootstrapMutex' = p <=> bootstrapMutex = p
  PROVE  PidfdInv(p)'
<1>1. ProgressInv(p)'
  BY DEF PidfdInv, ProgressInv, VarsKept, PidfdKept
<1>2. Accounts(p)'
  BY FileOfFields DEF PidfdInv, OwnershipInv, Accounts, VarsKept, EntriesKept
<1>3. OwnershipInv(p)'
  BY <1>2 DEF PidfdInv, OwnershipInv, VarsKept
<1>4. \A s \in Slots : HasListener(p, s)' <=> HasListener(p, s)
  BY DEF HasListener, EntriesKept
<1>5. AdoptedInv(p)'
  BY <1>4 DEF PidfdInv, AdoptedInv, VarsKept, PidfdKept
<1>6. ChildEndInv(p)'
  BY DEF PidfdInv, ChildEndInv, VarsKept
<1> QED
  BY <1>1, <1>3, <1>5, <1>6 DEF PidfdInv

LEMMA OthersKept ==
  ASSUME NEW e \in Execs, SharedFrame(e), NEW f \in Execs, f # e
  PROVE  /\ VarsKept(f) /\ EntriesKept(f) /\ PidfdKept(f)
         /\ bootstrapMutex' = f <=> bootstrapMutex = f
<1>1. VarsKept(f) /\ PidfdKept(f)
  BY DEF SharedFrame, VarsStep
<1>2. EntriesKept(f)
  BY FreeIsNobodys DEF SharedFrame, TableStep, EntriesKept
<1>3. bootstrapMutex' = f <=> bootstrapMutex = f
  BY HostAssumption DEF SharedFrame, MutexMove
<1> QED
  BY <1>1, <1>2, <1>3

\* A step of any call, for the pidfd calls that do not take it ...
LEMMA OtherPidfdKept ==
  ASSUME NEW e \in Execs, SharedFrame(e), NEW f \in Execs, f # e, PidfdInv(f)
  PROVE  PidfdInv(f)'
BY OthersKept, PidfdFrame

\* ... and a step of a pidfd call, for the clone-files calls.
LEMMA ClonesKept ==
  ASSUME IInv, NEW e \in Execs, e \notin CloneExecs, TypeOK', SharedFrame(e),
         ListenersStep(e)
  PROVE  IInv'
<1>1. ASSUME NEW f \in Execs, f \in CloneExecs
      PROVE  LocalInv(f)' /\ SnapshotInv(f)' /\ (bootstrapMutex' = f <=> pc'[f] \in Holding)
  <2>1. f # e
    BY <1>1
  <2>2. VarsKept(f) /\ EntriesKept(f) /\ (bootstrapMutex' = f <=> bootstrapMutex = f)
    BY <2>1, OthersKept
  <2>3. LocalInv(f) /\ SnapshotInv(f) /\ (bootstrapMutex = f <=> pc[f] \in Holding)
    BY <1>1 DEF IInv, MutexInv
  <2>4. pc[f] \in Critical => ListenersKept
    BY <2>1, <2>3 DEF Holding, ListenersStep
  <2> QED
    BY <2>2, <2>3, <2>4, LocalFrame, SnapshotFrame DEF VarsKept
<1> QED
  BY <1>1, CloneAssumption DEF IInv, MutexInv

\* A step of a pidfd call preserves the invariant if it keeps to its frame and
\* preserves what the invariant says of the call.
LEMMA PidfdStepPreserves ==
  ASSUME HandoffsInv, NEW e \in Execs, e \in PidfdExecs, PidfdStep(e),
         SharedFrame(e), ListenersStep(e), PidfdInv(e)', CopiesInv'
  PROVE  HandoffsInv' /\ SharedFrame(e)
<1>1. TypeOK' /\ PidfdTypes'
  BY PidfdStepTypeOK DEF HandoffsInv, IInv
<1>2. IInv'
  BY <1>1, ClonesKept, HandoffsPartition DEF HandoffsInv
<1>3. \A p \in PidfdExecs : PidfdInv(p)'
  BY OtherPidfdKept, PidfdAssumption DEF HandoffsInv
<1>4. \A c \in CloneExecs : fallback'[c]
  BY DEF HandoffsInv, SharedFrame
<1> QED
  BY <1>1, <1>2, <1>3, <1>4 DEF HandoffsInv

-----------------------------------------------------------------------------
(* A step of a pidfd call leaves the variables of every other call alone.  *)

\* The invariant, unpacked for the pidfd call that takes a step.
LEMMA PidfdFacts ==
  ASSUME HandoffsInv, NEW e \in Execs, e \in PidfdExecs
  PROVE  /\ TypeOK /\ PidfdTypes /\ CopiesInv /\ ProgressInv(e) /\ OwnershipInv(e)
         /\ Accounts(e) /\ AdoptedInv(e) /\ ChildEndInv(e)
BY DEF HandoffsInv, IInv, PidfdInv, OwnershipInv

LEMMA PidfdVars ==
  ASSUME HandoffsInv, NEW e \in Execs, e \in PidfdExecs, PidfdStep(e)
  PROVE  VarsStep(e) /\ fallback' = fallback /\ \A f \in Execs \ {e} : PidfdKept(f)
<1>0. fallback' = fallback
  BY DEF PidfdStep, PidfdParentStep, PidfdChildStep, PidfdEvent, pidfdVars, ForkChild,
         ForkFails, DropChildEnd, NothingToReceive, PeerClosed, ReceiveNumber, LockToClone,
         CloneFdFromChild, CloneFdFails, WriteAckByte, StillRunning, ChildExited,
         DeadlinePasses, AbortExecution, FinishExecution, SecureDescriptors, SkipFilter,
         InstallFilter, AnnounceNumber, AwaitAck, ExecTarget
<1> SUFFICES ASSUME NEW f \in Execs \ {e} PROVE VarsKept(f) /\ PidfdKept(f)
  BY <1>0 DEF VarsStep
<1> USE DEF VarsKept, PidfdKept, Move, ChildMove, CloseEnds, ForgetLocals, ServiceReturns,
            Return, cloneVars, hostVars, pidfdVars
<1>1. TypeOK /\ PidfdTypes /\ ChildEndInv(e)
  BY PidfdFacts
<1> USE <1>1 DEF TypeOK, HostTypeOK, ExecTypeOK, PidfdTypes
<1>2. UNCHANGED cloneVars
  BY DEF PidfdStep
<1>3. CASE Prepare(e) /\ UNCHANGED pidfdVars
  BY <1>2, <1>3 DEF Prepare, CreatePair, CreatePipes, PreparationFails
<1>4. CASE ForkChild(e) \/ ForkFails(e) \/ DropChildEnd(e)
  BY <1>2, <1>4 DEF ForkChild, ForkFails, DropChildEnd
<1>5. CASE NothingToReceive(e) \/ PeerClosed(e) \/ ReceiveNumber(e)
  BY <1>2, <1>5 DEF NothingToReceive, PeerClosed, ReceiveNumber
<1>6. CASE LockToClone(e) \/ CloneFdFromChild(e) \/ CloneFdFails(e) \/ WriteAckByte(e)
  BY <1>2, <1>6 DEF LockToClone, CloneFdFromChild, CloneFdFails, WriteAckByte
<1>7. CASE StillRunning(e) \/ ChildExited(e) \/ DeadlinePasses(e)
  BY <1>2, <1>7 DEF StillRunning, ChildExited, DeadlinePasses
<1>8. CASE AbortExecution(e) \/ FinishExecution(e)
  BY <1>2, <1>8 DEF AbortExecution, FinishExecution
<1>9. CASE (LockToCloseListener(e) \/ CloseListener(e) \/ ChildDies(e)) /\ UNCHANGED pidfdVars
  BY <1>2, <1>9 DEF LockToCloseListener, CloseListener, ChildDies
<1>10. CASE SecureDescriptors(e) \/ SkipFilter(e) \/ InstallFilter(e) \/ AwaitAck(e)
            \/ ExecTarget(e)
  BY <1>2, <1>10 DEF SecureDescriptors, SkipFilter, InstallFilter, AwaitAck, ExecTarget
<1>11. CASE AnnounceNumber(e)
  <2>1. childTable[e][fds[e]["child"]].owner = e
    BY <1>11, FileOfFields DEF AnnounceNumber, ChildEndInv
  <2> QED
    BY <1>2, <1>11, <2>1 DEF AnnounceNumber, Write
<1> QED
  BY <1>3, <1>4, <1>5, <1>6, <1>7, <1>8, <1>9, <1>10, <1>11
  DEF PidfdStep, PidfdParentStep, PidfdChildStep, PidfdEvent

\* A private table never shows a listener.
LEMMA CopiesHaveNone ==
  ASSUME NEW table, NEW S, NEW s \in Slots
  PROVE  /\ CopyFor(table)[s].kind # "listener"
         /\ EmptyTable[s].kind # "listener"
         /\ table[s].kind # "listener" => Closed(table, S)[s].kind # "listener"
BY DEF CopyFor, EmptyTable, Closed, Free

LEMMA PidfdCopies ==
  ASSUME HandoffsInv, NEW e \in Execs, e \in PidfdExecs, PidfdStep(e)
  PROVE  CopiesInv'
<1>1. TypeOK /\ CopiesInv /\ childTable \in [Execs -> [Slots -> Entries]]
  BY PidfdFacts DEF TypeOK, HostTypeOK
<1>2. CASE UNCHANGED childTable
  BY <1>1, <1>2 DEF CopiesInv
<1>3. ASSUME NEW T, childTable' = [childTable EXCEPT ![e] = T],
             \A s \in Slots : T[s].kind # "listener"
      PROVE  CopiesInv'
  BY <1>1, <1>3 DEF CopiesInv
<1>4. CASE ForkChild(e)
  BY <1>3, <1>4, CopiesHaveNone DEF ForkChild
<1>5. CASE SecureDescriptors(e)
  <2>1. childTable' = [childTable EXCEPT ![e] =
                         Closed(childTable[e], Slots \ {fds[e]["child"]})]
    BY <1>1, <1>5 DEF SecureDescriptors
  <2> QED
    BY <1>1, <1>3, <2>1, CopiesHaveNone DEF CopiesInv
<1>6. CASE DeadlinePasses(e) \/ AbortExecution(e) \/ SkipFilter(e) \/ AwaitAck(e)
           \/ ChildDies(e)
  BY <1>3, <1>6, CopiesHaveNone
  DEF DeadlinePasses, AbortExecution, SkipFilter, AwaitAck, ChildDies
<1> QED
  BY <1>2, <1>4, <1>5, <1>6
  DEF PidfdStep, PidfdParentStep, PidfdChildStep, PidfdEvent, Prepare, CreatePair, CreatePipes,
      PreparationFails, ForkFails, DropChildEnd, NothingToReceive, PeerClosed, ReceiveNumber,
      LockToClone, CloneFdFromChild, CloneFdFails, WriteAckByte, StillRunning, ChildExited,
      FinishExecution, LockToCloseListener, CloseListener, InstallFilter, AnnounceNumber,
      ExecTarget, hostVars

-----------------------------------------------------------------------------
(* The steps that leave the host's table alone.                            *)

\* What such a step has to show of its own call.
LEMMA QuietPidfd ==
  ASSUME HandoffsInv, NEW e \in Execs, e \in PidfdExecs, PidfdStep(e),
         UNCHANGED <<fdTable, fds, held, known>>, MutexMove(e), ProgressInv(e)',
         bootstrapMutex' = e <=> pc'[e] \in {"clone", "closeNotify"},
         pc'[e] \in {"dropNotify", "closeNotify", "done", "idle", "failed"} => held[e] = {},
         pc'[e] = "paired" => held[e] = {"sup", "child"},
         pc'[e] \in {"prepared", "forked"} => held[e] = Ends,
         known[e] # NoSlot => /\ cpc'[e] \in {"announced", "acked", "target", "dead", "reaped"}
                              /\ "sup" \in held[e] => pc'[e] = "writeAck",
         pc'[e] \in Unforked \cup {"forked", "cloneLock", "clone", "done"} => known[e] = NoSlot,
         pc'[e] \in {"writeAck", "dropNotify", "closeNotify"} => known[e] # NoSlot,
         ack'[e] => known[e] # NoSlot /\ pc'[e] # "writeAck",
         cpc'[e] = "acked" => ack'[e],
         cpc'[e] = "target" => ack'[e] \/ ~fallback[e],
         cpc'[e] \in {"filtered", "announced"} => fallback[e],
         cpc'[e] = "scrubbed" => ~fallback[e],
         ChildEndInv(e)'
  PROVE  HandoffsInv' /\ SharedFrame(e)
<1>1. /\ TableStep(e) /\ ListenersStep(e)
      /\ Accounts(e) /\ fds'[e] = fds[e] /\ held'[e] = held[e] => Accounts(e)'
      /\ \A s \in Slots : HasListener(e, s)' <=> HasListener(e, s)
  BY QuietFrame
<1>2. Accounts(e) /\ OwnershipInv(e) /\ AdoptedInv(e)
  BY PidfdFacts
<1>3. OwnershipInv(e)'
  BY <1>1, <1>2 DEF OwnershipInv
<1>4. AdoptedInv(e)'
  BY <1>1, <1>2, PidfdVars DEF AdoptedInv
<1>5. SharedFrame(e)
  BY <1>1, PidfdVars DEF SharedFrame
<1> QED
  BY <1>1, <1>3, <1>4, <1>5, PidfdCopies, PidfdStepPreserves DEF PidfdInv

LEMMA QuietPidfdPreserves ==
  ASSUME HandoffsInv, NEW e \in Execs, e \in PidfdExecs, PidfdStep(e),
         \/ ForkChild(e) \/ NothingToReceive(e) \/ ReceiveNumber(e) \/ LockToClone(e)
         \/ StillRunning(e) \/ ChildExited(e) \/ DeadlinePasses(e) \/ AbortExecution(e)
         \/ SecureDescriptors(e) \/ SkipFilter(e) \/ InstallFilter(e) \/ AnnounceNumber(e)
         \/ AwaitAck(e) \/ ExecTarget(e)
         \/ (LockToCloseListener(e) \/ ChildDies(e)) /\ UNCHANGED pidfdVars
  PROVE  HandoffsInv' /\ SharedFrame(e)
<1> USE DEF Move, ChildMove, ServiceReturns, AfterService, Return, cloneVars, hostVars, pidfdVars,
            MutexMove
<1>1. /\ TypeOK /\ PidfdTypes /\ ProgressInv(e) /\ OwnershipInv(e) /\ Accounts(e)
      /\ AdoptedInv(e) /\ ChildEndInv(e)
  BY PidfdFacts
<1>2. /\ pc \in [Execs -> ParentPhases] /\ cpc \in [Execs -> ChildPhases]
      /\ ack \in [Execs -> BOOLEAN] /\ childTable \in [Execs -> [Slots -> Entries]]
      /\ fdTable \in [Slots -> Entries]
      /\ expired \in [Execs -> BOOLEAN] /\ result \in [Execs -> Results]
  BY <1>1 DEF TypeOK, HostTypeOK, ExecTypeOK, PidfdTypes
<1> USE DEF Unforked, Serving, Over
<1>3. CASE ForkChild(e)
  <2>1. ProgressInv(e)'
    BY <1>1, <1>2, <1>3 DEF ForkChild, ProgressInv, AlivePhases, SharingPhases
  <2>2. ChildEndInv(e)'
    <3>1. fds[e]["child"] \in Slots /\ fdTable[fds[e]["child"]] = FileOf("child", e)
      BY <1>1, <1>3 DEF ForkChild, OwnershipInv, Accounts, Ends
    <3>2. fds'[e] = fds[e] /\ childTable'[e] = CopyFor(fdTable)
      BY <1>2, <1>3 DEF ForkChild
    <3> QED
      BY <3>1, <3>2, FileOfFields DEF ChildEndInv, CopyFor
  <2> QED
    BY <1>1, <1>2, <1>3, <2>1, <2>2, QuietPidfd, HostAssumption
    DEF ForkChild, ProgressInv, OwnershipInv, AdoptedInv
<1>4. CASE NothingToReceive(e)
  <2>1. ProgressInv(e)'
    BY <1>1, <1>2, <1>4 DEF NothingToReceive, ProgressInv, AlivePhases, SharingPhases
  <2>2. ChildEndInv(e)'
    BY <1>1, <1>2, <1>4 DEF NothingToReceive, ChildEndInv
  <2> QED
    BY <1>1, <1>2, <1>4, <2>1, <2>2, QuietPidfd, HostAssumption
    DEF NothingToReceive, ProgressInv, OwnershipInv, AdoptedInv
<1>5. CASE ReceiveNumber(e)
  <2>1. ProgressInv(e)'
    BY <1>1, <1>2, <1>5 DEF ReceiveNumber, ProgressInv, AlivePhases, SharingPhases
  <2>2. ChildEndInv(e)'
    BY <1>1, <1>2, <1>5 DEF ReceiveNumber, ChildEndInv
  <2> QED
    BY <1>1, <1>2, <1>5, <2>1, <2>2, QuietPidfd, HostAssumption
    DEF ReceiveNumber, ProgressInv, OwnershipInv, AdoptedInv
<1>6. CASE LockToClone(e)
  <2>1. ProgressInv(e)'
    BY <1>1, <1>2, <1>6 DEF LockToClone, ProgressInv, AlivePhases, SharingPhases
  <2>2. ChildEndInv(e)'
    BY <1>1, <1>2, <1>6 DEF LockToClone, ChildEndInv
  <2> QED
    BY <1>1, <1>2, <1>6, <2>1, <2>2, QuietPidfd, HostAssumption
    DEF LockToClone, ProgressInv, OwnershipInv, AdoptedInv
<1>7. CASE StillRunning(e)
  <2>1. ProgressInv(e)'
    BY <1>1, <1>2, <1>7 DEF StillRunning, ProgressInv, AlivePhases, SharingPhases
  <2>2. ChildEndInv(e)'
    BY <1>1, <1>2, <1>7 DEF StillRunning, ChildEndInv
  <2> QED
    BY <1>1, <1>2, <1>7, <2>1, <2>2, QuietPidfd, HostAssumption
    DEF StillRunning, ProgressInv, OwnershipInv, AdoptedInv
<1>8. CASE ChildExited(e)
  <2>1. ProgressInv(e)'
    BY <1>1, <1>2, <1>8 DEF ChildExited, ProgressInv, AlivePhases, SharingPhases
  <2>2. ChildEndInv(e)'
    BY <1>1, <1>2, <1>8 DEF ChildExited, ChildEndInv
  <2> QED
    BY <1>1, <1>2, <1>8, <2>1, <2>2, QuietPidfd, HostAssumption
    DEF ChildExited, ProgressInv, OwnershipInv, AdoptedInv
<1>9. CASE DeadlinePasses(e)
  <2>1. ProgressInv(e)'
    BY <1>1, <1>2, <1>9 DEF DeadlinePasses, ProgressInv, AlivePhases, SharingPhases
  <2>2. ChildEndInv(e)'
    BY <1>1, <1>2, <1>9 DEF DeadlinePasses, ChildEndInv
  <2> QED
    BY <1>1, <1>2, <1>9, <2>1, <2>2, QuietPidfd, HostAssumption
    DEF DeadlinePasses, ProgressInv, OwnershipInv, AdoptedInv
<1>10. CASE AbortExecution(e)
  <2>1. ProgressInv(e)'
    BY <1>1, <1>2, <1>10 DEF AbortExecution, ProgressInv, AlivePhases, SharingPhases
  <2>2. ChildEndInv(e)'
    BY <1>1, <1>2, <1>10 DEF AbortExecution, ChildEndInv
  <2> QED
    BY <1>1, <1>2, <1>10, <2>1, <2>2, QuietPidfd, HostAssumption
    DEF AbortExecution, ProgressInv, OwnershipInv, AdoptedInv
<1>11. CASE SecureDescriptors(e)
  <2>1. ProgressInv(e)'
    BY <1>1, <1>2, <1>11 DEF SecureDescriptors, ProgressInv, AlivePhases, SharingPhases
  <2>2. ChildEndInv(e)'
    <3>1. /\ fds[e]["child"] \in Slots
          /\ childTable[e][fds[e]["child"]] = FileOf("child", e)
      BY <1>1, <1>11 DEF SecureDescriptors, ChildEndInv
    <3>2. /\ fds'[e] = fds[e]
          /\ childTable'[e] = Closed(childTable[e], Slots \ {fds[e]["child"]})
      BY <1>2, <1>11 DEF SecureDescriptors
    <3> QED
      BY <3>1, <3>2 DEF ChildEndInv, Closed
  <2> QED
    BY <1>1, <1>2, <1>11, <2>1, <2>2, QuietPidfd, HostAssumption
    DEF SecureDescriptors, ProgressInv, OwnershipInv, AdoptedInv
<1>12. CASE InstallFilter(e)
  <2>1. ProgressInv(e)'
    BY <1>1, <1>2, <1>12 DEF InstallFilter, ProgressInv, AlivePhases, SharingPhases
  <2>2. ChildEndInv(e)'
    BY <1>1, <1>2, <1>12 DEF InstallFilter, ChildEndInv
  <2> QED
    BY <1>1, <1>2, <1>12, <2>1, <2>2, QuietPidfd, HostAssumption
    DEF InstallFilter, ProgressInv, OwnershipInv, AdoptedInv
<1>13. CASE AnnounceNumber(e)
  <2>1. ProgressInv(e)'
    BY <1>1, <1>2, <1>13 DEF AnnounceNumber, ProgressInv, AlivePhases, SharingPhases
  <2>2. ChildEndInv(e)'
    BY <1>1, <1>2, <1>13 DEF AnnounceNumber, ChildEndInv
  <2> QED
    BY <1>1, <1>2, <1>13, <2>1, <2>2, QuietPidfd, HostAssumption
    DEF AnnounceNumber, ProgressInv, OwnershipInv, AdoptedInv
<1>14. CASE AwaitAck(e)
  <2>1. ProgressInv(e)'
    BY <1>1, <1>2, <1>14 DEF AwaitAck, ProgressInv, AlivePhases, SharingPhases
  <2>2. ChildEndInv(e)'
    BY <1>1, <1>2, <1>14 DEF AwaitAck, ChildEndInv
  <2> QED
    BY <1>1, <1>2, <1>14, <2>1, <2>2, QuietPidfd, HostAssumption
    DEF AwaitAck, ProgressInv, OwnershipInv, AdoptedInv
<1>15. CASE ExecTarget(e)
  <2>1. ProgressInv(e)'
    BY <1>1, <1>2, <1>15 DEF ExecTarget, ProgressInv, AlivePhases, SharingPhases
  <2>2. ChildEndInv(e)'
    BY <1>1, <1>2, <1>15 DEF ExecTarget, ChildEndInv
  <2> QED
    BY <1>1, <1>2, <1>15, <2>1, <2>2, QuietPidfd, HostAssumption
    DEF ExecTarget, ProgressInv, OwnershipInv, AdoptedInv
<1>16. CASE LockToCloseListener(e) /\ UNCHANGED pidfdVars
  <2>1. ProgressInv(e)'
    BY <1>1, <1>2, <1>16 DEF LockToCloseListener, ProgressInv, AlivePhases, SharingPhases
  <2>2. ChildEndInv(e)'
    BY <1>1, <1>2, <1>16 DEF LockToCloseListener, ChildEndInv
  <2> QED
    BY <1>1, <1>2, <1>16, <2>1, <2>2, QuietPidfd, HostAssumption
    DEF LockToCloseListener, ProgressInv, OwnershipInv, AdoptedInv
<1>17. CASE ChildDies(e) /\ UNCHANGED pidfdVars
  <2>1. ProgressInv(e)'
    BY <1>1, <1>2, <1>17 DEF ChildDies, ProgressInv, AlivePhases, SharingPhases
  <2>2. ChildEndInv(e)'
    BY <1>1, <1>2, <1>17 DEF ChildDies, ChildEndInv
  <2> QED
    BY <1>1, <1>2, <1>17, <2>1, <2>2, QuietPidfd, HostAssumption
    DEF ChildDies, ProgressInv, OwnershipInv, AdoptedInv
<1>18. CASE SkipFilter(e)
  <2>1. ProgressInv(e)'
    BY <1>1, <1>2, <1>18 DEF SkipFilter, ProgressInv, AlivePhases, SharingPhases
  <2>2. ChildEndInv(e)'
    BY <1>1, <1>2, <1>18 DEF SkipFilter, ChildEndInv
  <2> QED
    BY <1>1, <1>2, <1>18, <2>1, <2>2, QuietPidfd, HostAssumption
    DEF SkipFilter, ProgressInv, OwnershipInv, AdoptedInv
<1> QED
  BY <1>3, <1>4, <1>5, <1>6, <1>7, <1>8, <1>9, <1>10, <1>11, <1>12, <1>13, <1>14, <1>15,
     <1>16, <1>17, <1>18

-----------------------------------------------------------------------------
(* The steps that close ends the call owns.                                *)

LEMMA ClosingPidfd ==
  ASSUME HandoffsInv, NEW e \in Execs, e \in PidfdExecs, PidfdStep(e), NEW K,
         fdTable' = Closed(fdTable, HeldSlots(e, K)), held'[e] = held[e] \ K,
         fds'[e] = fds[e] \/ held'[e] = {}, known'[e] = known[e],
         MutexMove(e), ProgressInv(e)',
         bootstrapMutex' = e <=> pc'[e] \in {"clone", "closeNotify"},
         pc'[e] \notin {"idle", "paired", "prepared", "forked"},
         pc'[e] \in {"failed", "dropNotify", "closeNotify", "done"} => held'[e] = {},
         known[e] # NoSlot => /\ cpc'[e] \in {"announced", "acked", "target", "dead", "reaped"}
                              /\ "sup" \in held'[e] => pc'[e] = "writeAck",
         pc'[e] \in Unforked \cup {"forked", "cloneLock", "clone", "done"} => known[e] = NoSlot,
         pc'[e] \in {"writeAck", "dropNotify", "closeNotify"} => known[e] # NoSlot,
         ack'[e] => known[e] # NoSlot /\ pc'[e] # "writeAck",
         cpc'[e] = "acked" => ack'[e],
         cpc'[e] = "target" => ack'[e] \/ ~fallback[e],
         cpc'[e] \in {"filtered", "announced"} => fallback[e],
         cpc'[e] = "scrubbed" => ~fallback[e],
         ChildEndInv(e)'
  PROVE  HandoffsInv' /\ SharedFrame(e)
<1>1. TypeOK /\ Accounts(e) /\ OwnershipInv(e) /\ AdoptedInv(e)
  BY PidfdFacts
<1>2. /\ TableStep(e) /\ ListenersStep(e) /\ Accounts(e)'
      /\ \A s \in Slots : HasListener(e, s)' <=> HasListener(e, s)
  BY <1>1, CloseHeldFrame
<1>3. OwnershipInv(e)'
  BY <1>1, <1>2 DEF OwnershipInv
<1>4. AdoptedInv(e)'
  BY <1>1, <1>2, PidfdVars DEF AdoptedInv
<1>5. SharedFrame(e)
  BY <1>2, PidfdVars DEF SharedFrame
<1> QED
  BY <1>2, <1>3, <1>4, <1>5, PidfdCopies, PidfdStepPreserves DEF PidfdInv

LEMMA ClosingPidfdPreserves ==
  ASSUME HandoffsInv, NEW e \in Execs, e \in PidfdExecs, PidfdStep(e),
         \/ PreparationFails(e) /\ UNCHANGED pidfdVars
         \/ ForkFails(e) \/ DropChildEnd(e) \/ PeerClosed(e) \/ CloneFdFails(e)
         \/ WriteAckByte(e) \/ FinishExecution(e)
  PROVE  HandoffsInv' /\ SharedFrame(e)
<1> USE DEF Move, CloseEnds, ForgetLocals, ServiceReturns, AfterService, cloneVars, hostVars,
            pidfdVars, MutexMove
<1>1. /\ TypeOK /\ PidfdTypes /\ ProgressInv(e) /\ OwnershipInv(e) /\ Accounts(e)
      /\ AdoptedInv(e) /\ ChildEndInv(e)
  BY PidfdFacts
<1>2. /\ pc \in [Execs -> ParentPhases] /\ cpc \in [Execs -> ChildPhases]
      /\ fds \in [Execs -> [Ends -> Slots \cup {NoSlot}]] /\ held \in [Execs -> SUBSET Ends]
      /\ known \in [Execs -> Slots \cup {NoSlot}] /\ ack \in [Execs -> BOOLEAN]
      /\ expired \in [Execs -> BOOLEAN] /\ result \in [Execs -> Results]
  BY <1>1 DEF TypeOK, HostTypeOK, ExecTypeOK, PidfdTypes
<1> USE DEF Unforked, Serving, Over
<1>3. CASE PreparationFails(e) /\ UNCHANGED pidfdVars
  <2>1. ProgressInv(e)'
    BY <1>1, <1>2, <1>3 DEF PreparationFails, ProgressInv
  <2>2. ChildEndInv(e)'
    BY <1>1, <1>2, <1>3 DEF PreparationFails, ChildEndInv, ProgressInv
  <2>3. fdTable' = Closed(fdTable, HeldSlots(e, Ends)) /\ held'[e] = held[e] \ Ends
    BY <1>2, <1>3 DEF PreparationFails
  <2>4. fds'[e] = fds[e] \/ held'[e] = {}
    BY <1>2, <1>3 DEF PreparationFails
  <2>5. known'[e] = known[e]
    BY <1>1, <1>2, <1>3 DEF PreparationFails, AdoptedInv
  <2> QED
    BY <1>1, <1>2, <1>3, <2>1, <2>2, <2>3, <2>4, <2>5, ClosingPidfd, HostAssumption
    DEF PreparationFails, ProgressInv, OwnershipInv, AdoptedInv
<1>4. CASE ForkFails(e)
  <2>1. ProgressInv(e)'
    BY <1>1, <1>2, <1>4 DEF ForkFails, ProgressInv
  <2>2. ChildEndInv(e)'
    BY <1>1, <1>2, <1>4 DEF ForkFails, ChildEndInv, ProgressInv
  <2>3. fdTable' = Closed(fdTable, HeldSlots(e, Ends)) /\ held'[e] = held[e] \ Ends
    BY <1>2, <1>4 DEF ForkFails
  <2>4. fds'[e] = fds[e] \/ held'[e] = {}
    BY <1>2, <1>4 DEF ForkFails
  <2>5. known'[e] = known[e]
    BY <1>1, <1>2, <1>4 DEF ForkFails, AdoptedInv
  <2> QED
    BY <1>1, <1>2, <1>4, <2>1, <2>2, <2>3, <2>4, <2>5, ClosingPidfd, HostAssumption
    DEF ForkFails, ProgressInv, OwnershipInv, AdoptedInv
<1>5. CASE DropChildEnd(e)
  <2>1. ProgressInv(e)'
    BY <1>1, <1>2, <1>5 DEF DropChildEnd, ProgressInv
  <2>2. ChildEndInv(e)'
    BY <1>1, <1>2, <1>5 DEF DropChildEnd, ChildEndInv, ProgressInv
  <2>3. fdTable' = Closed(fdTable, HeldSlots(e, {"child"})) /\ held'[e] = held[e] \ {"child"}
    BY <1>2, <1>5 DEF DropChildEnd
  <2>4. fds'[e] = fds[e] \/ held'[e] = {}
    BY <1>2, <1>5 DEF DropChildEnd
  <2>5. known'[e] = known[e]
    BY <1>1, <1>2, <1>5 DEF DropChildEnd, AdoptedInv
  <2> QED
    BY <1>1, <1>2, <1>5, <2>1, <2>2, <2>3, <2>4, <2>5, ClosingPidfd, HostAssumption
    DEF DropChildEnd, ProgressInv, OwnershipInv, AdoptedInv
<1>6. CASE PeerClosed(e)
  <2>1. ProgressInv(e)'
    BY <1>1, <1>2, <1>6 DEF PeerClosed, ProgressInv
  <2>2. ChildEndInv(e)'
    BY <1>1, <1>2, <1>6 DEF PeerClosed, ChildEndInv, ProgressInv
  <2>3. fdTable' = Closed(fdTable, HeldSlots(e, {"sup"})) /\ held'[e] = held[e] \ {"sup"}
    BY <1>2, <1>6 DEF PeerClosed
  <2>4. fds'[e] = fds[e] \/ held'[e] = {}
    BY <1>2, <1>6 DEF PeerClosed
  <2>5. known'[e] = known[e]
    BY <1>1, <1>2, <1>6 DEF PeerClosed, AdoptedInv
  <2> QED
    BY <1>1, <1>2, <1>6, <2>1, <2>2, <2>3, <2>4, <2>5, ClosingPidfd, HostAssumption
    DEF PeerClosed, ProgressInv, OwnershipInv, AdoptedInv
<1>7. CASE CloneFdFails(e)
  <2>1. ProgressInv(e)'
    BY <1>1, <1>2, <1>7 DEF CloneFdFails, ProgressInv
  <2>2. ChildEndInv(e)'
    BY <1>1, <1>2, <1>7 DEF CloneFdFails, ChildEndInv, ProgressInv
  <2>3. fdTable' = Closed(fdTable, HeldSlots(e, {"sup"})) /\ held'[e] = held[e] \ {"sup"}
    BY <1>2, <1>7 DEF CloneFdFails
  <2>4. fds'[e] = fds[e] \/ held'[e] = {}
    BY <1>2, <1>7 DEF CloneFdFails
  <2>5. known'[e] = known[e]
    BY <1>1, <1>2, <1>7 DEF CloneFdFails, AdoptedInv
  <2> QED
    BY <1>1, <1>2, <1>7, <2>1, <2>2, <2>3, <2>4, <2>5, ClosingPidfd, HostAssumption
    DEF CloneFdFails, ProgressInv, OwnershipInv, AdoptedInv
<1>8. CASE WriteAckByte(e)
  <2>1. ProgressInv(e)'
    BY <1>1, <1>2, <1>8 DEF WriteAckByte, ProgressInv, AdoptedInv
  <2>2. ChildEndInv(e)'
    BY <1>1, <1>2, <1>8 DEF WriteAckByte, ChildEndInv, ProgressInv
  <2>3. fdTable' = Closed(fdTable, HeldSlots(e, {"sup"})) /\ held'[e] = held[e] \ {"sup"}
    BY <1>2, <1>8 DEF WriteAckByte
  <2>4. fds'[e] = fds[e] \/ held'[e] = {}
    BY <1>2, <1>8 DEF WriteAckByte
  <2>5. known'[e] = known[e]
    BY <1>1, <1>2, <1>8 DEF WriteAckByte, AdoptedInv
  <2> QED
    <3>1. /\ pc[e] = "writeAck" /\ pc'[e] \in {"finish", "wait", "abort"} /\ cpc'[e] = cpc[e]
          /\ UNCHANGED bootstrapMutex
      BY <1>2, <1>8 DEF WriteAckByte
    <3>2. known[e] # NoSlot /\ "sup" \notin held'[e] /\ bootstrapMutex # e
      BY <1>1, <2>3, <3>1 DEF AdoptedInv, OwnershipInv
    <3>3. cpc[e] \in {"announced", "acked", "target", "dead", "reaped"}
      BY <1>1, <3>2 DEF AdoptedInv
    <3>4. /\ cpc'[e] = "acked" => ack'[e]
          /\ cpc'[e] = "target" => ack'[e] \/ ~fallback[e]
          /\ cpc'[e] \in {"filtered", "announced"} => fallback[e]
          /\ cpc'[e] = "scrubbed" => ~fallback[e]
      BY <1>1, <3>1 DEF AdoptedInv
    <3> QED
      BY <2>1, <2>2, <2>3, <2>4, <2>5, <3>1, <3>2, <3>3, <3>4, ClosingPidfd
<1>9. CASE FinishExecution(e)
  <2>1. ProgressInv(e)'
    BY <1>1, <1>2, <1>9 DEF FinishExecution, ProgressInv
  <2>2. ChildEndInv(e)'
    BY <1>1, <1>2, <1>9 DEF FinishExecution, ChildEndInv, ProgressInv
  <2>3. fdTable' = Closed(fdTable, HeldSlots(e, Ends)) /\ held'[e] = held[e] \ Ends
    BY <1>2, <1>9 DEF FinishExecution
  <2>4. fds'[e] = fds[e] \/ held'[e] = {}
    BY <1>2, <1>9 DEF FinishExecution
  <2>5. known'[e] = known[e]
    BY <1>1, <1>2, <1>9 DEF FinishExecution, AdoptedInv
  <2> QED
    BY <1>1, <1>2, <1>9, <2>1, <2>2, <2>3, <2>4, <2>5, ClosingPidfd, HostAssumption
    DEF FinishExecution, ProgressInv, OwnershipInv, AdoptedInv
<1> QED
  BY <1>3, <1>4, <1>5, <1>6, <1>7, <1>8, <1>9

-----------------------------------------------------------------------------
(* The steps that open descriptors, and the close of the listener.         *)

LEMMA PreparePidfdPreserves ==
  ASSUME HandoffsInv, NEW e \in Execs, e \in PidfdExecs, PidfdStep(e),
         CreatePair(e) \/ CreatePipes(e), UNCHANGED pidfdVars
  PROVE  HandoffsInv' /\ SharedFrame(e)
<1>1. /\ TypeOK /\ ProgressInv(e) /\ OwnershipInv(e) /\ Accounts(e) /\ AdoptedInv(e)
  BY PidfdFacts
<1>2. known[e] = NoSlot /\ cpc[e] = "none" /\ \A s \in Slots : ~HasListener(e, s)
  BY <1>1, SlotNotNoSlot
  DEF CreatePair, CreatePipes, Move, ProgressInv, AdoptedInv, Unforked
<1>3. UNCHANGED cloneVars
  BY DEF PidfdStep
<1>4. /\ VarsStep(e) /\ TableStep(e) /\ ListenersKept /\ Accounts(e)'
      /\ UNCHANGED <<childTable, bootstrapMutex, cpc, known, toParent, ack>>
      /\ \/ pc[e] = "idle" /\ pc'[e] = "paired" /\ held'[e] = {"sup", "child"}
         \/ pc[e] = "paired" /\ pc'[e] = "prepared" /\ held'[e] = Ends
  BY <1>1, <1>2, <1>3, PrepareFrame DEF OwnershipInv
<1>5. ProgressInv(e)' /\ ChildEndInv(e)'
  BY <1>1, <1>2, <1>4 DEF ProgressInv, ChildEndInv, Unforked, Serving, Over, pidfdVars
<1>6. OwnershipInv(e)'
  BY <1>1, <1>4 DEF OwnershipInv
<1>7. \A s \in Slots : ~HasListener(e, s)'
  BY <1>2, <1>4 DEF ListenersKept, HasListener
<1>8. AdoptedInv(e)'
  BY <1>1, <1>2, <1>4, <1>7, SlotNotNoSlot DEF AdoptedInv, pidfdVars
<1>9. SharedFrame(e) /\ ListenersStep(e)
  BY <1>4, PidfdVars DEF SharedFrame, MutexMove, ListenersStep
<1> QED
  BY <1>5, <1>6, <1>8, <1>9, PidfdCopies, PidfdStepPreserves DEF PidfdInv

LEMMA ClonePreserves ==
  ASSUME HandoffsInv, NEW e \in Execs, e \in PidfdExecs, PidfdStep(e), CloneFdFromChild(e)
  PROVE  HandoffsInv' /\ SharedFrame(e)
<1> USE DEF CloneFdFromChild, Move
<1>1. /\ TypeOK /\ PidfdTypes /\ ProgressInv(e) /\ OwnershipInv(e) /\ Accounts(e)
      /\ AdoptedInv(e)
  BY PidfdFacts
<1>2. PICK p \in LowestFree(fdTable) : \E s \in LowestFreeExcept(fdTable, {p}) :
        /\ fdTable' = [fdTable EXCEPT ![s] = FileOf("listener", e)]
        /\ known' = [known EXCEPT ![e] = s]
  OBVIOUS
<1>3. PICK s \in LowestFreeExcept(fdTable, {p}) :
        /\ fdTable' = [fdTable EXCEPT ![s] = FileOf("listener", e)]
        /\ known' = [known EXCEPT ![e] = s]
  BY <1>2
<1>4. s \in Slots /\ fdTable[s] = Free
  BY LowestFreeIsFree
<1>5. /\ pc[e] = "clone" /\ pc'[e] = "writeAck" /\ cpc[e] = "announced" /\ cpc'[e] = cpc[e]
      /\ fds'[e] = fds[e] /\ held'[e] = held[e] /\ known'[e] = s /\ ack'[e] = ack[e]
      /\ expired'[e] = expired[e] /\ result'[e] = result[e] /\ fallback'[e] = fallback[e]
  BY <1>1, <1>3 DEF TypeOK, ExecTypeOK, pidfdVars
<1>6. \A t \in Slots : fdTable'[t] = IF t = s THEN FileOf("listener", e) ELSE fdTable[t]
  BY <1>1, <1>3, <1>4 DEF TypeOK, HostTypeOK
<1>7. bootstrapMutex = e /\ known[e] = NoSlot
  BY <1>1, <1>5 DEF OwnershipInv, AdoptedInv
<1>8. TableStep(e) /\ ListenersStep(e)
  BY <1>4, <1>6, <1>7, FileOfFields DEF TableStep, ListenersStep
<1>9. Accounts(e)'
  <2>1. \A k \in held[e] : fds[e][k] # s
    <3>1. \A k \in held[e] : k # "free"
      BY <1>1 DEF TypeOK, ExecTypeOK, Ends
    <3> QED
      BY <1>1, <1>4, <3>1, FileOfFields, FreeIsNobodys DEF Accounts
  <2> QED
    BY <1>1, <1>5, <1>6, <2>1, FileOfFields DEF Accounts
<1>10. \A t \in Slots : HasListener(e, t)' <=> t = s
  BY <1>1, <1>6, <1>7, FileOfFields, SlotNotNoSlot DEF HasListener, AdoptedInv
<1>11. ProgressInv(e)' /\ ChildEndInv(e)'
  BY <1>1, <1>5 DEF ProgressInv, ChildEndInv, Unforked, Serving, Over
<1>12. OwnershipInv(e)'
  BY <1>1, <1>5, <1>9, HostAssumption DEF OwnershipInv
<1>13. AdoptedInv(e)'
  BY <1>1, <1>4, <1>5, <1>7, <1>10, SlotNotNoSlot DEF AdoptedInv, Unforked
<1>14. SharedFrame(e)
  BY <1>7, <1>8, PidfdVars DEF SharedFrame, MutexMove
<1> QED
  BY <1>8, <1>11, <1>12, <1>13, <1>14, PidfdCopies, PidfdStepPreserves DEF PidfdInv

LEMMA ClosePidfdPreserves ==
  ASSUME HandoffsInv, NEW e \in Execs, e \in PidfdExecs, PidfdStep(e), CloseListener(e),
         UNCHANGED pidfdVars
  PROVE  HandoffsInv' /\ SharedFrame(e)
<1> USE DEF CloseListener, Move, ForgetLocals
<1>1. /\ TypeOK /\ PidfdTypes /\ ProgressInv(e) /\ OwnershipInv(e) /\ Accounts(e)
      /\ AdoptedInv(e)
  BY PidfdFacts
<1>2. /\ pc[e] = "closeNotify" /\ pc'[e] = "done" /\ cpc'[e] = cpc[e] /\ held'[e] = {}
      /\ known'[e] = NoSlot /\ ack'[e] = FALSE
      /\ expired'[e] = expired[e] /\ result'[e] = result[e] /\ fallback'[e] = fallback[e]
  BY <1>1 DEF TypeOK, ExecTypeOK, pidfdVars
<1>3. /\ held[e] = {} /\ cpc[e] = "reaped" /\ bootstrapMutex = e
      /\ known[e] \in Slots /\ HasListener(e, known[e])
  BY <1>1, <1>2 DEF OwnershipInv, ProgressInv, AdoptedInv, Over
<1>4. /\ TableStep(e) /\ ListenersStep(e) /\ Accounts(e)'
      /\ \A s \in Slots : HasListener(e, s)' <=> HasListener(e, s) /\ s # known[e]
  BY <1>1, <1>2, <1>3, CloseListenerFrame
<1>5. ProgressInv(e)' /\ ChildEndInv(e)'
  BY <1>1, <1>2, <1>3 DEF ProgressInv, ChildEndInv, Unforked, Serving, Over
<1>6. OwnershipInv(e)'
  BY <1>2, <1>4, HostAssumption DEF OwnershipInv
<1>7. AdoptedInv(e)'
  BY <1>1, <1>2, <1>3, <1>4, SlotNotNoSlot DEF AdoptedInv, Unforked
<1>8. SharedFrame(e)
  BY <1>3, <1>4, PidfdVars DEF SharedFrame, MutexMove
<1> QED
  BY <1>4, <1>5, <1>6, <1>7, <1>8, PidfdCopies, PidfdStepPreserves DEF PidfdInv

-----------------------------------------------------------------------------
(* The invariant holds.                                                    *)

LEMMA PidfdCallPreserves ==
  ASSUME HandoffsInv, NEW e \in Execs, e \in PidfdExecs, PidfdStep(e)
  PROVE  HandoffsInv' /\ SharedFrame(e)
BY QuietPidfdPreserves, ClosingPidfdPreserves, PreparePidfdPreserves, ClonePreserves,
   ClosePidfdPreserves
DEF PidfdStep, PidfdParentStep, PidfdChildStep, PidfdEvent, Prepare

\* What a clone-files call does to the private tables.
LEMMA CloneCopies ==
  ASSUME HandoffsInv, NEW e \in Execs, e \in CloneExecs, CloneStep(e)
  PROVE  CopiesInv'
<1>1. CopiesInv /\ childTable \in [Execs -> [Slots -> Entries]]
  BY DEF HandoffsInv, IInv, TypeOK, HostTypeOK
<1>2. CASE UNCHANGED childTable
  BY <1>1, <1>2 DEF CopiesInv
<1>3. ASSUME NEW T, childTable' = [childTable EXCEPT ![e] = T],
             \A s \in Slots : T[s].kind # "listener"
      PROVE  CopiesInv'
  BY <1>1, <1>3 DEF CopiesInv
<1>4. CASE Unshare(e)
  BY <1>3, <1>4, CopiesHaveNone DEF Unshare
<1>5. CASE SendDetached(e)
  <2>1. childTable' = [childTable EXCEPT ![e] = Closed(childTable[e], {fds[e]["sup"]})]
    BY <1>1, <1>5 DEF SendDetached
  <2> QED
    BY <1>1, <1>3, <2>1, CopiesHaveNone DEF CopiesInv
<1>6. CASE KillAndReap(e) \/ KillSupervised(e) \/ ScrubDescriptors(e) \/ ChildDies(e)
  BY <1>3, <1>6, CopiesHaveNone DEF KillAndReap, KillSupervised, ScrubDescriptors, ChildDies
<1> QED
  BY <1>2, <1>4, <1>5, <1>6
  DEF CloneStep, ParentStep, BootstrapStep, Prepare, CreatePair, CreatePipes,
      PreparationFails, AcquireMutex, SnapshotListeners, AbortBeforeClone, CloneChild,
      ReadSlot, ReadDetached, ProbeFindsDeadChild, BootstrapFails, DropChildSock,
      ValidateListener, WriteAck,
      FinishBootstrap, ListNewListeners, CloseNewListener, CloseRemaining, Disown,
      ReleaseMutex, Drop, ReapChild, LockToCloseListener, CloseListener, InstallListener,
      InstallFails, ReportSlot, ReadAck, Execve, hostVars

LEMMA CloneCallPreserves ==
  ASSUME HandoffsInv, NEW e \in Execs, e \in CloneExecs, CloneStep(e), UNCHANGED pidfdVars
  PROVE  HandoffsInv' /\ SharedFrame(e)
<1>1. IInv' /\ Frame(e)
  BY CallPreserves DEF HandoffsInv
<1>2. SharedFrame(e)
  BY <1>1 DEF Frame, SharedFrame, MutexStep, MutexMove, PidfdKept, pidfdVars
<1>3. \A p \in PidfdExecs : p # e /\ p \in Execs
  BY HandoffsPartition, PidfdAssumption
<1>4. \A p \in PidfdExecs : PidfdInv(p)'
  BY <1>2, <1>3, OtherPidfdKept DEF HandoffsInv
<1>5. PidfdTypes' /\ \A c \in CloneExecs : fallback'[c]
  BY DEF HandoffsInv, PidfdTypes, pidfdVars
<1> QED
  BY <1>1, <1>2, <1>4, <1>5, CloneCopies DEF HandoffsInv

\* The application and stuttering leave every call alone.
LEMMA NobodyMoves ==
  ASSUME HandoffsInv, AppStep \/ UNCHANGED vars, UNCHANGED pidfdVars
  PROVE  /\ HandoffsInv'
         /\ \A f \in Execs : VarsKept(f) /\ EntriesKept(f)
<1>1. IInv'
  BY NextIInv DEF HandoffsInv, Next
<1>2. \A f \in Execs : VarsKept(f) /\ EntriesKept(f)
  <2>1. CASE UNCHANGED vars
    BY <2>1 DEF vars, hostVars, execVars, cloneVars, VarsKept, EntriesKept
  <2>2. CASE AppStep
    BY <2>2, AppKeeps DEF HandoffsInv, IInv
  <2> QED
    BY <2>1, <2>2
<1>3. UNCHANGED <<childTable, bootstrapMutex>>
  BY DEF AppStep, AppOpen, AppClose, vars, hostVars
<1>4. \A p \in PidfdExecs : PidfdInv(p)'
  BY <1>2, <1>3, PidfdFrame, PidfdAssumption DEF HandoffsInv, PidfdKept, pidfdVars
<1> QED
  BY <1>1, <1>2, <1>3, <1>4 DEF HandoffsInv, PidfdTypes, CopiesInv, pidfdVars

LEMMA InitHandoffsInv == HandoffsInit => HandoffsInv
<1> SUFFICES ASSUME HandoffsInit PROVE HandoffsInv
  OBVIOUS
<1>1. IInv
  BY InitIInv DEF HandoffsInit
<1>2. /\ bootstrapMutex = NoExec /\ \A s \in Slots : fdTable[s] = Free
      /\ \A e \in Execs :
           /\ pc[e] = "idle" /\ cpc[e] = "none" /\ held[e] = {} /\ known[e] = NoSlot
           /\ ack[e] = FALSE /\ childTable[e] = EmptyTable
           /\ expired[e] = FALSE /\ result[e] = "none"
      /\ \A e \in CloneExecs : fallback[e]
  BY CloneAssumption, HandoffsPartition
  DEF HandoffsInit, PidfdInit, Init, HostInit, ExecInit, EmptyTable
<1>3. PidfdTypes
  BY DEF HandoffsInit, PidfdInit, PidfdTypes, Results
<1>4. CopiesInv
  BY <1>2, CopiesHaveNone DEF CopiesInv
<1>5. ASSUME NEW p \in Execs PROVE PidfdInv(p)
  <2>1. \A s \in Slots : fdTable[s].owner # p
    BY <1>2, FreeIsNobodys
  <2>2. ProgressInv(p) /\ ChildEndInv(p)
    BY <1>2 DEF ProgressInv, ChildEndInv, Unforked, Over
  <2>3. OwnershipInv(p)
    BY <1>2, <2>1, HostAssumption DEF OwnershipInv, Accounts
  <2>4. AdoptedInv(p)
    BY <1>2, <2>1, SlotNotNoSlot DEF AdoptedInv, HasListener
  <2> QED
    BY <2>2, <2>3, <2>4 DEF PidfdInv
<1> QED
  BY <1>1, <1>2, <1>3, <1>4, <1>5, PidfdAssumption DEF HandoffsInv

LEMMA NextHandoffsInv == HandoffsInv /\ [HandoffsNext]_allVars => HandoffsInv'
<1> SUFFICES ASSUME HandoffsInv, [HandoffsNext]_allVars PROVE HandoffsInv'
  OBVIOUS
<1>1. CASE UNCHANGED allVars
  BY <1>1, NobodyMoves DEF allVars
<1>2. CASE AppStep /\ UNCHANGED pidfdVars
  BY <1>2, NobodyMoves
<1>3. CASE CloneNext /\ UNCHANGED pidfdVars
  BY <1>3, CloneCallPreserves, CloneAssumption DEF CloneNext
<1>4. CASE PidfdNext /\ UNCHANGED cloneVars
  BY <1>4, PidfdCallPreserves, PidfdAssumption DEF PidfdNext, PidfdStep
<1> QED
  BY <1>1, <1>2, <1>3, <1>4 DEF HandoffsNext

\* The invariant holds in every reachable state of a process with any number of
\* calls of either kind.
THEOREM HandoffsInvariantHolds == HandoffsSpec => []HandoffsInv
BY InitHandoffsInv, NextHandoffsInv, PTL DEF HandoffsSpec

LEMMA HandoffsInvImplies ==
  ASSUME HandoffsInv
  PROVE  HandoffsTypeOK /\ SnapshotIsCurrent /\ NoHandoffLeaks
<1>1. HandoffsTypeOK
  BY DEF HandoffsInv, IInv, PidfdTypes, PidfdInv, ProgressInv, Over, HandoffsTypeOK,
         PidfdTypeOK
<1>2. SnapshotIsCurrent /\ NothingLeaks
  BY IInvImplies DEF HandoffsInv
<1>3. ASSUME NEW p \in PidfdExecs, pc[p] \in {"failed", "done"}
      PROVE  Leftovers(p) = {} /\ cpc[p] \in {"none", "reaped"}
  BY <1>3, SlotNotNoSlot
  DEF HandoffsInv, PidfdInv, ProgressInv, OwnershipInv, AdoptedInv, Accounts, HasListener,
      Unforked, Over, Leftovers
<1>4. \A p \in Execs : Leftovers(p) = {} => LeavesNothingElse(p)
  BY DEF LeavesNothingElse
<1> QED
  BY <1>1, <1>2, <1>3, <1>4, HandoffsPartition DEF NothingLeaks, NoHandoffLeaks

\* Types; and a pidfd call has a value to return exactly when its wait is over
\* (wait_for_child and parent_process).
THEOREM HandoffsTypeCorrect == HandoffsSpec => []HandoffsTypeOK
BY HandoffsInvariantHolds, HandoffsInvImplies, PTL

\* The listener snapshot of a clone-files call stays right next to pidfd calls,
\* which install listeners in the host's table under the same mutex.
THEOREM SnapshotStaysCurrent == HandoffsSpec => []SnapshotIsCurrent
BY HandoffsInvariantHolds, HandoffsInvImplies, PTL

\* A call of either kind that returned has left no process, a pidfd call no
\* descriptor, and a clone-files call none but, at worst, the listener of a child
\* that died before it reported the slot while the listing failed too.
THEOREM NoHandoffEverLeaks == HandoffsSpec => []NoHandoffLeaks
BY HandoffsInvariantHolds, HandoffsInvImplies, PTL

-----------------------------------------------------------------------------
(***************************************************************************)
(* The promise of ListenerHandoff is kept: a step of one call moves its    *)
(* listener and its program as the promise allows, and leaves those of the *)
(* other calls where they are.                                             *)
(***************************************************************************)

HasOne(e) == \E s \in Slots : HasListener(e, s)

ClosedPhases == {"unlock", "drop", "failed", "done"}
OwnedPhases == {"owned", "ackSent", "ackFailed", "disown", "supervising", "dropNotify",
                "closeNotify"}

\* Where the listener of a call is, by the invariant, for each kind of call.
CloneListener(e) ==
  IF pc[e] \in ClosedPhases THEN IF HasOne(e) THEN "lost" ELSE "closed"
  ELSE IF pc[e] \in OwnedPhases THEN "owned"
  ELSE IF HasOne(e) THEN "created" ELSE "none"

PidfdListener(e) ==
  IF pc[e] \in {"failed", "done"} THEN "closed"
  ELSE IF known[e] # NoSlot THEN "owned"
  ELSE IF cpc[e] \in {"filtered", "announced"} THEN "created" ELSE "none"

StatesKnown ==
  \A e \in Execs :
    /\ e \in CloneExecs => ListenerState(e) = CloneListener(e)
    /\ e \in PidfdExecs => ListenerState(e) = PidfdListener(e)
    /\ TargetState(e) = IF cpc[e] = "target" THEN "running"
                        ELSE IF cpc[e] \in {"dead", "reaped"} THEN "gone" ELSE "absent"

LEMMA OpenListener ==
  ASSUME HandoffsInv, NEW e \in Execs
  PROVE  OpenSomewhere(FileOf("listener", e)) <=> HasOne(e)
<1>1. fdTable \in [Slots -> Entries] /\ CopiesInv
  BY DEF HandoffsInv, IInv, TypeOK, HostTypeOK
<1>2. \A s \in Slots : fdTable[s] = FileOf("listener", e) <=> HasListener(e, s)
  BY <1>1 DEF Entries, FileOf, HasListener
<1>3. \A f \in Execs : \A s \in Slots : childTable[f][s] # FileOf("listener", e)
  BY <1>1, FileOfFields DEF CopiesInv
<1> QED
  BY <1>2, <1>3 DEF OpenSomewhere, HasOne

LEMMA HandoffsInvGivesStates == HandoffsInv => StatesKnown
<1> SUFFICES ASSUME HandoffsInv, NEW e \in Execs
             PROVE  /\ e \in CloneExecs => ListenerState(e) = CloneListener(e)
                    /\ e \in PidfdExecs => ListenerState(e) = PidfdListener(e)
                    /\ TargetState(e) =
                         IF cpc[e] = "target" THEN "running"
                         ELSE IF cpc[e] \in {"dead", "reaped"} THEN "gone" ELSE "absent"
  BY DEF StatesKnown
<1>1. OpenSomewhere(FileOf("listener", e)) <=> HasOne(e)
  BY OpenListener
<1>2. ASSUME e \in CloneExecs PROVE ListenerState(e) = CloneListener(e)
  <2>1. e \notin PidfdExecs
    BY <1>2, HandoffsPartition
  <2>2. PhaseInv(e)
    BY <1>2, Facts DEF HandoffsInv
  <2>3. pc[e] # "writeAck"
    BY <2>2 DEF PhaseInv, BeforeClone, Holding, Critical
  <2> QED
    BY <1>1, <2>1, <2>3 DEF ListenerState, CloneListener, ClosedPhases, OwnedPhases
<1>3. ASSUME e \in PidfdExecs PROVE ListenerState(e) = PidfdListener(e)
  <2>1. ProgressInv(e) /\ AdoptedInv(e)
    BY <1>3, PidfdFacts
  <2>2. pc[e] \notin {"unlock", "drop", "owned", "ackSent", "ackFailed", "disown", "supervising"}
    BY <2>1 DEF ProgressInv, Unforked, Serving, Over
  <2>3. pc[e] \in {"dropNotify", "closeNotify", "writeAck"} => known[e] # NoSlot
    BY <2>1 DEF AdoptedInv
  <2>4. /\ HasOne(e) => known[e] # NoSlot
        /\ pc[e] \in {"failed", "done"} => known[e] = NoSlot
    BY <2>1, SlotNotNoSlot DEF AdoptedInv, HasOne, Unforked
  <2> QED
    BY <1>1, <1>3, <2>2, <2>3, <2>4 DEF ListenerState, PidfdListener
<1>4. TargetState(e) = IF cpc[e] = "target" THEN "running"
                       ELSE IF cpc[e] \in {"dead", "reaped"} THEN "gone" ELSE "absent"
  BY DEF TargetState
<1> QED
  BY <1>2, <1>3, <1>4

LEMMA StatesKnownNext == HandoffsInv' => StatesKnown'
BY HandoffsInvGivesStates, PTL

\* What the promise lets listener and program of one call do.
PromisedStep(n, l, t, l2, t2) ==
  \/ l2 = l /\ t2 = t
  \/ n /\ l = "none" /\ t = "absent" /\ l2 = "created" /\ t2 = t
  \/ l = "created" /\ t # "running" /\ l2 = "owned" /\ t2 = t
  \/ l = "created" /\ l2 = "none" /\ t2 \in {t, "gone"} /\ t2 # "running"
  \/ l = "created" /\ t = "gone" /\ l2 = "lost" /\ t2 = t
  \/ (n => l = "owned") /\ t = "absent" /\ l2 = l /\ t2 = "running"
  \/ l2 = l /\ t2 = "gone"
  \/ l = "owned" /\ t = "gone" /\ l2 = "closed" /\ t2 = t
  \/ l = "none" /\ t # "running" /\ l2 = "closed" /\ t2 = t

Promised(e) ==
  PromisedStep(fallback[e], ListenerState(e), TargetState(e), ListenerState(e)', TargetState(e)')

StateKept(f) == ListenerState(f)' = ListenerState(f) /\ TargetState(f)' = TargetState(f)

LEMMA StateFrame ==
  ASSUME HandoffsInv, HandoffsInv', NEW f \in Execs, VarsKept(f), EntriesKept(f)
  PROVE  StateKept(f)
<1>1. StatesKnown /\ StatesKnown'
  BY HandoffsInvGivesStates, StatesKnownNext
<1>2. HasOne(f)' <=> HasOne(f)
  BY DEF HasOne, HasListener, EntriesKept
<1>3. TargetState(f)' = TargetState(f)
  BY <1>1 DEF StatesKnown, VarsKept
<1>4. CloneListener(f)' = CloneListener(f) /\ PidfdListener(f)' = PidfdListener(f)
  BY <1>2 DEF CloneListener, PidfdListener, VarsKept
<1> QED
  BY <1>1, <1>3, <1>4, HandoffsPartition DEF StatesKnown, StateKept

LEMMA PromiseOfAll ==
  ASSUME NEW e \in Execs, Promised(e), \A f \in Execs \ {e} : StateKept(f),
         fallback' = fallback
  PROVE  [Promise!HandoffNext]_(Promise!handoffVars)
<1> DEFINE l == ListenerState(e)
           t == TargetState(e)
           l2 == ListenerState(e)'
           t2 == TargetState(e)'
<1> USE DEF StateKept, Promise!ListenerStep
<1>1. CASE l2 = l /\ t2 = t
  BY <1>1 DEF Promise!handoffVars
<1>2. CASE fallback[e] /\ l = "none" /\ t = "absent" /\ l2 = "created" /\ t2 = t
  <2>1. Promise!Create(e)
    BY <1>2 DEF Promise!Create
  <2> QED
    BY <2>1 DEF Promise!HandoffNext
<1>3. CASE l = "created" /\ t # "running" /\ l2 = "owned" /\ t2 = t
  <2>1. Promise!Adopt(e)
    BY <1>3 DEF Promise!Adopt
  <2> QED
    BY <2>1 DEF Promise!HandoffNext
<1>4. CASE l = "created" /\ l2 = "none" /\ t2 \in {t, "gone"} /\ t2 # "running"
  <2>1. Promise!Discard(e)
    BY <1>4 DEF Promise!Discard
  <2> QED
    BY <2>1 DEF Promise!HandoffNext
<1>5. CASE (fallback[e] => l = "owned") /\ t = "absent" /\ l2 = l /\ t2 = "running"
  <2>1. Promise!Launch(e)
    BY <1>5 DEF Promise!Launch
  <2> QED
    BY <2>1 DEF Promise!HandoffNext
<1>6. CASE l2 = l /\ t2 = "gone"
  <2>1. Promise!Vanish(e)
    BY <1>6 DEF Promise!Vanish
  <2> QED
    BY <2>1 DEF Promise!HandoffNext
<1>7. CASE l = "owned" /\ t = "gone" /\ l2 = "closed" /\ t2 = t
  <2>1. Promise!Close(e)
    BY <1>7 DEF Promise!Close
  <2> QED
    BY <2>1 DEF Promise!HandoffNext
<1>8. CASE l = "none" /\ t # "running" /\ l2 = "closed" /\ t2 = t
  <2>1. Promise!Abandon(e)
    BY <1>8 DEF Promise!Abandon
  <2> QED
    BY <2>1 DEF Promise!HandoffNext
<1>9. CASE l = "created" /\ t = "gone" /\ l2 = "lost" /\ t2 = t
  <2>1. Promise!Lose(e)
    BY <1>9 DEF Promise!Lose
  <2> QED
    BY <2>1 DEF Promise!HandoffNext
<1> QED
  BY <1>1, <1>2, <1>3, <1>4, <1>5, <1>6, <1>7, <1>8, <1>9 DEF Promised, PromisedStep

-----------------------------------------------------------------------------
(* The steps of a clone-files call keep the promise.                       *)

ClonePromised(e) ==
  PromisedStep(fallback[e], CloneListener(e), TargetState(e), CloneListener(e)', TargetState(e)')

LEMMA CloneViews ==
  ASSUME HandoffsInv, HandoffsInv', NEW e \in Execs, e \in CloneExecs
  PROVE  /\ pc \in [Execs -> ParentPhases] /\ cpc \in [Execs -> ChildPhases]
         /\ PhaseInv(e) /\ PhaseInv(e)' /\ ListenerInv(e) /\ ListenerInv(e)'
         /\ fallback[e] /\ (ClonePromised(e) => Promised(e))
<1>1. /\ pc \in [Execs -> ParentPhases] /\ cpc \in [Execs -> ChildPhases]
      /\ PhaseInv(e) /\ ListenerInv(e) /\ fallback[e]
  BY DEF HandoffsInv, IInv, LocalInv, TypeOK, ExecTypeOK
<1>2. PhaseInv(e)' /\ ListenerInv(e)'
  BY DEF HandoffsInv, IInv, LocalInv
<1>3. ListenerState(e) = CloneListener(e) /\ ListenerState(e)' = CloneListener(e)'
  BY HandoffsInvGivesStates, StatesKnownNext DEF StatesKnown
<1> QED
  BY <1>1, <1>2, <1>3 DEF Promised, ClonePromised

\* Steps that leave the host's table alone.
LEMMA QuietCloneKeeps ==
  ASSUME HandoffsInv, HandoffsInv', NEW e \in Execs, e \in CloneExecs,
         \/ AcquireMutex(e) \/ SnapshotListeners(e) \/ CloneChild(e) \/ ReadSlot(e)
         \/ ReadDetached(e) \/ ProbeFindsDeadChild(e) \/ BootstrapFails(e) \/ WriteAck(e)
         \/ KillAndReap(e)
         \/ ListNewListeners(e) \/ ReleaseMutex(e) \/ LockToCloseListener(e) \/ InstallFails(e)
         \/ ReportSlot(e) \/ Unshare(e) \/ SendDetached(e) \/ ReadAck(e)
         \/ ScrubDescriptors(e) \/ Execve(e) \/ ChildDies(e)
  PROVE  ClonePromised(e)
<1>1. /\ pc \in [Execs -> ParentPhases] /\ cpc \in [Execs -> ChildPhases]
      /\ PhaseInv(e) /\ PhaseInv(e)'
  BY CloneViews
<1>2. HasOne(e)' <=> HasOne(e)
  <2>1. UNCHANGED fdTable
    BY DEF AcquireMutex, SnapshotListeners, CloneChild, ReadSlot, ReadDetached,
           ProbeFindsDeadChild, BootstrapFails, WriteAck, KillAndReap, ListNewListeners,
           ReleaseMutex,
           LockToCloseListener, InstallFails, ReportSlot, Unshare, SendDetached, ReadAck,
           ScrubDescriptors, Execve, ChildDies, hostVars
  <2> QED
    BY <2>1 DEF HasOne, HasListener
<1> USE <1>1, <1>2
    DEF Move, ChildMove, ClonePromised, PromisedStep, CloneListener, TargetState, ClosedPhases,
        OwnedPhases, AlivePhases, SharingPhases
<1>3. CASE AcquireMutex(e)
  BY <1>3 DEF AcquireMutex
<1>4. CASE SnapshotListeners(e)
  BY <1>4 DEF SnapshotListeners
<1>5. CASE CloneChild(e)
  BY <1>5 DEF CloneChild
<1>6. CASE ReadSlot(e)
  BY <1>6 DEF ReadSlot
<1>7. CASE ReadDetached(e)
  BY <1>7 DEF ReadDetached
<1>8. CASE ProbeFindsDeadChild(e)
  BY <1>8 DEF ProbeFindsDeadChild
<1>9. CASE WriteAck(e)
  BY <1>9 DEF WriteAck
<1>10. CASE KillAndReap(e)
  BY <1>10 DEF KillAndReap
<1>11. CASE ListNewListeners(e)
  BY <1>11 DEF ListNewListeners
<1>12. CASE ReleaseMutex(e)
  BY <1>12 DEF ReleaseMutex
<1>13. CASE LockToCloseListener(e)
  BY <1>13 DEF LockToCloseListener
<1>14. CASE InstallFails(e)
  BY <1>14 DEF InstallFails
<1>15. CASE ReportSlot(e)
  BY <1>15 DEF ReportSlot
<1>16. CASE Unshare(e)
  BY <1>16 DEF Unshare
<1>17. CASE SendDetached(e)
  BY <1>17 DEF SendDetached
<1>18. CASE ReadAck(e)
  BY <1>18 DEF ReadAck
<1>19. CASE ScrubDescriptors(e)
  BY <1>19 DEF ScrubDescriptors
<1>20. CASE Execve(e)
  BY <1>20 DEF Execve, PhaseInv, BeforeClone, AwaitsChild, Holding, Critical
<1>21. CASE ChildDies(e)
  BY <1>21 DEF ChildDies
<1>22. CASE BootstrapFails(e)
  BY <1>22 DEF BootstrapFails
<1> QED
  BY <1>3, <1>4, <1>5, <1>6, <1>7, <1>8, <1>9, <1>10, <1>11, <1>12, <1>13,
     <1>14, <1>15, <1>16, <1>17, <1>18, <1>19, <1>20, <1>21, <1>22

\* The other steps.
LEMMA CloneKeepsPromise ==
  ASSUME HandoffsInv, HandoffsInv', NEW e \in Execs, e \in CloneExecs, CloneStep(e)
  PROVE  Promised(e)
<1>1. /\ pc \in [Execs -> ParentPhases] /\ cpc \in [Execs -> ChildPhases]
      /\ PhaseInv(e) /\ PhaseInv(e)' /\ ListenerInv(e) /\ ListenerInv(e)'
      /\ fallback[e] /\ (ClonePromised(e) => Promised(e))
  BY CloneViews
<1> SUFFICES ClonePromised(e)
  BY <1>1
<1>2. /\ ListenerThere(e) => HasOne(e)
      /\ ListenerThere(e)' => HasOne(e)'
  BY FileOfFields DEF ListenerThere, HasOne, HasListener
<1>3. /\ cpc[e] \in {"none", "shared"} => ~HasOne(e)
      /\ cpc'[e] \in {"none", "shared"} => ~HasOne(e)'
  BY <1>1 DEF ListenerInv, HasOne
<1> USE DEF Move, ChildMove, ClonePromised, PromisedStep, CloneListener, TargetState,
            ClosedPhases, OwnedPhases
<1>4. CASE Prepare(e)
  <2>1. /\ pc[e] \in {"idle", "paired"} /\ pc'[e] \in {"paired", "prepared", "failed"}
        /\ cpc'[e] = cpc[e]
    BY <1>1, <1>4 DEF Prepare, CreatePair, CreatePipes, PreparationFails
  <2>2. cpc[e] = "none"
    BY <1>1, <2>1 DEF PhaseInv, BeforeClone
  <2> QED
    BY <1>3, <2>1, <2>2
<1>5. CASE ValidateListener(e)
  <2>1. /\ pc[e] = "validate" /\ pc'[e] \in {"owned", "kill"} /\ cpc'[e] = cpc[e]
        /\ HasOne(e)' <=> HasOne(e)
    BY <1>1, <1>5 DEF ValidateListener, HasOne, HasListener, hostVars
  <2>2. HasOne(e) /\ cpc[e] \in {"detached", "dead"}
    BY <1>1, <1>2, <2>1 DEF PhaseInv, ListenerInv
  <2> QED
    BY <2>1, <2>2
<1>6. CASE DropChildSock(e)
  <2>1. pc[e] = "detached" /\ pc'[e] = "validate" /\ cpc'[e] = cpc[e]
    BY <1>1, <1>6 DEF DropChildSock
  <2>2. HasOne(e) /\ HasOne(e)'
    BY <1>1, <1>2, <2>1 DEF ListenerInv
  <2> QED
    BY <2>1, <2>2
<1>7. CASE AbortBeforeClone(e)
  <2>1. pc[e] \in {"locked", "snapped"} /\ pc'[e] = "unlock" /\ cpc'[e] = cpc[e]
    BY <1>1, <1>7 DEF AbortBeforeClone
  <2>2. cpc[e] = "none"
    BY <1>1, <2>1 DEF PhaseInv, BeforeClone
  <2> QED
    BY <1>3, <2>1, <2>2
<1>8. CASE FinishBootstrap(e) \/ ReapChild(e) \/ KillSupervised(e)
  BY <1>1, <1>8 DEF FinishBootstrap, ReapChild, KillSupervised
<1>9. CASE CloseNewListener(e)
  <2>1. /\ pc[e] = "sweep" /\ pc'[e] = pc[e] /\ cpc'[e] = cpc[e]
        /\ \E s \in Slots : fdTable' = Closed(fdTable, {s})
    <3>1. toClose[e] \subseteq Slots
      BY DEF HandoffsInv, IInv, TypeOK
    <3> QED
      BY <1>9, <3>1 DEF CloseNewListener, execVars
  <2>2. HasOne(e)' => HasOne(e)
    BY <2>1, FreeIsNobodys DEF Closed, HasOne, HasListener
  <2>3. cpc[e] = "reaped"
    BY <1>1, <2>1 DEF PhaseInv
  <2> QED
    BY <2>1, <2>2, <2>3
<1>10. CASE CloseRemaining(e) \/ Drop(e)
  <2>1. /\ \/ pc[e] = "sweep" /\ pc'[e] = "unlock" /\ cpc[e] = "reaped"
           \/ pc[e] = "drop" /\ pc'[e] = "failed"
        /\ cpc'[e] = cpc[e]
    BY <1>1, <1>10 DEF CloseRemaining, Drop, PhaseInv
  <2>2. HasOne(e)' <=> HasOne(e)
    <3>1. TypeOK /\ Accounts(e)
      BY Facts DEF HandoffsInv
    <3>2. held'[e] = held[e] \ Ends /\ (fds'[e] = fds[e] \/ held'[e] = {})
      BY <1>10, <3>1
      DEF CloseRemaining, CloseEnds, Drop, ForgetCloneLocals, ForgetLocals, TypeOK, ExecTypeOK
    <3>3. fdTable' = Closed(fdTable, HeldSlots(e, Ends))
      BY <1>10 DEF CloseRemaining, CloseEnds, Drop
    <3> QED
      BY <3>1, <3>2, <3>3, CloseHeldFrame DEF HasOne
  <2> QED
    BY <2>1, <2>2
<1>11. CASE Disown(e) \/ (CloseListener(e) /\ UNCHANGED cloneVars)
  <2>1. /\ pc[e] \in {"disown", "closeNotify"} /\ pc'[e] \in {"unlock", "done"}
        /\ cpc'[e] = cpc[e] /\ unlisted'[e] = unlisted[e]
    BY <1>1, <1>11 DEF Disown, CloseListener, cloneVars
  <2>2. cpc[e] = "reaped" /\ ~HasOne(e)'
    BY <1>1, <2>1 DEF PhaseInv, ListenerInv, HasOne
  <2> QED
    BY <2>1, <2>2
<1>12. CASE InstallListener(e)
  <2>1. cpc[e] = "shared" /\ cpc'[e] = "listening" /\ pc'[e] = pc[e]
    BY <1>1, <1>12 DEF InstallListener
  <2>2. pc[e] \in AwaitsChild \cup {"kill"}
    BY <1>1, <2>1 DEF PhaseInv, BeforeClone, AwaitsChild, Holding, Critical
  <2>3. ~HasOne(e) /\ HasOne(e)'
    BY <1>1, <1>2, <1>3, <2>1 DEF ListenerInv
  <2> QED
    BY <1>1, <2>1, <2>2, <2>3 DEF AwaitsChild
<1> QED
  BY <1>4, <1>5, <1>6, <1>7, <1>8, <1>9, <1>10, <1>11, <1>12, QuietCloneKeeps
  DEF CloneStep, ParentStep, BootstrapStep

-----------------------------------------------------------------------------
(* The steps of a pidfd call keep the promise.                             *)

PidfdPromised(e) ==
  PromisedStep(fallback[e], PidfdListener(e), TargetState(e), PidfdListener(e)', TargetState(e)')

LEMMA PidfdViews ==
  ASSUME HandoffsInv, HandoffsInv', NEW e \in Execs, e \in PidfdExecs
  PROVE  /\ pc \in [Execs -> ParentPhases] /\ cpc \in [Execs -> ChildPhases]
         /\ known \in [Execs -> Slots \cup {NoSlot}]
         /\ ProgressInv(e) /\ AdoptedInv(e) /\ AdoptedInv(e)'
         /\ PidfdPromised(e) => Promised(e)
<1>1. /\ pc \in [Execs -> ParentPhases] /\ cpc \in [Execs -> ChildPhases]
      /\ known \in [Execs -> Slots \cup {NoSlot}]
      /\ ProgressInv(e) /\ AdoptedInv(e)
  BY PidfdFacts DEF TypeOK, ExecTypeOK
<1>2. AdoptedInv(e)'
  BY DEF HandoffsInv, PidfdInv
<1>3. ListenerState(e) = PidfdListener(e) /\ ListenerState(e)' = PidfdListener(e)'
  BY HandoffsInvGivesStates, StatesKnownNext DEF StatesKnown
<1> QED
  BY <1>1, <1>2, <1>3 DEF Promised, PidfdPromised

LEMMA PidfdKeepsPromise ==
  ASSUME HandoffsInv, HandoffsInv', NEW e \in Execs, e \in PidfdExecs, PidfdStep(e)
  PROVE  Promised(e)
<1>1. /\ pc \in [Execs -> ParentPhases] /\ cpc \in [Execs -> ChildPhases]
      /\ known \in [Execs -> Slots \cup {NoSlot}]
      /\ ProgressInv(e) /\ AdoptedInv(e) /\ AdoptedInv(e)'
      /\ PidfdPromised(e) => Promised(e)
  BY PidfdViews
<1> SUFFICES PidfdPromised(e)
  BY <1>1
<1> USE <1>1
    DEF Move, ChildMove, ForgetLocals, ServiceReturns, AfterService, PidfdPromised,
        PromisedStep, PidfdListener, TargetState, ProgressInv, AdoptedInv, Unforked, Serving,
        Over
<1>2. CASE CreatePair(e) \/ CreatePipes(e) \/ PreparationFails(e)
  BY <1>2 DEF CreatePair, CreatePipes, PreparationFails
<1>3. CASE ForkChild(e) \/ ForkFails(e) \/ DropChildEnd(e)
  BY <1>3 DEF ForkChild, ForkFails, DropChildEnd
<1>4. CASE NothingToReceive(e) \/ PeerClosed(e) \/ ReceiveNumber(e) \/ StillRunning(e)
  BY <1>4 DEF NothingToReceive, PeerClosed, ReceiveNumber, StillRunning
<1>5. CASE LockToClone(e) \/ CloneFdFails(e)
  BY <1>5 DEF LockToClone, CloneFdFails
<1>6. CASE CloneFdFromChild(e)
  BY <1>6 DEF CloneFdFromChild
<1>7. CASE WriteAckByte(e)
  BY <1>7 DEF WriteAckByte
<1>8. CASE ChildExited(e)
  BY <1>8 DEF ChildExited
<1>9. CASE DeadlinePasses(e)
  BY <1>9 DEF DeadlinePasses, AlivePhases, SharingPhases
<1>10. CASE AbortExecution(e)
  BY <1>10 DEF AbortExecution
<1>11. CASE FinishExecution(e)
  BY <1>11 DEF FinishExecution
<1>12. CASE LockToCloseListener(e) \/ CloseListener(e)
  BY <1>12 DEF LockToCloseListener, CloseListener
<1>13. CASE SecureDescriptors(e) \/ SkipFilter(e) \/ InstallFilter(e) \/ AnnounceNumber(e)
  BY <1>13 DEF SecureDescriptors, SkipFilter, InstallFilter, AnnounceNumber
<1>14. CASE AwaitAck(e)
  BY <1>14 DEF AwaitAck
<1>15. CASE ExecTarget(e)
  BY <1>15 DEF ExecTarget
<1>16. CASE ChildDies(e)
  BY <1>16 DEF ChildDies, AlivePhases, SharingPhases
<1> QED
  BY <1>2, <1>3, <1>4, <1>5, <1>6, <1>7, <1>8, <1>9, <1>10, <1>11, <1>12, <1>13, <1>14,
     <1>15, <1>16
  DEF PidfdStep, PidfdParentStep, PidfdChildStep, PidfdEvent, Prepare

-----------------------------------------------------------------------------
(* The refinement.                                                         *)

LEMMA InitPromise == HandoffsInit => Promise!HandoffInit
<1> SUFFICES ASSUME HandoffsInit PROVE Promise!HandoffInit
  OBVIOUS
<1>1. HandoffsInv
  BY InitHandoffsInv
<1>2. ASSUME NEW e \in Execs PROVE ListenerState(e) = "none" /\ TargetState(e) = "absent"
  <2>1. StatesKnown
    BY <1>1, HandoffsInvGivesStates
  <2>2. pc[e] = "idle" /\ cpc[e] = "none" /\ known[e] = NoSlot
    BY DEF HandoffsInit, PidfdInit, Init, ExecInit
  <2>3. \A s \in Slots : fdTable[s] = Free
    BY DEF HandoffsInit, Init, HostInit, EmptyTable
  <2>4. ~HasOne(e)
    BY <2>3, FreeIsNobodys DEF HasOne, HasListener
  <2>5. CloneListener(e) = "none" /\ PidfdListener(e) = "none"
    BY <2>2, <2>4 DEF CloneListener, PidfdListener, ClosedPhases, OwnedPhases
  <2> QED
    BY <2>1, <2>2, <2>5, HandoffsPartition DEF StatesKnown
<1>3. fallback \in [Execs -> BOOLEAN]
  BY DEF HandoffsInit, PidfdInit
<1> QED
  BY <1>2, <1>3 DEF Promise!HandoffInit

\* A step that moves nobody stutters in the promise.
LEMMA NobodyMovesKeeps ==
  ASSUME HandoffsInv, HandoffsInv', \A f \in Execs : VarsKept(f) /\ EntriesKept(f),
         fallback' = fallback
  PROVE  UNCHANGED Promise!handoffVars
<1>1. \A f \in Execs : StateKept(f)
  BY StateFrame
<1> QED
  BY <1>1 DEF StateKept, Promise!handoffVars

\* A step of one call is a step of the promise, or stutters in it.
LEMMA CallKeepsPromise ==
  ASSUME HandoffsInv, HandoffsInv', NEW e \in Execs, SharedFrame(e), Promised(e)
  PROVE  [Promise!HandoffNext]_(Promise!handoffVars)
<1>1. \A f \in Execs \ {e} : StateKept(f)
  BY OthersKept, StateFrame
<1> QED
  BY <1>1, PromiseOfAll DEF SharedFrame

LEMMA NextPromise ==
  HandoffsInv /\ [HandoffsNext]_allVars => [Promise!HandoffNext]_(Promise!handoffVars)
<1> SUFFICES ASSUME HandoffsInv, [HandoffsNext]_allVars
             PROVE  [Promise!HandoffNext]_(Promise!handoffVars)
  OBVIOUS
<1>1. CASE (AppStep \/ UNCHANGED vars) /\ UNCHANGED pidfdVars
  BY <1>1, NobodyMoves, NobodyMovesKeeps DEF pidfdVars
<1>2. CASE CloneNext /\ UNCHANGED pidfdVars
  <2>1. PICK e \in CloneExecs : CloneStep(e)
    BY <1>2 DEF CloneNext
  <2>2. e \in Execs
    BY CloneAssumption
  <2>3. HandoffsInv' /\ SharedFrame(e)
    BY <1>2, <2>1, <2>2, CloneCallPreserves
  <2>4. Promised(e)
    BY <2>1, <2>2, <2>3, CloneKeepsPromise
  <2> QED
    BY <2>2, <2>3, <2>4, CallKeepsPromise
<1>3. CASE PidfdNext /\ UNCHANGED cloneVars
  <2>1. PICK e \in PidfdExecs : PidfdStep(e)
    BY <1>3 DEF PidfdNext, PidfdStep
  <2>2. e \in Execs
    BY PidfdAssumption
  <2>3. HandoffsInv' /\ SharedFrame(e)
    BY <2>1, <2>2, PidfdCallPreserves
  <2>4. Promised(e)
    BY <2>1, <2>2, <2>3, PidfdKeepsPromise
  <2> QED
    BY <2>2, <2>3, <2>4, CallKeepsPromise
<1> QED
  BY <1>1, <1>2, <1>3 DEF HandoffsNext, allVars

\* Both bootstraps implement ListenerHandoff: run_sandboxed_command never starts
\* a program whose network is trapped before it has adopted the listener, never
\* closes the listener of one that runs, and loses none that it ever adopted,
\* whatever dies and whatever the other calls do.
THEOREM HandoffsKeepPromise == HandoffsSpec => ImplementsPromise
BY InitPromise, NextPromise, HandoffsInvariantHolds, PTL
DEF HandoffsSpec, ImplementsPromise, Promise!HandoffSpec
=============================================================================
