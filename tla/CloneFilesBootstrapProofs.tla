----------------------- MODULE CloneFilesBootstrapProofs -----------------------
(***************************************************************************)
(* Theorems about the clone-files bootstrap, for every set of executions   *)
(* and every descriptor table.                                             *)
(***************************************************************************)
EXTENDS CloneFilesBootstrap, SequenceTheorems, TLAPS

-----------------------------------------------------------------------------
(* The descriptor table.                                                   *)

\* What the kernel hands out is a free descriptor that is not already taken.
LEMMA LowestFreeIsFree ==
  ASSUME NEW table, NEW taken, NEW s \in LowestFreeExcept(table, taken)
  PROVE  s \in Slots /\ s \notin taken /\ table[s] = Free
BY DEF LowestFreeExcept

LEMMA EntryTypes ==
  /\ Free \in Entries /\ AppFile \in Entries
  /\ \A k \in Kinds, e \in Execs : FileOf(k, e) \in Entries
BY DEF Free, AppFile, FileOf, Entries, Kinds

LEMMA ClosedType ==
  ASSUME NEW table \in [Slots -> Entries], NEW S
  PROVE  Closed(table, S) \in [Slots -> Entries]
BY EntryTypes DEF Closed

LEMMA CopyType ==
  ASSUME NEW table \in [Slots -> Entries]
  PROVE  CopyFor(table) \in [Slots -> Entries]
BY EntryTypes DEF CopyFor

LEMMA EmptyType == EmptyTable \in [Slots -> Entries]
BY EntryTypes DEF EmptyTable

-----------------------------------------------------------------------------
(* Type correctness.                                                       *)

LEMMA InitTypeOK == Init => TypeOK
BY EmptyType
DEF Init, HostInit, ExecInit, CloneInit, TypeOK, HostTypeOK, ExecTypeOK, Ends,
    NoSlot, ParentPhases, ChildPhases

\* What ForgetLocals leaves behind.
LEMMA ForgetLocalsType ==
  ASSUME ExecTypeOK, NEW e \in Execs, ForgetLocals(e)
  PROVE  /\ fds' \in [Execs -> [Ends -> Slots \cup {NoSlot}]]
         /\ held' \in [Execs -> SUBSET Ends]
         /\ known' \in [Execs -> Slots \cup {NoSlot}]
         /\ toParent' \in [Execs -> Seq(Messages)]
         /\ ack' \in [Execs -> BOOLEAN]
BY DEF ExecTypeOK, ForgetLocals

LEMMA WriteType ==
  ASSUME TypeOK, NEW e \in Execs, NEW table \in [Slots -> Entries],
         NEW msg \in Messages, Write(e, table, msg)
  PROVE  toParent' \in [Execs -> Seq(Messages)]
<1> DEFINE file == table[fds[e]["child"]]
<1>1. toParent' = [toParent EXCEPT ![file.owner] = Append(@, msg)]
  BY DEF Write
<1>2. \A f \in Execs : Append(toParent[f], msg) \in Seq(Messages)
  BY DEF TypeOK, ExecTypeOK
<1> HIDE DEF file
<1> QED
  BY <1>1, <1>2 DEF TypeOK, ExecTypeOK

LEMMA SharedStepTypeOK ==
  ASSUME TypeOK, NEW e \in Execs, UNCHANGED cloneVars,
         \/ Prepare(e) \/ LockToCloseListener(e) \/ CloseListener(e) \/ ChildDies(e)
  PROVE  TypeOK'
<1> USE EntryTypes, ClosedType, ForgetLocalsType
        DEF TypeOK, HostTypeOK, ExecTypeOK, cloneVars, Move
<1>1. CASE CreatePair(e)
  <2>1. PICK s \in LowestFree(fdTable) : \E t \in LowestFreeExcept(fdTable, {s}) :
          /\ fdTable' = [fdTable EXCEPT ![s] = FileOf("sup", e), ![t] = FileOf("child", e)]
          /\ fds' = [fds EXCEPT ![e]["sup"] = s, ![e]["child"] = t]
    BY <1>1 DEF CreatePair
  <2>2. PICK t \in LowestFreeExcept(fdTable, {s}) :
          /\ fdTable' = [fdTable EXCEPT ![s] = FileOf("sup", e), ![t] = FileOf("child", e)]
          /\ fds' = [fds EXCEPT ![e]["sup"] = s, ![e]["child"] = t]
    BY <2>1
  <2>3. s \in Slots /\ t \in Slots
    BY LowestFreeIsFree DEF LowestFree
  <2>4. fdTable' \in [Slots -> Entries]
    BY <2>2, <2>3 DEF Kinds
  <2>5. fds' \in [Execs -> [Ends -> Slots \cup {NoSlot}]]
    BY <2>2, <2>3 DEF Ends
  <2> QED
    BY <1>1, <2>4, <2>5 DEF CreatePair, ParentPhases, Ends
<1>2. CASE CreatePipes(e)
  <2>1. PICK s \in LowestFree(fdTable) :
          /\ fdTable' = [fdTable EXCEPT ![s] = FileOf("pipe", e)]
          /\ fds' = [fds EXCEPT ![e]["pipe"] = s]
    BY <1>2 DEF CreatePipes
  <2>2. s \in Slots
    BY LowestFreeIsFree DEF LowestFree
  <2>3. fdTable' \in [Slots -> Entries]
    BY <2>1, <2>2 DEF Kinds
  <2>4. fds' \in [Execs -> [Ends -> Slots \cup {NoSlot}]]
    BY <2>1, <2>2 DEF Ends
  <2> QED
    BY <1>2, <2>3, <2>4 DEF CreatePipes, ParentPhases, Ends
<1>3. CASE PreparationFails(e)
  BY <1>3 DEF PreparationFails, ParentPhases
<1>4. CASE LockToCloseListener(e)
  BY <1>4 DEF LockToCloseListener, ParentPhases
<1>5. CASE CloseListener(e)
  BY <1>5 DEF CloseListener, ParentPhases
<1>6. CASE ChildDies(e)
  BY <1>6, EmptyType DEF ChildDies, ChildPhases
<1> QED
  BY <1>1, <1>2, <1>3, <1>4, <1>5, <1>6 DEF Prepare

LEMMA ParentStepTypeOK ==
  ASSUME TypeOK, NEW e \in Execs,
         ParentStep(e) \/ BootstrapFails(e) \/ KillSupervised(e)
  PROVE  TypeOK'
<1> USE EntryTypes, ClosedType, ForgetLocalsType, EmptyType
        DEF TypeOK, HostTypeOK, ExecTypeOK, cloneVars, hostVars, Move, ChildMove, CloseEnds
<1>1. CASE /\ Prepare(e) \/ LockToCloseListener(e) \/ CloseListener(e)
           /\ UNCHANGED cloneVars
  BY <1>1, SharedStepTypeOK
<1>2. CASE AcquireMutex(e)
  BY <1>2 DEF AcquireMutex, ParentPhases
<1>3. CASE SnapshotListeners(e)
  BY <1>3 DEF SnapshotListeners, ParentPhases, seccomp_notify_fds
<1>4. CASE AbortBeforeClone(e)
  BY <1>4 DEF AbortBeforeClone, ParentPhases
<1>5. CASE CloneChild(e)
  BY <1>5 DEF CloneChild, ParentPhases, ChildPhases, AlivePhases, SharingPhases
<1>6. CASE ReadSlot(e)
  <2>1. Head(toParent[e]) \in Messages /\ Tail(toParent[e]) \in Seq(Messages)
    BY <1>6 DEF ReadSlot
  <2> QED
    BY <1>6, <2>1 DEF ReadSlot, ParentPhases, Messages
<1>7. CASE ReadDetached(e)
  <2>1. Tail(toParent[e]) \in Seq(Messages)
    BY <1>7 DEF ReadDetached
  <2> QED
    BY <1>7, <2>1 DEF ReadDetached, ParentPhases
<1>8. CASE ProbeFindsDeadChild(e)
  BY <1>8 DEF ProbeFindsDeadChild, ParentPhases, ChildPhases
<1>9. CASE DropChildSock(e)
  BY <1>9 DEF DropChildSock, ParentPhases
<1>10. CASE ValidateListener(e)
  BY <1>10 DEF ValidateListener, ParentPhases
<1>11. CASE WriteAck(e)
  <2>1. OpenSomewhere(FileOf("child", e)) \in BOOLEAN
    BY DEF OpenSomewhere
  <2> QED
    BY <1>11, <2>1 DEF WriteAck, ParentPhases
<1>12. CASE FinishBootstrap(e)
  BY <1>12 DEF FinishBootstrap, ParentPhases
<1>13. CASE KillAndReap(e)
  BY <1>13 DEF KillAndReap, ParentPhases, ChildPhases
<1>14. CASE ListNewListeners(e)
  <2>1. PICK listed \in {{}, seccomp_notify_fds} :
          /\ toClose' = [toClose EXCEPT ![e] =
                           (listed \cup ({known[e]} \cap Slots)) \ snapshot[e]]
          /\ unlisted' = [unlisted EXCEPT ![e] =
                            listed # seccomp_notify_fds /\ known[e] = NoSlot]
    BY <1>14 DEF ListNewListeners
  <2>2. listed \subseteq Slots
    BY <2>1 DEF seccomp_notify_fds
  <2>3. toClose' \in [Execs -> SUBSET Slots] /\ unlisted' \in [Execs -> BOOLEAN]
    BY <2>1, <2>2
  <2> QED
    BY <1>14, <2>3 DEF ListNewListeners, ParentPhases
<1>15. CASE CloseNewListener(e)
  <2>1. PICK s \in toClose[e] :
          /\ fdTable' = Closed(fdTable, {s})
          /\ toClose' = [toClose EXCEPT ![e] = @ \ {s}]
    BY <1>15 DEF CloseNewListener
  <2> QED
    BY <1>15, <2>1 DEF CloseNewListener, execVars
<1>16. CASE CloseRemaining(e)
  BY <1>16 DEF CloseRemaining, ParentPhases
<1>17. CASE Disown(e)
  BY <1>17 DEF Disown, ParentPhases
<1>18. CASE ReleaseMutex(e)
  BY <1>18 DEF ReleaseMutex, ParentPhases
<1>19. CASE Drop(e)
  BY <1>19 DEF Drop, ForgetCloneLocals, ParentPhases, NoSlot
<1>20. CASE ReapChild(e)
  BY <1>20 DEF ReapChild, ParentPhases, ChildPhases
<1>21. CASE KillSupervised(e)
  BY <1>21 DEF KillSupervised, ParentPhases, ChildPhases
<1>22. CASE BootstrapFails(e)
  BY <1>22 DEF BootstrapFails, ParentPhases
<1> QED
  BY <1>1, <1>2, <1>3, <1>4, <1>5, <1>6, <1>7, <1>8, <1>9, <1>10, <1>11, <1>12,
     <1>13, <1>14, <1>15, <1>16, <1>17, <1>18, <1>19, <1>20, <1>21, <1>22
  DEF ParentStep

LEMMA ChildStepTypeOK ==
  ASSUME TypeOK, NEW e \in Execs, BootstrapStep(e)
  PROVE  TypeOK'
<1> USE DEF TypeOK, HostTypeOK, ExecTypeOK, cloneVars, hostVars, ChildMove,
            ChildPhases, AlivePhases, SharingPhases
<1>1. CASE InstallListener(e)
  <2>1. PICK s \in LowestFree(fdTable) :
          /\ fdTable' = [fdTable EXCEPT ![s] = FileOf("listener", e)]
          /\ lslot' = [lslot EXCEPT ![e] = s]
    BY <1>1 DEF InstallListener
  <2>2. s \in Slots
    BY LowestFreeIsFree DEF LowestFree
  <2> QED
    BY <1>1, <2>1, <2>2, EntryTypes DEF InstallListener, Kinds
<1>2. CASE InstallFails(e)
  BY <1>2 DEF InstallFails
<1>3. CASE ReportSlot(e)
  <2>1. [kind |-> "LISTENER", slot |-> lslot[e]] \in Messages
    BY DEF Messages
  <2> QED
    BY <1>3, <2>1, WriteType DEF ReportSlot
<1>4. CASE Unshare(e)
  BY <1>4, CopyType DEF Unshare
<1>5. CASE SendDetached(e)
  <2>1. [kind |-> "DETACHED", slot |-> NoSlot] \in Messages
    BY DEF Messages
  <2>2. childTable' \in [Execs -> [Slots -> Entries]]
    BY <1>5, ClosedType DEF SendDetached
  <2>3. toParent' \in [Execs -> Seq(Messages)]
    BY <1>5, <2>1, WriteType DEF SendDetached
  <2> QED
    BY <1>5, <2>2, <2>3 DEF SendDetached
<1>6. CASE ReadAck(e)
  BY <1>6 DEF ReadAck
<1>7. CASE ScrubDescriptors(e)
  BY <1>7, EmptyType DEF ScrubDescriptors
<1>8. CASE Execve(e)
  BY <1>8 DEF Execve
<1> QED
  BY <1>1, <1>2, <1>3, <1>4, <1>5, <1>6, <1>7, <1>8 DEF BootstrapStep

LEMMA AppStepTypeOK ==
  ASSUME TypeOK, AppStep
  PROVE  TypeOK'
<1> USE DEF TypeOK, HostTypeOK, ExecTypeOK, execVars, cloneVars
<1>0. UNCHANGED <<execVars, cloneVars>>
  BY DEF AppStep
<1>1. CASE AppOpen
  <2>1. PICK s \in LowestFree(fdTable) : fdTable' = [fdTable EXCEPT ![s] = AppFile]
    BY <1>1 DEF AppOpen
  <2>2. s \in Slots
    BY LowestFreeIsFree DEF LowestFree
  <2>3. fdTable' \in [Slots -> Entries]
    BY <2>1, <2>2, EntryTypes
  <2>4. UNCHANGED <<childTable, bootstrapMutex>>
    BY <1>1 DEF AppOpen
  <2> QED
    BY <1>0, <2>3, <2>4
<1>2. CASE AppClose
  <2>1. fdTable' \in [Slots -> Entries]
    <3>1. PICK s \in Slots : fdTable' = Closed(fdTable, {s})
      BY <1>2 DEF AppClose
    <3> QED
      BY <3>1, ClosedType
  <2>2. UNCHANGED <<childTable, bootstrapMutex>>
    BY <1>2 DEF AppClose
  <2> QED
    BY <1>0, <2>1, <2>2
<1> QED
  BY <1>1, <1>2 DEF AppStep

LEMMA NextTypeOK == TypeOK /\ [Next]_vars => TypeOK'
<1> SUFFICES ASSUME TypeOK, [Next]_vars PROVE TypeOK'
  OBVIOUS
<1>1. CASE UNCHANGED vars
  BY <1>1 DEF vars, hostVars, execVars, cloneVars, TypeOK, HostTypeOK, ExecTypeOK
<1>2. CASE AppStep
  BY <1>2, AppStepTypeOK
<1>3. ASSUME NEW e \in CloneExecs, CloneStep(e) PROVE TypeOK'
  BY <1>3, CloneAssumption, ParentStepTypeOK, ChildStepTypeOK, SharedStepTypeOK
  DEF CloneStep
<1> QED
  BY <1>1, <1>2, <1>3 DEF Next, CloneNext

\* Every reachable state is well typed, however many calls bootstrap at a time
\* and however small the descriptor table is.
THEOREM TypeCorrect == Spec => []TypeOK
BY InitTypeOK, NextTypeOK, PTL DEF Spec

-----------------------------------------------------------------------------
(***************************************************************************)
(* The inductive invariant.  SharingIsExclusive, SnapshotIsCurrent and the *)
(* rest are not inductive: each leans on where parent and child are        *)
(* relative to each other, on what is in flight between them and on which  *)
(* table entries an execution accounts for.  The conjuncts below say so,   *)
(* most of them for one execution at a time.                               *)
(***************************************************************************)

Holding == Critical \cup {"closeNotify"}
BeforeClone == {"idle", "paired", "prepared", "locked", "snapped"}
AwaitsChild == {"awaitSlot", "awaitDetached"}

\* The mutex is held by the execution whose thread is in a critical section.
MutexInv == \A e \in CloneExecs : bootstrapMutex = e <=> pc[e] \in Holding

\* How far the child can be when the parent is at a given phase.
PhaseInv(e) ==
  /\ pc[e] \in BeforeClone \cup Holding
               \cup {"supervising", "dropNotify", "drop", "done", "failed"}
  /\ pc[e] \in BeforeClone => cpc[e] = "none"
  /\ pc[e] \in AwaitsChild => cpc[e] \in SharingPhases \cup {"private", "detached", "dead"}
  /\ pc[e] \in {"detached", "validate", "owned", "ackFailed"} => cpc[e] \in {"detached", "dead"}
  /\ pc[e] = "kill" =>
       cpc[e] \in SharingPhases \cup {"private", "detached", "dead", "reaped"}
  /\ pc[e] \in {"ackSent", "supervising"} =>
       cpc[e] \in {"detached", "acked", "scrubbed", "target", "dead"}
  /\ pc[e] \in {"sweepList", "sweep", "disown", "dropNotify", "closeNotify", "done"} =>
       cpc[e] = "reaped"
  /\ pc[e] \in {"unlock", "drop", "failed"} => cpc[e] \in {"none", "reaped"}
  /\ ack[e] => pc[e] \in {"ackSent", "supervising", "dropNotify", "closeNotify"}

\* The descriptors the parent owns are open under the numbers it has for them,
\* and the table has no other entry of this execution but its listener.
Accounts(e) ==
  /\ \A k \in held[e] : fds[e][k] \in Slots /\ fdTable[fds[e][k]] = FileOf(k, e)
  /\ \A s \in Slots :
       fdTable[s].owner = e /\ fdTable[s].kind # "listener" =>
         fdTable[s].kind \in held[e] /\ fds[e][fdTable[s].kind] = s

\* Which of them that is at a given phase.
HeldInv(e) ==
  /\ Accounts(e)
  /\ pc[e] \in {"idle", "dropNotify", "closeNotify", "done", "failed"} => held[e] = {}
  /\ pc[e] = "paired" => held[e] = {"sup", "child"}
  /\ pc[e] \in {"prepared", "locked", "snapped", "detached"} \cup AwaitsChild => held[e] = Ends
  /\ pc[e] = "kill" /\ cpc[e] \in SharingPhases \cup {"private"} => held[e] = Ends
  /\ pc[e] \in {"validate", "owned", "ackSent"} => held[e] = {"sup", "pipe"}
  /\ pc[e] = "supervising" => held[e] = {"pipe"}

Reported(e) == [kind |-> "LISTENER", slot |-> lslot[e]]
Detached == [kind |-> "DETACHED", slot |-> NoSlot]

\* What is in flight from the child to the parent.
MessagesInv(e) ==
  /\ pc[e] \in BeforeClone => toParent[e] = <<>>
  /\ pc[e] = "awaitSlot" =>
       /\ cpc[e] \in {"shared", "listening"} => toParent[e] = <<>>
       /\ cpc[e] \in {"reported", "private"} => toParent[e] = <<Reported(e)>>
       /\ cpc[e] = "detached" => toParent[e] = <<Reported(e), Detached>>
       /\ cpc[e] = "dead" => toParent[e] \in {<<>>, <<Reported(e)>>, <<Reported(e), Detached>>}
  /\ pc[e] = "awaitDetached" =>
       /\ cpc[e] \notin {"shared", "listening"}
       /\ cpc[e] \in {"reported", "private"} => toParent[e] = <<>>
       /\ cpc[e] = "detached" => toParent[e] = <<Detached>>
       /\ cpc[e] = "dead" => toParent[e] \in {<<>>, <<Detached>>}
  /\ cpc[e] = "private" => childTable[e][fds[e]["child"]] = FileOf("child", e)

HasListener(e, s) == fdTable[s].kind = "listener" /\ fdTable[s].owner = e
ListenerThere(e) == lslot[e] \in Slots /\ fdTable[lslot[e]] = FileOf("listener", e)

\* The listener of an execution is at lslot from its installation until the
\* parent closes it, and what the parent knows of it is right.  Only a cleanup
\* that could not find it leaves it open.
ListenerInv(e) ==
  /\ pc[e] # "failed" => \A s \in Slots : HasListener(e, s) => s = lslot[e]
  /\ \A s, t \in Slots : HasListener(e, s) /\ HasListener(e, t) => s = t
  /\ cpc[e] \in {"none", "shared"} => \A s \in Slots : ~HasListener(e, s)
  /\ pc[e] \in {"unlock", "drop", "failed", "done"} /\ ~unlisted[e] =>
       \A s \in Slots : ~HasListener(e, s)
  /\ unlisted[e] => pc[e] \in {"sweep", "unlock", "drop", "failed"}
  /\ cpc[e] \in {"listening", "reported", "private", "detached", "acked", "scrubbed", "target"}
       => ListenerThere(e)
  /\ pc[e] = "awaitSlot" /\ toParent[e] # <<>> => ListenerThere(e)
  /\ pc[e] \in BeforeClone \cup {"awaitSlot"} => known[e] = NoSlot
  /\ pc[e] \in {"awaitDetached", "detached", "validate", "owned", "ackSent", "ackFailed",
                "disown", "supervising", "dropNotify", "closeNotify"} =>
       known[e] = lslot[e] /\ ListenerThere(e)
  /\ pc[e] \in {"kill", "sweepList"} /\ known[e] # NoSlot =>
       known[e] = lslot[e] /\ ListenerThere(e)
  /\ pc[e] = "kill" /\ cpc[e] = "shared" => known[e] = NoSlot
  /\ pc[e] = "sweep" =>
       toClose[e] = IF unlisted[e] THEN {} ELSE {s \in Slots : HasListener(e, s)}

LocalInv(e) == PhaseInv(e) /\ HeldInv(e) /\ MessagesInv(e) /\ ListenerInv(e)

SnapshotInv(e) ==
  pc[e] \in Critical \ {"locked", "unlock"} =>
    snapshot[e] = {s \in seccomp_notify_fds : fdTable[s].owner # e}

IInv ==
  /\ TypeOK
  /\ MutexInv
  /\ \A e \in CloneExecs : LocalInv(e)
  /\ \A e \in CloneExecs : SnapshotInv(e)

-----------------------------------------------------------------------------
(* Frames: what a step of execution e leaves alone.                        *)

\* The variables of f do not change.
VarsKept(f) ==
  /\ pc'[f] = pc[f] /\ cpc'[f] = cpc[f] /\ fds'[f] = fds[f] /\ held'[f] = held[f]
  /\ known'[f] = known[f] /\ toParent'[f] = toParent[f] /\ ack'[f] = ack[f]
  /\ snapshot'[f] = snapshot[f] /\ toClose'[f] = toClose[f] /\ lslot'[f] = lslot[f]
  /\ childTable'[f] = childTable[f] /\ unlisted'[f] = unlisted[f]

\* No entry of f comes or goes.
EntriesKept(f) ==
  \A s \in Slots :
    fdTable[s].owner = f \/ fdTable'[s].owner = f => fdTable'[s] = fdTable[s]

\* No listener comes or goes.
ListenersKept ==
  \A s \in Slots :
    fdTable'[s] = fdTable[s] \/ (fdTable[s].kind # "listener" /\ fdTable'[s].kind # "listener")

\* The variables of the executions other than e do not change.
VarsStep(e) == \A f \in Execs \ {e} : VarsKept(f)

\* Only free entries are filled, and only for e; only entries of e are freed.
TableStep(e) ==
  \A s \in Slots :
    \/ fdTable'[s] = fdTable[s]
    \/ /\ fdTable[s] = Free \/ fdTable[s].owner = e
       /\ fdTable'[s] = Free \/ fdTable'[s].owner = e

\* The mutex stays, or e takes it, or e gives it back.
MutexStep(e) ==
  /\ \/ bootstrapMutex' = bootstrapMutex
     \/ bootstrapMutex = NoExec /\ bootstrapMutex' = e
     \/ bootstrapMutex = e /\ bootstrapMutex' = NoExec
  /\ bootstrapMutex' = e <=> pc'[e] \in Holding

\* Listeners come and go only while e holds the mutex.
ListenersStep(e) == bootstrapMutex = e \/ ListenersKept

\* What every other call may rely on.
Frame(e) == VarsStep(e) /\ TableStep(e) /\ MutexStep(e)

LEMMA FreeIsNobodys ==
  ASSUME NEW f \in Execs
  PROVE  Free.owner # f /\ AppFile.owner # f /\ Free.kind = "free" /\ AppFile.kind = "app"
BY HostAssumption DEF Free, AppFile

\* A step that leaves the variables and the entries of f alone preserves what
\* the invariant says of f ...
LEMMA LocalFrame ==
  ASSUME NEW f \in Execs, VarsKept(f), EntriesKept(f), LocalInv(f)
  PROVE  LocalInv(f)'
<1>1. PhaseInv(f)'
  BY DEF LocalInv, PhaseInv, VarsKept
<1>2. \A k : FileOf(k, f).owner = f
  BY DEF FileOf
<1>3. HeldInv(f)'
  BY <1>2 DEF LocalInv, HeldInv, Accounts, VarsKept, EntriesKept
<1>4. MessagesInv(f)'
  BY DEF LocalInv, MessagesInv, VarsKept, Reported
<1>5. \A s \in Slots : HasListener(f, s)' <=> HasListener(f, s)
  BY DEF HasListener, EntriesKept
<1>6. ListenerThere(f) => ListenerThere(f)'
  BY <1>2 DEF ListenerThere, VarsKept, EntriesKept
<1>7. ListenerInv(f)'
  BY <1>5, <1>6 DEF LocalInv, ListenerInv, VarsKept
<1> QED
  BY <1>1, <1>3, <1>4, <1>7 DEF LocalInv

\* ... and what it says of the snapshot of f, when the listeners stay while f
\* is in its critical section.
LEMMA SnapshotFrame ==
  ASSUME NEW f \in Execs, VarsKept(f), SnapshotInv(f),
         pc[f] \in Critical => ListenersKept
  PROVE  SnapshotInv(f)'
<1> SUFFICES ASSUME pc[f] \in Critical \ {"locked", "unlock"}
             PROVE  snapshot[f] = {s \in seccomp_notify_fds : fdTable[s].owner # f}'
  BY DEF SnapshotInv, VarsKept
<1>1. {s \in seccomp_notify_fds : fdTable[s].owner # f}'
        = {s \in seccomp_notify_fds : fdTable[s].owner # f}
  BY DEF ListenersKept, seccomp_notify_fds
<1> QED
  BY <1>1 DEF SnapshotInv

\* Its own snapshot stays right while e edits its own entries.
LEMMA OwnSnapshot ==
  ASSUME NEW e \in Execs, SnapshotInv(e), TableStep(e), snapshot'[e] = snapshot[e],
         pc'[e] \in Critical \ {"locked", "unlock"} => pc[e] \in Critical \ {"locked", "unlock"}
  PROVE  SnapshotInv(e)'
<1>1. {s \in seccomp_notify_fds : fdTable[s].owner # e}'
        = {s \in seccomp_notify_fds : fdTable[s].owner # e}
  BY FreeIsNobodys DEF TableStep, seccomp_notify_fds
<1> QED
  BY <1>1 DEF SnapshotInv

\* A step of e preserves the invariant if it keeps to the frame above and
\* preserves what the invariant says of e.
LEMMA StepPreserves ==
  ASSUME IInv, NEW e \in Execs, e \in CloneExecs, TypeOK', VarsStep(e), TableStep(e), MutexStep(e),
         ListenersStep(e), LocalInv(e)', SnapshotInv(e)'
  PROVE  IInv' /\ Frame(e)
<1>1. MutexInv'
  BY HostAssumption, CloneAssumption DEF IInv, MutexInv, MutexStep, VarsStep, VarsKept
<1>2. ASSUME NEW f \in Execs, f \in CloneExecs, f # e PROVE LocalInv(f)' /\ SnapshotInv(f)'
  <2>1. VarsKept(f) /\ EntriesKept(f)
    BY <1>2, FreeIsNobodys DEF VarsStep, TableStep, EntriesKept
  <2>2. pc[f] \in Critical => ListenersKept
    BY <1>2 DEF IInv, MutexInv, Holding, ListenersStep
  <2> QED
    BY <1>2, <2>1, <2>2, LocalFrame, SnapshotFrame DEF IInv
<1> QED
  BY <1>1, <1>2, CloneAssumption DEF IInv, Frame

\* A step of nobody preserves it if it leaves everybody alone.
LEMMA QuietStepPreserves ==
  ASSUME IInv, TypeOK', \A f \in Execs : VarsKept(f) /\ EntriesKept(f),
         ListenersKept, bootstrapMutex' = bootstrapMutex
  PROVE  IInv'
<1>1. MutexInv'
  BY CloneAssumption DEF IInv, MutexInv, VarsKept
<1>2. \A f \in CloneExecs : LocalInv(f)' /\ SnapshotInv(f)'
  BY LocalFrame, SnapshotFrame, CloneAssumption DEF IInv
<1> QED
  BY <1>1, <1>2 DEF IInv

LEMMA FileOfFields ==
  ASSUME NEW k, NEW e
  PROVE  FileOf(k, e).kind = k /\ FileOf(k, e).owner = e
BY DEF FileOf

LEMMA SlotNotNoSlot == NoSlot \notin Slots
BY HostAssumption DEF NoSlot

LEMMA ShortSequences ==
  ASSUME NEW a, NEW b
  PROVE  /\ Append(<<>>, a) = <<a>> /\ Append(<<a>>, b) = <<a, b>>
         /\ Head(<<a>>) = a /\ Head(<<a, b>>) = a
         /\ Tail(<<a>>) = <<>> /\ Tail(<<a, b>>) = <<b>>
         /\ <<a>> # <<>> /\ <<a, b>> # <<>>
<1>1. Append(<<>>, a) = <<a>>
  OBVIOUS
<1>2. Append(<<a>>, b) = <<a, b>>
  <2> DEFINE s == Append(<<a>>, b)
             t == <<a, b>>
  <2>1. s \in Seq({a, b}) /\ t \in Seq({a, b})
    OBVIOUS
  <2>2. Len(s) = 2 /\ Len(t) = 2
    OBVIOUS
  <2>3. s[1] = a /\ s[2] = b /\ t[1] = a /\ t[2] = b
    OBVIOUS
  <2>4. \A i \in 1 .. 2 : s[i] = t[i]
    BY <2>3
  <2> QED
    BY <2>1, <2>2, <2>4, SeqEqual
<1>3. Head(<<a>>) = a
  OBVIOUS
<1>4. Head(<<a, b>>) = a
  OBVIOUS
<1>5. Tail(<<a>>) = <<>>
  OBVIOUS
<1>6. Tail(<<a, b>>) = <<b>>
  OBVIOUS
<1>7. <<a>> # <<>> /\ <<a, b>> # <<>>
  OBVIOUS
<1> QED
  BY <1>1, <1>2, <1>3, <1>4, <1>5, <1>6, <1>7

\* Closing ends that e holds disturbs nothing else.
LEMMA CloseHeldFrame ==
  ASSUME TypeOK, NEW e \in Execs, Accounts(e), NEW K,
         fdTable' = Closed(fdTable, HeldSlots(e, K)),
         held'[e] = held[e] \ K,
         fds'[e] = fds[e] \/ held'[e] = {}
  PROVE  /\ TableStep(e) /\ ListenersStep(e) /\ Accounts(e)'
         /\ \A s \in Slots : HasListener(e, s)' <=> HasListener(e, s)
         /\ ListenerThere(e) /\ lslot'[e] = lslot[e] => ListenerThere(e)'
<1>1. held[e] \subseteq Ends
  BY DEF TypeOK, ExecTypeOK
<1>2. \A s \in HeldSlots(e, K) :
        s \in Slots /\ fdTable[s].owner = e /\ fdTable[s].kind \in held[e] \cap K
  BY FileOfFields DEF HeldSlots, Accounts
<1>3. \A s \in Slots : fdTable'[s] = IF s \in HeldSlots(e, K) THEN Free ELSE fdTable[s]
  BY DEF Closed
<1>4. TableStep(e) /\ ListenersStep(e)
  BY <1>1, <1>2, <1>3, FreeIsNobodys DEF TableStep, ListenersStep, ListenersKept, Ends
<1>5. \A k \in held[e] \ K : fds[e][k] \notin HeldSlots(e, K)
  BY <1>2, FileOfFields DEF Accounts
<1>6. \A s \in Slots : fdTable[s].owner = e /\ fdTable[s].kind \in held[e] \cap K
                       /\ fdTable[s].kind # "listener" => s \in HeldSlots(e, K)
  BY DEF HeldSlots, Accounts
<1>7. Accounts(e)'
  <2>1. \A k \in held'[e] : fds'[e][k] \in Slots /\ fdTable'[fds'[e][k]] = FileOf(k, e)
    BY <1>3, <1>5 DEF Accounts
  <2>2. ASSUME NEW s \in Slots, fdTable'[s].owner = e, fdTable'[s].kind # "listener"
        PROVE  fdTable'[s].kind \in held'[e] /\ fds'[e][fdTable'[s].kind] = s
    <3>1. s \notin HeldSlots(e, K) /\ fdTable'[s] = fdTable[s]
      BY <1>3, <2>2, FreeIsNobodys
    <3> QED
      BY <1>6, <2>2, <3>1 DEF Accounts
  <2> QED
    BY <2>1, <2>2 DEF Accounts
<1>8. \A s \in Slots : HasListener(e, s)' <=> HasListener(e, s)
  BY <1>1, <1>2, <1>3, FreeIsNobodys DEF HasListener, Ends
<1>9. ListenerThere(e) /\ lslot'[e] = lslot[e] => ListenerThere(e)'
  BY <1>1, <1>2, <1>3, FileOfFields DEF ListenerThere, Ends
<1> QED
  BY <1>4, <1>7, <1>8, <1>9

\* Closing a listener of e, while e holds the mutex.
LEMMA CloseListenerFrame ==
  ASSUME TypeOK, NEW e \in Execs, Accounts(e), bootstrapMutex = e,
         NEW l \in Slots, HasListener(e, l),
         fdTable' = Closed(fdTable, {l}), held'[e] = held[e],
         fds'[e] = fds[e] \/ held'[e] = {}
  PROVE  /\ TableStep(e) /\ ListenersStep(e) /\ Accounts(e)'
         /\ \A s \in Slots : HasListener(e, s)' <=> HasListener(e, s) /\ s # l
<1>1. \A s \in Slots : fdTable'[s] = IF s = l THEN Free ELSE fdTable[s]
  BY DEF Closed
<1>2. TableStep(e) /\ ListenersStep(e)
  BY <1>1 DEF TableStep, ListenersStep, HasListener
<1>3. \A k \in held[e] : k # "listener"
  BY DEF TypeOK, ExecTypeOK, Ends
<1>4. Accounts(e)'
  <2>1. \A k \in held[e] : fds[e][k] # l
    BY <1>3, FileOfFields DEF Accounts, HasListener
  <2>2. \A k \in held'[e] : fds'[e][k] \in Slots /\ fdTable'[fds'[e][k]] = FileOf(k, e)
    <3>1. \A k \in held[e] : fds[e][k] \in Slots /\ fdTable[fds[e][k]] = FileOf(k, e)
      BY DEF Accounts
    <3>2. \A k \in held[e] : fdTable'[fds[e][k]] = fdTable[fds[e][k]]
      BY <1>1, <2>1, <3>1
    <3> QED
      BY <3>1, <3>2
  <2>3. \A s \in Slots : fdTable'[s].owner = e /\ fdTable'[s].kind # "listener" =>
          fdTable'[s].kind \in held'[e] /\ fds'[e][fdTable'[s].kind] = s
    <3>1. \A s \in Slots : fdTable'[s].owner = e => fdTable'[s] = fdTable[s]
      BY <1>1, FreeIsNobodys
    <3>2. \A s \in Slots : fdTable[s].owner = e /\ fdTable[s].kind # "listener" =>
            fdTable[s].kind \in held[e] /\ fds[e][fdTable[s].kind] = s
      BY DEF Accounts
    <3> QED
      BY <3>1, <3>2
  <2> QED
    BY <2>2, <2>3 DEF Accounts
<1> QED
  BY <1>1, <1>2, <1>4, FreeIsNobodys DEF HasListener

\* The table does not change.
LEMMA QuietFrame ==
  ASSUME NEW e \in Execs, UNCHANGED fdTable
  PROVE  /\ TableStep(e) /\ ListenersStep(e)
         /\ Accounts(e) /\ fds'[e] = fds[e] /\ held'[e] = held[e] => Accounts(e)'
         /\ \A s \in Slots : HasListener(e, s)' <=> HasListener(e, s)
         /\ ListenerThere(e) /\ lslot'[e] = lslot[e] => ListenerThere(e)'
BY DEF TableStep, ListenersStep, ListenersKept, Accounts, HasListener, ListenerThere

\* The invariant, unpacked for the execution that takes a step.
LEMMA Facts ==
  ASSUME IInv, NEW e \in Execs, e \in CloneExecs
  PROVE  /\ TypeOK /\ PhaseInv(e) /\ HeldInv(e) /\ Accounts(e) /\ MessagesInv(e)
         /\ ListenerInv(e) /\ SnapshotInv(e)
         /\ bootstrapMutex = e <=> pc[e] \in Holding
BY DEF IInv, LocalInv, MutexInv, HeldInv

-----------------------------------------------------------------------------
(* The steps of the parent up to the acknowledgement.                      *)

LEMMA HandshakePreserves ==
  ASSUME IInv, NEW e \in Execs, e \in CloneExecs, TypeOK',
         \/ AcquireMutex(e) \/ SnapshotListeners(e) \/ CloneChild(e) \/ ReadSlot(e)
         \/ ReadDetached(e) \/ ProbeFindsDeadChild(e) \/ BootstrapFails(e)
         \/ ValidateListener(e) \/ WriteAck(e)
  PROVE  IInv' /\ Frame(e)
<1> USE DEF cloneVars, hostVars, Move, ChildMove
<1>1. /\ TypeOK /\ PhaseInv(e) /\ HeldInv(e) /\ Accounts(e) /\ MessagesInv(e)
      /\ ListenerInv(e) /\ SnapshotInv(e)
      /\ bootstrapMutex = e <=> pc[e] \in Holding
  BY Facts
<1>2. CASE AcquireMutex(e)
  <2>1. /\ pc[e] = "prepared" /\ pc'[e] = "locked" /\ cpc'[e] = cpc[e]
        /\ fds'[e] = fds[e] /\ held'[e] = held[e] /\ known'[e] = known[e]
        /\ toParent'[e] = toParent[e] /\ ack'[e] = ack[e]
        /\ snapshot'[e] = snapshot[e] /\ toClose'[e] = toClose[e]
        /\ lslot'[e] = lslot[e] /\ unlisted'[e] = unlisted[e] /\ childTable'[e] = childTable[e]
    BY <1>1, <1>2 DEF AcquireMutex, TypeOK, HostTypeOK, ExecTypeOK
  <2>2. /\ TableStep(e) /\ ListenersStep(e)
        /\ \A s \in Slots : HasListener(e, s)' <=> HasListener(e, s)
    BY <1>2, QuietFrame DEF AcquireMutex
  <2>3. Accounts(e)' /\ (ListenerThere(e) => ListenerThere(e)')
    BY <1>1, <1>2, <2>1, QuietFrame DEF AcquireMutex
  <2>4. PhaseInv(e)'
    BY <1>1, <2>1
    DEF PhaseInv, BeforeClone, AwaitsChild, Holding, Critical, SharingPhases
  <2>5. HeldInv(e)'
    BY <1>1, <2>1, <2>2, <2>3 DEF HeldInv, PhaseInv, BeforeClone, AwaitsChild, SharingPhases
  <2>6. MessagesInv(e)'
    BY <1>1, <2>1
    DEF MessagesInv, PhaseInv, Reported, Detached, BeforeClone, AwaitsChild,
        SharingPhases
  <2>7. ListenerInv(e)'
    BY <1>1, <2>1, <2>2, <2>3
    DEF ListenerInv, PhaseInv, MessagesInv, BeforeClone, AwaitsChild, SharingPhases
  <2>8. VarsStep(e) /\ MutexStep(e)
    BY <1>1, <1>2, <2>1, HostAssumption
    DEF AcquireMutex, VarsStep, VarsKept, MutexStep, Holding, Critical, TypeOK,
        HostTypeOK, ExecTypeOK
  <2>9. SnapshotInv(e)'
    BY <1>1, <2>1, <2>2, <2>3, OwnSnapshot DEF Critical
  <2> QED
    BY <2>2, <2>3, <2>4, <2>5, <2>6, <2>7, <2>8, <2>9, StepPreserves DEF LocalInv
<1>3. CASE SnapshotListeners(e)
  <2>1. /\ pc[e] = "locked" /\ pc'[e] = "snapped" /\ cpc'[e] = cpc[e]
        /\ fds'[e] = fds[e] /\ held'[e] = held[e] /\ known'[e] = known[e]
        /\ toParent'[e] = toParent[e] /\ ack'[e] = ack[e]
        /\ snapshot'[e] = seccomp_notify_fds /\ toClose'[e] = toClose[e]
        /\ lslot'[e] = lslot[e] /\ unlisted'[e] = unlisted[e] /\ childTable'[e] = childTable[e]
    BY <1>1, <1>3 DEF SnapshotListeners, TypeOK, HostTypeOK, ExecTypeOK
  <2>2. /\ TableStep(e) /\ ListenersStep(e)
        /\ \A s \in Slots : HasListener(e, s)' <=> HasListener(e, s)
    BY <1>3, QuietFrame DEF SnapshotListeners
  <2>3. Accounts(e)' /\ (ListenerThere(e) => ListenerThere(e)')
    BY <1>1, <1>3, <2>1, QuietFrame DEF SnapshotListeners
  <2>4. PhaseInv(e)'
    BY <1>1, <2>1
    DEF PhaseInv, BeforeClone, AwaitsChild, Holding, Critical, SharingPhases
  <2>5. HeldInv(e)'
    BY <1>1, <2>1, <2>2, <2>3 DEF HeldInv, PhaseInv, BeforeClone, AwaitsChild, SharingPhases
  <2>6. MessagesInv(e)'
    BY <1>1, <2>1
    DEF MessagesInv, PhaseInv, Reported, Detached, BeforeClone, AwaitsChild,
        SharingPhases
  <2>7. ListenerInv(e)'
    BY <1>1, <2>1, <2>2, <2>3
    DEF ListenerInv, PhaseInv, MessagesInv, BeforeClone, AwaitsChild, SharingPhases
  <2>8. VarsStep(e) /\ MutexStep(e)
    BY <1>1, <1>3, <2>1, HostAssumption
    DEF SnapshotListeners, VarsStep, VarsKept, MutexStep, Holding, Critical, TypeOK,
        HostTypeOK, ExecTypeOK
  <2>9. SnapshotInv(e)'
    <3>1. cpc[e] = "none"
      BY <1>1, <2>1 DEF PhaseInv, BeforeClone
    <3>2. \A s \in Slots : ~HasListener(e, s)
      BY <1>1, <3>1 DEF ListenerInv
    <3>3. UNCHANGED fdTable
      BY <1>3 DEF SnapshotListeners, hostVars
    <3> QED
      BY <2>1, <3>2, <3>3 DEF SnapshotInv, seccomp_notify_fds, HasListener
  <2> QED
    BY <2>2, <2>3, <2>4, <2>5, <2>6, <2>7, <2>8, <2>9, StepPreserves DEF LocalInv
<1>4. CASE CloneChild(e)
  <2>1. /\ pc[e] = "snapped" /\ pc'[e] = "awaitSlot"
        /\ cpc[e] = "none" /\ cpc'[e] = "shared" /\ fds'[e] = fds[e]
        /\ held'[e] = held[e] /\ known'[e] = known[e] /\ toParent'[e] = toParent[e]
        /\ ack'[e] = ack[e] /\ snapshot'[e] = snapshot[e]
        /\ toClose'[e] = toClose[e] /\ lslot'[e] = lslot[e] /\ unlisted'[e] = unlisted[e]
        /\ childTable'[e] = childTable[e]
    BY <1>1, <1>4 DEF CloneChild, TypeOK, HostTypeOK, ExecTypeOK
  <2>2. /\ TableStep(e) /\ ListenersStep(e)
        /\ \A s \in Slots : HasListener(e, s)' <=> HasListener(e, s)
    BY <1>4, QuietFrame DEF CloneChild
  <2>3. Accounts(e)' /\ (ListenerThere(e) => ListenerThere(e)')
    BY <1>1, <1>4, <2>1, QuietFrame DEF CloneChild
  <2>4. PhaseInv(e)'
    BY <1>1, <2>1
    DEF PhaseInv, BeforeClone, AwaitsChild, Holding, Critical, SharingPhases
  <2>5. HeldInv(e)'
    BY <1>1, <2>1, <2>2, <2>3 DEF HeldInv, PhaseInv, BeforeClone, AwaitsChild, SharingPhases
  <2>6. MessagesInv(e)'
    BY <1>1, <2>1
    DEF MessagesInv, PhaseInv, Reported, Detached, BeforeClone, AwaitsChild,
        SharingPhases
  <2>7. ListenerInv(e)'
    BY <1>1, <2>1, <2>2, <2>3
    DEF ListenerInv, PhaseInv, MessagesInv, BeforeClone, AwaitsChild, SharingPhases
  <2>8. VarsStep(e) /\ MutexStep(e)
    BY <1>1, <1>4, <2>1, HostAssumption
    DEF CloneChild, VarsStep, VarsKept, MutexStep, Holding, Critical, TypeOK,
        HostTypeOK, ExecTypeOK
  <2>9. SnapshotInv(e)'
    BY <1>1, <2>1, <2>2, <2>3, OwnSnapshot DEF Critical
  <2> QED
    BY <2>2, <2>3, <2>4, <2>5, <2>6, <2>7, <2>8, <2>9, StepPreserves DEF LocalInv
<1>5. CASE ReadSlot(e)
  <2>1. /\ pc[e] = "awaitSlot" /\ pc'[e] = "awaitDetached" /\ toParent[e] # <<>>
        /\ Head(toParent[e]).kind = "LISTENER" /\ cpc'[e] = cpc[e]
        /\ fds'[e] = fds[e] /\ held'[e] = held[e]
        /\ known'[e] = Head(toParent[e]).slot /\ toParent'[e] = Tail(toParent[e])
        /\ ack'[e] = ack[e] /\ snapshot'[e] = snapshot[e]
        /\ toClose'[e] = toClose[e] /\ lslot'[e] = lslot[e] /\ unlisted'[e] = unlisted[e]
        /\ childTable'[e] = childTable[e]
    BY <1>1, <1>5 DEF ReadSlot, TypeOK, HostTypeOK, ExecTypeOK
  <2>2. /\ TableStep(e) /\ ListenersStep(e)
        /\ \A s \in Slots : HasListener(e, s)' <=> HasListener(e, s)
    BY <1>5, QuietFrame DEF ReadSlot
  <2>3. Accounts(e)' /\ (ListenerThere(e) => ListenerThere(e)')
    BY <1>1, <1>5, <2>1, QuietFrame DEF ReadSlot
  <2>4. PhaseInv(e)'
    BY <1>1, <2>1
    DEF PhaseInv, BeforeClone, AwaitsChild, Holding, Critical, SharingPhases
  <2>5. HeldInv(e)'
    BY <1>1, <2>1, <2>2, <2>3 DEF HeldInv, PhaseInv, BeforeClone, AwaitsChild, SharingPhases
  <2>6. MessagesInv(e)'
    <3>1. \/ cpc[e] \in {"reported", "private", "dead"} /\ toParent[e] = <<Reported(e)>>
          \/ cpc[e] \in {"detached", "dead"} /\ toParent[e] = <<Reported(e), Detached>>
      BY <1>1, <2>1 DEF PhaseInv, MessagesInv, AwaitsChild, SharingPhases
    <3>2. \/ cpc[e] \in {"reported", "private", "dead"} /\ toParent'[e] = <<>>
          \/ cpc[e] \in {"detached", "dead"} /\ toParent'[e] = <<Detached>>
      <4>1. Tail(<<Reported(e)>>) = <<>> /\ Tail(<<Reported(e), Detached>>) = <<Detached>>
        BY ShortSequences
      <4>2. toParent'[e] = Tail(toParent[e])
        BY <2>1
      <4> QED
        BY <3>1, <4>1, <4>2
    <3> QED
      BY <1>1, <2>1, <3>2 DEF MessagesInv, BeforeClone
  <2>7. ListenerInv(e)'
    <3>1. Head(toParent[e]).slot = lslot[e]
      <4>1. Head(toParent[e]) = Reported(e)
        BY <1>1, <2>1, ShortSequences
        DEF PhaseInv, MessagesInv, AwaitsChild, SharingPhases
      <4> QED
        BY <4>1 DEF Reported
    <3>2. ListenerThere(e)
      BY <1>1, <2>1 DEF ListenerInv
    <3> QED
      BY <1>1, <2>1, <2>2, <2>3, <3>1, <3>2 DEF ListenerInv, BeforeClone
  <2>8. VarsStep(e) /\ MutexStep(e)
    BY <1>1, <1>5, <2>1, HostAssumption
    DEF ReadSlot, VarsStep, VarsKept, MutexStep, Holding, Critical, TypeOK,
        HostTypeOK, ExecTypeOK
  <2>9. SnapshotInv(e)'
    BY <1>1, <2>1, <2>2, <2>3, OwnSnapshot DEF Critical
  <2> QED
    BY <2>2, <2>3, <2>4, <2>5, <2>6, <2>7, <2>8, <2>9, StepPreserves DEF LocalInv
<1>6. CASE ReadDetached(e)
  <2>1. /\ pc[e] = "awaitDetached" /\ pc'[e] = "detached" /\ toParent[e] # <<>>
        /\ cpc'[e] = cpc[e] /\ fds'[e] = fds[e] /\ held'[e] = held[e]
        /\ known'[e] = known[e] /\ ack'[e] = ack[e] /\ snapshot'[e] = snapshot[e]
        /\ toClose'[e] = toClose[e] /\ lslot'[e] = lslot[e] /\ unlisted'[e] = unlisted[e]
        /\ childTable'[e] = childTable[e]
    BY <1>1, <1>6 DEF ReadDetached, TypeOK, HostTypeOK, ExecTypeOK
  <2>2. /\ TableStep(e) /\ ListenersStep(e)
        /\ \A s \in Slots : HasListener(e, s)' <=> HasListener(e, s)
    BY <1>6, QuietFrame DEF ReadDetached
  <2>3. Accounts(e)' /\ (ListenerThere(e) => ListenerThere(e)')
    BY <1>1, <1>6, <2>1, QuietFrame DEF ReadDetached
  <2>4. PhaseInv(e)'
    BY <1>1, <2>1
    DEF PhaseInv, BeforeClone, AwaitsChild, Holding, Critical, SharingPhases,
        MessagesInv
  <2>5. HeldInv(e)'
    BY <1>1, <2>1, <2>2, <2>3 DEF HeldInv, PhaseInv, BeforeClone, AwaitsChild, SharingPhases
  <2>6. MessagesInv(e)'
    BY <1>1, <2>1
    DEF MessagesInv, PhaseInv, Reported, Detached, BeforeClone, AwaitsChild,
        SharingPhases
  <2>7. ListenerInv(e)'
    BY <1>1, <2>1, <2>2, <2>3
    DEF ListenerInv, PhaseInv, MessagesInv, BeforeClone, AwaitsChild, SharingPhases
  <2>8. VarsStep(e) /\ MutexStep(e)
    BY <1>1, <1>6, <2>1, HostAssumption
    DEF ReadDetached, VarsStep, VarsKept, MutexStep, Holding, Critical, TypeOK,
        HostTypeOK, ExecTypeOK
  <2>9. SnapshotInv(e)'
    BY <1>1, <2>1, <2>2, <2>3, OwnSnapshot DEF Critical
  <2> QED
    BY <2>2, <2>3, <2>4, <2>5, <2>6, <2>7, <2>8, <2>9, StepPreserves DEF LocalInv
<1>7. CASE ProbeFindsDeadChild(e)
  <2>1. /\ pc[e] \in AwaitsChild /\ pc'[e] = "kill"
        /\ cpc[e] = "dead" /\ cpc'[e] = "reaped" /\ fds'[e] = fds[e]
        /\ held'[e] = held[e] /\ known'[e] = known[e] /\ toParent'[e] = toParent[e]
        /\ ack'[e] = ack[e] /\ snapshot'[e] = snapshot[e]
        /\ toClose'[e] = toClose[e] /\ lslot'[e] = lslot[e] /\ unlisted'[e] = unlisted[e]
        /\ childTable'[e] = childTable[e]
    BY <1>1, <1>7 DEF ProbeFindsDeadChild, AwaitsChild, TypeOK, HostTypeOK, ExecTypeOK
  <2>2. /\ TableStep(e) /\ ListenersStep(e)
        /\ \A s \in Slots : HasListener(e, s)' <=> HasListener(e, s)
    BY <1>7, QuietFrame DEF ProbeFindsDeadChild
  <2>3. Accounts(e)' /\ (ListenerThere(e) => ListenerThere(e)')
    BY <1>1, <1>7, <2>1, QuietFrame DEF ProbeFindsDeadChild
  <2>4. PhaseInv(e)'
    BY <1>1, <2>1
    DEF PhaseInv, BeforeClone, AwaitsChild, Holding, Critical, SharingPhases
  <2>5. HeldInv(e)'
    BY <1>1, <2>1, <2>2, <2>3 DEF HeldInv, PhaseInv, BeforeClone, AwaitsChild, SharingPhases
  <2>6. MessagesInv(e)'
    BY <1>1, <2>1
    DEF MessagesInv, PhaseInv, Reported, Detached, BeforeClone, AwaitsChild,
        SharingPhases
  <2>7. ListenerInv(e)'
    BY <1>1, <2>1, <2>2, <2>3
    DEF ListenerInv, PhaseInv, MessagesInv, BeforeClone, AwaitsChild, SharingPhases
  <2>8. VarsStep(e) /\ MutexStep(e)
    BY <1>1, <1>7, <2>1, HostAssumption
    DEF ProbeFindsDeadChild, AwaitsChild, VarsStep, VarsKept, MutexStep, Holding,
        Critical, TypeOK,
        HostTypeOK, ExecTypeOK
  <2>9. SnapshotInv(e)'
    BY <1>1, <2>1, <2>2, <2>3, OwnSnapshot DEF Critical, AwaitsChild
  <2> QED
    BY <2>2, <2>3, <2>4, <2>5, <2>6, <2>7, <2>8, <2>9, StepPreserves DEF LocalInv
<1>8. CASE ValidateListener(e)
  <2>1. /\ pc[e] = "validate" /\ pc'[e] \in {"owned", "kill"} /\ cpc'[e] = cpc[e]
        /\ fds'[e] = fds[e] /\ held'[e] = held[e] /\ known'[e] = known[e]
        /\ toParent'[e] = toParent[e] /\ ack'[e] = ack[e]
        /\ snapshot'[e] = snapshot[e] /\ toClose'[e] = toClose[e]
        /\ lslot'[e] = lslot[e] /\ unlisted'[e] = unlisted[e] /\ childTable'[e] = childTable[e]
    BY <1>1, <1>8 DEF ValidateListener, TypeOK, HostTypeOK, ExecTypeOK
  <2>2. /\ TableStep(e) /\ ListenersStep(e)
        /\ \A s \in Slots : HasListener(e, s)' <=> HasListener(e, s)
    BY <1>8, QuietFrame DEF ValidateListener
  <2>3. Accounts(e)' /\ (ListenerThere(e) => ListenerThere(e)')
    BY <1>1, <1>8, <2>1, QuietFrame DEF ValidateListener
  <2>4. PhaseInv(e)'
    BY <1>1, <2>1
    DEF PhaseInv, BeforeClone, AwaitsChild, Holding, Critical, SharingPhases
  <2>5. HeldInv(e)'
    BY <1>1, <2>1, <2>2, <2>3 DEF HeldInv, PhaseInv, BeforeClone, AwaitsChild, SharingPhases
  <2>6. MessagesInv(e)'
    BY <1>1, <2>1
    DEF MessagesInv, PhaseInv, Reported, Detached, BeforeClone, AwaitsChild,
        SharingPhases
  <2>7. ListenerInv(e)'
    BY <1>1, <2>1, <2>2, <2>3
    DEF ListenerInv, PhaseInv, MessagesInv, BeforeClone, AwaitsChild, SharingPhases
  <2>8. VarsStep(e) /\ MutexStep(e)
    BY <1>1, <1>8, <2>1, HostAssumption
    DEF ValidateListener, VarsStep, VarsKept, MutexStep, Holding, Critical, TypeOK,
        HostTypeOK, ExecTypeOK
  <2>9. SnapshotInv(e)'
    BY <1>1, <2>1, <2>2, <2>3, OwnSnapshot DEF Critical
  <2> QED
    BY <2>2, <2>3, <2>4, <2>5, <2>6, <2>7, <2>8, <2>9, StepPreserves DEF LocalInv
<1>9. CASE WriteAck(e)
  <2>1. /\ pc[e] = "owned" /\ pc'[e] \in {"ackSent", "ackFailed"}
        /\ cpc'[e] = cpc[e] /\ fds'[e] = fds[e] /\ held'[e] = held[e]
        /\ known'[e] = known[e] /\ toParent'[e] = toParent[e]
        /\ ack'[e] => pc'[e] = "ackSent" /\ snapshot'[e] = snapshot[e]
        /\ toClose'[e] = toClose[e] /\ lslot'[e] = lslot[e] /\ unlisted'[e] = unlisted[e]
        /\ childTable'[e] = childTable[e]
    BY <1>1, <1>9 DEF WriteAck, OpenSomewhere, TypeOK, HostTypeOK, ExecTypeOK
  <2>2. /\ TableStep(e) /\ ListenersStep(e)
        /\ \A s \in Slots : HasListener(e, s)' <=> HasListener(e, s)
    BY <1>9, QuietFrame DEF WriteAck
  <2>3. Accounts(e)' /\ (ListenerThere(e) => ListenerThere(e)')
    BY <1>1, <1>9, <2>1, QuietFrame DEF WriteAck
  <2>4. PhaseInv(e)'
    BY <1>1, <2>1
    DEF PhaseInv, BeforeClone, AwaitsChild, Holding, Critical, SharingPhases
  <2>5. HeldInv(e)'
    BY <1>1, <2>1, <2>2, <2>3 DEF HeldInv, PhaseInv, BeforeClone, AwaitsChild, SharingPhases
  <2>6. MessagesInv(e)'
    BY <1>1, <2>1
    DEF MessagesInv, PhaseInv, Reported, Detached, BeforeClone, AwaitsChild,
        SharingPhases
  <2>7. ListenerInv(e)'
    BY <1>1, <2>1, <2>2, <2>3
    DEF ListenerInv, PhaseInv, MessagesInv, BeforeClone, AwaitsChild, SharingPhases
  <2>8. VarsStep(e) /\ MutexStep(e)
    BY <1>1, <1>9, <2>1, HostAssumption
    DEF WriteAck, OpenSomewhere, VarsStep, VarsKept, MutexStep, Holding, Critical,
        TypeOK,
        HostTypeOK, ExecTypeOK
  <2>9. SnapshotInv(e)'
    <3>1. pc[e] \in Critical \ {"locked", "unlock"}
      BY <1>9 DEF WriteAck, Move, Critical
    <3>2. snapshot'[e] = snapshot[e]
      BY <1>9 DEF WriteAck, cloneVars
    <3>3. SnapshotInv(e) /\ TableStep(e)
      BY <1>1, <2>2
    <3> QED
      BY <3>1, <3>2, <3>3, OwnSnapshot
  <2> QED
    BY <2>2, <2>3, <2>4, <2>5, <2>6, <2>7, <2>8, <2>9, StepPreserves DEF LocalInv
<1>10. CASE BootstrapFails(e)
  <2>1. /\ pc[e] \in AwaitsChild /\ pc'[e] = "kill"
        /\ cpc'[e] = cpc[e] /\ fds'[e] = fds[e]
        /\ held'[e] = held[e] /\ known'[e] = known[e] /\ toParent'[e] = toParent[e]
        /\ ack'[e] = ack[e] /\ snapshot'[e] = snapshot[e]
        /\ toClose'[e] = toClose[e] /\ lslot'[e] = lslot[e] /\ unlisted'[e] = unlisted[e]
        /\ childTable'[e] = childTable[e]
    BY <1>1, <1>10 DEF BootstrapFails, AwaitsChild, TypeOK, HostTypeOK, ExecTypeOK
  <2>2. /\ TableStep(e) /\ ListenersStep(e)
        /\ \A s \in Slots : HasListener(e, s)' <=> HasListener(e, s)
    BY <1>10, QuietFrame DEF BootstrapFails
  <2>3. Accounts(e)' /\ (ListenerThere(e) => ListenerThere(e)')
    BY <1>1, <1>10, <2>1, QuietFrame DEF BootstrapFails
  <2>4. PhaseInv(e)'
    BY <1>1, <2>1
    DEF PhaseInv, BeforeClone, AwaitsChild, Holding, Critical, SharingPhases
  <2>5. HeldInv(e)'
    BY <1>1, <2>1, <2>2, <2>3 DEF HeldInv, PhaseInv, BeforeClone, AwaitsChild, SharingPhases
  <2>6. MessagesInv(e)'
    BY <1>1, <2>1
    DEF MessagesInv, PhaseInv, Reported, Detached, BeforeClone, AwaitsChild,
        SharingPhases
  <2>7. ListenerInv(e)'
    BY <1>1, <2>1, <2>2, <2>3
    DEF ListenerInv, PhaseInv, MessagesInv, BeforeClone, AwaitsChild, SharingPhases
  <2>8. VarsStep(e) /\ MutexStep(e)
    BY <1>1, <1>10, <2>1, HostAssumption
    DEF BootstrapFails, AwaitsChild, VarsStep, VarsKept, MutexStep, Holding,
        Critical, TypeOK,
        HostTypeOK, ExecTypeOK
  <2>9. SnapshotInv(e)'
    BY <1>1, <2>1, <2>2, <2>3, OwnSnapshot DEF Critical, AwaitsChild
  <2> QED
    BY <2>2, <2>3, <2>4, <2>5, <2>6, <2>7, <2>8, <2>9, StepPreserves DEF LocalInv
<1> QED
  BY <1>2, <1>3, <1>4, <1>5, <1>6, <1>7, <1>8, <1>9, <1>10

-----------------------------------------------------------------------------
(* The steps of the parent that close ends it holds.                       *)

LEMMA ClosingPreserves ==
  ASSUME IInv, NEW e \in Execs, e \in CloneExecs, TypeOK',
         \/ AbortBeforeClone(e) \/ DropChildSock(e) \/ FinishBootstrap(e)
         \/ CloseRemaining(e) \/ ReapChild(e) \/ KillSupervised(e)
  PROVE  IInv' /\ Frame(e)
<1> USE DEF cloneVars, hostVars, Move, ChildMove
<1>1. /\ TypeOK /\ PhaseInv(e) /\ HeldInv(e) /\ Accounts(e) /\ MessagesInv(e)
      /\ ListenerInv(e) /\ SnapshotInv(e)
      /\ bootstrapMutex = e <=> pc[e] \in Holding
  BY Facts
<1>2. CASE AbortBeforeClone(e)
  <2>1. /\ pc[e] \in {"locked", "snapped"} /\ pc'[e] = "unlock" /\ cpc'[e] = cpc[e]
        /\ fds'[e] = fds[e] /\ held'[e] = held[e] \ {"pipe"}
        /\ known'[e] = known[e] /\ toParent'[e] = toParent[e] /\ ack'[e] = ack[e]
        /\ snapshot'[e] = snapshot[e] /\ toClose'[e] = toClose[e]
        /\ lslot'[e] = lslot[e] /\ unlisted'[e] = unlisted[e] /\ childTable'[e] = childTable[e]
    BY <1>1, <1>2 DEF AbortBeforeClone, CloseEnds, TypeOK, HostTypeOK, ExecTypeOK
  <2>2. fdTable' = Closed(fdTable, HeldSlots(e, {"pipe"}))
    BY <1>2 DEF AbortBeforeClone, CloseEnds
  <2>3. /\ TableStep(e) /\ ListenersStep(e) /\ Accounts(e)'
        /\ \A s \in Slots : HasListener(e, s)' <=> HasListener(e, s)
        /\ ListenerThere(e) => ListenerThere(e)'
    BY <1>1, <2>1, <2>2, CloseHeldFrame
  <2>4. PhaseInv(e)'
    BY <1>1, <2>1
    DEF PhaseInv, BeforeClone, AwaitsChild, Holding, Critical, SharingPhases
  <2>5. HeldInv(e)'
    BY <1>1, <2>1, <2>2, <2>3 DEF HeldInv, PhaseInv, BeforeClone, AwaitsChild, SharingPhases
  <2>6. MessagesInv(e)'
    BY <1>1, <2>1
    DEF MessagesInv, PhaseInv, Reported, Detached, BeforeClone, AwaitsChild,
        SharingPhases
  <2>7. ListenerInv(e)'
    BY <1>1, <2>1, <2>2, <2>3
    DEF ListenerInv, PhaseInv, MessagesInv, BeforeClone, AwaitsChild, SharingPhases
  <2>8. VarsStep(e) /\ MutexStep(e)
    BY <1>1, <1>2, <2>1, HostAssumption
    DEF AbortBeforeClone, CloseEnds, VarsStep, VarsKept, MutexStep, Holding,
        Critical, TypeOK,
        HostTypeOK, ExecTypeOK
  <2>9. SnapshotInv(e)'
    BY <1>1, <2>1, <2>2, <2>3, OwnSnapshot DEF Critical
  <2> QED
    BY <2>2, <2>3, <2>4, <2>5, <2>6, <2>7, <2>8, <2>9, StepPreserves DEF LocalInv
<1>3. CASE DropChildSock(e)
  <2>1. /\ pc[e] = "detached" /\ pc'[e] = "validate" /\ cpc'[e] = cpc[e]
        /\ fds'[e] = fds[e] /\ held'[e] = held[e] \ {"child"}
        /\ known'[e] = known[e] /\ toParent'[e] = toParent[e] /\ ack'[e] = ack[e]
        /\ snapshot'[e] = snapshot[e] /\ toClose'[e] = toClose[e]
        /\ lslot'[e] = lslot[e] /\ unlisted'[e] = unlisted[e] /\ childTable'[e] = childTable[e]
    BY <1>1, <1>3 DEF DropChildSock, CloseEnds, TypeOK, HostTypeOK, ExecTypeOK
  <2>2. fdTable' = Closed(fdTable, HeldSlots(e, {"child"}))
    BY <1>3 DEF DropChildSock, CloseEnds
  <2>3. /\ TableStep(e) /\ ListenersStep(e) /\ Accounts(e)'
        /\ \A s \in Slots : HasListener(e, s)' <=> HasListener(e, s)
        /\ ListenerThere(e) => ListenerThere(e)'
    BY <1>1, <2>1, <2>2, CloseHeldFrame
  <2>4. PhaseInv(e)'
    BY <1>1, <2>1
    DEF PhaseInv, BeforeClone, AwaitsChild, Holding, Critical, SharingPhases
  <2>5. HeldInv(e)'
    BY <1>1, <2>1, <2>2, <2>3 DEF HeldInv, PhaseInv, BeforeClone, AwaitsChild, SharingPhases, Ends
  <2>6. MessagesInv(e)'
    BY <1>1, <2>1
    DEF MessagesInv, PhaseInv, Reported, Detached, BeforeClone, AwaitsChild,
        SharingPhases
  <2>7. ListenerInv(e)'
    BY <1>1, <2>1, <2>2, <2>3
    DEF ListenerInv, PhaseInv, MessagesInv, BeforeClone, AwaitsChild, SharingPhases
  <2>8. VarsStep(e) /\ MutexStep(e)
    BY <1>1, <1>3, <2>1, HostAssumption
    DEF DropChildSock, CloseEnds, VarsStep, VarsKept, MutexStep, Holding,
        Critical, TypeOK,
        HostTypeOK, ExecTypeOK
  <2>9. SnapshotInv(e)'
    BY <1>1, <2>1, <2>2, <2>3, OwnSnapshot DEF Critical
  <2> QED
    BY <2>2, <2>3, <2>4, <2>5, <2>6, <2>7, <2>8, <2>9, StepPreserves DEF LocalInv
<1>4. CASE FinishBootstrap(e)
  <2>1. /\ pc[e] = "ackSent" /\ pc'[e] = "supervising" /\ cpc'[e] = cpc[e]
        /\ fds'[e] = fds[e] /\ held'[e] = held[e] \ {"sup"} /\ known'[e] = known[e]
        /\ toParent'[e] = toParent[e] /\ ack'[e] = ack[e]
        /\ snapshot'[e] = snapshot[e] /\ toClose'[e] = toClose[e]
        /\ lslot'[e] = lslot[e] /\ unlisted'[e] = unlisted[e] /\ childTable'[e] = childTable[e]
    BY <1>1, <1>4 DEF FinishBootstrap, CloseEnds, TypeOK, HostTypeOK, ExecTypeOK
  <2>2. fdTable' = Closed(fdTable, HeldSlots(e, {"sup"}))
    BY <1>4 DEF FinishBootstrap, CloseEnds
  <2>3. /\ TableStep(e) /\ ListenersStep(e) /\ Accounts(e)'
        /\ \A s \in Slots : HasListener(e, s)' <=> HasListener(e, s)
        /\ ListenerThere(e) => ListenerThere(e)'
    BY <1>1, <2>1, <2>2, CloseHeldFrame
  <2>4. PhaseInv(e)'
    BY <1>1, <2>1
    DEF PhaseInv, BeforeClone, AwaitsChild, Holding, Critical, SharingPhases
  <2>5. HeldInv(e)'
    BY <1>1, <2>1, <2>2, <2>3 DEF HeldInv, PhaseInv, BeforeClone, AwaitsChild, SharingPhases
  <2>6. MessagesInv(e)'
    BY <1>1, <2>1
    DEF MessagesInv, PhaseInv, Reported, Detached, BeforeClone, AwaitsChild,
        SharingPhases
  <2>7. ListenerInv(e)'
    BY <1>1, <2>1, <2>2, <2>3
    DEF ListenerInv, PhaseInv, MessagesInv, BeforeClone, AwaitsChild, SharingPhases
  <2>8. VarsStep(e) /\ MutexStep(e)
    BY <1>1, <1>4, <2>1, HostAssumption
    DEF FinishBootstrap, CloseEnds, VarsStep, VarsKept, MutexStep, Holding,
        Critical, TypeOK,
        HostTypeOK, ExecTypeOK
  <2>9. SnapshotInv(e)'
    BY <1>1, <2>1, <2>2, <2>3, OwnSnapshot DEF Critical
  <2> QED
    BY <2>2, <2>3, <2>4, <2>5, <2>6, <2>7, <2>8, <2>9, StepPreserves DEF LocalInv
<1>5. CASE CloseRemaining(e)
  <2>1. /\ pc[e] = "sweep" /\ pc'[e] = "unlock" /\ toClose[e] = {}
        /\ cpc'[e] = cpc[e] /\ fds'[e] = fds[e] /\ held'[e] = held[e] \ Ends
        /\ known'[e] = known[e] /\ toParent'[e] = toParent[e] /\ ack'[e] = ack[e]
        /\ snapshot'[e] = snapshot[e] /\ toClose'[e] = toClose[e]
        /\ lslot'[e] = lslot[e] /\ unlisted'[e] = unlisted[e] /\ childTable'[e] = childTable[e]
    BY <1>1, <1>5 DEF CloseRemaining, CloseEnds, TypeOK, HostTypeOK, ExecTypeOK
  <2>2. fdTable' = Closed(fdTable, HeldSlots(e, Ends))
    BY <1>5 DEF CloseRemaining, CloseEnds
  <2>3. /\ TableStep(e) /\ ListenersStep(e) /\ Accounts(e)'
        /\ \A s \in Slots : HasListener(e, s)' <=> HasListener(e, s)
        /\ ListenerThere(e) => ListenerThere(e)'
    BY <1>1, <2>1, <2>2, CloseHeldFrame
  <2>4. PhaseInv(e)'
    BY <1>1, <2>1
    DEF PhaseInv, BeforeClone, AwaitsChild, Holding, Critical, SharingPhases
  <2>5. HeldInv(e)'
    BY <1>1, <2>1, <2>2, <2>3 DEF HeldInv, PhaseInv, BeforeClone, AwaitsChild, SharingPhases
  <2>6. MessagesInv(e)'
    BY <1>1, <2>1
    DEF MessagesInv, PhaseInv, Reported, Detached, BeforeClone, AwaitsChild,
        SharingPhases
  <2>7. ListenerInv(e)'
    BY <1>1, <2>1, <2>2, <2>3
    DEF ListenerInv, PhaseInv, MessagesInv, BeforeClone, AwaitsChild, SharingPhases
  <2>8. VarsStep(e) /\ MutexStep(e)
    BY <1>1, <1>5, <2>1, HostAssumption
    DEF CloseRemaining, CloseEnds, VarsStep, VarsKept, MutexStep, Holding,
        Critical, TypeOK,
        HostTypeOK, ExecTypeOK
  <2>9. SnapshotInv(e)'
    BY <1>1, <2>1, <2>2, <2>3, OwnSnapshot DEF Critical
  <2> QED
    BY <2>2, <2>3, <2>4, <2>5, <2>6, <2>7, <2>8, <2>9, StepPreserves DEF LocalInv
<1>6. CASE ReapChild(e)
  <2>1. /\ pc[e] = "supervising" /\ pc'[e] = "dropNotify"
        /\ cpc[e] = "dead" /\ cpc'[e] = "reaped" /\ fds'[e] = fds[e]
        /\ held'[e] = held[e] \ {"pipe"} /\ known'[e] = known[e]
        /\ toParent'[e] = toParent[e] /\ ack'[e] = ack[e]
        /\ snapshot'[e] = snapshot[e] /\ toClose'[e] = toClose[e]
        /\ lslot'[e] = lslot[e] /\ unlisted'[e] = unlisted[e] /\ childTable'[e] = childTable[e]
    BY <1>1, <1>6 DEF ReapChild, CloseEnds, TypeOK, HostTypeOK, ExecTypeOK
  <2>2. fdTable' = Closed(fdTable, HeldSlots(e, {"pipe"}))
    BY <1>6 DEF ReapChild, CloseEnds
  <2>3. /\ TableStep(e) /\ ListenersStep(e) /\ Accounts(e)'
        /\ \A s \in Slots : HasListener(e, s)' <=> HasListener(e, s)
        /\ ListenerThere(e) => ListenerThere(e)'
    BY <1>1, <2>1, <2>2, CloseHeldFrame
  <2>4. PhaseInv(e)'
    BY <1>1, <2>1
    DEF PhaseInv, BeforeClone, AwaitsChild, Holding, Critical, SharingPhases
  <2>5. HeldInv(e)'
    BY <1>1, <2>1, <2>2, <2>3 DEF HeldInv, PhaseInv, BeforeClone, AwaitsChild, SharingPhases
  <2>6. MessagesInv(e)'
    BY <1>1, <2>1
    DEF MessagesInv, PhaseInv, Reported, Detached, BeforeClone, AwaitsChild,
        SharingPhases
  <2>7. ListenerInv(e)'
    BY <1>1, <2>1, <2>2, <2>3
    DEF ListenerInv, PhaseInv, MessagesInv, BeforeClone, AwaitsChild, SharingPhases
  <2>8. VarsStep(e) /\ MutexStep(e)
    BY <1>1, <1>6, <2>1, HostAssumption
    DEF ReapChild, CloseEnds, VarsStep, VarsKept, MutexStep, Holding, Critical,
        TypeOK,
        HostTypeOK, ExecTypeOK
  <2>9. SnapshotInv(e)'
    BY <1>1, <2>1, <2>2, <2>3, OwnSnapshot DEF Critical
  <2> QED
    BY <2>2, <2>3, <2>4, <2>5, <2>6, <2>7, <2>8, <2>9, StepPreserves DEF LocalInv
<1>7. CASE KillSupervised(e)
  <2>1. /\ pc[e] = "supervising" /\ pc'[e] = "dropNotify" /\ cpc'[e] = "reaped"
        /\ fds'[e] = fds[e] /\ held'[e] = held[e] \ {"pipe"}
        /\ known'[e] = known[e] /\ toParent'[e] = toParent[e] /\ ack'[e] = ack[e]
        /\ snapshot'[e] = snapshot[e] /\ toClose'[e] = toClose[e]
        /\ lslot'[e] = lslot[e] /\ unlisted'[e] = unlisted[e]
    BY <1>1, <1>7 DEF KillSupervised, CloseEnds, TypeOK, HostTypeOK, ExecTypeOK
  <2>2. fdTable' = Closed(fdTable, HeldSlots(e, {"pipe"}))
    BY <1>7 DEF KillSupervised, CloseEnds
  <2>3. /\ TableStep(e) /\ ListenersStep(e) /\ Accounts(e)'
        /\ \A s \in Slots : HasListener(e, s)' <=> HasListener(e, s)
        /\ ListenerThere(e) => ListenerThere(e)'
    BY <1>1, <2>1, <2>2, CloseHeldFrame
  <2>4. PhaseInv(e)'
    BY <1>1, <2>1
    DEF PhaseInv, BeforeClone, AwaitsChild, Holding, Critical, SharingPhases
  <2>5. HeldInv(e)'
    BY <1>1, <2>1, <2>2, <2>3 DEF HeldInv, PhaseInv, BeforeClone, AwaitsChild, SharingPhases
  <2>6. MessagesInv(e)'
    BY <1>1, <2>1
    DEF MessagesInv, PhaseInv, Reported, Detached, BeforeClone, AwaitsChild,
        SharingPhases
  <2>7. ListenerInv(e)'
    BY <1>1, <2>1, <2>2, <2>3
    DEF ListenerInv, PhaseInv, MessagesInv, BeforeClone, AwaitsChild, SharingPhases
  <2>8. VarsStep(e) /\ MutexStep(e)
    BY <1>1, <1>7, <2>1, HostAssumption
    DEF KillSupervised, CloseEnds, VarsStep, VarsKept, MutexStep, Holding,
        Critical, TypeOK,
        HostTypeOK, ExecTypeOK
  <2>9. SnapshotInv(e)'
    BY <1>1, <2>1, <2>2, <2>3, OwnSnapshot DEF Critical
  <2> QED
    BY <2>2, <2>3, <2>4, <2>5, <2>6, <2>7, <2>8, <2>9, StepPreserves DEF LocalInv
<1> QED
  BY <1>2, <1>3, <1>4, <1>5, <1>6, <1>7

-----------------------------------------------------------------------------
(* The other steps of the cleanup and of the teardown.                     *)

LEMMA CleanupPreserves ==
  ASSUME IInv, NEW e \in Execs, e \in CloneExecs, TypeOK',
         \/ KillAndReap(e) \/ ListNewListeners(e) \/ ReleaseMutex(e)
         \/ LockToCloseListener(e) /\ UNCHANGED cloneVars
  PROVE  IInv' /\ Frame(e)
<1> USE DEF cloneVars, hostVars, Move, ChildMove
<1>1. /\ TypeOK /\ PhaseInv(e) /\ HeldInv(e) /\ Accounts(e) /\ MessagesInv(e)
      /\ ListenerInv(e) /\ SnapshotInv(e)
      /\ bootstrapMutex = e <=> pc[e] \in Holding
  BY Facts
<1>2. CASE KillAndReap(e)
  <2>1. /\ \/ pc[e] = "kill" /\ pc'[e] = "sweepList"
           \/ pc[e] = "ackFailed" /\ pc'[e] = "disown"
        /\ cpc'[e] = "reaped" /\ fds'[e] = fds[e] /\ held'[e] = held[e]
        /\ known'[e] = known[e] /\ toParent'[e] = toParent[e] /\ ack'[e] = ack[e]
        /\ snapshot'[e] = snapshot[e] /\ toClose'[e] = toClose[e]
        /\ lslot'[e] = lslot[e] /\ unlisted'[e] = unlisted[e]
    BY <1>1, <1>2 DEF KillAndReap, TypeOK, HostTypeOK, ExecTypeOK
  <2>2. /\ TableStep(e) /\ ListenersStep(e)
        /\ \A s \in Slots : HasListener(e, s)' <=> HasListener(e, s)
    BY <1>2, QuietFrame DEF KillAndReap
  <2>3. Accounts(e)' /\ (ListenerThere(e) => ListenerThere(e)')
    BY <1>1, <1>2, <2>1, QuietFrame DEF KillAndReap
  <2>4. PhaseInv(e)'
    BY <1>1, <2>1
    DEF PhaseInv, BeforeClone, AwaitsChild, Holding, Critical, SharingPhases
  <2>5. HeldInv(e)'
    BY <1>1, <2>1, <2>2, <2>3 DEF HeldInv, PhaseInv, BeforeClone, AwaitsChild, SharingPhases
  <2>6. MessagesInv(e)'
    BY <1>1, <2>1
    DEF MessagesInv, PhaseInv, Reported, Detached, BeforeClone, AwaitsChild,
        SharingPhases
  <2>7. ListenerInv(e)'
    BY <1>1, <2>1, <2>2, <2>3
    DEF ListenerInv, PhaseInv, MessagesInv, BeforeClone, AwaitsChild, SharingPhases
  <2>8. VarsStep(e) /\ MutexStep(e)
    BY <1>1, <1>2, <2>1, HostAssumption
    DEF KillAndReap, VarsStep, VarsKept, MutexStep, Holding, Critical, TypeOK,
        HostTypeOK, ExecTypeOK
  <2>9. SnapshotInv(e)'
    BY <1>1, <2>1, <2>2, <2>3, OwnSnapshot DEF Critical
  <2> QED
    BY <2>2, <2>3, <2>4, <2>5, <2>6, <2>7, <2>8, <2>9, StepPreserves DEF LocalInv
<1>3. CASE ListNewListeners(e)
  <2>10. PICK listed \in {{}, seccomp_notify_fds} :
           /\ toClose' = [toClose EXCEPT ![e] =
                            (listed \cup ({known[e]} \cap Slots)) \ snapshot[e]]
           /\ unlisted' = [unlisted EXCEPT ![e] =
                             listed # seccomp_notify_fds /\ known[e] = NoSlot]
    BY <1>3 DEF ListNewListeners
  <2>1. /\ pc[e] = "sweepList" /\ pc'[e] = "sweep" /\ cpc'[e] = cpc[e]
        /\ fds'[e] = fds[e] /\ held'[e] = held[e] /\ known'[e] = known[e]
        /\ toParent'[e] = toParent[e] /\ ack'[e] = ack[e]
        /\ snapshot'[e] = snapshot[e]
        /\ toClose'[e] = (listed \cup ({known[e]} \cap Slots)) \ snapshot[e]
        /\ unlisted'[e] = (listed # seccomp_notify_fds /\ known[e] = NoSlot)
        /\ lslot'[e] = lslot[e] /\ childTable'[e] = childTable[e]
    BY <1>1, <1>3, <2>10 DEF ListNewListeners, TypeOK, HostTypeOK, ExecTypeOK
  <2>2. /\ TableStep(e) /\ ListenersStep(e)
        /\ \A s \in Slots : HasListener(e, s)' <=> HasListener(e, s)
    BY <1>3, QuietFrame DEF ListNewListeners
  <2>3. Accounts(e)' /\ (ListenerThere(e) => ListenerThere(e)')
    BY <1>1, <1>3, <2>1, QuietFrame DEF ListNewListeners
  <2>4. PhaseInv(e)'
    BY <1>1, <2>1
    DEF PhaseInv, BeforeClone, AwaitsChild, Holding, Critical, SharingPhases
  <2>5. HeldInv(e)'
    BY <1>1, <2>1, <2>2, <2>3 DEF HeldInv, PhaseInv, BeforeClone, AwaitsChild, SharingPhases
  <2>6. MessagesInv(e)'
    BY <1>1, <2>1
    DEF MessagesInv, PhaseInv, Reported, Detached, BeforeClone, AwaitsChild,
        SharingPhases
  <2>7. ListenerInv(e)'
    <3>1. snapshot[e] = {s \in seccomp_notify_fds : fdTable[s].owner # e}
      BY <1>1, <2>1 DEF SnapshotInv, Critical
    <3>2. known[e] # NoSlot =>
            /\ known[e] \in Slots /\ HasListener(e, known[e])
            /\ \A s \in Slots : HasListener(e, s) => s = known[e]
      BY <1>1, <2>1, FileOfFields DEF ListenerInv, ListenerThere, HasListener
    <3>3. toClose'[e] = IF unlisted'[e] THEN {} ELSE {s \in Slots : HasListener(e, s)}
      <4>1. CASE listed = seccomp_notify_fds
        <5>1. ~unlisted'[e]
          BY <2>1, <4>1
        <5>2. {s \in Slots : HasListener(e, s)} = seccomp_notify_fds \ snapshot[e]
          BY <3>1 DEF seccomp_notify_fds, HasListener
        <5>3. {known[e]} \cap Slots \subseteq seccomp_notify_fds
          BY <3>2, SlotNotNoSlot DEF seccomp_notify_fds, HasListener
        <5> QED
          BY <2>1, <4>1, <5>1, <5>2, <5>3
      <4>2. CASE listed = {} /\ listed # seccomp_notify_fds
        <5>1. CASE known[e] = NoSlot
          BY <2>1, <4>2, <5>1, SlotNotNoSlot
        <5>2. CASE known[e] # NoSlot
          BY <2>1, <3>1, <3>2, <4>2, <5>2 DEF seccomp_notify_fds, HasListener
        <5> QED
          BY <5>1, <5>2
      <4> QED
        BY <2>10, <4>1, <4>2
    <3>4. toClose'[e] = IF unlisted'[e] THEN {} ELSE {s \in Slots : HasListener(e, s)'}
      BY <2>2, <3>3
    <3>5. cpc[e] = "reaped"
      BY <1>1, <2>1 DEF PhaseInv
    <3> QED
      BY <1>1, <2>1, <2>2, <2>3, <3>4, <3>5 DEF ListenerInv, BeforeClone
  <2>8. VarsStep(e) /\ MutexStep(e)
    BY <1>1, <1>3, <2>1, <2>10, HostAssumption
    DEF ListNewListeners, VarsStep, VarsKept, MutexStep, Holding, Critical, TypeOK,
        HostTypeOK, ExecTypeOK
  <2>9. SnapshotInv(e)'
    BY <1>1, <2>1, <2>2, <2>3, OwnSnapshot DEF Critical
  <2> QED
    BY <2>2, <2>3, <2>4, <2>5, <2>6, <2>7, <2>8, <2>9, StepPreserves DEF LocalInv
<1>4. CASE ReleaseMutex(e)
  <2>1. /\ pc[e] = "unlock" /\ pc'[e] = "drop" /\ cpc'[e] = cpc[e]
        /\ fds'[e] = fds[e] /\ held'[e] = held[e] /\ known'[e] = known[e]
        /\ toParent'[e] = toParent[e] /\ ack'[e] = ack[e]
        /\ snapshot'[e] = snapshot[e] /\ toClose'[e] = toClose[e]
        /\ lslot'[e] = lslot[e] /\ unlisted'[e] = unlisted[e] /\ childTable'[e] = childTable[e]
    BY <1>1, <1>4 DEF ReleaseMutex, TypeOK, HostTypeOK, ExecTypeOK
  <2>2. /\ TableStep(e) /\ ListenersStep(e)
        /\ \A s \in Slots : HasListener(e, s)' <=> HasListener(e, s)
    BY <1>4, QuietFrame DEF ReleaseMutex
  <2>3. Accounts(e)' /\ (ListenerThere(e) => ListenerThere(e)')
    BY <1>1, <1>4, <2>1, QuietFrame DEF ReleaseMutex
  <2>4. PhaseInv(e)'
    BY <1>1, <2>1
    DEF PhaseInv, BeforeClone, AwaitsChild, Holding, Critical, SharingPhases
  <2>5. HeldInv(e)'
    BY <1>1, <2>1, <2>2, <2>3 DEF HeldInv, PhaseInv, BeforeClone, AwaitsChild, SharingPhases
  <2>6. MessagesInv(e)'
    BY <1>1, <2>1
    DEF MessagesInv, PhaseInv, Reported, Detached, BeforeClone, AwaitsChild,
        SharingPhases
  <2>7. ListenerInv(e)'
    BY <1>1, <2>1, <2>2, <2>3
    DEF ListenerInv, PhaseInv, MessagesInv, BeforeClone, AwaitsChild, SharingPhases
  <2>8. VarsStep(e) /\ MutexStep(e)
    BY <1>1, <1>4, <2>1, HostAssumption
    DEF ReleaseMutex, VarsStep, VarsKept, MutexStep, Holding, Critical, TypeOK,
        HostTypeOK, ExecTypeOK
  <2>9. SnapshotInv(e)'
    BY <1>1, <2>1, <2>2, <2>3, OwnSnapshot DEF Critical
  <2> QED
    BY <2>2, <2>3, <2>4, <2>5, <2>6, <2>7, <2>8, <2>9, StepPreserves DEF LocalInv
<1>5. CASE LockToCloseListener(e) /\ UNCHANGED cloneVars
  <2>1. /\ pc[e] = "dropNotify" /\ pc'[e] = "closeNotify" /\ cpc'[e] = cpc[e]
        /\ fds'[e] = fds[e] /\ held'[e] = held[e] /\ known'[e] = known[e]
        /\ toParent'[e] = toParent[e] /\ ack'[e] = ack[e]
        /\ snapshot'[e] = snapshot[e] /\ toClose'[e] = toClose[e]
        /\ lslot'[e] = lslot[e] /\ unlisted'[e] = unlisted[e] /\ childTable'[e] = childTable[e]
    BY <1>1, <1>5 DEF LockToCloseListener, TypeOK, HostTypeOK, ExecTypeOK
  <2>2. /\ TableStep(e) /\ ListenersStep(e)
        /\ \A s \in Slots : HasListener(e, s)' <=> HasListener(e, s)
    BY <1>5, QuietFrame DEF LockToCloseListener
  <2>3. Accounts(e)' /\ (ListenerThere(e) => ListenerThere(e)')
    BY <1>1, <1>5, <2>1, QuietFrame DEF LockToCloseListener
  <2>4. PhaseInv(e)'
    BY <1>1, <2>1
    DEF PhaseInv, BeforeClone, AwaitsChild, Holding, Critical, SharingPhases
  <2>5. HeldInv(e)'
    BY <1>1, <2>1, <2>2, <2>3 DEF HeldInv, PhaseInv, BeforeClone, AwaitsChild, SharingPhases
  <2>6. MessagesInv(e)'
    BY <1>1, <2>1
    DEF MessagesInv, PhaseInv, Reported, Detached, BeforeClone, AwaitsChild,
        SharingPhases
  <2>7. ListenerInv(e)'
    BY <1>1, <2>1, <2>2, <2>3
    DEF ListenerInv, PhaseInv, MessagesInv, BeforeClone, AwaitsChild, SharingPhases
  <2>8. VarsStep(e) /\ MutexStep(e)
    BY <1>1, <1>5, <2>1, HostAssumption
    DEF LockToCloseListener, VarsStep, VarsKept, MutexStep, Holding, Critical, TypeOK,
        HostTypeOK, ExecTypeOK
  <2>9. SnapshotInv(e)'
    BY <1>1, <2>1, <2>2, <2>3, OwnSnapshot DEF Critical
  <2> QED
    BY <2>2, <2>3, <2>4, <2>5, <2>6, <2>7, <2>8, <2>9, StepPreserves DEF LocalInv
<1> QED
  BY <1>2, <1>3, <1>4, <1>5

-----------------------------------------------------------------------------
(* The steps of the child that leave the host's table alone.               *)

LEMMA ChildPreserves ==
  ASSUME IInv, NEW e \in Execs, e \in CloneExecs, TypeOK',
         \/ InstallFails(e) \/ ReportSlot(e) \/ Unshare(e) \/ SendDetached(e)
         \/ ReadAck(e) \/ ScrubDescriptors(e) \/ Execve(e)
         \/ ChildDies(e) /\ UNCHANGED cloneVars
  PROVE  IInv' /\ Frame(e)
<1> USE DEF cloneVars, hostVars, Move, ChildMove
<1>1. /\ TypeOK /\ PhaseInv(e) /\ HeldInv(e) /\ Accounts(e) /\ MessagesInv(e)
      /\ ListenerInv(e) /\ SnapshotInv(e)
      /\ bootstrapMutex = e <=> pc[e] \in Holding
  BY Facts
<1>2. CASE InstallFails(e)
  <2>1. /\ pc'[e] = pc[e] /\ cpc[e] = "shared" /\ cpc'[e] = "dead"
        /\ fds'[e] = fds[e] /\ held'[e] = held[e] /\ known'[e] = known[e]
        /\ toParent'[e] = toParent[e] /\ ack'[e] = ack[e]
        /\ snapshot'[e] = snapshot[e] /\ toClose'[e] = toClose[e]
        /\ lslot'[e] = lslot[e] /\ unlisted'[e] = unlisted[e] /\ childTable'[e] = childTable[e]
    BY <1>1, <1>2 DEF InstallFails, TypeOK, HostTypeOK, ExecTypeOK
  <2>2. /\ TableStep(e) /\ ListenersStep(e)
        /\ \A s \in Slots : HasListener(e, s)' <=> HasListener(e, s)
    BY <1>2, QuietFrame DEF InstallFails
  <2>3. Accounts(e)' /\ (ListenerThere(e) => ListenerThere(e)')
    BY <1>1, <1>2, <2>1, QuietFrame DEF InstallFails
  <2>4. PhaseInv(e)'
    BY <1>1, <2>1
    DEF PhaseInv, BeforeClone, AwaitsChild, Holding, Critical, SharingPhases
  <2>5. HeldInv(e)'
    BY <1>1, <2>1, <2>2, <2>3 DEF HeldInv, PhaseInv, BeforeClone, AwaitsChild, SharingPhases
  <2>6. MessagesInv(e)'
    BY <1>1, <2>1
    DEF MessagesInv, PhaseInv, Reported, Detached, BeforeClone, AwaitsChild,
        SharingPhases
  <2>7. ListenerInv(e)'
    BY <1>1, <2>1, <2>2, <2>3
    DEF ListenerInv, PhaseInv, MessagesInv, BeforeClone, AwaitsChild, SharingPhases
  <2>8. VarsStep(e) /\ MutexStep(e)
    BY <1>1, <1>2, <2>1, HostAssumption
    DEF InstallFails, VarsStep, VarsKept, MutexStep, Holding, Critical, TypeOK,
        HostTypeOK, ExecTypeOK
  <2>9. SnapshotInv(e)'
    BY <1>1, <2>1, <2>2, <2>3, OwnSnapshot DEF Critical
  <2> QED
    BY <2>2, <2>3, <2>4, <2>5, <2>6, <2>7, <2>8, <2>9, StepPreserves DEF LocalInv
<1>3. CASE ReportSlot(e)
  <2>1. /\ pc'[e] = pc[e] /\ cpc[e] = "listening" /\ cpc'[e] = "reported"
        /\ fds'[e] = fds[e] /\ held'[e] = held[e] /\ known'[e] = known[e]
        /\ toParent' = [toParent EXCEPT ![e] = Append(@, Reported(e))]
        /\ toParent'[e] = Append(toParent[e], Reported(e))
        /\ ack'[e] = ack[e] /\ snapshot'[e] = snapshot[e]
        /\ toClose'[e] = toClose[e] /\ lslot'[e] = lslot[e] /\ unlisted'[e] = unlisted[e]
        /\ childTable'[e] = childTable[e]
    <3>1. fdTable[fds[e]["child"]] = FileOf("child", e)
      BY <1>1, <1>3
      DEF ReportSlot, ChildMove, PhaseInv, HeldInv, Accounts, BeforeClone,
          AwaitsChild, SharingPhases, Holding, Critical, Ends
    <3>2. fdTable[fds[e]["child"]].owner = e
      BY <3>1, FileOfFields
    <3>3. toParent' = [toParent EXCEPT ![e] = Append(@, Reported(e))]
      BY <1>3, <3>2 DEF ReportSlot, Write, Reported
    <3> QED
      BY <1>1, <1>3, <3>3 DEF ReportSlot, TypeOK, ExecTypeOK
  <2>2. /\ TableStep(e) /\ ListenersStep(e)
        /\ \A s \in Slots : HasListener(e, s)' <=> HasListener(e, s)
    BY <1>3, QuietFrame DEF ReportSlot
  <2>3. Accounts(e)' /\ (ListenerThere(e) => ListenerThere(e)')
    BY <1>1, <1>3, <2>1, QuietFrame DEF ReportSlot
  <2>4. PhaseInv(e)'
    BY <1>1, <2>1
    DEF PhaseInv, BeforeClone, AwaitsChild, Holding, Critical, SharingPhases
  <2>5. HeldInv(e)'
    BY <1>1, <2>1, <2>2, <2>3 DEF HeldInv, PhaseInv, BeforeClone, AwaitsChild, SharingPhases
  <2>6. MessagesInv(e)'
    <3>1. pc[e] = "kill" \/ (pc[e] = "awaitSlot" /\ toParent[e] = <<>>)
      BY <1>1, <2>1
      DEF PhaseInv, MessagesInv, BeforeClone, AwaitsChild, Holding, Critical
    <3> QED
      BY <2>1, <3>1, ShortSequences DEF MessagesInv, Reported, Detached, BeforeClone
  <2>7. ListenerInv(e)'
    BY <1>1, <2>1, <2>2, <2>3
    DEF ListenerInv, PhaseInv, MessagesInv, BeforeClone, AwaitsChild, SharingPhases
  <2>8. VarsStep(e) /\ MutexStep(e)
    BY <1>1, <1>3, <2>1, HostAssumption
    DEF ReportSlot, VarsStep, VarsKept, MutexStep, Holding, Critical, TypeOK,
        HostTypeOK, ExecTypeOK
  <2>9. SnapshotInv(e)'
    BY <1>1, <2>1, <2>2, <2>3, OwnSnapshot DEF Critical
  <2> QED
    BY <2>2, <2>3, <2>4, <2>5, <2>6, <2>7, <2>8, <2>9, StepPreserves DEF LocalInv
<1>4. CASE Unshare(e)
  <2>1. /\ pc'[e] = pc[e] /\ cpc[e] = "reported" /\ cpc'[e] = "private"
        /\ fds'[e] = fds[e] /\ held'[e] = held[e] /\ known'[e] = known[e]
        /\ toParent'[e] = toParent[e] /\ ack'[e] = ack[e]
        /\ snapshot'[e] = snapshot[e] /\ toClose'[e] = toClose[e]
        /\ lslot'[e] = lslot[e] /\ unlisted'[e] = unlisted[e] /\ childTable'[e] = CopyFor(fdTable)
    BY <1>1, <1>4 DEF Unshare, TypeOK, HostTypeOK, ExecTypeOK
  <2>2. /\ TableStep(e) /\ ListenersStep(e)
        /\ \A s \in Slots : HasListener(e, s)' <=> HasListener(e, s)
    BY <1>4, QuietFrame DEF Unshare
  <2>3. Accounts(e)' /\ (ListenerThere(e) => ListenerThere(e)')
    BY <1>1, <1>4, <2>1, QuietFrame DEF Unshare
  <2>4. PhaseInv(e)'
    BY <1>1, <2>1
    DEF PhaseInv, BeforeClone, AwaitsChild, Holding, Critical, SharingPhases
  <2>5. HeldInv(e)'
    BY <1>1, <2>1, <2>2, <2>3 DEF HeldInv, PhaseInv, BeforeClone, AwaitsChild, SharingPhases
  <2>6. MessagesInv(e)'
    <3>1. pc[e] \in AwaitsChild \cup {"kill"}
      BY <1>1, <2>1 DEF PhaseInv, BeforeClone, AwaitsChild, Holding, Critical
    <3>2. fds[e]["child"] \in Slots /\ fdTable[fds[e]["child"]] = FileOf("child", e)
      BY <1>1, <2>1, <3>1 DEF HeldInv, Accounts, SharingPhases, Ends
    <3>3. childTable'[e][fds'[e]["child"]] = FileOf("child", e)
      BY <2>1, <3>2, FileOfFields DEF CopyFor
    <3> QED
      BY <1>1, <2>1, <3>1, <3>3 DEF MessagesInv, Reported, BeforeClone, AwaitsChild
  <2>7. ListenerInv(e)'
    BY <1>1, <2>1, <2>2, <2>3
    DEF ListenerInv, PhaseInv, MessagesInv, BeforeClone, AwaitsChild, SharingPhases
  <2>8. VarsStep(e) /\ MutexStep(e)
    BY <1>1, <1>4, <2>1, HostAssumption
    DEF Unshare, VarsStep, VarsKept, MutexStep, Holding, Critical, TypeOK,
        HostTypeOK, ExecTypeOK
  <2>9. SnapshotInv(e)'
    BY <1>1, <2>1, <2>2, <2>3, OwnSnapshot DEF Critical
  <2> QED
    BY <2>2, <2>3, <2>4, <2>5, <2>6, <2>7, <2>8, <2>9, StepPreserves DEF LocalInv
<1>5. CASE SendDetached(e)
  <2>1. /\ pc'[e] = pc[e] /\ cpc[e] = "private" /\ cpc'[e] = "detached"
        /\ fds'[e] = fds[e] /\ held'[e] = held[e] /\ known'[e] = known[e]
        /\ toParent' = [toParent EXCEPT ![e] = Append(@, Detached)]
        /\ toParent'[e] = Append(toParent[e], Detached)
        /\ ack'[e] = ack[e] /\ snapshot'[e] = snapshot[e]
        /\ toClose'[e] = toClose[e] /\ lslot'[e] = lslot[e] /\ unlisted'[e] = unlisted[e]
    <3>1. childTable[e][fds[e]["child"]] = FileOf("child", e)
      BY <1>1, <1>5 DEF SendDetached, ChildMove, MessagesInv
    <3>2. childTable[e][fds[e]["child"]].owner = e
      BY <3>1, FileOfFields
    <3>3. toParent' = [toParent EXCEPT ![e] = Append(@, Detached)]
      BY <1>5, <3>2 DEF SendDetached, Write, Detached
    <3> QED
      BY <1>1, <1>5, <3>3 DEF SendDetached, TypeOK, ExecTypeOK
  <2>2. /\ TableStep(e) /\ ListenersStep(e)
        /\ \A s \in Slots : HasListener(e, s)' <=> HasListener(e, s)
    BY <1>5, QuietFrame DEF SendDetached
  <2>3. Accounts(e)' /\ (ListenerThere(e) => ListenerThere(e)')
    BY <1>1, <1>5, <2>1, QuietFrame DEF SendDetached
  <2>4. PhaseInv(e)'
    BY <1>1, <2>1
    DEF PhaseInv, BeforeClone, AwaitsChild, Holding, Critical, SharingPhases
  <2>5. HeldInv(e)'
    BY <1>1, <2>1, <2>2, <2>3 DEF HeldInv, PhaseInv, BeforeClone, AwaitsChild, SharingPhases
  <2>6. MessagesInv(e)'
    <3>1. \/ pc[e] = "kill"
          \/ pc[e] = "awaitSlot" /\ toParent[e] = <<Reported(e)>>
          \/ pc[e] = "awaitDetached" /\ toParent[e] = <<>>
      BY <1>1, <2>1
      DEF PhaseInv, MessagesInv, BeforeClone, AwaitsChild, Holding, Critical
    <3>2. \/ pc[e] = "kill"
          \/ pc[e] = "awaitSlot" /\ toParent'[e] = <<Reported(e), Detached>>
          \/ pc[e] = "awaitDetached" /\ toParent'[e] = <<Detached>>
      <4>1. /\ Append(<<Reported(e)>>, Detached) = <<Reported(e), Detached>>
            /\ Append(<<>>, Detached) = <<Detached>>
        BY ShortSequences
      <4>2. pc'[e] = pc[e] /\ toParent'[e] = Append(toParent[e], Detached)
        BY <2>1
      <4> QED
        BY <3>1, <4>1, <4>2
    <3>3. Reported(e)' = Reported(e)
      BY <2>1 DEF Reported
    <3> QED
      BY <2>1, <3>2, <3>3 DEF MessagesInv, BeforeClone
  <2>7. ListenerInv(e)'
    BY <1>1, <2>1, <2>2, <2>3
    DEF ListenerInv, PhaseInv, MessagesInv, BeforeClone, AwaitsChild, SharingPhases
  <2>8. VarsStep(e) /\ MutexStep(e)
    BY <1>1, <1>5, <2>1, HostAssumption
    DEF SendDetached, VarsStep, VarsKept, MutexStep, Holding, Critical, TypeOK,
        HostTypeOK, ExecTypeOK
  <2>9. SnapshotInv(e)'
    BY <1>1, <2>1, <2>2, <2>3, OwnSnapshot DEF Critical
  <2> QED
    BY <2>2, <2>3, <2>4, <2>5, <2>6, <2>7, <2>8, <2>9, StepPreserves DEF LocalInv
<1>6. CASE ReadAck(e)
  <2>1. /\ pc'[e] = pc[e] /\ ack[e] /\ cpc[e] = "detached" /\ cpc'[e] = "acked"
        /\ fds'[e] = fds[e] /\ held'[e] = held[e] /\ known'[e] = known[e]
        /\ toParent'[e] = toParent[e] /\ ack'[e] = ack[e]
        /\ snapshot'[e] = snapshot[e] /\ toClose'[e] = toClose[e]
        /\ lslot'[e] = lslot[e] /\ unlisted'[e] = unlisted[e] /\ childTable'[e] = childTable[e]
    BY <1>1, <1>6 DEF ReadAck, TypeOK, HostTypeOK, ExecTypeOK
  <2>2. /\ TableStep(e) /\ ListenersStep(e)
        /\ \A s \in Slots : HasListener(e, s)' <=> HasListener(e, s)
    BY <1>6, QuietFrame DEF ReadAck
  <2>3. Accounts(e)' /\ (ListenerThere(e) => ListenerThere(e)')
    BY <1>1, <1>6, <2>1, QuietFrame DEF ReadAck
  <2>4. PhaseInv(e)'
    BY <1>1, <2>1
    DEF PhaseInv, BeforeClone, AwaitsChild, Holding, Critical, SharingPhases
  <2>5. HeldInv(e)'
    BY <1>1, <2>1, <2>2, <2>3 DEF HeldInv, PhaseInv, BeforeClone, AwaitsChild, SharingPhases
  <2>6. MessagesInv(e)'
    BY <1>1, <2>1
    DEF MessagesInv, PhaseInv, Reported, Detached, BeforeClone, AwaitsChild,
        SharingPhases
  <2>7. ListenerInv(e)'
    BY <1>1, <2>1, <2>2, <2>3
    DEF ListenerInv, PhaseInv, MessagesInv, BeforeClone, AwaitsChild, SharingPhases
  <2>8. VarsStep(e) /\ MutexStep(e)
    BY <1>1, <1>6, <2>1, HostAssumption
    DEF ReadAck, VarsStep, VarsKept, MutexStep, Holding, Critical, TypeOK,
        HostTypeOK, ExecTypeOK
  <2>9. SnapshotInv(e)'
    BY <1>1, <2>1, <2>2, <2>3, OwnSnapshot DEF Critical
  <2> QED
    BY <2>2, <2>3, <2>4, <2>5, <2>6, <2>7, <2>8, <2>9, StepPreserves DEF LocalInv
<1>7. CASE ScrubDescriptors(e)
  <2>1. /\ pc'[e] = pc[e] /\ cpc[e] = "acked" /\ cpc'[e] = "scrubbed"
        /\ fds'[e] = fds[e] /\ held'[e] = held[e] /\ known'[e] = known[e]
        /\ toParent'[e] = toParent[e] /\ ack'[e] = ack[e]
        /\ snapshot'[e] = snapshot[e] /\ toClose'[e] = toClose[e]
        /\ lslot'[e] = lslot[e] /\ unlisted'[e] = unlisted[e]
    BY <1>1, <1>7 DEF ScrubDescriptors, TypeOK, HostTypeOK, ExecTypeOK
  <2>2. /\ TableStep(e) /\ ListenersStep(e)
        /\ \A s \in Slots : HasListener(e, s)' <=> HasListener(e, s)
    BY <1>7, QuietFrame DEF ScrubDescriptors
  <2>3. Accounts(e)' /\ (ListenerThere(e) => ListenerThere(e)')
    BY <1>1, <1>7, <2>1, QuietFrame DEF ScrubDescriptors
  <2>4. PhaseInv(e)'
    BY <1>1, <2>1
    DEF PhaseInv, BeforeClone, AwaitsChild, Holding, Critical, SharingPhases
  <2>5. HeldInv(e)'
    BY <1>1, <2>1, <2>2, <2>3 DEF HeldInv, PhaseInv, BeforeClone, AwaitsChild, SharingPhases
  <2>6. MessagesInv(e)'
    BY <1>1, <2>1
    DEF MessagesInv, PhaseInv, Reported, Detached, BeforeClone, AwaitsChild,
        SharingPhases
  <2>7. ListenerInv(e)'
    BY <1>1, <2>1, <2>2, <2>3
    DEF ListenerInv, PhaseInv, MessagesInv, BeforeClone, AwaitsChild, SharingPhases
  <2>8. VarsStep(e) /\ MutexStep(e)
    BY <1>1, <1>7, <2>1, HostAssumption
    DEF ScrubDescriptors, VarsStep, VarsKept, MutexStep, Holding, Critical, TypeOK,
        HostTypeOK, ExecTypeOK
  <2>9. SnapshotInv(e)'
    BY <1>1, <2>1, <2>2, <2>3, OwnSnapshot DEF Critical
  <2> QED
    BY <2>2, <2>3, <2>4, <2>5, <2>6, <2>7, <2>8, <2>9, StepPreserves DEF LocalInv
<1>8. CASE Execve(e)
  <2>1. /\ pc'[e] = pc[e] /\ cpc[e] = "scrubbed" /\ cpc'[e] = "target"
        /\ fds'[e] = fds[e] /\ held'[e] = held[e] /\ known'[e] = known[e]
        /\ toParent'[e] = toParent[e] /\ ack'[e] = ack[e]
        /\ snapshot'[e] = snapshot[e] /\ toClose'[e] = toClose[e]
        /\ lslot'[e] = lslot[e] /\ unlisted'[e] = unlisted[e] /\ childTable'[e] = childTable[e]
    BY <1>1, <1>8 DEF Execve, TypeOK, HostTypeOK, ExecTypeOK
  <2>2. /\ TableStep(e) /\ ListenersStep(e)
        /\ \A s \in Slots : HasListener(e, s)' <=> HasListener(e, s)
    BY <1>8, QuietFrame DEF Execve
  <2>3. Accounts(e)' /\ (ListenerThere(e) => ListenerThere(e)')
    BY <1>1, <1>8, <2>1, QuietFrame DEF Execve
  <2>4. PhaseInv(e)'
    BY <1>1, <2>1
    DEF PhaseInv, BeforeClone, AwaitsChild, Holding, Critical, SharingPhases
  <2>5. HeldInv(e)'
    BY <1>1, <2>1, <2>2, <2>3 DEF HeldInv, PhaseInv, BeforeClone, AwaitsChild, SharingPhases
  <2>6. MessagesInv(e)'
    BY <1>1, <2>1
    DEF MessagesInv, PhaseInv, Reported, Detached, BeforeClone, AwaitsChild,
        SharingPhases
  <2>7. ListenerInv(e)'
    BY <1>1, <2>1, <2>2, <2>3
    DEF ListenerInv, PhaseInv, MessagesInv, BeforeClone, AwaitsChild, SharingPhases
  <2>8. VarsStep(e) /\ MutexStep(e)
    BY <1>1, <1>8, <2>1, HostAssumption
    DEF Execve, VarsStep, VarsKept, MutexStep, Holding, Critical, TypeOK,
        HostTypeOK, ExecTypeOK
  <2>9. SnapshotInv(e)'
    BY <1>1, <2>1, <2>2, <2>3, OwnSnapshot DEF Critical
  <2> QED
    BY <2>2, <2>3, <2>4, <2>5, <2>6, <2>7, <2>8, <2>9, StepPreserves DEF LocalInv
<1>9. CASE ChildDies(e) /\ UNCHANGED cloneVars
  <2>1. /\ pc'[e] = pc[e] /\ cpc[e] \in AlivePhases /\ cpc'[e] = "dead"
        /\ fds'[e] = fds[e] /\ held'[e] = held[e] /\ known'[e] = known[e]
        /\ toParent'[e] = toParent[e] /\ ack'[e] = ack[e]
        /\ snapshot'[e] = snapshot[e] /\ toClose'[e] = toClose[e]
        /\ lslot'[e] = lslot[e] /\ unlisted'[e] = unlisted[e]
    BY <1>1, <1>9 DEF ChildDies, TypeOK, HostTypeOK, ExecTypeOK
  <2>2. /\ TableStep(e) /\ ListenersStep(e)
        /\ \A s \in Slots : HasListener(e, s)' <=> HasListener(e, s)
    BY <1>9, QuietFrame DEF ChildDies
  <2>3. Accounts(e)' /\ (ListenerThere(e) => ListenerThere(e)')
    BY <1>1, <1>9, <2>1, QuietFrame DEF ChildDies
  <2>4. PhaseInv(e)'
    BY <1>1, <2>1
    DEF PhaseInv, BeforeClone, AwaitsChild, Holding, Critical, SharingPhases,
        AlivePhases
  <2>5. HeldInv(e)'
    BY <1>1, <2>1, <2>2, <2>3 DEF HeldInv, PhaseInv, BeforeClone, AwaitsChild, SharingPhases
  <2>6. MessagesInv(e)'
    BY <1>1, <2>1
    DEF MessagesInv, PhaseInv, Reported, Detached, BeforeClone, AwaitsChild,
        SharingPhases
  <2>7. ListenerInv(e)'
    BY <1>1, <2>1, <2>2, <2>3
    DEF ListenerInv, PhaseInv, MessagesInv, BeforeClone, AwaitsChild, SharingPhases
  <2>8. VarsStep(e) /\ MutexStep(e)
    BY <1>1, <1>9, <2>1, HostAssumption
    DEF ChildDies, VarsStep, VarsKept, MutexStep, Holding, Critical, TypeOK,
        HostTypeOK, ExecTypeOK
  <2>9. SnapshotInv(e)'
    BY <1>1, <2>1, <2>2, <2>3, OwnSnapshot DEF Critical
  <2> QED
    BY <2>2, <2>3, <2>4, <2>5, <2>6, <2>7, <2>8, <2>9, StepPreserves DEF LocalInv
<1> QED
  BY <1>2, <1>3, <1>4, <1>5, <1>6, <1>7, <1>8, <1>9

-----------------------------------------------------------------------------
(* The steps that make, close or hand on a listener.                       *)

LEMMA InstallPreserves ==
  ASSUME IInv, NEW e \in Execs, e \in CloneExecs, TypeOK', InstallListener(e)
  PROVE  IInv' /\ Frame(e)
<1> USE DEF InstallListener, ChildMove
<1>1. /\ TypeOK /\ PhaseInv(e) /\ HeldInv(e) /\ Accounts(e) /\ MessagesInv(e)
      /\ ListenerInv(e) /\ SnapshotInv(e)
      /\ bootstrapMutex = e <=> pc[e] \in Holding
  BY Facts
<1>2. PICK s \in LowestFree(fdTable) :
        /\ fdTable' = [fdTable EXCEPT ![s] = FileOf("listener", e)]
        /\ lslot' = [lslot EXCEPT ![e] = s]
  OBVIOUS
<1>3. s \in Slots /\ fdTable[s] = Free
  BY LowestFreeIsFree DEF LowestFree
<1>4. /\ cpc[e] = "shared" /\ cpc'[e] = "listening" /\ lslot'[e] = s
      /\ pc'[e] = pc[e] /\ fds'[e] = fds[e] /\ held'[e] = held[e] /\ known'[e] = known[e]
      /\ toParent'[e] = toParent[e] /\ ack'[e] = ack[e] /\ snapshot'[e] = snapshot[e]
      /\ toClose'[e] = toClose[e]
  BY <1>1, <1>2 DEF TypeOK, ExecTypeOK
<1>5. /\ pc[e] = "kill" \/ (pc[e] = "awaitSlot" /\ toParent[e] = <<>>)
      /\ bootstrapMutex = e /\ known[e] = NoSlot /\ ~unlisted[e] /\ unlisted'[e] = unlisted[e]
  BY <1>1, <1>4
  DEF PhaseInv, MessagesInv, ListenerInv, BeforeClone, AwaitsChild, Holding, Critical,
      SharingPhases
<1>6. \A t \in Slots : fdTable'[t] = IF t = s THEN FileOf("listener", e) ELSE fdTable[t]
  BY <1>1, <1>2, <1>3 DEF TypeOK, HostTypeOK
<1>7. TableStep(e) /\ ListenersStep(e)
  BY <1>3, <1>5, <1>6, FileOfFields DEF TableStep, ListenersStep
<1>8. VarsStep(e) /\ MutexStep(e)
  BY <1>1, <1>2, <1>4 DEF VarsStep, VarsKept, MutexStep, TypeOK, ExecTypeOK
<1>9. Accounts(e)'
  <2>1. \A k \in held[e] : k # "free"
    BY <1>1 DEF TypeOK, ExecTypeOK, Ends
  <2>2. \A k \in held[e] : fds[e][k] # s
    BY <1>1, <1>3, <2>1, FileOfFields, FreeIsNobodys DEF Accounts
  <2> QED
    BY <1>1, <1>4, <1>6, <2>2, FileOfFields DEF Accounts
<1>10. \A t \in Slots : HasListener(e, t)' <=> t = s
  BY <1>1, <1>4, <1>6, FileOfFields DEF HasListener, ListenerInv
<1>11. ListenerThere(e)'
  BY <1>3, <1>4, <1>6 DEF ListenerThere
<1>12. PhaseInv(e)' /\ HeldInv(e)' /\ MessagesInv(e)'
  BY <1>1, <1>4, <1>5, <1>9 DEF PhaseInv, HeldInv, MessagesInv, BeforeClone, AwaitsChild,
                                SharingPhases
<1>13. ListenerInv(e)'
  BY <1>1, <1>4, <1>5, <1>10, <1>11 DEF ListenerInv, BeforeClone
<1>14. SnapshotInv(e)'
  BY <1>1, <1>4, <1>7, OwnSnapshot
<1> QED
  BY <1>7, <1>8, <1>12, <1>13, <1>14, StepPreserves DEF LocalInv

LEMMA SweepPreserves ==
  ASSUME IInv, NEW e \in Execs, e \in CloneExecs, TypeOK', CloseNewListener(e)
  PROVE  IInv' /\ Frame(e)
<1> USE DEF CloseNewListener, execVars
<1>1. /\ TypeOK /\ PhaseInv(e) /\ HeldInv(e) /\ Accounts(e) /\ MessagesInv(e)
      /\ ListenerInv(e) /\ SnapshotInv(e)
      /\ bootstrapMutex = e <=> pc[e] \in Holding
  BY Facts
<1>2. PICK l \in toClose[e] : /\ fdTable' = Closed(fdTable, {l})
                              /\ toClose' = [toClose EXCEPT ![e] = @ \ {l}]
  OBVIOUS
<1>3. /\ pc[e] = "sweep" /\ pc' = pc /\ cpc' = cpc /\ fds' = fds /\ held' = held
      /\ known' = known /\ toParent' = toParent /\ ack' = ack /\ snapshot' = snapshot
      /\ lslot' = lslot /\ childTable' = childTable /\ bootstrapMutex' = bootstrapMutex
      /\ toClose'[e] = toClose[e] \ {l} /\ unlisted' = unlisted
  BY <1>1, <1>2 DEF TypeOK
<1>4. /\ bootstrapMutex = e /\ cpc[e] = "reaped"
      /\ ~unlisted[e] /\ toClose[e] = {s \in Slots : HasListener(e, s)}
  BY <1>1, <1>2, <1>3 DEF PhaseInv, ListenerInv, Holding, Critical
<1>5. l \in Slots /\ HasListener(e, l)
  BY <1>4
<1>6. /\ TableStep(e) /\ ListenersStep(e) /\ Accounts(e)'
      /\ \A s \in Slots : HasListener(e, s)' <=> HasListener(e, s) /\ s # l
  BY <1>1, <1>2, <1>3, <1>4, <1>5, CloseListenerFrame
<1>7. VarsStep(e) /\ MutexStep(e)
  BY <1>1, <1>2, <1>3 DEF VarsStep, VarsKept, MutexStep, TypeOK
<1>8. PhaseInv(e)' /\ HeldInv(e)' /\ MessagesInv(e)'
  BY <1>1, <1>3, <1>4, <1>6 DEF PhaseInv, HeldInv, MessagesInv, BeforeClone, AwaitsChild
<1>9. toClose'[e] = {s \in Slots : HasListener(e, s)'}
  BY <1>3, <1>4, <1>6
<1>10. ListenerInv(e)'
  BY <1>1, <1>3, <1>4, <1>6, <1>9 DEF ListenerInv, BeforeClone
<1>11. SnapshotInv(e)'
  BY <1>1, <1>3, <1>6, OwnSnapshot
<1> QED
  BY <1>6, <1>7, <1>8, <1>10, <1>11, StepPreserves DEF LocalInv

LEMMA DisownPreserves ==
  ASSUME IInv, NEW e \in Execs, e \in CloneExecs, TypeOK', Disown(e)
  PROVE  IInv' /\ Frame(e)
<1> USE DEF Disown, Move, cloneVars
<1>1. /\ TypeOK /\ PhaseInv(e) /\ HeldInv(e) /\ Accounts(e) /\ MessagesInv(e)
      /\ ListenerInv(e) /\ SnapshotInv(e)
      /\ bootstrapMutex = e <=> pc[e] \in Holding
  BY Facts
<1>2. /\ pc[e] = "disown" /\ pc'[e] = "unlock" /\ cpc'[e] = cpc[e] /\ fds'[e] = fds[e]
      /\ held'[e] = {} /\ known'[e] = known[e] /\ toParent'[e] = toParent[e]
      /\ ack'[e] = ack[e] /\ snapshot'[e] = snapshot[e] /\ toClose'[e] = toClose[e]
      /\ lslot'[e] = lslot[e] /\ unlisted'[e] = unlisted[e] /\ childTable'[e] = childTable[e]
  BY <1>1 DEF TypeOK, HostTypeOK, ExecTypeOK
<1>3. /\ bootstrapMutex = e /\ cpc[e] = "reaped" /\ known[e] = lslot[e] /\ ~unlisted[e]
      /\ known[e] \in Slots /\ HasListener(e, known[e])
  BY <1>1, <1>2, FileOfFields
  DEF PhaseInv, ListenerInv, ListenerThere, HasListener, Holding, Critical
<1>4. held[e] \subseteq Ends
  BY <1>1 DEF TypeOK, ExecTypeOK
<1>5. \A s \in HeldSlots(e, Ends) \cup {known[e]} : s \in Slots /\ fdTable[s].owner = e
  BY <1>1, <1>3, FileOfFields DEF HeldSlots, Accounts, HasListener
<1>6. \A s \in Slots :
        fdTable'[s] = IF s \in HeldSlots(e, Ends) \cup {known[e]} THEN Free ELSE fdTable[s]
  BY DEF Closed
<1>7. TableStep(e) /\ ListenersStep(e)
  BY <1>3, <1>5, <1>6 DEF TableStep, ListenersStep
<1>8. \A s \in Slots : fdTable[s].owner = e => s \in HeldSlots(e, Ends) \cup {known[e]}
  <2> SUFFICES ASSUME NEW s \in Slots, fdTable[s].owner = e, s # known[e]
               PROVE  s \in HeldSlots(e, Ends)
    OBVIOUS
  <2>1. fdTable[s].kind # "listener"
    BY <1>1, <1>3 DEF ListenerInv, HasListener
  <2>2. fdTable[s].kind \in held[e] \cap Ends /\ fds[e][fdTable[s].kind] = s
    BY <1>1, <1>4, <2>1 DEF Accounts
  <2> QED
    BY <2>2 DEF HeldSlots
<1>9. \A s \in Slots : fdTable'[s].owner # e
  BY <1>6, <1>8, FreeIsNobodys
<1>10. Accounts(e)' /\ (\A s \in Slots : ~HasListener(e, s)')
  BY <1>2, <1>9 DEF Accounts, HasListener
<1>11. VarsStep(e) /\ MutexStep(e)
  BY <1>1, <1>2, HostAssumption
  DEF VarsStep, VarsKept, MutexStep, Holding, Critical, TypeOK, HostTypeOK, ExecTypeOK
<1>12. PhaseInv(e)' /\ HeldInv(e)' /\ MessagesInv(e)'
  BY <1>1, <1>2, <1>3, <1>10 DEF PhaseInv, HeldInv, MessagesInv, BeforeClone, AwaitsChild,
                                 Holding, Critical
<1>13. ListenerInv(e)'
  BY <1>1, <1>2, <1>3, <1>10 DEF ListenerInv, BeforeClone
<1>14. SnapshotInv(e)'
  BY <1>2 DEF SnapshotInv
<1> QED
  BY <1>7, <1>11, <1>12, <1>13, <1>14, StepPreserves DEF LocalInv

LEMMA DropPreserves ==
  ASSUME IInv, NEW e \in Execs, e \in CloneExecs, TypeOK', Drop(e)
  PROVE  IInv' /\ Frame(e)
<1> USE DEF Drop, Move, ForgetCloneLocals, ForgetLocals
<1>1. /\ TypeOK /\ PhaseInv(e) /\ HeldInv(e) /\ Accounts(e) /\ MessagesInv(e)
      /\ ListenerInv(e) /\ SnapshotInv(e)
      /\ bootstrapMutex = e <=> pc[e] \in Holding
  BY Facts
<1>2. /\ pc[e] = "drop" /\ pc'[e] = "failed" /\ cpc'[e] = cpc[e] /\ held'[e] = {}
      /\ known'[e] = NoSlot /\ toParent'[e] = <<>> /\ ack'[e] = FALSE
      /\ unlisted'[e] = unlisted[e]
  BY <1>1 DEF TypeOK, ExecTypeOK
<1>3. held'[e] = held[e] \ Ends
  BY <1>1, <1>2 DEF TypeOK, ExecTypeOK
<1>4. /\ TableStep(e) /\ ListenersStep(e) /\ Accounts(e)'
      /\ \A s \in Slots : HasListener(e, s)' <=> HasListener(e, s)
  BY <1>1, <1>2, <1>3, CloseHeldFrame
<1>5. /\ \A s, t \in Slots : HasListener(e, s)' /\ HasListener(e, t)' => s = t
      /\ ~unlisted[e] \/ cpc[e] = "none" => \A s \in Slots : ~HasListener(e, s)'
  BY <1>1, <1>2, <1>4 DEF ListenerInv
<1>6. VarsStep(e) /\ MutexStep(e)
  BY <1>1, <1>2
  DEF VarsStep, VarsKept, MutexStep, Holding, Critical, TypeOK, HostTypeOK, ExecTypeOK
<1>7. PhaseInv(e)'
  BY <1>1, <1>2 DEF PhaseInv, BeforeClone, AwaitsChild, Holding, Critical
<1>8. HeldInv(e)' /\ MessagesInv(e)'
  BY <1>1, <1>2, <1>4 DEF PhaseInv, HeldInv, MessagesInv, BeforeClone, AwaitsChild
<1>9. ListenerInv(e)'
  BY <1>1, <1>2, <1>5 DEF ListenerInv, PhaseInv, BeforeClone
<1>10. SnapshotInv(e)'
  BY <1>2 DEF SnapshotInv, Critical
<1> QED
  BY <1>4, <1>6, <1>7, <1>8, <1>9, <1>10, StepPreserves DEF LocalInv

LEMMA CloseListenerPreserves ==
  ASSUME IInv, NEW e \in Execs, e \in CloneExecs, TypeOK', CloseListener(e), UNCHANGED cloneVars
  PROVE  IInv' /\ Frame(e)
<1> USE DEF CloseListener, Move, ForgetLocals, cloneVars
<1>1. /\ TypeOK /\ PhaseInv(e) /\ HeldInv(e) /\ Accounts(e) /\ MessagesInv(e)
      /\ ListenerInv(e) /\ SnapshotInv(e)
      /\ bootstrapMutex = e <=> pc[e] \in Holding
  BY Facts
<1>2. /\ pc[e] = "closeNotify" /\ pc'[e] = "done" /\ cpc'[e] = cpc[e] /\ held'[e] = {}
      /\ known'[e] = NoSlot /\ toParent'[e] = <<>> /\ ack'[e] = FALSE
      /\ ~unlisted'[e]
  BY <1>1 DEF TypeOK, ExecTypeOK, ListenerInv
<1>3. /\ held[e] = {} /\ cpc[e] = "reaped" /\ bootstrapMutex = e /\ known[e] = lslot[e]
      /\ known[e] \in Slots /\ HasListener(e, known[e])
  BY <1>1, <1>2, FileOfFields
  DEF HeldInv, PhaseInv, ListenerInv, ListenerThere, HasListener, Holding
<1>4. /\ TableStep(e) /\ ListenersStep(e) /\ Accounts(e)'
      /\ \A s \in Slots : HasListener(e, s)' <=> HasListener(e, s) /\ s # known[e]
  BY <1>1, <1>2, <1>3, CloseListenerFrame
<1>5. \A s \in Slots : ~HasListener(e, s)'
  BY <1>1, <1>3, <1>4 DEF ListenerInv
<1>6. VarsStep(e) /\ MutexStep(e)
  BY <1>1, <1>2, <1>3, HostAssumption
  DEF VarsStep, VarsKept, MutexStep, Holding, Critical, TypeOK, HostTypeOK, ExecTypeOK
<1>7. PhaseInv(e)' /\ HeldInv(e)' /\ MessagesInv(e)'
  BY <1>2, <1>3, <1>4 DEF PhaseInv, HeldInv, MessagesInv, BeforeClone, AwaitsChild
<1>8. ListenerInv(e)'
  BY <1>2, <1>3, <1>5 DEF ListenerInv, BeforeClone
<1>9. SnapshotInv(e)'
  BY <1>2 DEF SnapshotInv, Critical
<1> QED
  BY <1>4, <1>6, <1>7, <1>8, <1>9, StepPreserves DEF LocalInv

-----------------------------------------------------------------------------
(* The preparation of a call, and the application's own descriptors.       *)

\* What the invariant says of a call that has no child yet.
LEMMA BeforeTheChild ==
  ASSUME NEW e \in Execs, PhaseInv(e), MessagesInv(e), ListenerInv(e),
         pc[e] \in {"idle", "paired", "prepared"}
  PROVE  /\ cpc[e] = "none" /\ ~ack[e] /\ toParent[e] = <<>> /\ known[e] = NoSlot
         /\ ~unlisted[e]
         /\ \A s \in Slots : ~HasListener(e, s)
BY DEF PhaseInv, MessagesInv, ListenerInv, BeforeClone

\* The ends a call opens are its own, and no listener is among them.
LEMMA PrepareFrame ==
  ASSUME TypeOK, NEW e \in Execs, CreatePair(e) \/ CreatePipes(e), UNCHANGED cloneVars,
         Accounts(e), \A s \in Slots : ~HasListener(e, s),
         pc[e] = "idle" => held[e] = {}, pc[e] = "paired" => held[e] = {"sup", "child"}
  PROVE  /\ VarsStep(e) /\ TableStep(e) /\ ListenersKept /\ Accounts(e)'
         /\ UNCHANGED <<childTable, bootstrapMutex, cpc, known, toParent, ack>>
         /\ \/ pc[e] = "idle" /\ pc'[e] = "paired" /\ held'[e] = {"sup", "child"}
            \/ pc[e] = "paired" /\ pc'[e] = "prepared" /\ held'[e] = Ends
<1> USE DEF cloneVars, Move
<1>1. fdTable \in [Slots -> Entries] /\ fds \in [Execs -> [Ends -> Slots \cup {NoSlot}]]
      /\ held \in [Execs -> SUBSET Ends] /\ pc \in [Execs -> ParentPhases]
  BY DEF TypeOK, HostTypeOK, ExecTypeOK
<1>2. CASE CreatePair(e)
  <2>1. PICK s \in LowestFree(fdTable) : \E t \in LowestFreeExcept(fdTable, {s}) :
          /\ fdTable' = [fdTable EXCEPT ![s] = FileOf("sup", e), ![t] = FileOf("child", e)]
          /\ fds' = [fds EXCEPT ![e]["sup"] = s, ![e]["child"] = t]
    BY <1>2 DEF CreatePair
  <2>2. PICK t \in LowestFreeExcept(fdTable, {s}) :
          /\ fdTable' = [fdTable EXCEPT ![s] = FileOf("sup", e), ![t] = FileOf("child", e)]
          /\ fds' = [fds EXCEPT ![e]["sup"] = s, ![e]["child"] = t]
    BY <2>1
  <2>3. s \in Slots /\ t \in Slots /\ s # t /\ fdTable[s] = Free /\ fdTable[t] = Free
    BY LowestFreeIsFree DEF LowestFree
  <2>4. /\ pc[e] = "idle" /\ pc'[e] = "paired" /\ held'[e] = {"sup", "child"}
        /\ fds'[e]["sup"] = s /\ fds'[e]["child"] = t
    BY <1>1, <1>2, <2>2, <2>3 DEF CreatePair, Ends
  <2>5. \A u \in Slots : fdTable'[u] = IF u = t THEN FileOf("child", e)
                                       ELSE IF u = s THEN FileOf("sup", e) ELSE fdTable[u]
    BY <1>1, <2>2, <2>3
  <2>6. TableStep(e) /\ ListenersKept
    BY <2>3, <2>5, FileOfFields, FreeIsNobodys DEF TableStep, ListenersKept
  <2>7. Accounts(e)'
    <3>1. \A u \in Slots : fdTable[u].owner # e
      BY <2>4 DEF Accounts, HasListener
    <3> QED
      BY <2>3, <2>4, <2>5, <3>1, FileOfFields DEF Accounts
  <2>8. VarsStep(e)
    BY <1>1, <1>2, <2>2 DEF CreatePair, VarsStep, VarsKept
  <2> QED
    BY <1>2, <2>4, <2>6, <2>7, <2>8 DEF CreatePair
<1>3. CASE CreatePipes(e)
  <2>1. PICK s \in LowestFree(fdTable) :
          /\ fdTable' = [fdTable EXCEPT ![s] = FileOf("pipe", e)]
          /\ fds' = [fds EXCEPT ![e]["pipe"] = s]
    BY <1>3 DEF CreatePipes
  <2>2. s \in Slots /\ fdTable[s] = Free
    BY LowestFreeIsFree DEF LowestFree
  <2>3. /\ pc[e] = "paired" /\ pc'[e] = "prepared" /\ held[e] = {"sup", "child"}
        /\ held'[e] = Ends /\ fds'[e]["pipe"] = s
        /\ fds'[e]["sup"] = fds[e]["sup"] /\ fds'[e]["child"] = fds[e]["child"]
    BY <1>1, <1>3, <2>1 DEF CreatePipes, Ends
  <2>4. \A u \in Slots : fdTable'[u] = IF u = s THEN FileOf("pipe", e) ELSE fdTable[u]
    BY <1>1, <2>1, <2>2
  <2>5. TableStep(e) /\ ListenersKept
    BY <2>2, <2>4, FileOfFields, FreeIsNobodys DEF TableStep, ListenersKept
  <2>6. Accounts(e)'
    <3>1. \A k \in held[e] : fds[e][k] # s
      BY <2>2, <2>3, FileOfFields, FreeIsNobodys DEF Accounts
    <3> QED
      BY <2>2, <2>3, <2>4, <3>1, FileOfFields DEF Accounts, Ends
  <2>7. VarsStep(e)
    BY <1>1, <1>3, <2>1 DEF CreatePipes, VarsStep, VarsKept
  <2> QED
    BY <1>3, <2>3, <2>5, <2>6, <2>7 DEF CreatePipes
<1> QED
  BY <1>2, <1>3

\* Entries that are not listeners are made for e, which has no child.
LEMMA PreparedEntries ==
  ASSUME IInv, NEW e \in Execs, e \in CloneExecs, TypeOK', UNCHANGED <<childTable, bootstrapMutex>>,
         UNCHANGED <<cpc, known, toParent, ack, snapshot, toClose, lslot, unlisted>>,
         VarsStep(e), TableStep(e), ListenersKept, Accounts(e)',
         \/ pc[e] = "idle" /\ pc'[e] = "paired" /\ held'[e] = {"sup", "child"}
         \/ pc[e] = "paired" /\ pc'[e] = "prepared" /\ held'[e] = Ends
  PROVE  IInv' /\ Frame(e)
<1>1. /\ TypeOK /\ PhaseInv(e) /\ HeldInv(e) /\ Accounts(e) /\ MessagesInv(e)
      /\ ListenerInv(e) /\ SnapshotInv(e)
      /\ bootstrapMutex = e <=> pc[e] \in Holding
  BY Facts
<1>2. /\ cpc[e] = "none" /\ ~ack[e] /\ toParent[e] = <<>> /\ known[e] = NoSlot
      /\ ~unlisted[e]
      /\ \A s \in Slots : ~HasListener(e, s)
  BY <1>1, BeforeTheChild
<1>3. \A s \in Slots : ~HasListener(e, s)'
  BY <1>2 DEF ListenersKept, HasListener
<1>4. PhaseInv(e)' /\ HeldInv(e)' /\ MessagesInv(e)'
  BY <1>2 DEF PhaseInv, HeldInv, MessagesInv, BeforeClone, AwaitsChild
<1>5. ListenerInv(e)'
  BY <1>2, <1>3 DEF ListenerInv, BeforeClone
<1>6. MutexStep(e)
  BY <1>1 DEF MutexStep, Holding, Critical
<1>7. SnapshotInv(e)'
  BY DEF SnapshotInv, Critical
<1> QED
  BY <1>4, <1>5, <1>6, <1>7, StepPreserves DEF LocalInv, ListenersStep

LEMMA PreparePreserves ==
  ASSUME IInv, NEW e \in Execs, e \in CloneExecs, TypeOK', Prepare(e), UNCHANGED cloneVars
  PROVE  IInv' /\ Frame(e)
<1> USE DEF cloneVars, Move
<1>1. /\ TypeOK /\ PhaseInv(e) /\ HeldInv(e) /\ Accounts(e) /\ MessagesInv(e)
      /\ ListenerInv(e) /\ SnapshotInv(e)
      /\ bootstrapMutex = e <=> pc[e] \in Holding
  BY Facts
<1>2. held \in [Execs -> SUBSET Ends] /\ pc \in [Execs -> ParentPhases]
  BY <1>1 DEF TypeOK, ExecTypeOK
<1>3. CASE CreatePair(e) \/ CreatePipes(e)
  <2>1. pc[e] \in {"idle", "paired", "prepared"}
    BY <1>3 DEF CreatePair, CreatePipes
  <2>2. \A s \in Slots : ~HasListener(e, s)
    BY <1>1, <2>1, BeforeTheChild
  <2>3. /\ pc[e] = "idle" => held[e] = {}
        /\ pc[e] = "paired" => held[e] = {"sup", "child"}
    BY <1>1 DEF HeldInv
  <2>4. /\ VarsStep(e) /\ TableStep(e) /\ ListenersKept /\ Accounts(e)'
        /\ UNCHANGED <<childTable, bootstrapMutex, cpc, known, toParent, ack>>
        /\ \/ pc[e] = "idle" /\ pc'[e] = "paired" /\ held'[e] = {"sup", "child"}
           \/ pc[e] = "paired" /\ pc'[e] = "prepared" /\ held'[e] = Ends
    BY <1>1, <1>3, <2>2, <2>3, PrepareFrame
  <2> QED
    BY <2>4, PreparedEntries
<1>4. CASE PreparationFails(e)
  <2>1. /\ pc[e] \in {"idle", "paired"} /\ pc'[e] = "failed" /\ cpc'[e] = cpc[e]
        /\ held'[e] = {} /\ known'[e] = NoSlot /\ toParent'[e] = <<>> /\ ack'[e] = FALSE
        /\ fdTable' = Closed(fdTable, HeldSlots(e, Ends))
    BY <1>1, <1>4 DEF PreparationFails, ForgetLocals, TypeOK, ExecTypeOK
  <2>2. held'[e] = held[e] \ Ends
    BY <1>2, <2>1
  <2>3. /\ TableStep(e) /\ ListenersStep(e) /\ Accounts(e)'
        /\ \A s \in Slots : HasListener(e, s)' <=> HasListener(e, s)
    BY <1>1, <2>1, <2>2, CloseHeldFrame
  <2>4. cpc[e] = "none" /\ ~unlisted'[e] /\ \A s \in Slots : ~HasListener(e, s)'
    BY <1>1, <2>1, <2>3, BeforeTheChild
  <2>5. VarsStep(e) /\ MutexStep(e)
    BY <1>1, <1>2, <1>4, <2>1
    DEF PreparationFails, ForgetLocals, VarsStep, VarsKept, MutexStep, Holding, Critical,
        TypeOK, ExecTypeOK
  <2>6. PhaseInv(e)' /\ HeldInv(e)' /\ MessagesInv(e)'
    BY <2>1, <2>3, <2>4 DEF PhaseInv, HeldInv, MessagesInv, BeforeClone, AwaitsChild
  <2>7. ListenerInv(e)'
    BY <2>1, <2>4 DEF ListenerInv, BeforeClone
  <2>8. SnapshotInv(e)'
    BY <2>1 DEF SnapshotInv, Critical
  <2> QED
    BY <2>3, <2>5, <2>6, <2>7, <2>8, StepPreserves DEF LocalInv
<1> QED
  BY <1>3, <1>4 DEF Prepare

\* The application leaves every call alone.
LEMMA AppKeeps ==
  ASSUME TypeOK, AppStep
  PROVE  /\ UNCHANGED <<childTable, bootstrapMutex>> /\ ListenersKept
         /\ \A f \in Execs : VarsKept(f) /\ EntriesKept(f)
<1>1. fdTable \in [Slots -> Entries]
  BY DEF TypeOK, HostTypeOK
<1>2. UNCHANGED <<execVars, cloneVars, childTable, bootstrapMutex>>
  BY DEF AppStep, AppOpen, AppClose
<1>3. \A f \in Execs : VarsKept(f)
  BY <1>2 DEF VarsKept, execVars, cloneVars
<1>4. PICK s \in Slots : /\ \A t \in Slots \ {s} : fdTable'[t] = fdTable[t]
                         /\ {fdTable[s], fdTable'[s]} = {Free, AppFile}
  <2>1. CASE AppOpen
    <3>1. PICK s \in LowestFree(fdTable) : fdTable' = [fdTable EXCEPT ![s] = AppFile]
      BY <2>1 DEF AppOpen
    <3>2. s \in Slots /\ fdTable[s] = Free
      BY LowestFreeIsFree DEF LowestFree
    <3> QED
      BY <1>1, <3>1, <3>2
  <2>2. CASE AppClose
    <3>1. PICK s \in Slots : fdTable[s] = AppFile /\ fdTable' = Closed(fdTable, {s})
      BY <2>2 DEF AppClose
    <3> QED
      BY <3>1 DEF Closed
  <2> QED
    BY <2>1, <2>2 DEF AppStep
<1>5. \A f \in Execs : EntriesKept(f)
  BY <1>4, FreeIsNobodys DEF EntriesKept
<1>6. ListenersKept
  BY <1>4, FreeIsNobodys, HostAssumption DEF ListenersKept, Free, AppFile
<1> QED
  BY <1>2, <1>3, <1>5, <1>6

LEMMA AppPreserves ==
  ASSUME IInv, TypeOK', AppStep
  PROVE  IInv'
BY AppKeeps, QuietStepPreserves DEF IInv

-----------------------------------------------------------------------------
(* The invariant holds, and what follows from it.                          *)

LEMMA InitIInv == Init => IInv
<1> SUFFICES ASSUME Init PROVE IInv
  OBVIOUS
<1>1. TypeOK
  BY InitTypeOK
<1>2. /\ bootstrapMutex = NoExec /\ \A s \in Slots : fdTable[s] = Free
      /\ \A e \in Execs :
           /\ pc[e] = "idle" /\ cpc[e] = "none" /\ held[e] = {} /\ known[e] = NoSlot
           /\ toParent[e] = <<>> /\ ack[e] = FALSE /\ unlisted[e] = FALSE
  BY DEF Init, HostInit, ExecInit, CloneInit, EmptyTable
<1>3. MutexInv
  BY <1>2, HostAssumption, CloneAssumption DEF MutexInv, Holding, Critical
<1>4. ASSUME NEW e \in Execs PROVE LocalInv(e) /\ SnapshotInv(e)
  <2>1. \A s \in Slots : fdTable[s].owner # e
    BY <1>2, FreeIsNobodys
  <2>2. PhaseInv(e) /\ MessagesInv(e)
    BY <1>2 DEF PhaseInv, MessagesInv, BeforeClone, AwaitsChild
  <2>3. HeldInv(e)
    BY <1>2, <2>1 DEF HeldInv, Accounts, AwaitsChild
  <2>4. ListenerInv(e)
    BY <1>2, <2>1 DEF ListenerInv, HasListener, BeforeClone
  <2>5. SnapshotInv(e)
    BY <1>2 DEF SnapshotInv, Critical
  <2> QED
    BY <2>2, <2>3, <2>4, <2>5 DEF LocalInv
<1> QED
  BY <1>1, <1>3, <1>4, CloneAssumption DEF IInv

\* A step of one call, and what the others may rely on.
LEMMA CallPreserves ==
  ASSUME IInv, NEW e \in Execs, e \in CloneExecs, CloneStep(e)
  PROVE  IInv' /\ Frame(e)
<1>1. TypeOK'
  BY NextTypeOK DEF IInv, Next, CloneNext
<1>2. CASE ParentStep(e)
  BY <1>1, <1>2, PreparePreserves, HandshakePreserves, ClosingPreserves, CleanupPreserves,
     SweepPreserves, DisownPreserves, DropPreserves, CloseListenerPreserves
  DEF ParentStep
<1>3. CASE BootstrapStep(e)
  BY <1>1, <1>3, InstallPreserves, ChildPreserves DEF BootstrapStep
<1>4. CASE BootstrapFails(e) \/ KillSupervised(e) \/ (ChildDies(e) /\ UNCHANGED cloneVars)
  BY <1>1, <1>4, HandshakePreserves, ClosingPreserves, ChildPreserves
<1> QED
  BY <1>2, <1>3, <1>4 DEF CloneStep

LEMMA NextIInv == IInv /\ [Next]_vars => IInv'
<1> SUFFICES ASSUME IInv, [Next]_vars PROVE IInv'
  OBVIOUS
<1>1. TypeOK'
  BY NextTypeOK DEF IInv
<1>2. CASE UNCHANGED vars
  <2>1. ListenersKept /\ bootstrapMutex' = bootstrapMutex
        /\ \A f \in Execs : VarsKept(f) /\ EntriesKept(f)
    BY <1>2 DEF vars, hostVars, execVars, cloneVars, ListenersKept, VarsKept, EntriesKept
  <2> QED
    BY <1>1, <2>1, QuietStepPreserves
<1>3. CASE AppStep
  BY <1>1, <1>3, AppPreserves
<1> QED
  BY <1>2, <1>3, CallPreserves, CloneAssumption DEF Next, CloneNext

\* The invariant holds in every reachable state, for every number of calls, every
\* size of the descriptor table and every number of application descriptors.
THEOREM InvariantHolds == Spec => []IInv
BY InitIInv, NextIInv, PTL DEF Spec

LEMMA IInvImplies ==
  ASSUME IInv
  PROVE  /\ SharingIsExclusive /\ SnapshotIsCurrent /\ ValidationAccepts
         /\ OwnsItsListener /\ TargetIsMediated /\ NothingLeaks
<1> SUFFICES ASSUME NEW e \in Execs, e \in CloneExecs
             PROVE  /\ cpc[e] \in SharingPhases => bootstrapMutex = e
                    /\ pc[e] = "validate" => validate_seccomp_notify_fd(e)
                    /\ pc[e] \in {"owned", "ackSent", "supervising", "dropNotify", "closeNotify"}
                         => known[e] \in Slots /\ fdTable[known[e]] = FileOf("listener", e)
                    /\ cpc[e] \in {"acked", "scrubbed", "target"} =>
                         /\ pc[e] \in {"ackSent", "supervising"}
                         /\ fdTable[known[e]] = FileOf("listener", e)
                    /\ pc[e] \in {"failed", "done"} =>
                         cpc[e] \in {"none", "reaped"} /\ LeavesNothingElse(e)
  BY CloneAssumption
  DEF IInv, SnapshotInv, SharingIsExclusive, SnapshotIsCurrent, ValidationAccepts,
      OwnsItsListener, TargetIsMediated, NothingLeaks
<1>1. /\ TypeOK /\ PhaseInv(e) /\ HeldInv(e) /\ Accounts(e) /\ MessagesInv(e)
      /\ ListenerInv(e) /\ SnapshotInv(e)
      /\ bootstrapMutex = e <=> pc[e] \in Holding
  BY Facts
<1>2. cpc[e] \in SharingPhases => bootstrapMutex = e
  BY <1>1 DEF PhaseInv, SharingPhases, BeforeClone, AwaitsChild, Holding, Critical
<1>3. pc[e] \in {"validate", "owned", "ackSent", "supervising", "dropNotify", "closeNotify"}
        => known[e] \in Slots /\ fdTable[known[e]] = FileOf("listener", e)
  BY <1>1 DEF ListenerInv, ListenerThere
<1>4. pc[e] = "validate" => validate_seccomp_notify_fd(e)
  BY <1>1, <1>3, FileOfFields
  DEF SnapshotInv, Critical, validate_seccomp_notify_fd, seccomp_notify_fds
<1>5. cpc[e] \in {"acked", "scrubbed", "target"} => pc[e] \in {"ackSent", "supervising"}
  BY <1>1 DEF PhaseInv, SharingPhases, BeforeClone, AwaitsChild, Holding, Critical
<1>6. ASSUME pc[e] \in {"failed", "done"}
      PROVE  cpc[e] \in {"none", "reaped"} /\ LeavesNothingElse(e)
  <2>1. cpc[e] \in {"none", "reaped"} /\ held[e] = {}
    BY <1>1, <1>6 DEF PhaseInv, HeldInv
  <2>2. \A s \in Leftovers(e) : s \in Slots /\ HasListener(e, s)
    BY <1>1, <2>1 DEF Leftovers, Accounts, HasListener
  <2>3. \A s \in Leftovers(e) : unlisted[e] /\ fdTable[s] = FileOf("listener", e)
    <3>1. \A s \in Slots : fdTable[s] \in Entries
      BY <1>1 DEF TypeOK, HostTypeOK
    <3>2. \A s \in Leftovers(e) : fdTable[s] = FileOf("listener", e)
      BY <2>2, <3>1 DEF Entries, HasListener, FileOf
    <3> QED
      BY <1>1, <1>6, <2>2, <3>2 DEF ListenerInv
  <2>4. \A s, t \in Leftovers(e) : s = t
    BY <1>1, <2>2 DEF ListenerInv
  <2> QED
    BY <2>1, <2>3, <2>4 DEF LeavesNothingElse
<1> QED
  BY <1>2, <1>3, <1>4, <1>5, <1>6

\* A child that runs on the host's descriptor table always belongs to the holder
\* of SHARED_BOOTSTRAP_MUTEX.
THEOREM SharingIsAlwaysExclusive == Spec => []SharingIsExclusive
BY InvariantHolds, IInvImplies, PTL

\* The listener snapshot stays right for as long as a bootstrap relies on it.
THEOREM SnapshotIsAlwaysCurrent == Spec => []SnapshotIsCurrent
BY InvariantHolds, IInvImplies, PTL

\* No bootstrap of an honest child is rejected because of other executions.
THEOREM ValidationAlwaysAccepts == Spec => []ValidationAccepts
BY InvariantHolds, IInvImplies, PTL

\* From validation to close, the slot the parent holds is its own listener's.
THEOREM AlwaysOwnsItsListener == Spec => []OwnsItsListener
BY InvariantHolds, IInvImplies, PTL

\* No target runs before its parent supervises it.
THEOREM TargetIsAlwaysMediated == Spec => []TargetIsMediated
BY InvariantHolds, IInvImplies, PTL

\* A call that returned has left no process behind, wherever its bootstrap
\* failed, and no descriptor but, at worst, the listener of a child that died
\* before it reported the slot while the listing of the descriptors failed too.
THEOREM NothingEverLeaks == Spec => []NothingLeaks
BY InvariantHolds, IInvImplies, PTL

-----------------------------------------------------------------------------
(* Who closes what.                                                        *)

\* Whatever e closes in this step is its own, and it moves.
ClosesOwn(e) ==
  \A s \in Slots :
    fdTable[s] # Free /\ fdTable'[s] # fdTable[s] =>
      fdTable[s].owner = e /\ (pc'[e] # pc[e] \/ toClose'[e] # toClose[e])

\* The numbers e may close are numbers of its own files.
LEMMA OwnSlots ==
  ASSUME IInv, NEW e \in Execs, e \in CloneExecs
  PROVE  /\ \A K : \A s \in HeldSlots(e, K) : fdTable[s].owner = e
         /\ pc[e] \in {"disown", "closeNotify"} => fdTable[known[e]].owner = e
         /\ pc[e] = "sweep" => \A s \in toClose[e] : fdTable[s].owner = e
<1>1. Accounts(e) /\ ListenerInv(e)
  BY Facts
<1> QED
  BY <1>1, FileOfFields DEF Accounts, HeldSlots, ListenerInv, ListenerThere, HasListener

\* A step that closes a set of them.
LEMMA ClosedIsOwn ==
  ASSUME NEW e \in Execs, NEW S, fdTable' = Closed(fdTable, S),
         \A s \in S : fdTable[s].owner = e,
         pc'[e] # pc[e] \/ toClose'[e] # toClose[e]
  PROVE  ClosesOwn(e)
BY DEF Closed, ClosesOwn

\* A step that takes free numbers closes nothing.
LEMMA OpenedIsFree ==
  ASSUME NEW e \in Execs,
         \A s \in Slots : fdTable'[s] = fdTable[s] \/ fdTable[s] = Free
  PROVE  ClosesOwn(e)
BY DEF ClosesOwn

LEMMA PrepareCloses ==
  ASSUME IInv, NEW e \in Execs, e \in CloneExecs, Prepare(e)
  PROVE  ClosesOwn(e)
<1>1. fdTable \in [Slots -> Entries] /\ pc \in [Execs -> ParentPhases]
  BY DEF IInv, TypeOK, HostTypeOK, ExecTypeOK
<1>2. CASE CreatePair(e)
  <2>1. PICK s \in LowestFree(fdTable) : \E t \in LowestFreeExcept(fdTable, {s}) :
          fdTable' = [fdTable EXCEPT ![s] = FileOf("sup", e), ![t] = FileOf("child", e)]
    BY <1>2 DEF CreatePair
  <2>2. PICK t \in LowestFreeExcept(fdTable, {s}) :
          fdTable' = [fdTable EXCEPT ![s] = FileOf("sup", e), ![t] = FileOf("child", e)]
    BY <2>1
  <2>3. fdTable[s] = Free /\ fdTable[t] = Free
    BY LowestFreeIsFree DEF LowestFree
  <2> QED
    BY <1>1, <2>2, <2>3, OpenedIsFree
<1>3. CASE CreatePipes(e)
  <2>1. PICK s \in LowestFree(fdTable) : fdTable' = [fdTable EXCEPT ![s] = FileOf("pipe", e)]
    BY <1>3 DEF CreatePipes
  <2>2. fdTable[s] = Free
    BY LowestFreeIsFree DEF LowestFree
  <2> QED
    BY <1>1, <2>1, <2>2, OpenedIsFree
<1>4. CASE PreparationFails(e)
  <2>1. pc'[e] # pc[e] /\ fdTable' = Closed(fdTable, HeldSlots(e, Ends))
    BY <1>1, <1>4 DEF PreparationFails, Move
  <2> QED
    BY <2>1, OwnSlots, ClosedIsOwn
<1> QED
  BY <1>2, <1>3, <1>4 DEF Prepare

LEMMA CallCloses ==
  ASSUME IInv, NEW e \in Execs, e \in CloneExecs, CloneStep(e)
  PROVE  ClosesOwn(e)
<1>1. /\ fdTable \in [Slots -> Entries] /\ pc \in [Execs -> ParentPhases]
      /\ toClose \in [Execs -> SUBSET Slots]
  BY DEF IInv, TypeOK, HostTypeOK, ExecTypeOK
<1>2. CASE Prepare(e)
  BY <1>2, PrepareCloses
<1>3. CASE UNCHANGED fdTable
  BY <1>3, OpenedIsFree
<1>4. CASE DropChildSock(e) \/ FinishBootstrap(e) \/ CloseRemaining(e) \/ Drop(e)
           \/ ReapChild(e) \/ KillSupervised(e) \/ AbortBeforeClone(e)
  <2>1. pc'[e] # pc[e] /\ \E K : fdTable' = Closed(fdTable, HeldSlots(e, K))
    BY <1>1, <1>4
    DEF DropChildSock, FinishBootstrap, CloseRemaining, Drop, ReapChild, KillSupervised,
        AbortBeforeClone, CloseEnds, Move
  <2> QED
    BY <2>1, OwnSlots, ClosedIsOwn
<1>5. CASE Disown(e)
  <2>1. /\ pc[e] = "disown" /\ pc'[e] # pc[e]
        /\ fdTable' = Closed(fdTable, HeldSlots(e, Ends) \cup {known[e]})
    BY <1>1, <1>5 DEF Disown, Move
  <2>2. \A s \in HeldSlots(e, Ends) \cup {known[e]} : fdTable[s].owner = e
    BY <2>1, OwnSlots
  <2> QED
    BY <2>1, <2>2, ClosedIsOwn
<1>6. CASE CloseListener(e)
  <2>1. pc[e] = "closeNotify" /\ pc'[e] # pc[e] /\ fdTable' = Closed(fdTable, {known[e]})
    BY <1>1, <1>6 DEF CloseListener, Move
  <2>2. \A s \in {known[e]} : fdTable[s].owner = e
    BY <2>1, OwnSlots
  <2> QED
    BY <2>1, <2>2, ClosedIsOwn
<1>7. CASE CloseNewListener(e)
  <2>1. PICK s \in toClose[e] : /\ pc[e] = "sweep" /\ fdTable' = Closed(fdTable, {s})
                                /\ toClose' = [toClose EXCEPT ![e] = @ \ {s}]
    BY <1>7 DEF CloseNewListener
  <2>2. toClose'[e] # toClose[e] /\ \A t \in {s} : fdTable[t].owner = e
    BY <1>1, <2>1, OwnSlots
  <2> QED
    BY <2>1, <2>2, ClosedIsOwn
<1>8. CASE InstallListener(e)
  <2>1. PICK s \in LowestFree(fdTable) :
          fdTable' = [fdTable EXCEPT ![s] = FileOf("listener", e)]
    BY <1>8 DEF InstallListener
  <2>2. fdTable[s] = Free
    BY LowestFreeIsFree DEF LowestFree
  <2> QED
    BY <1>1, <2>1, <2>2, OpenedIsFree
<1> QED
  BY <1>2, <1>3, <1>4, <1>5, <1>6, <1>7, <1>8
  DEF CloneStep, ParentStep, BootstrapStep, AcquireMutex, SnapshotListeners, CloneChild,
      ReadSlot, ReadDetached, ProbeFindsDeadChild, BootstrapFails, ValidateListener, WriteAck,
      KillAndReap,
      ListNewListeners, ReleaseMutex, LockToCloseListener, InstallFails, ReportSlot, Unshare,
      SendDetached, ReadAck, ScrubDescriptors, Execve, ChildDies, hostVars

LEMMA AppCloses ==
  ASSUME IInv, AppStep
  PROVE  OwnerCloses
<1>1. fdTable \in [Slots -> Entries]
  BY DEF IInv, TypeOK, HostTypeOK
<1>2. \A s \in Slots : fdTable'[s] = fdTable[s] \/ fdTable[s] \in {Free, AppFile}
  <2>1. CASE AppOpen
    <3>1. PICK s \in LowestFree(fdTable) : fdTable' = [fdTable EXCEPT ![s] = AppFile]
      BY <2>1 DEF AppOpen
    <3> QED
      BY <1>1, <3>1, LowestFreeIsFree DEF LowestFree
  <2>2. CASE AppClose
    BY <2>2 DEF AppClose, Closed
  <2> QED
    BY <2>1, <2>2 DEF AppStep
<1>3. AppFile.owner \notin Execs
  BY HostAssumption DEF HostAssumption, AppFile
<1> QED
  BY <1>2, <1>3 DEF AppStep, OwnerCloses

\* No call ever closes a descriptor of another call or of the application, in
\* any interleaving (the drops and close lists of do_clone_files_sandbox_exec).
THEOREM AlwaysClosesOnlyItsOwn == Spec => ClosesOnlyItsOwn
<1>1. ASSUME IInv, [Next]_vars PROVE [OwnerCloses]_vars
  <2>1. ASSUME NEW e \in CloneExecs, ClosesOwn(e) PROVE OwnerCloses
    BY <2>1, CloneAssumption DEF ClosesOwn, OwnerCloses
  <2> QED
    BY <1>1, <2>1, CallCloses, AppCloses, CloneAssumption DEF Next, CloneNext
<1> QED
  BY <1>1, InvariantHolds, PTL DEF Spec, ClosesOnlyItsOwn
=============================================================================
