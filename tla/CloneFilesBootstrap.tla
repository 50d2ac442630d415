-------------------------- MODULE CloneFilesBootstrap --------------------------
(***************************************************************************)
(* The default proxy-only bootstrap (do_clone_files_sandbox_exec and       *)
(* child_process_clone_files in src/src/sandboxed_exec.rs).                *)
(*                                                                         *)
(* The child is created with clone(CLONE_FILES): its seccomp listener is   *)
(* therefore born in the PARENT's descriptor table.  The child reports the *)
(* slot, unshares the table, sends DETACHED and waits for the parent's     *)
(* ACK; the parent checks the slot against a snapshot of the listeners it  *)
(* had before, owns it and acknowledges.  SHARED_BOOTSTRAP_MUTEX           *)
(* serialises the whole exchange with every other bootstrap and with the   *)
(* close of every listener.                                                *)
(***************************************************************************)
EXTENDS SandboxedExec

CONSTANT CloneExecs   \* the executions that use the clone-files handoff

ASSUME CloneAssumption == CloneExecs \subseteq Execs

VARIABLES
  snapshot,   \* listener_snapshot
  toClose,    \* to_close of cleanup_failed_shared_bootstrap
  lslot,      \* the slot install_raw returned in the child
  unlisted    \* history variable: the cleanup of e could not list the
              \* listeners and had not been told of a slot either

cloneVars == <<snapshot, toClose, lslot, unlisted>>
vars == <<hostVars, execVars, cloneVars>>

\* The phases in which the thread is inside the critical section.
Critical ==
  {"locked", "snapped", "awaitSlot", "awaitDetached", "detached", "validate",
   "owned", "ackSent", "kill", "sweepList", "sweep", "ackFailed", "disown",
   "unlock"}

-----------------------------------------------------------------------------
(* The parent thread: the critical section.                                *)

AcquireMutex(e) ==
  /\ Move(e, "prepared", "locked")
  /\ bootstrapMutex = NoExec
  /\ bootstrapMutex' = e
  /\ UNCHANGED <<fdTable, childTable, cpc, fds, held, known, toParent, ack, cloneVars>>

\* Reading the directory /proc/self/fd takes a free number.
SnapshotListeners(e) ==
  /\ Move(e, "locked", "snapped")
  /\ LowestFree(fdTable) # {}
  /\ snapshot' = [snapshot EXCEPT ![e] = seccomp_notify_fds]
  /\ UNCHANGED <<hostVars, cpc, fds, held, known, toParent, ack, toClose, lslot, unlisted>>

\* The snapshot, the signal mask or clone(2) itself fails: only the pipes are
\* closed here, the socket pair is dropped after the guard (see Drop).
AbortBeforeClone(e) ==
  /\ Move(e, "locked", "unlock") \/ Move(e, "snapped", "unlock")
  /\ CloseEnds(e, {"pipe"})
  /\ UNCHANGED <<childTable, bootstrapMutex, cpc, fds, known, toParent, ack, cloneVars>>

CloneChild(e) ==
  /\ Move(e, "snapped", "awaitSlot")
  /\ ChildMove(e, "none", "shared")
  /\ UNCHANGED <<hostVars, fds, held, known, toParent, ack, cloneVars>>

\* Mutant: the parent goes on as soon as it has the slot.
ReadSlot_WithoutDetached(e) ==
  /\ Move(e, "awaitSlot", "detached")
  /\ toParent[e] # <<>>
  /\ Head(toParent[e]).kind = "LISTENER"
  /\ known' = [known EXCEPT ![e] = Head(toParent[e]).slot]
  /\ toParent' = [toParent EXCEPT ![e] = Tail(@)]
  /\ UNCHANGED <<hostVars, cpc, fds, held, ack, cloneVars>>

\* read_bootstrap_exact for the four bytes of the slot ...
ReadSlot(e) ==
  /\ Move(e, "awaitSlot", "awaitDetached")
  /\ toParent[e] # <<>>
  /\ Head(toParent[e]).kind = "LISTENER"
  /\ known' = [known EXCEPT ![e] = Head(toParent[e]).slot]
  /\ toParent' = [toParent EXCEPT ![e] = Tail(@)]
  /\ UNCHANGED <<hostVars, cpc, fds, held, ack, cloneVars>>

\* ... and for the DETACHED byte.
ReadDetached(e) ==
  /\ Move(e, "awaitDetached", "detached")
  /\ toParent[e] # <<>>
  /\ Head(toParent[e]).kind = "DETACHED"
  /\ toParent' = [toParent EXCEPT ![e] = Tail(@)]
  /\ UNCHANGED <<hostVars, cpc, fds, held, known, ack, cloneVars>>

\* Mutant: end of file on the socket, not waitpid, tells that the child is dead.
ProbeFindsDeadChild_ByEof(e) ==
  /\ Move(e, "awaitSlot", "kill") \/ Move(e, "awaitDetached", "kill")
  /\ ~OpenSomewhere(FileOf("child", e))
  /\ ChildMove(e, "dead", "reaped")
  /\ UNCHANGED <<hostVars, fds, held, known, toParent, ack, cloneVars>>

\* poll(2) found nothing and waitpid(WNOHANG) finds a dead child, which it
\* reaps.  The queue may have filled between the two calls: no guard on it.
ProbeFindsDeadChild(e) ==
  /\ Move(e, "awaitSlot", "kill") \/ Move(e, "awaitDetached", "kill")
  /\ ChildMove(e, "dead", "reaped")
  /\ UNCHANGED <<hostVars, fds, held, known, toParent, ack, cloneVars>>

\* poll, read or waitpid fails, the marker is not DETACHED, or, before all that,
\* the signal mask cannot be restored: the child may be alive and anywhere.
BootstrapFails(e) ==
  /\ Move(e, "awaitSlot", "kill") \/ Move(e, "awaitDetached", "kill")
  /\ UNCHANGED <<hostVars, cpc, fds, held, known, toParent, ack, cloneVars>>

\* The child's table is private now: the parent may close its copy of the
\* child's end.
DropChildSock(e) ==
  /\ Move(e, "detached", "validate")
  /\ CloseEnds(e, {"child"})
  /\ UNCHANGED <<childTable, bootstrapMutex, cpc, fds, known, toParent, ack, cloneVars>>

validate_seccomp_notify_fd(e) ==
  /\ known[e] \notin snapshot[e]
  /\ known[e] \in seccomp_notify_fds

ValidateListener(e) ==
  /\ Move(e, "validate", IF validate_seccomp_notify_fd(e) THEN "owned" ELSE "kill")
  /\ UNCHANGED <<hostVars, cpc, fds, held, known, toParent, ack, cloneVars>>

\* Writing to a socket whose other end no process has open is EPIPE.
WriteAck(e) ==
  LET peerOpen == OpenSomewhere(FileOf("child", e)) IN
  /\ Move(e, "owned", IF peerOpen THEN "ackSent" ELSE "ackFailed")
  /\ ack' = [ack EXCEPT ![e] = peerOpen]
  /\ UNCHANGED <<hostVars, cpc, fds, held, known, toParent, cloneVars>>

FinishBootstrap(e) ==
  /\ Move(e, "ackSent", "supervising")
  /\ CloseEnds(e, {"sup"})
  /\ bootstrapMutex' = NoExec
  /\ UNCHANGED <<childTable, cpc, fds, known, toParent, ack, cloneVars>>

-----------------------------------------------------------------------------
(* The parent thread: cleanup of a failed bootstrap.                       *)

\* kill_and_reap_bootstrap_child: SIGKILL, then waitpid until the child is
\* reaped (or was already: ECHILD).  Steps the child takes before the signal
\* lands come before this one.
KillAndReap(e) ==
  /\ Move(e, "kill", "sweepList") \/ Move(e, "ackFailed", "disown")
  /\ cpc' = [cpc EXCEPT ![e] = "reaped"]
  /\ childTable' = [childTable EXCEPT ![e] = EmptyTable]
  /\ UNCHANGED <<fdTable, bootstrapMutex, fds, held, known, toParent, ack, cloneVars>>

\* Mutant: every listener of the process is taken for this child's.
ListNewListeners_AllListeners(e) ==
  /\ Move(e, "sweepList", "sweep")
  /\ toClose' = [toClose EXCEPT ![e] = seccomp_notify_fds]
  /\ UNCHANGED <<hostVars, cpc, fds, held, known, toParent, ack, snapshot, lslot, unlisted>>

\* Mutant: only a slot that was reported is closed.
ListNewListeners_ReportedOnly(e) ==
  /\ Move(e, "sweepList", "sweep")
  /\ toClose' = [toClose EXCEPT ![e] = ({known[e]} \cap Slots) \ snapshot[e]]
  /\ UNCHANGED <<hostVars, cpc, fds, held, known, toParent, ack, snapshot, lslot, unlisted>>

\* seccomp_notify_fds().unwrap_or_default(): a listing that fails is an empty
\* one.  It fails on a full table, which has no number for the directory, and
\* may fail for want of memory or of open files in the system.
ListNewListeners(e) ==
  /\ Move(e, "sweepList", "sweep")
  /\ \E listed \in {{}, seccomp_notify_fds} :
       /\ LowestFree(fdTable) = {} => listed = {}
       /\ toClose' = [toClose EXCEPT ![e] =
                        (listed \cup ({known[e]} \cap Slots)) \ snapshot[e]]
       /\ unlisted' = [unlisted EXCEPT ![e] =
                         listed # seccomp_notify_fds /\ known[e] = NoSlot]
  /\ UNCHANGED <<hostVars, cpc, fds, held, known, toParent, ack, snapshot, lslot>>

CloseNewListener(e) ==
  /\ pc[e] = "sweep"
  /\ \E s \in toClose[e] :
       /\ fdTable' = Closed(fdTable, {s})
       /\ toClose' = [toClose EXCEPT ![e] = @ \ {s}]
  /\ UNCHANGED <<childTable, bootstrapMutex, execVars, snapshot, lslot, unlisted>>

\* close_all_pipe_fds, then drop of both socket ends by the caller.
CloseRemaining(e) ==
  /\ Move(e, "sweep", "unlock")
  /\ toClose[e] = {}
  /\ CloseEnds(e, Ends)
  /\ UNCHANGED <<childTable, bootstrapMutex, cpc, fds, known, toParent, ack, cloneVars>>

\* After a failed ACK: the pipes, the OwnedFd of the listener and the
\* supervisor's end go, in the order of the drops.
Disown(e) ==
  /\ Move(e, "disown", "unlock")
  /\ fdTable' = Closed(fdTable, HeldSlots(e, Ends) \cup {known[e]})
  /\ held' = [held EXCEPT ![e] = {}]
  /\ UNCHANGED <<childTable, bootstrapMutex, cpc, fds, known, toParent, ack, cloneVars>>

\* Mutant: a failed bootstrap returns with the mutex locked.
ReleaseMutex_Forgotten(e) ==
  /\ Move(e, "unlock", "drop")
  /\ UNCHANGED <<hostVars, cpc, fds, held, known, toParent, ack, cloneVars>>

ReleaseMutex(e) ==
  /\ Move(e, "unlock", "drop")
  /\ bootstrapMutex' = NoExec
  /\ UNCHANGED <<fdTable, childTable, cpc, fds, held, known, toParent, ack, cloneVars>>

\* The listener snapshot and the close list are locals as well.
ForgetCloneLocals(e) ==
  /\ ForgetLocals(e)
  /\ snapshot' = [snapshot EXCEPT ![e] = {}]
  /\ toClose' = [toClose EXCEPT ![e] = {}]
  /\ lslot' = [lslot EXCEPT ![e] = NoSlot]
  /\ UNCHANGED unlisted

\* A parameter of the function is dropped after its locals, the guard included:
\* what is left of the socket pair goes last.
Drop(e) ==
  /\ Move(e, "drop", "failed")
  /\ fdTable' = Closed(fdTable, HeldSlots(e, Ends))
  /\ ForgetCloneLocals(e)
  /\ UNCHANGED <<childTable, bootstrapMutex, cpc>>

-----------------------------------------------------------------------------
(* The parent thread: parent_process, as far as descriptors go.            *)

ReapChild(e) ==
  /\ Move(e, "supervising", "dropNotify")
  /\ ChildMove(e, "dead", "reaped")
  /\ CloseEnds(e, {"pipe"})
  /\ UNCHANGED <<childTable, bootstrapMutex, fds, known, toParent, ack, cloneVars>>

\* The deadline passes, or wait_for_child fails: the child is killed and
\* reaped whatever it was doing.
KillSupervised(e) ==
  /\ Move(e, "supervising", "dropNotify")
  /\ cpc' = [cpc EXCEPT ![e] = "reaped"]
  /\ childTable' = [childTable EXCEPT ![e] = EmptyTable]
  /\ CloseEnds(e, {"pipe"})
  /\ UNCHANGED <<bootstrapMutex, fds, known, toParent, ack, cloneVars>>

-----------------------------------------------------------------------------
(* The child process.                                                      *)

\* install_raw: SECCOMP_FILTER_FLAG_NEW_LISTENER in the shared table.
InstallListener(e) ==
  /\ ChildMove(e, "shared", "listening")
  /\ \E s \in LowestFree(fdTable) :
       /\ fdTable' = [fdTable EXCEPT ![s] = FileOf("listener", e)]
       /\ lslot' = [lslot EXCEPT ![e] = s]
  /\ UNCHANGED <<childTable, bootstrapMutex, pc, fds, held, known, toParent, ack,
                 snapshot, toClose, unlisted>>

\* The table is full: install_raw fails and child_die_raw follows.
InstallFails(e) ==
  /\ ChildMove(e, "shared", "dead")
  /\ LowestFree(fdTable) = {}
  /\ UNCHANGED <<hostVars, pc, fds, held, known, toParent, ack, cloneVars>>

ReportSlot(e) ==
  /\ ChildMove(e, "listening", "reported")
  /\ Write(e, fdTable, [kind |-> "LISTENER", slot |-> lslot[e]])
  /\ UNCHANGED <<hostVars, pc, fds, held, known, ack, cloneVars>>

\* close_range(MAX, MAX, CLOSE_RANGE_UNSHARE)
Unshare(e) ==
  /\ ChildMove(e, "reported", "private")
  /\ childTable' = [childTable EXCEPT ![e] = CopyFor(fdTable)]
  /\ UNCHANGED <<fdTable, bootstrapMutex, pc, fds, held, known, toParent, ack,
                 cloneVars>>

SendDetached(e) ==
  /\ ChildMove(e, "private", "detached")
  /\ childTable' = [childTable EXCEPT ![e] = Closed(@, {fds[e]["sup"]})]
  /\ Write(e, childTable[e], [kind |-> "DETACHED", slot |-> NoSlot])
  /\ UNCHANGED <<fdTable, bootstrapMutex, pc, fds, held, known, ack, cloneVars>>

\* Mutant: the child goes on without the ACK.
ReadAck_NoWait(e) ==
  /\ ChildMove(e, "detached", "acked")
  /\ UNCHANGED <<hostVars, pc, fds, held, known, toParent, ack, cloneVars>>

ReadAck(e) ==
  /\ ChildMove(e, "detached", "acked")
  /\ ack[e]
  /\ UNCHANGED <<hostVars, pc, fds, held, known, toParent, ack, cloneVars>>

\* close of the handshake end, dup2 of the pipes and close_range(3..).
ScrubDescriptors(e) ==
  /\ ChildMove(e, "acked", "scrubbed")
  /\ childTable' = [childTable EXCEPT ![e] = EmptyTable]
  /\ UNCHANGED <<fdTable, bootstrapMutex, pc, fds, held, known, toParent, ack,
                 cloneVars>>

Execve(e) ==
  /\ ChildMove(e, "scrubbed", "target")
  /\ UNCHANGED <<hostVars, pc, fds, held, known, toParent, ack, cloneVars>>

-----------------------------------------------------------------------------
CloneInit ==
  /\ snapshot = [e \in Execs |-> {}]
  /\ toClose = [e \in Execs |-> {}]
  /\ lslot = [e \in Execs |-> NoSlot]
  /\ unlisted = [e \in Execs |-> FALSE]

Init == HostInit /\ ExecInit /\ CloneInit

ParentStep(e) ==
  \/ Prepare(e) /\ UNCHANGED cloneVars
  \/ AcquireMutex(e) \/ SnapshotListeners(e) \/ AbortBeforeClone(e)
  \/ CloneChild(e) \/ ReadSlot(e) \/ ReadDetached(e) \/ ProbeFindsDeadChild(e)
  \/ DropChildSock(e) \/ ValidateListener(e) \/ WriteAck(e) \/ FinishBootstrap(e)
  \/ KillAndReap(e) \/ ListNewListeners(e) \/ CloseNewListener(e)
  \/ CloseRemaining(e) \/ Disown(e) \/ ReleaseMutex(e) \/ Drop(e) \/ ReapChild(e)
  \/ LockToCloseListener(e) /\ UNCHANGED cloneVars
  \/ CloseListener(e) /\ UNCHANGED cloneVars

BootstrapStep(e) ==
  \/ InstallListener(e) \/ InstallFails(e) \/ ReportSlot(e) \/ Unshare(e)
  \/ SendDetached(e) \/ ReadAck(e) \/ ScrubDescriptors(e) \/ Execve(e)

CloneStep(e) ==
  \/ ParentStep(e) \/ BootstrapFails(e) \/ KillSupervised(e) \/ BootstrapStep(e)
  \/ ChildDies(e) /\ UNCHANGED cloneVars

CloneNext == \E e \in CloneExecs : CloneStep(e)

AppStep == (AppOpen \/ AppClose) /\ UNCHANGED <<execVars, cloneVars>>

Next == CloneNext \/ AppStep

Spec == Init /\ [][Next]_vars

\* The scheduler runs every thread of the host and every child that can run.
\* Nothing obliges a child to die, a target to exit, a deadline to exist or a
\* system call to fail.
Fairness ==
  \A e \in CloneExecs : WF_vars(ParentStep(e)) /\ WF_vars(BootstrapStep(e))

FairSpec == Spec /\ Fairness

-----------------------------------------------------------------------------
TypeOK ==
  /\ HostTypeOK
  /\ ExecTypeOK
  /\ snapshot \in [Execs -> SUBSET Slots]
  /\ toClose \in [Execs -> SUBSET Slots]
  /\ lslot \in [Execs -> Slots \cup {NoSlot}]
  /\ unlisted \in [Execs -> BOOLEAN]

\* Two tables are never edited at once: a child that still runs on the host's
\* table belongs to the execution inside the critical section, so at most one
\* child shares the table and nobody else snapshots, clones or closes a
\* listener meanwhile.
SharingIsExclusive ==
  \A e \in CloneExecs : cpc[e] \in SharingPhases => bootstrapMutex = e

\* From the snapshot to the end of the critical section the listeners of the
\* host that are not this execution's are the ones in its snapshot: what
\* "new since the snapshot" and "pre-existing slot" are decided by.
SnapshotIsCurrent ==
  \A e \in CloneExecs :
    pc[e] \in Critical \ {"locked", "unlock"} =>
      snapshot[e] = {s \in seccomp_notify_fds : fdTable[s].owner # e}

\* The validation after DETACHED never rejects the listener of an honest
\* child: no bootstrap fails because of what other executions do.
ValidationAccepts ==
  \A e \in CloneExecs : pc[e] = "validate" => validate_seccomp_notify_fd(e)

\* Once a bootstrap has accepted the slot, it is the slot of this execution's
\* own listener until the parent closes it.
OwnsItsListener ==
  \A e \in CloneExecs :
    pc[e] \in {"owned", "ackSent", "supervising", "dropNotify", "closeNotify"}
      => known[e] \in Slots /\ fdTable[known[e]] = FileOf("listener", e)

\* The sandboxed program runs only when its parent has taken its listener over
\* and has acknowledged: its trapped calls are never without a supervisor.
TargetIsMediated ==
  \A e \in CloneExecs :
    cpc[e] \in {"acked", "scrubbed", "target"} =>
      /\ pc[e] \in {"ackSent", "supervising"}
      /\ fdTable[known[e]] = FileOf("listener", e)

\* The numbers of the host's table that still belong to e.
Leftovers(e) == {s \in Slots : fdTable[s].owner = e}

\* All that can be left of e is its listener, and only if the cleanup could
\* neither list it nor had been told of it.
LeavesNothingElse(e) ==
  \A s, t \in Leftovers(e) :
    unlisted[e] /\ s = t /\ fdTable[s] = FileOf("listener", e)

\* Whatever the child did and wherever it died, a call that returns has reaped
\* it and has left no descriptor in the host.  The one exception is the
\* listener of a child that died before it reported the slot, when the listing
\* of the descriptors failed too.
NothingLeaks ==
  \A e \in CloneExecs :
    pc[e] \in {"failed", "done"} =>
      cpc[e] \in {"none", "reaped"} /\ LeavesNothingElse(e)

\* What is closed in this step belongs to the call that moves, or, when no call
\* moves, to the application.
OwnerCloses ==
  \A s \in Slots :
    fdTable[s] # Free /\ fdTable'[s] # fdTable[s] =>
      IF fdTable[s].owner \in Execs
      THEN LET e == fdTable[s].owner IN pc'[e] # pc[e] \/ toClose'[e] # toClose[e]
      ELSE UNCHANGED <<execVars, cloneVars>>

\* A descriptor of an execution is closed by that execution only, and no
\* execution closes a descriptor of the application.
ClosesOnlyItsOwn == [][OwnerCloses]_vars

\* One execution's bootstrap or teardown never holds up the others for good,
\* even when targets run forever: whoever waits for the mutex gets through.
BootstrapResolves ==
  \A e \in CloneExecs :
    pc[e] = "prepared" ~> pc[e] \in {"supervising", "failed"}

\* A child that died, at whatever point, is reaped, its bootstrap ends and its
\* descriptors go.  The readers of its output are not in this module: whether
\* the call waits for them is Supervision's question.
DeadChildIsCollected ==
  \A e \in CloneExecs : cpc[e] = "dead" ~> pc[e] \in {"failed", "done"}
=============================================================================
