----------------------------- MODULE PidfdHandoff ------------------------------
(***************************************************************************)
(* The legacy listener handoff selected by NONO_PY_PROXY_HANDOFF=pidfd: a  *)
(* plain fork, the child writes the NUMBER of its listener, and the parent *)
(* clones the descriptor out of the child with pidfd_getfd and             *)
(* acknowledges.  The parent does this from its wait loop                  *)
(* (wait_for_child, service_proxy_supervisor, try_receive_proxy_notify_fd  *)
(* in src/src/sandboxed_exec.rs).                                          *)
(*                                                                         *)
(* The phases of the loop: "service" is service_proxy_supervisor, "wait"   *)
(* the waitpid that follows it.  After the deadline the child is killed    *)
(* and reaped, and service_proxy_supervisor runs once more.                *)
(***************************************************************************)
EXTENDS SandboxedExec

CONSTANT PidfdExecs   \* the executions that use the pidfd handoff

ASSUME PidfdAssumption == PidfdExecs \subseteq Execs

VARIABLES
  expired,   \* expired[e]: the deadline passed while the child was running
  result,    \* result[e]: what the call returns
  fallback   \* fallback[e]: the sandbox of e comes with the fallback
             \* SeccompNetFallback::ProxyOnly; without it (the kernel's Landlock
             \* mediates the network, or the enforcement mode is landlock) the
             \* child installs no filter and there is no listener

pidfdVars == <<expired, result, fallback>>

\* An exit code of the child's, 124 after the deadline, or an exception.
Results == {"none", "exit", "timeout", "error"}

Return(e, r) == result' = [result EXCEPT ![e] = r]

-----------------------------------------------------------------------------
(* The parent thread.                                                      *)

ForkChild(e) ==
  /\ Move(e, "prepared", "forked")
  /\ ChildMove(e, "none", "forked")
  /\ childTable' = [childTable EXCEPT ![e] = CopyFor(fdTable)]
  /\ UNCHANGED <<fdTable, bootstrapMutex, fds, held, known, toParent, ack, pidfdVars>>

ForkFails(e) ==
  /\ Move(e, "prepared", "failed")
  /\ fdTable' = Closed(fdTable, HeldSlots(e, Ends))
  /\ ForgetLocals(e)
  /\ UNCHANGED <<childTable, bootstrapMutex, cpc, pidfdVars>>

\* create_proxy_supervisor drops the child's end.
DropChildEnd(e) ==
  /\ Move(e, "forked", "service")
  /\ CloseEnds(e, {"child"})
  /\ UNCHANGED <<childTable, bootstrapMutex, cpc, fds, known, toParent, ack, pidfdVars>>

\* Where service_proxy_supervisor returns to: the wait loop, or, after the
\* deadline, the end of wait_for_child.
AfterService(e) == IF expired[e] THEN "finish" ELSE "wait"

\* Mutant: the loop ends at the deadline without a value.
ServiceReturns_NoValue(e) ==
  /\ Move(e, "service", AfterService(e))
  /\ UNCHANGED result

ServiceReturns(e) ==
  /\ Move(e, "service", AfterService(e))
  /\ result' = [result EXCEPT ![e] = IF expired[e] THEN "timeout" ELSE @]

\* There is no socket any more, or nothing to read on it yet.
NothingToReceive(e) ==
  /\ "sup" \in held[e] => toParent[e] = <<>> /\ OpenSomewhere(FileOf("child", e))
  /\ ServiceReturns(e)
  /\ UNCHANGED <<hostVars, cpc, fds, held, known, toParent, ack, expired, fallback>>

\* End of file: the child went away before it wrote the number.
PeerClosed(e) ==
  /\ "sup" \in held[e]
  /\ toParent[e] = <<>>
  /\ ~OpenSomewhere(FileOf("child", e))
  /\ ServiceReturns(e)
  /\ CloseEnds(e, {"sup"})
  /\ UNCHANGED <<childTable, bootstrapMutex, cpc, fds, known, toParent, ack, expired, fallback>>

ReceiveNumber(e) ==
  /\ Move(e, "service", "cloneLock")
  /\ "sup" \in held[e]
  /\ toParent[e] # <<>>
  /\ toParent' = [toParent EXCEPT ![e] = Tail(@)]
  /\ UNCHANGED <<hostVars, cpc, fds, held, known, ack, pidfdVars>>

\* Mutant: the descriptor is cloned into the host's table without the mutex.
LockToClone_NoMutex(e) ==
  /\ Move(e, "cloneLock", "writeAck")
  /\ cpc[e] = "announced"
  /\ \E p \in LowestFree(fdTable) : \E s \in LowestFreeExcept(fdTable, {p}) :
       /\ fdTable' = [fdTable EXCEPT ![s] = FileOf("listener", e)]
       /\ known' = [known EXCEPT ![e] = s]
  /\ UNCHANGED <<childTable, bootstrapMutex, cpc, fds, held, toParent, ack, pidfdVars>>

LockToClone(e) ==
  /\ Move(e, "cloneLock", "clone")
  /\ bootstrapMutex = NoExec
  /\ bootstrapMutex' = e
  /\ UNCHANGED <<fdTable, childTable, cpc, fds, held, known, toParent, ack, pidfdVars>>

\* pidfd_open takes the lowest free number while pidfd_getfd takes the next;
\* then the pidfd is closed, and the guard dropped.
CloneFdFromChild(e) ==
  /\ Move(e, "clone", "writeAck")
  /\ cpc[e] = "announced"
  /\ \E p \in LowestFree(fdTable) : \E s \in LowestFreeExcept(fdTable, {p}) :
       /\ fdTable' = [fdTable EXCEPT ![s] = FileOf("listener", e)]
       /\ known' = [known EXCEPT ![e] = s]
  /\ bootstrapMutex' = NoExec
  /\ UNCHANGED <<childTable, cpc, fds, held, toParent, ack, pidfdVars>>

\* The child is gone, the table is full or the kernel refuses pidfd_getfd: the
\* guard and the socket are dropped and wait_for_child fails.
CloneFdFails(e) ==
  /\ Move(e, "clone", "abort")
  /\ bootstrapMutex' = NoExec
  /\ CloseEnds(e, {"sup"})
  /\ UNCHANGED <<childTable, cpc, fds, known, toParent, ack, pidfdVars>>

WriteAckByte(e) ==
  LET peerOpen == OpenSomewhere(FileOf("child", e)) IN
  /\ pc[e] = "writeAck"
  /\ pc' = [pc EXCEPT ![e] = IF peerOpen THEN AfterService(e) ELSE "abort"]
  /\ ack' = [ack EXCEPT ![e] = peerOpen]
  /\ CloseEnds(e, {"sup"})
  /\ UNCHANGED <<childTable, bootstrapMutex, cpc, fds, known, toParent, pidfdVars>>

\* Mutant: waitpid blocks until the child exits.
StillRunning_Blocking(e) ==
  /\ Move(e, "wait", "service")
  /\ cpc[e] = "reaped"
  /\ UNCHANGED <<hostVars, cpc, fds, held, known, toParent, ack, pidfdVars>>

\* waitpid(WNOHANG): still running, sleep 10 ms and go round again.
StillRunning(e) ==
  /\ Move(e, "wait", "service")
  /\ cpc[e] # "dead"
  /\ UNCHANGED <<hostVars, cpc, fds, held, known, toParent, ack, pidfdVars>>

ChildExited(e) ==
  /\ Move(e, "wait", "finish")
  /\ ChildMove(e, "dead", "reaped")
  /\ Return(e, "exit")
  /\ UNCHANGED <<hostVars, fds, held, known, toParent, ack, expired, fallback>>

\* waitpid says "running" and the deadline has passed: kill the group, reap the
\* child, service the supervisor a last time.
DeadlinePasses(e) ==
  /\ Move(e, "wait", "service")
  /\ cpc[e] \in AlivePhases
  /\ cpc' = [cpc EXCEPT ![e] = "reaped"]
  /\ childTable' = [childTable EXCEPT ![e] = EmptyTable]
  /\ expired' = [expired EXCEPT ![e] = TRUE]
  /\ UNCHANGED <<fdTable, bootstrapMutex, fds, held, known, toParent, ack, result, fallback>>

\* parent_process on an error of wait_for_child: kill and reap, return it.
AbortExecution(e) ==
  /\ Move(e, "abort", "finish")
  /\ cpc' = [cpc EXCEPT ![e] = "reaped"]
  /\ childTable' = [childTable EXCEPT ![e] = EmptyTable]
  /\ Return(e, "error")
  /\ UNCHANGED <<fdTable, bootstrapMutex, fds, held, known, toParent, ack, expired, fallback>>

\* Mutant: the cloned listener is forgotten.
FinishExecution_LosesListener(e) ==
  /\ Move(e, "finish", "done")
  /\ fdTable' = Closed(fdTable, HeldSlots(e, Ends))
  /\ ForgetLocals(e)
  /\ UNCHANGED <<childTable, bootstrapMutex, cpc, pidfdVars>>

\* The readers are joined and the supervisor dropped, its socket first.
FinishExecution(e) ==
  /\ pc[e] = "finish"
  /\ fdTable' = Closed(fdTable, HeldSlots(e, Ends))
  /\ IF known[e] # NoSlot
     THEN /\ pc' = [pc EXCEPT ![e] = "dropNotify"]
          /\ held' = [held EXCEPT ![e] = {}]
          /\ UNCHANGED <<fds, known, toParent, ack>>
     ELSE /\ pc' = [pc EXCEPT ![e] = "done"]
          /\ ForgetLocals(e)
  /\ UNCHANGED <<childTable, bootstrapMutex, cpc, pidfdVars>>

-----------------------------------------------------------------------------
(* The child process (child_process).                                      *)

\* close of the supervisor's end and close_untrusted_fds, which keeps only the
\* child's end.
SecureDescriptors(e) ==
  /\ ChildMove(e, "forked", "secured")
  /\ childTable' = [childTable EXCEPT ![e] =
                      Closed(@, Slots \ {fds[e]["child"]})]
  /\ UNCHANGED <<fdTable, bootstrapMutex, pc, fds, held, known, toParent, ack, pidfdVars>>

\* install_proxy_fallback_if_needed has nothing to install: the child closes its
\* end of the socket and goes on to execve.
SkipFilter(e) ==
  /\ ~fallback[e]
  /\ ChildMove(e, "secured", "scrubbed")
  /\ childTable' = [childTable EXCEPT ![e] = EmptyTable]
  /\ UNCHANGED <<fdTable, bootstrapMutex, pc, fds, held, known, toParent, ack, pidfdVars>>

\* install_seccomp_proxy_filter: the listener is born in the child's own table.
InstallFilter(e) ==
  /\ fallback[e]
  /\ ChildMove(e, "secured", "filtered")
  /\ UNCHANGED <<hostVars, pc, fds, held, known, toParent, ack, pidfdVars>>

AnnounceNumber(e) ==
  /\ ChildMove(e, "filtered", "announced")
  /\ Write(e, childTable[e], [kind |-> "LISTENER", slot |-> NoSlot])
  /\ UNCHANGED <<hostVars, pc, fds, held, known, ack, pidfdVars>>

\* Mutant: the child does not wait for the ACK.
AwaitAck_NoWait(e) ==
  /\ ChildMove(e, "announced", "acked")
  /\ childTable' = [childTable EXCEPT ![e] = EmptyTable]
  /\ UNCHANGED <<fdTable, bootstrapMutex, pc, fds, held, known, toParent, ack, pidfdVars>>

\* read_exact_raw for the ACK byte; end of file is an error.
AwaitAck(e) ==
  /\ IF ack[e] THEN ChildMove(e, "announced", "acked")
               ELSE /\ ~OpenSomewhere(FileOf("sup", e))
                    /\ ChildMove(e, "announced", "dead")
  /\ childTable' = [childTable EXCEPT ![e] = EmptyTable]
  /\ UNCHANGED <<fdTable, bootstrapMutex, pc, fds, held, known, toParent, ack, pidfdVars>>

ExecTarget(e) ==
  /\ ChildMove(e, "acked", "target") \/ ChildMove(e, "scrubbed", "target")
  /\ UNCHANGED <<hostVars, pc, fds, held, known, toParent, ack, pidfdVars>>

-----------------------------------------------------------------------------
PidfdInit ==
  /\ expired = [e \in Execs |-> FALSE]
  /\ result = [e \in Execs |-> "none"]
  /\ fallback \in [Execs -> BOOLEAN]
  /\ \A e \in Execs \ PidfdExecs : fallback[e]

PidfdParentStep(e) ==
  \/ Prepare(e) /\ UNCHANGED pidfdVars
  \/ ForkChild(e) \/ DropChildEnd(e)
  \/ NothingToReceive(e) \/ PeerClosed(e) \/ ReceiveNumber(e)
  \/ LockToClone(e) \/ CloneFdFromChild(e) \/ CloneFdFails(e) \/ WriteAckByte(e)
  \/ StillRunning(e) \/ ChildExited(e) \/ AbortExecution(e) \/ FinishExecution(e)
  \/ LockToCloseListener(e) /\ UNCHANGED pidfdVars
  \/ CloseListener(e) /\ UNCHANGED pidfdVars

PidfdChildStep(e) ==
  \/ SecureDescriptors(e) \/ SkipFilter(e) \/ InstallFilter(e) \/ AnnounceNumber(e)
  \/ AwaitAck(e) \/ ExecTarget(e)

\* What may happen but need not.
PidfdEvent(e) ==
  \/ ForkFails(e) \/ DeadlinePasses(e)
  \/ ChildDies(e) /\ UNCHANGED pidfdVars

PidfdNext ==
  \E e \in PidfdExecs : PidfdParentStep(e) \/ PidfdChildStep(e) \/ PidfdEvent(e)

\* Types; and a call has a value to return exactly when its wait is over.
PidfdTypeOK ==
  /\ expired \in [Execs -> BOOLEAN]
  /\ result \in [Execs -> Results]
  /\ fallback \in [Execs -> BOOLEAN]
  /\ \A e \in PidfdExecs :
       result[e] # "none" <=> pc[e] \in {"finish", "dropNotify", "closeNotify", "done"}
=============================================================================
