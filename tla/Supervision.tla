------------------------------ MODULE Supervision ------------------------------
(***************************************************************************)
(* One sandboxed_exec call from the launch of the command to its return:   *)
(* parent_process, wait_for_child, service_proxy_supervisor and the two    *)
(* reader threads of src/src/sandboxed_exec.rs, against the tree of        *)
(* processes the command may grow.                                         *)
(*                                                                         *)
(* Root is the direct child, the leader of its process group.  Every other *)
(* process is forked by one of the tree, inside the group or outside it    *)
(* (setsid), with the streams it did not redirect.  A trapped system call  *)
(* (connect, bind, sendto, ...) blocks its caller in the kernel's queue of *)
(* the listener until the parent answers it.                               *)
(***************************************************************************)
EXTENDS Naturals

CONSTANTS
  Procs,          \* processes the command may ever consist of
  Root,           \* the direct child
  NoProc,         \* nobody
  Streams,        \* stdout and stderr
  MaxOutput,      \* bound on the chunks written to a stream
  PipeCapacity,   \* chunks a pipe holds
  MaxSignals      \* bound on the signals that interrupt the parent's waitpid

ASSUME SupervisionAssumption ==
  /\ Root \in Procs
  /\ NoProc \notin Procs
  /\ MaxOutput \in Nat /\ PipeCapacity \in Nat \ {0} /\ MaxSignals \in Nat

VARIABLES
  timed,       \* timeout_secs was given
  supervised,  \* there is a ProxySupervisor
  late,        \* the deadline has passed
  proc,        \* proc[p]: the state of process p
  inGroup,     \* inGroup[p]: p belongs to the process group of Root
  writes,      \* writes[p]: the streams whose write end p holds
  ahead,       \* ahead[p]: queued processes whose call was trapped before that of p
  serving,     \* the process whose call was received, while that call is valid
  pc,          \* where the calling thread is
  expired,     \* it killed the group at the deadline
  result,      \* what it returns
  cancel,      \* cancel_readers
  reader,      \* reader[s]: where the reader thread of stream s is
  pipe,        \* pipe[s]: chunks in the pipe
  written,     \* written[s]: chunks the command wrote or tried to write
  captured,    \* captured[s]: chunks in the reader's buffer
  signals      \* signals that interrupted a waitpid

config == <<timed, supervised>>
treeVars == <<proc, inGroup, writes, ahead, serving>>
parentVars == <<pc, expired, result, cancel>>
streamVars == <<reader, pipe, written, captured>>
vars == <<config, late, treeVars, parentVars, streamVars, signals>>

-----------------------------------------------------------------------------
ProcStates == {"unborn", "running", "trapped", "zombie", "gone"}
ParentPhases == {"service", "receive", "answer", "wait", "check", "abort", "join", "returned"}
Results == {"none", "exit", "timeout", "error"}

Alive(p) == proc[p] \in {"running", "trapped"}

\* The read of a pipe is at end of file when no process holds its write end.
Writers(s) == {p \in Procs : Alive(p) /\ s \in writes[p]}

must_poll == timed \/ supervised

\* The kernel's queue: the trapped calls the parent has not received.
Queued == {p \in Procs : proc[p] = "trapped" /\ p # serving}

\* The processes of P leave the queue.
Dequeue(P) == ahead' = [p \in Procs |-> IF p \in P THEN {} ELSE ahead[p] \ P]

\* They do not wait any more; if a call was received, its id is invalid now.
Withdraw(P) ==
  /\ Dequeue(P)
  /\ serving' = IF serving \in P THEN NoProc ELSE serving

\* Mutant: the signal goes to the direct child only.
kill_process_group_or_child_ChildOnly == {p \in {Root} : Alive(p)}

kill_process_group_or_child == {p \in Procs : inGroup[p] /\ Alive(p)}

\* kill, then waitpid(child_pid, ..., 0), whose result is not looked at: when a
\* signal interrupts it the child stays a zombie.  Root needs no step of its
\* own here, a killed process does nothing more.
KillAndWait ==
  LET victims == kill_process_group_or_child IN
  /\ Withdraw(victims)
  /\ \/ /\ proc' = [p \in Procs |-> IF p \in victims \cup {Root} THEN "gone" ELSE proc[p]]
        /\ UNCHANGED signals
     \/ /\ signals < MaxSignals
        /\ signals' = signals + 1
        /\ proc' = [p \in Procs |-> CASE p \in victims \ {Root} -> "gone"
                                      [] p = Root /\ proc[p] # "gone" -> "zombie"
                                      [] OTHER -> proc[p]]

-----------------------------------------------------------------------------
(* The command.                                                            *)

Fork(p, q) ==
  /\ proc[p] = "running" /\ proc[q] = "unborn"
  /\ proc' = [proc EXCEPT ![q] = "running"]
  /\ \E W \in SUBSET writes[p] : writes' = [writes EXCEPT ![q] = W]
  /\ \E g \in {inGroup[p], FALSE} : inGroup' = [inGroup EXCEPT ![q] = g]
  /\ UNCHANGED <<config, late, ahead, serving, parentVars, streamVars, signals>>

WriteOutput(p, s) ==
  /\ proc[p] = "running" /\ s \in writes[p]
  /\ reader[s] # "done"
  /\ pipe[s] < PipeCapacity /\ written[s] < MaxOutput
  /\ pipe' = [pipe EXCEPT ![s] = @ + 1]
  /\ written' = [written EXCEPT ![s] = @ + 1]
  /\ UNCHANGED <<config, late, treeVars, parentVars, reader, captured, signals>>

\* The reader is gone and has closed the pipe: EPIPE (or SIGPIPE, see Exit).
BrokenPipe(p, s) ==
  /\ proc[p] = "running" /\ s \in writes[p]
  /\ reader[s] = "done"
  /\ written[s] < MaxOutput
  /\ written' = [written EXCEPT ![s] = @ + 1]
  /\ UNCHANGED <<config, late, treeVars, parentVars, reader, pipe, captured, signals>>

\* A call the proxy filter traps.  When the call returns the listener is closed
\* and the kernel answers ENOSYS at once.
Trap(p) ==
  /\ supervised /\ pc # "returned"
  /\ proc[p] = "running"
  /\ proc' = [proc EXCEPT ![p] = "trapped"]
  /\ ahead' = [ahead EXCEPT ![p] = Queued]
  /\ UNCHANGED <<config, late, inGroup, writes, serving, parentVars, streamVars, signals>>

\* A signal handler interrupts the trapped call.
Interrupted(p) ==
  /\ proc[p] = "trapped"
  /\ proc' = [proc EXCEPT ![p] = "running"]
  /\ Withdraw({p})
  /\ UNCHANGED <<config, late, inGroup, writes, parentVars, streamVars, signals>>

Exit(p) ==
  /\ Alive(p)
  /\ proc' = [proc EXCEPT ![p] = IF p = Root THEN "zombie" ELSE "gone"]
  /\ Withdraw({p})
  /\ UNCHANGED <<config, late, inGroup, writes, parentVars, streamVars, signals>>

DeadlinePasses ==
  /\ timed /\ ~late
  /\ late' = TRUE
  /\ UNCHANGED <<config, treeVars, parentVars, streamVars, signals>>

-----------------------------------------------------------------------------
(* The calling thread: service_proxy_supervisor.                           *)

Go(from, to) == pc = from /\ pc' = to

\* Back to wait_for_child, which is done if this was the service after the kill.
NothingToService ==
  /\ ~supervised \/ Queued = {}
  /\ Go("service", IF expired THEN "join" ELSE "wait")
  /\ result' = IF expired THEN "timeout" ELSE result
  /\ UNCHANGED <<config, late, treeVars, expired, cancel, streamVars, signals>>

PollFindsRequest ==
  /\ supervised /\ Queued # {}
  /\ Go("service", "receive")
  /\ UNCHANGED <<config, late, treeVars, expired, result, cancel, streamVars, signals>>

Receive ==
  /\ Go("receive", "answer")
  /\ \E p \in Queued : ahead[p] = {} /\ serving' = p /\ Dequeue({p})
  /\ UNCHANGED <<config, late, proc, inGroup, writes, expired, result, cancel,
                 streamVars, signals>>

\* The caller was killed or interrupted after the poll: recv_notif is ENOENT.
ReceiveFails ==
  /\ Queued = {}
  /\ Go("receive", "abort")
  /\ UNCHANGED <<config, late, treeVars, expired, result, cancel, streamVars, signals>>

\* continue_notif or an errno: either way the caller runs on.
Answer ==
  /\ serving # NoProc
  /\ Go("answer", "service")
  /\ proc' = [proc EXCEPT ![serving] = "running"]
  /\ serving' = NoProc
  /\ UNCHANGED <<config, late, inGroup, writes, ahead, expired, result, cancel,
                 streamVars, signals>>

\* The call is no longer valid: notif_id_valid says so, or, when it was lost
\* after that, the response fails.
AnswerIsMoot ==
  /\ serving = NoProc
  /\ Go("answer", "service") \/ Go("answer", "abort")
  /\ UNCHANGED <<config, late, treeVars, expired, result, cancel, streamVars, signals>>

-----------------------------------------------------------------------------
(* The calling thread: wait_for_child.                                     *)

\* waitpid finds the direct child dead.
ChildExited ==
  /\ proc[Root] = "zombie"
  /\ Go("wait", "join")
  /\ proc' = [proc EXCEPT ![Root] = "gone"]
  /\ result' = "exit"
  /\ UNCHANGED <<config, late, inGroup, writes, ahead, serving, expired, cancel,
                 streamVars, signals>>

\* Mutant: a call without a deadline waits without polling.
StillRunning_Blocking ==
  /\ timed /\ Alive(Root)
  /\ Go("wait", "check")
  /\ UNCHANGED <<config, late, treeVars, expired, result, cancel, streamVars, signals>>

\* waitpid(WNOHANG) is 0; without WNOHANG the thread would stay in waitpid.
StillRunning ==
  /\ must_poll /\ Alive(Root)
  /\ Go("wait", "check")
  /\ UNCHANGED <<config, late, treeVars, expired, result, cancel, streamVars, signals>>

\* A blocking waitpid is interrupted: continue.
WaitInterrupted ==
  /\ ~must_poll /\ signals < MaxSignals
  /\ signals' = signals + 1
  /\ Go("wait", "service")
  /\ UNCHANGED <<config, late, treeVars, expired, result, cancel, streamVars>>

SleepAndRetry ==
  /\ ~late
  /\ Go("check", "service")
  /\ UNCHANGED <<config, late, treeVars, expired, result, cancel, streamVars, signals>>

\* The root may have exited since waitpid said it was running.
KillAtDeadline ==
  /\ late
  /\ Go("check", "service")
  /\ KillAndWait
  /\ expired' = TRUE /\ cancel' = TRUE
  /\ UNCHANGED <<config, late, inGroup, writes, result, streamVars>>

-----------------------------------------------------------------------------
(* The calling thread: parent_process.                                     *)

\* Mutant: the error is propagated without a kill.
AbortExecution_NoKill ==
  /\ Go("abort", "join")
  /\ cancel' = TRUE /\ result' = "error"
  /\ UNCHANGED <<config, late, treeVars, expired, streamVars, signals>>

AbortExecution ==
  /\ Go("abort", "join")
  /\ KillAndWait
  /\ cancel' = TRUE /\ result' = "error"
  /\ UNCHANGED <<config, late, inGroup, writes, expired, streamVars>>

\* Both readers are joined; the supervisor is dropped with the frame, so every
\* call that is still trapped gets ENOSYS.
JoinReaders ==
  /\ \A s \in Streams : reader[s] = "done"
  /\ Go("join", "returned")
  /\ proc' = [p \in Procs |-> IF proc[p] = "trapped" THEN "running" ELSE proc[p]]
  /\ Withdraw(Procs)
  /\ UNCHANGED <<config, late, inGroup, writes, expired, result, cancel, streamVars, signals>>

-----------------------------------------------------------------------------
(* A reader thread: read_pipe_until_eof_or_cancel.                         *)

ReaderChecksCancel(s) ==
  /\ reader[s] = "check"
  /\ reader' = [reader EXCEPT ![s] = IF cancel THEN "done" ELSE "read"]
  /\ UNCHANGED <<config, late, treeVars, parentVars, pipe, written, captured, signals>>

\* Mutant: nothing is read before the child has been waited for.
ReadChunk_AfterWait(s) ==
  /\ pc = "join"
  /\ reader[s] = "read" /\ pipe[s] > 0
  /\ reader' = [reader EXCEPT ![s] = "check"]
  /\ pipe' = [pipe EXCEPT ![s] = @ - 1]
  /\ captured' = [captured EXCEPT ![s] = @ + 1]
  /\ UNCHANGED <<config, late, treeVars, parentVars, written, signals>>

\* Mutant: a chunk is appended once more after it was taken.
ReadChunk_Twice(s) ==
  /\ reader[s] = "read" /\ pipe[s] > 0
  /\ reader' = [reader EXCEPT ![s] = "check"]
  /\ pipe' = [pipe EXCEPT ![s] = @ - 1]
  /\ captured' = [captured EXCEPT ![s] = @ + 2]
  /\ UNCHANGED <<config, late, treeVars, parentVars, written, signals>>

ReadChunk(s) ==
  /\ reader[s] = "read" /\ pipe[s] > 0
  /\ reader' = [reader EXCEPT ![s] = "check"]
  /\ pipe' = [pipe EXCEPT ![s] = @ - 1]
  /\ captured' = [captured EXCEPT ![s] = @ + 1]
  /\ UNCHANGED <<config, late, treeVars, parentVars, written, signals>>

\* Mutant: an empty pipe is taken for the end of the stream.
ReadEmpty_AsEof(s) ==
  /\ reader[s] = "read" /\ pipe[s] = 0
  /\ reader' = [reader EXCEPT ![s] = "done"]
  /\ UNCHANGED <<config, late, treeVars, parentVars, pipe, written, captured, signals>>

\* Mutant: the end of the stream is polled for again like an empty pipe.
ReadEmpty_NoEof(s) ==
  /\ reader[s] = "read" /\ pipe[s] = 0
  /\ reader' = [reader EXCEPT ![s] = "check"]
  /\ UNCHANGED <<config, late, treeVars, parentVars, pipe, written, captured, signals>>

\* End of file when nobody can write any more; else poll and go round again.
ReadEmpty(s) ==
  /\ reader[s] = "read" /\ pipe[s] = 0
  /\ reader' = [reader EXCEPT ![s] = IF Writers(s) = {} THEN "done" ELSE "check"]
  /\ UNCHANGED <<config, late, treeVars, parentVars, pipe, written, captured, signals>>

-----------------------------------------------------------------------------
Init ==
  /\ timed \in BOOLEAN /\ supervised \in BOOLEAN
  /\ late = FALSE
  /\ proc = [p \in Procs |-> IF p = Root THEN "running" ELSE "unborn"]
  /\ inGroup = [p \in Procs |-> p = Root]
  /\ writes = [p \in Procs |-> IF p = Root THEN Streams ELSE {}]
  /\ ahead = [p \in Procs |-> {}] /\ serving = NoProc
  /\ pc = "service" /\ expired = FALSE /\ result = "none" /\ cancel = FALSE
  /\ reader = [s \in Streams |-> "check"]
  /\ pipe = [s \in Streams |-> 0]
  /\ written = [s \in Streams |-> 0]
  /\ captured = [s \in Streams |-> 0]
  /\ signals = 0

Command ==
  \/ \E p, q \in Procs : Fork(p, q)
  \/ \E p \in Procs, s \in Streams : WriteOutput(p, s) \/ BrokenPipe(p, s)
  \/ \E p \in Procs : Trap(p) \/ Interrupted(p) \/ Exit(p)

Service == NothingToService \/ PollFindsRequest \/ Receive \/ ReceiveFails \/ Answer \/ AnswerIsMoot

Waiting == ChildExited \/ StillRunning \/ SleepAndRetry \/ KillAtDeadline

Parent == Service \/ Waiting \/ AbortExecution \/ JoinReaders

Reader(s) == ReaderChecksCancel(s) \/ ReadChunk(s) \/ ReadEmpty(s)

Next == Command \/ DeadlinePasses \/ Parent \/ WaitInterrupted \/ \E s \in Streams : Reader(s)

Spec == Init /\ [][Next]_vars

\* The scheduler runs the calling thread and the readers, and time goes on.
\* Nothing obliges a command to do anything.
Fairness ==
  /\ WF_vars(Parent) /\ WF_vars(DeadlinePasses)
  /\ \A s \in Streams : WF_vars(Reader(s))

FairSpec == Spec /\ Fairness

-----------------------------------------------------------------------------
TypeOK ==
  /\ timed \in BOOLEAN /\ supervised \in BOOLEAN /\ late \in BOOLEAN
  /\ proc \in [Procs -> ProcStates]
  /\ inGroup \in [Procs -> BOOLEAN]
  /\ writes \in [Procs -> SUBSET Streams]
  /\ ahead \in [Procs -> SUBSET Procs] /\ serving \in Procs \cup {NoProc}
  /\ pc \in ParentPhases /\ result \in Results
  /\ expired \in BOOLEAN /\ cancel \in BOOLEAN
  /\ reader \in [Streams -> {"check", "read", "done"}]
  /\ pipe \in [Streams -> 0 .. PipeCapacity]
  /\ written \in [Streams -> 0 .. MaxOutput]
  /\ captured \in [Streams -> 0 .. MaxOutput]
  /\ signals \in 0 .. MaxSignals

\* A call that times out or fails leaves no process of the command's group
\* running, however the tree grew meanwhile, and a call never times out early.
EndsTheGroup ==
  pc = "returned" /\ result \in {"timeout", "error"} =>
    /\ \A p \in Procs : inGroup[p] => ~Alive(p)
    /\ result = "timeout" => late

\* A call that returns the exit code returns everything the command wrote or
\* tries to write, the output of processes that outlived the direct child
\* included: no reader stops, and nothing is lost, while anybody can write.
OutputIsComplete ==
  pc = "returned" /\ result = "exit" => captured = written

\* The direct child is reaped before the call returns: "Kill and reap the child
\* so it does not linger as a zombie" (parent_process).  What the code does not
\* guard against is a signal that interrupts the waitpid after the kill.
ChildIsReaped == pc = "returned" => proc[Root] = "gone" \/ signals > 0

\* Output larger than a pipe does not block the command for good: the readers
\* drain concurrently with the wait.
FullPipesDrain ==
  \A s \in Streams :
    pipe[s] = PipeCapacity ~> pipe[s] < PipeCapacity \/ reader[s] = "done"

\* With or without a timeout, a call the direct child makes is answered while
\* the child waits for it ("Poll whenever there is a supervisor to service").
RootIsServiced == proc[Root] = "trapped" ~> proc[Root] # "trapped"

\* When the whole tree has ended the call returns.
ReturnsAfterTheTree ==
  (\A p \in Procs : ~Alive(p)) ~> pc = "returned"

\* "The child's first trapped syscall would then wedge forever.  Poll whenever
\* there is a supervisor to service" (wait_for_child), for every process.
EveryTrapIsAnswered ==
  \A p \in Procs : proc[p] = "trapped" ~> proc[p] # "trapped"

\* "On timeout, kills the process group and returns 124" (functions.mdx).
DeadlineEndsTheCall == late ~> pc = "returned"
=============================================================================
