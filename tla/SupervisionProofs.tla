--------------------------- MODULE SupervisionProofs ---------------------------
(***************************************************************************)
(* Theorems about the supervision of a running command, for every set of   *)
(* processes and streams and every bound.                                  *)
(***************************************************************************)
EXTENDS Supervision, TLAPS

-----------------------------------------------------------------------------
(* The inductive invariant.                                                *)

\* Where the calling thread is decides whether it has a result yet, and the
\* readers are told to stop only by a kill.
PhaseInv ==
  /\ pc \in {"wait", "check"} => ~expired
  /\ pc \in {"join", "returned"} <=> result # "none"
  /\ result = "exit" => ~cancel
  /\ result = "timeout" => expired
  /\ expired => late
  /\ cancel => expired \/ result = "error"
  /\ pc = "returned" => \A s \in Streams : reader[s] = "done"

\* The direct child leads the group, and is never forked again.
RootInv == inGroup[Root] /\ proc[Root] # "unborn"

\* A received call that is still valid has its caller blocked.
ServingInv == serving # NoProc => proc[serving] = "trapped"

\* After a kill nothing of the group lives, whatever is forked later.
KillInv == expired \/ result = "error" => \A p \in Procs : inGroup[p] => ~Alive(p)

\* The direct child is reaped once the wait for it is over.
ReapInv == expired \/ result # "none" => proc[Root] = "gone" \/ signals > 0

\* Where the chunks are.  A reader that nobody told to stop ended because
\* nobody was left to write.
StreamInv ==
  \A s \in Streams :
    /\ captured[s] + pipe[s] <= written[s]
    /\ ~cancel => captured[s] + pipe[s] = written[s]
    /\ ~cancel /\ reader[s] = "done" => pipe[s] = 0 /\ Writers(s) = {}

IInv == TypeOK /\ PhaseInv /\ RootInv /\ ServingInv /\ KillInv /\ ReapInv /\ StreamInv

-----------------------------------------------------------------------------
LEMMA InitInv == ASSUME Init PROVE IInv
<1> USE SupervisionAssumption DEF SupervisionAssumption
<1>1. TypeOK
  <2>1. \A p \in Procs : (p = Root) \in BOOLEAN
    OBVIOUS
  <2>2. inGroup \in [Procs -> BOOLEAN]
    BY <2>1, Zenon DEF Init
  <2>3. /\ proc \in [Procs -> ProcStates] /\ writes \in [Procs -> SUBSET Streams]
        /\ ahead \in [Procs -> SUBSET Procs]
    BY DEF Init, ProcStates
  <2>4. /\ reader \in [Streams -> {"check", "read", "done"}]
        /\ pipe \in [Streams -> 0 .. PipeCapacity] /\ written \in [Streams -> 0 .. MaxOutput]
        /\ captured \in [Streams -> 0 .. MaxOutput]
    BY DEF Init
  <2>5. /\ timed \in BOOLEAN /\ supervised \in BOOLEAN /\ late \in BOOLEAN
        /\ expired \in BOOLEAN /\ cancel \in BOOLEAN
    BY Zenon DEF Init
  <2>6. /\ serving \in Procs \cup {NoProc} /\ pc \in ParentPhases /\ result \in Results
        /\ signals \in 0 .. MaxSignals
    BY DEF Init, ParentPhases, Results
  <2> QED
    BY <2>2, <2>3, <2>4, <2>5, <2>6, Zenon DEF TypeOK
<1>2. PhaseInv /\ RootInv /\ ServingInv /\ KillInv /\ ReapInv
  BY DEF Init, PhaseInv, RootInv, ServingInv, KillInv, ReapInv
<1>3. StreamInv
  BY DEF Init, StreamInv
<1> QED
  BY <1>1, <1>2, <1>3 DEF IInv

\* What KillAndWait leaves behind.
LEMMA KillAndWaitEffect ==
  ASSUME TypeOK, KillAndWait
  PROVE  /\ proc' \in [Procs -> ProcStates]
         /\ ahead' \in [Procs -> SUBSET Procs]
         /\ serving' \in Procs \cup {NoProc}
         /\ signals' \in 0 .. MaxSignals /\ signals' >= signals
         /\ proc'[Root] = "gone" \/ signals' > 0
         /\ \A p \in Procs : inGroup[p] => proc'[p] \notin {"running", "trapped"}
         /\ \A p \in Procs : proc'[p] = proc[p] \/ proc'[p] \in {"zombie", "gone"}
         /\ serving' # NoProc /\ RootInv /\ ServingInv =>
              serving' = serving /\ proc'[serving] = "trapped"
<1> USE SupervisionAssumption DEF SupervisionAssumption, TypeOK
<1> DEFINE victims == {p \in Procs : inGroup[p] /\ Alive(p)}
<1>1. ahead' \in [Procs -> SUBSET Procs]
  BY DEF KillAndWait, Withdraw, Dequeue
<1>2. serving' \in Procs \cup {NoProc}
  BY DEF KillAndWait, Withdraw
<1>5. serving' # NoProc => serving' = serving /\ serving \in Procs \ victims
  BY DEF KillAndWait, Withdraw, kill_process_group_or_child
<1>6. serving' # NoProc /\ RootInv /\ ServingInv => serving \in Procs \ (victims \cup {Root})
  BY <1>5 DEF RootInv, ServingInv, Alive
<1>3. CASE /\ proc' = [p \in Procs |-> IF p \in victims \cup {Root} THEN "gone" ELSE proc[p]]
           /\ UNCHANGED signals
  BY <1>1, <1>2, <1>5, <1>6, <1>3 DEF Alive, ProcStates, ServingInv
<1>4. CASE /\ signals < MaxSignals /\ signals' = signals + 1
           /\ proc' = [p \in Procs |-> CASE p \in victims \ {Root} -> "gone"
                                         [] p = Root /\ proc[p] # "gone" -> "zombie"
                                         [] OTHER -> proc[p]]
  <2>1. \A p \in Procs : \/ p \in victims /\ p # Root /\ proc'[p] = "gone"
                         \/ p = Root /\ proc[p] # "gone" /\ proc'[p] = "zombie"
                         \/ p \notin victims \ {Root} /\ (p = Root => proc[p] = "gone")
                            /\ proc'[p] = proc[p]
    BY <1>4
  <2>2. proc' \in [Procs -> ProcStates]
    BY <1>4, <2>1 DEF ProcStates
  <2>3. \A p \in Procs : inGroup[p] => proc'[p] \notin {"running", "trapped"}
    BY <2>1 DEF Alive
  <2>4. signals' \in 0 .. MaxSignals /\ signals' >= signals /\ signals' > 0
    BY <1>4
  <2> QED
    BY <1>1, <1>2, <1>5, <1>6, <2>1, <2>2, <2>3, <2>4 DEF ServingInv
<1> QED
  BY <1>3, <1>4 DEF KillAndWait, kill_process_group_or_child

LEMMA ForkKeeps ==
  ASSUME IInv, NEW p \in Procs, NEW q \in Procs, Fork(p, q)
  PROVE  IInv'
<1> USE SupervisionAssumption DEF SupervisionAssumption, IInv
<1>0. PICK g \in {inGroup[p], FALSE} : inGroup' = [inGroup EXCEPT ![q] = g]
  BY DEF Fork
<1>8. g \in BOOLEAN /\ (g => inGroup[p])
  BY Zenon DEF TypeOK
<1>9. inGroup' \in [Procs -> BOOLEAN]
  BY <1>0, <1>8, Zenon DEF TypeOK
<1>1. TypeOK'
  BY <1>9, SMT DEF TypeOK, Fork, config, parentVars, streamVars
<1>2. PhaseInv'
  BY SMT DEF PhaseInv, Fork, parentVars, streamVars
<1>7. RootInv'
  BY SMT DEF RootInv, Fork
<1>3. ServingInv'
  BY SMT DEF ServingInv, Fork
<1>4. KillInv'
  BY <1>0, <1>8, SMT DEF TypeOK, KillInv, Alive, Fork, parentVars
<1>5. ReapInv'
  BY SMT DEF ReapInv, Fork, parentVars
<1>6. StreamInv'
  BY SMT DEF TypeOK, StreamInv, Writers, Alive, Fork, parentVars, streamVars
<1> QED
  BY <1>1, <1>2, <1>3, <1>4, <1>5, <1>6, <1>7

LEMMA WriteOutputKeeps ==
  ASSUME IInv, NEW p \in Procs, NEW s \in Streams, WriteOutput(p, s)
  PROVE  IInv'
<1> USE SupervisionAssumption DEF SupervisionAssumption, IInv
<1>1. TypeOK'
  BY SMT DEF TypeOK, WriteOutput, config, treeVars, parentVars
<1>2. PhaseInv'
  BY SMT DEF PhaseInv, WriteOutput, parentVars
<1>7. RootInv'
  BY SMT DEF RootInv, WriteOutput, treeVars
<1>3. ServingInv'
  BY SMT DEF ServingInv, WriteOutput, treeVars
<1>4. KillInv'
  BY SMT DEF KillInv, Alive, WriteOutput, treeVars, parentVars
<1>5. ReapInv'
  BY SMT DEF ReapInv, WriteOutput, treeVars, parentVars
<1>6. StreamInv'
  BY SMT DEF TypeOK, StreamInv, Writers, Alive, WriteOutput, treeVars, parentVars
<1> QED
  BY <1>1, <1>2, <1>3, <1>4, <1>5, <1>6, <1>7

LEMMA BrokenPipeKeeps ==
  ASSUME IInv, NEW p \in Procs, NEW s \in Streams, BrokenPipe(p, s)
  PROVE  IInv'
<1> USE SupervisionAssumption DEF SupervisionAssumption, IInv
<1>1. TypeOK'
  BY SMT DEF TypeOK, BrokenPipe, config, treeVars, parentVars
<1>2. PhaseInv'
  BY SMT DEF PhaseInv, BrokenPipe, parentVars
<1>7. RootInv'
  BY SMT DEF RootInv, BrokenPipe, treeVars
<1>3. ServingInv'
  BY SMT DEF ServingInv, BrokenPipe, treeVars
<1>4. KillInv'
  BY SMT DEF KillInv, Alive, BrokenPipe, treeVars, parentVars
<1>5. ReapInv'
  BY SMT DEF ReapInv, BrokenPipe, treeVars, parentVars
<1>6. StreamInv'
  BY SMT DEF TypeOK, StreamInv, Writers, Alive, BrokenPipe, parentVars
<1> QED
  BY <1>1, <1>2, <1>3, <1>4, <1>5, <1>6, <1>7

LEMMA TrapKeeps ==
  ASSUME IInv, NEW p \in Procs, Trap(p)
  PROVE  IInv'
<1> USE SupervisionAssumption DEF SupervisionAssumption, IInv
<1>1. TypeOK'
  BY SMT DEF TypeOK, Trap, config, parentVars, streamVars, Queued, ProcStates
<1>2. PhaseInv'
  BY SMT DEF PhaseInv, Trap, parentVars
<1>7. RootInv'
  BY SMT DEF RootInv, Trap
<1>3. ServingInv'
  BY SMT DEF ServingInv, Trap
<1>4. KillInv'
  BY SMT DEF KillInv, Alive, Trap, parentVars
<1>5. ReapInv'
  BY SMT DEF ReapInv, Trap, parentVars
<1>6. StreamInv'
  BY SMT DEF StreamInv, Writers, Alive, Trap, parentVars, streamVars
<1> QED
  BY <1>1, <1>2, <1>3, <1>4, <1>5, <1>6, <1>7

LEMMA InterruptedKeeps ==
  ASSUME IInv, NEW p \in Procs, Interrupted(p)
  PROVE  IInv'
<1> USE SupervisionAssumption DEF SupervisionAssumption, IInv
<1>1. TypeOK'
  BY SMT DEF TypeOK, Interrupted, config, parentVars, streamVars, Withdraw, Dequeue, ProcStates
<1>2. PhaseInv'
  BY SMT DEF PhaseInv, Interrupted, parentVars, streamVars
<1>7. RootInv'
  BY SMT DEF RootInv, Interrupted
<1>3. ServingInv'
  BY SMT DEF ServingInv, Interrupted, Withdraw
<1>4. KillInv'
  BY SMT DEF KillInv, Alive, Interrupted, parentVars
<1>5. ReapInv'
  BY SMT DEF ReapInv, Interrupted, parentVars
<1>6. StreamInv'
  BY SMT DEF StreamInv, Writers, Alive, Interrupted, parentVars, streamVars
<1> QED
  BY <1>1, <1>2, <1>3, <1>4, <1>5, <1>6, <1>7

LEMMA ExitKeeps ==
  ASSUME IInv, NEW p \in Procs, Exit(p)
  PROVE  IInv'
<1> USE SupervisionAssumption DEF SupervisionAssumption, IInv
<1>1. TypeOK'
  BY SMT DEF TypeOK, Exit, config, parentVars, streamVars, Withdraw, Dequeue, ProcStates
<1>2. PhaseInv'
  BY SMT DEF PhaseInv, Exit, parentVars, streamVars
<1>7. RootInv'
  BY SMT DEF RootInv, Exit
<1>3. ServingInv'
  BY SMT DEF ServingInv, Exit, Withdraw
<1>4. KillInv'
  BY SMT DEF KillInv, Alive, Exit, parentVars
<1>5. ReapInv'
  BY SMT DEF ReapInv, Alive, Exit, parentVars
<1>6. StreamInv'
  BY SMT DEF StreamInv, Writers, Alive, Exit, parentVars, streamVars
<1> QED
  BY <1>1, <1>2, <1>3, <1>4, <1>5, <1>6, <1>7

LEMMA DeadlinePassesKeeps ==
  ASSUME IInv, DeadlinePasses
  PROVE  IInv'
<1> USE SupervisionAssumption DEF SupervisionAssumption, IInv
<1>1. TypeOK'
  BY SMT DEF TypeOK, DeadlinePasses, config, treeVars, parentVars, streamVars
<1>2. PhaseInv'
  BY SMT DEF PhaseInv, DeadlinePasses, parentVars, streamVars
<1>7. RootInv'
  BY SMT DEF RootInv, DeadlinePasses, treeVars
<1>3. ServingInv'
  BY SMT DEF ServingInv, DeadlinePasses, treeVars
<1>4. KillInv'
  BY SMT DEF KillInv, Alive, DeadlinePasses, treeVars, parentVars
<1>5. ReapInv'
  BY SMT DEF ReapInv, DeadlinePasses, treeVars, parentVars
<1>6. StreamInv'
  BY SMT DEF StreamInv, Writers, Alive, DeadlinePasses, treeVars, parentVars, streamVars
<1> QED
  BY <1>1, <1>2, <1>3, <1>4, <1>5, <1>6, <1>7

LEMMA NothingToServiceKeeps ==
  ASSUME IInv, NothingToService
  PROVE  IInv'
<1> USE SupervisionAssumption DEF SupervisionAssumption, IInv
<1>1. TypeOK'
  BY SMT DEF TypeOK, NothingToService, config, treeVars, streamVars, Go, ParentPhases, Results
<1>2. PhaseInv'
  BY SMT DEF PhaseInv, NothingToService, Go
<1>7. RootInv'
  BY SMT DEF RootInv, NothingToService, treeVars
<1>3. ServingInv'
  BY SMT DEF ServingInv, NothingToService, treeVars
<1>4. KillInv'
  BY SMT DEF KillInv, Alive, NothingToService, treeVars
<1>5. ReapInv'
  BY SMT DEF ReapInv, NothingToService, treeVars
<1>6. StreamInv'
  BY SMT DEF StreamInv, Writers, Alive, NothingToService, treeVars, streamVars
<1> QED
  BY <1>1, <1>2, <1>3, <1>4, <1>5, <1>6, <1>7

LEMMA PollFindsRequestKeeps ==
  ASSUME IInv, PollFindsRequest
  PROVE  IInv'
<1> USE SupervisionAssumption DEF SupervisionAssumption, IInv
<1>1. TypeOK'
  BY SMT DEF TypeOK, PollFindsRequest, config, treeVars, streamVars, Go, ParentPhases
<1>2. PhaseInv'
  BY SMT DEF PhaseInv, PollFindsRequest, Go
<1>7. RootInv'
  BY SMT DEF RootInv, PollFindsRequest, treeVars
<1>3. ServingInv'
  BY SMT DEF ServingInv, PollFindsRequest, treeVars
<1>4. KillInv'
  BY SMT DEF KillInv, Alive, PollFindsRequest, treeVars
<1>5. ReapInv'
  BY SMT DEF ReapInv, PollFindsRequest, treeVars
<1>6. StreamInv'
  BY SMT DEF StreamInv, Writers, Alive, PollFindsRequest, treeVars, streamVars
<1> QED
  BY <1>1, <1>2, <1>3, <1>4, <1>5, <1>6, <1>7

LEMMA ReceiveKeeps ==
  ASSUME IInv, Receive
  PROVE  IInv'
<1> USE SupervisionAssumption DEF SupervisionAssumption, IInv
<1>1. TypeOK'
  BY SMT DEF TypeOK, Receive, config, streamVars, Go, Queued, Dequeue, ParentPhases
<1>2. PhaseInv'
  BY SMT DEF PhaseInv, Receive, Go
<1>7. RootInv'
  BY SMT DEF RootInv, Receive
<1>3. ServingInv'
  BY SMT DEF ServingInv, Receive, Queued
<1>4. KillInv'
  BY SMT DEF KillInv, Alive, Receive
<1>5. ReapInv'
  BY SMT DEF ReapInv, Receive
<1>6. StreamInv'
  BY SMT DEF StreamInv, Writers, Alive, Receive, streamVars
<1> QED
  BY <1>1, <1>2, <1>3, <1>4, <1>5, <1>6, <1>7

LEMMA ReceiveFailsKeeps ==
  ASSUME IInv, ReceiveFails
  PROVE  IInv'
<1> USE SupervisionAssumption DEF SupervisionAssumption, IInv
<1>1. TypeOK'
  BY SMT DEF TypeOK, ReceiveFails, config, treeVars, streamVars, Go, ParentPhases
<1>2. PhaseInv'
  BY SMT DEF PhaseInv, ReceiveFails, Go
<1>7. RootInv'
  BY SMT DEF RootInv, ReceiveFails, treeVars
<1>3. ServingInv'
  BY SMT DEF ServingInv, ReceiveFails, treeVars
<1>4. KillInv'
  BY SMT DEF KillInv, Alive, ReceiveFails, treeVars
<1>5. ReapInv'
  BY SMT DEF ReapInv, ReceiveFails, treeVars
<1>6. StreamInv'
  BY SMT DEF StreamInv, Writers, Alive, ReceiveFails, treeVars, streamVars
<1> QED
  BY <1>1, <1>2, <1>3, <1>4, <1>5, <1>6, <1>7

LEMMA AnswerKeeps ==
  ASSUME IInv, Answer
  PROVE  IInv'
<1> USE SupervisionAssumption DEF SupervisionAssumption, IInv
<1>1. TypeOK'
  BY SMT DEF TypeOK, Answer, config, streamVars, Go, ProcStates, ParentPhases
<1>2. PhaseInv'
  BY SMT DEF PhaseInv, Answer, Go
<1>7. RootInv'
  BY SMT DEF RootInv, Answer
<1>3. ServingInv'
  BY SMT DEF ServingInv, Answer
<1>4. KillInv'
  BY SMT DEF KillInv, ServingInv, Alive, Answer
<1>5. ReapInv'
  BY SMT DEF ReapInv, ServingInv, Answer
<1>6. StreamInv'
  BY SMT DEF StreamInv, ServingInv, Writers, Alive, Answer, streamVars
<1> QED
  BY <1>1, <1>2, <1>3, <1>4, <1>5, <1>6, <1>7

LEMMA AnswerIsMootKeeps ==
  ASSUME IInv, AnswerIsMoot
  PROVE  IInv'
<1> USE SupervisionAssumption DEF SupervisionAssumption, IInv
<1>1. TypeOK'
  BY SMT DEF TypeOK, AnswerIsMoot, config, treeVars, streamVars, Go, ParentPhases
<1>2. PhaseInv'
  BY SMT DEF PhaseInv, AnswerIsMoot, Go
<1>7. RootInv'
  BY SMT DEF RootInv, AnswerIsMoot, treeVars
<1>3. ServingInv'
  BY SMT DEF ServingInv, AnswerIsMoot, treeVars
<1>4. KillInv'
  BY SMT DEF KillInv, Alive, AnswerIsMoot, treeVars
<1>5. ReapInv'
  BY SMT DEF ReapInv, AnswerIsMoot, treeVars
<1>6. StreamInv'
  BY SMT DEF StreamInv, Writers, Alive, AnswerIsMoot, treeVars, streamVars
<1> QED
  BY <1>1, <1>2, <1>3, <1>4, <1>5, <1>6, <1>7

LEMMA ChildExitedKeeps ==
  ASSUME IInv, ChildExited
  PROVE  IInv'
<1> USE SupervisionAssumption DEF SupervisionAssumption, IInv
<1>1. TypeOK'
  BY SMT DEF TypeOK, ChildExited, config, streamVars, Go, ProcStates, ParentPhases, Results
<1>2. PhaseInv'
  BY SMT DEF PhaseInv, ChildExited, Go
<1>7. RootInv'
  BY SMT DEF RootInv, ChildExited
<1>3. ServingInv'
  BY SMT DEF ServingInv, ChildExited
<1>4. KillInv'
  BY SMT DEF KillInv, Alive, ChildExited
<1>5. ReapInv'
  BY SMT DEF TypeOK, ReapInv, ChildExited
<1>6. StreamInv'
  BY SMT DEF StreamInv, Writers, Alive, ChildExited, streamVars
<1> QED
  BY <1>1, <1>2, <1>3, <1>4, <1>5, <1>6, <1>7

LEMMA StillRunningKeeps ==
  ASSUME IInv, StillRunning
  PROVE  IInv'
<1> USE SupervisionAssumption DEF SupervisionAssumption, IInv
<1>1. TypeOK'
  BY SMT DEF TypeOK, StillRunning, config, treeVars, streamVars, Go, ParentPhases
<1>2. PhaseInv'
  BY SMT DEF PhaseInv, StillRunning, Go
<1>7. RootInv'
  BY SMT DEF RootInv, StillRunning, treeVars
<1>3. ServingInv'
  BY SMT DEF ServingInv, StillRunning, treeVars
<1>4. KillInv'
  BY SMT DEF KillInv, Alive, StillRunning, treeVars
<1>5. ReapInv'
  BY SMT DEF ReapInv, StillRunning, treeVars
<1>6. StreamInv'
  BY SMT DEF StreamInv, Writers, Alive, StillRunning, treeVars, streamVars
<1> QED
  BY <1>1, <1>2, <1>3, <1>4, <1>5, <1>6, <1>7

LEMMA WaitInterruptedKeeps ==
  ASSUME IInv, WaitInterrupted
  PROVE  IInv'
<1> USE SupervisionAssumption DEF SupervisionAssumption, IInv
<1>1. TypeOK'
  BY SMT DEF TypeOK, WaitInterrupted, config, treeVars, streamVars, Go, ParentPhases
<1>2. PhaseInv'
  BY SMT DEF PhaseInv, WaitInterrupted, Go
<1>7. RootInv'
  BY SMT DEF RootInv, WaitInterrupted, treeVars
<1>3. ServingInv'
  BY SMT DEF ServingInv, WaitInterrupted, treeVars
<1>4. KillInv'
  BY SMT DEF KillInv, Alive, WaitInterrupted, treeVars
<1>5. ReapInv'
  BY SMT DEF ReapInv, PhaseInv, WaitInterrupted, Go
<1>6. StreamInv'
  BY SMT DEF StreamInv, Writers, Alive, WaitInterrupted, treeVars, streamVars
<1> QED
  BY <1>1, <1>2, <1>3, <1>4, <1>5, <1>6, <1>7

LEMMA SleepAndRetryKeeps ==
  ASSUME IInv, SleepAndRetry
  PROVE  IInv'
<1> USE SupervisionAssumption DEF SupervisionAssumption, IInv
<1>1. TypeOK'
  BY SMT DEF TypeOK, SleepAndRetry, config, treeVars, streamVars, Go, ParentPhases
<1>2. PhaseInv'
  BY SMT DEF PhaseInv, SleepAndRetry, Go
<1>7. RootInv'
  BY SMT DEF RootInv, SleepAndRetry, treeVars
<1>3. ServingInv'
  BY SMT DEF ServingInv, SleepAndRetry, treeVars
<1>4. KillInv'
  BY SMT DEF KillInv, Alive, SleepAndRetry, treeVars
<1>5. ReapInv'
  BY SMT DEF ReapInv, SleepAndRetry, treeVars
<1>6. StreamInv'
  BY SMT DEF StreamInv, Writers, Alive, SleepAndRetry, treeVars, streamVars
<1> QED
  BY <1>1, <1>2, <1>3, <1>4, <1>5, <1>6, <1>7

LEMMA KillAtDeadlineKeeps ==
  ASSUME IInv, KillAtDeadline
  PROVE  IInv'
<1> USE SupervisionAssumption DEF SupervisionAssumption, IInv
<1>1. TypeOK'
  BY KillAndWaitEffect, SMT DEF TypeOK, KillAtDeadline, config, streamVars, Go, ParentPhases
<1>2. PhaseInv'
  BY SMT DEF PhaseInv, KillAtDeadline, Go
<1>7. RootInv'
  BY KillAndWaitEffect, SMT DEF RootInv, KillAtDeadline
<1>3. ServingInv'
  BY KillAndWaitEffect, SMT DEF ServingInv, KillAtDeadline
<1>4. KillInv'
  BY KillAndWaitEffect, SMT DEF KillInv, Alive, KillAtDeadline
<1>5. ReapInv'
  BY KillAndWaitEffect, SMT DEF ReapInv, KillAtDeadline
<1>6. StreamInv'
  BY SMT DEF StreamInv, KillAtDeadline, streamVars
<1> QED
  BY <1>1, <1>2, <1>3, <1>4, <1>5, <1>6, <1>7

LEMMA AbortExecutionKeeps ==
  ASSUME IInv, AbortExecution
  PROVE  IInv'
<1> USE SupervisionAssumption DEF SupervisionAssumption, IInv
<1>1. TypeOK'
  BY KillAndWaitEffect, SMT DEF TypeOK, AbortExecution, config, streamVars, Go,
     ParentPhases, Results
<1>2. PhaseInv'
  BY SMT DEF PhaseInv, AbortExecution, Go
<1>7. RootInv'
  BY KillAndWaitEffect, SMT DEF RootInv, AbortExecution
<1>3. ServingInv'
  BY KillAndWaitEffect, SMT DEF ServingInv, AbortExecution
<1>4. KillInv'
  BY KillAndWaitEffect, SMT DEF KillInv, Alive, AbortExecution
<1>5. ReapInv'
  BY KillAndWaitEffect, SMT DEF ReapInv, AbortExecution
<1>6. StreamInv'
  BY SMT DEF StreamInv, AbortExecution, streamVars
<1> QED
  BY <1>1, <1>2, <1>3, <1>4, <1>5, <1>6, <1>7

LEMMA JoinReadersKeeps ==
  ASSUME IInv, JoinReaders
  PROVE  IInv'
<1> USE SupervisionAssumption DEF SupervisionAssumption, IInv
<1>1. TypeOK'
  BY SMT DEF TypeOK, JoinReaders, config, streamVars, Go, Withdraw, Dequeue, ProcStates,
     ParentPhases
<1>2. PhaseInv'
  BY SMT DEF PhaseInv, JoinReaders, streamVars, Go
<1>7. RootInv'
  BY SMT DEF RootInv, JoinReaders
<1>3. ServingInv'
  BY SMT DEF TypeOK, ServingInv, JoinReaders, Withdraw
<1>4. KillInv'
  BY SMT DEF KillInv, Alive, JoinReaders
<1>5. ReapInv'
  BY SMT DEF ReapInv, JoinReaders
<1>6. StreamInv'
  BY SMT DEF StreamInv, Writers, Alive, JoinReaders, streamVars
<1> QED
  BY <1>1, <1>2, <1>3, <1>4, <1>5, <1>6, <1>7

LEMMA ReaderChecksCancelKeeps ==
  ASSUME IInv, NEW s \in Streams, ReaderChecksCancel(s)
  PROVE  IInv'
<1> USE SupervisionAssumption DEF SupervisionAssumption, IInv
<1>1. TypeOK'
  BY SMT DEF TypeOK, ReaderChecksCancel, config, treeVars, parentVars
<1>2. PhaseInv'
  BY SMT DEF PhaseInv, ReaderChecksCancel, parentVars
<1>7. RootInv'
  BY SMT DEF RootInv, ReaderChecksCancel, treeVars
<1>3. ServingInv'
  BY SMT DEF ServingInv, ReaderChecksCancel, treeVars
<1>4. KillInv'
  BY SMT DEF KillInv, Alive, ReaderChecksCancel, treeVars, parentVars
<1>5. ReapInv'
  BY SMT DEF ReapInv, ReaderChecksCancel, treeVars, parentVars
<1>6. StreamInv'
  BY SMT DEF StreamInv, Writers, Alive, ReaderChecksCancel, treeVars, parentVars
<1> QED
  BY <1>1, <1>2, <1>3, <1>4, <1>5, <1>6, <1>7

LEMMA ReadChunkKeeps ==
  ASSUME IInv, NEW s \in Streams, ReadChunk(s)
  PROVE  IInv'
<1> USE SupervisionAssumption DEF SupervisionAssumption, IInv
<1>1. TypeOK'
  BY SMT DEF TypeOK, ReadChunk, config, treeVars, parentVars, StreamInv
<1>2. PhaseInv'
  BY SMT DEF PhaseInv, ReadChunk, parentVars
<1>7. RootInv'
  BY SMT DEF RootInv, ReadChunk, treeVars
<1>3. ServingInv'
  BY SMT DEF ServingInv, ReadChunk, treeVars
<1>4. KillInv'
  BY SMT DEF KillInv, Alive, ReadChunk, treeVars, parentVars
<1>5. ReapInv'
  BY SMT DEF ReapInv, ReadChunk, treeVars, parentVars
<1>6. StreamInv'
  BY SMT DEF TypeOK, StreamInv, Writers, Alive, ReadChunk, treeVars, parentVars
<1> QED
  BY <1>1, <1>2, <1>3, <1>4, <1>5, <1>6, <1>7

LEMMA ReadEmptyKeeps ==
  ASSUME IInv, NEW s \in Streams, ReadEmpty(s)
  PROVE  IInv'
<1> USE SupervisionAssumption DEF SupervisionAssumption, IInv
<1>1. TypeOK'
  BY SMT DEF TypeOK, ReadEmpty, config, treeVars, parentVars
<1>2. PhaseInv'
  BY SMT DEF PhaseInv, ReadEmpty, parentVars
<1>7. RootInv'
  BY SMT DEF RootInv, ReadEmpty, treeVars
<1>3. ServingInv'
  BY SMT DEF ServingInv, ReadEmpty, treeVars
<1>4. KillInv'
  BY SMT DEF KillInv, Alive, ReadEmpty, treeVars, parentVars
<1>5. ReapInv'
  BY SMT DEF ReapInv, ReadEmpty, treeVars, parentVars
<1>6. StreamInv'
  BY SMT DEF StreamInv, Writers, Alive, ReadEmpty, treeVars, parentVars
<1> QED
  BY <1>1, <1>2, <1>3, <1>4, <1>5, <1>6, <1>7

-----------------------------------------------------------------------------
LEMMA StutterKeeps == ASSUME IInv, UNCHANGED vars PROVE IInv'
BY DEF IInv, TypeOK, PhaseInv, RootInv, ServingInv, KillInv, ReapInv, StreamInv, Writers,
   Alive, vars, config, treeVars, parentVars, streamVars

LEMMA NextKeeps == ASSUME IInv, [Next]_vars PROVE IInv'
<1>1. CASE Command
  BY <1>1, ForkKeeps, WriteOutputKeeps, BrokenPipeKeeps, TrapKeeps, InterruptedKeeps,
     ExitKeeps DEF Command
<1>2. CASE DeadlinePasses
  BY <1>2, DeadlinePassesKeeps
<1>3. CASE Service
  BY <1>3, NothingToServiceKeeps, PollFindsRequestKeeps, ReceiveKeeps, ReceiveFailsKeeps,
     AnswerKeeps, AnswerIsMootKeeps DEF Service
<1>4. CASE Waiting \/ WaitInterrupted
  BY <1>4, ChildExitedKeeps, StillRunningKeeps, SleepAndRetryKeeps, KillAtDeadlineKeeps,
     WaitInterruptedKeeps DEF Waiting
<1>5. CASE AbortExecution \/ JoinReaders
  BY <1>5, AbortExecutionKeeps, JoinReadersKeeps
<1>6. CASE \E s \in Streams : Reader(s)
  BY <1>6, ReaderChecksCancelKeeps, ReadChunkKeeps, ReadEmptyKeeps DEF Reader
<1>7. CASE UNCHANGED vars
  BY <1>7, StutterKeeps
<1> QED
  BY <1>1, <1>2, <1>3, <1>4, <1>5, <1>6, <1>7 DEF Next, Parent

\* The inductive invariant of a supervised command: parent_process,
\* wait_for_child, service_proxy_supervisor and the readers, against any tree.
THEOREM SupervisionInvariant == Spec => []IInv
<1>1. Init => IInv
  BY InitInv
<1>2. IInv /\ [Next]_vars => IInv'
  BY NextKeeps
<1> QED
  BY <1>1, <1>2, PTL DEF Spec

\* Every variable keeps its type; what is captured never exceeds what was
\* written (read_pipe_until_eof_or_cancel).
THEOREM TypeCorrect == Spec => []TypeOK
<1>1. IInv => TypeOK
  BY DEF IInv
<1> QED
  BY <1>1, SupervisionInvariant, PTL

\* A call that returns a timeout or an error has left no process of the group
\* running, however large the tree is and whatever it forks after the kill,
\* and timed out only after its deadline (wait_for_child, parent_process).
THEOREM GroupIsEnded == Spec => []EndsTheGroup
<1>1. IInv => EndsTheGroup
  BY DEF IInv, PhaseInv, KillInv, EndsTheGroup
<1> QED
  BY <1>1, SupervisionInvariant, PTL

\* A call that returns the exit code returns all that the command wrote, for
\* every number of writers, streams and chunks (parent_process).
THEOREM NoOutputIsLost == Spec => []OutputIsComplete
<1>1. IInv => OutputIsComplete
  <2> SUFFICES ASSUME IInv, pc = "returned", result = "exit" PROVE captured = written
    BY DEF OutputIsComplete
  <2>1. \A s \in Streams : pipe[s] = 0 /\ captured[s] + pipe[s] = written[s]
    BY DEF IInv, PhaseInv, StreamInv
  <2>2. \A s \in Streams : captured[s] = written[s]
    BY <2>1 DEF IInv, TypeOK
  <2> QED
    BY <2>2 DEF IInv, TypeOK
<1> QED
  BY <1>1, SupervisionInvariant, PTL

\* The direct child is reaped when the call returns, unless a signal
\* interrupted the waitpid after a kill (wait_for_child, parent_process).
THEOREM NoZombieIsLeft == Spec => []ChildIsReaped
<1>1. IInv => ChildIsReaped
  BY DEF IInv, PhaseInv, ReapInv, ChildIsReaped
<1> QED
  BY <1>1, SupervisionInvariant, PTL

=============================================================================
