----------------------------- MODULE SandboxedExec -----------------------------
(***************************************************************************)
(* What every proxy-only sandboxed_exec call has, whichever way its child  *)
(* hands the seccomp listener over: a parent thread (pc), a child process  *)
(* (cpc), the descriptors prepared before the child exists, the bytes in   *)
(* flight on the supervisor socket pair, and, at the end, the drop of the  *)
(* ProxyNotifyFd.  (src/src/sandboxed_exec.rs)                             *)
(***************************************************************************)
EXTENDS HostProcess, Sequences

VARIABLES
  pc,         \* pc[e]: where the parent thread of e is
  cpc,        \* cpc[e]: where the child process of e is
  fds,        \* fds[e]: the descriptor numbers prepared for e
  held,       \* held[e]: which of them the parent still owns
  known,      \* known[e]: the parent's slot of e's listener, or NoSlot
  toParent,   \* toParent[e]: what was written to the supervisor's end
  ack         \* ack[e]: the ACK byte was written to the child's end

execVars == <<pc, cpc, fds, held, known, toParent, ack>>

-----------------------------------------------------------------------------
Ends == {"sup", "child", "pipe"}

\* Phases of the parent thread.  The first row belongs to every execution.
ParentPhases ==
  {"idle", "paired", "prepared", "dropNotify", "closeNotify", "done", "failed"}
  \cup
  {"locked", "snapped", "awaitSlot", "awaitDetached", "detached", "validate",
   "owned", "ackSent", "supervising", "kill", "sweepList", "sweep", "ackFailed",
   "disown", "unlock", "drop"}
  \cup
  {"forked", "service", "cloneLock", "clone", "writeAck", "wait", "abort",
   "finish"}

\* A cloned child runs on the host's table until close_range(UNSHARE).
SharingPhases == {"shared", "listening", "reported"}
AlivePhases == SharingPhases \cup
  {"private", "detached", "forked", "secured", "filtered", "announced",
   "acked", "scrubbed", "target"}
ChildPhases == AlivePhases \cup {"none", "dead", "reaped"}

Messages == [kind : {"LISTENER", "DETACHED"}, slot : Slots \cup {NoSlot}]

Move(e, from, to) == pc[e] = from /\ pc' = [pc EXCEPT ![e] = to]
ChildMove(e, from, to) == cpc[e] = from /\ cpc' = [cpc EXCEPT ![e] = to]

\* Mutant: a number is closed whether or not it still belongs to the call.
HeldSlots_EvenIfDropped(e, K) == {fds[e][k] : k \in K}

\* The numbers of those ends of e in K that the parent still owns.
HeldSlots(e, K) == {fds[e][k] : k \in held[e] \cap K}

\* Drop of the values that own the ends K of e.
CloseEnds(e, K) ==
  /\ fdTable' = Closed(fdTable, HeldSlots(e, K))
  /\ held' = [held EXCEPT ![e] = @ \ K]

\* The function returns and its locals cease to exist.
ForgetLocals(e) ==
  /\ fds' = [fds EXCEPT ![e] = [k \in Ends |-> NoSlot]]
  /\ held' = [held EXCEPT ![e] = {}]
  /\ known' = [known EXCEPT ![e] = NoSlot]
  /\ toParent' = [toParent EXCEPT ![e] = <<>>]
  /\ ack' = [ack EXCEPT ![e] = FALSE]

-----------------------------------------------------------------------------
(* Preparation, before the child exists.                                   *)

CreatePair(e) ==
  /\ Move(e, "idle", "paired")
  /\ \E s \in LowestFree(fdTable) : \E t \in LowestFreeExcept(fdTable, {s}) :
       /\ fdTable' = [fdTable EXCEPT ![s] = FileOf("sup", e),
                                     ![t] = FileOf("child", e)]
       /\ fds' = [fds EXCEPT ![e]["sup"] = s, ![e]["child"] = t]
  /\ held' = [held EXCEPT ![e] = {"sup", "child"}]
  /\ UNCHANGED <<childTable, bootstrapMutex, cpc, known, toParent, ack>>

CreatePipes(e) ==
  /\ Move(e, "paired", "prepared")
  /\ \E s \in LowestFree(fdTable) :
       /\ fdTable' = [fdTable EXCEPT ![s] = FileOf("pipe", e)]
       /\ fds' = [fds EXCEPT ![e]["pipe"] = s]
  /\ held' = [held EXCEPT ![e] = @ \cup {"pipe"}]
  /\ UNCHANGED <<childTable, bootstrapMutex, cpc, known, toParent, ack>>

\* socketpair(2) or pipe(2) fails because the table is full.
PreparationFails(e) ==
  /\ \/ /\ Move(e, "idle", "failed")
        /\ \A s \in LowestFree(fdTable) : LowestFreeExcept(fdTable, {s}) = {}
     \/ /\ Move(e, "paired", "failed")
        /\ LowestFree(fdTable) = {}
  /\ fdTable' = Closed(fdTable, HeldSlots(e, Ends))
  /\ ForgetLocals(e)
  /\ UNCHANGED <<childTable, bootstrapMutex, cpc>>

Prepare(e) == CreatePair(e) \/ CreatePipes(e) \/ PreparationFails(e)

-----------------------------------------------------------------------------
(* Drop of ProxyNotifyFd: take the mutex, close the listener, release.     *)

\* Mutant: the listener is closed without the mutex.
LockToCloseListener_NoMutex(e) ==
  /\ Move(e, "dropNotify", "done")
  /\ fdTable' = Closed(fdTable, {known[e]})
  /\ ForgetLocals(e)
  /\ UNCHANGED <<childTable, bootstrapMutex, cpc>>

LockToCloseListener(e) ==
  /\ Move(e, "dropNotify", "closeNotify")
  /\ bootstrapMutex = NoExec
  /\ bootstrapMutex' = e
  /\ UNCHANGED <<fdTable, childTable, cpc, fds, held, known, toParent, ack>>

CloseListener(e) ==
  /\ Move(e, "closeNotify", "done")
  /\ fdTable' = Closed(fdTable, {known[e]})
  /\ bootstrapMutex' = NoExec
  /\ ForgetLocals(e)
  /\ UNCHANGED <<childTable, cpc>>

-----------------------------------------------------------------------------
(* The child's end of the socket pair, and the child's death.              *)

\* A write through descriptor fds[e]["child"] of the given table reaches the
\* parent of whichever pair that number refers to now; any other file is an
\* error and the child dies.
Write(e, table, msg) ==
  LET file == table[fds[e]["child"]] IN
  /\ file.kind = "child"
  /\ toParent' = [toParent EXCEPT ![file.owner] = Append(@, msg)]

\* Any system call of the child fails (child_die, child_die_raw), or a fatal
\* signal arrives; for the target, its exit.  A table the child shares with the
\* host outlives it.
ChildDies(e) ==
  /\ cpc[e] \in AlivePhases
  /\ cpc' = [cpc EXCEPT ![e] = "dead"]
  /\ childTable' = [childTable EXCEPT ![e] = EmptyTable]
  /\ UNCHANGED <<fdTable, bootstrapMutex, pc, fds, held, known, toParent, ack>>

-----------------------------------------------------------------------------
ExecInit ==
  /\ pc = [e \in Execs |-> "idle"]
  /\ cpc = [e \in Execs |-> "none"]
  /\ fds = [e \in Execs |-> [k \in Ends |-> NoSlot]]
  /\ held = [e \in Execs |-> {}]
  /\ known = [e \in Execs |-> NoSlot]
  /\ toParent = [e \in Execs |-> <<>>]
  /\ ack = [e \in Execs |-> FALSE]

ExecTypeOK ==
  /\ pc \in [Execs -> ParentPhases]
  /\ cpc \in [Execs -> ChildPhases]
  /\ fds \in [Execs -> [Ends -> Slots \cup {NoSlot}]]
  /\ held \in [Execs -> SUBSET Ends]
  /\ known \in [Execs -> Slots \cup {NoSlot}]
  /\ toParent \in [Execs -> Seq(Messages)]
  /\ ack \in [Execs -> BOOLEAN]
=============================================================================
