------------------------------ MODULE StdioWiring -----------------------------
(***************************************************************************)
(* Descriptors 0, 1 and 2 of a sandboxed command (sandboxed_exec.rs): the  *)
(* parent creates the supervisor sockets and the pipes, the child inherits *)
(* the table, puts the write ends on 1 and 2 and closes the rest.  The     *)
(* embedder may have any descriptors open, and may have closed 0, 1 or 2.  *)
(* A table maps a number to the name of what it is open on.  Left out: the *)
(* listener, which is numbered above the pipes or closed at once, and what *)
(* other threads do to the table.                                          *)
(***************************************************************************)
EXTENDS Integers, FiniteSets

CONSTANT LastSlot  \* the highest descriptor number

VARIABLES
  kind,     \* how the command is started
  step,     \* what parent or child does next
  fd,       \* fd[e]: the number of that end
  parent,   \* the table of the embedder
  child,    \* the table of the child
  limit     \* RLIMIT_NOFILE, below which close_fds_by_rlimit closes

stdioVars == <<kind, step, fd, parent, child, limit>>

-----------------------------------------------------------------------------
Slots == 0..LastSlot
Ends == {"supervisor", "sock", "out_read", "out_write", "err_read", "err_write"}
Things == Ends \cup {"embedder", "closed"}
NoFd == -1

Kinds == {"fork", "pidfd", "clone_files"}
Steps == {"sockets", "out_pipe", "err_pipe", "launch", "supervisor", "handshake", "sock",
          "reads", "dup_out", "dup_err", "writes", "scrub", "exec", "failed", "died"}

(* The order of child_process, and that of child_process_clone_files. *)
After ==
  IF kind = "clone_files"
  THEN [supervisor |-> "handshake", handshake |-> "sock", sock |-> "reads", reads |-> "dup_out",
        dup_out |-> "dup_err", dup_err |-> "writes", writes |-> "scrub", scrub |-> "exec"]
  ELSE [supervisor |-> "reads", reads |-> "dup_out", dup_out |-> "dup_err",
        dup_err |-> "writes", writes |-> "scrub", scrub |-> "handshake",
        handshake |-> "sock", sock |-> "exec"]

Free == {n \in Slots : parent[n] = "closed"}
IsLowest(n, numbers) == n \in numbers /\ \A m \in numbers : n <= m

-----------------------------------------------------------------------------
Init ==
  /\ kind \in Kinds
  /\ step = (IF kind = "fork" THEN "out_pipe" ELSE "sockets")
  /\ fd = [e \in Ends |-> NoFd]
  /\ parent \in [Slots -> {"embedder", "closed"}]
  /\ child = [n \in Slots |-> "closed"]
  /\ limit \in 3..(LastSlot + 1)

(* socketpair and pipe2 take the two lowest free numbers, in this order. *)
CreatePair(here, first, second, next) ==
  /\ step = here
  /\ \E m, n \in Slots :
       /\ IsLowest(m, Free) /\ IsLowest(n, Free \ {m})
       /\ fd' = [fd EXCEPT ![first] = m, ![second] = n]
       /\ parent' = [parent EXCEPT ![m] = first, ![n] = second]
  /\ step' = next
  /\ UNCHANGED <<kind, child, limit>>

(* The table is full: what was created is closed and the call fails. *)
CreatePairFails(here) ==
  /\ step = here
  /\ \A m, n \in Free : m = n
  /\ parent' = [n \in Slots |-> IF parent[n] = "embedder" THEN "embedder" ELSE "closed"]
  /\ step' = "failed"
  /\ UNCHANGED <<kind, fd, child, limit>>

CreateSockets == CreatePair("sockets", "supervisor", "sock", "out_pipe")
CreateOutPipe == CreatePair("out_pipe", "out_read", "out_write", "err_pipe")
CreateErrPipe == CreatePair("err_pipe", "err_read", "err_write", "launch")

(* fork, or clone(CLONE_FILES) and the unsharing of the table. *)
Launch ==
  /\ step = "launch"
  /\ child' = parent
  /\ step' = "supervisor"
  /\ UNCHANGED <<kind, fd, parent, limit>>

(* A step of the child, which does nothing else to the world. *)
ChildGoesOn(here, table) ==
  /\ step = here /\ step' = After[here]
  /\ child' = table
  /\ UNCHANGED <<kind, fd, parent, limit>>

Closing(table, numbers) == [n \in Slots |-> IF n \in numbers THEN "closed" ELSE table[n]]

CloseSupervisor == ChildGoesOn("supervisor", Closing(child, {fd["supervisor"]}))

(* Bytes over the socket; without it the child dies.  A plain fork has none. *)
Handshake ==
  \/ /\ step = "handshake" /\ (kind # "fork" => child[fd["sock"]] = "sock")
     /\ ChildGoesOn("handshake", child)
  \/ /\ step = "handshake" /\ kind # "fork" /\ child[fd["sock"]] # "sock"
     /\ step' = "died"
     /\ UNCHANGED <<kind, fd, parent, child, limit>>

CloseSock == ChildGoesOn("sock", Closing(child, {fd["sock"]}))

CloseReads == ChildGoesOn("reads", Closing(child, {fd["out_read"], fd["err_read"]}))

(* dup2 of a number on itself changes nothing; a bad one is an error, which  *)
(* only the clone-files child looks at.                                      *)
Dup2(here, end, to) ==
  \/ /\ step = here /\ child[fd[end]] # "closed"
     /\ ChildGoesOn(here, [child EXCEPT ![to] = child[fd[end]]])
  \/ /\ step = here /\ child[fd[end]] = "closed" /\ kind # "clone_files"
     /\ ChildGoesOn(here, child)
  \/ /\ step = here /\ child[fd[end]] = "closed" /\ kind = "clone_files"
     /\ step' = "died"
     /\ UNCHANGED <<kind, fd, parent, child, limit>>

DupOut == Dup2("dup_out", "out_write", 1)
DupErr == Dup2("dup_err", "err_write", 2)

(* Only the clone-files child looks whether the number is the one it wired. *)
CloseWrites ==
  LET wired == IF kind # "clone_files" THEN {}
               ELSE ({fd["out_write"]} \cap {1}) \cup ({fd["err_write"]} \cap {2})
  IN  ChildGoesOn("writes", Closing(child, {fd["out_write"], fd["err_write"]} \ wired))

(* close_range from 3, or with a socket to keep every number below the limit *)
(* (close_untrusted_fds).                                                    *)
Scrub ==
  ChildGoesOn("scrub",
    Closing(child, IF kind = "pidfd" THEN {n \in 3..(limit - 1) : n # fd["sock"]}
                   ELSE {n \in Slots : n >= 3}))

Next ==
  \/ CreateSockets \/ CreateOutPipe \/ CreateErrPipe
  \/ \E here \in {"sockets", "out_pipe", "err_pipe"} : CreatePairFails(here)
  \/ Launch \/ CloseSupervisor \/ Handshake \/ CloseSock \/ CloseReads
  \/ DupOut \/ DupErr \/ CloseWrites \/ Scrub

Spec == Init /\ [][Next]_stdioVars

-----------------------------------------------------------------------------
(* "Bootstrap descriptors must not be confused with fd 0/1/2": whatever the  *)
(* embedder has open or closed, the program starts with the pipes of its own *)
(* call on 1 and 2, and no other descriptor above 2.                         *)
StdioIsWired ==
  step = "exec" =>
    /\ child[1] = "out_write" /\ child[2] = "err_write"
    /\ \A n \in Slots : n >= 3 => child[n] = "closed"
=============================================================================
