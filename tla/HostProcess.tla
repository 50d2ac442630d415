------------------------------ MODULE HostProcess ------------------------------
(***************************************************************************)
(* The part of the host (Python) process that concurrent sandboxed_exec    *)
(* calls share: its file-descriptor table and SHARED_BOOTSTRAP_MUTEX.      *)
(*                                                                         *)
(* A descriptor is an entry of a table.  An entry names the open file it   *)
(* refers to by a kind and the execution it was made for:                  *)
(*   sup, child  the two ends of the supervisor socket pair                *)
(*   pipe        the stdout and stderr pipes (four descriptors, opened and *)
(*               closed together as far as this model is concerned)        *)
(*   listener    the seccomp notification listener                         *)
(*   app         any descriptor of the embedding application               *)
(* A child that was cloned with CLONE_FILES uses fdTable itself until it   *)
(* unshares; from then on, and after a plain fork, it has a table of its   *)
(* own, childTable[e].                                                     *)
(***************************************************************************)
EXTENDS Integers, FiniteSets

CONSTANTS
  Slots,       \* descriptor numbers of the host table: RLIMIT_NOFILE of them
  Execs,       \* concurrent sandboxed_exec calls, one thread each
  NoExec,      \* owner of the mutex when it is free
  MaxAppFds    \* bound on the descriptors the application holds at a time

NoSlot == -1

ASSUME HostAssumption ==
  /\ Slots \subseteq Nat
  /\ NoExec \notin Execs
  /\ MaxAppFds \in Nat

VARIABLES
  fdTable,         \* the host's descriptor table
  childTable,      \* childTable[e]: the private table of the child of e
  bootstrapMutex   \* SHARED_BOOTSTRAP_MUTEX: its holder, or NoExec

hostVars == <<fdTable, childTable, bootstrapMutex>>

-----------------------------------------------------------------------------
Kinds == {"free", "app", "sup", "child", "pipe", "listener"}
Entries == [kind : Kinds, owner : Execs \cup {NoExec}]

Free == [kind |-> "free", owner |-> NoExec]
AppFile == [kind |-> "app", owner |-> NoExec]
FileOf(kind, e) == [kind |-> kind, owner |-> e]

EmptyTable == [s \in Slots |-> Free]

\* Mutant: a full table hands out the number one past its end.
LowestFreeExcept_PastEnd(table, taken) ==
  LET free == {s \in Slots : table[s] = Free} \ taken
  IN IF free = {} THEN {Cardinality(Slots)} ELSE {s \in free : \A t \in free : s <= t}

\* The kernel hands out the lowest free number; {} when the table is full.
LowestFreeExcept(table, taken) ==
  LET free == {s \in Slots : table[s] = Free} \ taken
  IN {s \in free : \A t \in free : s <= t}

LowestFree(table) == LowestFreeExcept(table, {})

\* The table after close(s) of every s in S; closing a free number is EBADF.
Closed(table, S) == [s \in Slots |-> IF s \in S THEN Free ELSE table[s]]

\* The copy of the table a child gets from fork or from unsharing.  It keeps
\* track of the socket ends only: what a copy changes for anybody else is when
\* the other end of a socket is seen closed.
CopyFor(table) ==
  [s \in Slots |-> IF table[s].kind \in {"sup", "child"} THEN table[s] ELSE Free]

\* The descriptors /proc/self/fd shows as "anon_inode:seccomp notify".
seccomp_notify_fds == {s \in Slots : fdTable[s].kind = "listener"}

\* Some process still has the file open: a read at the other end of a socket
\* sees end of file, and a write EPIPE, only when none has.
OpenSomewhere(file) ==
  \/ \E s \in Slots : fdTable[s] = file
  \/ \E e \in Execs, s \in Slots : childTable[e][s] = file

-----------------------------------------------------------------------------
\* The embedding application runs other threads while the GIL is released,
\* and opens and closes files of its own whenever it likes.
AppOpen ==
  /\ Cardinality({s \in Slots : fdTable[s] = AppFile}) < MaxAppFds
  /\ \E s \in LowestFree(fdTable) : fdTable' = [fdTable EXCEPT ![s] = AppFile]
  /\ UNCHANGED <<childTable, bootstrapMutex>>

AppClose ==
  /\ \E s \in Slots : /\ fdTable[s] = AppFile
                      /\ fdTable' = Closed(fdTable, {s})
  /\ UNCHANGED <<childTable, bootstrapMutex>>

HostInit ==
  /\ fdTable = EmptyTable
  /\ childTable = [e \in Execs |-> EmptyTable]
  /\ bootstrapMutex = NoExec

HostTypeOK ==
  /\ fdTable \in [Slots -> Entries]
  /\ childTable \in [Execs -> [Slots -> Entries]]
  /\ bootstrapMutex \in Execs \cup {NoExec}
=============================================================================
