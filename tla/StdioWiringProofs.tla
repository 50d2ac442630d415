--------------------------- MODULE StdioWiringProofs ---------------------------
(***************************************************************************)
(* When the standard streams of a command are wired, for every table size  *)
(* and every choice of open descriptors: always with clone_files, and with *)
(* a plain fork when the embedder has 0, 1 and 2 open.  The run stdio      *)
(* shows what happens otherwise.                                           *)
(***************************************************************************)
EXTENDS StdioWiring, TLAPS

TypeOK ==
  /\ kind \in Kinds /\ step \in Steps
  /\ fd \in [Ends -> Slots \cup {NoFd}]
  /\ parent \in [Slots -> Things] /\ child \in [Slots -> Things]
  /\ limit \in 3..(LastSlot + 1)

(* How far the parent is: which pairs have their numbers. *)
HasSockets == kind # "fork" /\ step \notin {"sockets", "failed"}
HasOut == step \notin {"sockets", "out_pipe", "failed"}
HasErr == HasOut /\ step # "err_pipe"

(* Numbers are given out in ascending order, since nothing is closed before *)
(* the child runs.                                                          *)
Ascending ==
  /\ kind = "fork" => step # "sockets" /\ fd["supervisor"] = NoFd /\ fd["sock"] = NoFd
  /\ HasSockets => /\ fd["supervisor"] \in Slots /\ fd["sock"] \in Slots
                   /\ fd["supervisor"] < fd["sock"]
  /\ HasSockets /\ step = "out_pipe" => \A n \in Free : fd["sock"] < n
  /\ HasOut => /\ fd["out_read"] \in Slots /\ fd["out_write"] \in Slots
               /\ fd["out_read"] < fd["out_write"]
               /\ parent[fd["out_write"]] = "out_write"
               /\ kind # "fork" => fd["sock"] < fd["out_read"]
  /\ step = "err_pipe" => \A n \in Free : fd["out_write"] < n
  /\ HasErr => /\ fd["err_read"] \in Slots /\ fd["err_write"] \in Slots
               /\ fd["out_write"] < fd["err_read"] /\ fd["err_read"] < fd["err_write"]
               /\ parent[fd["err_write"]] = "err_write"

(* The cases in which nothing the child does meets 1 or 2 by accident. *)
Clear == kind # "pidfd" /\ HasErr /\ fd["out_write"] >= 3

NotYetWired ==
  \/ step \in {"supervisor", "reads", "dup_out"}
  \/ kind = "clone_files" /\ step \in {"handshake", "sock"}
Scrubbed ==
  \/ step = "exec"
  \/ kind = "fork" /\ step \in {"handshake", "sock"}
Streams == child[1] = "out_write" /\ child[2] = "err_write"

ChildInv ==
  Clear =>
    /\ NotYetWired => child[fd["out_write"]] = "out_write" /\ child[fd["err_write"]] = "err_write"
    /\ step = "dup_err" => child[1] = "out_write" /\ child[fd["err_write"]] = "err_write"
    /\ step \in {"writes", "scrub"} => Streams
    /\ Scrubbed => Streams /\ \A n \in Slots : n >= 3 => child[n] = "closed"

IInv == TypeOK /\ Ascending /\ ChildInv

-----------------------------------------------------------------------------
(* After, spelled out. *)
LEMMA AfterIs ==
  /\ kind = "clone_files" =>
       /\ After["supervisor"] = "handshake" /\ After["handshake"] = "sock"
       /\ After["sock"] = "reads" /\ After["reads"] = "dup_out"
       /\ After["dup_out"] = "dup_err" /\ After["dup_err"] = "writes"
       /\ After["writes"] = "scrub" /\ After["scrub"] = "exec"
  /\ kind # "clone_files" =>
       /\ After["supervisor"] = "reads" /\ After["reads"] = "dup_out"
       /\ After["dup_out"] = "dup_err" /\ After["dup_err"] = "writes"
       /\ After["writes"] = "scrub" /\ After["scrub"] = "handshake"
       /\ After["handshake"] = "sock" /\ After["sock"] = "exec"
BY DEF After

(* The initial state: no end has a number. *)
LEMMA InitInv == ASSUME LastSlot \in Nat, LastSlot >= 2, Init PROVE IInv
<1>1. TypeOK
  BY DEF Init, TypeOK, Kinds, Steps, Ends, Slots, NoFd, Things
<1>2. Ascending
  BY DEF Init, Ascending, HasSockets, HasOut, HasErr, Kinds, Ends
<1>3. ChildInv
  BY DEF Init, ChildInv, Clear, HasErr, HasOut
<1> QED
  BY <1>1, <1>2, <1>3 DEF IInv

(* What CreatePair does to the numbers: two free ones, lowest first, and     *)
(* whatever is free afterwards is above them.                                *)
LEMMA PairIsLowest ==
  ASSUME LastSlot \in Nat, TypeOK, NEW first \in Ends, NEW second \in Ends, first # second,
         NEW here, NEW next, CreatePair(here, first, second, next)
  PROVE  /\ fd' \in [Ends -> Slots \cup {NoFd}] /\ parent' \in [Slots -> Things]
         /\ fd'[first] \in Free /\ fd'[second] \in Free /\ fd'[first] < fd'[second]
         /\ parent'[fd'[second]] = second
         /\ \A e \in Ends \ {first, second} : fd'[e] = fd[e]
         /\ \A n \in Slots : parent[n] # "closed" => parent'[n] = parent[n]
         /\ \A n \in Free' : n \in Free /\ fd'[second] < n
<1>1. PICK m \in Slots, n \in Slots :
        /\ IsLowest(m, Free) /\ IsLowest(n, Free \ {m})
        /\ fd' = [fd EXCEPT ![first] = m, ![second] = n]
        /\ parent' = [parent EXCEPT ![m] = first, ![n] = second]
  BY DEF CreatePair
<1>2. /\ m \in Free /\ n \in Free /\ m < n
      /\ \A k \in Free \ {m} : n <= k
  BY <1>1 DEF IsLowest, Slots, Free
<1>3. fd'[first] = m /\ fd'[second] = n /\ fd' \in [Ends -> Slots \cup {NoFd}]
  BY <1>1 DEF TypeOK
<1>4. \A e \in Ends \ {first, second} : fd'[e] = fd[e]
  BY <1>1 DEF TypeOK
<1>5. parent' \in [Slots -> Things] /\ parent'[n] = second /\ parent'[m] = first
  BY <1>1, <1>2 DEF TypeOK, Things, Slots
<1>6. \A k \in Slots : k # m /\ k # n => parent'[k] = parent[k]
  BY <1>1 DEF TypeOK
<1>7. \A k \in Free' : k \in Free /\ n < k
  <2> SUFFICES ASSUME NEW k \in Free' PROVE k \in Free /\ n < k
    OBVIOUS
  <2>1. k \in Slots /\ parent'[k] = "closed"
    BY DEF Free
  <2>2. k # m /\ k # n
    BY <2>1, <1>5 DEF Ends
  <2>3. k \in Free
    BY <2>1, <2>2, <1>6 DEF Free
  <2> QED
    BY <2>1, <2>2, <2>3, <1>2 DEF Slots
<1> QED
  BY <1>2, <1>3, <1>4, <1>5, <1>6, <1>7 DEF Free

(* The steps of the parent. *)
LEMMA SocketsInv == ASSUME LastSlot \in Nat, IInv, CreateSockets PROVE IInv'
<1>1. CreatePair("sockets", "supervisor", "sock", "out_pipe") /\ TypeOK
  BY DEF CreateSockets, IInv
<1>2. /\ step = "sockets" /\ step' = "out_pipe"
      /\ kind' = kind /\ child' = child /\ limit' = limit
  BY <1>1 DEF CreatePair
<1>3. /\ fd' \in [Ends -> Slots \cup {NoFd}] /\ parent' \in [Slots -> Things]
      /\ fd'["supervisor"] \in Slots /\ fd'["sock"] \in Slots
      /\ fd'["supervisor"] < fd'["sock"] /\ \A n \in Free' : fd'["sock"] < n
  BY <1>1, PairIsLowest DEF Ends, Free
<1>4. kind # "fork"
  BY <1>2 DEF IInv, Ascending
<1>5. TypeOK'
  BY <1>1, <1>2, <1>3 DEF TypeOK, Steps
<1>6. Ascending'
  BY <1>2, <1>3, <1>4 DEF Ascending, HasSockets, HasOut, HasErr
<1>7. ChildInv'
  BY <1>2 DEF ChildInv, Clear, HasErr, HasOut
<1> QED
  BY <1>5, <1>6, <1>7 DEF IInv

LEMMA OutPipeInv == ASSUME LastSlot \in Nat, IInv, CreateOutPipe PROVE IInv'
<1>0. /\ "out_read" \in Ends /\ "out_write" \in Ends
      /\ {"supervisor", "sock"} \subseteq Ends \ {"out_read", "out_write"}
  BY DEF Ends
<1>1. CreatePair("out_pipe", "out_read", "out_write", "err_pipe") /\ TypeOK /\ Ascending
  BY DEF CreateOutPipe, IInv
<1>2. /\ step = "out_pipe" /\ step' = "err_pipe"
      /\ kind' = kind /\ child' = child /\ limit' = limit
  BY <1>1 DEF CreatePair
<1>3. /\ fd' \in [Ends -> Slots \cup {NoFd}] /\ parent' \in [Slots -> Things]
      /\ fd'["out_read"] \in Free /\ fd'["out_write"] \in Free
      /\ fd'["out_read"] < fd'["out_write"] /\ \A n \in Free' : fd'["out_write"] < n
      /\ parent'[fd'["out_write"]] = "out_write"
      /\ fd'["supervisor"] = fd["supervisor"] /\ fd'["sock"] = fd["sock"]
  BY <1>1, <1>0, PairIsLowest
<1>4. fd'["out_read"] \in Slots /\ fd'["out_write"] \in Slots
  BY <1>3 DEF Free
<1>5. TypeOK'
  BY <1>1, <1>2, <1>3 DEF TypeOK, Steps
<1>6. Ascending'
  BY <1>1, <1>2, <1>3, <1>4 DEF Ascending, HasSockets, HasOut, HasErr
<1>7. ChildInv'
  BY <1>2 DEF ChildInv, Clear, HasErr, HasOut
<1> QED
  BY <1>5, <1>6, <1>7 DEF IInv

LEMMA ErrPipeInv == ASSUME LastSlot \in Nat, IInv, CreateErrPipe PROVE IInv'
<1>0. /\ "err_read" \in Ends /\ "err_write" \in Ends
      /\ {"supervisor", "sock", "out_read", "out_write"} \subseteq Ends \ {"err_read", "err_write"}
  BY DEF Ends
<1>1. CreatePair("err_pipe", "err_read", "err_write", "launch") /\ TypeOK /\ Ascending
  BY DEF CreateErrPipe, IInv
<1>2. /\ step = "err_pipe" /\ step' = "launch"
      /\ kind' = kind /\ child' = child /\ limit' = limit
  BY <1>1 DEF CreatePair
<1>3. /\ fd' \in [Ends -> Slots \cup {NoFd}] /\ parent' \in [Slots -> Things]
      /\ fd'["err_read"] \in Free /\ fd'["err_write"] \in Free
      /\ fd'["err_read"] < fd'["err_write"]
      /\ parent'[fd'["err_write"]] = "err_write"
      /\ fd'["supervisor"] = fd["supervisor"] /\ fd'["sock"] = fd["sock"]
      /\ fd'["out_read"] = fd["out_read"] /\ fd'["out_write"] = fd["out_write"]
      /\ \A n \in Slots : parent[n] # "closed" => parent'[n] = parent[n]
  BY <1>1, <1>0, PairIsLowest
<1>4. fd'["err_read"] \in Slots /\ fd'["err_write"] \in Slots
  BY <1>3 DEF Free
<1>5. TypeOK'
  BY <1>1, <1>2, <1>3 DEF TypeOK, Steps
<1>6. Ascending'
  BY <1>1, <1>2, <1>3, <1>4 DEF Ascending, HasSockets, HasOut, HasErr
<1>7. ChildInv'
  BY <1>2 DEF ChildInv, NotYetWired, Scrubbed
<1> QED
  BY <1>5, <1>6, <1>7 DEF IInv

LEMMA FailInv ==
  ASSUME IInv, NEW here \in {"sockets", "out_pipe", "err_pipe"}, CreatePairFails(here)
  PROVE  IInv'
<1>1. step' = "failed" /\ fd' = fd /\ kind' = kind /\ child' = child /\ limit' = limit
  BY DEF CreatePairFails
<1>2. parent' \in [Slots -> Things]
  BY DEF CreatePairFails, Things
<1>3. TypeOK' /\ Ascending' /\ ChildInv'
  BY <1>1, <1>2 DEF IInv, TypeOK, Steps, Ascending, HasSockets, HasOut, HasErr, ChildInv, Clear
<1> QED
  BY <1>3 DEF IInv

LEMMA LaunchInv == ASSUME IInv, Launch PROVE IInv'
<1>1. /\ step = "launch" /\ step' = "supervisor" /\ child' = parent
      /\ kind' = kind /\ fd' = fd /\ parent' = parent /\ limit' = limit
  BY DEF Launch
<1>2. TypeOK' /\ Ascending'
  BY <1>1 DEF IInv, TypeOK, Steps, Ascending, HasSockets, HasOut, HasErr, Free
<1>3. ChildInv'
  BY <1>1 DEF IInv, Ascending, HasErr, HasOut, ChildInv, Clear, NotYetWired, Scrubbed
<1> QED
  BY <1>2, <1>3 DEF IInv

-----------------------------------------------------------------------------
ChildSteps == {"supervisor", "handshake", "sock", "reads", "dup_out", "dup_err", "writes", "scrub"}

(* The numbers are what they were while the child runs, and dying ends it.   *)
LEMMA ChildFrame ==
  ASSUME LastSlot \in Nat, IInv, UNCHANGED <<kind, fd, parent, limit>>,
         child' \in [Slots -> Things], step \in ChildSteps,
         step' \in ChildSteps \cup {"exec", "died"}
  PROVE  TypeOK' /\ Ascending' /\ (Clear' <=> Clear)
<1>1. TypeOK'
  BY DEF IInv, TypeOK, ChildSteps, Steps
<1>2. Free' = Free
  BY DEF Free
<1>3. Ascending' /\ (Clear' <=> Clear)
  BY <1>2 DEF IInv, Ascending, HasSockets, HasOut, HasErr, ChildSteps, Clear
<1> QED
  BY <1>1, <1>3

(* In the clear cases the numbers are these. *)
LEMMA ClearNumbers ==
  ASSUME LastSlot \in Nat, IInv, Clear
  PROVE  /\ fd["out_write"] \in Slots /\ fd["err_write"] \in Slots
         /\ fd["out_write"] >= 3 /\ fd["err_write"] > fd["out_write"]
         /\ fd["out_read"] # fd["out_write"] /\ fd["out_read"] # fd["err_write"]
         /\ fd["err_read"] # fd["out_write"] /\ fd["err_read"] # fd["err_write"]
         /\ \A e \in {"supervisor", "sock"} :
              fd[e] # fd["out_write"] /\ fd[e] # fd["err_write"]
<1>1. /\ fd["out_write"] \in Slots /\ fd["err_write"] \in Slots
      /\ fd["out_read"] \in Slots /\ fd["err_read"] \in Slots
      /\ fd["out_read"] < fd["out_write"] /\ fd["out_write"] < fd["err_read"]
      /\ fd["err_read"] < fd["err_write"] /\ fd["out_write"] >= 3
  BY DEF IInv, Clear, HasErr, Ascending
<1>2. CASE kind = "fork"
  <2>1. fd["supervisor"] = NoFd /\ fd["sock"] = NoFd
    BY <1>2 DEF IInv, Ascending
  <2> QED
    BY <1>1, <2>1 DEF Slots, NoFd
<1>3. CASE kind # "fork"
  <2>1. /\ fd["supervisor"] \in Slots /\ fd["sock"] \in Slots
        /\ fd["supervisor"] < fd["sock"] /\ fd["sock"] < fd["out_read"]
    BY <1>3 DEF IInv, Clear, HasErr, HasOut, HasSockets, Ascending
  <2> QED
    BY <1>1, <2>1 DEF Slots
<1> QED
  BY <1>2, <1>3

LEMMA ClosingType ==
  ASSUME NEW table \in [Slots -> Things], NEW numbers
  PROVE  /\ Closing(table, numbers) \in [Slots -> Things]
         /\ \A n \in Slots : Closing(table, numbers)[n] =
               IF n \in numbers THEN "closed" ELSE table[n]
BY DEF Closing, Things

(* CASE by case: what the child closes and wires in the clear cases.         *)
LEMMA ClosingInv ==
  ASSUME LastSlot \in Nat, LastSlot >= 2, IInv,
         CloseSupervisor \/ CloseSock \/ CloseReads
  PROVE  IInv'
<1>1. PICK numbers :
        /\ child' = Closing(child, numbers)
        /\ Clear => fd["out_write"] \notin numbers /\ fd["err_write"] \notin numbers
        /\ step \in {"supervisor", "reads"} \/ step = "sock"
        /\ step' = After[step]
        /\ UNCHANGED <<kind, fd, parent, limit>>
  BY ClearNumbers DEF CloseSupervisor, CloseSock, CloseReads, ChildGoesOn
<1>2. kind \in Kinds /\ child \in [Slots -> Things]
  BY DEF IInv, TypeOK
<1>3. /\ child' \in [Slots -> Things]
      /\ \A n \in Slots : child'[n] = IF n \in numbers THEN "closed" ELSE child[n]
  BY <1>1, <1>2, ClosingType
<1>4. step \in ChildSteps /\ step' \in ChildSteps \cup {"exec", "died"}
  BY <1>1, AfterIs DEF ChildSteps
<1>5. TypeOK' /\ Ascending' /\ (Clear' <=> Clear)
  BY <1>1, <1>3, <1>4, ChildFrame
<1>6. ASSUME Clear PROVE ChildInv'
  <2>1. CASE NotYetWired
    <3>1. child'[fd["out_write"]] = "out_write" /\ child'[fd["err_write"]] = "err_write"
      BY <1>1, <1>3, <1>6, <2>1, ClearNumbers DEF IInv, ChildInv
    <3>2. step' \in {"handshake", "sock", "reads", "dup_out"}
          /\ (step' \in {"handshake", "sock"} => kind = "clone_files")
      BY <1>1, <1>2, <2>1, AfterIs DEF NotYetWired, Kinds
    <3> QED
      BY <1>1, <3>1, <3>2 DEF ChildInv, NotYetWired, Scrubbed
  <2>2. CASE ~NotYetWired
    <3>1. kind = "fork" /\ step = "sock" /\ step' = "exec"
      BY <1>1, <1>2, <1>6, <2>2, AfterIs DEF NotYetWired, Clear, Kinds
    <3>2. Streams /\ \A n \in Slots : n >= 3 => child[n] = "closed"
      BY <1>6, <3>1 DEF IInv, ChildInv, Scrubbed
    <3>3. child' = Closing(child, {fd["sock"]}) /\ fd["sock"] = NoFd
      BY <3>1 DEF CloseSupervisor, CloseSock, CloseReads, ChildGoesOn, IInv, Ascending
    <3>4. \A n \in Slots : child'[n] = child[n]
      BY <3>3, <1>2, ClosingType DEF Slots, NoFd
    <3>5. 1 \in Slots /\ 2 \in Slots
      BY DEF Slots
    <3> QED
      BY <3>1, <3>2, <3>4, <3>5 DEF ChildInv, NotYetWired, Scrubbed, Streams
  <2> QED
    BY <2>1, <2>2
<1> QED
  BY <1>5, <1>6 DEF IInv, ChildInv

LEMMA HandshakeInv ==
  ASSUME LastSlot \in Nat, IInv, Handshake PROVE IInv'
<1>1. /\ step = "handshake" /\ (step' = After["handshake"] \/ step' = "died")
      /\ child' = child /\ UNCHANGED <<kind, fd, parent, limit>>
  BY DEF Handshake, ChildGoesOn
<1>2. step \in ChildSteps /\ step' \in ChildSteps \cup {"exec", "died"}
  BY <1>1, AfterIs DEF ChildSteps
<1>3. TypeOK' /\ Ascending' /\ (Clear' <=> Clear)
  BY <1>1, <1>2, ChildFrame DEF IInv, TypeOK
<1>4. ChildInv'
  BY <1>1, <1>3, AfterIs DEF IInv, TypeOK, Kinds, ChildInv, NotYetWired, Scrubbed, Streams, Clear
<1> QED
  BY <1>3, <1>4 DEF IInv

(* Wiring one stream: the step, its table and the other write end. *)
LEMMA DupInv == ASSUME LastSlot \in Nat, LastSlot >= 2, IInv, DupOut \/ DupErr PROVE IInv'
<1>1. 1 \in Slots /\ 2 \in Slots
  BY DEF Slots
<1>2. kind \in Kinds /\ child \in [Slots -> Things] /\ fd \in [Ends -> Slots \cup {NoFd}]
  BY DEF IInv, TypeOK
<1>3. /\ fd["out_write"] \in Slots /\ fd["err_write"] \in Slots
      /\ step \in {"dup_out", "dup_err"} /\ UNCHANGED <<kind, fd, parent, limit>>
  BY DEF DupOut, DupErr, Dup2, ChildGoesOn, IInv, Ascending, HasErr, HasOut
<1>4. /\ step \in ChildSteps /\ step' \in ChildSteps \cup {"died"}
      /\ step' = After[step] \/ step' = "died"
  BY <1>3, AfterIs DEF DupOut, DupErr, Dup2, ChildGoesOn, ChildSteps
<1>5. child' \in [Slots -> Things]
  BY <1>1, <1>2, <1>3 DEF DupOut, DupErr, Dup2, ChildGoesOn
<1>6. TypeOK' /\ Ascending' /\ (Clear' <=> Clear)
  BY <1>3, <1>4, <1>5, ChildFrame
<1>7. ASSUME Clear PROVE ChildInv'
  <2>1. fd["out_write"] >= 3 /\ fd["err_write"] > fd["out_write"]
    BY <1>7, ClearNumbers
  <2>2. CASE step = "dup_out"
    <3>1. child[fd["out_write"]] = "out_write" /\ child[fd["err_write"]] = "err_write"
      BY <1>7, <2>2 DEF IInv, ChildInv, NotYetWired
    <3>2. /\ step' = "dup_err"
          /\ child' = [child EXCEPT ![1] = child[fd["out_write"]]]
      BY <2>2, <3>1, AfterIs DEF DupOut, DupErr, Dup2, ChildGoesOn
    <3>3. child'[1] = "out_write" /\ child'[fd["err_write"]] = "err_write"
      BY <1>1, <1>2, <1>3, <2>1, <3>1, <3>2 DEF Slots
    <3> QED
      BY <1>3, <3>2, <3>3 DEF ChildInv, NotYetWired, Scrubbed
  <2>3. CASE step = "dup_err"
    <3>1. child[1] = "out_write" /\ child[fd["err_write"]] = "err_write"
      BY <1>7, <2>3 DEF IInv, ChildInv
    <3>2. /\ step' = "writes"
          /\ child' = [child EXCEPT ![2] = child[fd["err_write"]]]
      BY <2>3, <3>1, AfterIs DEF DupOut, DupErr, Dup2, ChildGoesOn
    <3>3. child'[1] = "out_write" /\ child'[2] = "err_write"
      BY <1>1, <1>2, <3>1, <3>2
    <3> QED
      BY <1>3, <3>2, <3>3 DEF ChildInv, NotYetWired, Scrubbed, Streams
  <2> QED
    BY <1>3, <2>2, <2>3
<1> QED
  BY <1>6, <1>7 DEF IInv, ChildInv

LEMMA CloseWritesInv ==
  ASSUME LastSlot \in Nat, LastSlot >= 2, IInv, CloseWrites \/ Scrub PROVE IInv'
<1>1. 1 \in Slots /\ 2 \in Slots /\ kind \in Kinds /\ child \in [Slots -> Things]
  BY DEF IInv, TypeOK, Slots
<1>2. PICK numbers :
        /\ child' = Closing(child, numbers)
        /\ Clear => 1 \notin numbers /\ 2 \notin numbers
        /\ step = "scrub" /\ Clear => \A n \in Slots : n >= 3 => n \in numbers
        /\ step \in {"writes", "scrub"} /\ step' = After[step]
        /\ UNCHANGED <<kind, fd, parent, limit>>
  <2>1. CASE CloseWrites
    BY <2>1, ClearNumbers DEF CloseWrites, ChildGoesOn, Slots
  <2>2. CASE Scrub
    <3> DEFINE scrubbed == IF kind = "pidfd" THEN {n \in 3..(limit - 1) : n # fd["sock"]}
                       ELSE {n \in Slots : n >= 3}
    <3>1. /\ child' = Closing(child, scrubbed)
          /\ step = "scrub" /\ step' = After[step]
          /\ UNCHANGED <<kind, fd, parent, limit>>
      BY <2>2 DEF Scrub, ChildGoesOn
    <3>2. 1 \notin scrubbed /\ 2 \notin scrubbed
      BY <1>1 DEF IInv, TypeOK
    <3>3. Clear => \A n \in Slots : n >= 3 => n \in scrubbed
      BY DEF Clear
    <3> HIDE DEF scrubbed
    <3> QED
      BY <3>1, <3>2, <3>3
  <2> QED
    BY <2>1, <2>2
<1>3. /\ child' \in [Slots -> Things]
      /\ \A n \in Slots : child'[n] = IF n \in numbers THEN "closed" ELSE child[n]
  BY <1>1, <1>2, ClosingType
<1>4. step \in ChildSteps /\ step' \in ChildSteps \cup {"exec", "died"}
  BY <1>2, AfterIs DEF ChildSteps
<1>5. TypeOK' /\ Ascending' /\ (Clear' <=> Clear)
  BY <1>2, <1>3, <1>4, ChildFrame
<1>6. ASSUME Clear PROVE ChildInv'
  <2>1. Streams
    BY <1>2, <1>6 DEF IInv, ChildInv
  <2>2. Streams'
    BY <1>1, <1>2, <1>3, <1>6, <2>1 DEF Streams
  <2>3. CASE step = "writes"
    BY <1>2, <2>2, <2>3, AfterIs DEF ChildInv, NotYetWired, Scrubbed
  <2>4. CASE step = "scrub"
    <3>1. /\ step' = "exec" \/ (kind = "fork" /\ step' = "handshake")
          /\ \A n \in Slots : n >= 3 => child'[n] = "closed"
      BY <1>1, <1>2, <1>3, <1>6, <2>4, AfterIs DEF Clear, Kinds
    <3> QED
      BY <1>2, <2>2, <3>1 DEF ChildInv, NotYetWired, Scrubbed
  <2> QED
    BY <1>2, <2>3, <2>4
<1> QED
  BY <1>5, <1>6 DEF IInv, ChildInv

LEMMA StutterInv == ASSUME IInv, UNCHANGED stdioVars PROVE IInv'
BY DEF stdioVars, IInv, TypeOK, Ascending, HasSockets, HasOut, HasErr, Free, ChildInv, Clear,
       NotYetWired, Scrubbed, Streams

(* The invariant holds of every behaviour. *)
THEOREM StdioInvariant ==
  ASSUME LastSlot \in Nat, LastSlot >= 2 PROVE Spec => []IInv
<1>1. Init => IInv
  BY InitInv
<1>2. IInv /\ [Next]_stdioVars => IInv'
  BY SocketsInv, OutPipeInv, ErrPipeInv, FailInv, LaunchInv, ClosingInv, HandshakeInv, DupInv,
     CloseWritesInv, StutterInv DEF Next
<1> QED
  BY <1>1, <1>2, PTL DEF Spec

(* With clone_files the sockets take the low numbers, and are closed before  *)
(* the pipes are wired: the program has its streams and nothing else,        *)
(* whatever the embedder had closed.                                         *)
THEOREM CloneFilesIsWired ==
  ASSUME LastSlot \in Nat, LastSlot >= 2
  PROVE  Spec => [](kind = "clone_files" => StdioIsWired)
<1>1. IInv => (kind = "clone_files" => StdioIsWired)
  <2> SUFFICES ASSUME IInv, kind = "clone_files", step = "exec" PROVE StdioIsWired
    BY DEF StdioIsWired
  <2>1. /\ fd["supervisor"] \in Slots /\ fd["sock"] \in Slots /\ fd["out_read"] \in Slots
        /\ fd["out_write"] \in Slots /\ fd["supervisor"] < fd["sock"]
        /\ fd["sock"] < fd["out_read"] /\ fd["out_read"] < fd["out_write"]
    BY DEF IInv, Ascending, HasSockets, HasOut
  <2>2. Clear
    BY <2>1 DEF Clear, HasErr, HasOut, Slots
  <2> QED
    BY <2>2 DEF IInv, ChildInv, Scrubbed, Streams, StdioIsWired
<1> QED
  BY <1>1, StdioInvariant, PTL

(* With a plain fork the same holds when the embedder has 0, 1 and 2 open:   *)
(* no pipe can take one of their numbers then.                               *)
THEOREM ForkIsWired ==
  ASSUME LastSlot \in Nat, LastSlot >= 2
  PROVE  Spec => [](kind = "fork" /\ (\A n \in 0..2 : parent[n] = "embedder") => StdioIsWired)
<1>1. IInv => (kind = "fork" /\ (\A n \in 0..2 : parent[n] = "embedder") => StdioIsWired)
  <2> SUFFICES ASSUME IInv, kind = "fork", \A n \in 0..2 : parent[n] = "embedder",
                      step = "exec"
               PROVE  StdioIsWired
    BY DEF StdioIsWired
  <2>1. fd["out_write"] \in Slots /\ parent[fd["out_write"]] = "out_write"
    BY DEF IInv, Ascending, HasOut
  <2>2. fd["out_write"] \notin 0..2
    BY <2>1
  <2>3. Clear
    BY <2>1, <2>2 DEF Clear, HasErr, HasOut, Slots
  <2> QED
    BY <2>3 DEF IInv, ChildInv, Scrubbed, Streams, StdioIsWired
<1> QED
  BY <1>1, StdioInvariant, PTL
=============================================================================
