------------------------------- MODULE AuditLog -------------------------------
(***************************************************************************)
(* The audit log of one session (audit.py): AlphaRecorder shared by the    *)
(* threads of an application, the file its records are flushed to piece by *)
(* piece, tail_session following that file while it is rotated or          *)
(* truncated, and verify_log over what is on disk.  A chain hash is the    *)
(* sequence of the events hashed so far, <<>> standing for None.  The      *)
(* application opens the file for appending, through one handle at a time. *)
(***************************************************************************)
EXTENDS Integers, Sequences, FiniteSets, Merkle

CONSTANTS
  Threads,      \* threads that share the recorder
  Events,       \* event payloads
  Size,         \* Size[e]: into how many writes the line of e can fall apart
  NoThread,     \* nobody has the lock
  None,         \* a field that is null
  MaxRecords,   \* bound on the records built
  MaxReplayed,  \* the same while no line has gone to a file
  MaxFiles,     \* bound on the files ever at the path
  MaxFailures,  \* bound on the failing flushes
  MaxTruncated, \* bound on the truncations
  MaxMishaps    \* bound on the kinds of mishap in one behaviour

ASSUME AuditAssumption ==
  /\ NoThread \notin Threads /\ None \notin Events
  /\ Size \in [Events -> Nat \ {0}]
  /\ MaxFiles \in Nat \ {0}
  /\ {MaxRecords, MaxReplayed, MaxFailures, MaxTruncated, MaxMishaps} \subseteq Nat

VARIABLES
  next_seq, prev_chain,  \* AlphaRecorder
  lock,                  \* its lock
  pc, rec,               \* where each thread is in write, and the record it built
  pending,               \* pieces in the buffer of the application's handle
  handle,                \* the file that handle is open on
  path,                  \* the file that has the name now, 0 for none
  data,                  \* data[f]: the pieces in file f
  acked,                 \* sequence numbers of the records write has returned
  mishaps,               \* history: what has happened to the log
  failures, truncated    \* history: how often

recorderVars == <<next_seq, prev_chain, lock, pc, rec>>
fileVars == <<pending, handle, path, data>>
historyVars == <<acked, mishaps, failures, truncated>>

-----------------------------------------------------------------------------
Files == 1..MaxFiles
Mishaps == {"unwritten", "lost", "rotated", "truncated", "crashed", "damaged"}

(* _hash_chain_alpha, which Leaf (_hash_event_alpha) is the other half of. *)
hash_chain(previous, leaf) == previous \o leaf

(* What _build_record_locked makes of an event, and how its line is written. *)
RecordOf(seq, chain, e) ==
  [sequence |-> seq, prev_chain |-> chain, leaf_hash |-> Leaf(e),
   chain_hash |-> hash_chain(chain, Leaf(e)), event_json |-> e, event |-> e]
Pieces(r) == [k \in 1..Size[r.event] |-> [rec |-> r, part |-> k, newline |-> k = Size[r.event]]]

(* The lines of a text, and what follows its last newline. *)
Split(text) ==
  LET upTo[i \in 0..Len(text)] ==
        IF i = 0 THEN [lines |-> <<>>, rest |-> <<>>]
        ELSE LET before == upTo[i - 1]
                 line == Append(before.rest, text[i])
             IN  IF text[i].newline
                 THEN [lines |-> Append(before.lines, line), rest |-> <<>>]
                 ELSE [before EXCEPT !.rest = line]
  IN  upTo[Len(text)]

(* json.loads takes a line that is all of one record. *)
Parses(line) ==
  /\ \A k \in DOMAIN line : line[k].rec = line[1].rec /\ line[k].part = k
  /\ line[Len(line)].newline

-----------------------------------------------------------------------------
Init ==
  /\ next_seq = 0 /\ prev_chain = <<>> /\ lock = NoThread
  /\ pc = [t \in Threads |-> "idle"]
  /\ rec = [t \in Threads |-> None]
  /\ pending = <<>> /\ handle = 1 /\ path = 1
  /\ data = [f \in Files |-> <<>>]
  /\ acked = {} /\ mishaps = {} /\ failures = 0 /\ truncated = 0

Alive == "crashed" \notin mishaps
LockIsFree_Ignored(t) == pc[t] = "idle"
LockIsFree(t) == lock = NoThread

Happens(mishap) ==
  /\ mishaps' = mishaps \cup {mishap}
  /\ Cardinality(mishaps') <= MaxMishaps

BuildRecord(e, bound) ==
  /\ next_seq < bound
  /\ next_seq' = next_seq + 1
  /\ prev_chain' = hash_chain(prev_chain, Leaf(e))

(* write: the lock is taken and the chain moves on before the file is touched. *)
Build(t, e) ==
  /\ Alive /\ pc[t] = "idle" /\ LockIsFree(t)
  /\ BuildRecord(e, MaxRecords)
  /\ rec' = [rec EXCEPT ![t] = RecordOf(next_seq, prev_chain, e)]
  /\ lock' = t /\ pc' = [pc EXCEPT ![t] = "write"]
  /\ UNCHANGED <<fileVars, historyVars>>

(* record: the record goes to the caller, who does not write it. *)
RecordOnly(t, e) ==
  /\ Alive /\ pc[t] = "idle" /\ LockIsFree(t)
  /\ BuildRecord(e, IF pending = <<>> /\ \A f \in Files : data[f] = <<>> THEN MaxReplayed
                    ELSE MaxRecords)
  /\ Happens("unwritten")
  /\ UNCHANGED <<lock, pc, rec, fileVars, acked, failures, truncated>>

(* fh.write puts the line into the buffer of the handle. *)
WriteLine(t) ==
  /\ Alive /\ pc[t] = "write"
  /\ pending' = pending \o Pieces(rec[t])
  /\ pc' = [pc EXCEPT ![t] = "flush"]
  /\ UNCHANGED <<next_seq, prev_chain, lock, rec, handle, path, data, historyVars>>

(* fh.flush: a reader may see the file between two pieces. *)
FlushPiece(t) ==
  /\ Alive /\ pc[t] = "flush" /\ pending # <<>>
  /\ data' = [data EXCEPT ![handle] = Append(@, Head(pending))]
  /\ pending' = Tail(pending)
  /\ UNCHANGED <<recorderVars, handle, path, historyVars>>

Unlock(t) ==
  /\ lock' = NoThread
  /\ pc' = [pc EXCEPT ![t] = "idle"]
  /\ rec' = [rec EXCEPT ![t] = None]

FlushEnds(t) ==
  /\ Alive /\ pc[t] = "flush" /\ pending = <<>>
  /\ acked' = acked \cup {rec[t].sequence}
  /\ Unlock(t)
  /\ UNCHANGED <<next_seq, prev_chain, fileVars, mishaps, failures, truncated>>

(* The flush raises: what is left stays in the buffer, the chain stays ahead. *)
FlushFails(t) ==
  /\ Alive /\ pc[t] = "flush" /\ pending # <<>> /\ failures < MaxFailures
  /\ failures' = failures + 1
  /\ Unlock(t)
  /\ UNCHANGED <<next_seq, prev_chain, fileVars, acked, mishaps, truncated>>

(* Between writes the application closes its handle, which flushes what it    *)
(* can, and opens the path for appending.                                     *)
Reopen ==
  /\ Alive /\ lock = NoThread /\ (path # handle \/ pending # <<>>)
  /\ LET target == IF path # 0 THEN path ELSE handle + 1
     IN  /\ target \in Files
         /\ path' = target /\ handle' = target
  /\ \/ /\ data' = [data EXCEPT ![handle] = @ \o pending]
        /\ UNCHANGED mishaps
     \/ /\ pending # <<>>
        /\ Happens("lost")
        /\ UNCHANGED data
  /\ pending' = <<>>
  /\ UNCHANGED <<recorderVars, acked, failures, truncated>>

(* Log rotation: the file is renamed, or copied and truncated. *)
Rotate ==
  /\ path # 0 /\ path < MaxFiles
  /\ path' = 0
  /\ Happens("rotated")
  /\ UNCHANGED <<recorderVars, pending, handle, data, acked, failures, truncated>>

Truncate ==
  /\ path # 0 /\ data[path] # <<>> /\ truncated < MaxTruncated
  /\ data' = [data EXCEPT ![path] = <<>>]
  /\ truncated' = truncated + 1
  /\ Happens("truncated")
  /\ UNCHANGED <<recorderVars, pending, handle, path, acked, failures>>

(* The application dies, and with it its buffer and its recorder. *)
Crash ==
  /\ Alive
  /\ pending' = <<>>
  /\ Happens("crashed")
  /\ UNCHANGED <<recorderVars, handle, path, data, acked, failures, truncated>>

WriterNext ==
  \/ \E t \in Threads :
       \/ \E e \in Events : Build(t, e) \/ RecordOnly(t, e)
       \/ WriteLine(t) \/ FlushPiece(t) \/ FlushEnds(t) \/ FlushFails(t)
  \/ Reopen \/ Rotate \/ Truncate \/ Crash

-----------------------------------------------------------------------------
(* verify_log: what one line must be, after a chain that ended in previous. *)
RecordVerifies_TrustsLeaf(r, seq, previous) ==
  /\ r.sequence = seq /\ r.prev_chain = previous
  /\ r.event_json # None => r.event_json = r.event
  /\ r.chain_hash = hash_chain(previous, r.leaf_hash)
RecordVerifies(r, seq, previous) ==
  /\ r.sequence = seq /\ r.prev_chain = previous
  /\ r.event_json # None => r.event_json = r.event
  /\ r.leaf_hash = Leaf(r.event)
  /\ r.chain_hash = hash_chain(previous, r.leaf_hash)

(* The lines of a file, a last one without its newline included. *)
LinesOf(text) ==
  LET split == Split(text) IN IF split.rest = <<>> THEN split.lines ELSE Append(split.lines, split.rest)
RecordsOf(text) == LET lines == LinesOf(text) IN [k \in DOMAIN lines |-> lines[k][1].rec]

(* None of its errors is raised; stored holds the summary, if there is one. *)
LogVerifies(text, stored) ==
  LET lines == LinesOf(text)
      records == RecordsOf(text)
      head == IF records = <<>> THEN <<>> ELSE records[Len(records)].chain_hash
      leaves == [k \in DOMAIN records |-> records[k].leaf_hash]
  IN  /\ \A k \in DOMAIN records :
           /\ Parses(lines[k])
           /\ RecordVerifies(records[k], k - 1, IF k = 1 THEN <<>> ELSE records[k - 1].chain_hash)
      /\ \A s \in stored :
           /\ \A k \in DOMAIN records : records[k].event_json # None
           /\ s.chain_head # <<>> => s.chain_head = head
           /\ s.merkle_root # <<>> => s.merkle_root = merkle_root(leaves)

(* The one disagreement that is only reported. *)
event_count_matches(text, stored) == stored.event_count = Len(RecordsOf(text))
=============================================================================
