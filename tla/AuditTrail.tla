------------------------------ MODULE AuditTrail ------------------------------
(***************************************************************************)
(* Everybody at one audit log: the writers and the rotation of AuditLog,   *)
(* a tail_session that follows it, the application reading a summary off   *)
(* its recorder, and what may happen to the file at rest.  A tail only     *)
(* reads, so a behaviour has either a tail or a verification, which keeps  *)
(* the two from multiplying each other's states.                           *)
(***************************************************************************)
EXTENDS AuditLog

VARIABLES
  tail,           \* where tail_session is, "off" when nobody follows the log
  tfile, tpos,    \* the file it has open and the pieces it has read of it
  buf,            \* what it has read after the last newline
  yielded,        \* the records it has yielded
  summary         \* the stored integrity summary

tailVars == <<tail, tfile, tpos, buf, yielded>>
logVars == <<recorderVars, fileVars, historyVars>>
trailVars == <<logVars, tailVars, summary>>

NoSummary == [event_count |-> None, chain_head |-> None, merkle_root |-> None]

TrailInit ==
  /\ Init
  /\ tail \in {"wait", "off"} /\ tfile = 0 /\ tpos = 0 /\ buf = <<>> /\ yielded = <<>>
  /\ summary = NoSummary

-----------------------------------------------------------------------------
(* path.exists, and then path.open: the file may be gone by then. *)
TailFinds ==
  /\ tail = "wait" /\ path # 0
  /\ tail' = "open"
  /\ UNCHANGED <<tfile, tpos, buf, yielded>>

TailOpens_KeepsBuffer ==
  /\ tail = "open" /\ path # 0
  /\ tail' = "read" /\ tfile' = path /\ tpos' = 0
  /\ UNCHANGED <<buf, yielded>>
TailOpens ==
  /\ tail = "open" /\ path # 0
  /\ tail' = "read" /\ tfile' = path /\ tpos' = 0 /\ buf' = <<>>
  /\ UNCHANGED yielded

TailFindsNothing ==
  /\ tail = "open" /\ path = 0
  /\ tail' = "raised"
  /\ UNCHANGED <<tfile, tpos, buf, yielded>>

(* A chunk: its lines are yielded one by one, up to one that is no JSON. *)
TailReads ==
  /\ tail = "read" /\ tpos < Len(data[tfile])
  /\ LET split == Split(buf \o SubSeq(data[tfile], tpos + 1, Len(data[tfile])))
         good == {n \in 0..Len(split.lines) : \A k \in 1..n : Parses(split.lines[k])}
         whole == CHOOSE n \in good : \A m \in good : m <= n
     IN  /\ yielded' = yielded \o [k \in 1..whole |-> split.lines[k][1].rec]
         /\ tail' = (IF whole = Len(split.lines) THEN "read" ELSE "garbled")
         /\ buf' = split.rest
  /\ tpos' = Len(data[tfile])
  /\ UNCHANGED tfile

(* At the end of the file, or past it after a truncation, it sleeps. *)
TailSleeps ==
  /\ tail = "read" /\ tpos >= Len(data[tfile])
  /\ tail' = "sleep"
  /\ UNCHANGED <<tfile, tpos, buf, yielded>>

(* path.stat after the sleep: another inode, or a size below the position. *)
Rotated == path # tfile \/ tpos > Len(data[path])
TailStats ==
  /\ tail = "sleep"
  /\ tail' = (IF path # 0 /\ Rotated THEN "open" ELSE "read")
  /\ UNCHANGED <<tfile, tpos, buf, yielded>>

TailStops ==
  /\ tail \in {"wait", "read", "sleep"}
  /\ tail' = "stopped"
  /\ UNCHANGED <<tfile, tpos, buf, yielded>>

TailNext ==
  \/ TailFinds \/ TailOpens \/ TailFindsNothing \/ TailReads
  \/ TailSleeps \/ TailStats \/ TailStops

-----------------------------------------------------------------------------
(* The application reads count and head off the recorder, each under the lock, *)
(* and takes the root over the leaves up to that head.                         *)
ReadSequence ==
  /\ tail = "off" /\ lock = NoThread /\ summary = NoSummary
  /\ summary' = [summary EXCEPT !.event_count = next_seq]

LeavesOf(chain) == [k \in DOMAIN chain |-> Leaf(chain[k])]

ReadChainHead ==
  /\ lock = NoThread /\ summary.event_count # None /\ summary.chain_head = None
  /\ summary' = [summary EXCEPT !.chain_head = prev_chain,
                   !.merkle_root = merkle_root(LeavesOf(prev_chain))]

(* Damage to the file at rest: pieces lost or doubled, an event altered with  *)
(* or without its canonical JSON.                                             *)
Altered(text, k, e, json) ==
  [i \in DOMAIN text |->
     IF text[i].rec.sequence = k THEN [text[i] EXCEPT !.rec.event = e, !.rec.event_json = json]
     ELSE text[i]]

Cut(text, i, j) == SubSeq(text, 1, i) \o SubSeq(text, j, Len(text))

Damage ==
  /\ tail = "off" /\ path # 0 /\ lock = NoThread /\ "damaged" \notin mishaps
  /\ LET old == data[path]
         Becomes(text) == data' = [data EXCEPT ![path] = text]
     IN  \/ \E i \in 0..Len(old), j \in 1..(Len(old) + 1) : Becomes(Cut(old, i, j))
         \/ \E k \in 0..(next_seq - 1), e \in Events, json \in Events \cup {None} :
              Becomes(Altered(old, k, e, json))
  /\ Happens("damaged")
  /\ UNCHANGED <<recorderVars, pending, handle, path, acked, failures, truncated>>

TrailNext ==
  \/ /\ "damaged" \notin mishaps
     /\ WriterNext
     /\ UNCHANGED <<tailVars, summary>>
  \/ /\ "damaged" \notin mishaps
     /\ TailNext
     /\ UNCHANGED <<logVars, summary>>
  \/ /\ ReadSequence \/ ReadChainHead
     /\ UNCHANGED <<logVars, tailVars>>
  \/ /\ Damage
     /\ UNCHANGED <<tailVars, summary>>

Spec == TrailInit /\ [][TrailNext]_trailVars

-----------------------------------------------------------------------------
(* "serialises record() / write()": whatever the threads and failing flushes *)
(* do, as long as the buffer of the handle is not lost and every record is   *)
(* written, the file verifies at every line end and holds all that write     *)
(* has returned (AlphaRecorder.write against verify_log).                    *)
KeptHandleVerifies ==
  path # 0 /\ mishaps \subseteq {"crashed"} /\ Split(data[path]).rest = <<>> =>
    /\ LogVerifies(data[path], {})
    /\ \A n \in acked : \E k \in DOMAIN data[path] : data[path][k].rec.sequence = n

(* A file that verifies against a summary of its recorder with the counts    *)
(* agreeing holds exactly the events recorded up to the summary, whatever    *)
(* was lost, doubled, glued or altered (verify_log).                         *)
VerifiedIsTheSession ==
  path # 0 /\ summary.chain_head # None =>
    LET records == RecordsOf(data[path])
    IN  LogVerifies(data[path], {summary}) /\ event_count_matches(data[path], summary) =>
          [k \in DOMAIN records |-> records[k].event] = SubSeq(prev_chain, 1, summary.event_count)

(* A tail yields records of the log in their order and none twice through    *)
(* every rotation and truncation, and while there is no truncation and no    *)
(* buffer is lost it meets only whole records, and has yielded all there are *)
(* in what it has read of the file (tail_session).                           *)
TailIsFaithful ==
  /\ \A i, j \in DOMAIN yielded : i < j => yielded[i].sequence < yielded[j].sequence
  /\ mishaps \cap {"truncated", "lost"} = {} =>
       /\ tail # "garbled"
       /\ tfile # 0 =>
            \A i \in 1..tpos : data[tfile][i].newline =>
              \E k \in DOMAIN yielded : yielded[k] = data[tfile][i].rec

(* Against the root of a stored summary the inclusion proof of a leaf         *)
(* verifies for that leaf and at that index only, whatever the number of     *)
(* leaves (build_inclusion_proof, verify_inclusion_proof).                   *)
ProofsAreExact ==
  summary.chain_head \notin {None, <<>>} =>
    LET leaves == LeavesOf(summary.chain_head)
        Indices == 0..(Len(leaves) - 1)
    IN  \A i \in Indices :
          LET proof == build_inclusion_proof(leaves, i)
          IN  \A j \in Indices, e \in Events :
                verify_inclusion_proof([proof EXCEPT !.leaf_index = j, !.leaf_hash = Leaf(e)],
                                       summary.merkle_root)
                  <=> i = j /\ Leaf(e) = leaves[i + 1]
=============================================================================
