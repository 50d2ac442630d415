--------------------------- MODULE AuditTrailProofs ---------------------------
(***************************************************************************)
(* What holds of an audit log, whatever the threads, the events, the way   *)
(* their lines fall apart and the bounds.                                  *)
(***************************************************************************)
EXTENDS AuditTrail, SequenceTheorems, InductionLemmas

-----------------------------------------------------------------------------
(* Types. *)
AllRecords ==
  [sequence : Nat, prev_chain : Seq(Events), leaf_hash : Seq(Events), chain_hash : Seq(Events),
   event_json : Events \cup {None}, event : Events]
Piece == [rec : AllRecords, part : Nat \ {0}, newline : BOOLEAN]

RecorderTypes ==
  /\ next_seq \in Nat /\ prev_chain \in Seq(Events) /\ Len(prev_chain) = next_seq
  /\ pc \in [Threads -> {"idle", "write", "flush"}]
  /\ rec \in [Threads -> AllRecords \cup {None}]
  /\ \A t \in Threads : pc[t] # "idle" => rec[t] \in AllRecords
FileTypes ==
  /\ pending \in Seq(Piece) /\ data \in [Files -> Seq(Piece)]
  /\ handle \in Files /\ path \in {0, handle}
LockInv == \A t \in Threads : lock = t <=> pc[t] # "idle"
TypeInv == RecorderTypes /\ FileTypes /\ LockInv

(* A new record and the chain it extends. *)
LEMMA RecordOfType ==
  ASSUME NEW seq \in Nat, NEW chain \in Seq(Events), NEW e \in Events
  PROVE  /\ RecordOf(seq, chain, e) \in AllRecords
         /\ hash_chain(chain, Leaf(e)) \in Seq(Events)
         /\ Len(hash_chain(chain, Leaf(e))) = Len(chain) + 1
<1>1. /\ hash_chain(chain, Leaf(e)) \in Seq(Events)
      /\ Len(hash_chain(chain, Leaf(e))) = Len(chain) + 1
      /\ Leaf(e) \in Seq(Events)
  BY DEF hash_chain, Leaf
<1> QED
  BY <1>1 DEF RecordOf, AllRecords

(* A line falls into as many pieces as its event has. *)
LEMMA PiecesType ==
  ASSUME NEW r \in AllRecords
  PROVE  /\ Pieces(r) \in Seq(Piece) /\ Len(Pieces(r)) = Size[r.event] /\ Size[r.event] \in Nat \ {0}
         /\ \A k \in 1..Size[r.event] :
              Pieces(r)[k] = [rec |-> r, part |-> k, newline |-> k = Size[r.event]]
<1>1. r.event \in Events
  BY DEF AllRecords
<1>2. Size[r.event] \in Nat \ {0}
  BY <1>1, AuditAssumption
<1>3. \A k \in 1..Size[r.event] : [rec |-> r, part |-> k, newline |-> k = Size[r.event]] \in Piece
  BY <1>2 DEF Piece
<1> QED
  BY <1>2, <1>3 DEF Pieces

(* Altering the event of a record leaves a text. *)
LEMMA AlteredType ==
  ASSUME NEW text \in Seq(Piece), NEW k, NEW e \in Events, NEW json \in Events \cup {None}
  PROVE  Altered(text, k, e, json) \in Seq(Piece)
<1>1. ASSUME NEW p \in Piece PROVE [p EXCEPT !.rec.event = e, !.rec.event_json = json] \in Piece
  BY DEF Piece, AllRecords
<1>2. \A i \in DOMAIN text : text[i] \in Piece
  OBVIOUS
<1>3. \A i \in DOMAIN text : Altered(text, k, e, json)[i] \in Piece
  BY <1>1, <1>2 DEF Altered
<1>4. DOMAIN text = 1..Len(text)
  OBVIOUS
<1>5. Altered(text, k, e, json) \in [1..Len(text) -> Piece]
  BY <1>3, <1>4 DEF Altered
<1> QED
  BY <1>5, SeqDef

(* Cutting pieces out of a text, or doubling some, leaves a text. *)
LEMMA CutType ==
  ASSUME NEW text \in Seq(Piece), NEW i \in 0..Len(text), NEW j \in 1..(Len(text) + 1)
  PROVE  Cut(text, i, j) \in Seq(Piece)
<1>1. SubSeq(text, 1, i) \in Seq(Piece) /\ SubSeq(text, j, Len(text)) \in Seq(Piece)
  OBVIOUS
<1> QED BY <1>1 DEF Cut

(* Types: the initial states. *)
LEMMA TypesAtStart == TrailInit => TypeInv
<1> SUFFICES ASSUME TrailInit PROVE TypeInv
  OBVIOUS
<1>1. 1 \in Files
  BY AuditAssumption DEF Files
<1>2. NoThread \notin Threads
  BY AuditAssumption
<1> QED
  BY <1>1, <1>2 DEF TrailInit, Init, TypeInv, RecorderTypes, FileTypes, LockInv

(* Types: every step, with the lock held by the one thread that writes. *)
LEMMA TypesKept == TypeInv /\ [TrailNext]_trailVars => TypeInv'
<1> SUFFICES ASSUME TypeInv, [TrailNext]_trailVars PROVE TypeInv'
  OBVIOUS
<1> USE DEF TypeInv
<1>0. NoThread \notin Threads
  BY AuditAssumption
<1>1. ASSUME NEW t \in Threads, NEW e \in Events, Build(t, e) PROVE TypeInv'
  <2>1. RecordOf(next_seq, prev_chain, e) \in AllRecords
    BY RecordOfType DEF RecorderTypes
  <2>2. RecorderTypes'
    <3>1. /\ next_seq' \in Nat /\ prev_chain' \in Seq(Events) /\ Len(prev_chain') = next_seq'
      BY <1>1, RecordOfType DEF RecorderTypes, Build, BuildRecord
    <3> QED BY <1>1, <2>1, <3>1 DEF RecorderTypes, Build
  <2>3. FileTypes'
    BY <1>1 DEF FileTypes, Build, fileVars
  <2>4. LockInv'
    BY <1>0, <1>1 DEF LockInv, Build, LockIsFree, RecorderTypes
  <2> QED BY <2>2, <2>3, <2>4
<1>2. ASSUME NEW t \in Threads, NEW e \in Events, RecordOnly(t, e) PROVE TypeInv'
  <2>1. RecorderTypes'
    <3>1. /\ next_seq' \in Nat /\ prev_chain' \in Seq(Events) /\ Len(prev_chain') = next_seq'
      BY <1>2, RecordOfType DEF RecorderTypes, RecordOnly, BuildRecord
    <3> QED BY <1>2, <3>1 DEF RecorderTypes, RecordOnly
  <2> QED BY <1>2, <2>1 DEF FileTypes, LockInv, RecordOnly, fileVars
<1>3. ASSUME NEW t \in Threads, WriteLine(t) PROVE TypeInv'
  <2>1. Pieces(rec[t]) \in Seq(Piece)
    BY <1>3, PiecesType DEF WriteLine, RecorderTypes
  <2>2. FileTypes'
    BY <1>3, <2>1 DEF WriteLine, FileTypes
  <2>3. RecorderTypes'
    BY <1>3 DEF WriteLine, RecorderTypes
  <2>4. LockInv'
    BY <1>3 DEF WriteLine, LockInv, RecorderTypes
  <2> QED BY <2>2, <2>3, <2>4
<1>4. ASSUME NEW t \in Threads, FlushPiece(t) PROVE TypeInv'
  <2>1. Head(pending) \in Piece /\ Tail(pending) \in Seq(Piece)
    BY <1>4 DEF FlushPiece, FileTypes
  <2>2. FileTypes'
    BY <1>4, <2>1 DEF FlushPiece, FileTypes
  <2> QED BY <1>4, <2>2 DEF FlushPiece, RecorderTypes, LockInv, recorderVars
<1>5. ASSUME NEW t \in Threads, FlushEnds(t) \/ FlushFails(t) PROVE TypeInv'
  <2>1. Unlock(t) /\ UNCHANGED <<next_seq, prev_chain, pending, handle, path, data>>
    BY <1>5 DEF FlushEnds, FlushFails, fileVars
  <2>2. lock = t
    BY <1>5 DEF FlushEnds, FlushFails, LockInv
  <2>3. RecorderTypes'
    BY <2>1 DEF Unlock, RecorderTypes
  <2>4. LockInv'
    BY <1>0, <2>1, <2>2 DEF Unlock, LockInv, RecorderTypes
  <2> QED BY <2>1, <2>3, <2>4 DEF FileTypes
<1>6. ASSUME Reopen PROVE TypeInv'
  <2>1. path' \in Files /\ handle' = path'
    BY <1>6 DEF Reopen
  <2>2. data' \in [Files -> Seq(Piece)]
    <3>1. CASE data' = [data EXCEPT ![handle] = @ \o pending]
      BY <3>1 DEF FileTypes
    <3>2. CASE UNCHANGED data
      BY <3>2 DEF FileTypes
    <3> QED BY <1>6, <3>1, <3>2 DEF Reopen
  <2>3. FileTypes'
    BY <1>6, <2>1, <2>2 DEF Reopen, FileTypes
  <2> QED BY <1>6, <2>3 DEF Reopen, RecorderTypes, LockInv, recorderVars
<1>7. ASSUME Rotate \/ Truncate \/ Crash PROVE TypeInv'
  <2>1. CASE Rotate
    BY <2>1 DEF Rotate, RecorderTypes, FileTypes, LockInv, recorderVars
  <2>2. CASE Truncate
    <3>1. data' \in [Files -> Seq(Piece)]
      BY <2>2 DEF Truncate, FileTypes
    <3> QED BY <2>2, <3>1 DEF Truncate, RecorderTypes, FileTypes, LockInv, recorderVars
  <2>3. CASE Crash
    BY <2>3 DEF Crash, RecorderTypes, FileTypes, LockInv, recorderVars
  <2> QED BY <1>7, <2>1, <2>2, <2>3
<1>8. ASSUME Damage PROVE TypeInv'
  <2>1. data[path] \in Seq(Piece) /\ path \in Files
    BY <1>8 DEF Damage, FileTypes
  <2>2. \E text \in Seq(Piece) : data' = [data EXCEPT ![path] = text]
    BY <1>8, <2>1, CutType, AlteredType DEF Damage
  <2>3. FileTypes'
    BY <1>8, <2>1, <2>2 DEF FileTypes, Damage
  <2> QED BY <1>8, <2>3 DEF Damage, RecorderTypes, LockInv, recorderVars
<1>9. ASSUME UNCHANGED logVars PROVE TypeInv'
  BY <1>9 DEF logVars, recorderVars, fileVars, RecorderTypes, FileTypes, LockInv
<1> QED
  BY <1>1, <1>2, <1>3, <1>4, <1>5, <1>6, <1>7, <1>8, <1>9 DEF TrailNext, WriterNext, trailVars

-----------------------------------------------------------------------------
(* Split, unfolded: the lines and the rest of the first i pieces, by         *)
(* recursion over i.                                                         *)
NoLines == [lines |-> <<>>, rest |-> <<>>]
LineStep(before, piece) ==
  IF piece.newline THEN [lines |-> Append(before.lines, Append(before.rest, piece)), rest |-> <<>>]
  ELSE [before EXCEPT !.rest = Append(before.rest, piece)]
UpTo(text) ==
  CHOOSE upTo : upTo = [i \in 0..Len(text) |->
                          IF i = 0 THEN NoLines ELSE LineStep(upTo[i - 1], text[i])]
Parted == [lines : Seq(Seq(Piece)), rest : Seq(Piece)]

(* Split is the last value of its recursive function. *)
LEMMA SplitUnfolded == \A text : Split(text) = UpTo(text)[Len(text)]
BY DEF Split, UpTo, LineStep, NoLines

(* The recursive function of Split satisfies its equations. *)
LEMMA UpToDefined ==
  ASSUME NEW text \in Seq(Piece)
  PROVE  /\ UpTo(text) \in [0..Len(text) -> Parted]
         /\ UpTo(text)[0] = NoLines
         /\ \A i \in 1..Len(text) : UpTo(text)[i] = LineStep(UpTo(text)[i - 1], text[i])
<1> DEFINE n == Len(text)
           step == [i \in 1..n |-> [u \in Parted |-> LineStep(u, text[i])]]
<1>1. n \in Nat /\ NoLines \in Parted
  BY DEF NoLines, Parted
<1>2. ASSUME NEW u \in Parted, NEW i \in 1..n PROVE LineStep(u, text[i]) \in Parted
  <2>1. text[i] \in Piece
    OBVIOUS
  <2>2. Append(u.rest, text[i]) \in Seq(Piece)
    BY <2>1 DEF Parted
  <2>3. Append(u.lines, Append(u.rest, text[i])) \in Seq(Seq(Piece))
    BY <2>2 DEF Parted
  <2>4. CASE text[i].newline
    BY <2>3, <2>4 DEF LineStep, Parted
  <2>5. CASE ~text[i].newline
    BY <2>2, <2>5 DEF LineStep, Parted
  <2> QED BY <2>4, <2>5
<1>3. step \in [1..n -> [Parted -> Parted]]
  BY <1>2
<1>4. PICK f : Recurs(f, n, Parted, NoLines, step)
  <2> HIDE DEF n, step
  <2> QED BY <1>1, <1>3, Recursion
<1>5. f \in [0..n -> Parted] /\ f[0] = NoLines /\ \A i \in 1..n : f[i] = LineStep(f[i - 1], text[i])
  <2>1. f \in [0..n -> Parted] /\ f[0] = NoLines /\ \A i \in 1..n : f[i] = step[i][f[i - 1]]
    <3> HIDE DEF n, step
    <3> QED BY <1>4 DEF Recurs
  <2>2. ASSUME NEW i \in 1..n PROVE f[i] = LineStep(f[i - 1], text[i])
    <3>1. f[i - 1] \in Parted
      BY <1>1, <2>1
    <3> QED BY <2>1, <3>1
  <2> QED BY <2>1, <2>2
<1>6. f = [i \in 0..n |-> IF i = 0 THEN NoLines ELSE LineStep(f[i - 1], text[i])]
  BY <1>5
<1>7. UpTo(text) = [i \in 0..n |-> IF i = 0 THEN NoLines ELSE LineStep(UpTo(text)[i - 1], text[i])]
  BY <1>6, Zenon DEF UpTo
<1>8. UpTo(text)[0] = NoLines
  BY <1>1, <1>7
<1>9. \A i \in 1..n : UpTo(text)[i] = LineStep(UpTo(text)[i - 1], text[i])
  BY <1>1, <1>7
<1>10. 0..n \subseteq {i \in 0..n : UpTo(text)[i] \in Parted}
  <2> DEFINE S == {i \in 0..n : UpTo(text)[i] \in Parted}
  <2>1. 0 \in S
    BY <1>1, <1>8
  <2>2. \A k \in 0..(n - 1) : k \in S => k + 1 \in S
    <3> TAKE k \in 0..(n - 1)
    <3> HAVE k \in S
    <3>1. k + 1 \in 1..n /\ (k + 1) - 1 = k
      OBVIOUS
    <3>2. UpTo(text)[k + 1] = LineStep(UpTo(text)[k], text[k + 1])
      BY <1>9, <3>1
    <3> QED BY <1>2, <3>1, <3>2
  <2> HIDE DEF S
  <2>3. 0..n \subseteq S
    BY <1>1, <2>1, <2>2, InductionUpTo
  <2> QED BY <2>3 DEF S
<1>11. UpTo(text) \in [0..n -> Parted]
  BY <1>7, <1>10
<1> QED BY <1>8, <1>9, <1>11

(* Splitting gives lines and a rest. *)
LEMMA SplitType ==
  ASSUME NEW text \in Seq(Piece)
  PROVE  Split(text) \in Parted
BY SplitUnfolded, UpToDefined

(* What a text is cut into: e[k] is where its k-th line ends. *)
Ends(text, i, u, e) ==
  /\ e \in [0..Len(u.lines) -> 0..i] /\ e[0] = 0
  /\ \A k \in 1..Len(u.lines) :
       /\ e[k - 1] < e[k]
       /\ u.lines[k] = SubSeq(text, e[k - 1] + 1, e[k])
       /\ text[e[k]].newline
       /\ \A j \in (e[k - 1] + 1)..(e[k] - 1) : ~text[j].newline
  /\ u.rest = SubSeq(text, e[Len(u.lines)] + 1, i)
  /\ \A j \in (e[Len(u.lines)] + 1)..i : ~text[j].newline
  /\ \A j \in 1..i : text[j].newline => \E k \in 1..Len(u.lines) : e[k] = j

(* One more piece extends the ends of the lines or the rest. *)
LEMMA EndsStep ==
  ASSUME NEW text \in Seq(Piece), NEW i \in 0..(Len(text) - 1), NEW u \in Parted, NEW e,
         Ends(text, i, u, e)
  PROVE  \E f : Ends(text, i + 1, LineStep(u, text[i + 1]), f)
<1> DEFINE n == Len(u.lines)
           v == LineStep(u, text[i + 1])
           line == Append(u.rest, text[i + 1])
<1>1. n \in Nat /\ e \in [0..n -> 0..i] /\ e[n] \in 0..i /\ text[i + 1] \in Piece
  <2>1. n \in Nat
    BY DEF Parted
  <2>2. e \in [0..n -> 0..i]
    BY DEF Ends
  <2> QED BY <2>1, <2>2
<1>2. line = SubSeq(text, e[n] + 1, i + 1)
  <2>1. u.rest = SubSeq(text, e[n] + 1, i)
    BY DEF Ends
  <2>2. SubSeq(text, e[n] + 1, i + 1) = Append(SubSeq(text, e[n] + 1, i), text[i + 1])
    <3>1. e[n] + 1 \in 1..Len(text) /\ i + 1 \in (e[n] + 1)..Len(text) /\ (i + 1) - 1 = i
      BY <1>1
    <3>2. SubSeq(text, e[n] + 1, i + 1) = SubSeq(text, e[n] + 1, i) \o <<text[i + 1]>>
      BY <3>1, SubSeqRecursiveSecond
    <3>3. SubSeq(text, e[n] + 1, i) \in Seq(Piece)
      BY <1>1
    <3> QED BY <1>1, <3>2, <3>3, AppendIsConcat
  <2> QED BY <2>1, <2>2
<1>3. CASE text[i + 1].newline
  <2> DEFINE f == [k \in 0..(n + 1) |-> IF k = n + 1 THEN i + 1 ELSE e[k]]
  <2>1. v.lines = Append(u.lines, line) /\ v.rest = <<>>
    BY <1>3 DEF LineStep
  <2>2. /\ Len(v.lines) = n + 1 /\ v.lines[n + 1] = line
        /\ \A k \in 1..n : v.lines[k] = u.lines[k]
    BY <2>1 DEF Parted
  <2>3. f \in [0..Len(v.lines) -> 0..(i + 1)] /\ f[0] = 0
    <3>1. e[0] = 0
      BY DEF Ends
    <3> QED BY <1>1, <2>2, <3>1
  <2>4. ASSUME NEW k \in 1..(n + 1)
        PROVE  /\ f[k - 1] < f[k]
               /\ v.lines[k] = SubSeq(text, f[k - 1] + 1, f[k])
               /\ text[f[k]].newline
               /\ \A j \in (f[k - 1] + 1)..(f[k] - 1) : ~text[j].newline
    <3>1. CASE k = n + 1
      <4>1. f[k] = i + 1 /\ f[k - 1] = e[n]
        BY <1>1, <3>1
      <4>2. \A j \in (e[n] + 1)..i : ~text[j].newline
        BY DEF Ends
      <4>3. (e[n] + 1)..((i + 1) - 1) = (e[n] + 1)..i
        BY <1>1
      <4>4. f[k - 1] < f[k] /\ v.lines[k] = line /\ text[f[k]].newline
        BY <1>1, <1>3, <2>2, <3>1, <4>1
      <4> HIDE DEF f, v, line
      <4> QED BY <1>2, <4>1, <4>2, <4>3, <4>4
    <3>2. CASE k # n + 1
      <4>1. k \in 1..n /\ f[k] = e[k] /\ f[k - 1] = e[k - 1]
        BY <1>1, <3>2
      <4> QED BY ZenonT(40), <2>2, <4>1 DEF Ends
    <3> QED BY <3>1, <3>2
  <2>5. v.rest = SubSeq(text, f[Len(v.lines)] + 1, i + 1)
    BY <1>1, <2>1, <2>2
  <2>6. \A j \in 1..(i + 1) : text[j].newline => \E k \in 1..(n + 1) : f[k] = j
    <3> TAKE j \in 1..(i + 1)
    <3> HAVE text[j].newline
    <3>1. CASE j = i + 1
      <4>1. n + 1 \in 1..(n + 1) /\ f[n + 1] = i + 1
        BY <1>1
      <4> QED BY <3>1, <4>1
    <3>2. CASE j # i + 1
      <4>1. j \in 1..i
        BY <3>2
      <4>2. PICK k \in 1..n : e[k] = j
        BY <4>1 DEF Ends
      <4> QED BY <1>1, <4>2
    <3> QED BY <3>1, <3>2
  <2>7. Ends(text, i + 1, v, f)
    <3> HIDE DEF v, f, line
    <3>1. (f[Len(v.lines)] + 1)..(i + 1) = {}
      BY <1>1, <2>2 DEF f
    <3> QED BY ZenonT(40), <1>1, <2>2, <2>3, <2>4, <2>5, <2>6, <3>1 DEF Ends
  <2> QED BY <2>7
<1>4. CASE ~text[i + 1].newline
  <2>1. v.lines = u.lines /\ v.rest = line
    BY <1>4 DEF LineStep, Parted
  <2>2. Ends(text, i + 1, v, e)
    <3> HIDE DEF v, line
    <3>1. \A j \in 1..(i + 1) : text[j].newline => \E k \in 1..n : e[k] = j
      BY <1>4 DEF Ends
    <3>2. \A j \in (e[n] + 1)..(i + 1) : ~text[j].newline
      BY <1>1, <1>4 DEF Ends
    <3> QED BY <1>1, <1>2, <2>1, <3>1, <3>2 DEF Ends
  <2> QED BY <2>2
<1> QED BY <1>3, <1>4

(* Every line of a text ends at a newline of its own, in order. *)
LEMMA SplitEnds ==
  ASSUME NEW text \in Seq(Piece)
  PROVE  \E e : Ends(text, Len(text), Split(text), e)
<1> DEFINE S == {i \in 0..Len(text) : \E e : Ends(text, i, UpTo(text)[i], e)}
<1>1. 0 \in S
  <2> DEFINE e == [k \in 0..0 |-> 0]
  <2>1. Ends(text, 0, NoLines, e)
    BY DEF Ends, NoLines
  <2>2. \E f : Ends(text, 0, NoLines, f)
    <3> HIDE DEF e
    <3> QED BY <2>1
  <2> QED BY <2>2, UpToDefined
<1>2. \A k \in 0..(Len(text) - 1) : k \in S => k + 1 \in S
  <2> TAKE k \in 0..(Len(text) - 1)
  <2> HAVE k \in S
  <2>1. k + 1 \in 1..Len(text) /\ (k + 1) - 1 = k /\ k \in 0..Len(text)
    OBVIOUS
  <2>2. UpTo(text)[k + 1] = LineStep(UpTo(text)[k], text[k + 1]) /\ UpTo(text)[k] \in Parted
    BY <2>1, UpToDefined
  <2> QED BY <2>1, <2>2, EndsStep
<1>3. 0..Len(text) \subseteq S
  <2> HIDE DEF S
  <2> QED BY <1>1, <1>2, InductionUpTo, Len(text) \in Nat
<1>4. Len(text) \in S
  <2> HIDE DEF S
  <2> QED BY <1>3, Len(text) \in Nat
<1> QED BY <1>4, SplitUnfolded

-----------------------------------------------------------------------------
(* The lines and the records of a text. *)
LEMMA LinesType ==
  ASSUME NEW text \in Seq(Piece)
  PROVE  /\ LinesOf(text) \in Seq(Seq(Piece))
         /\ \A k \in 1..Len(LinesOf(text)) : LinesOf(text)[k] # <<>> /\ LinesOf(text)[k][1] \in Piece
<1> DEFINE u == Split(text)
<1>1. u \in Parted
  BY SplitType
<1>2. PICK e : Ends(text, Len(text), u, e)
  BY SplitEnds
<1>3. ASSUME NEW k \in 1..Len(u.lines) PROVE u.lines[k] # <<>> /\ u.lines[k][1] \in Piece
  <2> HIDE DEF u
  <2>1. Len(u.lines) \in Nat
    BY <1>1 DEF Parted
  <2>2. e[k - 1] \in 0..Len(text) /\ e[k] \in 0..Len(text) /\ e[k - 1] < e[k]
    <3>1. e \in [0..Len(u.lines) -> 0..Len(text)] /\ e[k - 1] < e[k]
      BY <1>2 DEF Ends
    <3>2. k - 1 \in 0..Len(u.lines) /\ k \in 0..Len(u.lines)
      BY <2>1
    <3> QED BY <3>1, <3>2
  <2>3. u.lines[k] = SubSeq(text, e[k - 1] + 1, e[k])
    BY <1>2 DEF Ends
  <2> QED BY SMTT(30), <2>2, <2>3
<1>4. u.rest # <<>> => u.rest[1] \in Piece
  BY <1>1 DEF Parted
<1>5. CASE u.rest = <<>>
  BY <1>1, <1>3, <1>5 DEF LinesOf, Parted
<1>6. CASE u.rest # <<>>
  <2>1. LinesOf(text) = Append(u.lines, u.rest)
    BY <1>6 DEF LinesOf
  <2> HIDE DEF u
  <2>2. u.lines \in Seq(Seq(Piece)) /\ u.rest \in Seq(Piece)
    BY <1>1 DEF Parted
  <2>3. ASSUME NEW k \in 1..Len(LinesOf(text))
        PROVE  LinesOf(text)[k] # <<>> /\ LinesOf(text)[k][1] \in Piece
    <3>1. CASE k = Len(u.lines) + 1
      BY <1>4, <1>6, <2>1, <2>2, <3>1
    <3>2. CASE k # Len(u.lines) + 1
      <4>1. k \in 1..Len(u.lines) /\ LinesOf(text)[k] = u.lines[k]
        BY <2>1, <2>2, <3>2
      <4> QED BY <1>3, <4>1
    <3> QED BY <3>1, <3>2
  <2> QED BY <2>1, <2>2, <2>3
<1> QED BY <1>5, <1>6

(* The record of a line is that of its first piece. *)
LEMMA RecordsType ==
  ASSUME NEW text \in Seq(Piece)
  PROVE  /\ RecordsOf(text) \in Seq(AllRecords)
         /\ Len(RecordsOf(text)) = Len(LinesOf(text))
         /\ \A k \in 1..Len(LinesOf(text)) : RecordsOf(text)[k] = LinesOf(text)[k][1].rec
<1> DEFINE n == Len(LinesOf(text))
<1>1. n \in Nat /\ DOMAIN LinesOf(text) = 1..n
  BY LinesType
<1>2. \A k \in 1..n : LinesOf(text)[k][1].rec \in AllRecords
  BY LinesType DEF Piece
<1>3. RecordsOf(text) = [k \in 1..n |-> LinesOf(text)[k][1].rec]
  BY <1>1 DEF RecordsOf
<1> QED BY <1>1, <1>2, <1>3

(* A log that verifies chains its own events from the start. *)
LEMMA VerifiedChain ==
  ASSUME NEW text \in Seq(Piece), NEW stored, LogVerifies(text, stored)
  PROVE  \A k \in 1..Len(RecordsOf(text)) :
           RecordsOf(text)[k].chain_hash = [j \in 1..k |-> RecordsOf(text)[j].event]
<1> DEFINE r == RecordsOf(text)
           Holds(k) == r[k].chain_hash = [j \in 1..k |-> r[j].event]
           S == {k \in 0..Len(r) : k # 0 => Holds(k)}
<1>1. r \in Seq(AllRecords) /\ Len(r) \in Nat /\ DOMAIN r = 1..Len(r)
  BY RecordsType
<1>2. \A k \in 1..Len(r) : RecordVerifies(r[k], k - 1, IF k = 1 THEN <<>> ELSE r[k - 1].chain_hash)
  BY <1>1 DEF LogVerifies
<1>3. 0 \in S
  BY <1>1
<1>4. \A k \in 0..(Len(r) - 1) : k \in S => k + 1 \in S
  <2> TAKE k \in 0..(Len(r) - 1)
  <2> HAVE k \in S
  <2> HIDE DEF r
  <2>1. k + 1 \in 1..Len(r) /\ (k + 1) - 1 = k
    BY <1>1
  <2> DEFINE previous == IF k = 0 THEN <<>> ELSE r[k].chain_hash
  <2>2. RecordVerifies(r[k + 1], k, previous)
    BY <1>2, <2>1
  <2>3. r[k + 1].chain_hash = previous \o <<r[k + 1].event>>
    BY <2>2 DEF RecordVerifies, hash_chain, Leaf
  <2>4. \A j \in 1..Len(r) : r[j].event \in Events
    <3>1. \A j \in 1..Len(r) : r[j] \in AllRecords
      BY <1>1
    <3> QED BY <3>1 DEF AllRecords
  <2>5. previous = [j \in 1..k |-> r[j].event]
    BY <1>1, <2>1
  <2>6. Holds(k + 1)
    BY <2>1, <2>3, <2>4, <2>5
  <2> QED BY <2>1, <2>6
<1>5. 0..Len(r) \subseteq S
  <2> HIDE DEF S
  <2> QED BY <1>1, <1>3, <1>4, InductionUpTo
<1>6. \A k \in 1..Len(r) : k \in 0..Len(r) /\ k # 0
  BY <1>1
<1>7. ASSUME NEW k \in 1..Len(r) PROVE Holds(k)
  <2> HIDE DEF r, Holds
  <2>1. k \in S
    BY <1>5, <1>6
  <2> QED BY <1>6, <2>1
<1> QED BY <1>7

-----------------------------------------------------------------------------
(* The summary is of an earlier state of the recorder. *)
SummaryInv ==
  /\ summary = [event_count |-> summary.event_count, chain_head |-> summary.chain_head,
                merkle_root |-> summary.merkle_root]
  /\ summary.event_count # None => summary.event_count \in 0..next_seq
  /\ summary.chain_head # None =>
       /\ summary.chain_head \in Seq(Events)
       /\ summary.event_count \in 0..Len(summary.chain_head)
       /\ Len(summary.chain_head) <= next_seq
       /\ summary.chain_head = SubSeq(prev_chain, 1, Len(summary.chain_head))
       /\ summary.merkle_root = merkle_root(LeavesOf(summary.chain_head))

(* The chain of the recorder only grows. *)
LEMMA ChainGrows ==
  ASSUME TypeInv, [TrailNext]_trailVars
  PROVE  \/ UNCHANGED <<next_seq, prev_chain>>
         \/ /\ \E e \in Events : BuildRecord(e, next_seq + 1)
            /\ UNCHANGED summary
<1>1. ASSUME NEW e \in Events, NEW bound, BuildRecord(e, bound) PROVE BuildRecord(e, next_seq + 1)
  BY <1>1 DEF BuildRecord, TypeInv, RecorderTypes
<1>2. ASSUME WriterNext
      PROVE  UNCHANGED <<next_seq, prev_chain>> \/ \E e \in Events : BuildRecord(e, next_seq + 1)
  <2>1. ASSUME NEW t \in Threads, NEW e \in Events, Build(t, e) \/ RecordOnly(t, e)
        PROVE  BuildRecord(e, next_seq + 1)
    BY <1>1, <2>1 DEF Build, RecordOnly
  <2>2. ASSUME NEW t \in Threads, WriteLine(t) \/ FlushPiece(t) \/ FlushEnds(t) \/ FlushFails(t)
        PROVE  UNCHANGED <<next_seq, prev_chain>>
    BY <2>2 DEF WriteLine, FlushPiece, FlushEnds, FlushFails, recorderVars
  <2>3. ASSUME Reopen \/ Rotate \/ Truncate \/ Crash PROVE UNCHANGED <<next_seq, prev_chain>>
    BY <2>3 DEF Reopen, Rotate, Truncate, Crash, recorderVars
  <2> QED BY <1>2, <2>1, <2>2, <2>3, Zenon DEF WriterNext
<1>3. ASSUME UNCHANGED logVars \/ Damage PROVE UNCHANGED <<next_seq, prev_chain>>
  BY <1>3 DEF logVars, recorderVars, Damage
<1> QED BY <1>2, <1>3 DEF TrailNext, trailVars

(* A stored summary stays a prefix of the chain of the recorder. *)
LEMMA SummaryKept == TypeInv /\ SummaryInv /\ [TrailNext]_trailVars => SummaryInv'
<1> SUFFICES ASSUME TypeInv, SummaryInv, [TrailNext]_trailVars PROVE SummaryInv'
  OBVIOUS
<1>0. next_seq \in Nat /\ prev_chain \in Seq(Events) /\ Len(prev_chain) = next_seq
  BY DEF TypeInv, RecorderTypes
<1>1. CASE UNCHANGED <<next_seq, prev_chain, summary>>
  BY <1>1, Zenon DEF SummaryInv
<1>2. CASE UNCHANGED summary /\ \E e \in Events : BuildRecord(e, next_seq + 1)
  <2>1. PICK e \in Events : next_seq' = next_seq + 1 /\ prev_chain' = prev_chain \o <<e>>
    BY <1>2 DEF BuildRecord, hash_chain, Leaf
  <2>2. \A n \in 0..next_seq : SubSeq(prev_chain', 1, n) = SubSeq(prev_chain, 1, n)
    BY <1>0, <2>1
  <2> QED BY <1>0, <1>2, <2>1, <2>2 DEF SummaryInv
<1>3. CASE ReadSequence /\ UNCHANGED <<next_seq, prev_chain>>
  BY <1>0, <1>3 DEF ReadSequence, SummaryInv, NoSummary
<1>4. CASE ReadChainHead /\ UNCHANGED <<next_seq, prev_chain>>
  <2>1. prev_chain = SubSeq(prev_chain, 1, Len(prev_chain))
    BY <1>0
  <2>2. summary.event_count \in 0..next_seq
    BY <1>4 DEF ReadChainHead, SummaryInv
  <2>3. summary' = [event_count |-> summary.event_count, chain_head |-> prev_chain,
                    merkle_root |-> merkle_root(LeavesOf(prev_chain))]
    BY <1>4 DEF ReadChainHead, SummaryInv
  <2> QED BY <1>0, <1>4, <2>1, <2>2, <2>3 DEF SummaryInv
<1>5. UNCHANGED summary \/ ((ReadSequence \/ ReadChainHead) /\ UNCHANGED <<next_seq, prev_chain>>)
  BY DEF TrailNext, trailVars, logVars, recorderVars
<1> QED BY <1>1, <1>2, <1>3, <1>4, <1>5, ChainGrows

(* The types and the summary, for every reachable state. *)
THEOREM LogTypes == Spec => [](TypeInv /\ SummaryInv)
<1>1. TrailInit => TypeInv /\ SummaryInv
  BY TypesAtStart DEF TrailInit, SummaryInv, NoSummary
<1>2. TypeInv /\ SummaryInv /\ [TrailNext]_trailVars => (TypeInv /\ SummaryInv)'
  BY TypesKept, SummaryKept
<1> QED BY <1>1, <1>2, PTL DEF Spec

(* A file that verifies against a summary of its recorder with the counts     *)
(* agreeing holds exactly the events recorded up to the summary, whatever was *)
(* lost, doubled, glued or altered (verify_log).                              *)
THEOREM VerifiedLogIsTheSession == Spec => []VerifiedIsTheSession
<1>1. TypeInv /\ SummaryInv => VerifiedIsTheSession
  <2> SUFFICES ASSUME TypeInv, SummaryInv, path # 0, summary.chain_head # None,
                      LogVerifies(data[path], {summary}), event_count_matches(data[path], summary)
               PROVE  [k \in DOMAIN RecordsOf(data[path]) |-> RecordsOf(data[path])[k].event]
                        = SubSeq(prev_chain, 1, summary.event_count)
    BY DEF VerifiedIsTheSession
  <2> DEFINE text == data[path]
             r == RecordsOf(text)
             head == summary.chain_head
  <2>1. text \in Seq(Piece)
    BY DEF TypeInv, FileTypes
  <2>2. r \in Seq(AllRecords) /\ Len(r) \in Nat /\ DOMAIN r = 1..Len(r)
    BY <2>1, RecordsType
  <2>3. \A k \in 1..Len(r) : r[k].chain_hash = [j \in 1..k |-> r[j].event]
    BY <2>1, VerifiedChain
  <2>4. summary.event_count = Len(r)
    BY DEF event_count_matches
  <2>5. head # <<>> => head = IF r = <<>> THEN <<>> ELSE r[Len(r)].chain_hash
    BY DEF LogVerifies
  <2>6. /\ head \in Seq(Events) /\ Len(r) \in 0..Len(head) /\ Len(head) <= next_seq
        /\ head = SubSeq(prev_chain, 1, Len(head))
    BY <2>4 DEF SummaryInv
  <2> HIDE DEF text, r, head
  <2>7. CASE r = <<>>
    <3>1. Len(r) = 0 /\ [k \in DOMAIN r |-> r[k].event] = <<>>
      BY <2>7
    <3>2. SubSeq(prev_chain, 1, 0) = <<>>
      BY DEF TypeInv, RecorderTypes
    <3> QED BY <2>4, <3>1, <3>2 DEF r, text
  <2>8. CASE r # <<>>
    <3>1. Len(r) \in 1..Len(r)
      BY <2>2, <2>8
    <3>2. head # <<>>
      BY <2>6, <3>1
    <3>3. head = [j \in 1..Len(r) |-> r[j].event]
      BY <2>3, <2>5, <2>8, <3>1, <3>2
    <3>4. Len(head) = Len(r)
      BY <2>2, <2>6, <3>3
    <3> QED BY <2>2, <2>4, <2>6, <3>3, <3>4 DEF r, text
  <2> QED BY <2>7, <2>8
<1> QED BY <1>1, LogTypes, PTL

-----------------------------------------------------------------------------
(* The recursive functions of Merkle satisfy their equations. *)
LEMMA LevelsDefined ==
  ASSUME NEW leaves, Len(leaves) \in Nat
  PROVE  Levels(leaves) = [k \in 0..Len(leaves) |->
                             IF k = 0 THEN leaves ELSE Parents(Levels(leaves)[k - 1])]
<1> DEFINE n == Len(leaves)
           Is(f, m) == f = [k \in 0..m |-> IF k = 0 THEN leaves ELSE Parents(f[k - 1])]
           S == {m \in 0..n : \E f : Is(f, m)}
<1>1. 0 \in S
  <2>1. Is([k \in 0..0 |-> leaves], 0)
    OBVIOUS
  <2>2. 0 \in 0..n
    OBVIOUS
  <2> HIDE DEF Is
  <2> QED BY <2>1, <2>2
<1>2. \A m \in 0..(n - 1) : m \in S => m + 1 \in S
  <2> TAKE m \in 0..(n - 1)
  <2> HAVE m \in S
  <2>1. PICK f : Is(f, m)
    OBVIOUS
  <2> DEFINE g == [k \in 0..(m + 1) |-> IF k = m + 1 THEN Parents(f[m]) ELSE f[k]]
  <2>2. \A k \in 0..(m + 1) : g[k] = IF k = 0 THEN leaves ELSE Parents(g[k - 1])
    BY <2>1
  <2>3. Is(g, m + 1)
    BY <2>2
  <2> HIDE DEF g, Is
  <2> QED BY <2>3
<1>3. n \in S
  <2>1. 0..n \subseteq S
    <3> HIDE DEF S
    <3> QED BY <1>1, <1>2, InductionUpTo
  <2> HIDE DEF S
  <2> QED BY <2>1
<1>4. \E f : Is(f, n)
  BY <1>3
<1> QED
  BY <1>4, Zenon DEF Levels

(* The indices of the ancestors of a leaf satisfy their equations. *)
LEMMA AncestorsDefined ==
  ASSUME NEW index \in Nat, NEW n \in Nat
  PROVE  /\ Ancestors(index, n) \in [0..n -> Nat] /\ Ancestors(index, n)[0] = index
         /\ \A k \in 1..n : Ancestors(index, n)[k] = Ancestors(index, n)[k - 1] \div 2
<1> DEFINE step == [k \in 1..n |-> [i \in Nat |-> i \div 2]]
<1>1. step \in [1..n -> [Nat -> Nat]]
  OBVIOUS
<1>2. PICK f : Recurs(f, n, Nat, index, step)
  <2> HIDE DEF step
  <2> QED BY <1>1, Recursion
<1>3. f \in [0..n -> Nat] /\ f[0] = index /\ \A k \in 1..n : f[k] = f[k - 1] \div 2
  <2>1. f \in [0..n -> Nat] /\ f[0] = index /\ \A k \in 1..n : f[k] = step[k][f[k - 1]]
    <3> HIDE DEF step
    <3> QED BY <1>2 DEF Recurs
  <2>2. \A k \in 1..n : f[k - 1] \in Nat
    BY <2>1
  <2> QED BY <2>1, <2>2
<1>4. f = [k \in 0..n |-> IF k = 0 THEN index ELSE f[k - 1] \div 2]
  BY <1>3
<1> DEFINE a == Ancestors(index, n)
<1>5. a = [k \in 0..n |-> IF k = 0 THEN index ELSE a[k - 1] \div 2]
  BY <1>4, Zenon DEF Ancestors
<1> HIDE DEF a
<1>6. a[0] = index /\ \A k \in 1..n : a[k] = a[k - 1] \div 2
  BY <1>5
<1> DEFINE S == {k \in 0..n : a[k] = f[k]}
<1>7. 0..n \subseteq S
  <2>1. 0 \in S
    BY <1>3, <1>6
  <2>2. \A k \in 0..(n - 1) : k \in S => k + 1 \in S
    <3>1. \A k \in 0..(n - 1) : k + 1 \in 1..n /\ (k + 1) - 1 = k
      OBVIOUS
    <3> QED BY <1>3, <1>6, <3>1
  <2> HIDE DEF S
  <2> QED BY <2>1, <2>2, InductionUpTo
<1>8. a \in [0..n -> Nat]
  BY <1>3, <1>5, <1>7
<1> QED BY <1>6, <1>8 DEF a

(* So do the widths of the levels. *)
LEMMA WidthsDefined ==
  ASSUME NEW n \in Nat
  PROVE  /\ Widths(n) \in [0..n -> Nat] /\ Widths(n)[0] = n
         /\ \A k \in 1..n : Widths(n)[k] = (Widths(n)[k - 1] + 1) \div 2
<1> DEFINE step == [k \in 1..n |-> [i \in Nat |-> (i + 1) \div 2]]
<1>1. step \in [1..n -> [Nat -> Nat]]
  OBVIOUS
<1>2. PICK f : Recurs(f, n, Nat, n, step)
  <2> HIDE DEF step
  <2> QED BY <1>1, Recursion
<1>3. f \in [0..n -> Nat] /\ f[0] = n /\ \A k \in 1..n : f[k] = (f[k - 1] + 1) \div 2
  <2>1. f \in [0..n -> Nat] /\ f[0] = n /\ \A k \in 1..n : f[k] = step[k][f[k - 1]]
    <3> HIDE DEF step
    <3> QED BY <1>2 DEF Recurs
  <2>2. \A k \in 1..n : f[k - 1] \in Nat
    BY <2>1
  <2> QED BY <2>1, <2>2
<1>4. f = [k \in 0..n |-> IF k = 0 THEN n ELSE (f[k - 1] + 1) \div 2]
  BY <1>3
<1> DEFINE a == Widths(n)
<1>5. a = [k \in 0..n |-> IF k = 0 THEN n ELSE (a[k - 1] + 1) \div 2]
  BY <1>4, Zenon DEF Widths
<1> HIDE DEF a
<1>6. a[0] = n /\ \A k \in 1..n : a[k] = (a[k - 1] + 1) \div 2
  BY <1>5
<1> DEFINE S == {k \in 0..n : a[k] = f[k]}
<1>7. 0..n \subseteq S
  <2>1. 0 \in S
    BY <1>3, <1>6
  <2>2. \A k \in 0..(n - 1) : k \in S => k + 1 \in S
    <3>1. \A k \in 0..(n - 1) : k + 1 \in 1..n /\ (k + 1) - 1 = k
      OBVIOUS
    <3>2. \A k \in 0..(n - 1) : a[k + 1] = (a[k] + 1) \div 2 /\ f[k + 1] = (f[k] + 1) \div 2
      BY <1>3, <1>6, <3>1
    <3>3. \A k \in 0..(n - 1) : a[k] = f[k] => a[k + 1] = f[k + 1]
      BY <3>2, Zenon
    <3> QED BY <3>3
  <2> HIDE DEF S
  <2> QED BY <2>1, <2>2, InductionUpTo
<1>8. a \in [0..n -> Nat]
  BY <1>3, <1>5, <1>7
<1> QED BY <1>6, <1>8 DEF a

-----------------------------------------------------------------------------
(* The shape of the tree. *)
LEMMA LenOf ==
  ASSUME NEW s, NEW n \in Nat, s = [i \in 1..n |-> s[i]]
  PROVE  Len(s) = n /\ DOMAIN s = 1..n
<1> DEFINE S == {s[i] : i \in 1..n}
<1>1. s \in [1..n -> S]
  OBVIOUS
<1>2. s \in Seq(S)
  <2> HIDE DEF S
  <2> QED BY <1>1, SeqDef
<1>3. DOMAIN s = 1..n
  BY <1>1
<1> QED
  <2> HIDE DEF S
  <2> QED BY <1>2, <1>3, LenProperties

(* A level above pairs the nodes below and carries an odd one up. *)
LEMMA ParentsAre ==
  ASSUME NEW level, Len(level) \in Nat
  PROVE  /\ Len(Parents(level)) = (Len(level) + 1) \div 2
         /\ \A m \in 1..((Len(level) + 1) \div 2) :
              Parents(level)[m] = IF 2 * m <= Len(level) THEN Node(level[2 * m - 1], level[2 * m])
                                  ELSE level[2 * m - 1]
<1> DEFINE n == (Len(level) + 1) \div 2
<1>1. n \in Nat
  OBVIOUS
<1>2. /\ Parents(level) = [m \in 1..n |-> Parents(level)[m]]
      /\ \A m \in 1..n :
           Parents(level)[m] = IF 2 * m <= Len(level) THEN Node(level[2 * m - 1], level[2 * m])
                               ELSE level[2 * m - 1]
  <2> HIDE DEF n
  <2>1. Parents(level) = [m \in 1..n |-> IF 2 * m <= Len(level) THEN Node(level[2 * m - 1], level[2 * m])
                               ELSE level[2 * m - 1]]
    BY DEF Parents, n
  <2> QED BY <2>1
<1>3. Len(Parents(level)) = n
  <2> HIDE DEF n
  <2> QED BY <1>1, <1>2, LenOf
<1> QED BY <1>2, <1>3

(* Halving upwards shrinks every width above one. *)
LEMMA Halved == \A w \in Nat \ {0} : (w + 1) \div 2 \in Nat \ {0} /\ (w > 1 => (w + 1) \div 2 < w)
  OBVIOUS

(* After as many halvings as there are leaves the width is one. *)
LEMMA WidthsShrink ==
  ASSUME NEW n \in Nat \ {0}
  PROVE  /\ \A k \in 0..n : Widths(n)[k] \in Nat \ {0}
         /\ Widths(n)[n] = 1
<1> DEFINE w == Widths(n)
           S == {k \in 0..n : w[k] \in Nat \ {0} /\ (w[k] = 1 \/ w[k] <= n - k)}
<1>1. w \in [0..n -> Nat] /\ w[0] = n /\ \A k \in 1..n : w[k] = (w[k - 1] + 1) \div 2
  BY WidthsDefined
<1> HIDE DEF w
<1>2. 0 \in S
  BY <1>1
<1>3. ASSUME NEW k \in 0..(n - 1), k \in S PROVE k + 1 \in S
  <2>1. k + 1 \in 1..n /\ (k + 1) - 1 = k
    OBVIOUS
  <2>2. w[k + 1] = (w[k] + 1) \div 2
    BY <1>1, <2>1
  <2>3. w[k + 1] \in Nat \ {0} /\ (w[k] > 1 => w[k + 1] < w[k])
    BY <1>3, <2>2, Halved
  <2>4. CASE w[k] = 1
    <3>1. w[k + 1] = 1
      BY <2>2, <2>4
    <3> QED BY <2>1, <3>1
  <2>5. CASE w[k] # 1
    BY <1>3, <2>3, <2>5
  <2> QED BY <2>4, <2>5
<1>4. 0..n \subseteq S
  <2> HIDE DEF S
  <2> QED BY <1>2, <1>3, InductionUpTo
<1>5. n \in S
  BY <1>4
<1> QED BY <1>4, <1>5 DEF w

(* The levels have the widths of Widths, each the parents of the one below. *)
LEMMA LevelsShape ==
  ASSUME NEW leaves, Len(leaves) \in Nat
  PROVE  /\ \A k \in 0..Len(leaves) : Len(Levels(leaves)[k]) = Widths(Len(leaves))[k]
         /\ \A k \in 1..Len(leaves) : Levels(leaves)[k] = Parents(Levels(leaves)[k - 1])
<1> DEFINE n == Len(leaves)
           lv == Levels(leaves)
           w == Widths(n)
           S == {k \in 0..n : Len(lv[k]) = w[k]}
<1>1. lv = [k \in 0..n |-> IF k = 0 THEN leaves ELSE Parents(lv[k - 1])]
  BY LevelsDefined, Zenon
<1>2. w \in [0..n -> Nat] /\ w[0] = n /\ \A k \in 1..n : w[k] = (w[k - 1] + 1) \div 2
  BY WidthsDefined
<1> HIDE DEF w, lv
<1>3. lv[0] = leaves /\ \A k \in 1..n : lv[k] = Parents(lv[k - 1])
  BY <1>1
<1>4. 0 \in S
  BY <1>2, <1>3
<1>5. ASSUME NEW k \in 0..(n - 1), k \in S PROVE k + 1 \in S
  <2>1. k + 1 \in 1..n /\ (k + 1) - 1 = k
    OBVIOUS
  <2>2. w[k + 1] = (w[k] + 1) \div 2 /\ lv[k + 1] = Parents(lv[k]) /\ w[k] \in Nat
    BY <1>2, <1>3, <2>1
  <2>3. Len(lv[k + 1]) = (Len(lv[k]) + 1) \div 2
    BY <1>5, <2>2, ParentsAre
  <2>4. Len(lv[k]) = w[k]
    BY <1>5
  <2>5. Len(lv[k + 1]) = w[k + 1]
    BY <2>2, <2>3, <2>4, Zenon
  <2>6. k + 1 \in 0..n
    OBVIOUS
  <2> QED BY <2>5, <2>6
<1>6. 0..n \subseteq S
  <2> HIDE DEF S
  <2> QED BY <1>4, <1>5, InductionUpTo
<1> QED BY <1>3, <1>6 DEF w, lv

(* An ancestor is within its level. *)
LEMMA AncestorsWithin ==
  ASSUME NEW n \in Nat \ {0}, NEW index \in 0..(n - 1)
  PROVE  \A k \in 0..n : Ancestors(index, n)[k] \in 0..(Widths(n)[k] - 1)
<1> DEFINE a == Ancestors(index, n)
           w == Widths(n)
           S == {k \in 0..n : a[k] \in 0..(w[k] - 1)}
<1>1. a \in [0..n -> Nat] /\ a[0] = index /\ \A k \in 1..n : a[k] = a[k - 1] \div 2
  BY AncestorsDefined
<1>2. w \in [0..n -> Nat] /\ w[0] = n /\ \A k \in 1..n : w[k] = (w[k - 1] + 1) \div 2
  BY WidthsDefined
<1> HIDE DEF a, w
<1>3. 0 \in S
  BY <1>1, <1>2
<1>4. ASSUME NEW k \in 0..(n - 1), k \in S PROVE k + 1 \in S
  <2>1. k + 1 \in 1..n /\ (k + 1) - 1 = k
    OBVIOUS
  <2>2. w[k + 1] = (w[k] + 1) \div 2 /\ a[k + 1] = a[k] \div 2 /\ w[k] \in Nat /\ a[k] \in Nat
    <3>1. w[k + 1] = (w[k] + 1) \div 2
      BY <1>2, <2>1
    <3>2. a[k + 1] = a[k] \div 2
      BY <1>1, <2>1
    <3> QED BY <1>1, <1>2, <3>1, <3>2
  <2>3. a[k] < w[k]
    BY <1>4, <2>2
  <2>4. \A x, y \in Nat : x < y => x \div 2 \in 0..((y + 1) \div 2 - 1)
    OBVIOUS
  <2>5. a[k + 1] \in 0..(w[k + 1] - 1)
    BY <2>2, <2>3, <2>4
  <2> QED BY <2>1, <2>5
<1>5. 0..n \subseteq S
  <2> HIDE DEF S
  <2> QED BY <1>3, <1>4, InductionUpTo
<1> QED BY <1>5 DEF a, w

-----------------------------------------------------------------------------
(* The siblings of a proof, level by level. *)
Sibling(leaves, index, k) ==
  SiblingOn(Levels(leaves)[k - 1], Ancestors(index, Len(leaves))[k - 1])
Below(leaves, index) ==
  CHOOSE below : below = [k \in 0..Len(leaves) |->
                            IF k = 0 THEN <<>> ELSE below[k - 1] \o Sibling(leaves, index, k)]

(* The proof is what its recursive function collects. *)
LEMMA BuildUnfolded ==
  \A leaves, index :
    build_inclusion_proof(leaves, index) =
      [leaf_index |-> index, leaf_count |-> Len(leaves), leaf_hash |-> leaves[index + 1],
       merkle_root |-> merkle_root(leaves), siblings |-> Below(leaves, index)[Len(leaves)]]
BY DEF build_inclusion_proof, Below, Sibling

(* That function satisfies its equations. *)
LEMMA BelowDefined ==
  ASSUME NEW leaves, Len(leaves) \in Nat, NEW index
  PROVE  \E T :
           /\ Below(leaves, index) \in [0..Len(leaves) -> Seq(T)]
           /\ Below(leaves, index)[0] = <<>>
           /\ \A k \in 1..Len(leaves) :
                /\ Sibling(leaves, index, k) \in Seq(T)
                /\ Below(leaves, index)[k] = Below(leaves, index)[k - 1] \o Sibling(leaves, index, k)
<1> DEFINE n == Len(leaves)
           Sib(k) == Sibling(leaves, index, k)
           T == {Sib(k)[1] : k \in 1..n}
           step == [k \in 1..n |-> [s \in Seq(T) |-> s \o Sib(k)]]
           b == Below(leaves, index)
<1>1. \A k : Sib(k) = <<>> \/ Sib(k) = <<Sib(k)[1]>>
  BY DEF Sibling, SiblingOn
<1>2. \A k \in 1..n : Sib(k) \in Seq(T)
  <2> TAKE k \in 1..n
  <2>1. Sib(k)[1] \in T
    OBVIOUS
  <2> HIDE DEF T, Sib
  <2>2. <<>> \in Seq(T) /\ <<Sib(k)[1]>> \in Seq(T)
    BY <2>1
  <2> QED BY <1>1, <2>2, Zenon
<1> HIDE DEF T, Sib
<1>0. <<>> \in Seq(T)
  OBVIOUS
<1>3. step \in [1..n -> [Seq(T) -> Seq(T)]]
  BY <1>2
<1>4. PICK f : Recurs(f, n, Seq(T), <<>>, step)
  <2> HIDE DEF step
  <2> QED BY <1>0, <1>3, Recursion
<1>5. f \in [0..n -> Seq(T)] /\ f[0] = <<>> /\ \A k \in 1..n : f[k] = f[k - 1] \o Sib(k)
  <2>1. f \in [0..n -> Seq(T)] /\ f[0] = <<>> /\ \A k \in 1..n : f[k] = step[k][f[k - 1]]
    <3> HIDE DEF step
    <3> QED BY <1>4 DEF Recurs
  <2>2. \A k \in 1..n : f[k - 1] \in Seq(T)
    BY <2>1
  <2> QED BY <2>1, <2>2
<1>6. f = [k \in 0..n |-> IF k = 0 THEN <<>> ELSE f[k - 1] \o Sib(k)]
  BY <1>5
<1>7. b = [k \in 0..n |-> IF k = 0 THEN <<>> ELSE b[k - 1] \o Sib(k)]
  BY <1>6, Zenon DEF Below, Sib
<1> HIDE DEF b
<1>8. b[0] = <<>> /\ \A k \in 1..n : b[k] = b[k - 1] \o Sib(k)
  <2>1. 0 \in 0..n /\ \A k \in 1..n : k \in 0..n /\ k # 0
    OBVIOUS
  <2> QED BY <1>7, <2>1, Zenon
<1> DEFINE S == {k \in 0..n : b[k] \in Seq(T)}
<1>9. 0..n \subseteq S
  <2>1. 0 \in S
    <3>1. b[0] \in Seq(T)
      BY <1>0, <1>8, Zenon
    <3> QED BY <3>1
  <2>2. \A k \in 0..(n - 1) : k \in S => k + 1 \in S
    <3> TAKE k \in 0..(n - 1)
    <3> HAVE k \in S
    <3>1. k + 1 \in 1..n /\ (k + 1) - 1 = k
      OBVIOUS
    <3>2. b[k + 1] = b[k] \o Sib(k + 1) /\ Sib(k + 1) \in Seq(T)
      BY <1>2, <1>8, <3>1
    <3>3. b[k] \o Sib(k + 1) \in Seq(T)
      BY <3>2
    <3>4. b[k + 1] \in Seq(T)
      BY <3>2, <3>3, Zenon
    <3> QED BY <3>1, <3>4
  <2> HIDE DEF S
  <2> QED BY <2>1, <2>2, InductionUpTo
<1>10. b \in [0..n -> Seq(T)]
  BY <1>7, <1>9
<1> QED BY <1>2, <1>8, <1>10 DEF b, Sib

(* Which direction verify_inclusion_proof expects is the one of the sibling   *)
(* build_inclusion_proof put there.                                           *)
Expected(index, width) == IF width = 1 THEN "none" ELSE expected_direction(index, width)

(* A level contributes the sibling whose side the verifier expects, or none. *)
LEMMA SiblingExpected ==
  ASSUME NEW level, Len(level) \in Nat \ {0}, NEW index \in 0..(Len(level) - 1)
  PROVE  LET d == Expected(index, Len(level))
             s == SiblingOn(level, index)
         IN  /\ d \in {"none", "left", "right"}
             /\ d = "none" => s = <<>> /\ index % 2 = 0 /\ index + 1 = Len(level)
             /\ d = "left" => /\ s = <<[direction |-> d, hash |-> level[index]]>>
                              /\ index % 2 = 1
             /\ d = "right" => /\ s = <<[direction |-> d, hash |-> level[index + 2]]>>
                               /\ index % 2 = 0 /\ index + 1 < Len(level)
<1> DEFINE w == Len(level)
<1>1. w \in Nat \ {0} /\ index \in 0..(w - 1)
  OBVIOUS
<1> HIDE DEF w
<1>2. CASE index % 2 = 1
  <2>1. index # 0 /\ w # 1 /\ index % 2 # 0
    BY <1>1, <1>2
  <2>2. ~(index - 1 >= w) /\ index - 1 < index /\ index - 1 + 1 = index
    BY <1>1
  <2>3. Expected(index, w) = "left"
    BY <1>2, <2>1 DEF Expected, expected_direction
  <2>4. SiblingOn(level, index) = <<[direction |-> "left", hash |-> level[index]]>>
    BY <2>1, <2>2 DEF SiblingOn, w
  <2> QED BY <1>2, <2>3, <2>4 DEF w
<1>3. CASE index % 2 = 0 /\ index + 1 < w
  <2>1. ~(index + 1 >= w) /\ ~(index + 1 < index) /\ index + 1 + 1 = index + 2 /\ w # 1
    BY <1>1, <1>3
  <2>2. Expected(index, w) = "right"
    BY <1>3, <2>1 DEF Expected, expected_direction
  <2>3. SiblingOn(level, index) = <<[direction |-> "right", hash |-> level[index + 2]]>>
    BY <1>3, <2>1 DEF SiblingOn, w
  <2> QED BY <1>3, <2>2, <2>3 DEF w
<1>4. CASE index % 2 = 0 /\ ~(index + 1 < w)
  <2>1. index + 1 >= w /\ index + 1 = w
    BY <1>1, <1>4
  <2>2. Expected(index, w) = "none"
    BY <1>4 DEF Expected, expected_direction
  <2>3. SiblingOn(level, index) = <<>>
    BY <1>4, <2>1 DEF SiblingOn, w
  <2> QED BY <1>4, <2>1, <2>2, <2>3 DEF w
<1>5. index % 2 \in {0, 1}
  BY <1>1
<1> QED BY <1>2, <1>3, <1>4, <1>5

(* Where the sibling of a level is among those of the whole proof. *)
LEMMA BelowIsPrefix ==
  ASSUME NEW leaves, Len(leaves) \in Nat, NEW index
  PROVE  LET b == Below(leaves, index)
             s == b[Len(leaves)]
         IN  /\ Len(s) \in Nat /\ Len(b[0]) = 0
             /\ \A k \in 1..Len(leaves) :
                  /\ Len(b[k - 1]) \in Nat /\ Len(b[k]) \in 0..Len(s)
                  /\ Len(b[k]) = Len(b[k - 1]) + Len(Sibling(leaves, index, k))
                  /\ \A x : Sibling(leaves, index, k) = <<x>> => s[Len(b[k])] = x
<1> DEFINE n == Len(leaves)
           b == Below(leaves, index)
           s == b[n]
           Sib(k) == Sibling(leaves, index, k)
<1>1. PICK T : /\ b \in [0..n -> Seq(T)] /\ b[0] = <<>>
               /\ \A k \in 1..n : Sib(k) \in Seq(T) /\ b[k] = b[k - 1] \o Sib(k)
  BY BelowDefined
<1> HIDE DEF b, Sib
<1> DEFINE Prefix(k) == Len(b[k]) \in 0..Len(s) /\ \A j \in 1..Len(b[k]) : s[j] = b[k][j]
           S == {k \in 0..n : Prefix(k)}
<1>2. \A k \in 0..n : b[k] \in Seq(T) /\ Len(b[k]) \in Nat
  BY <1>1
<1>3. n \in S
  BY <1>2
<1>4. ASSUME NEW k \in 1..n, k \in S PROVE k - 1 \in S
  <2>1. k - 1 \in 0..n /\ k \in 0..n
    OBVIOUS
  <2>2. b[k] = b[k - 1] \o Sib(k) /\ Sib(k) \in Seq(T) /\ b[k - 1] \in Seq(T)
    BY <1>1, <1>2, <2>1
  <2>3. /\ Len(b[k - 1]) \in Nat /\ Len(b[k]) \in Nat /\ Len(b[k - 1]) <= Len(b[k])
        /\ \A j \in 1..Len(b[k - 1]) : b[k][j] = b[k - 1][j]
    BY <2>2
  <2>4. Prefix(k) /\ Len(s) \in Nat
    BY <1>2, <1>4
  <2>5. Prefix(k - 1)
    <3> HIDE DEF s
    <3> QED BY <2>3, <2>4
  <2> QED BY <2>1, <2>5
<1>5. 0..n \subseteq S
  <2> HIDE DEF S
  <2> QED BY <1>3, <1>4, InductionDown
<1>6. ASSUME NEW k \in 1..n
      PROVE  /\ Len(b[k - 1]) \in Nat /\ Len(b[k]) \in 0..Len(s)
             /\ Len(b[k]) = Len(b[k - 1]) + Len(Sib(k))
             /\ \A x : Sib(k) = <<x>> => s[Len(b[k])] = x
  <2>1. k - 1 \in 0..n /\ k \in 0..n
    OBVIOUS
  <2>2. b[k] = b[k - 1] \o Sib(k) /\ Sib(k) \in Seq(T) /\ b[k - 1] \in Seq(T) /\ b[k] \in Seq(T)
    BY <1>1, <1>2, <2>1
  <2>3. Prefix(k)
    <3> HIDE DEF Prefix
    <3> QED BY <1>5, <2>1
  <2>5. Len(b[k]) = Len(b[k - 1]) + Len(Sib(k)) /\ Len(b[k - 1]) \in Nat
    BY <2>2
  <2>4. ASSUME NEW x, Sib(k) = <<x>> PROVE s[Len(b[k])] = x
    <3>1. Len(Sib(k)) = 1 /\ Sib(k)[1] = x
      <4>1. Len(<<x>>) = 1 /\ <<x>>[1] = x
        OBVIOUS
      <4> QED BY <2>4, <4>1, Zenon
    <3>2. Len(b[k]) = Len(b[k - 1]) + 1 /\ Len(b[k - 1]) \in Nat
      BY <2>5, <3>1
    <3>3. b[k][Len(b[k - 1]) + 1] = x
      <4>1. \A i \in 1..(Len(b[k - 1]) + Len(Sib(k))) :
              b[k][i] = IF i <= Len(b[k - 1]) THEN b[k - 1][i] ELSE Sib(k)[i - Len(b[k - 1])]
        BY <2>2, ConcatProperties
      <4>2. /\ Len(b[k - 1]) + 1 \in 1..(Len(b[k - 1]) + Len(Sib(k)))
            /\ ~(Len(b[k - 1]) + 1 <= Len(b[k - 1])) /\ (Len(b[k - 1]) + 1) - Len(b[k - 1]) = 1
        BY <3>1, <3>2
      <4>3. b[k][Len(b[k - 1]) + 1] = Sib(k)[1]
        BY <4>1, <4>2
      <4> QED BY <3>1, <4>3
    <3> QED BY <2>3, <3>2, <3>3
  <2> QED BY <2>3, <2>4, <2>5
<1>7. Len(s) \in Nat /\ Len(b[0]) = 0
  BY <1>1, <1>2
<1> QED BY <1>6, <1>7 DEF b, Sib

-----------------------------------------------------------------------------
(* The walk of verify_inclusion_proof up the tree. *)
ClimbStep(walk, siblings, expected) ==
  IF expected = "none" \/ ~walk.ok THEN walk
  ELSE IF walk.used = Len(siblings) THEN [walk EXCEPT !.ok = FALSE]
  ELSE Consume(walk, siblings[walk.used + 1], expected)
StepOf(walk, proof, k) ==
  ClimbStep(walk, proof.siblings,
            Expected(Ancestors(proof.leaf_index, proof.leaf_count)[k - 1], Widths(proof.leaf_count)[k - 1]))
StartOf(proof) == [ok |-> TRUE, used |-> 0, computed |-> proof.leaf_hash]
Climb(proof) ==
  CHOOSE climb : climb = [k \in 0..proof.leaf_count |->
                            IF k = 0 THEN StartOf(proof) ELSE StepOf(climb[k - 1], proof, k)]

(* Verification is the last value of its recursive function. *)
LEMMA VerifyUnfolded ==
  \A proof, expected_root :
    verify_inclusion_proof(proof, expected_root) <=>
      LET top == Climb(proof)[proof.leaf_count]
      IN  /\ proof.leaf_index \in 0..(proof.leaf_count - 1)
          /\ top.ok /\ top.used = Len(proof.siblings)
          /\ top.computed = expected_root /\ top.computed = proof.merkle_root
BY DEF verify_inclusion_proof, Climb, StartOf, StepOf, ClimbStep, Expected

(* That function satisfies its equations. *)
LEMMA ClimbDefined ==
  ASSUME NEW proof, proof.leaf_count \in Nat
  PROVE  /\ Climb(proof)[0] = StartOf(proof)
         /\ \A k \in 1..proof.leaf_count : Climb(proof)[k] = StepOf(Climb(proof)[k - 1], proof, k)
<1> DEFINE n == proof.leaf_count
           Is(f, m) == f = [k \in 0..m |-> IF k = 0 THEN StartOf(proof) ELSE StepOf(f[k - 1], proof, k)]
           S == {m \in 0..n : \E f : Is(f, m)}
<1>1. 0 \in S
  <2>1. Is([k \in 0..0 |-> StartOf(proof)], 0)
    OBVIOUS
  <2>2. 0 \in 0..n
    OBVIOUS
  <2> HIDE DEF Is
  <2> QED BY <2>1, <2>2
<1>2. \A m \in 0..(n - 1) : m \in S => m + 1 \in S
  <2> TAKE m \in 0..(n - 1)
  <2> HAVE m \in S
  <2>1. PICK f : Is(f, m)
    OBVIOUS
  <2> DEFINE g == [k \in 0..(m + 1) |-> IF k = m + 1 THEN StepOf(f[m], proof, k) ELSE f[k]]
  <2>2. \A k \in 0..(m + 1) : g[k] = IF k = 0 THEN StartOf(proof) ELSE StepOf(g[k - 1], proof, k)
    BY <2>1
  <2>3. Is(g, m + 1)
    BY <2>2
  <2>4. m + 1 \in 0..n
    OBVIOUS
  <2> HIDE DEF g, Is
  <2> QED BY <2>3, <2>4
<1>3. n \in S
  <2>1. 0..n \subseteq S
    <3> HIDE DEF S
    <3> QED BY <1>1, <1>2, InductionUpTo
  <2> HIDE DEF S
  <2> QED BY <2>1
<1>4. \E f : Is(f, n)
  BY <1>3
<1> DEFINE c == Climb(proof)
<1>5. c = [k \in 0..n |-> IF k = 0 THEN StartOf(proof) ELSE StepOf(c[k - 1], proof, k)]
  BY <1>4, Zenon DEF Climb
<1> HIDE DEF c
<1>6. 0 \in 0..n /\ \A k \in 1..n : k \in 0..n /\ k # 0
  OBVIOUS
<1>7. c[0] = StartOf(proof) /\ \A k \in 1..n : c[k] = StepOf(c[k - 1], proof, k)
  BY <1>5, <1>6, Zenon
<1> QED BY <1>7 DEF c

Walk(u) == u = [ok |-> u.ok, used |-> u.used, computed |-> u.computed] /\ u.ok \in BOOLEAN /\ u.used \in Nat

(* One level keeps what a walk is. *)
LEMMA StepWalks ==
  ASSUME NEW u, Walk(u), NEW siblings, NEW expected \in {"none", "left", "right"}
  PROVE  LET v == ClimbStep(u, siblings, expected)
             node == siblings[u.used + 1]
         IN  /\ Walk(v)
             /\ v.ok => /\ u.ok
                        /\ expected = "none" => v = u
                        /\ expected # "none" =>
                             /\ v.used = u.used + 1 /\ node.direction = expected
                             /\ v.computed = IF expected = "left" THEN Node(node.hash, u.computed)
                                             ELSE Node(u.computed, node.hash)
             /\ u.ok /\ expected = "none" => v = u
             /\ u.ok /\ u.used # Len(siblings) /\ expected = node.direction => v.ok
<1> DEFINE v == ClimbStep(u, siblings, expected)
           node == siblings[u.used + 1]
<1>1. CASE expected = "none" \/ ~u.ok
  <2>1. v = u
    BY <1>1 DEF ClimbStep
  <2> HIDE DEF v
  <2>2. CASE expected = "none"
    BY <2>1, <2>2 DEF v
  <2>3. CASE ~u.ok
    BY <2>1, <2>3 DEF v
  <2> QED BY <1>1, <2>2, <2>3
<1>2. CASE expected # "none" /\ u.ok /\ u.used = Len(siblings)
  <2>1. v = [u EXCEPT !.ok = FALSE]
    BY <1>2 DEF ClimbStep
  <2>2. v = [ok |-> FALSE, used |-> u.used, computed |-> u.computed]
    BY <2>1 DEF Walk
  <2> HIDE DEF v
  <2> QED BY <1>2, <2>2 DEF Walk, v
<1>3. CASE expected # "none" /\ u.ok /\ u.used # Len(siblings)
  <2>1. v = Consume(u, node, expected)
    BY <1>3 DEF ClimbStep
  <2> HIDE DEF v, node
  <2>2. CASE node.direction # expected
    <3>1. v = [u EXCEPT !.ok = FALSE]
      BY <2>1, <2>2 DEF Consume
    <3>2. v = [ok |-> FALSE, used |-> u.used, computed |-> u.computed]
      BY <3>1 DEF Walk
    <3> QED BY <1>3, <2>2, <3>2 DEF Walk, v, node
  <2>3. CASE node.direction = expected
    <3>1. v = [ok |-> TRUE, used |-> u.used + 1,
               computed |-> IF expected = "left" THEN Node(node.hash, u.computed)
                            ELSE Node(u.computed, node.hash)]
      BY <1>3, <2>1, <2>3 DEF Consume, Walk
    <3> QED BY <1>3, <2>3, <3>1 DEF Walk, v, node
  <2> QED BY <2>2, <2>3
<1> QED BY <1>1, <1>2, <1>3, Zenon DEF Walk

(* The parent of a node and its sibling. *)
LEMMA ParentOf ==
  ASSUME NEW level, Len(level) \in Nat \ {0}, NEW index \in 0..(Len(level) - 1)
  PROVE  LET d == Expected(index, Len(level))
             parent == Parents(level)[index \div 2 + 1]
         IN  /\ d = "none" => parent = level[index + 1]
             /\ d = "left" => parent = Node(level[index], level[index + 1])
             /\ d = "right" => parent = Node(level[index + 1], level[index + 2])
<1> DEFINE w == Len(level)
           m == index \div 2 + 1
<1>1. w \in Nat \ {0} /\ index \in 0..(w - 1)
  OBVIOUS
<1>2. \A x \in 1..((w + 1) \div 2) :
        Parents(level)[x] = IF 2 * x <= w THEN Node(level[2 * x - 1], level[2 * x]) ELSE level[2 * x - 1]
  BY ParentsAre
<1> HIDE DEF w
<1>3. m \in 1..((w + 1) \div 2)
  BY <1>1
<1>4. Parents(level)[m] = IF 2 * m <= w THEN Node(level[2 * m - 1], level[2 * m]) ELSE level[2 * m - 1]
  <2> HIDE DEF m
  <2> QED BY <1>2, <1>3
<1>5. Expected(index, w) = "none" => /\ ~(2 * m <= w) /\ 2 * m - 1 = index + 1
  BY <1>1, SiblingExpected DEF w
<1>6. Expected(index, w) = "left" => /\ 2 * m <= w /\ 2 * m - 1 = index /\ 2 * m = index + 1
  BY <1>1, SiblingExpected DEF w
<1>7. Expected(index, w) = "right" => /\ 2 * m <= w /\ 2 * m - 1 = index + 1 /\ 2 * m = index + 2
  BY <1>1, SiblingExpected DEF w
<1> QED
  <2> HIDE DEF m
  <2>1. index \div 2 + 1 = m
    BY DEF m
  <2> QED BY <1>4, <1>5, <1>6, <1>7, <2>1 DEF w

(* What a proof for the leaf at i is verified as, for whatever index j and    *)
(* leaf hash are claimed for it.                                              *)
Claim(leaves, i, j, leaf) ==
  [leaf_index |-> j, leaf_count |-> Len(leaves), leaf_hash |-> leaf,
   merkle_root |-> merkle_root(leaves), siblings |-> Below(leaves, i)[Len(leaves)]]

(* One level of the climb, for the claimed index and for the real one. *)
LEMMA LevelFacts ==
  ASSUME NEW leaves, Len(leaves) \in Nat \ {0}, NEW i \in 0..(Len(leaves) - 1),
         NEW j \in 0..(Len(leaves) - 1), NEW leaf, NEW k \in 1..Len(leaves)
  PROVE  LET n == Len(leaves)
             p == Claim(leaves, i, j, leaf)
             c == Climb(p)
             level == Levels(leaves)[k - 1]
             a == Ancestors(i, n)
             g == Ancestors(j, n)
         IN  /\ c[k] = ClimbStep(c[k - 1], p.siblings, Expected(g[k - 1], Len(level)))
             /\ Len(level) \in Nat \ {0} /\ Levels(leaves)[k] = Parents(level)
             /\ a[k - 1] \in 0..(Len(level) - 1) /\ g[k - 1] \in 0..(Len(level) - 1)
             /\ a[k] = a[k - 1] \div 2 /\ g[k] = g[k - 1] \div 2
             /\ Sibling(leaves, i, k) = SiblingOn(level, a[k - 1])
<1> DEFINE n == Len(leaves)
           p == Claim(leaves, i, j, leaf)
           level == Levels(leaves)[k - 1]
<1>1. k - 1 \in 0..n /\ k \in 0..n /\ n \in Nat
  OBVIOUS
<1>2. Len(level) = Widths(n)[k - 1] /\ Levels(leaves)[k] = Parents(level)
  BY <1>1, LevelsShape
<1>3. Widths(n)[k - 1] \in Nat \ {0}
  BY <1>1, WidthsShrink
<1>4. /\ Ancestors(i, n)[k - 1] \in 0..(Widths(n)[k - 1] - 1)
      /\ Ancestors(j, n)[k - 1] \in 0..(Widths(n)[k - 1] - 1)
  BY <1>1, AncestorsWithin
<1>5. /\ Ancestors(i, n)[k] = Ancestors(i, n)[k - 1] \div 2
      /\ Ancestors(j, n)[k] = Ancestors(j, n)[k - 1] \div 2
  <2>1. i \in Nat /\ j \in Nat /\ k \in 1..n
    OBVIOUS
  <2> HIDE DEF n
  <2>2. \A x \in Nat : \A m \in 1..n : Ancestors(x, n)[m] = Ancestors(x, n)[m - 1] \div 2
    BY <1>1, AncestorsDefined
  <2> QED BY <2>1, <2>2, Zenon
<1>6. p.leaf_count = n /\ p.leaf_index = j
  BY DEF Claim
<1>7. Climb(p)[k] = StepOf(Climb(p)[k - 1], p, k)
  <2> HIDE DEF p
  <2> QED BY <1>6, ClimbDefined
<1>8. StepOf(Climb(p)[k - 1], p, k)
        = ClimbStep(Climb(p)[k - 1], p.siblings, Expected(Ancestors(j, n)[k - 1], Len(level)))
  <2> HIDE DEF p
  <2> QED BY <1>2, <1>6, Zenon DEF StepOf
<1>9. Sibling(leaves, i, k) = SiblingOn(level, Ancestors(i, n)[k - 1])
  BY DEF Sibling
<1> HIDE DEF p, level, n
<1> QED BY <1>2, <1>3, <1>4, <1>5, <1>7, <1>8, <1>9 DEF p, level, n

(* Every level of a verification is a walk. *)
LEMMA ClimbWalks ==
  ASSUME NEW leaves, Len(leaves) \in Nat \ {0}, NEW i \in 0..(Len(leaves) - 1),
         NEW j \in 0..(Len(leaves) - 1), NEW leaf
  PROVE  \A k \in 0..Len(leaves) : Walk(Climb(Claim(leaves, i, j, leaf))[k])
<1> DEFINE n == Len(leaves)
           p == Claim(leaves, i, j, leaf)
           c == Climb(p)
           S == {k \in 0..n : Walk(c[k])}
<1>1. p.leaf_count = n
  BY DEF Claim
<1>2. c[0] = StartOf(p)
  <2> HIDE DEF p
  <2> QED BY <1>1, ClimbDefined
<1>3. 0 \in S
  <2> HIDE DEF p, c
  <2>1. Walk(c[0])
    BY <1>2 DEF StartOf, Walk
  <2> QED BY <2>1
<1>4. ASSUME NEW k \in 0..(n - 1), k \in S PROVE k + 1 \in S
  <2>1. k + 1 \in 1..n /\ (k + 1) - 1 = k /\ k + 1 \in 0..n
    OBVIOUS
  <2> DEFINE level == Levels(leaves)[k]
             g == Ancestors(j, n)
  <2>2. /\ c[k + 1] = ClimbStep(c[k], p.siblings, Expected(g[k], Len(level)))
        /\ Len(level) \in Nat \ {0} /\ g[k] \in 0..(Len(level) - 1)
    <3> HIDE DEF c, p, g
    <3> QED BY SMTT(30), <2>1, LevelFacts DEF c, p, g
  <2> HIDE DEF c, p, level, g
  <2>3. Expected(g[k], Len(level)) \in {"none", "left", "right"}
    BY <2>2, SiblingExpected
  <2>4. Walk(c[k + 1])
    BY <1>4, <2>2, <2>3, StepWalks
  <2> QED BY <2>1, <2>4
<1>5. 0..n \subseteq S
  <2> HIDE DEF S
  <2> QED BY <1>3, <1>4, InductionUpTo
<1> QED
  <2> HIDE DEF p, c
  <2>1. \A k \in 0..n : Walk(c[k])
    BY <1>5
  <2> QED BY <2>1 DEF p, c

(* A proof that verifies is at its own index: the levels where a sibling is   *)
(* missing, and its side where there is one, determine the index.             *)
LEMMA VerifiedIndex ==
  ASSUME NEW leaves, Len(leaves) \in Nat \ {0}, NEW i \in 0..(Len(leaves) - 1),
         NEW j \in 0..(Len(leaves) - 1), NEW leaf, NEW root,
         verify_inclusion_proof(Claim(leaves, i, j, leaf), root)
  PROVE  i = j
<1> DEFINE n == Len(leaves)
           p == Claim(leaves, i, j, leaf)
           c == Climb(p)
           b == Below(leaves, i)
           s == b[n]
           a == Ancestors(i, n)
           g == Ancestors(j, n)
           S == {k \in 0..n : c[k].ok /\ c[k].used = Len(b[k]) /\ a[k] = g[k]}
<1>1. p.leaf_count = n /\ p.siblings = s
  BY DEF Claim
<1>2. c[n].ok /\ c[n].used = Len(s)
  <2>1. verify_inclusion_proof(p, root)
    OBVIOUS
  <2> HIDE DEF p, s
  <2> QED BY <1>1, <2>1, VerifyUnfolded
<1>3. n \in S
  <2>1. n \in 0..n /\ Widths(n)[n] = 1
    BY WidthsShrink
  <2>2. a[n] = 0 /\ g[n] = 0
    BY <2>1, AncestorsWithin
  <2> HIDE DEF c, b, a, g
  <2> QED BY <1>2, <2>1, <2>2 DEF s
<1>4. ASSUME NEW k \in 1..n, k \in S PROVE k - 1 \in S
  <2> DEFINE level == Levels(leaves)[k - 1]
             d == Expected(g[k - 1], Len(level))
             u == c[k - 1]
             v == c[k]
             Sib == Sibling(leaves, i, k)
  <2>1. /\ v = ClimbStep(u, s, d)
        /\ Len(level) \in Nat \ {0}
        /\ a[k - 1] \in 0..(Len(level) - 1) /\ g[k - 1] \in 0..(Len(level) - 1)
        /\ a[k] = a[k - 1] \div 2 /\ g[k] = g[k - 1] \div 2
        /\ Sib = SiblingOn(level, a[k - 1])
    <3> HIDE DEF p, a, g, s, level
    <3> QED BY <1>1, LevelFacts DEF p, a, g, s, level
  <2>2. Walk(u)
    <3>1. k - 1 \in 0..n
      OBVIOUS
    <3> QED BY <3>1, ClimbWalks
  <2>3. /\ Len(b[k - 1]) \in Nat /\ Len(b[k]) = Len(b[k - 1]) + Len(Sib)
        /\ \A x : Sib = <<x>> => s[Len(b[k])] = x
    BY BelowIsPrefix
  <2>4. v.ok /\ v.used = Len(b[k]) /\ a[k] = g[k]
    BY <1>4
  <2> HIDE DEF p, c, b, s, a, g, level, Sib, u, v, d
  <2>5. d \in {"none", "left", "right"}
    BY <2>1, SiblingExpected DEF d
  <2>6. /\ u.ok /\ (d = "none" => v = u)
        /\ d # "none" => v.used = u.used + 1 /\ s[u.used + 1].direction = d
    BY SMTT(30), <2>1, <2>2, <2>4, <2>5, StepWalks
  <2>7. u.used \in Nat
    BY <2>2 DEF Walk
  <2> DEFINE e == Expected(a[k - 1], Len(level))
  <2>8. /\ d = "none" => g[k - 1] % 2 = 0 /\ g[k - 1] + 1 = Len(level)
        /\ d = "left" => g[k - 1] % 2 = 1
        /\ d = "right" => g[k - 1] % 2 = 0 /\ g[k - 1] + 1 < Len(level)
    BY <2>1, SiblingExpected DEF d
  <2>9. /\ e \in {"none", "left", "right"}
        /\ e = "none" => Sib = <<>> /\ a[k - 1] % 2 = 0 /\ a[k - 1] + 1 = Len(level)
        /\ e = "left" => Sib = <<[direction |-> e, hash |-> level[a[k - 1]]]>> /\ a[k - 1] % 2 = 1
        /\ e = "right" => Sib = <<[direction |-> e, hash |-> level[a[k - 1] + 2]]>>
                          /\ a[k - 1] % 2 = 0 /\ a[k - 1] + 1 < Len(level)
    BY <2>1, SiblingExpected
  <2> HIDE DEF e
  <2>10. e # "none" => Len(Sib) = 1 /\ s[Len(b[k])].direction = e
    <3>1. ASSUME NEW x, Sib = <<x>> PROVE Len(Sib) = 1
      BY <3>1
    <3> QED BY <2>3, <2>9, <3>1
  <2>11. e = "none" => Len(Sib) = 0
    BY <2>9
  <2>12. d = e
    <3>1. CASE e = "none"
      <4>1. a[k - 1] % 2 = 0 /\ a[k - 1] + 1 = Len(level)
        BY <2>9, <3>1
      <4>2. g[k - 1] = a[k - 1]
        BY SMTT(30), <2>1, <2>4, <4>1
      <4> QED BY <4>2 DEF d, e
    <3>2. CASE d = "none"
      <4>1. g[k - 1] % 2 = 0 /\ g[k - 1] + 1 = Len(level)
        BY <2>8, <3>2
      <4>2. g[k - 1] = a[k - 1]
        BY SMTT(30), <2>1, <2>4, <4>1
      <4> QED BY <4>2 DEF d, e
    <3>3. CASE d # "none" /\ e # "none"
      BY <2>4, <2>6, <2>10, <3>3
    <3> QED BY <3>1, <3>2, <3>3
  <2>13. a[k - 1] = g[k - 1]
    <3>1. a[k - 1] % 2 = g[k - 1] % 2
      BY <2>5, <2>8, <2>9, <2>12
    <3>2. a[k - 1] \in Nat /\ g[k - 1] \in Nat /\ a[k - 1] \div 2 = g[k - 1] \div 2
      BY <2>1, <2>4
    <3>3. \A x, y \in Nat : x % 2 = y % 2 /\ x \div 2 = y \div 2 => x = y
      OBVIOUS
    <3> QED BY <3>1, <3>2, <3>3
  <2>14. u.used = Len(b[k - 1])
    <3>1. CASE e = "none"
      BY <2>3, <2>4, <2>6, <2>7, <2>11, <2>12, <3>1
    <3>2. CASE e # "none"
      <4>1. v.used = u.used + 1 /\ v.used = Len(b[k - 1]) + 1
        BY <2>3, <2>4, <2>6, <2>10, <2>12, <3>2
      <4> QED BY SMTT(30), <2>3, <2>7, <4>1
    <3> QED BY <3>1, <3>2
  <2>15. k - 1 \in 0..n
    OBVIOUS
  <2> QED BY <2>6, <2>13, <2>14, <2>15 DEF u
<1>5. 0..n \subseteq S
  <2> HIDE DEF S
  <2> QED BY <1>3, <1>4, InductionDown
<1>6. a[0] = g[0]
  <2> HIDE DEF c, b, a, g
  <2>1. 0 \in 0..n
    OBVIOUS
  <2> QED BY <1>5, <2>1
<1>7. i \in Nat /\ j \in Nat /\ n \in Nat
  OBVIOUS
<1>8. a[0] = i /\ g[0] = j
  <2> HIDE DEF n
  <2> QED BY <1>7, AncestorsDefined
<1> HIDE DEF a, g
<1> QED BY <1>6, <1>8

(* At its own index it verifies for its own leaf only. *)
LEMMA VerifiedLeaf ==
  ASSUME NEW leaves, Len(leaves) \in Nat \ {0}, NEW i \in 0..(Len(leaves) - 1), NEW leaf
  PROVE  verify_inclusion_proof(Claim(leaves, i, i, leaf), merkle_root(leaves)) <=> leaf = leaves[i + 1]
<1> DEFINE n == Len(leaves)
           p == Claim(leaves, i, i, leaf)
           c == Climb(p)
           b == Below(leaves, i)
           s == b[n]
           a == Ancestors(i, n)
           h(k) == Levels(leaves)[k][a[k] + 1]
           S == {k \in 0..n : c[k].ok /\ c[k].used = Len(b[k]) /\ (c[k].computed = h(k) <=> leaf = leaves[i + 1])}
<1>1. /\ p.leaf_count = n /\ p.siblings = s /\ p.leaf_index = i /\ p.leaf_hash = leaf
      /\ p.merkle_root = merkle_root(leaves)
  BY DEF Claim
<1>2. 0 \in S
  <2>1. c[0] = StartOf(p)
    <3> HIDE DEF p
    <3> QED BY <1>1, ClimbDefined
  <2>2. c[0].ok /\ c[0].used = 0 /\ c[0].computed = leaf
    <3> HIDE DEF p, c
    <3> QED BY <1>1, <2>1 DEF StartOf
  <2>3. a[0] = i /\ Levels(leaves)[0] = leaves
    <3>1. i \in Nat /\ n \in Nat
      OBVIOUS
    <3>2. a[0] = i
      <4> HIDE DEF n
      <4> QED BY <3>1, AncestorsDefined
    <3>3. Levels(leaves)[0] = leaves
      BY LevelsDefined
    <3> QED BY <3>2, <3>3
  <2>4. Len(b[0]) = 0
    BY BelowIsPrefix
  <2> HIDE DEF c, b, a
  <2> QED BY <2>2, <2>3, <2>4
<1>3. ASSUME NEW k0 \in 0..(n - 1), k0 \in S PROVE k0 + 1 \in S
  <2> DEFINE k == k0 + 1
  <2>0. k \in 1..n /\ k - 1 = k0 /\ k \in 0..n
    OBVIOUS
  <2> DEFINE level == Levels(leaves)[k - 1]
             d == Expected(a[k - 1], Len(level))
             u == c[k - 1]
             v == c[k]
             Sib == Sibling(leaves, i, k)
             x == a[k - 1]
  <2>1. /\ v = ClimbStep(u, s, d)
        /\ Len(level) \in Nat \ {0} /\ Levels(leaves)[k] = Parents(level)
        /\ x \in 0..(Len(level) - 1) /\ a[k] = x \div 2
        /\ Sib = SiblingOn(level, x)
    <3> HIDE DEF p, a, s, level, k
    <3> QED BY <1>1, <2>0, LevelFacts DEF p, a, s, level
  <2>2. Walk(u)
    <3>1. k - 1 \in 0..n
      OBVIOUS
    <3> QED BY <3>1, ClimbWalks
  <2>3. /\ Len(s) \in Nat /\ Len(b[k - 1]) \in Nat /\ Len(b[k]) = Len(b[k - 1]) + Len(Sib)
        /\ Len(b[k]) <= Len(s)
        /\ \A y : Sib = <<y>> => s[Len(b[k])] = y
    <3>1. \A m \in 1..n : /\ Len(s) \in Nat /\ Len(b[m - 1]) \in Nat
                           /\ Len(b[m]) = Len(b[m - 1]) + Len(Sibling(leaves, i, m))
                           /\ Len(b[m]) \in 0..Len(s)
                           /\ \A y : Sibling(leaves, i, m) = <<y>> => s[Len(b[m])] = y
      BY BelowIsPrefix
    <3> HIDE DEF k, b, s
    <3> QED BY <2>0, <3>1
  <2>4. u.ok /\ u.used = Len(b[k - 1]) /\ (u.computed = level[x + 1] <=> leaf = leaves[i + 1])
    <3> HIDE DEF c, b, a
    <3> QED BY <1>3, <2>0
  <2>5. h(k) = Parents(level)[x \div 2 + 1]
    <3> HIDE DEF a, level, k
    <3> QED BY <2>1
  <2> HIDE DEF p, c, b, s, a, level, Sib, u, v, x, k, h
  <2>6. /\ d = "none" => h(k) = level[x + 1]
        /\ d = "left" => h(k) = Node(level[x], level[x + 1])
        /\ d = "right" => h(k) = Node(level[x + 1], level[x + 2])
    BY <2>1, <2>5, ParentOf DEF x
  <2>7. /\ d \in {"none", "left", "right"}
        /\ d = "none" => Sib = <<>>
        /\ d = "left" => Sib = <<[direction |-> d, hash |-> level[x]]>>
        /\ d = "right" => Sib = <<[direction |-> d, hash |-> level[x + 2]]>>
    BY <2>1, SiblingExpected DEF x
  <2> HIDE DEF d
  <2>8. v.ok /\ v.used = Len(b[k]) /\ (v.computed = h(k) <=> u.computed = level[x + 1])
    <3>1. CASE d = "none"
      <4>1. v = u
        BY <2>1, <2>2, <2>4, <2>7, <3>1, StepWalks
      <4>2. Len(Sib) = 0
        BY <2>7, <3>1
      <4> QED BY <2>3, <2>4, <2>6, <3>1, <4>1, <4>2
    <3>2. ASSUME NEW y, Sib = <<y>>, y.direction = d, d # "none"
          PROVE  /\ v.ok /\ v.used = Len(b[k])
                 /\ v.computed = IF d = "left" THEN Node(y.hash, u.computed) ELSE Node(u.computed, y.hash)
      <4>1. Len(Sib) = 1
        BY <3>2
      <4>2. Len(b[k]) = u.used + 1 /\ u.used # Len(s) /\ s[u.used + 1] = y
        BY <2>3, <2>4, <3>2, <4>1
      <4>3. v = ClimbStep(u, s, d) /\ Walk(u) /\ u.ok /\ d \in {"none", "left", "right"}
        BY <2>1, <2>2, <2>4, <2>7
      <4>4. v.ok
        BY <3>2, <4>2, <4>3, StepWalks
      <4>5. v.used = u.used + 1 /\ v.computed = IF d = "left" THEN Node(y.hash, u.computed)
                                                 ELSE Node(u.computed, y.hash)
        BY <3>2, <4>2, <4>3, <4>4, StepWalks
      <4> QED BY <4>2, <4>4, <4>5
    <3>3. CASE d = "left"
      <4>1. v.ok /\ v.used = Len(b[k]) /\ v.computed = Node(level[x], u.computed)
        BY <2>7, <3>2, <3>3
      <4> QED BY <2>6, <3>3, <4>1 DEF Node
    <3>4. CASE d = "right"
      <4>1. v.ok /\ v.used = Len(b[k]) /\ v.computed = Node(u.computed, level[x + 2])
        BY <2>7, <3>2, <3>4
      <4> QED BY <2>6, <3>4, <4>1 DEF Node
    <3> QED BY <2>7, <3>1, <3>3, <3>4
  <2>9. k \in S
    BY <2>0, <2>4, <2>8 DEF v
  <2> QED BY <2>9 DEF k
<1>4. 0..n \subseteq S
  <2> HIDE DEF S
  <2> QED BY <1>2, <1>3, InductionUpTo
<1>5. h(n) = merkle_root(leaves)
  <2>1. n \in 0..n /\ Widths(n)[n] = 1
    BY WidthsShrink
  <2>2. a[n] = 0
    BY <2>1, AncestorsWithin
  <2>3. leaves # <<>>
    OBVIOUS
  <2> HIDE DEF a
  <2> QED BY <2>2, <2>3 DEF merkle_root
<1>6. c[n].ok /\ c[n].used = Len(s) /\ (c[n].computed = merkle_root(leaves) <=> leaf = leaves[i + 1])
  <2> HIDE DEF c, b, h
  <2> QED BY <1>4, <1>5 DEF s
<1>7. verify_inclusion_proof(p, merkle_root(leaves)) <=>
        /\ i \in 0..(n - 1) /\ c[n].ok /\ c[n].used = Len(s) /\ c[n].computed = merkle_root(leaves)
  <2> HIDE DEF p
  <2> QED BY <1>1, VerifyUnfolded
<1> HIDE DEF p, c, s, b
<1> QED BY <1>6, <1>7 DEF p

(* Against the root of a stored summary the inclusion proof of a leaf         *)
(* verifies for that leaf and at that index only, whatever the number of     *)
(* leaves (build_inclusion_proof, verify_inclusion_proof).                   *)
THEOREM InclusionProofsAreExact == Spec => []ProofsAreExact
<1>1. ASSUME SummaryInv, summary.chain_head \notin {None, <<>>} ,
             NEW i \in 0..(Len(LeavesOf(summary.chain_head)) - 1),
             NEW j \in 0..(Len(LeavesOf(summary.chain_head)) - 1), NEW e \in Events
      PROVE  verify_inclusion_proof(
               [build_inclusion_proof(LeavesOf(summary.chain_head), i)
                  EXCEPT !.leaf_index = j, !.leaf_hash = Leaf(e)], summary.merkle_root)
               <=> i = j /\ Leaf(e) = LeavesOf(summary.chain_head)[i + 1]
  <2> DEFINE head == summary.chain_head
             leaves == LeavesOf(head)
             p == Claim(leaves, i, j, Leaf(e))
  <2>1. head \in Seq(Events) /\ head # <<>> /\ summary.merkle_root = merkle_root(leaves)
    BY <1>1 DEF SummaryInv
  <2>2. Len(leaves) \in Nat \ {0}
    <3> HIDE DEF head
    <3>1. leaves = [k \in 1..Len(head) |-> leaves[k]] /\ Len(head) \in Nat \ {0}
      BY <2>1 DEF LeavesOf
    <3> QED BY <3>1, LenOf
  <2> HIDE DEF leaves, head
  <2>3. [build_inclusion_proof(leaves, i) EXCEPT !.leaf_index = j, !.leaf_hash = Leaf(e)] = p
    <3>1. build_inclusion_proof(leaves, i) =
            [leaf_index |-> i, leaf_count |-> Len(leaves), leaf_hash |-> leaves[i + 1],
             merkle_root |-> merkle_root(leaves), siblings |-> Below(leaves, i)[Len(leaves)]]
      BY BuildUnfolded
    <3> DEFINE r == build_inclusion_proof(leaves, i)
               v == [r EXCEPT !.leaf_index = j, !.leaf_hash = Leaf(e)]
    <3> HIDE DEF r
    <3>2. v = [r EXCEPT !.leaf_index = j, !.leaf_hash = Leaf(e)]
      OBVIOUS
    <3> HIDE DEF v
    <3>3. v = p
      <4>1. r = [leaf_index |-> i, leaf_count |-> Len(leaves), leaf_hash |-> leaves[i + 1],
                 merkle_root |-> merkle_root(leaves), siblings |-> Below(leaves, i)[Len(leaves)]]
        BY <3>1 DEF r
      <4>2. v = [leaf_index |-> j, leaf_count |-> Len(leaves), leaf_hash |-> Leaf(e),
                 merkle_root |-> merkle_root(leaves), siblings |-> Below(leaves, i)[Len(leaves)]]
        BY <3>2, <4>1
      <4> QED BY <4>2 DEF Claim
    <3> QED BY <3>3 DEF v, r
  <2>4. verify_inclusion_proof(p, merkle_root(leaves)) => i = j
    BY <2>2, VerifiedIndex DEF leaves, head
  <2>5. i = j => (verify_inclusion_proof(p, merkle_root(leaves)) <=> Leaf(e) = leaves[i + 1])
    BY <2>2, VerifiedLeaf DEF leaves, head
  <2> QED BY <2>1, <2>3, <2>4, <2>5, Zenon DEF leaves, head
<1>2. SummaryInv => ProofsAreExact
  BY <1>1, Zenon DEF ProofsAreExact
<1> QED BY <1>2, LogTypes, PTL
-----------------------------------------------------------------------------
(* The order of what is written. *)

(* What is in file f, or will be if nothing goes wrong. *)
Full(f) == IF f = handle THEN data[f] \o pending ELSE data[f]

(* Piece p was written before piece q. *)
Before(p, q) ==
  p.rec.sequence < q.rec.sequence \/ (p.rec.sequence = q.rec.sequence /\ p.part < q.part)
Ordered(text) == \A i, j \in 1..Len(text) : i < j => Before(text[i], text[j])

(* The sequence numbers up to here are taken. *)
Earlier(seq) ==
  seq < next_seq /\ \A t \in Threads : pc[t] = "write" => seq < rec[t].sequence

OrderInv ==
  /\ \A t \in Threads : pc[t] = "write" => rec[t].sequence < next_seq
  /\ \A f \in Files :
       /\ f > handle => Full(f) = <<>>
       /\ Ordered(Full(f))
       /\ \A i \in 1..Len(Full(f)) : Earlier(Full(f)[i].rec.sequence)
       /\ \A g \in Files : f < g =>
            \A i \in 1..Len(Full(f)), j \in 1..Len(Full(g)) : Before(Full(f)[i], Full(g)[j])

-----------------------------------------------------------------------------
(* What the tail has not read yet lies behind all it has read. *)
Unread(f, i) ==
  \/ f > tfile
  \/ f = tfile /\ (i > tpos \/ tpos > Len(data[f]) \/ (tail = "open" /\ handle = f))

(* A record is yielded at its first piece: what follows starts a later one. *)
After(r, p) == r.sequence < p.rec.sequence \/ (r.sequence = p.rec.sequence /\ p.part > 1)

TailTypes ==
  /\ tail \in {"off", "wait", "open", "read", "sleep", "raised", "garbled", "stopped"}
  /\ tfile \in 0..handle /\ tpos \in Nat
  /\ buf \in Seq(Piece) /\ yielded \in Seq(AllRecords)
  /\ tail \in {"read", "sleep"} => tfile # 0
  /\ tail \in {"off", "wait"} => tfile = 0
  /\ tfile = 0 => buf = <<>> /\ tpos = 0 /\ yielded = <<>>
  /\ tail # "off" => "damaged" \notin mishaps

TailOrder ==
  /\ \A i, j \in 1..Len(yielded) : i < j => yielded[i].sequence < yielded[j].sequence
  /\ Ordered(buf)
  /\ \A i \in 1..Len(yielded) : Earlier(yielded[i].sequence)
  /\ \A i \in 1..Len(buf) : Earlier(buf[i].rec.sequence)
  /\ \A i \in 1..Len(yielded), j \in 1..Len(buf) : After(yielded[i], buf[j])
  /\ \A f \in Files : \A i \in 1..Len(Full(f)) : Unread(f, i) =>
       /\ \A k \in 1..Len(yielded) : After(yielded[k], Full(f)[i])
       /\ \A k \in 1..Len(buf) : Before(buf[k], Full(f)[i])

-----------------------------------------------------------------------------
(* A text in which every line but the last is all of one record, and the last *)
(* a beginning of one.                                                        *)
InLine(text, s, i) ==
  /\ s = 0 \/ text[s].newline
  /\ \A j \in (s + 1)..i : text[j].rec = text[i].rec /\ text[j].part = j - s /\ (j < i => ~text[j].newline)
WholeLines(text) ==
  \A i \in 1..Len(text) : text[i].part <= i /\ InLine(text, i - text[i].part, i)

LineInv ==
  /\ \A f \in Files : WholeLines(Full(f))
  /\ Alive => (Full(handle) = <<>> \/ Full(handle)[Len(Full(handle))].newline)

Kept == mishaps \cap {"truncated", "lost", "damaged"} = {}

(* The buffer of the tail is what it has read of the current line. *)
Buffered(s) ==
  /\ s = 0 \/ data[tfile][s].newline
  /\ buf = SubSeq(data[tfile], s + 1, tpos)
  /\ \A j \in (s + 1)..tpos : ~data[tfile][j].newline
TailLines ==
  /\ tail # "garbled"
  /\ tfile # 0 =>
       /\ tpos <= Len(data[tfile])
       /\ \E s \in 0..tpos : Buffered(s)
       /\ \A i \in 1..tpos : data[tfile][i].newline =>
            \E k \in 1..Len(yielded) : yielded[k] = data[tfile][i].rec

-----------------------------------------------------------------------------
(* The chain of a log that has been written through one handle. *)
Genuine(r) ==
  /\ r.leaf_hash = Leaf(r.event) /\ r.event_json = r.event
  /\ r.chain_hash = hash_chain(r.prev_chain, r.leaf_hash)

NextSequence(text) == IF text = <<>> THEN 0 ELSE text[Len(text)].rec.sequence + 1
LastChain(text) == IF text = <<>> THEN <<>> ELSE text[Len(text)].rec.chain_hash
Linked(text) ==
  \A i \in 1..Len(text) : text[i].part = 1 =>
    /\ text[i].rec.sequence = NextSequence(SubSeq(text, 1, i - 1))
    /\ text[i].rec.prev_chain = LastChain(SubSeq(text, 1, i - 1))

Chained(text) == (\A i \in 1..Len(text) : Genuine(text[i].rec)) /\ Linked(text)
Continues(seq, chain, text) == seq = NextSequence(text) /\ chain = LastChain(text)

FileChain ==
  /\ handle = 1 /\ path = 1
  /\ Chained(Full(1))
  /\ \A n \in acked : \E k \in 1..Len(data[1]) : data[1][k].rec.sequence = n
RecorderChain ==
  /\ \A t \in Threads : pc[t] = "flush" => \E k \in 1..Len(Full(1)) : Full(1)[k].rec = rec[t]
  /\ \A t \in Threads : pc[t] = "write" =>
       /\ Genuine(rec[t]) /\ Continues(rec[t].sequence, rec[t].prev_chain, Full(1))
       /\ next_seq = rec[t].sequence + 1 /\ prev_chain = rec[t].chain_hash
  /\ (\A t \in Threads : pc[t] # "write") => Continues(next_seq, prev_chain, Full(1))
ChainInv == FileChain /\ (Alive => RecorderChain)

LogInv ==
  /\ TypeInv /\ SummaryInv
  /\ "damaged" \notin mishaps => OrderInv
  /\ Kept => LineInv
  /\ mishaps \subseteq {"crashed"} => ChainInv
TailInv ==
  /\ TailTypes
  /\ tail # "off" => TailOrder
  /\ tail # "off" /\ Kept => TailLines

-----------------------------------------------------------------------------
(* What a step does to the files, whoever takes it. *)
Moves ==
  /\ handle' \in Files /\ handle <= handle'
  /\ \A f \in Files : Full(f)' = Full(f) /\ Len(data[f]) <= Len(data'[f])
Loses ==
  /\ handle' \in Files /\ handle <= handle' /\ data' = data
  /\ \A f \in Files : Full(f)' = data[f]
  /\ "lost" \in mishaps' \/ ~Alive'

(* A file is a prefix of itself with the buffer of its handle. *)
LEMMA FullType ==
  ASSUME TypeInv, NEW f \in Files
  PROVE  /\ Full(f) \in Seq(Piece) /\ data[f] \in Seq(Piece)
         /\ Len(data[f]) <= Len(Full(f))
         /\ \A i \in 1..Len(data[f]) : Full(f)[i] = data[f][i]
         /\ f # handle => Full(f) = data[f]
         /\ f = handle => Len(Full(f)) = Len(data[f]) + Len(pending)
<1>1. data[f] \in Seq(Piece) /\ pending \in Seq(Piece)
  BY DEF TypeInv, FileTypes
<1>2. CASE f = handle
  <2>1. Full(f) = data[f] \o pending
    BY <1>2 DEF Full
  <2> QED BY <1>1, <1>2, <2>1
<1>3. CASE f # handle
  BY <1>1, <1>3 DEF Full
<1> QED BY <1>2, <1>3

(* A step that touches no file moves nothing. *)
LEMMA SameFiles ==
  ASSUME TypeInv, UNCHANGED <<data, pending, handle>>
  PROVE  Moves
BY DEF Moves, Full, TypeInv, FileTypes, Files

(* No accident is forgotten. *)
LEMMA MishapsGrow ==
  ASSUME [TrailNext]_trailVars
  PROVE  mishaps \subseteq mishaps'
<1>1. ASSUME WriterNext PROVE mishaps \subseteq mishaps'
  <2>1. ASSUME NEW t \in Threads, NEW e \in Events, Build(t, e) \/ RecordOnly(t, e)
        PROVE  mishaps \subseteq mishaps'
    BY <2>1 DEF Build, RecordOnly, Happens, historyVars
  <2>2. ASSUME NEW t \in Threads, WriteLine(t) \/ FlushPiece(t) \/ FlushEnds(t) \/ FlushFails(t)
        PROVE  mishaps \subseteq mishaps'
    BY <2>2 DEF WriteLine, FlushPiece, FlushEnds, FlushFails, historyVars
  <2>3. ASSUME Reopen \/ Rotate \/ Truncate \/ Crash PROVE mishaps \subseteq mishaps'
    BY <2>3 DEF Reopen, Rotate, Truncate, Crash, Happens
  <2> QED BY <1>1, <2>1, <2>2, <2>3, Zenon DEF WriterNext
<1>2. ASSUME UNCHANGED logVars \/ Damage PROVE mishaps \subseteq mishaps'
  BY <1>2 DEF logVars, historyVars, Damage, Happens
<1> QED BY <1>1, <1>2 DEF TrailNext, trailVars

(* Opening a file keeps or loses a buffer. *)
LEMMA ReopenFiles ==
  ASSUME TypeInv, Reopen
  PROVE  Moves \/ Loses
<1>1. /\ handle' \in Files /\ handle' = path' /\ handle' \in {handle, handle + 1} /\ pending' = <<>>
      /\ handle \in Files /\ data \in [Files -> Seq(Piece)] /\ pending \in Seq(Piece)
  BY DEF Reopen, TypeInv, FileTypes
<1>2. handle <= handle'
  BY <1>1 DEF Files
<1>3. CASE data' = [data EXCEPT ![handle] = @ \o pending]
  <2>1. ASSUME NEW f \in Files PROVE Full(f)' = Full(f) /\ Len(data[f]) <= Len(data'[f])
    <3>1. data'[f] = Full(f) /\ Full(f) \in Seq(Piece) /\ Len(data[f]) <= Len(Full(f))
      BY <1>1, <1>3, FullType DEF Full
    <3>2. Full(f)' = data'[f]
      <4>1. data'[f] \o <<>> = data'[f]
        BY <3>1
      <4> QED BY <1>1, <4>1 DEF Full
    <3> QED BY <3>1, <3>2
  <2> QED BY <1>1, <1>2, <2>1 DEF Moves
<1>4. CASE UNCHANGED data /\ Happens("lost")
  <2>1. ASSUME NEW f \in Files PROVE Full(f)' = data[f]
    <3>1. data[f] \o <<>> = data[f]
      BY <1>1
    <3> QED BY <1>1, <1>4, <3>1 DEF Full
  <2> QED BY <1>1, <1>2, <1>4, <2>1 DEF Loses, Happens
<1> QED BY <1>3, <1>4 DEF Reopen

(* A flush moves a piece from the buffer into the file. *)
LEMMA FlushFiles ==
  ASSUME TypeInv, NEW t \in Threads, FlushPiece(t)
  PROVE  Moves
<1>1. /\ handle' = handle /\ handle \in Files /\ data \in [Files -> Seq(Piece)] /\ pending \in Seq(Piece)
      /\ pending # <<>> /\ pending' = Tail(pending)
      /\ data' = [data EXCEPT ![handle] = Append(@, Head(pending))]
  BY DEF FlushPiece, TypeInv, FileTypes
<1>2. ASSUME NEW f \in Files PROVE Full(f)' = Full(f) /\ Len(data[f]) <= Len(data'[f])
  <2>1. CASE f = handle
    <3>1. data'[f] = Append(data[f], Head(pending)) /\ data[f] \in Seq(Piece)
      BY <1>1, <2>1
    <3>2. Append(data[f], Head(pending)) \o Tail(pending) = data[f] \o pending
      BY <1>1, <3>1
    <3> QED BY <1>1, <2>1, <3>1, <3>2 DEF Full
  <2>2. CASE f # handle
    BY <1>1, <2>2 DEF Full
  <2> QED BY <2>1, <2>2
<1> QED BY <1>1, <1>2 DEF Moves, Files

(* What a step does to the files: it moves, loses, truncates or writes. *)
LEMMA FileSteps ==
  ASSUME TypeInv, [TrailNext]_trailVars, "damaged" \notin mishaps'
  PROVE  Moves \/ Loses \/ Truncate \/ \E t \in Threads : WriteLine(t)
<1>1. ASSUME WriterNext PROVE Moves \/ Loses \/ Truncate \/ \E t \in Threads : WriteLine(t)
  <2>1. ASSUME NEW t \in Threads, NEW e \in Events, Build(t, e) \/ RecordOnly(t, e) PROVE Moves
    BY <2>1, SameFiles DEF Build, RecordOnly, fileVars
  <2>2. ASSUME NEW t \in Threads, FlushPiece(t) PROVE Moves
    BY <2>2, FlushFiles
  <2>3. ASSUME NEW t \in Threads, FlushEnds(t) \/ FlushFails(t) PROVE Moves
    BY <2>3, SameFiles DEF FlushEnds, FlushFails, fileVars
  <2>4. ASSUME Rotate PROVE Moves
    BY <2>4, SameFiles DEF Rotate
  <2>5. ASSUME Crash PROVE Loses
    <3>1. /\ handle' = handle /\ handle \in Files /\ data \in [Files -> Seq(Piece)] /\ pending' = <<>>
          /\ data' = data /\ Happens("crashed")
      BY <2>5 DEF Crash, TypeInv, FileTypes
    <3>2. ASSUME NEW f \in Files PROVE Full(f)' = data[f]
      <4>1. data[f] \o <<>> = data[f]
        BY <3>1
      <4> QED BY <3>1, <4>1 DEF Full
    <3> QED BY <3>1, <3>2 DEF Loses, Files, Alive, Happens
  <2> QED BY <1>1, <2>1, <2>2, <2>3, <2>4, <2>5, ReopenFiles, Zenon DEF WriterNext
<1>2. ASSUME UNCHANGED logVars PROVE Moves
  BY <1>2, SameFiles DEF logVars, fileVars
<1>3. ~Damage
  BY DEF Damage, Happens
<1> QED BY <1>1, <1>2, <1>3 DEF TrailNext, trailVars

(* Numbers that are taken stay taken. *)
LEMMA EarlierKept ==
  ASSUME TypeInv, [TrailNext]_trailVars, \A t \in Threads : pc[t] = "write" => rec[t].sequence < next_seq
  PROVE  /\ \A t \in Threads : pc'[t] = "write" => rec'[t].sequence < next_seq'
         /\ \A seq \in Nat : Earlier(seq) => Earlier(seq)'
<1>0. next_seq \in Nat /\ DOMAIN pc = Threads /\ DOMAIN rec = Threads
  BY DEF TypeInv, RecorderTypes
<1>1. ASSUME NEW t \in Threads, NEW e \in Events, Build(t, e)
      PROVE  /\ \A x \in Threads : pc'[x] = "write" => rec'[x].sequence < next_seq'
             /\ \A seq \in Nat : Earlier(seq) => Earlier(seq)'
  <2>1. /\ next_seq' = next_seq + 1 /\ pc' = [pc EXCEPT ![t] = "write"]
        /\ rec' = [rec EXCEPT ![t] = RecordOf(next_seq, prev_chain, e)]
    BY <1>1 DEF Build, BuildRecord
  <2>2. rec'[t].sequence = next_seq
    BY <1>0, <2>1 DEF RecordOf
  <2>3. \A x \in Threads : x # t => pc'[x] = pc[x] /\ rec'[x] = rec[x]
    BY <1>0, <2>1
  <2>4. \A x \in Threads : x # t => pc'[x] # "write"
    BY <1>1, <2>3, AuditAssumption DEF Build, LockIsFree, TypeInv, LockInv
  <2> QED BY <1>0, <2>1, <2>2, <2>4 DEF Earlier
<1>2. ASSUME NEW t \in Threads, NEW e \in Events, RecordOnly(t, e)
      PROVE  /\ \A x \in Threads : pc'[x] = "write" => rec'[x].sequence < next_seq'
             /\ \A seq \in Nat : Earlier(seq) => Earlier(seq)'
  <2>1. next_seq' = next_seq + 1 /\ pc' = pc /\ rec' = rec
    BY <1>2 DEF RecordOnly, BuildRecord
  <2>2. \A x \in Threads : pc[x] # "write"
    BY <1>0, <1>2, AuditAssumption DEF RecordOnly, LockIsFree, TypeInv, LockInv
  <2> QED BY <1>0, <2>1, <2>2 DEF Earlier
<1>3. ASSUME next_seq' = next_seq,
             \A x \in Threads : pc'[x] = "write" => pc[x] = "write" /\ rec'[x] = rec[x]
      PROVE  /\ \A x \in Threads : pc'[x] = "write" => rec'[x].sequence < next_seq'
             /\ \A seq \in Nat : Earlier(seq) => Earlier(seq)'
  BY <1>3 DEF Earlier
<1>4. ASSUME NEW t \in Threads, WriteLine(t) \/ FlushPiece(t) \/ FlushEnds(t) \/ FlushFails(t)
      PROVE  /\ next_seq' = next_seq
             /\ \A x \in Threads : pc'[x] = "write" => pc[x] = "write" /\ rec'[x] = rec[x]
  BY <1>0, <1>4 DEF WriteLine, FlushPiece, FlushEnds, FlushFails, Unlock, recorderVars
<1>5. ASSUME Reopen \/ Rotate \/ Truncate \/ Crash \/ Damage \/ UNCHANGED logVars
      PROVE  /\ next_seq' = next_seq
             /\ \A x \in Threads : pc'[x] = "write" => pc[x] = "write" /\ rec'[x] = rec[x]
  BY <1>5 DEF Reopen, Rotate, Truncate, Crash, Damage, recorderVars, logVars
<1> QED BY <1>1, <1>2, <1>3, <1>4, <1>5 DEF TrailNext, WriterNext, trailVars

(* A step that writes no line leaves of each file a stretch, shifted by d. *)
Shrinks(f, d) ==
  /\ d \in Nat /\ Len(Full(f)') + d <= Len(Full(f))
  /\ \A i \in 1..Len(Full(f)') : Full(f)'[i] = Full(f)[i + d]

(* Unless a line is written, every file with its buffer becomes a stretch of itself. *)
LEMMA FilesShrink ==
  ASSUME TypeInv, TypeInv', Moves \/ Loses \/ Truncate, NEW f \in Files
  PROVE  /\ handle' \in Files /\ handle <= handle'
         /\ \E d : /\ Shrinks(f, d)
                   /\ UNCHANGED tailVars /\ tfile \in 0..handle /\ tpos \in Nat =>
                        \A i \in 1..Len(Full(f)') : Unread(f, i)' => Unread(f, i + d)
<1>1. Full(f)' \in Seq(Piece) /\ Full(f) \in Seq(Piece) /\ data[f] \in Seq(Piece) /\ handle \in Files
  <2>1. data' \in [Files -> Seq(Piece)] /\ pending' \in Seq(Piece)
    BY DEF TypeInv, FileTypes
  <2>2. data'[f] \in Seq(Piece) /\ data'[f] \o pending' \in Seq(Piece)
    BY <2>1
  <2>3. Full(f)' \in Seq(Piece)
    BY <2>2 DEF Full
  <2> QED BY <2>3, FullType DEF TypeInv, FileTypes
<1>2. CASE Moves
  <2>1. Shrinks(f, 0)
    BY <1>1, <1>2 DEF Moves, Shrinks
  <2>2. ASSUME UNCHANGED tailVars, tfile \in 0..handle, tpos \in Nat, NEW i \in 1..Len(Full(f)'), Unread(f, i)'
        PROVE  Unread(f, i + 0)
    <3>1. tfile' = tfile /\ tpos' = tpos /\ tail' = tail
      BY <2>2 DEF tailVars
    <3>2. Len(data[f]) <= Len(data'[f]) /\ data'[f] \in Seq(Piece) /\ handle <= handle' /\ handle' \in Files
      BY <1>2 DEF Moves, TypeInv, FileTypes
    <3>3. CASE f > tfile \/ (f = tfile /\ i > tpos)
      BY <3>3 DEF Unread
    <3>4. CASE f = tfile /\ tpos > Len(data'[f])
      <4>1. tpos > Len(data[f])
        BY <1>1, <3>2, <3>4, <2>2
      <4> QED BY <3>4, <4>1 DEF Unread
    <3>5. CASE f = tfile /\ tail = "open" /\ handle' = f
      <4>1. handle = f
        BY <1>1, <2>2, <3>2, <3>5 DEF Files
      <4> QED BY <3>5, <4>1 DEF Unread
    <3> QED BY <2>2, <3>1, <3>3, <3>4, <3>5 DEF Unread
  <2> QED BY <1>2, <2>1, <2>2 DEF Moves
<1>3. CASE Loses
  <2>1. Full(f)' = data[f] /\ data' = data /\ handle' \in Files /\ handle <= handle'
    BY <1>3 DEF Loses
  <2>2. Shrinks(f, 0)
    BY <1>1, <2>1, FullType DEF Shrinks
  <2>3. ASSUME UNCHANGED tailVars, tfile \in 0..handle, tpos \in Nat, NEW i \in 1..Len(Full(f)'), Unread(f, i)'
        PROVE  Unread(f, i + 0)
    <3>1. tfile' = tfile /\ tpos' = tpos /\ tail' = tail
      BY <2>3 DEF tailVars
    <3>2. handle' = f => f > tfile \/ handle = f
      BY <1>1, <2>1, <2>3 DEF Files
    <3> QED BY <2>1, <2>3, <3>1, <3>2 DEF Unread
  <2> QED BY <2>1, <2>2, <2>3
<1>4. CASE Truncate
  <2>1. /\ data' = [data EXCEPT ![handle] = <<>>] /\ pending' = pending /\ handle' = handle
        /\ data \in [Files -> Seq(Piece)] /\ pending \in Seq(Piece)
    BY <1>4 DEF Truncate, TypeInv, FileTypes
  <2>2. CASE f # handle
    <3>1. Full(f)' = Full(f) /\ data'[f] = data[f]
      BY <2>1, <2>2 DEF Full
    <3>2. Shrinks(f, 0)
      BY <1>1, <3>1 DEF Shrinks
    <3>3. ASSUME UNCHANGED tailVars, NEW i \in 1..Len(Full(f)'), Unread(f, i)' PROVE Unread(f, i + 0)
      BY <2>1, <3>1, <3>3 DEF Unread, tailVars
    <3> QED BY <1>1, <2>1, <3>2, <3>3 DEF Files
  <2>3. CASE f = handle
    <3> DEFINE d == Len(data[f])
    <3>1. Full(f)' = pending /\ Full(f) = data[f] \o pending
      <4>1. data'[f] = <<>> /\ <<>> \o pending = pending
        BY <2>1, <2>3
      <4> QED BY <2>1, <2>3, <4>1 DEF Full
    <3>2. Shrinks(f, d)
      BY <1>1, <2>1, <3>1 DEF Shrinks
    <3>3. ASSUME UNCHANGED tailVars, tfile \in 0..handle, tpos \in Nat, NEW i \in 1..Len(Full(f)'), Unread(f, i)'
          PROVE  Unread(f, i + d)
      <4>1. tfile' = tfile
        BY <3>3 DEF tailVars
      <4>2. CASE f > tfile
        BY <4>2 DEF Unread
      <4>3. CASE f = tfile /\ tpos > d
        BY <4>3 DEF Unread
      <4>4. CASE f = tfile /\ ~(tpos > d)
        <5>1. i + d > tpos
          <6>1. d \in Nat /\ i \in Nat \ {0}
            BY <1>1
          <6> HIDE DEF d
          <6> QED BY <3>3, <4>4, <6>1
        <5> QED BY <4>4, <5>1 DEF Unread
      <4> QED BY <2>3, <3>3, <4>1, <4>2, <4>3, <4>4 DEF Unread
    <3> QED BY <1>1, <2>1, <3>2, <3>3 DEF Files
  <2> QED BY <2>2, <2>3
<1> QED BY <1>2, <1>3, <1>4

(* The elements of a concatenation. *)
LEMMA ConcatIs ==
  ASSUME NEW T, NEW a \in Seq(T), NEW b \in Seq(T)
  PROVE  /\ a \o b \in Seq(T) /\ Len(a \o b) = Len(a) + Len(b)
         /\ \A i \in 1..Len(a) : (a \o b)[i] = a[i]
         /\ \A i \in (Len(a) + 1)..(Len(a) + Len(b)) :
              (a \o b)[i] = b[i - Len(a)] /\ i - Len(a) \in 1..Len(b)
<1>1. Len(a) \in Nat /\ Len(b) \in Nat
  OBVIOUS
<1>2. a \o b \in Seq(T) /\ Len(a \o b) = Len(a) + Len(b)
  OBVIOUS
<1>3. \A i \in 1..Len(a) : (a \o b)[i] = a[i]
  OBVIOUS
<1>4. \A i \in (Len(a) + 1)..(Len(a) + Len(b)) : (a \o b)[i] = b[i - Len(a)]
  OBVIOUS
<1>5. \A i \in (Len(a) + 1)..(Len(a) + Len(b)) : i - Len(a) \in 1..Len(b)
  BY <1>1
<1> QED BY <1>2, <1>3, <1>4, <1>5

(* A line goes behind everything in the file of the handle. *)
Writes(t, h, old, n, size) ==
  /\ UNCHANGED <<handle, path, data, mishaps, next_seq, prev_chain, acked, rec>>
  /\ h = handle /\ h \in Files /\ rec[t] \in AllRecords /\ pc[t] = "write"
  /\ \A x \in Threads : pc'[x] # "write"
  /\ pc' = [pc EXCEPT ![t] = "flush"] /\ DOMAIN pc = Threads
  /\ \A f \in Files : f # h => Full(f)' = Full(f)
  /\ old = Full(h) /\ n = Len(old) /\ size = Size[rec[t].event]
  /\ old \in Seq(Piece) /\ n \in Nat /\ size \in Nat \ {0}
  /\ Full(h)' = old \o Pieces(rec[t]) /\ Full(h)' \in Seq(Piece)
  /\ Len(Full(h)') = n + size
  /\ \A i \in 1..n : Full(h)'[i] = old[i]
  /\ \A i \in (n + 1)..(n + size) :
       Full(h)'[i] = [rec |-> rec[t], part |-> i - n, newline |-> i - n = size]

(* A write appends the pieces of its record to the file with its buffer. *)
LEMMA WriteFiles ==
  ASSUME TypeInv, TypeInv', NEW t \in Threads, WriteLine(t)
  PROVE  \E h, old, n, size : Writes(t, h, old, n, size)
<1>0. PICK h, old, n, size : h = handle /\ old = Full(h) /\ n = Len(old) /\ size = Size[rec[t].event]
  OBVIOUS
<1> DEFINE new == Pieces(rec[t])
<1>1. /\ UNCHANGED <<handle, path, data, mishaps, next_seq, prev_chain, acked, rec>>
      /\ pending' = pending \o new /\ pc[t] = "write" /\ pc' = [pc EXCEPT ![t] = "flush"]
  BY DEF WriteLine, historyVars
<1>2. /\ h \in Files /\ rec[t] \in AllRecords /\ DOMAIN pc = Threads
      /\ pending \in Seq(Piece) /\ data[h] \in Seq(Piece) /\ data \in [Files -> Seq(Piece)]
  BY <1>0, <1>1 DEF TypeInv, FileTypes, RecorderTypes
<1>3. \A x \in Threads : pc'[x] # "write"
  <2>1. lock = t
    BY <1>1 DEF TypeInv, LockInv
  <2>2. \A x \in Threads : x # t => pc[x] = "idle"
    BY <2>1 DEF TypeInv, LockInv
  <2> QED BY <1>1, <1>2, <2>2
<1>4. \A f \in Files : f # h => Full(f)' = Full(f)
  BY <1>0, <1>1 DEF Full
<1>5. old \in Seq(Piece) /\ n \in Nat
  BY <1>0, <1>2, FullType
<1>6. /\ new \in Seq(Piece) /\ Len(new) = size /\ size \in Nat \ {0}
      /\ \A k \in 1..size : new[k] = [rec |-> rec[t], part |-> k, newline |-> k = size]
  BY <1>0, <1>2, PiecesType
<1>7. Full(h)' = old \o new
  <2>1. Full(h)' = data[h] \o (pending \o new)
    BY <1>0, <1>1 DEF Full
  <2>2. old = data[h] \o pending
    BY <1>0 DEF Full
  <2>3. data[h] \o (pending \o new) = (data[h] \o pending) \o new
    BY <1>2, <1>6
  <2> QED BY <2>1, <2>2, <2>3
<1> HIDE DEF new
<1>8. /\ old \o new \in Seq(Piece) /\ Len(old \o new) = n + size
      /\ \A i \in 1..n : (old \o new)[i] = old[i]
      /\ \A i \in (n + 1)..(n + size) : (old \o new)[i] = new[i - n] /\ i - n \in 1..size
  <2>1. /\ old \o new \in Seq(Piece) /\ Len(old \o new) = Len(old) + Len(new)
        /\ \A i \in 1..Len(old) : (old \o new)[i] = old[i]
        /\ \A i \in (Len(old) + 1)..(Len(old) + Len(new)) :
             (old \o new)[i] = new[i - Len(old)] /\ i - Len(old) \in 1..Len(new)
    BY <1>5, <1>6, ConcatIs
  <2>2. Len(old) = n /\ Len(new) = size
    BY <1>0, <1>6
  <2> QED BY <2>1, <2>2, Zenon
<1>9. \A i \in (n + 1)..(n + size) :
        (old \o new)[i] = [rec |-> rec[t], part |-> i - n, newline |-> i - n = size]
  BY ZenonT(40), <1>6, <1>8
<1>10. /\ Full(h)' = old \o Pieces(rec[t]) /\ Full(h)' \in Seq(Piece)
       /\ Len(Full(h)') = n + size
       /\ \A i \in 1..n : Full(h)'[i] = old[i]
       /\ \A i \in (n + 1)..(n + size) :
            Full(h)'[i] = [rec |-> rec[t], part |-> i - n, newline |-> i - n = size]
  <2>1. PICK w : w = old \o new
    OBVIOUS
  <2>2. /\ w \in Seq(Piece) /\ Len(w) = n + size
        /\ \A i \in 1..n : w[i] = old[i]
        /\ \A i \in (n + 1)..(n + size) : w[i] = [rec |-> rec[t], part |-> i - n, newline |-> i - n = size]
    BY <1>8, <1>9, <2>1, Zenon
  <2>3. Full(h)' = w
    BY <1>7, <2>1, Zenon
  <2>4. Full(h)' = old \o Pieces(rec[t]) 
    BY <2>1, <2>3 DEF new
  <2>5. Full(h)' \in Seq(Piece)
    BY <2>2, <2>3, Zenon
  <2>6. Len(Full(h)') = n + size
    BY <2>2, <2>3, Zenon
  <2>7. \A i \in 1..n : Full(h)'[i] = old[i]
    BY <2>2, <2>3, Zenon
  <2>8. \A i \in (n + 1)..(n + size) :
            Full(h)'[i] = [rec |-> rec[t], part |-> i - n, newline |-> i - n = size]
    BY <2>2, <2>3, Zenon
  <2> QED BY <2>4, <2>5, <2>6, <2>7, <2>8
<1>11. Writes(t, h, old, n, size)
  BY <1>0, <1>1, <1>2, <1>3, <1>4, <1>5, <1>6, <1>10, Zenon DEF Writes
<1> QED BY <1>11

(* The order of the records is kept when no line is written, *)
LEMMA FilesOrdered ==
  ASSUME TypeInv, TypeInv', OrderInv, [TrailNext]_trailVars, Moves \/ Loses \/ Truncate
  PROVE  OrderInv'
<1>1. /\ \A t \in Threads : pc'[t] = "write" => rec'[t].sequence < next_seq'
      /\ \A seq \in Nat : Earlier(seq) => Earlier(seq)'
  BY EarlierKept DEF OrderInv
<1>2. handle \in Files /\ handle' \in Files /\ handle <= handle'
  BY FilesShrink, AuditAssumption DEF TypeInv, FileTypes
<1>3. ASSUME NEW f \in Files
      PROVE  \E d \in Nat :
               /\ Len(Full(f)') \in Nat /\ Len(Full(f)) \in Nat
               /\ Full(f)' \in Seq(Piece) /\ Full(f) \in Seq(Piece)
               /\ \A i \in 1..Len(Full(f)') : i + d \in 1..Len(Full(f)) /\ Full(f)'[i] = Full(f)[i + d]
  <2>1. PICK d : Shrinks(f, d)
    BY FilesShrink
  <2>2. Full(f) \in Seq(Piece)
    BY FullType
  <2>3. Full(f)' \in Seq(Piece)
    <3>1. data' \in [Files -> Seq(Piece)] /\ pending' \in Seq(Piece)
      BY DEF TypeInv, FileTypes
    <3>2. data'[f] \in Seq(Piece) /\ data'[f] \o pending' \in Seq(Piece)
      BY <3>1
    <3> QED BY <3>2 DEF Full
  <2>4. Len(Full(f)') \in Nat /\ Len(Full(f)) \in Nat /\ d \in Nat
    BY <2>1, <2>2, <2>3 DEF Shrinks
  <2>5. \A i \in 1..Len(Full(f)') : i + d \in 1..Len(Full(f)) /\ Full(f)'[i] = Full(f)[i + d]
    BY <2>1, <2>4 DEF Shrinks
  <2> QED BY <2>2, <2>3, <2>4, <2>5
<1>4. ASSUME NEW f \in Files, f > handle' PROVE Full(f)' = <<>>
  <2>1. Full(f) = <<>>
    BY <1>2, <1>4 DEF OrderInv, Files
  <2>2. Len(Full(f)) = 0
    BY <2>1
  <2> QED BY <1>3, <2>2
<1>5. ASSUME NEW f \in Files PROVE Ordered(Full(f)')
  <2>1. PICK d \in Nat : \A i \in 1..Len(Full(f)') : i + d \in 1..Len(Full(f)) /\ Full(f)'[i] = Full(f)[i + d]
    BY <1>3
  <2>2. Ordered(Full(f)) /\ Len(Full(f)') \in Nat
    BY <1>3 DEF OrderInv
  <2>3. ASSUME NEW i \in 1..Len(Full(f)'), NEW j \in 1..Len(Full(f)'), i < j
        PROVE  Before(Full(f)'[i], Full(f)'[j])
    <3>1. i + d < j + d /\ i + d \in 1..Len(Full(f)) /\ j + d \in 1..Len(Full(f))
      BY <2>1, <2>2, <2>3
    <3>2. Before(Full(f)[i + d], Full(f)[j + d])
      BY <2>2, <3>1 DEF Ordered
    <3> QED BY <2>1, <3>2
  <2> QED BY <2>3 DEF Ordered
<1>6. ASSUME NEW f \in Files, NEW i \in 1..Len(Full(f)') PROVE Earlier(Full(f)[i].rec.sequence)'
  <2>1. PICK d \in Nat : /\ Full(f) \in Seq(Piece)
                         /\ i + d \in 1..Len(Full(f)) /\ Full(f)'[i] = Full(f)[i + d]
    BY <1>3
  <2>2. Full(f)[i + d].rec.sequence \in Nat
    <3>1. Full(f)[i + d] \in Piece
      BY <2>1
    <3> QED BY <3>1 DEF Piece, AllRecords
  <2>3. Earlier(Full(f)[i + d].rec.sequence)
    BY <2>1 DEF OrderInv
  <2> QED BY <1>1, <2>1, <2>2, <2>3 DEF Earlier
<1>7. ASSUME NEW f \in Files, NEW g \in Files, f < g,
             NEW i \in 1..Len(Full(f)'), NEW j \in 1..Len(Full(g)')
      PROVE  Before(Full(f)'[i], Full(g)'[j])
  BY <1>3, <1>7 DEF OrderInv
<1> QED BY <1>1, <1>4, <1>5, <1>6, <1>7 DEF OrderInv, Ordered, Before

(* and when one is. *)
LEMMA WrittenOrdered ==
  ASSUME TypeInv, TypeInv', OrderInv, [TrailNext]_trailVars, NEW t \in Threads, WriteLine(t)
  PROVE  OrderInv'
<1>0. PICK h, old, n, size : Writes(t, h, old, n, size)
  BY WriteFiles
<1>1. /\ UNCHANGED <<handle, next_seq, rec>> /\ h = handle /\ h \in Files
      /\ rec[t] \in AllRecords /\ pc[t] = "write" /\ \A x \in Threads : pc'[x] # "write"
      /\ \A f \in Files : f # h => Full(f)' = Full(f)
      /\ old = Full(h) /\ n = Len(old) /\ n \in Nat /\ size \in Nat \ {0}
      /\ Len(Full(h)') = n + size
      /\ \A i \in 1..n : Full(h)'[i] = old[i]
      /\ \A i \in (n + 1)..(n + size) :
           Full(h)'[i] = [rec |-> rec[t], part |-> i - n, newline |-> i - n = size]
  BY <1>0 DEF Writes
<1>2. /\ \A x \in Threads : pc'[x] = "write" => rec'[x].sequence < next_seq'
      /\ \A seq \in Nat : Earlier(seq) => Earlier(seq)'
  BY EarlierKept DEF OrderInv
<1>3. \A f \in Files : \A i \in 1..Len(Full(f)) :
        Full(f)[i].rec.sequence \in Nat /\ Full(f)[i].rec.sequence < rec[t].sequence /\ Full(f)[i].part \in Nat
  <2> TAKE f \in Files
  <2> TAKE i \in 1..Len(Full(f))
  <2>1. Full(f)[i] \in Piece
    BY FullType
  <2>2. Earlier(Full(f)[i].rec.sequence)
    BY DEF OrderInv
  <2> QED BY <1>1, <2>1, <2>2 DEF Piece, AllRecords, Earlier
<1>4. ASSUME NEW i \in 1..Len(Full(h)')
      PROVE  \/ i \in 1..n /\ Full(h)'[i] = old[i]
             \/ /\ i \in (n + 1)..(n + size) /\ Full(h)'[i].rec = rec[t] /\ Full(h)'[i].part = i - n
  <2>1. i \in 1..n \/ i \in (n + 1)..(n + size)
    BY <1>1
  <2>2. CASE i \in 1..n
    BY <1>1, <2>2
  <2>3. CASE i \in (n + 1)..(n + size)
    <3>1. Full(h)'[i] = [rec |-> rec[t], part |-> i - n, newline |-> i - n = size]
      BY <1>1, <2>3, Zenon
    <3> QED BY <2>3, <3>1
  <2> QED BY <2>1, <2>2, <2>3
<1>5. rec[t].sequence \in Nat /\ rec[t].sequence < next_seq
  BY <1>1 DEF AllRecords, OrderInv
<1>6. ASSUME NEW f \in Files, f > handle' PROVE Full(f)' = <<>>
  BY <1>1, <1>6 DEF OrderInv, Files
<1>7. ASSUME NEW f \in Files PROVE Ordered(Full(f)')
  <2>1. CASE f # h
    BY <1>1, <2>1 DEF OrderInv
  <2>2. CASE f = h
    <3>1. Ordered(old)
      BY <1>1 DEF OrderInv
    <3> SUFFICES \A i, j \in 1..Len(Full(h)') : i < j => Before(Full(h)'[i], Full(h)'[j])
      BY <2>2 DEF Ordered
    <3> TAKE i, j \in 1..Len(Full(h)')
    <3> HAVE i < j
    <3>2. CASE j \in 1..n
      <4>1. i \in 1..n
        BY <1>1, <3>2
      <4>2. Before(old[i], old[j])
        <5>1. 1..Len(old) = 1..n
          BY <1>1
        <5> QED BY <3>1, <3>2, <4>1, <5>1 DEF Ordered
      <4> QED BY <1>1, <3>2, <4>1, <4>2
    <3>3. CASE j \notin 1..n /\ i \in 1..n
      <4>1. Full(h)'[j].rec = rec[t] /\ Full(h)'[i] = old[i]
        BY <1>1, <1>4, <3>3
      <4>2. old[i].rec.sequence < rec[t].sequence
        BY <1>1, <1>3, <3>3
      <4> QED BY <4>1, <4>2 DEF Before
    <3>4. CASE j \notin 1..n /\ i \notin 1..n
      <4>1. /\ Full(h)'[j].rec = rec[t] /\ Full(h)'[j].part = j - n
            /\ Full(h)'[i].rec = rec[t] /\ Full(h)'[i].part = i - n
            /\ i \in Nat /\ j \in Nat
        <5>1. /\ Full(h)'[j].rec = rec[t] /\ Full(h)'[j].part = j - n
              /\ Full(h)'[i].rec = rec[t] /\ Full(h)'[i].part = i - n
          BY <1>4, <3>4
        <5> QED BY <1>1, <5>1
      <4>2. i - n < j - n
        BY <1>1, <4>1
      <4> QED BY <4>1, <4>2 DEF Before
    <3> QED BY <3>2, <3>3, <3>4
  <2> QED BY <2>1, <2>2
<1>8. ASSUME NEW f \in Files, NEW i \in 1..Len(Full(f)') PROVE Earlier(Full(f)[i].rec.sequence)'
  <2>1. CASE f # h \/ i \in 1..n
    <3>1. Full(f)'[i] = Full(f)[i] /\ i \in 1..Len(Full(f))
      BY <1>1, <2>1
    <3> QED BY <1>2, <1>3, <3>1 DEF OrderInv, Earlier
  <2>2. CASE f = h /\ i \notin 1..n
    <3>1. Full(f)'[i].rec = rec[t]
      <4>1. i \in 1..Len(Full(h)')
        BY <2>2
      <4> QED BY <1>4, <2>2, <4>1
    <3> QED BY <1>1, <1>5, <3>1 DEF Earlier
  <2> QED BY <2>1, <2>2
<1>9. ASSUME NEW f \in Files, NEW g \in Files, f < g,
             NEW i \in 1..Len(Full(f)'), NEW j \in 1..Len(Full(g)')
      PROVE  Before(Full(f)'[i], Full(g)'[j])
  <2>1. CASE f = h
    <3>1. Full(g) = <<>> /\ Full(g)' = Full(g)
      BY <1>1, <1>9, <2>1 DEF OrderInv, Files
    <3> QED BY <3>1
  <2>2. CASE f # h /\ (g # h \/ j \in 1..n)
    <3>1. Full(f)' = Full(f) /\ Full(g)'[j] = Full(g)[j] /\ j \in 1..Len(Full(g))
      BY <1>1, <2>2
    <3> QED BY <1>9, <3>1 DEF OrderInv
  <2>3. CASE f # h /\ g = h /\ j \notin 1..n
    <3>1. Full(f)' = Full(f) /\ Full(g)'[j].rec = rec[t]
      BY <1>1, <1>4, <2>3
    <3> QED BY <1>3, <3>1 DEF Before
  <2> QED BY <2>1, <2>2, <2>3
<1> QED BY <1>2, <1>6, <1>7, <1>8, <1>9 DEF OrderInv, Ordered, Before

(* So every step keeps it. *)
LEMMA OrderKept ==
  ASSUME TypeInv, TypeInv', OrderInv, [TrailNext]_trailVars, "damaged" \notin mishaps'
  PROVE  OrderInv'
BY FileSteps, FilesOrdered, WrittenOrdered

(* The ends of the lines are in order. *)
LEMMA EndsIncrease ==
  ASSUME NEW n \in Nat, NEW m \in Nat, NEW e \in [0..n -> 0..m], \A k \in 1..n : e[k - 1] < e[k]
  PROVE  \A i, k \in 0..n : i < k => e[i] < e[k]
<1> DEFINE S == {k \in 0..n : \A i \in 0..n : i < k => e[i] < e[k]}
<1>1. 0 \in S
  OBVIOUS
<1>2. ASSUME NEW k \in 0..(n - 1), k \in S PROVE k + 1 \in S
  <2>1. k + 1 \in 1..n /\ (k + 1) - 1 = k /\ k \in 0..n
    OBVIOUS
  <2>2. e[k] < e[k + 1] /\ e[k] \in Nat /\ e[k + 1] \in Nat
    BY <2>1
  <2>3. ASSUME NEW i \in 0..n, i < k + 1 PROVE e[i] < e[k + 1]
    <3>1. CASE i = k
      BY <2>2, <3>1
    <3>2. CASE i # k
      <4>1. i < k /\ e[i] \in Nat
        BY <2>3, <3>2
      <4>2. e[i] < e[k]
        BY <1>2, <4>1
      <4> QED BY <2>2, <4>1, <4>2
    <3> QED BY <3>1, <3>2
  <2> QED BY <2>1, <2>3
<1>3. 0..n \subseteq S
  <2> HIDE DEF S
  <2> QED BY <1>1, <1>2, InductionUpTo
<1> QED BY <1>3

(* What a read of the tail makes of a chunk. *)
Chunk == buf \o SubSeq(data[tfile], tpos + 1, Len(data[tfile]))
ReadsLines(text, n, e, w) ==
  /\ text = Chunk /\ text \in Seq(Piece) /\ n \in Nat /\ w \in 0..n
  /\ e \in [0..n -> 0..Len(text)] /\ e[0] = 0
  /\ \A i, k \in 0..n : i < k => e[i] < e[k]
  /\ \A k \in 1..n : text[e[k]].newline /\ \A j \in (e[k - 1] + 1)..(e[k] - 1) : ~text[j].newline
  /\ \A j \in (e[n] + 1)..Len(text) : ~text[j].newline
  /\ \A j \in 1..Len(text) : text[j].newline => \E k \in 1..n : e[k] = j
  /\ \A k \in 1..w : text[e[k - 1] + 1].part = 1
  /\ w # n => \E j \in (e[w] + 1)..e[w + 1] :
                text[j].rec # text[e[w] + 1].rec \/ text[j].part # j - e[w]
  /\ \E new : /\ yielded' = yielded \o new /\ new \in Seq(AllRecords) /\ Len(new) = w
              /\ \A k \in 1..w : new[k] = text[e[k - 1] + 1].rec
  /\ buf' = SubSeq(text, e[n] + 1, Len(text))
  /\ tail = "read" /\ tail' = (IF w = n THEN "read" ELSE "garbled")
  /\ tfile' = tfile /\ tfile \in Files /\ tpos < Len(data[tfile]) /\ tpos' = Len(data[tfile])

(* A read yields the lines of what it read, in their places in the file. *)
LEMMA ChunkRead ==
  ASSUME TypeInv, TailTypes, TailReads
  PROVE  \E text, n, e, w : ReadsLines(text, n, e, w)
<1>1. PICK text : text = Chunk
  OBVIOUS
<1>2. tfile \in Files /\ tpos \in Nat /\ tpos < Len(data[tfile]) /\ data[tfile] \in Seq(Piece)
  <2>1. tfile \in 0..handle /\ tfile # 0 /\ tpos \in Nat /\ handle \in Files /\ data \in [Files -> Seq(Piece)]
    BY DEF TailReads, TailTypes, TypeInv, FileTypes
  <2>2. tfile \in Files
    BY <2>1, AuditAssumption DEF Files
  <2> QED BY <2>1, <2>2 DEF TailReads
<1>3. text \in Seq(Piece)
  <2>1. SubSeq(data[tfile], tpos + 1, Len(data[tfile])) \in Seq(Piece) /\ buf \in Seq(Piece)
    BY <1>2 DEF TailTypes
  <2> QED BY <1>1, <2>1 DEF Chunk
<1>4. PICK u : u = Split(text)
  OBVIOUS
<1>5. PICK e : Ends(text, Len(text), u, e)
  BY <1>3, <1>4, SplitEnds
<1>6. PICK n : n = Len(u.lines)
  OBVIOUS
<1>7. u \in Parted /\ n \in Nat /\ Len(text) \in Nat /\ DOMAIN u.lines = 1..n
  <2>1. u \in Parted
    BY <1>3, <1>4, SplitType
  <2> QED BY <1>3, <1>6, <2>1 DEF Parted
<1>8. /\ e \in [0..n -> 0..Len(text)] /\ e[0] = 0
      /\ \A k \in 1..n : /\ e[k - 1] < e[k] /\ u.lines[k] = SubSeq(text, e[k - 1] + 1, e[k])
                         /\ text[e[k]].newline
                         /\ \A j \in (e[k - 1] + 1)..(e[k] - 1) : ~text[j].newline
      /\ u.rest = SubSeq(text, e[n] + 1, Len(text))
      /\ \A j \in (e[n] + 1)..Len(text) : ~text[j].newline
      /\ \A j \in 1..Len(text) : text[j].newline => \E k \in 1..n : e[k] = j
  BY <1>5, <1>6, Zenon DEF Ends
<1>9. \A i, k \in 0..n : i < k => e[i] < e[k]
  BY <1>7, <1>8, EndsIncrease
<1> DEFINE good == {m \in 0..n : \A k \in 1..m : Parses(u.lines[k])}
           whole == CHOOSE m \in good : \A x \in good : x <= m
<1>10. \E m \in good : \A x \in good : x <= m
  <2>1. CASE n \in good
    BY <2>1
  <2>2. CASE n \notin good
    <3>1. 0 \in good
      BY <1>7
    <3>2. PICK k \in 0..(n - 1) : k \in good /\ k + 1 \notin good
      <4> SUFFICES ASSUME \A k \in 0..(n - 1) : k \in good => k + 1 \in good PROVE FALSE
        OBVIOUS
      <4> HIDE DEF good
      <4>1. 0..n \subseteq good
        BY <1>7, <3>1, InductionUpTo
      <4> QED BY <1>7, <2>2, <4>1
    <3>3. \A x \in good : x <= k
      <4> SUFFICES ASSUME NEW x \in good, x > k PROVE FALSE
        BY <1>7, <3>2
      <4>1. \A i \in 1..(k + 1) : i \in 1..x
        BY <3>2
      <4>2. k + 1 \in 0..n /\ \A i \in 1..(k + 1) : Parses(u.lines[i])
        BY <1>7, <3>2, <4>1
      <4> QED BY <3>2, <4>2
    <3> QED BY <3>2, <3>3
  <2> QED BY <2>1, <2>2
<1>11. whole \in good /\ \A x \in good : x <= whole
  <2> HIDE DEF good
  <2> QED BY <1>10
<1>12. PICK w : w = whole
  OBVIOUS
<1>13. /\ w \in 0..n /\ \A k \in 1..w : Parses(u.lines[k])
       /\ w # n => ~Parses(u.lines[w + 1])
  <2>1. w \in good /\ \A x \in good : x <= w
    BY <1>11, <1>12, Zenon
  <2>2. w \in 0..n /\ \A k \in 1..w : Parses(u.lines[k])
    BY <2>1
  <2>3. ASSUME w # n, Parses(u.lines[w + 1]) PROVE FALSE
    <3>1. w + 1 \in 0..n /\ ~(w + 1 <= w)
      BY <1>7, <2>2, <2>3
    <3>2. w + 1 \in good
      <4>1. \A k \in 1..(w + 1) : k \in 1..w \/ k = w + 1
        BY <2>2
      <4> QED BY <2>2, <2>3, <3>1, <4>1
    <3> HIDE DEF good
    <3> QED BY <2>1, <3>1, <3>2
  <2> HIDE DEF good, whole
  <2> QED BY <2>2, <2>3
<1>14. /\ yielded' = yielded \o [k \in 1..w |-> u.lines[k][1].rec]
       /\ tail' = (IF w = n THEN "read" ELSE "garbled")
       /\ buf' = u.rest /\ tail = "read" /\ tpos' = Len(data[tfile]) /\ tfile' = tfile
  <2>1. Split(Chunk) = u
    BY <1>1, <1>4
  <2>2. /\ LET split == Split(Chunk)
               g == {m \in 0..Len(split.lines) : \A k \in 1..m : Parses(split.lines[k])}
               wh == CHOOSE m \in g : \A x \in g : x <= m
           IN  /\ yielded' = yielded \o [k \in 1..wh |-> split.lines[k][1].rec]
               /\ tail' = (IF wh = Len(split.lines) THEN "read" ELSE "garbled")
               /\ buf' = split.rest
        /\ tail = "read" /\ tpos' = Len(data[tfile]) /\ tfile' = tfile
    BY Zenon DEF TailReads, Chunk
  <2>3. (CHOOSE m \in good : \A x \in good : x <= m) = w
    BY <1>12
  <2> QED BY <1>6, <2>1, <2>2, <2>3, Zenon
<1> HIDE DEF good, whole
<1>15. ASSUME NEW k \in 1..n
       PROVE  /\ e[k - 1] \in 0..Len(text) /\ e[k] \in 0..Len(text) /\ e[k - 1] < e[k]
              /\ Len(u.lines[k]) = e[k] - e[k - 1] /\ DOMAIN u.lines[k] = 1..(e[k] - e[k - 1])
              /\ \A j \in 1..(e[k] - e[k - 1]) : u.lines[k][j] = text[e[k - 1] + j]
              /\ e[k - 1] + 1 \in 1..Len(text) /\ text[e[k - 1] + 1] \in Piece
              /\ u.lines[k][1] = text[e[k - 1] + 1]
  <2>1. k - 1 \in 0..n /\ k \in 0..n
    BY <1>7
  <2>2. e[k - 1] \in 0..Len(text) /\ e[k] \in 0..Len(text) /\ e[k - 1] < e[k]
    BY <1>8, <2>1
  <2>3. PICK a, b : a = e[k - 1] /\ b = e[k]
    OBVIOUS
  <2>4. u.lines[k] = SubSeq(text, a + 1, b)
    BY <1>8, <2>3
  <2>5. a \in 0..Len(text) /\ b \in 0..Len(text) /\ a < b
    BY <2>2, <2>3
  <2>6. /\ Len(SubSeq(text, a + 1, b)) = b - a
        /\ DOMAIN SubSeq(text, a + 1, b) = 1..(b - a)
        /\ \A j \in 1..(b - a) : SubSeq(text, a + 1, b)[j] = text[a + j]
    BY <1>3, <2>5
  <2>7. a + 1 \in 1..Len(text) /\ 1 \in 1..(b - a)
    BY <1>7, <2>5
  <2>8. text[a + 1] \in Piece
    BY <1>3, <2>7
  <2> QED BY <2>2, <2>3, <2>4, <2>6, <2>7, <2>8
<1>16. \A k \in 1..w : text[e[k - 1] + 1].part = 1
  <2> TAKE k \in 1..w
  <2>1. k \in 1..n
    BY <1>7, <1>13
  <2>2. Parses(u.lines[k]) /\ 1 \in DOMAIN u.lines[k]
    BY <1>13, <1>15, <2>1
  <2>3. u.lines[k][1].part = 1
    BY <2>2 DEF Parses
  <2> QED BY <1>15, <2>1, <2>3
<1>17. ASSUME w # n
       PROVE  \E j \in (e[w] + 1)..e[w + 1] : text[j].rec # text[e[w] + 1].rec \/ text[j].part # j - e[w]
  <2>1. w + 1 \in 1..n /\ (w + 1) - 1 = w
    BY <1>7, <1>13, <1>17
  <2>2. PICK a, b, line : a = e[w] /\ b = e[w + 1] /\ line = u.lines[w + 1]
    OBVIOUS
  <2>3. /\ a \in 0..Len(text) /\ b \in 0..Len(text) /\ a < b
        /\ Len(line) = b - a /\ DOMAIN line = 1..(b - a)
        /\ \A j \in 1..(b - a) : line[j] = text[a + j]
        /\ line[1] = text[a + 1] /\ text[b].newline
    <3>1. PICK k : k = w + 1
      OBVIOUS
    <3>2. k \in 1..n /\ k - 1 = w /\ a = e[k - 1] /\ b = e[k] /\ line = u.lines[k]
      BY <2>1, <2>2, <3>1
    <3> QED BY <1>8, <1>15, <3>2, Zenon
  <2>4. ~Parses(line)
    BY <1>13, <1>17, <2>2
  <2>5. line[Len(line)].newline
    <3>1. b - a \in 1..(b - a) /\ a + (b - a) = b
      BY <2>3
    <3>2. line[b - a] = text[b]
      BY <2>3, <3>1
    <3> QED BY <2>3, <3>2
  <2>6. PICK j \in 1..(b - a) : line[j].rec # line[1].rec \/ line[j].part # j
    BY <2>3, <2>4, <2>5 DEF Parses
  <2>7. a + j \in (a + 1)..b /\ (a + j) - a = j
    BY <2>3
  <2>8. text[a + j].rec # text[a + 1].rec \/ text[a + j].part # (a + j) - a
    BY <2>3, <2>6, <2>7
  <2> QED BY <2>2, <2>7, <2>8
<1>18. \E new : /\ yielded' = yielded \o new /\ new \in Seq(AllRecords) /\ Len(new) = w
                /\ \A k \in 1..w : new[k] = text[e[k - 1] + 1].rec
  <2> DEFINE new == [k \in 1..w |-> u.lines[k][1].rec]
  <2>1. ASSUME NEW k \in 1..w PROVE new[k] = text[e[k - 1] + 1].rec /\ new[k] \in AllRecords
    <3>1. k \in 1..n
      BY <1>7, <1>13
    <3> QED BY <1>15, <3>1 DEF Piece
  <2>2. new \in [1..w -> AllRecords]
    BY <2>1
  <2>3. new \in Seq(AllRecords) /\ Len(new) = w
    <3>1. w \in Nat
      BY <1>13
    <3> HIDE DEF new
    <3> QED BY <2>2, <3>1, SeqDef
  <2>4. yielded' = yielded \o new
    BY <1>14
  <2> HIDE DEF new
  <2> QED BY <2>1, <2>3, <2>4
<1>19. ReadsLines(text, n, e, w)
  <2>1. \A k \in 1..n : text[e[k]].newline /\ \A j \in (e[k - 1] + 1)..(e[k] - 1) : ~text[j].newline
    BY <1>8, Zenon
  <2>2. buf' = SubSeq(text, e[n] + 1, Len(text))
    BY <1>8, <1>14, Zenon
  <2>3. e \in [0..n -> 0..Len(text)] /\ e[0] = 0
    BY <1>8, Zenon
  <2>4. /\ \A j \in (e[n] + 1)..Len(text) : ~text[j].newline
        /\ \A j \in 1..Len(text) : text[j].newline => \E k \in 1..n : e[k] = j
    BY <1>8, Zenon
  <2> QED BY <1>1, <1>2, <1>3, <1>7, <1>9, <1>13, <1>14, <1>16, <1>17, <1>18, <2>1, <2>2, <2>3, <2>4, Zenon DEF ReadsLines
<1> QED BY <1>19

(* The recorder damages no file. *)
LEMMA WriterMishaps ==
  ASSUME WriterNext, "damaged" \notin mishaps
  PROVE  "damaged" \notin mishaps'
<1>1. ASSUME NEW t \in Threads, NEW e \in Events, Build(t, e) \/ RecordOnly(t, e)
      PROVE  "damaged" \notin mishaps'
  BY <1>1 DEF Build, RecordOnly, Happens, historyVars
<1>2. ASSUME NEW t \in Threads, WriteLine(t) \/ FlushPiece(t) \/ FlushEnds(t) \/ FlushFails(t)
      PROVE  "damaged" \notin mishaps'
  BY <1>2 DEF WriteLine, FlushPiece, FlushEnds, FlushFails, historyVars
<1>3. ASSUME Reopen \/ Rotate \/ Truncate \/ Crash PROVE "damaged" \notin mishaps'
  BY <1>3 DEF Reopen, Rotate, Truncate, Crash, Happens
<1> QED BY <1>1, <1>2, <1>3, Zenon DEF WriterNext

(* A tail only reads. *)
LEMMA TailTurn ==
  ASSUME TrailNext
  PROVE  \/ /\ \/ TailFinds \/ TailOpens \/ TailFindsNothing \/ TailReads
               \/ TailSleeps \/ TailStats \/ TailStops
            /\ UNCHANGED <<logVars, summary>> /\ "damaged" \notin mishaps
         \/ UNCHANGED tailVars /\ ((WriterNext /\ "damaged" \notin mishaps) \/ UNCHANGED logVars \/ (Damage /\ tail = "off"))
BY Zenon DEF TrailNext, TailNext, Damage

(* Files are opened one after the other. *)
LEMMA HandleGrows ==
  ASSUME TypeInv, TypeInv', [TrailNext]_trailVars
  PROVE  handle' \in Files /\ handle \in Files /\ handle <= handle'
<1>1. handle' \in Files /\ handle \in Files
  BY DEF TypeInv, FileTypes
<1>2. handle' = handle \/ Reopen
  <2>1. ASSUME NEW t \in Threads, NEW e \in Events, Build(t, e) \/ RecordOnly(t, e) PROVE handle' = handle
    BY <2>1 DEF Build, RecordOnly, fileVars
  <2>2. ASSUME NEW t \in Threads, WriteLine(t) \/ FlushPiece(t) \/ FlushEnds(t) \/ FlushFails(t)
        PROVE  handle' = handle
    BY <2>2 DEF WriteLine, FlushPiece, FlushEnds, FlushFails, fileVars
  <2>3. ASSUME Rotate \/ Truncate \/ Crash \/ Damage \/ UNCHANGED logVars PROVE handle' = handle
    BY <2>3 DEF Rotate, Truncate, Crash, Damage, logVars, fileVars
  <2> QED BY <2>1, <2>2, <2>3, Zenon DEF TrailNext, WriterNext, trailVars
<1>3. Reopen => handle' \in {handle, handle + 1}
  BY DEF Reopen, TypeInv, FileTypes
<1> QED BY <1>1, <1>2, <1>3 DEF Files

(* Every step keeps the types of the tail. *)
LEMMA TailTypesKept ==
  ASSUME TypeInv, TypeInv', TailTypes, [TrailNext]_trailVars
  PROVE  TailTypes'
<1>1. handle' \in Files /\ handle \in Files /\ handle <= handle' /\ tfile \in 0..handle
  BY HandleGrows DEF TailTypes
<1>2. CASE UNCHANGED tailVars /\ (tail # "off" => "damaged" \notin mishaps')
  <2>1. tfile' \in 0..handle'
    BY <1>1, <1>2 DEF tailVars, Files
  <2> QED BY <1>2, <2>1 DEF TailTypes, tailVars
<1>3. CASE UNCHANGED logVars /\ (TailFinds \/ TailFindsNothing \/ TailSleeps \/ TailStats \/ TailStops)
  BY <1>3 DEF TailTypes, logVars, historyVars, fileVars, TailFinds, TailFindsNothing, TailSleeps, TailStats, TailStops
<1>4. CASE UNCHANGED logVars /\ TailOpens
  <2>1. path = handle /\ path # 0 /\ handle' = handle
    BY <1>4 DEF TailOpens, TypeInv, FileTypes, logVars, fileVars
  <2>2. tfile' = handle /\ handle \in 0..handle
    BY <1>1, <1>4, <2>1 DEF TailOpens, Files
  <2> QED BY <1>4, <2>1, <2>2 DEF TailTypes, logVars, historyVars, fileVars, TailOpens
<1>5. CASE UNCHANGED logVars /\ TailReads
  <2>1. PICK text, n, e, w : ReadsLines(text, n, e, w)
    BY <1>5, ChunkRead
  <2>2. /\ tfile' = tfile /\ tfile \in Files /\ tail = "read" /\ tail' \in {"read", "garbled"}
        /\ tpos' = Len(data[tfile]) /\ handle' = handle
        /\ buf' = SubSeq(text, e[n] + 1, Len(text)) /\ text \in Seq(Piece)
        /\ e \in [0..n -> 0..Len(text)] /\ n \in Nat
    BY <1>5, <2>1 DEF ReadsLines, logVars, fileVars
  <2>3. tpos' \in Nat
    BY <2>2 DEF TypeInv, FileTypes
  <2>4. buf' \in Seq(Piece)
    <3>1. e[n] \in 0..Len(text)
      BY <2>2
    <3> QED BY <2>2, <3>1
  <2>5. yielded' \in Seq(AllRecords)
    <3>1. PICK new \in Seq(AllRecords) : yielded' = yielded \o new
      BY <2>1 DEF ReadsLines
    <3> QED BY <3>1 DEF TailTypes
  <2>6. tfile # 0 /\ "damaged" \notin mishaps'
    BY <1>5, <2>2 DEF Files, TailTypes, logVars, historyVars
  <2> QED BY <1>1, <2>2, <2>3, <2>4, <2>5, <2>6 DEF TailTypes
<1>6. "damaged" \notin mishaps => ("damaged" \notin mishaps' \/ Damage)
  <2>1. UNCHANGED logVars => mishaps' = mishaps
    BY DEF logVars, historyVars
  <2>2. trailVars' = trailVars => mishaps' = mishaps
    BY DEF trailVars, logVars, historyVars
  <2> QED BY <2>1, <2>2, WriterMishaps, Zenon DEF TrailNext
<1>7. TrailNext => TailTypes'
  <2>1. UNCHANGED tailVars /\ WriterNext /\ "damaged" \notin mishaps => TailTypes'
    BY <1>2, WriterMishaps
  <2>2. UNCHANGED tailVars /\ UNCHANGED logVars => TailTypes'
    BY <1>2 DEF TailTypes, logVars, historyVars
  <2>3. UNCHANGED tailVars /\ tail = "off" => TailTypes'
    BY <1>2
  <2> QED BY <1>3, <1>4, <1>5, <2>1, <2>2, <2>3, TailTurn, Zenon DEF logVars
<1>8. UNCHANGED trailVars => TailTypes'
  BY <1>2 DEF trailVars, logVars, historyVars, TailTypes
<1> QED BY <1>7, <1>8

(* A step of the writers, as the tail sees it. *)
LEMMA TailOrderWritten ==
  ASSUME TypeInv, TypeInv', OrderInv, TailTypes, TailOrder, [TrailNext]_trailVars,
         UNCHANGED tailVars, "damaged" \notin mishaps'
  PROVE  TailOrder'
<1>1. /\ tail' = tail /\ tfile' = tfile /\ tpos' = tpos /\ buf' = buf /\ yielded' = yielded
      /\ tfile \in 0..handle /\ tpos \in Nat /\ yielded \in Seq(AllRecords) /\ buf \in Seq(Piece)
  BY DEF tailVars, TailTypes
<1>2. \A seq \in Nat : Earlier(seq) => Earlier(seq)'
  BY EarlierKept DEF OrderInv
<1>3. \A i \in 1..Len(yielded) : Earlier(yielded[i].sequence) /\ yielded[i].sequence \in Nat
  <2> TAKE i \in 1..Len(yielded)
  <2>1. yielded[i] \in AllRecords
    BY <1>1
  <2> QED BY <2>1 DEF TailOrder, AllRecords
<1>4. \A i \in 1..Len(buf) : Earlier(buf[i].rec.sequence) /\ buf[i].rec.sequence \in Nat
  <2> TAKE i \in 1..Len(buf)
  <2>1. buf[i] \in Piece
    BY <1>1
  <2> QED BY <2>1 DEF TailOrder, AllRecords, Piece
<1>5. /\ \A i \in 1..Len(yielded) : Earlier(yielded[i].sequence)'
      /\ \A i \in 1..Len(buf) : Earlier(buf[i].rec.sequence)'
  BY <1>1, <1>2, <1>3, <1>4 DEF Earlier
<1>6. ASSUME NEW f \in Files, NEW i \in 1..Len(Full(f)'), Unread(f, i)'
      PROVE  /\ \A k \in 1..Len(yielded) : After(yielded[k], Full(f)'[i])
             /\ \A k \in 1..Len(buf) : Before(buf[k], Full(f)'[i])
  <2>1. CASE Moves \/ Loses \/ Truncate
    <3>1. PICK d : /\ Shrinks(f, d)
                   /\ UNCHANGED tailVars /\ tfile \in 0..handle /\ tpos \in Nat =>
                        \A j \in 1..Len(Full(f)') : Unread(f, j)' => Unread(f, j + d)
      BY <2>1, FilesShrink
    <3>2. Unread(f, i + d)
      BY <1>1, <1>6, <3>1
    <3>3. i + d \in 1..Len(Full(f)) /\ Full(f)'[i] = Full(f)[i + d]
      <4>1. Len(Full(f)') \in Nat /\ Len(Full(f)) \in Nat /\ d \in Nat
        <5>1. data' \in [Files -> Seq(Piece)] /\ pending' \in Seq(Piece)
          BY DEF TypeInv, FileTypes
        <5>2. data'[f] \in Seq(Piece) /\ data'[f] \o pending' \in Seq(Piece)
          BY <5>1
        <5>3. Full(f)' \in Seq(Piece) /\ Full(f) \in Seq(Piece)
          BY <5>2, FullType DEF Full
        <5> QED BY <3>1, <5>3 DEF Shrinks
      <4> QED BY <3>1, <4>1 DEF Shrinks
    <3> QED BY <3>2, <3>3 DEF TailOrder
  <2>2. ASSUME NEW t \in Threads, WriteLine(t)
        PROVE  /\ \A k \in 1..Len(yielded) : After(yielded[k], Full(f)'[i])
               /\ \A k \in 1..Len(buf) : Before(buf[k], Full(f)'[i])
    <3>1. PICK h, old, n, size : Writes(t, h, old, n, size)
      BY <2>2, WriteFiles
    <3>2. /\ UNCHANGED <<handle, data>> /\ pc[t] = "write" /\ rec[t] \in AllRecords
          /\ \A g \in Files : g # h => Full(g)' = Full(g)
          /\ old = Full(h) /\ n = Len(old) /\ n \in Nat /\ size \in Nat \ {0}
          /\ Len(Full(h)') = n + size
          /\ \A j \in 1..n : Full(h)'[j] = old[j]
          /\ \A j \in (n + 1)..(n + size) :
               Full(h)'[j] = [rec |-> rec[t], part |-> j - n, newline |-> j - n = size]
      BY <3>1 DEF Writes
    <3>3. Unread(f, i)
      BY <1>1, <1>6, <3>2 DEF Unread
    <3>4. CASE f # h \/ i \in 1..n
      <4>1. Full(f)'[i] = Full(f)[i] /\ i \in 1..Len(Full(f))
        BY <3>2, <3>4
      <4> QED BY <3>3, <4>1 DEF TailOrder
    <3>5. CASE f = h /\ i \notin 1..n
      <4>1. i \in (n + 1)..(n + size)
        BY <3>2, <3>5
      <4>2. Full(f)'[i].rec = rec[t]
        <5>1. Full(f)'[i] = [rec |-> rec[t], part |-> i - n, newline |-> i - n = size]
          BY <3>2, <3>5, <4>1, Zenon
        <5> QED BY <5>1
      <4>3. \A seq \in Nat : Earlier(seq) => seq < rec[t].sequence
        BY <3>2 DEF Earlier
      <4> QED BY <1>3, <1>4, <4>2, <4>3 DEF After, Before
    <3> QED BY <3>4, <3>5
  <2> QED BY <2>1, <2>2, FileSteps
<1>7. /\ \A i, j \in 1..Len(yielded') : i < j => yielded'[i].sequence < yielded'[j].sequence
      /\ Ordered(buf')
      /\ \A i \in 1..Len(yielded'), j \in 1..Len(buf') : After(yielded'[i], buf'[j])
  BY <1>1, Zenon DEF TailOrder
<1>8. /\ \A i \in 1..Len(yielded') : Earlier(yielded[i].sequence)'
      /\ \A i \in 1..Len(buf') : Earlier(buf[i].rec.sequence)'
  BY <1>1, <1>5, Zenon
<1>9. ASSUME NEW f \in Files, NEW i \in 1..Len(Full(f)'), Unread(f, i)'
      PROVE  /\ \A k \in 1..Len(yielded') : After(yielded'[k], Full(f)'[i])
             /\ \A k \in 1..Len(buf') : Before(buf'[k], Full(f)'[i])
  BY <1>1, <1>6, <1>9, Zenon
<1> QED BY <1>7, <1>8, <1>9 DEF TailOrder, Ordered, After, Before

(* A step of the tail leaves the files alone. *)
LEMMA OwnStep ==
  ASSUME UNCHANGED logVars
  PROVE  /\ \A f \in Files : Full(f)' = Full(f)
         /\ \A seq : Earlier(seq)' <=> Earlier(seq)
         /\ UNCHANGED <<handle, path, data, pending, mishaps>>
BY DEF logVars, recorderVars, fileVars, historyVars, Full, Earlier

(* The chunk a tail reads lies behind all it has yielded and before all it has *)
(* not read.                                                                   *)
LEMMA ChunkOrder ==
  ASSUME TypeInv, OrderInv, TailTypes, TailOrder, UNCHANGED logVars,
         NEW text, NEW n, NEW e, NEW w, ReadsLines(text, n, e, w)
  PROVE  /\ Ordered(text)
         /\ \A j \in 1..Len(text) : Earlier(text[j].rec.sequence)
         /\ \A k \in 1..Len(yielded), j \in 1..Len(text) : After(yielded[k], text[j])
         /\ \A f \in Files : \A i \in 1..Len(Full(f)) : Unread(f, i)' =>
              \A j \in 1..Len(text) : Before(text[j], Full(f)[i])
<1>1. PICK F, L, p, b : F = tfile /\ L = Len(data[F]) /\ p = tpos /\ b = Len(buf)
  OBVIOUS
<1>2. /\ F \in Files /\ p \in Nat /\ L \in Nat /\ p < L /\ b \in Nat
      /\ data[F] \in Seq(Piece) /\ buf \in Seq(Piece) /\ tail = "read" /\ tail' \in {"read", "garbled"}
      /\ tfile' = F /\ tpos' = L
      /\ text = buf \o SubSeq(data[F], p + 1, L) /\ text \in Seq(Piece)
  <2>1. /\ F \in Files /\ p \in Nat /\ buf \in Seq(Piece) /\ data \in [Files -> Seq(Piece)]
    BY <1>1 DEF ReadsLines, TailTypes, TypeInv, FileTypes
  <2>2. data[F] \in Seq(Piece) /\ L \in Nat /\ b \in Nat
    BY <1>1, <2>1
  <2>3. /\ p < L /\ tail = "read" /\ tail' \in {"read", "garbled"} /\ tfile' = F /\ tpos' = L
        /\ text \in Seq(Piece)
    BY <1>1 DEF ReadsLines
  <2>4. text = buf \o SubSeq(data[F], p + 1, L)
    BY <1>1, Zenon DEF ReadsLines, Chunk
  <2> QED BY <2>1, <2>2, <2>3, <2>4
<1>3. /\ Len(text) = b + (L - p)
      /\ \A j \in 1..b : text[j] = buf[j]
      /\ \A j \in (b + 1)..Len(text) : text[j] = data[F][p + (j - b)] /\ p + (j - b) \in (p + 1)..L
  <2>1. PICK new : new = SubSeq(data[F], p + 1, L)
    OBVIOUS
  <2>2. /\ new \in Seq(Piece) /\ Len(new) = L - p
        /\ \A j \in 1..(L - p) : new[j] = data[F][p + j]
    <3>1. PICK D : D = data[F]
      OBVIOUS
    <3>2. D \in Seq(Piece) /\ p \in 0..Len(D) /\ L \in p..Len(D) /\ new = SubSeq(D, p + 1, L)
      BY <1>1, <1>2, <2>1, <3>1
    <3>3. /\ new \in Seq(Piece) /\ Len(new) = L - p
          /\ \A j \in 1..(L - p) : new[j] = D[p + j]
      BY <3>2
    <3> QED BY <3>1, <3>3
  <2>3. /\ Len(buf \o new) = b + (L - p)
        /\ \A j \in 1..b : (buf \o new)[j] = buf[j]
        /\ \A j \in (b + 1)..(b + (L - p)) : (buf \o new)[j] = new[j - b] /\ j - b \in 1..(L - p)
    <3>1. /\ Len(buf \o new) = Len(buf) + Len(new)
          /\ \A j \in 1..Len(buf) : (buf \o new)[j] = buf[j]
          /\ \A j \in (Len(buf) + 1)..(Len(buf) + Len(new)) :
               (buf \o new)[j] = new[j - Len(buf)] /\ j - Len(buf) \in 1..Len(new)
      BY ZenonT(40), <1>2, <2>2, ConcatIs
    <3> QED BY <1>1, <2>2, <3>1, Zenon
  <2>4. text = buf \o new
    BY <1>2, <2>1
  <2>5. \A j \in (b + 1)..(b + (L - p)) : p + (j - b) \in (p + 1)..L
    BY <1>2
  <2>6. \A j \in (b + 1)..(b + (L - p)) : text[j] = data[F][p + (j - b)]
    BY <2>2, <2>3, <2>4
  <2> QED BY <2>3, <2>4, <2>5, <2>6
<1>4. /\ Full(F) \in Seq(Piece) /\ L <= Len(Full(F)) /\ \A m \in 1..L : Full(F)[m] = data[F][m]
  BY <1>1, <1>2, FullType
<1>5. ASSUME NEW j \in (b + 1)..Len(text)
      PROVE  /\ p + (j - b) \in 1..L /\ p + (j - b) \in 1..Len(Full(F))
             /\ text[j] = Full(F)[p + (j - b)] /\ Unread(F, p + (j - b))
  <2>1. p + (j - b) \in 1..L /\ p + (j - b) > p
    BY <1>2, <1>3
  <2>2. p + (j - b) \in 1..Len(Full(F))
    BY <1>2, <1>4, <2>1
  <2>3. text[j] = Full(F)[p + (j - b)]
    BY <1>3, <1>4, <2>1
  <2>4. Unread(F, p + (j - b))
    BY <1>1, <2>1 DEF Unread
  <2> QED BY <2>1, <2>2, <2>3, <2>4
<1>6. \A j \in 1..Len(text) : j \in 1..b \/ j \in (b + 1)..Len(text)
  BY <1>2, <1>3
<1>7. Ordered(text)
  <2> SUFFICES ASSUME NEW i \in 1..Len(text), NEW j \in 1..Len(text), i < j PROVE Before(text[i], text[j])
    BY DEF Ordered
  <2>1. CASE j \in 1..b
    <3>1. i \in 1..b
      BY <1>2, <1>3, <2>1
    <3> QED BY <1>1, <1>3, <2>1, <3>1 DEF TailOrder, Ordered
  <2>2. CASE j \in (b + 1)..Len(text) /\ i \in 1..b
    <3>1. \A k \in 1..Len(buf) : Before(buf[k], Full(F)[p + (j - b)])
      BY <1>2, <1>5, <2>2 DEF TailOrder
    <3> QED BY <1>1, <1>3, <1>5, <2>2, <3>1
  <2>3. CASE j \in (b + 1)..Len(text) /\ i \in (b + 1)..Len(text)
    <3>1. p + (i - b) < p + (j - b)
      BY <1>2, <2>3
    <3>2. Ordered(Full(F))
      BY <1>2 DEF OrderInv
    <3> QED BY <1>5, <2>3, <3>1, <3>2 DEF Ordered
  <2> QED BY <1>6, <2>1, <2>2, <2>3
<1>8. ASSUME NEW j \in 1..Len(text) PROVE Earlier(text[j].rec.sequence)
  <2>1. CASE j \in 1..b
    BY <1>1, <1>3, <2>1 DEF TailOrder
  <2>2. CASE j \in (b + 1)..Len(text)
    BY <1>2, <1>5, <2>2 DEF OrderInv
  <2> QED BY <1>6, <2>1, <2>2
<1>9. ASSUME NEW k \in 1..Len(yielded), NEW j \in 1..Len(text) PROVE After(yielded[k], text[j])
  <2>1. CASE j \in 1..b
    BY <1>1, <1>3, <2>1 DEF TailOrder
  <2>2. CASE j \in (b + 1)..Len(text)
    BY <1>2, <1>5, <2>2 DEF TailOrder
  <2> QED BY <1>6, <2>1, <2>2
<1>10. ASSUME NEW f \in Files, NEW i \in 1..Len(Full(f)), Unread(f, i)', NEW j \in 1..Len(text)
       PROVE  Before(text[j], Full(f)[i])
  <2>1. f > F \/ (f = F /\ i > L)
    <3>1. data' = data
      BY OwnStep
    <3>2. tail' # "open" /\ ~(tpos' > Len(data'[F]))
      BY <1>1, <1>2, <3>1
    <3> QED BY <1>2, <1>10, <3>2 DEF Unread
  <2>2. CASE j \in 1..b
    <3>1. Unread(f, i)
      BY <1>1, <1>2, <2>1 DEF Unread
    <3> QED BY <1>1, <1>3, <2>2, <3>1 DEF TailOrder
  <2>3. CASE j \in (b + 1)..Len(text) /\ f > F
    BY <1>2, <1>5, <2>3 DEF OrderInv
  <2>4. CASE j \in (b + 1)..Len(text) /\ f = F /\ i > L
    <3>1. p + (j - b) < i /\ Ordered(Full(F))
      <4>1. p + (j - b) \in 1..L
        BY <1>5, <2>4
      <4> QED BY <1>2, <2>4, <4>1 DEF OrderInv
    <3> QED BY <1>5, <2>4, <3>1 DEF Ordered
  <2> QED BY <1>6, <2>1, <2>2, <2>3, <2>4
<1> QED BY <1>7, <1>8, <1>9, <1>10

(* A read keeps the order of what was yielded. *)
LEMMA TailOrderRead ==
  ASSUME TypeInv, OrderInv, TailTypes, TailTypes', TailOrder, UNCHANGED logVars, TailReads
  PROVE  TailOrder'
<1>1. PICK text, n, e, w : ReadsLines(text, n, e, w)
  BY ChunkRead
<1>2. /\ Ordered(text)
      /\ \A j \in 1..Len(text) : Earlier(text[j].rec.sequence)
      /\ \A k \in 1..Len(yielded), j \in 1..Len(text) : After(yielded[k], text[j])
      /\ \A f \in Files : \A i \in 1..Len(Full(f)) : Unread(f, i)' =>
           \A j \in 1..Len(text) : Before(text[j], Full(f)[i])
  BY <1>1, ChunkOrder
<1>3. PICK new : /\ yielded' = yielded \o new /\ new \in Seq(AllRecords) /\ Len(new) = w
                 /\ \A k \in 1..w : new[k] = text[e[k - 1] + 1].rec
  BY <1>1 DEF ReadsLines
<1>4. /\ text \in Seq(Piece) /\ Len(text) \in Nat /\ n \in Nat /\ w \in 0..n
      /\ e \in [0..n -> 0..Len(text)] /\ \A i, k \in 0..n : i < k => e[i] < e[k]
      /\ \A k \in 1..w : text[e[k - 1] + 1].part = 1
      /\ buf' = SubSeq(text, e[n] + 1, Len(text)) /\ e[n] \in 0..Len(text)
  BY <1>1 DEF ReadsLines
<1>5. PICK old, m : old = yielded /\ m = Len(yielded)
  OBVIOUS
<1>6. /\ old \in Seq(AllRecords) /\ m \in Nat /\ Len(yielded') = m + w /\ yielded' = old \o new
      /\ \A k \in 1..m : yielded'[k] = old[k]
      /\ \A k \in (m + 1)..(m + w) : yielded'[k] = new[k - m] /\ k - m \in 1..w
  <2>1. old \in Seq(AllRecords) /\ m \in Nat
    BY <1>5 DEF TailTypes
  <2>2. /\ Len(old \o new) = Len(old) + Len(new)
        /\ \A j \in 1..Len(old) : (old \o new)[j] = old[j]
        /\ \A j \in (Len(old) + 1)..(Len(old) + Len(new)) :
             (old \o new)[j] = new[j - Len(old)] /\ j - Len(old) \in 1..Len(new)
    BY ZenonT(40), <1>3, <2>1, ConcatIs
  <2> QED BY <1>3, <1>5, <2>1, <2>2, Zenon
<1>7. ASSUME NEW k \in 1..w
      PROVE  /\ e[k - 1] + 1 \in 1..Len(text) /\ e[k - 1] + 1 <= e[n]
             /\ new[k] = text[e[k - 1] + 1].rec /\ text[e[k - 1] + 1].part = 1
             /\ text[e[k - 1] + 1] \in Piece
  <2>1. k - 1 \in 0..n /\ n \in 0..n /\ k - 1 < n
    BY <1>4
  <2>2. e[k - 1] < e[n] /\ e[k - 1] \in 0..Len(text) /\ e[n] \in 0..Len(text)
    BY <1>4, <2>1
  <2>3. e[k - 1] + 1 \in 1..Len(text) /\ e[k - 1] + 1 <= e[n]
    BY <1>4, <2>2
  <2>4. text[e[k - 1] + 1] \in Piece
    <3>1. PICK x : x = e[k - 1] + 1
      OBVIOUS
    <3>2. x \in 1..Len(text) /\ text \in Seq(Piece)
      BY <1>4, <2>3, <3>1
    <3>3. text[x] \in Piece
      BY <3>2
    <3> QED BY <3>1, <3>3
  <2> QED BY <1>3, <1>4, <2>3, <2>4, Zenon
<1>8. \A j \in 1..Len(buf') : buf'[j] = text[e[n] + j] /\ e[n] + j \in 1..Len(text)
  BY SMTT(30), <1>4
<1>9. \A k \in 1..Len(yielded') : k \in 1..m \/ k \in (m + 1)..(m + w)
  BY <1>4, <1>6
<1>10. ASSUME NEW q, NEW k \in 1..w, Before(text[e[k - 1] + 1], q), q \in Piece
       PROVE  After(new[k], q)
  BY <1>7, <1>10 DEF Before, After, Piece
<1>11. ASSUME NEW i \in 1..Len(yielded'), NEW j \in 1..Len(yielded'), i < j
       PROVE  yielded'[i].sequence < yielded'[j].sequence
  <2>1. CASE j \in 1..m
    <3>1. i \in 1..m
      BY <1>6, <1>11, <2>1
    <3> QED BY <1>5, <1>6, <1>11, <2>1, <3>1 DEF TailOrder
  <2>2. CASE j \in (m + 1)..(m + w) /\ i \in 1..m
    <3>1. j - m \in 1..w /\ yielded'[j] = new[j - m] /\ yielded'[i] = old[i]
      BY <1>6, <2>2
    <3>2. After(old[i], text[e[(j - m) - 1] + 1])
      BY <1>2, <1>5, <1>7, <2>2, <3>1
    <3> QED BY <1>7, <3>1, <3>2 DEF After
  <2>3. CASE j \in (m + 1)..(m + w) /\ i \in (m + 1)..(m + w)
    <3>1. PICK k, x : k = i - m /\ x = j - m
      OBVIOUS
    <3>2. k \in 1..w /\ x \in 1..w /\ yielded'[j] = new[x] /\ yielded'[i] = new[k] /\ k < x
      BY <1>6, <1>11, <2>3, <3>1
    <3>3. e[k - 1] < e[x - 1] /\ e[k - 1] + 1 < e[x - 1] + 1
      <4>1. k - 1 \in 0..n /\ x - 1 \in 0..n /\ k - 1 < x - 1
        <5>1. n \in Nat /\ w \in 0..n
          BY <1>4
        <5>2. k \in 1..w /\ x \in 1..w /\ k < x
          BY <3>2
        <5> QED BY <5>1, <5>2
      <4>2. e[k - 1] < e[x - 1] /\ e[k - 1] \in 0..Len(text) /\ e[x - 1] \in 0..Len(text)
        BY <1>4, <4>1
      <4> QED BY SMTT(30), <1>4, <4>2
    <3>4. Before(text[e[k - 1] + 1], text[e[x - 1] + 1])
      BY <1>2, <1>7, <3>2, <3>3 DEF Ordered
    <3>5. PICK a, c : a = text[e[k - 1] + 1] /\ c = text[e[x - 1] + 1]
      OBVIOUS
    <3>6. Before(a, c) /\ a.part = 1 /\ c.part = 1 /\ new[k] = a.rec /\ new[x] = c.rec
      BY <1>7, <3>2, <3>4, <3>5
    <3>7. a.rec.sequence < c.rec.sequence
      BY <3>6 DEF Before
    <3> QED BY <3>2, <3>6, <3>7
  <2> QED BY <1>9, <2>1, <2>2, <2>3
<1>12. ASSUME NEW i \in 1..Len(buf'), NEW j \in 1..Len(buf'), i < j PROVE Before(buf'[i], buf'[j])
  <2>1. e[n] + i < e[n] + j
    BY <1>4, <1>12
  <2> QED BY <1>2, <1>8, <2>1 DEF Ordered
<1>13. ASSUME NEW i \in 1..Len(yielded') PROVE Earlier(yielded'[i].sequence)
  <2>1. CASE i \in 1..m
    BY <1>5, <1>6, <2>1 DEF TailOrder
  <2>2. CASE i \in (m + 1)..(m + w)
    <3>1. i - m \in 1..w /\ yielded'[i] = new[i - m]
      BY <1>6, <2>2
    <3> QED BY <1>2, <1>7, <3>1
  <2> QED BY <1>9, <2>1, <2>2
<1>14. ASSUME NEW i \in 1..Len(buf') PROVE Earlier(buf'[i].rec.sequence)
  BY <1>2, <1>8
<1>15. ASSUME NEW i \in 1..Len(yielded'), NEW q \in Piece,
              \A k \in 1..m : After(old[k], q),
              \A k \in 1..w : Before(text[e[k - 1] + 1], q)
       PROVE  After(yielded'[i], q)
  <2>1. CASE i \in 1..m
    BY <1>6, <1>15, <2>1
  <2>2. CASE i \in (m + 1)..(m + w)
    <3>1. i - m \in 1..w /\ yielded'[i] = new[i - m]
      BY <1>6, <2>2
    <3> QED BY <1>10, <1>15, <3>1
  <2> QED BY <1>9, <2>1, <2>2
<1>16. ASSUME NEW i \in 1..Len(yielded'), NEW j \in 1..Len(buf') PROVE After(yielded'[i], buf'[j])
  <2>1. PICK x : x = e[n] + j
    OBVIOUS
  <2>2. buf'[j] = text[x] /\ x \in 1..Len(text) /\ x > e[n]
    BY SMTT(30), <1>4, <1>8, <2>1
  <2>3. text[x] \in Piece
    BY <1>4, <2>2
  <2>4. \A k \in 1..m : After(old[k], text[x])
    BY <1>2, <1>5, <2>2
  <2>5. \A k \in 1..w : Before(text[e[k - 1] + 1], text[x])
    <3> TAKE k \in 1..w
    <3>1. e[k - 1] + 1 < x /\ e[k - 1] + 1 \in 1..Len(text)
      <4>1. e[k - 1] + 1 \in 1..Len(text) /\ e[k - 1] + 1 <= e[n] /\ e[n] \in 0..Len(text)
        BY <1>4, <1>7
      <4>2. Len(text) \in Nat
        BY <1>4
      <4> QED BY <2>2, <4>1, <4>2
    <3> QED BY <1>2, <2>2, <3>1 DEF Ordered
  <2> QED BY <1>15, <2>2, <2>3, <2>4, <2>5
<1>17. ASSUME NEW f \in Files, NEW i \in 1..Len(Full(f)), Unread(f, i)'
       PROVE  /\ \A k \in 1..Len(yielded') : After(yielded'[k], Full(f)[i])
              /\ \A k \in 1..Len(buf') : Before(buf'[k], Full(f)[i])
  <2>1. Full(f)[i] \in Piece
    BY FullType
  <2>2. \A j \in 1..Len(text) : Before(text[j], Full(f)[i])
    BY <1>2, <1>17
  <2>3. Unread(f, i)
    <3>1. data' = data /\ handle' = handle
      BY OwnStep
    <3>2. tfile' = tfile /\ tpos < tpos' /\ tpos' = Len(data[tfile]) /\ tail' # "open"
      BY <1>1 DEF ReadsLines
    <3>3. tpos \in Nat /\ tpos' \in Nat /\ tfile \in Nat
      BY DEF TailTypes
    <3> QED BY <1>17, <3>1, <3>2, <3>3 DEF Unread
  <2>4. \A k \in 1..m : After(old[k], Full(f)[i])
    BY <1>5, <2>3 DEF TailOrder
  <2>5. \A k \in 1..Len(yielded') : After(yielded'[k], Full(f)[i])
    BY <1>7, <1>15, <2>1, <2>2, <2>4
  <2> QED BY <1>8, <2>2, <2>5
<1>18. \A f \in Files : Full(f)' = Full(f)
  BY OwnStep
<1>19. /\ \A i, j \in 1..Len(yielded') : i < j => yielded'[i].sequence < yielded'[j].sequence
       /\ Ordered(buf')
       /\ \A i \in 1..Len(yielded'), j \in 1..Len(buf') : After(yielded'[i], buf'[j])
  BY <1>11, <1>12, <1>16, Zenon DEF Ordered
<1>20. UNCHANGED <<next_seq, pc, rec>>
  BY DEF logVars, recorderVars
<1> QED BY <1>13, <1>14, <1>17, <1>18, <1>19, <1>20 DEF TailOrder, Ordered, After, Before, Earlier

(* Every step keeps the order of what was yielded. *)
LEMMA TailOrderKept ==
  ASSUME TypeInv, TypeInv', OrderInv, TailTypes, TailTypes', TailOrder, [TrailNext]_trailVars,
         tail # "off", "damaged" \notin mishaps'
  PROVE  TailOrder'
<1>1. CASE UNCHANGED tailVars
  BY <1>1, TailOrderWritten
<1>2. CASE UNCHANGED logVars /\ TailReads
  BY <1>2, TailOrderRead
<1>3. ASSUME UNCHANGED logVars, UNCHANGED yielded,
             buf' = buf \/ buf' = <<>>,
             \A f \in Files : \A i \in 1..Len(Full(f)) : Unread(f, i)' => Unread(f, i)
      PROVE  TailOrder'
  <2>1. /\ \A f \in Files : Full(f)' = Full(f)
        /\ UNCHANGED <<next_seq, pc, rec>>
    BY <1>3, OwnStep DEF logVars, recorderVars
  <2>2. \A k \in 1..Len(buf') : k \in 1..Len(buf) /\ buf'[k] = buf[k]
    BY <1>3
  <2>3. /\ \A i, j \in 1..Len(yielded') : i < j => yielded'[i].sequence < yielded'[j].sequence
        /\ Ordered(buf')
        /\ \A i \in 1..Len(yielded'), j \in 1..Len(buf') : After(yielded'[i], buf'[j])
    BY <1>3, <2>2 DEF TailOrder, Ordered
  <2>4. /\ \A i \in 1..Len(yielded') : Earlier(yielded'[i].sequence)
        /\ \A i \in 1..Len(buf') : Earlier(buf'[i].rec.sequence)
    BY <1>3, <2>2 DEF TailOrder
  <2>5. ASSUME NEW f \in Files, NEW i \in 1..Len(Full(f)), Unread(f, i)'
        PROVE  /\ \A k \in 1..Len(yielded') : After(yielded'[k], Full(f)[i])
               /\ \A k \in 1..Len(buf') : Before(buf'[k], Full(f)[i])
    BY <1>3, <2>2, <2>5 DEF TailOrder
  <2> QED BY <2>1, <2>3, <2>4, <2>5 DEF TailOrder, Ordered, After, Before, Earlier
<1>4. CASE UNCHANGED logVars /\ (TailFindsNothing \/ TailSleeps \/ TailStops)
  <2>1. UNCHANGED <<tfile, tpos, buf, yielded, data, handle>> /\ tail' # "open"
    BY <1>4, OwnStep DEF TailFindsNothing, TailSleeps, TailStops
  <2>2. \A f \in Files : \A i \in 1..Len(Full(f)) : Unread(f, i)' => Unread(f, i)
    BY <2>1 DEF Unread
  <2> QED BY <1>3, <1>4, <2>1, <2>2
<1>5. CASE UNCHANGED logVars /\ TailFinds
  <2>1. buf' = <<>> /\ yielded' = <<>>
    BY <1>5 DEF TailFinds, TailTypes
  <2>2. Len(buf') = 0 /\ Len(yielded') = 0
    BY <2>1
  <2>3. 1..Len(buf') = {} /\ 1..Len(yielded') = {}
    BY <2>2
  <2> QED BY <2>3 DEF TailOrder, Ordered
<1>6. CASE UNCHANGED logVars /\ TailStats
  <2>1. UNCHANGED <<tfile, tpos, buf, yielded, data, handle, path>>
    BY <1>6, OwnStep DEF TailStats
  <2>2. tail' = "open" => path = handle /\ (path # tfile \/ tpos > Len(data[path]))
    BY <1>6 DEF TailStats, Rotated, TypeInv, FileTypes
  <2>3. \A f \in Files : \A i \in 1..Len(Full(f)) : Unread(f, i)' => Unread(f, i)
    BY <2>1, <2>2 DEF Unread
  <2> QED BY <1>3, <1>6, <2>1, <2>3
<1>7. CASE UNCHANGED logVars /\ TailOpens
  <2>1. UNCHANGED <<yielded, data, handle, path>> /\ tail = "open" /\ tfile' = handle /\ tpos' = 0 /\ buf' = <<>>
        /\ tail' = "read" /\ handle \in Files /\ tfile \in 0..handle
    BY <1>7, OwnStep DEF TailOpens, TypeInv, FileTypes, TailTypes
  <2>2. ASSUME NEW f \in Files, NEW i \in 1..Len(Full(f)), Unread(f, i)' PROVE Unread(f, i)
    <3>1. f <= handle
      <4> SUFFICES ASSUME f > handle PROVE FALSE
        BY <2>1 DEF Files
      <4>1. Full(f) = <<>>
        BY DEF OrderInv
      <4> QED BY <4>1
    <3>2. f = handle
      BY <2>1, <2>2, <3>1 DEF Unread, Files
    <3> QED BY <2>1, <3>2 DEF Unread, Files
  <2> QED BY <1>3, <1>7, <2>1, <2>2
<1>8. CASE UNCHANGED trailVars
  BY <1>1, <1>8 DEF trailVars
<1> QED BY <1>1, <1>2, <1>4, <1>5, <1>6, <1>7, <1>8, TailTurn, Zenon DEF logVars

(* The fields of a piece. *)
LEMMA PieceFields ==
  ASSUME NEW r, NEW k, NEW b \in BOOLEAN, NEW p, p = [rec |-> r, part |-> k, newline |-> b]
  PROVE  p.rec = r /\ p.part = k /\ (p.newline <=> b)
<1>1. p.rec = r /\ p.part = k /\ p.newline = b
  OBVIOUS
<1>2. p.newline \in BOOLEAN
  BY <1>1, Zenon
<1>3. CASE b = TRUE
  BY <1>1, <1>3, Zenon
<1>4. CASE b = FALSE
  BY <1>1, <1>4, Zenon
<1> QED BY <1>1, <1>3, <1>4

(* The lines of a prefix are as whole as those of the text. *)
LEMMA PrefixLines ==
  ASSUME NEW text \in Seq(Piece), NEW cut \in Seq(Piece), Len(cut) <= Len(text),
         \A i \in 1..Len(cut) : cut[i] = text[i], WholeLines(text)
  PROVE  WholeLines(cut)
<1> SUFFICES ASSUME NEW i \in 1..Len(cut)
             PROVE  cut[i].part <= i /\ InLine(cut, i - cut[i].part, i)
  BY DEF WholeLines
<1>1. Len(cut) \in Nat /\ Len(text) \in Nat /\ i \in 1..Len(text) /\ cut[i] = text[i] /\ cut[i] \in Piece
  OBVIOUS
<1>2. PICK s : s = i - cut[i].part
  OBVIOUS
<1>3. cut[i].part <= i /\ s \in 0..(i - 1) /\ InLine(text, s, i)
  BY SMTT(30), <1>1, <1>2 DEF WholeLines, Piece
<1>4. s # 0 => s \in 1..Len(cut)
  BY <1>1, <1>3
<1>5. \A j \in (s + 1)..i : j \in 1..Len(cut)
  BY <1>1, <1>3
<1>6. InLine(cut, s, i)
  BY <1>1, <1>3, <1>4, <1>5 DEF InLine
<1> QED BY <1>2, <1>3, <1>6

(* Between two newlines there is one record. *)
LEMMA LineFrom ==
  ASSUME NEW text \in Seq(Piece), WholeLines(text), NEW a \in Nat, NEW q \in 1..Len(text), a < q,
         a = 0 \/ text[a].newline, \A j \in (a + 1)..(q - 1) : ~text[j].newline
  PROVE  \A j \in (a + 1)..q : text[j].rec = text[q].rec /\ text[j].part = j - a
<1>1. Len(text) \in Nat /\ text[q] \in Piece
  OBVIOUS
<1>2. PICK s : s = q - text[q].part
  OBVIOUS
<1>3. s \in 0..(q - 1) /\ InLine(text, s, q)
  BY <1>1, <1>2 DEF WholeLines, Piece
<1>4. ~(s > a)
  <2> SUFFICES ASSUME s > a PROVE FALSE
    OBVIOUS
  <2>1. s \in (a + 1)..(q - 1) /\ s # 0
    BY <1>3
  <2> QED BY <1>3, <2>1 DEF InLine
<1>5. ~(s < a)
  <2> SUFFICES ASSUME s < a PROVE FALSE
    OBVIOUS
  <2>1. a \in (s + 1)..q /\ a # 0 /\ a < q
    BY <1>3
  <2> QED BY <1>3, <2>1 DEF InLine
<1>6. s = a
  BY <1>3, <1>4, <1>5
<1> QED BY <1>3, <1>6 DEF InLine

(* While nothing is lost or truncated, a file with its buffer has whole lines. *)
LEMMA LinesKept ==
  ASSUME TypeInv, TypeInv', OrderInv, LineInv, [TrailNext]_trailVars, Kept'
  PROVE  LineInv'
<1>1. mishaps \subseteq mishaps' /\ "damaged" \notin mishaps' /\ "lost" \notin mishaps' /\ "truncated" \notin mishaps'
  BY MishapsGrow DEF Kept
<1>2. handle \in Files /\ handle' \in Files /\ handle <= handle'
  BY HandleGrows
<1>3. ASSUME NEW f \in Files PROVE Full(f) \in Seq(Piece) /\ data[f] \in Seq(Piece)
  BY FullType
<1>4. ~Truncate
  BY <1>1 DEF Truncate, Happens
<1>5. CASE Moves
  <2>1. \A f \in Files : WholeLines(Full(f)')
    BY <1>5 DEF Moves, LineInv
  <2>2. PICK h : h = handle'
    OBVIOUS
  <2>3. h \in Files /\ Full(h)' = Full(h)
    BY <1>2, <1>5, <2>2 DEF Moves
  <2>4. h # handle => Full(h) = <<>>
    BY <1>2, <2>2 DEF OrderInv, Files
  <2>5. Alive' => Alive
    BY <1>1 DEF Alive
  <2>6. Alive' => (Full(h)' = <<>> \/ Full(h)'[Len(Full(h)')].newline)
    BY <2>2, <2>3, <2>4, <2>5 DEF LineInv
  <2> QED BY <2>1, <2>2, <2>6 DEF LineInv, WholeLines, InLine, Full
<1>6. CASE Loses
  <2>1. ~Alive' /\ \A f \in Files : Full(f)' = data[f]
    BY <1>1, <1>6 DEF Loses
  <2>2. ASSUME NEW f \in Files PROVE WholeLines(data[f])
    BY <1>3, FullType, PrefixLines DEF LineInv
  <2> QED BY <2>1, <2>2 DEF LineInv, WholeLines, InLine
<1>7. ASSUME NEW t \in Threads, WriteLine(t) PROVE LineInv'
  <2>1. PICK h, old, n, size : Writes(t, h, old, n, size)
    BY <1>7, WriteFiles
  <2>2. /\ handle' = handle /\ h = handle /\ h \in Files
        /\ \A f \in Files : f # h => Full(f)' = Full(f)
        /\ old = Full(h) /\ n = Len(old) /\ n \in Nat /\ size \in Nat \ {0} /\ old \in Seq(Piece)
        /\ Full(h)' \in Seq(Piece) /\ Len(Full(h)') = n + size
        /\ \A i \in 1..n : Full(h)'[i] = old[i]
        /\ \A i \in (n + 1)..(n + size) :
             Full(h)'[i] = [rec |-> rec[t], part |-> i - n, newline |-> i - n = size]
    BY <2>1 DEF Writes
  <2>3. Alive
    BY <1>7 DEF WriteLine
  <2>4. PICK new : new = Full(h)'
    OBVIOUS
  <2>5. /\ Len(new) = n + size
        /\ \A i \in 1..n : new[i] = old[i]
        /\ \A i \in (n + 1)..(n + size) :
             new[i].rec = rec[t] /\ new[i].part = i - n /\ (new[i].newline <=> i - n = size)
    <3>1. \A i \in (n + 1)..(n + size) : new[i] = [rec |-> rec[t], part |-> i - n, newline |-> i - n = size]
      BY <2>2, <2>4, Zenon
    <3>2. ASSUME NEW i \in (n + 1)..(n + size)
          PROVE  new[i].rec = rec[t] /\ new[i].part = i - n /\ (new[i].newline <=> i - n = size)
      <4>1. new[i] = [rec |-> rec[t], part |-> i - n, newline |-> i - n = size]
        BY <3>1
      <4>2. i \in Nat /\ n \in Nat /\ size \in Nat
        BY <2>2
      <4>3. PICK p, b : p = new[i] /\ b = (i - n = size)
        OBVIOUS
      <4>4. b \in BOOLEAN
        BY <4>3
      <4>5. p = [rec |-> rec[t], part |-> i - n, newline |-> b]
        BY <4>1, <4>3, Zenon
      <4>6. p.rec = rec[t] /\ p.part = i - n /\ (p.newline <=> b)
        BY <4>4, <4>5, PieceFields
      <4> QED BY <4>3, <4>6
    <3>3. Len(new) = n + size /\ \A i \in 1..n : new[i] = old[i]
      BY <2>2, <2>4, Zenon
    <3> QED BY <3>2, <3>3
  <2>6. WholeLines(old) /\ (n = 0 \/ old[n].newline)
    <3>1. WholeLines(old) /\ (old = <<>> \/ old[n].newline)
      BY <2>2, <2>3 DEF LineInv
    <3> QED BY <2>2, <3>1
  <2>7. ASSUME NEW i \in 1..n PROVE new[i].part <= i /\ InLine(new, i - new[i].part, i)
    <3>1. PICK s : s = i - old[i].part
      OBVIOUS
    <3>2. old[i] \in Piece /\ new[i] = old[i]
      BY <2>2, <2>5
    <3>3. old[i].part <= i /\ InLine(old, s, i) /\ s \in 0..(i - 1)
      BY SMTT(30), <2>2, <2>6, <3>1, <3>2 DEF WholeLines, Piece
    <3>4. s # 0 => s \in 1..n
      BY <2>2, <3>3
    <3>5. \A j \in (s + 1)..i : j \in 1..n
      BY <2>2, <3>3
    <3>6. InLine(new, s, i)
      BY <2>5, <3>2, <3>3, <3>4, <3>5 DEF InLine
    <3> QED BY <3>1, <3>2, <3>3, <3>6
  <2>8. ASSUME NEW i \in (n + 1)..(n + size) PROVE new[i].part <= i /\ InLine(new, i - new[i].part, i)
    <3>1. new[i].part <= i /\ i - new[i].part = n
      BY <2>2, <2>5
    <3>2. n # 0 => new[n].newline
      <4>1. n # 0 => n \in 1..n
        BY <2>2
      <4> QED BY <2>5, <2>6, <4>1
    <3>3. \A j \in (n + 1)..i : j \in (n + 1)..(n + size) /\ (j < i => j - n # size)
      BY <2>2
    <3>4. InLine(new, n, i)
      BY <2>5, <3>2, <3>3 DEF InLine
    <3> QED BY <3>1, <3>4
  <2>9. WholeLines(new)
    <3>1. \A i \in 1..Len(new) : i \in 1..n \/ i \in (n + 1)..(n + size)
      BY <2>2, <2>5
    <3> QED BY <2>7, <2>8, <3>1 DEF WholeLines
  <2>10. new[Len(new)].newline
    <3>1. n + size \in (n + 1)..(n + size) /\ (n + size) - n = size
      BY <2>2
    <3> QED BY <2>5, <3>1
  <2>11. \A f \in Files : WholeLines(Full(f)')
    BY <2>2, <2>4, <2>9 DEF LineInv
  <2>12. Full(h)'[Len(Full(h)')].newline /\ handle' = h
    BY <2>2, <2>4, <2>10
  <2> QED BY <2>11, <2>12 DEF LineInv, WholeLines, InLine, Full
<1> QED BY <1>1, <1>4, <1>5, <1>6, <1>7, FileSteps

(* A file grows, as long as it is not truncated. *)
LEMMA DataGrows ==
  ASSUME TypeInv, TypeInv', [TrailNext]_trailVars, Kept', NEW f \in Files
  PROVE  /\ data[f] \in Seq(Piece) /\ data'[f] \in Seq(Piece) /\ Len(data[f]) <= Len(data'[f])
         /\ \A i \in 1..Len(data[f]) : data'[f][i] = data[f][i]
<1>1. data[f] \in Seq(Piece) /\ data'[f] \in Seq(Piece)
  BY DEF TypeInv, FileTypes
<1>2. CASE Moves
  <2>1. Full(f)' = Full(f) /\ Len(data[f]) <= Len(data'[f])
    BY <1>2 DEF Moves
  <2>2. \A i \in 1..Len(data[f]) : Full(f)[i] = data[f][i]
    BY FullType
  <2>3. \A i \in 1..Len(data'[f]) : Full(f)'[i] = data'[f][i]
    <3>1. pending' \in Seq(Piece)
      BY DEF TypeInv, FileTypes
    <3>2. \A i \in 1..Len(data'[f]) : (data'[f] \o pending')[i] = data'[f][i]
      BY <1>1, <3>1
    <3> QED BY <3>2 DEF Full
  <2>4. \A i \in 1..Len(data[f]) : i \in 1..Len(data'[f])
    BY <1>1, <2>1
  <2> QED BY <1>1, <2>1, <2>2, <2>3, <2>4
<1>3. CASE data' = data
  BY <1>1, <1>3
<1>4. ~Truncate /\ "damaged" \notin mishaps'
  BY DEF Truncate, Happens, Kept
<1>5. (\E t \in Threads : WriteLine(t)) => data' = data
  BY DEF WriteLine
<1> QED BY <1>2, <1>3, <1>4, <1>5, FileSteps DEF Loses

(* What the tail has read stays as it is while the recorder goes on. *)
LEMMA TailLinesWritten ==
  ASSUME TypeInv, TypeInv', TailTypes, TailLines, [TrailNext]_trailVars, Kept', UNCHANGED tailVars
  PROVE  TailLines'
<1>1. UNCHANGED <<tail, tfile, tpos, buf, yielded>>
  BY DEF tailVars
<1>2. ASSUME tfile # 0
      PROVE  /\ tpos <= Len(data'[tfile])
             /\ \E s \in 0..tpos : /\ s = 0 \/ data'[tfile][s].newline
                                   /\ buf = SubSeq(data'[tfile], s + 1, tpos)
                                   /\ \A j \in (s + 1)..tpos : ~data'[tfile][j].newline
             /\ \A i \in 1..tpos : data'[tfile][i].newline =>
                  \E k \in 1..Len(yielded) : yielded[k] = data'[tfile][i].rec
  <2>1. PICK F, D, E : F = tfile /\ D = data[F] /\ E = data'[F]
    OBVIOUS
  <2>2. F \in Files /\ tpos \in Nat
    <3>1. tfile \in 0..handle /\ handle \in Files /\ tpos \in Nat
      BY DEF TailTypes, TypeInv, FileTypes
    <3> QED BY <1>2, <2>1, <3>1, AuditAssumption DEF Files
  <2>3. /\ D \in Seq(Piece) /\ E \in Seq(Piece) /\ Len(D) <= Len(E)
        /\ \A i \in 1..Len(D) : E[i] = D[i]
    BY <2>1, <2>2, DataGrows
  <2>4. tpos <= Len(D) /\ \E s \in 0..tpos : Buffered(s)
    BY <1>2, <2>1 DEF TailLines
  <2>5. \A i \in 1..tpos : E[i] = D[i]
    BY <2>2, <2>3, <2>4
  <2>6. PICK s \in 0..tpos : Buffered(s)
    BY <2>4
  <2>7. s = 0 \/ E[s].newline
    <3>1. s # 0 => s \in 1..tpos
      BY <2>2
    <3> QED BY <2>1, <2>5, <2>6, <3>1 DEF Buffered
  <2>8. buf = SubSeq(E, s + 1, tpos)
    <3>1. buf = SubSeq(D, s + 1, tpos)
      BY <2>1, <2>6 DEF Buffered
    <3>2. SubSeq(E, s + 1, tpos) = SubSeq(D, s + 1, tpos)
      BY <2>2, <2>3, <2>4
    <3> QED BY <3>1, <3>2
  <2>9. \A j \in (s + 1)..tpos : ~E[j].newline
    <3>1. \A j \in (s + 1)..tpos : j \in 1..tpos
      BY <2>2
    <3> QED BY <2>1, <2>5, <2>6, <3>1 DEF Buffered
  <2>10. \A i \in 1..tpos : E[i].newline => \E k \in 1..Len(yielded) : yielded[k] = E[i].rec
    BY <1>2, <2>1, <2>5 DEF TailLines
  <2>11. tpos <= Len(E)
    BY <2>2, <2>3, <2>4
  <2> QED BY <2>1, <2>7, <2>8, <2>9, <2>10, <2>11
<1>3. tail # "garbled"
  BY DEF TailLines
<1> QED BY <1>1, <1>2, <1>3 DEF TailLines, Buffered

(* A read meets whole lines and yields each of them. *)
LEMMA TailLinesRead ==
  ASSUME TypeInv, LineInv, TailTypes, TailLines, UNCHANGED logVars, TailReads
  PROVE  TailLines'
<1>1. PICK text, n, e, w : ReadsLines(text, n, e, w)
  BY ChunkRead
<1>2. PICK F, D, L, p : F = tfile /\ D = data[F] /\ L = Len(D) /\ p = tpos
  OBVIOUS
<1>3. /\ F \in Files /\ p \in Nat /\ L \in Nat /\ p < L /\ D \in Seq(Piece) /\ F # 0
      /\ tfile' = F /\ tpos' = L /\ data' = data
      /\ text = buf \o SubSeq(D, p + 1, L) /\ text \in Seq(Piece)
  <2>1. F \in Files /\ p \in Nat /\ data \in [Files -> Seq(Piece)]
    BY <1>1, <1>2 DEF ReadsLines, TailTypes, TypeInv, FileTypes
  <2>2. D \in Seq(Piece) /\ L \in Nat
    BY <1>2, <2>1
  <2>3. p < L /\ tfile' = F /\ tpos' = L /\ text \in Seq(Piece)
    BY <1>1, <1>2 DEF ReadsLines
  <2>4. text = buf \o SubSeq(D, p + 1, L)
    BY <1>1, <1>2, Zenon DEF ReadsLines, Chunk
  <2> QED BY <2>1, <2>2, <2>3, <2>4, OwnStep DEF Files
<1>4. /\ n \in Nat /\ w \in 0..n /\ Len(text) \in Nat
      /\ e \in [0..n -> 0..Len(text)] /\ e[0] = 0
      /\ \A i, k \in 0..n : i < k => e[i] < e[k]
      /\ \A k \in 1..n : text[e[k]].newline /\ \A j \in (e[k - 1] + 1)..(e[k] - 1) : ~text[j].newline
      /\ \A j \in (e[n] + 1)..Len(text) : ~text[j].newline
      /\ \A j \in 1..Len(text) : text[j].newline => \E k \in 1..n : e[k] = j
      /\ w # n => \E j \in (e[w] + 1)..e[w + 1] :
                    text[j].rec # text[e[w] + 1].rec \/ text[j].part # j - e[w]
      /\ buf' = SubSeq(text, e[n] + 1, Len(text))
      /\ tail' = (IF w = n THEN "read" ELSE "garbled")
  <2>1. Len(text) \in Nat
    BY <1>3
  <2> QED BY <1>1, <2>1, Zenon DEF ReadsLines
<1>5. PICK s \in 0..p : /\ s = 0 \/ D[s].newline
                        /\ buf = SubSeq(D, s + 1, p)
                        /\ \A j \in (s + 1)..p : ~D[j].newline
  BY <1>2, <1>3 DEF TailLines, Buffered
<1>6. text = SubSeq(D, s + 1, L) /\ Len(text) = L - s /\ \A j \in 1..(L - s) : text[j] = D[s + j]
  <2>1. SubSeq(D, s + 1, p) \o SubSeq(D, p + 1, L) = SubSeq(D, s + 1, L)
    BY SMTT(30), <1>3
  <2>2. text = SubSeq(D, s + 1, L)
    BY <1>3, <1>5, <2>1
  <2>3. Len(SubSeq(D, s + 1, L)) = L - s /\ \A j \in 1..(L - s) : SubSeq(D, s + 1, L)[j] = D[s + j]
    BY <1>2, <1>3
  <2> QED BY <2>2, <2>3
<1>7. WholeLines(D)
  <2>1. WholeLines(Full(F)) /\ Full(F) \in Seq(Piece) /\ L <= Len(Full(F)) /\ \A i \in 1..L : Full(F)[i] = D[i]
    BY <1>2, <1>3, FullType DEF LineInv
  <2> QED BY <1>2, <1>3, <2>1, PrefixLines
<1>8. \A k \in 0..n : e[k] \in 0..(L - s) /\ (s + e[k] = 0 \/ D[s + e[k]].newline) /\ s + e[k] \in Nat
  <2> TAKE k \in 0..n
  <2>1. e[k] \in 0..(L - s)
    BY <1>4, <1>6
  <2>2. CASE k = 0
    BY <1>4, <1>5, <2>1, <2>2
  <2>3. CASE k # 0
    <3>1. k \in 1..n /\ 0 \in 0..n
      BY <1>4, <2>3
    <3>2. text[e[k]].newline /\ e[k] \in 1..(L - s)
      <4>1. e[0] < e[k]
        BY <1>4, <3>1
      <4> QED BY <1>4, <2>1, <3>1, <4>1
    <3>3. text[e[k]] = D[s + e[k]]
      BY <1>6, <3>2
    <3>4. s + e[k] \in Nat
      BY <2>1
    <3> QED BY <2>1, <3>2, <3>3, <3>4
  <2> QED BY <2>2, <2>3
<1>9. ASSUME NEW k \in 1..n
      PROVE  \A j \in (e[k - 1] + 1)..e[k] : text[j].rec = text[e[k]].rec /\ text[j].part = j - e[k - 1]
  <2>1. PICK a, b : a = e[k - 1] /\ b = e[k]
    OBVIOUS
  <2>2. k - 1 \in 0..n /\ k \in 0..n
    BY <1>4
  <2>3. a \in 0..(L - s) /\ b \in 0..(L - s) /\ a < b /\ (s + a = 0 \/ D[s + a].newline)
    <3>1. e[k - 1] < e[k]
      BY <1>4, <2>2
    <3> QED BY <1>8, <2>1, <2>2, <3>1
  <2>4. s \in Nat /\ L \in Nat /\ s <= L
    BY <1>3
  <2>5. \A j \in (a + 1)..(b - 1) : ~text[j].newline
    BY <1>4, <2>1
  <2>6. \A j \in ((s + a) + 1)..((s + b) - 1) : ~D[j].newline
    <3> TAKE j \in ((s + a) + 1)..((s + b) - 1)
    <3>1. j - s \in (a + 1)..(b - 1) /\ j - s \in 1..(L - s) /\ s + (j - s) = j
      BY <2>3, <2>4
    <3> QED BY <1>6, <2>5, <3>1
  <2>7. s + a \in Nat /\ s + b \in 1..Len(D) /\ s + a < s + b
    BY <1>2, <2>3, <2>4
  <2>8. \A j \in ((s + a) + 1)..(s + b) : D[j].rec = D[s + b].rec /\ D[j].part = j - (s + a)
    BY <1>3, <1>7, <2>3, <2>6, <2>7, LineFrom
  <2>9. ASSUME NEW j \in (a + 1)..b PROVE text[j].rec = text[b].rec /\ text[j].part = j - a
    <3>1. s + j \in ((s + a) + 1)..(s + b) /\ (s + j) - (s + a) = j - a /\ j \in 1..(L - s) /\ b \in 1..(L - s)
      BY <2>3, <2>4
    <3>2. text[j] = D[s + j] /\ text[b] = D[s + b]
      BY <1>6, <3>1
    <3>3. D[s + j].rec = D[s + b].rec /\ D[s + j].part = (s + j) - (s + a)
      BY <2>8, <3>1
    <3> QED BY <3>1, <3>2, <3>3
  <2> QED BY <2>1, <2>9
<1>10. w = n
  <2> SUFFICES ASSUME w # n PROVE FALSE
    OBVIOUS
  <2>1. PICK k : k = w + 1
    OBVIOUS
  <2>2. k \in 1..n /\ k - 1 = w
    BY <1>4, <2>1
  <2>3. PICK a, b : a = e[w] /\ b = e[k]
    OBVIOUS
  <2>4. \A j \in (a + 1)..b : text[j].rec = text[b].rec /\ text[j].part = j - a
    BY <1>9, <2>2, <2>3
  <2>5. PICK j \in (a + 1)..b : text[j].rec # text[a + 1].rec \/ text[j].part # j - a
    BY <1>4, <2>1, <2>3
  <2>6. a + 1 \in (a + 1)..b
    <3>1. w \in 0..n /\ k \in 0..n
      BY <1>4, <2>2
    <3>2. a \in 0..Len(text) /\ b \in 0..Len(text)
      BY <1>4, <2>3, <3>1
    <3> QED BY <1>4, <2>5, <3>2
  <2> QED BY <2>4, <2>5, <2>6
<1>11. tail' # "garbled"
  BY <1>4, <1>10
<1>12. PICK r : r = s + e[n]
  OBVIOUS
<1>13. /\ r \in 0..L /\ (r = 0 \/ D[r].newline) /\ buf' = SubSeq(D, r + 1, L)
       /\ \A j \in (r + 1)..L : ~D[j].newline
  <2>1. n \in 0..n
    BY <1>4
  <2>2. e[n] \in 0..(L - s) /\ (r = 0 \/ D[r].newline)
    BY <1>8, <1>12, <2>1
  <2>3. r \in 0..L
    BY <1>3, <1>12, <2>2
  <2>4. buf' = SubSeq(D, r + 1, L)
    <3>1. PICK c : c = e[n]
      OBVIOUS
    <3>2. buf' = SubSeq(SubSeq(D, s + 1, L), c + 1, L - s) /\ c \in 0..(L - s) /\ r = s + c
      BY <1>4, <1>6, <1>12, <2>2, <3>1
    <3>3. SubSeq(SubSeq(D, s + 1, L), c + 1, L - s) = SubSeq(D, (s + c) + 1, L)
      BY <1>2, <1>3, <3>2
    <3> QED BY <3>2, <3>3
  <2>5. \A j \in (r + 1)..L : ~D[j].newline
    <3> TAKE j \in (r + 1)..L
    <3>1. j - s \in (e[n] + 1)..Len(text) /\ j - s \in 1..(L - s) /\ s + (j - s) = j
      <4>1. PICK c : c = e[n]
        OBVIOUS
      <4>2. c \in 0..(L - s) /\ r = s + c /\ Len(text) = L - s /\ L \in Nat /\ s \in 0..L
        BY <1>3, <1>6, <1>12, <2>2, <4>1
      <4>3. j - s \in (c + 1)..(L - s) /\ j - s \in 1..(L - s) /\ s + (j - s) = j
        BY <4>2
      <4> QED BY <4>1, <4>2, <4>3
    <3>2. ~text[j - s].newline
      BY <1>4, <3>1
    <3>3. text[j - s] = D[s + (j - s)]
      BY <1>6, <3>1
    <3> QED BY <3>1, <3>2, <3>3
  <2> QED BY <2>2, <2>3, <2>4, <2>5
<1>14. PICK new, old : /\ yielded' = old \o new /\ new \in Seq(AllRecords) /\ Len(new) = w /\ old = yielded
                       /\ \A k \in 1..w : new[k] = text[e[k - 1] + 1].rec
  <2>1. PICK new : /\ yielded' = yielded \o new /\ new \in Seq(AllRecords) /\ Len(new) = w
                   /\ \A k \in 1..w : new[k] = text[e[k - 1] + 1].rec
    BY <1>1, Zenon DEF ReadsLines
  <2> QED BY <2>1
<1>15. /\ old \in Seq(AllRecords) /\ Len(old) \in Nat /\ Len(yielded') = Len(old) + w
       /\ \A k \in 1..Len(old) : yielded'[k] = old[k]
       /\ \A k \in 1..w : yielded'[Len(old) + k] = new[k]
  <2>1. old \in Seq(AllRecords)
    BY <1>14 DEF TailTypes
  <2>2. /\ Len(old \o new) = Len(old) + Len(new)
        /\ \A k \in 1..Len(old) : (old \o new)[k] = old[k]
        /\ \A k \in 1..Len(new) : (old \o new)[Len(old) + k] = new[k]
    <3>1. Len(old) \in Nat /\ Len(new) \in Nat
      BY <1>14, <2>1
    <3>2. \A k \in 1..Len(new) : (old \o new)[Len(old) + k] = new[k]
      <4> TAKE k \in 1..Len(new)
      <4>1. Len(old) + k \in (Len(old) + 1)..(Len(old) + Len(new)) /\ (Len(old) + k) - Len(old) = k
        BY <3>1
      <4>2. (old \o new)[Len(old) + k] = new[(Len(old) + k) - Len(old)]
        BY <1>14, <2>1, <4>1, ConcatIs
      <4> QED BY <4>1, <4>2
    <3>3. new \in Seq(AllRecords)
      BY <1>14
    <3>4. /\ Len(old \o new) = Len(old) + Len(new)
          /\ \A k \in 1..Len(old) : (old \o new)[k] = old[k]
      BY <2>1, <3>3, ConcatIs, Zenon
    <3> QED BY <3>2, <3>4, Zenon
  <2> QED BY <1>14, <2>1, <2>2
<1>16. ASSUME NEW i \in 1..L, D[i].newline
       PROVE  \E k \in 1..Len(yielded') : yielded'[k] = D[i].rec
  <2>1. CASE i <= p
    <3>1. i \in 1..p
      BY <1>3, <2>1
    <3>2. PICK k \in 1..Len(old) : old[k] = D[i].rec
      BY <1>2, <1>3, <1>14, <1>16, <3>1 DEF TailLines
    <3>3. k \in 1..Len(yielded')
      BY <1>4, <1>15
    <3> QED BY <1>15, <3>2, <3>3
  <2>2. CASE ~(i <= p)
    <3>1. PICK j : j = i - s
      OBVIOUS
    <3>2. j \in 1..(L - s) /\ s + j = i
      BY <1>3, <2>2, <3>1
    <3>3. text[j].newline /\ text[j] = D[i] /\ j \in 1..Len(text)
      BY <1>6, <1>16, <3>2
    <3>4. PICK k \in 1..n : e[k] = j
      BY <1>4, <3>3
    <3>5. e[k - 1] + 1 \in (e[k - 1] + 1)..e[k]
      <4>1. k - 1 \in 0..n /\ k \in 0..n /\ k - 1 < k
        BY <1>4
      <4>2. e[k - 1] < e[k] /\ e[k - 1] \in 0..Len(text) /\ e[k] \in 0..Len(text)
        BY <1>4, <4>1
      <4> QED BY <1>4, <4>2
    <3>6. text[e[k - 1] + 1].rec = text[j].rec
      BY <1>9, <3>4, <3>5
    <3>7. k \in 1..w /\ new[k] = D[i].rec
      BY <1>10, <1>14, <3>3, <3>6
    <3>8. Len(old) + k \in 1..Len(yielded')
      BY <1>4, <1>15, <3>7
    <3> QED BY <1>15, <3>7, <3>8
  <2> QED BY <2>1, <2>2
<1>17. tpos' = L /\ tfile' = F /\ data'[F] = D /\ F # 0
  BY <1>2, <1>3
<1>18. /\ tpos' <= Len(data'[tfile'])
       /\ \E q \in 0..tpos' : /\ q = 0 \/ data'[tfile'][q].newline
                              /\ buf' = SubSeq(data'[tfile'], q + 1, tpos')
                              /\ \A j \in (q + 1)..tpos' : ~data'[tfile'][j].newline
       /\ \A i \in 1..tpos' : data'[tfile'][i].newline =>
            \E k \in 1..Len(yielded') : yielded'[k] = data'[tfile'][i].rec
  <2>1. L <= Len(D)
    BY <1>2, <1>3
  <2>2. data'[tfile'] = D /\ tpos' = L
    BY <1>17
  <2> QED BY <1>13, <1>16, <2>1, <2>2, Zenon
<1> QED BY <1>11, <1>18, Zenon DEF TailLines, Buffered

(* So every step keeps what the tail has yielded of the file it is in. *)
LEMMA TailLinesKept ==
  ASSUME TypeInv, TypeInv', LineInv, TailTypes, TailLines, [TrailNext]_trailVars, Kept'
  PROVE  TailLines'
<1>1. CASE UNCHANGED tailVars
  BY <1>1, TailLinesWritten
<1>2. CASE UNCHANGED logVars /\ TailReads
  BY <1>2, TailLinesRead
<1>3. CASE UNCHANGED logVars /\ (TailFinds \/ TailFindsNothing \/ TailSleeps \/ TailStats \/ TailStops)
  <2>1. UNCHANGED <<tfile, tpos, buf, yielded, data>> /\ tail' # "garbled"
    BY <1>3, OwnStep DEF TailFinds, TailFindsNothing, TailSleeps, TailStats, TailStops
  <2> QED BY <2>1 DEF TailLines, Buffered
<1>4. CASE UNCHANGED logVars /\ TailOpens
  <2>1. tail' = "read" /\ tpos' = 0 /\ buf' = <<>> /\ data' = data /\ tfile' = path /\ path \in Files
    BY <1>4, OwnStep DEF TailOpens, TypeInv, FileTypes
  <2>2. data[path] \in Seq(Piece)
    BY <2>1 DEF TypeInv, FileTypes
  <2>3. /\ 0 <= Len(data[path])
        /\ <<>> = SubSeq(data[path], 0 + 1, 0)
        /\ 0 \in 0..0 /\ (0 + 1)..0 = {} /\ 1..0 = {}
    BY <2>2
  <2>4. Buffered(0)'
    BY <2>1, <2>3 DEF Buffered
  <2> QED BY <2>1, <2>3, <2>4 DEF TailLines
<1>5. CASE UNCHANGED trailVars
  BY <1>1, <1>5 DEF trailVars
<1> QED BY <1>1, <1>2, <1>3, <1>4, <1>5, TailTurn, Zenon DEF logVars

(* A prefix of a chain is a chain. *)
LEMMA PrefixChain ==
  ASSUME NEW text \in Seq(Piece), NEW cut \in Seq(Piece), Len(cut) <= Len(text),
         \A i \in 1..Len(cut) : cut[i] = text[i], Chained(text)
  PROVE  Chained(cut)
<1>1. Len(cut) \in Nat /\ Len(text) \in Nat /\ \A i \in 1..Len(cut) : i \in 1..Len(text)
  OBVIOUS
<1>2. \A i \in 1..Len(cut) : Genuine(cut[i].rec)
  BY <1>1 DEF Chained
<1>3. ASSUME NEW i \in 1..Len(cut) PROVE SubSeq(cut, 1, i - 1) = SubSeq(text, 1, i - 1)
  BY <1>1
<1>4. Linked(cut)
  BY <1>1, <1>3 DEF Chained, Linked
<1> QED BY <1>2, <1>4 DEF Chained

(* A record that continues a chain makes a longer one. *)
LEMMA WrittenChain ==
  ASSUME NEW old \in Seq(Piece), NEW r, NEW new \in Seq(Piece), NEW size \in Nat \ {0},
         Chained(old), Genuine(r), Continues(r.sequence, r.prev_chain, old),
         Len(new) = Len(old) + size,
         \A i \in 1..Len(old) : new[i] = old[i],
         \A i \in (Len(old) + 1)..(Len(old) + size) : new[i].rec = r /\ new[i].part = i - Len(old)
  PROVE  /\ Chained(new) /\ Continues(r.sequence + 1, r.chain_hash, new)
         /\ \E k \in 1..Len(new) : new[k].rec = r
<1>1. PICK n : n = Len(old)
  OBVIOUS
<1>2. n \in Nat /\ Len(new) = n + size /\ Len(new) # 0
  BY <1>1
<1>3. \A i \in 1..Len(new) : i \in 1..n \/ i \in (n + 1)..(n + size)
  BY <1>2
<1>4. \A i \in 1..Len(new) : Genuine(new[i].rec)
  BY <1>1, <1>3 DEF Chained
<1>5. ASSUME NEW i \in 1..n, new[i].part = 1
      PROVE  /\ new[i].rec.sequence = NextSequence(SubSeq(new, 1, i - 1))
             /\ new[i].rec.prev_chain = LastChain(SubSeq(new, 1, i - 1))
  <2>1. SubSeq(new, 1, i - 1) = SubSeq(old, 1, i - 1)
    BY <1>1, <1>2
  <2> QED BY <1>1, <1>5, <2>1 DEF Chained, Linked
<1>6. ASSUME NEW i \in (n + 1)..(n + size), new[i].part = 1
      PROVE  /\ new[i].rec.sequence = NextSequence(SubSeq(new, 1, i - 1))
             /\ new[i].rec.prev_chain = LastChain(SubSeq(new, 1, i - 1))
  <2>1. new[i].rec = r /\ i - n = 1
    BY <1>1, <1>6
  <2>2. i - 1 = n
    BY <1>2, <2>1
  <2>3. SubSeq(new, 1, n) = old
    BY <1>1, <1>2
  <2> QED BY <2>1, <2>2, <2>3 DEF Continues
<1>7. Linked(new)
  BY <1>3, <1>5, <1>6 DEF Linked
<1>8. n + size \in (n + 1)..(n + size) /\ n + size \in 1..Len(new) /\ new # <<>>
  BY <1>2
<1>9. new[n + size].rec = r
  BY <1>1, <1>8
<1>10. Continues(r.sequence + 1, r.chain_hash, new)
  BY <1>2, <1>8, <1>9 DEF Continues, NextSequence, LastChain
<1> QED BY <1>4, <1>7, <1>8, <1>9, <1>10 DEF Chained

(* While one handle is kept its file stays a chain with all acknowledged records, *)
LEMMA FileChainKept ==
  ASSUME TypeInv, TypeInv', ChainInv, [TrailNext]_trailVars, mishaps' \subseteq {"crashed"}
  PROVE  FileChain'
<1>1. mishaps \subseteq mishaps' /\ Kept' /\ "damaged" \notin mishaps'
  BY MishapsGrow DEF Kept
<1>2. ~Truncate /\ ~Rotate /\ ~Damage
  BY <1>1 DEF Truncate, Rotate, Damage, Happens
<1>3. handle' = 1 /\ path' = 1
  <2>1. handle = 1 /\ path = 1
    BY DEF ChainInv, FileChain
  <2>2. ASSUME NEW t \in Threads, NEW e \in Events, Build(t, e) \/ RecordOnly(t, e)
        PROVE  UNCHANGED <<handle, path>>
    BY <2>2 DEF Build, RecordOnly, fileVars
  <2>3. ASSUME NEW t \in Threads, WriteLine(t) \/ FlushPiece(t) \/ FlushEnds(t) \/ FlushFails(t)
        PROVE  UNCHANGED <<handle, path>>
    BY <2>3 DEF WriteLine, FlushPiece, FlushEnds, FlushFails, fileVars
  <2>4. ASSUME Reopen PROVE UNCHANGED <<handle, path>>
    BY <2>1, <2>4 DEF Reopen
  <2>5. ASSUME Crash \/ UNCHANGED logVars \/ UNCHANGED trailVars PROVE UNCHANGED <<handle, path>>
    BY <2>5 DEF Crash, logVars, fileVars, trailVars
  <2> QED BY <1>2, <2>1, <2>2, <2>3, <2>4, <2>5 DEF TrailNext, WriterNext
<1>4. 1 \in Files /\ handle = 1
  BY AuditAssumption DEF Files, ChainInv, FileChain
<1>5. /\ Full(1) \in Seq(Piece) /\ data[1] \in Seq(Piece) /\ Len(data[1]) <= Len(Full(1))
      /\ \A i \in 1..Len(data[1]) : Full(1)[i] = data[1][i]
  BY <1>4, FullType
<1>6. Chained(Full(1)')
  <2>1. CASE Moves
    BY <1>4, <2>1 DEF Moves, ChainInv, FileChain
  <2>2. CASE Loses
    <3>1. Chained(data[1])
      BY <1>5, PrefixChain DEF ChainInv, FileChain
    <3> QED BY <1>4, <2>2, <3>1 DEF Loses
  <2>3. ASSUME NEW t \in Threads, WriteLine(t) PROVE Chained(Full(1)')
    <3>1. PICK h, old, n, size : Writes(t, h, old, n, size)
      BY <2>3, WriteFiles
    <3>2. Alive /\ pc[t] = "write" /\ h = 1
      BY <1>4, <2>3, <3>1 DEF WriteLine, Writes
    <3>3. PICK new : new = Full(h)'
      OBVIOUS
    <3>8. new = Full(1)' /\ Full(h) = Full(1)
      BY <3>2, <3>3
    <3>4. /\ old = Full(h) /\ n = Len(old) /\ old \in Seq(Piece) /\ new \in Seq(Piece)
          /\ size \in Nat \ {0} /\ Len(new) = n + size /\ \A i \in 1..n : new[i] = old[i]
          /\ \A i \in (n + 1)..(n + size) : new[i] = [rec |-> rec[t], part |-> i - n, newline |-> i - n = size]
      BY <3>1, <3>3, Zenon DEF Writes
    <3>5. \A i \in (n + 1)..(n + size) : new[i].rec = rec[t] /\ new[i].part = i - n
      <4> TAKE i \in (n + 1)..(n + size)
      <4>1. new[i] = [rec |-> rec[t], part |-> i - n, newline |-> i - n = size]
        BY <3>4, Zenon
      <4> QED BY <4>1
    <3>6. Chained(old) /\ Genuine(rec[t]) /\ Continues(rec[t].sequence, rec[t].prev_chain, old)
      BY <3>2, <3>4, <3>8 DEF ChainInv, FileChain, RecorderChain
    <3>7. Chained(new)
      BY ZenonT(40), <3>4, <3>5, <3>6, WrittenChain
    <3> QED BY <3>7, <3>8
  <2> QED BY <1>1, <1>2, <2>1, <2>2, <2>3, FileSteps
<1>7. ASSUME NEW n \in acked' PROVE \E k \in 1..Len(data'[1]) : data'[1][k].rec.sequence = n
  <2>1. /\ data'[1] \in Seq(Piece) /\ Len(data[1]) <= Len(data'[1])
        /\ \A i \in 1..Len(data[1]) : data'[1][i] = data[1][i]
    BY <1>1, <1>4, DataGrows
  <2>2. \A k \in 1..Len(data[1]) : k \in 1..Len(data'[1])
    BY <1>5, <2>1
  <2>3. CASE n \in acked
    <3>1. PICK k \in 1..Len(data[1]) : data[1][k].rec.sequence = n
      BY <2>3 DEF ChainInv, FileChain
    <3> QED BY <2>1, <2>2, <3>1
  <2>4. CASE n \notin acked
    <3>1. PICK t \in Threads : FlushEnds(t) /\ n = rec[t].sequence
      <4>1. ASSUME NEW t \in Threads, NEW e \in Events, Build(t, e) \/ RecordOnly(t, e) PROVE acked' = acked
        BY <4>1 DEF Build, RecordOnly, historyVars
      <4>2. ASSUME NEW t \in Threads, WriteLine(t) \/ FlushPiece(t) \/ FlushFails(t) PROVE acked' = acked
        BY <4>2 DEF WriteLine, FlushPiece, FlushFails, historyVars
      <4>3. ASSUME Reopen \/ Crash \/ UNCHANGED logVars \/ UNCHANGED trailVars PROVE acked' = acked
        BY <4>3 DEF Reopen, Crash, logVars, historyVars, trailVars
      <4>4. PICK t \in Threads : FlushEnds(t)
        BY <1>2, <1>7, <2>4, <4>1, <4>2, <4>3 DEF TrailNext, WriterNext
      <4>5. n = rec[t].sequence
        BY <1>7, <2>4, <4>4 DEF FlushEnds
      <4> QED BY <4>4, <4>5
    <3>2. Alive /\ pc[t] = "flush" /\ pending = <<>>
      BY <3>1 DEF FlushEnds
    <3>3. PICK k \in 1..Len(Full(1)) : Full(1)[k].rec = rec[t]
      BY <3>2 DEF ChainInv, RecorderChain
    <3>4. Full(1) = data[1]
      <4>1. data[1] \o <<>> = data[1]
        BY <1>5
      <4> QED BY <1>4, <3>2, <4>1 DEF Full
    <3> QED BY <2>1, <2>2, <3>1, <3>3, <3>4
  <2> QED BY <2>3, <2>4
<1> QED BY <1>3, <1>6, <1>7 DEF FileChain, Chained, Genuine, Linked, NextSequence, LastChain

(* and the recorder, or the record under way, continues it. *)
LEMMA RecorderChainKept ==
  ASSUME TypeInv, TypeInv', ChainInv, [TrailNext]_trailVars, mishaps' \subseteq {"crashed"}, Alive'
  PROVE  RecorderChain'
<1>1. mishaps \subseteq mishaps' /\ Kept' /\ "damaged" \notin mishaps' /\ Alive
  BY MishapsGrow DEF Kept, Alive
<1>2. ~Truncate /\ ~Rotate /\ ~Damage /\ ~Crash /\ \A t \in Threads, e \in Events : ~RecordOnly(t, e)
  BY <1>1 DEF Truncate, Rotate, Damage, Crash, RecordOnly, Happens, Alive
<1>3. /\ 1 \in Files /\ handle = 1 /\ RecorderChain /\ DOMAIN pc = Threads /\ DOMAIN rec = Threads
      /\ next_seq \in Nat
  BY <1>1, AuditAssumption DEF Files, ChainInv, FileChain, TypeInv, RecorderTypes
<1>4. \A t \in Threads : lock = NoThread \/ lock = t => \A x \in Threads : x # t => pc[x] = "idle"
  BY AuditAssumption DEF TypeInv, LockInv
<1>5. \A t \in Threads : lock = NoThread => pc[t] = "idle"
  BY AuditAssumption DEF TypeInv, LockInv
<1>6. CASE Full(1)' = Full(1) /\ UNCHANGED <<pc, rec, next_seq, prev_chain>>
  <2>1. PICK text : text = Full(1) /\ text = Full(1)'
    BY <1>6
  <2> QED BY <1>3, <1>6, <2>1 DEF RecorderChain, Genuine, Continues, NextSequence, LastChain
<1>7. ASSUME NEW t \in Threads, NEW e \in Events, Build(t, e) PROVE RecorderChain'
  <2>1. /\ next_seq' = next_seq + 1 /\ prev_chain' = hash_chain(prev_chain, Leaf(e))
        /\ pc' = [pc EXCEPT ![t] = "write"] /\ lock = NoThread
        /\ rec' = [rec EXCEPT ![t] = RecordOf(next_seq, prev_chain, e)]
        /\ UNCHANGED <<pending, handle, data>>
    BY <1>7 DEF Build, BuildRecord, LockIsFree, fileVars
  <2>2. Full(1)' = Full(1)
    BY <2>1 DEF Full
  <2>3. PICK r : r = RecordOf(next_seq, prev_chain, e)
    OBVIOUS
  <2>4. Genuine(r) /\ r.sequence = next_seq /\ r.prev_chain = prev_chain /\ r.chain_hash = prev_chain'
    BY <2>1, <2>3 DEF RecordOf, Genuine
  <2>5. Continues(next_seq, prev_chain, Full(1))
    <3>1. \A x \in Threads : pc[x] # "write"
      BY <1>5, <2>1
    <3> QED BY <1>3, <3>1 DEF RecorderChain
  <2>6. pc'[t] = "write" /\ rec'[t] = r /\ \A x \in Threads : x # t => pc'[x] = "idle"
    BY <1>3, <1>5, <2>1, <2>3
  <2> QED BY <2>1, <2>2, <2>4, <2>5, <2>6
          DEF RecorderChain, Genuine, Continues, NextSequence, LastChain
<1>8. ASSUME NEW t \in Threads, WriteLine(t) PROVE RecorderChain'
  <2>1. PICK h, old, n, size : Writes(t, h, old, n, size)
    BY <1>8, WriteFiles
  <2>2. h = 1 /\ pc[t] = "write" /\ UNCHANGED <<next_seq, prev_chain, rec>> /\ pc' = [pc EXCEPT ![t] = "flush"]
    BY <1>3, <2>1 DEF Writes
  <2>3. PICK new : new = Full(h)'
    OBVIOUS
  <2>4. new = Full(1)' /\ Full(h) = Full(1)
    BY <2>2, <2>3
  <2>5. /\ old = Full(h) /\ n = Len(old) /\ old \in Seq(Piece) /\ new \in Seq(Piece)
        /\ size \in Nat \ {0} /\ Len(new) = n + size /\ \A i \in 1..n : new[i] = old[i]
        /\ \A i \in (n + 1)..(n + size) : new[i] = [rec |-> rec[t], part |-> i - n, newline |-> i - n = size]
    BY <2>1, <2>3, Zenon DEF Writes
  <2>6. \A i \in (n + 1)..(n + size) : new[i].rec = rec[t] /\ new[i].part = i - n
    <3> TAKE i \in (n + 1)..(n + size)
    <3>1. new[i] = [rec |-> rec[t], part |-> i - n, newline |-> i - n = size]
      BY <2>5, Zenon
    <3> QED BY <3>1
  <2>7. /\ Chained(old) /\ Genuine(rec[t]) /\ Continues(rec[t].sequence, rec[t].prev_chain, old)
        /\ next_seq = rec[t].sequence + 1 /\ prev_chain = rec[t].chain_hash
    BY <1>3, <2>2, <2>4, <2>5 DEF ChainInv, FileChain, RecorderChain
  <2>8. Continues(next_seq, prev_chain, new) /\ \E k \in 1..Len(new) : new[k].rec = rec[t]
    <3>1. /\ Len(new) = Len(old) + size /\ \A i \in 1..Len(old) : new[i] = old[i]
          /\ \A i \in (Len(old) + 1)..(Len(old) + size) : new[i].rec = rec[t] /\ new[i].part = i - Len(old)
      BY <2>5, <2>6, Zenon
    <3>2. /\ Continues(rec[t].sequence + 1, rec[t].chain_hash, new)
          /\ \E k \in 1..Len(new) : new[k].rec = rec[t]
      <4>1. PICK r : r = rec[t]
        OBVIOUS
      <4>2. /\ old \in Seq(Piece) /\ new \in Seq(Piece) /\ size \in Nat \ {0}
            /\ Chained(old) /\ Genuine(r) /\ Continues(r.sequence, r.prev_chain, old)
        BY <2>5, <2>7, <4>1, Zenon
      <4>3. /\ Continues(r.sequence + 1, r.chain_hash, new)
            /\ \E k \in 1..Len(new) : new[k].rec = r
        BY <3>1, <4>1, <4>2, WrittenChain
      <4> QED BY <4>1, <4>3
    <3> QED BY <2>7, <3>2
  <2>9. pc'[t] = "flush" /\ \A x \in Threads : x # t => pc'[x] = "idle"
    <3>1. lock = t
      BY <2>2 DEF TypeInv, LockInv
    <3> QED BY <1>3, <1>4, <2>2, <3>1
  <2> QED BY <2>2, <2>4, <2>8, <2>9 DEF RecorderChain, Continues, NextSequence, LastChain
<1>9. ASSUME NEW t \in Threads, FlushPiece(t) PROVE RecorderChain'
  <2>1. Full(1)' = Full(1)
    BY <1>3, <1>9, FlushFiles DEF Moves
  <2> QED BY <1>6, <1>9, <2>1 DEF FlushPiece, recorderVars
<1>10. ASSUME NEW t \in Threads, FlushEnds(t) \/ FlushFails(t) PROVE RecorderChain'
  <2>1. /\ pc[t] = "flush" /\ pc' = [pc EXCEPT ![t] = "idle"] /\ UNCHANGED <<next_seq, prev_chain, pending, handle, data>>
    BY <1>10 DEF FlushEnds, FlushFails, Unlock, fileVars
  <2>2. Full(1)' = Full(1)
    BY <2>1 DEF Full
  <2>3. \A x \in Threads : pc'[x] = "idle"
    <3>1. lock = t
      BY <2>1 DEF TypeInv, LockInv
    <3> QED BY <1>3, <1>4, <2>1, <3>1
  <2>4. Continues(next_seq, prev_chain, Full(1))
    <3>1. \A x \in Threads : pc[x] # "write"
      <4>1. lock = t
        BY <2>1 DEF TypeInv, LockInv
      <4> QED BY <1>4, <2>1, <4>1
    <3> QED BY <1>3, <3>1 DEF RecorderChain
  <2> QED BY <2>1, <2>2, <2>3, <2>4 DEF RecorderChain, Continues, NextSequence, LastChain
<1>11. ASSUME Reopen PROVE RecorderChain'
  <2>1. ~Loses
    BY <1>1 DEF Loses, Kept
  <2>2. Full(1)' = Full(1)
    BY <1>3, <1>11, <2>1, ReopenFiles DEF Moves
  <2> QED BY <1>6, <1>11, <2>2 DEF Reopen, recorderVars
<1>12. ASSUME UNCHANGED logVars PROVE RecorderChain'
  <2>1. Full(1)' = Full(1)
    BY <1>3, <1>12, OwnStep
  <2> QED BY <1>6, <1>12, <2>1 DEF logVars, recorderVars
<1> QED BY <1>2, <1>7, <1>8, <1>9, <1>10, <1>11, <1>12 DEF TrailNext, WriterNext, trailVars

(* A file of whole, linked lines verifies. *)
LEMMA ChainVerifies ==
  ASSUME NEW text \in Seq(Piece), WholeLines(text), Chained(text), Split(text).rest = <<>>
  PROVE  LogVerifies(text, {})
<1>1. PICK u : u = Split(text)
  OBVIOUS
<1>2. PICK e : Ends(text, Len(text), u, e)
  BY <1>1, SplitEnds
<1>3. PICK n : n = Len(u.lines)
  OBVIOUS
<1>4. n \in Nat /\ Len(text) \in Nat /\ DOMAIN u.lines = 1..n /\ LinesOf(text) = u.lines
  <2>1. u \in Parted
    BY <1>1, SplitType
  <2> QED BY <1>1, <1>3, <2>1 DEF Parted, LinesOf
<1>5. /\ e \in [0..n -> 0..Len(text)] /\ e[0] = 0
      /\ \A k \in 1..n : /\ e[k - 1] < e[k] /\ u.lines[k] = SubSeq(text, e[k - 1] + 1, e[k])
                         /\ text[e[k]].newline
                         /\ \A j \in (e[k - 1] + 1)..(e[k] - 1) : ~text[j].newline
  BY <1>2, <1>3, Zenon DEF Ends
<1>6. PICK r : r = RecordsOf(text)
  OBVIOUS
<1>7. /\ r \in Seq(AllRecords) /\ Len(r) = n /\ DOMAIN r = 1..n
      /\ \A k \in 1..n : r[k] = u.lines[k][1].rec
  BY <1>3, <1>4, <1>6, RecordsType
<1>8. ASSUME NEW k \in 1..n
      PROVE  /\ Parses(u.lines[k]) /\ Genuine(r[k])
             /\ e[k] \in 1..Len(text) /\ text[e[k]].rec = r[k]
             /\ r[k].sequence = NextSequence(SubSeq(text, 1, e[k - 1]))
             /\ r[k].prev_chain = LastChain(SubSeq(text, 1, e[k - 1]))
  <2>1. PICK a, b, line : a = e[k - 1] /\ b = e[k] /\ line = u.lines[k]
    OBVIOUS
  <2>2. k - 1 \in 0..n /\ k \in 0..n
    BY <1>4
  <2>3. a \in 0..Len(text) /\ b \in 0..Len(text) /\ a < b
    BY <1>5, <2>1, <2>2
  <2>4. line = SubSeq(text, a + 1, b) /\ text[b].newline /\ \A j \in (a + 1)..(b - 1) : ~text[j].newline
    BY <1>5, <2>1, Zenon
  <2>5. a = 0 \/ text[a].newline
    <3>1. CASE k = 1
      BY <1>5, <2>1, <3>1
    <3>2. CASE k # 1
      <4>1. k - 1 \in 1..n
        BY <1>4, <3>2
      <4> QED BY <1>5, <2>1, <4>1
    <3> QED BY <3>1, <3>2
  <2>6. \A j \in (a + 1)..b : text[j].rec = text[b].rec /\ text[j].part = j - a
    <3>1. b \in 1..Len(text) /\ a \in Nat
      BY <1>4, <2>3
    <3> QED BY <2>3, <2>4, <2>5, <3>1, LineFrom
  <2>7. /\ Len(line) = b - a /\ DOMAIN line = 1..(b - a) /\ \A j \in 1..(b - a) : line[j] = text[a + j]
    BY <1>4, <2>3, <2>4
  <2>8. \A j \in 1..(b - a) : line[j].rec = text[b].rec /\ line[j].part = j
    <3> TAKE j \in 1..(b - a)
    <3>1. a + j \in (a + 1)..b /\ (a + j) - a = j
      BY <2>3
    <3> QED BY <2>6, <2>7, <3>1
  <2>9. 1 \in 1..(b - a) /\ b - a \in 1..(b - a) /\ a + (b - a) = b /\ a + 1 \in 1..Len(text)
    BY <1>4, <2>3
  <2>10. line[Len(line)].newline
    BY <2>4, <2>7, <2>9
  <2>11. Parses(line)
    BY <2>7, <2>8, <2>9, <2>10 DEF Parses
  <2>12. r[k] = text[b].rec /\ text[a + 1].rec = r[k] /\ text[a + 1].part = 1
    <3>1. line[1] = text[a + 1] /\ line[1].rec = text[b].rec /\ line[1].part = 1
      BY <2>7, <2>8, <2>9
    <3>2. r[k] = line[1].rec
      BY <1>7, <2>1
    <3> QED BY <3>1, <3>2
  <2>13. b \in 1..Len(text) /\ (a + 1) - 1 = a
    BY <1>4, <2>3
  <2>14. Genuine(r[k])
    BY <2>12, <2>13 DEF Chained
  <2>15. r[k].sequence = NextSequence(SubSeq(text, 1, a)) /\ r[k].prev_chain = LastChain(SubSeq(text, 1, a))
    <3>1. PICK i : i = a + 1
      OBVIOUS
    <3>2. i \in 1..Len(text) /\ i - 1 = a /\ text[i].part = 1 /\ text[i].rec = r[k]
      BY <2>9, <2>12, <2>13, <3>1
    <3>3. /\ text[i].rec.sequence = NextSequence(SubSeq(text, 1, i - 1))
          /\ text[i].rec.prev_chain = LastChain(SubSeq(text, 1, i - 1))
      BY <3>2 DEF Chained, Linked
    <3> QED BY <3>2, <3>3
  <2> QED BY <2>1, <2>11, <2>12, <2>13, <2>14, <2>15, Zenon
<1>9. ASSUME NEW k \in 1..n, k = 1 PROVE r[k].sequence = 0 /\ r[k].prev_chain = <<>>
  <2>1. e[k - 1] = 0 /\ SubSeq(text, 1, 0) = <<>>
    BY <1>5, <1>9
  <2> QED BY <1>8, <2>1 DEF NextSequence, LastChain
<1>10. ASSUME NEW k \in 1..n, k # 1
       PROVE  r[k].sequence = r[k - 1].sequence + 1 /\ r[k].prev_chain = r[k - 1].chain_hash
  <2>1. k - 1 \in 1..n
    BY <1>4, <1>10
  <2>2. PICK b : b = e[k - 1]
    OBVIOUS
  <2>3. b \in 1..Len(text) /\ text[b].rec = r[k - 1]
    BY <1>8, <2>1, <2>2
  <2>4. PICK cut : cut = SubSeq(text, 1, b)
    OBVIOUS
  <2>5. Len(cut) = b /\ cut[b] = text[b] /\ cut # <<>>
    BY <1>4, <2>3, <2>4
  <2>6. NextSequence(cut) = r[k - 1].sequence + 1 /\ LastChain(cut) = r[k - 1].chain_hash
    BY <2>3, <2>5 DEF NextSequence, LastChain
  <2> QED BY <1>8, <2>2, <2>4, <2>6
<1> DEFINE S == {k \in 0..n : k = 0 \/ r[k].sequence = k - 1}
<1>11. 0..n \subseteq S
  <2>1. 0 \in S
    BY <1>4
  <2>2. ASSUME NEW k \in 0..(n - 1), k \in S PROVE k + 1 \in S
    <3>1. k + 1 \in 1..n /\ k + 1 \in 0..n /\ (k + 1) - 1 = k
      BY <1>4
    <3>2. CASE k = 0
      BY <1>9, <3>1, <3>2
    <3>3. CASE k # 0
      <4>1. r[k].sequence = k - 1 /\ k + 1 # 1
        BY <2>2, <3>3
      <4>2. r[k + 1].sequence = r[(k + 1) - 1].sequence + 1
        BY <1>10, <3>1, <4>1
      <4> QED BY <3>1, <4>1, <4>2
    <3> QED BY <3>2, <3>3
  <2> HIDE DEF S
  <2> QED BY <1>4, <2>1, <2>2, InductionUpTo
<1>12. ASSUME NEW k \in 1..n
       PROVE  RecordVerifies(r[k], k - 1, IF k = 1 THEN <<>> ELSE r[k - 1].chain_hash)
  <2>1. r[k].sequence = k - 1
    <3>1. k \in 0..n /\ k # 0
      BY <1>4
    <3> QED BY <1>11, <3>1
  <2>2. r[k].prev_chain = IF k = 1 THEN <<>> ELSE r[k - 1].chain_hash
    BY <1>9, <1>10
  <2>3. Genuine(r[k])
    BY <1>8
  <2> QED BY <2>1, <2>2, <2>3 DEF RecordVerifies, Genuine
<1> QED BY <1>4, <1>6, <1>7, <1>8, <1>12 DEF LogVerifies

-----------------------------------------------------------------------------
(* The invariants together. *)
LEMMA LogInvAtStart == TrailInit => LogInv /\ TailInv
<1> SUFFICES ASSUME TrailInit PROVE LogInv /\ TailInv
  OBVIOUS
<1>1. TypeInv /\ SummaryInv
  BY TypesAtStart DEF TrailInit, SummaryInv, NoSummary
<1>2. /\ next_seq = 0 /\ prev_chain = <<>> /\ pc = [t \in Threads |-> "idle"]
      /\ pending = <<>> /\ handle = 1 /\ path = 1 /\ data = [f \in Files |-> <<>>]
      /\ acked = {} /\ mishaps = {} /\ tail \in {"wait", "off"} /\ tfile = 0 /\ tpos = 0 /\ buf = <<>> /\ yielded = <<>>
  BY DEF TrailInit, Init
<1>3. \A f \in Files : Full(f) = <<>>
  <2>1. <<>> \o <<>> = <<>>
    OBVIOUS
  <2> QED BY <1>2, <2>1 DEF Full
<1>4. 1 \in Files /\ Len(<<>>) = 0 /\ 1..0 = {}
  BY AuditAssumption DEF Files
<1>5. OrderInv
  BY <1>2, <1>3, <1>4 DEF OrderInv, Ordered
<1>6. LineInv
  BY <1>2, <1>3, <1>4 DEF LineInv, WholeLines
<1>7. ChainInv
  BY <1>2, <1>3, <1>4 DEF ChainInv, FileChain, RecorderChain, Chained, Linked, Continues, NextSequence, LastChain
<1>8. TailTypes
  <2>1. <<>> \in Seq(Piece) /\ <<>> \in Seq(AllRecords)
    OBVIOUS
  <2> QED BY <1>2, <2>1 DEF TailTypes
<1>9. TailOrder
  BY <1>2, <1>4 DEF TailOrder, Ordered
<1>10. TailLines
  BY <1>2 DEF TailLines
<1> QED BY <1>1, <1>5, <1>6, <1>7, <1>8, <1>9, <1>10 DEF LogInv, TailInv

(* Every step keeps the inductive invariant. *)
LEMMA LogInvKept == LogInv /\ TailInv /\ [TrailNext]_trailVars => (LogInv /\ TailInv)'
<1> SUFFICES ASSUME LogInv, TailInv, [TrailNext]_trailVars PROVE (LogInv /\ TailInv)'
  OBVIOUS
<1>1. TypeInv /\ SummaryInv /\ TypeInv' /\ SummaryInv'
  BY TypesKept, SummaryKept DEF LogInv
<1>2. mishaps \subseteq mishaps'
  BY MishapsGrow
<1>3. ASSUME "damaged" \notin mishaps' PROVE OrderInv /\ OrderInv'
  BY <1>1, <1>2, <1>3, OrderKept DEF LogInv
<1>4. ASSUME Kept' PROVE Kept /\ LineInv /\ LineInv'
  <2>1. Kept /\ "damaged" \notin mishaps'
    BY <1>2, <1>4 DEF Kept
  <2> QED BY <1>1, <1>3, <1>4, <2>1, LinesKept DEF LogInv
<1>5. ASSUME mishaps' \subseteq {"crashed"} PROVE ChainInv'
  <2>1. ChainInv
    BY <1>2, <1>5 DEF LogInv
  <2> QED BY <1>1, <1>5, <2>1, FileChainKept, RecorderChainKept DEF ChainInv
<1>6. LogInv'
  BY <1>1, <1>3, <1>4, <1>5 DEF LogInv
<1>7. TailTypes /\ TailTypes'
  BY <1>1, TailTypesKept DEF TailInv
<1>8. tail' # "off" => tail # "off" /\ "damaged" \notin mishaps'
  <2>1. tail' # "off" => "damaged" \notin mishaps'
    BY <1>7 DEF TailTypes
  <2>2. tail = "off" => tail' = "off"
    BY TailTurn DEF TailFinds, TailOpens, TailFindsNothing, TailReads, TailSleeps, TailStats, TailStops, tailVars, trailVars
  <2> QED BY <2>1, <2>2
<1>9. ASSUME tail' # "off" PROVE TailOrder'
  BY <1>1, <1>3, <1>7, <1>8, <1>9, TailOrderKept DEF TailInv
<1>10. ASSUME tail' # "off", Kept' PROVE TailLines'
  BY <1>1, <1>4, <1>7, <1>8, <1>10, TailLinesKept DEF TailInv
<1> QED BY <1>6, <1>7, <1>9, <1>10 DEF TailInv

(* The inductive invariant of the recorder, its file and the tail holds in    *)
(* every reachable state: records, buffers and files are in the order of the *)
(* sequence numbers and, while every write kept its handle, the file, the    *)
(* buffer and the record under way follow each other in the chain            *)
(* (AlphaRecorder.record and write, tail_session).                           *)
THEOREM LogIsInOrder == Spec => [](LogInv /\ TailInv)
BY LogInvAtStart, LogInvKept, PTL DEF Spec

(* While one handle is kept, the complete lines of the log verify and hold    *)
(* every record whose write has returned, whatever flushes failed or were cut *)
(* short (AlphaRecorder.write, verify_log).                                   *)
THEOREM KeptLogVerifies == Spec => []KeptHandleVerifies
<1>1. LogInv => KeptHandleVerifies
  <2> SUFFICES ASSUME LogInv, path # 0, mishaps \subseteq {"crashed"}, Split(data[path]).rest = <<>>
               PROVE  /\ LogVerifies(data[path], {})
                      /\ \A n \in acked : \E k \in DOMAIN data[path] : data[path][k].rec.sequence = n
    BY DEF KeptHandleVerifies
  <2>1. TypeInv /\ LineInv /\ ChainInv /\ path = 1 /\ 1 \in Files
    BY AuditAssumption DEF LogInv, Kept, ChainInv, FileChain, Files
  <2>2. PICK text : text = data[1]
    OBVIOUS
  <2>3. /\ text \in Seq(Piece) /\ Full(1) \in Seq(Piece) /\ Len(text) <= Len(Full(1))
        /\ \A i \in 1..Len(text) : text[i] = Full(1)[i]
    BY <2>1, <2>2, FullType
  <2>4. WholeLines(text)
    BY <2>1, <2>3, PrefixLines DEF LineInv
  <2>5. Chained(text)
    BY <2>1, <2>3, PrefixChain DEF ChainInv, FileChain
  <2>6. LogVerifies(text, {})
    BY <2>1, <2>2, <2>3, <2>4, <2>5, ChainVerifies
  <2>7. \A n \in acked : \E k \in DOMAIN text : text[k].rec.sequence = n
    <3>1. DOMAIN text = 1..Len(text)
      BY <2>3
    <3> QED BY <2>1, <2>2, <3>1 DEF ChainInv, FileChain
  <2> QED BY <2>1, <2>2, <2>6, <2>7
<1> QED BY <1>1, LogIsInOrder, PTL

(* A tail yields records of the log in their order and none twice, through    *)
(* every rotation and truncation; while nothing is truncated or lost it meets *)
(* whole records only and has yielded all of those it has read past           *)
(* (tail_session).                                                            *)
THEOREM FaithfulTail == Spec => []TailIsFaithful
<1>1. LogInv /\ TailInv => TailIsFaithful
  <2> SUFFICES ASSUME LogInv, TailInv PROVE TailIsFaithful
    OBVIOUS
  <2>1. TailTypes /\ TypeInv
    BY DEF LogInv, TailInv
  <2>2. DOMAIN yielded = 1..Len(yielded)
    BY <2>1 DEF TailTypes
  <2>3. CASE tail = "off"
    <3>1. tfile = 0 /\ yielded = <<>> /\ 1..Len(<<>>) = {}
      BY <2>1, <2>3 DEF TailTypes
    <3> QED BY <2>2, <2>3, <3>1 DEF TailIsFaithful
  <2>4. CASE tail # "off"
    <3>1. "damaged" \notin mishaps /\ TailOrder
      BY <2>1, <2>4 DEF TailTypes, TailInv
    <3>2. mishaps \cap {"truncated", "lost"} = {} => TailLines
      BY <2>4, <3>1 DEF Kept, TailInv
    <3> QED BY <2>2, <3>1, <3>2 DEF TailIsFaithful, TailOrder, TailLines
  <2> QED BY <2>3, <2>4
<1> QED BY <1>1, LogIsInOrder, PTL
=============================================================================
