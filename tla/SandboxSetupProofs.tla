-------------------------- MODULE SandboxSetupProofs --------------------------
(***************************************************************************)
(* What holds of a sandbox setup, whatever the file system with its links, *)
(* the groups, the calls and the stderr of the command.                    *)
(***************************************************************************)
EXTENDS SandboxSetup, FiniteSetTheorems, InductionLemmas

-----------------------------------------------------------------------------
(* Folds, and canonical paths as walks. *)

(* The last of the first k positions. *)
LEMMA MaxOfPrefix ==
  ASSUME NEW k \in Nat \ {0}
  PROVE  Max(1..k) = k /\ (1..k) \ {k} = 1..(k - 1) /\ 1..k # {}
<1>1. k \in 1..k /\ \A y \in 1..k : k >= y
  OBVIOUS
<1>2. \A x \in 1..k : (\A y \in 1..k : x >= y) => x = k
  OBVIOUS
<1>3. Max(1..k) = k
  BY <1>1, <1>2 DEF Max
<1>4. (1..k) \ {k} = 1..(k - 1)
  OBVIOUS
<1> QED BY <1>1, <1>3, <1>4

(* The last position is the largest of a set that holds it. *)
LEMMA MaxWithLast ==
  ASSUME NEW n \in Nat, NEW s \in SUBSET (1..n), n \in s
  PROVE  Max(s) = n
<1>1. n \in s /\ \A y \in s : n >= y
  OBVIOUS
<1>2. \A x \in s : (\A y \in s : x >= y) => x = n
  BY <1>1
<1> QED BY <1>1, <1>2 DEF Max

(* FoldLeft is defined over the sets of positions: a set is folded by folding *)
(* it without its last position, then taking the step of that one.            *)
Unfolds(it, n, b, step) ==
  it = [s \in SUBSET (1..n) |-> IF s = {} THEN b ELSE step[Max(s)][it[s \ {Max(s)}]]]

(* Such a fold exists, and it stays in V where the steps do. *)
LEMMA FoldExists ==
  ASSUME NEW n \in Nat, NEW V, NEW b \in V, NEW step \in [1..n -> [V -> V]]
  PROVE  \E it : /\ Unfolds(it, n, b, step) /\ it \in [SUBSET (1..n) -> V]
                 /\ \A s \in SUBSET (1..n) : s # {} => Max(s) \in 1..n
<1> DEFINE Good(it, m) == /\ Unfolds(it, m, b, step) /\ it \in [SUBSET (1..m) -> V]
                          /\ \A s \in SUBSET (1..m) : s # {} => Max(s) \in 1..m
           S == {m \in 0..n : \E it : Good(it, m)}
<1>1. 0 \in S
  <2> DEFINE it == [s \in SUBSET (1..0) |-> b]
  <2>1. \A s \in SUBSET (1..0) : s = {}
    OBVIOUS
  <2>2. Good(it, 0)
    BY <2>1 DEF Unfolds
  <2> HIDE DEF Good, it
  <2> QED BY <2>2
<1>2. \A k \in 0..(n - 1) : k \in S => k + 1 \in S
  <2> TAKE m \in 0..(n - 1)
  <2> HAVE m \in S
  <2>1. PICK f : Good(f, m)
    OBVIOUS
  <2> DEFINE g == [s \in SUBSET (1..(m + 1)) |-> IF m + 1 \in s THEN step[m + 1][f[s \ {m + 1}]] ELSE f[s]]
  <2>2. ASSUME NEW s \in SUBSET (1..(m + 1))
        PROVE  /\ g[s] = IF s = {} THEN b ELSE step[Max(s)][g[s \ {Max(s)}]]
               /\ g[s] \in V /\ (s # {} => Max(s) \in 1..(m + 1))
    <3>1. CASE m + 1 \in s
      <4>1. Max(s) = m + 1 /\ m + 1 \in Nat /\ m + 1 \in 1..n
        BY <3>1, MaxWithLast
      <4>2. PICK r : r = s \ {m + 1}
        OBVIOUS
      <4>3. r \in SUBSET (1..m) /\ r \in SUBSET (1..(m + 1)) /\ m + 1 \notin r
        BY <4>2
      <4>4. g[r] = f[r] /\ f[r] \in V /\ g[s] = step[m + 1][f[r]]
        BY <2>1, <3>1, <4>2, <4>3
      <4> QED BY <3>1, <4>1, <4>2, <4>4
    <3>2. CASE m + 1 \notin s
      <4>1. s \in SUBSET (1..m) /\ g[s] = f[s]
        BY <3>2
      <4>2. CASE s = {}
        BY <2>1, <4>1, <4>2 DEF Unfolds
      <4>3. CASE s # {}
        <5>1. PICK x, r : x = Max(s) /\ r = s \ {x}
          OBVIOUS
        <5>2. x \in 1..m /\ f[s] = step[x][f[r]] /\ f[s] \in V
          BY <2>1, <4>1, <4>3, <5>1 DEF Unfolds
        <5>3. r \in SUBSET (1..m) /\ r \in SUBSET (1..(m + 1)) /\ m + 1 \notin r
          BY <4>1, <5>1, <3>2
        <5>4. g[r] = f[r]
          BY <5>3
        <5> HIDE DEF g
        <5> QED BY <4>1, <4>3, <5>1, <5>2, <5>4
      <4> QED BY <4>2, <4>3
    <3> QED BY <3>1, <3>2
  <2>3. Good(g, m + 1)
    <3>1. g = [s \in SUBSET (1..(m + 1)) |-> g[s]]
      OBVIOUS
    <3> HIDE DEF g
    <3>2. g = [s \in SUBSET (1..(m + 1)) |-> IF s = {} THEN b ELSE step[Max(s)][g[s \ {Max(s)}]]]
      BY <2>2, <3>1
    <3>3. g \in [SUBSET (1..(m + 1)) -> V]
      BY <2>2, <3>1
    <3> QED BY <2>2, <3>2, <3>3 DEF Unfolds
  <2> HIDE DEF Good, g
  <2> QED BY <2>3
<1>3. n \in S
  <2>1. 0..n \subseteq S
    <3> HIDE DEF S
    <3> QED BY <1>1, <1>2, InductionUpTo
  <2>2. n \in 0..n
    OBVIOUS
  <2> HIDE DEF S
  <2> QED BY <2>1, <2>2
<1> QED BY <1>3

(* canonicalize, name by name. *)
Walk(path, n, at) ==
  /\ at[0] = <<>>
  /\ \A k \in 1..n : at[k] = Follow(Append(at[k - 1], path[k]))
  /\ \A k \in 0..n : at[k] \in Seq(Names)

(* A link leads to a path. *)
LEMMA FollowType == \A p \in Seq(Names) : Follow(p) \in Seq(Names)
BY CapabilitiesAssumption DEF Follow

(* The fold of Canonical, and the walk it amounts to. *)
CanonicalIter(path) == CHOOSE iter : iter =
  [s \in SUBSET (DOMAIN path) |->
     IF s = {} THEN <<>> ELSE LET x == Max(s) IN Follow(Append(iter[s \ {x}], path[x]))]

(* Canonical is that fold over all positions. *)
LEMMA CanonicalUnfolds == \A path : Canonical(path) = CanonicalIter(path)[DOMAIN path]
BY DEF Canonical, CanonicalIter, FoldLeft, MapThenFoldSet

(* canonicalize visits the canonical form of one prefix after the other. *)
LEMMA CanonicalWalk ==
  ASSUME NEW path \in Seq(Names)
  PROVE  \E at : Walk(path, Len(path), at) /\ Canonical(path) = at[Len(path)]
<1> DEFINE n == Len(path)
           step == [k \in 1..n |-> [p \in Seq(Names) |-> Follow(Append(p, path[k]))]]
<1>1. n \in Nat /\ DOMAIN path = 1..n
  OBVIOUS
<1>2. ASSUME NEW k \in 1..n, NEW p \in Seq(Names) PROVE Follow(Append(p, path[k])) \in Seq(Names)
  <2>1. path[k] \in Names
    BY <1>1
  <2>2. Append(p, path[k]) \in Seq(Names)
    BY <2>1
  <2> QED BY <2>2, FollowType
<1>3. step \in [1..n -> [Seq(Names) -> Seq(Names)]] /\ <<>> \in Seq(Names)
  BY <1>2
<1>4. PICK it : /\ Unfolds(it, n, <<>>, step) /\ it \in [SUBSET (1..n) -> Seq(Names)]
                /\ \A s \in SUBSET (1..n) : s # {} => Max(s) \in 1..n
  <2> HIDE DEF n, step
  <2> QED BY <1>1, <1>3, FoldExists
<1>5. it = [s \in SUBSET (DOMAIN path) |->
              IF s = {} THEN <<>> ELSE LET x == Max(s) IN Follow(Append(it[s \ {x}], path[x]))]
  <2>1. ASSUME NEW s \in SUBSET (1..n), s # {} PROVE it[s] = Follow(Append(it[s \ {Max(s)}], path[Max(s)]))
    BY <1>4, <2>1 DEF Unfolds
  <2>2. it[{}] = <<>>
    BY <1>4 DEF Unfolds
  <2> QED BY <1>1, <1>4, <2>1, <2>2
<1>6. CanonicalIter(path) = [s \in SUBSET (DOMAIN path) |->
              IF s = {} THEN <<>>
              ELSE LET x == Max(s) IN Follow(Append(CanonicalIter(path)[s \ {x}], path[x]))]
  BY <1>5 DEF CanonicalIter
<1> DEFINE at == [k \in 0..n |-> CanonicalIter(path)[1..k]]
<1>7. at[0] = <<>>
  BY <1>6
<1>8. \A k \in 1..n : at[k] = Follow(Append(at[k - 1], path[k]))
  <2> TAKE k \in 1..n
  <2>1. 1..k \in SUBSET (DOMAIN path) /\ Max(1..k) = k /\ (1..k) \ {k} = 1..(k - 1) /\ 1..k # {}
    BY <1>1, MaxOfPrefix
  <2>2. CanonicalIter(path)[1..k] = Follow(Append(CanonicalIter(path)[(1..k) \ {k}], path[k]))
    BY <1>6, <2>1
  <2>3. k \in 0..n /\ k - 1 \in 0..n
    BY <1>1
  <2> QED BY <2>1, <2>2, <2>3
<1>9. \A k \in 0..n : at[k] \in Seq(Names)
  <2> DEFINE S == {k \in 0..n : at[k] \in Seq(Names)}
  <2>0. <<>> \in Seq(Names)
    OBVIOUS
  <2>1. 0 \in S
    <3> HIDE DEF at
    <3>1. at[0] \in Seq(Names)
      BY <1>7, <2>0, Zenon
    <3> QED BY <1>1, <3>1
  <2>2. \A k \in 0..(n - 1) : k \in S => k + 1 \in S
    <3> TAKE k \in 0..(n - 1)
    <3>1. k + 1 \in 1..n /\ k + 1 \in 0..n /\ (k + 1) - 1 = k
      BY <1>1
    <3> HIDE DEF at
    <3> QED BY <1>2, <1>8, <3>1
  <2>3. 0..n \subseteq S
    <3> HIDE DEF S
    <3> QED BY <1>1, <2>1, <2>2, InductionUpTo
  <2> QED BY <2>3
<1>10. Canonical(path) = at[n]
  BY <1>1, CanonicalUnfolds
<1> HIDE DEF at
<1> QED BY <1>7, <1>8, <1>9, <1>10 DEF Walk

-----------------------------------------------------------------------------
(* Capability sets and what adds to them. *)

(* Types. *)
FsCaps ==
  {c \in [resolved : Real, access : AccessModes, is_file : BOOLEAN, source : {"user"} \cup DOMAIN Groups] :
     c.is_file <=> c.resolved \in Files}
CapSets ==
  [fs : Seq(FsCaps), network : {"allow_all", "blocked", "proxy_only"},
   localhost : SUBSET Ports, connect : SUBSET Ports, bind : SUBSET Ports]
Accs ==
  [caps : CapSets, names : Seq(DOMAIN Groups), deny_paths : SUBSET Seq(Names),
   error : {None, "ValueError", "OSError"}]

(* The canonical form of a path is a path. *)
LEMMA CanonicalType == \A path \in Seq(Names) : Canonical(path) \in Seq(Names)
<1> TAKE path \in Seq(Names)
<1>1. PICK at : Walk(path, Len(path), at) /\ Canonical(path) = at[Len(path)]
  BY CanonicalWalk
<1>2. Len(path) \in 0..Len(path)
  OBVIOUS
<1> QED BY <1>1, <1>2 DEF Walk

(* new_dir and new_file make capabilities. *)
LEMMA FsCapabilityType ==
  ASSUME NEW path \in Seq(Names), Exists(path), NEW mode \in AccessModes, NEW is_file \in BOOLEAN,
         is_file <=> Canonical(path) \in Files, NEW source \in {"user"} \cup DOMAIN Groups
  PROVE  /\ FsCapability(path, mode, is_file, source) \in FsCaps
         /\ FsCapability(path, mode, is_file, source).source = source
BY DEF FsCapability, FsCaps, Exists

(* A set with one more capability. *)
LEMMA AddFsType ==
  ASSUME NEW set \in CapSets, NEW cap \in FsCaps
  PROVE  /\ AddFs(set, cap) \in CapSets /\ AddFs(set, cap).fs = Append(set.fs, cap)
         /\ AddFs(set, cap).network = set.network
<1>1. PICK fs : fs = Append(set.fs, cap)
  OBVIOUS
<1>2. set.fs \in Seq(FsCaps) /\ fs \in Seq(FsCaps)
  BY <1>1 DEF CapSets
<1>3. AddFs(set, cap) = [set EXCEPT !.fs = fs]
  BY <1>1 DEF AddFs
<1> QED BY <1>1, <1>2, <1>3 DEF CapSets

(* What a call adds to the capabilities of a set: some of Offers. *)
Extends(fs0, fs1, Offers) ==
  /\ Len(fs0) <= Len(fs1)
  /\ \A i \in 1..Len(fs0) : fs1[i] = fs0[i]
  /\ \A i \in (Len(fs0) + 1)..Len(fs1) : fs1[i] \in Offers

(* Two additions are one ... *)
LEMMA ExtendsTransitive ==
  ASSUME NEW a \in Seq(FsCaps), NEW b \in Seq(FsCaps), NEW c \in Seq(FsCaps), NEW S, NEW T,
         Extends(a, b, S), Extends(b, c, T), S \subseteq T
  PROVE  Extends(a, c, T)
<1>1. Len(a) \in Nat /\ Len(b) \in Nat /\ Len(c) \in Nat
  OBVIOUS
<1>2. \A i \in (Len(a) + 1)..Len(c) : i \in (Len(a) + 1)..Len(b) \/ i \in (Len(b) + 1)..Len(c)
  BY <1>1
<1>3. ASSUME NEW i \in (Len(a) + 1)..Len(b) PROVE i \in 1..Len(b) /\ c[i] \in T
  BY <1>1 DEF Extends
<1>4. \A i \in 1..Len(a) : i \in 1..Len(b)
  BY <1>1 DEF Extends
<1> QED BY <1>1, <1>2, <1>3, <1>4 DEF Extends

(* ... and so is none, ... *)
LEMMA ExtendsItself == ASSUME NEW a \in Seq(FsCaps), NEW S PROVE Extends(a, a, S)
BY DEF Extends

(* ... or one capability that is on offer. *)
LEMMA ExtendsByOne ==
  ASSUME NEW a \in Seq(FsCaps), NEW c \in FsCaps, NEW S, c \in S
  PROVE  Extends(a, Append(a, c), S)
BY DEF Extends

(* What the turns of the loops of resolve_groups do to their accumulator. *)
Grants(a, r, Offers) ==
  /\ a \in Accs /\ r \in Accs
  /\ Extends(a.caps.fs, r.caps.fs, Offers)
  /\ a.caps.network # "allow_all" => r.caps.network # "allow_all"

(* expand_path makes a path of an expression. *)
LEMMA ExpandType ==
  ASSUME NEW p \in Expressions, Expandable(p)
  PROVE  expand_path(p) \in Seq(Names)
<1>1. CASE p.var = None
  BY <1>1 DEF expand_path, Expressions
<1>2. CASE p.var # None
  <2>1. Env[p.var] \in Seq(Names)
    BY <1>2, PolicyAssumption DEF Expandable, Expressions
  <2> QED BY <1>2, <2>1 DEF expand_path, Expressions
<1> QED BY <1>1, <1>2

(* A turn that does nothing. *)
LEMMA GrantsItself == ASSUME NEW a \in Accs, NEW S PROVE Grants(a, a, S)
BY ExtendsItself DEF Grants, Accs, CapSets

(* What an entry of a group offers. *)
EntryOffers(name, entry) ==
  {c \in FsCaps : /\ c.source = name /\ c.access = entry.mode
                  /\ c.resolved = Canonical(expand_path(entry.path))}

(* add_fs_capability grants what its entry offers, if that can be expanded and *)
(* there was no error, and recovers from none.                                *)
LEMMA AddFsStep ==
  ASSUME NEW a \in Accs, NEW entry \in [path : Expressions, mode : AccessModes], NEW name \in DOMAIN Groups
  PROVE  LET r == add_fs_capability(a, entry, name)
         IN  /\ Grants(a, r, {c \in EntryOffers(name, entry) : a.error = None /\ Expandable(entry.path)})
             /\ r.deny_paths = a.deny_paths
             /\ r.error = None => a.error = None /\ Expandable(entry.path)
<1> DEFINE r == add_fs_capability(a, entry, name)
           path == expand_path(entry.path)
           offers == {c \in EntryOffers(name, entry) : a.error = None /\ Expandable(entry.path)}
<1>1. CASE a.error # None
  BY <1>1, GrantsItself DEF add_fs_capability
<1>2. CASE a.error = None /\ ~Expandable(entry.path)
  <2>1. r = [a EXCEPT !.error = "ValueError"]
    BY <1>2 DEF add_fs_capability
  <2>2. r \in Accs /\ r.caps = a.caps /\ r.deny_paths = a.deny_paths /\ r.error # None
    BY <2>1, CapabilitiesAssumption DEF Accs
  <2> QED BY <1>2, <2>2, ExtendsItself DEF Grants, Accs, CapSets
<1>3. CASE a.error = None /\ Expandable(entry.path) /\ ~Exists(path)
  BY <1>3, GrantsItself DEF add_fs_capability
<1>4. CASE a.error = None /\ Expandable(entry.path) /\ Exists(path)
  <2>1. PICK cap : cap = FsCapability(path, entry.mode, ~IsDir(path), name)
    OBVIOUS
  <2>2. path \in Seq(Names) /\ entry.mode \in AccessModes
    BY <1>4, ExpandType
  <2>3. cap \in FsCaps /\ cap.source = name /\ cap.access = entry.mode /\ cap.resolved = Canonical(path)
    <3>1. PICK is_file : is_file = ~IsDir(path)
      OBVIOUS
    <3>2. is_file \in BOOLEAN
      BY <3>1 DEF IsDir
    <3>3. is_file <=> Canonical(path) \in Files
      <4> HIDE DEF path
      <4> QED BY <1>4, <3>1 DEF IsDir
    <3>4. cap = FsCapability(path, entry.mode, is_file, name)
      BY <2>1, <3>1
    <3>5. name \in {"user"} \cup DOMAIN Groups
      OBVIOUS
    <3>6. cap.access = entry.mode /\ cap.resolved = Canonical(path)
      BY <2>1 DEF FsCapability
    <3> HIDE DEF path
    <3>7. cap \in FsCaps /\ cap.source = name
      BY <1>4, <2>2, <3>2, <3>3, <3>4, <3>5, FsCapabilityType, ZenonT(40)
    <3> QED BY <3>6, <3>7
  <2>4. r = [a EXCEPT !.caps = AddFs(@, cap)]
    BY <1>4, <2>1 DEF add_fs_capability
  <2>5. a.caps \in CapSets
    BY DEF Accs
  <2>6. AddFs(a.caps, cap) \in CapSets
    BY <2>3, <2>5, AddFsType
  <2>7. r \in Accs /\ r.caps = AddFs(a.caps, cap) /\ r.deny_paths = a.deny_paths /\ r.error = a.error
    BY <2>4, <2>6 DEF Accs
  <2>8. r.caps.fs = Append(a.caps.fs, cap) /\ r.caps.network = a.caps.network
    BY <2>3, <2>5, <2>7, AddFsType
  <2>9. a.caps.fs \in Seq(FsCaps)
    BY <2>5 DEF CapSets
  <2>10. cap \in offers
    BY <1>4, <2>3 DEF EntryOffers
  <2> HIDE DEF offers, path
  <2>11. Extends(a.caps.fs, r.caps.fs, offers)
    BY <2>3, <2>8, <2>9, <2>10, ExtendsByOne
  <2> HIDE DEF r
  <2> QED BY <1>4, <2>7, <2>8, <2>11 DEF Grants, r, offers
<1> HIDE DEF path
<1> QED BY <1>1, <1>2, <1>3, <1>4

-----------------------------------------------------------------------------
(* Denied paths. *)

(* What resolve_groups calls denied: a path that is there, or would be but    *)
(* for a link that leads nowhere, is denied under its real name too.          *)
Settled(paths) ==
  /\ paths \subseteq Seq(Names)
  /\ \A d \in paths : ~Dangling(d) => Canonical(d) \in paths

(* Paths that begin alike are walked alike. *)
LEMMA WalkUnique ==
  ASSUME NEW n \in Nat, NEW p, NEW q, NEW a, NEW b, Walk(p, n, a), Walk(q, n, b),
         NEW m \in 0..n, \A k \in 1..m : p[k] = q[k]
  PROVE  \A k \in 0..m : a[k] = b[k]
<1> DEFINE S == {k \in 0..m : a[k] = b[k]}
<1>1. 0 \in S
  BY DEF Walk
<1>2. \A k \in 0..(m - 1) : k \in S => k + 1 \in S
  <2> TAKE k \in 0..(m - 1)
  <2> HAVE k \in S
  <2>1. k + 1 \in 1..m /\ k + 1 \in 1..n /\ (k + 1) - 1 = k /\ k + 1 \in 0..m
    OBVIOUS
  <2>2. a[k + 1] = Follow(Append(a[k], p[k + 1])) /\ b[k + 1] = Follow(Append(b[k], q[k + 1]))
    BY <2>1 DEF Walk
  <2>3. a[k + 1] = b[k + 1]
    BY <2>1, <2>2
  <2> QED BY <2>1, <2>3
<1>3. 0..m \subseteq S
  <2> HIDE DEF S
  <2> QED BY <1>1, <1>2, InductionUpTo
<1> QED BY <1>3

(* The walk along a path passes the canonical form of each of its prefixes. *)
LEMMA WalkOfPrefixes ==
  ASSUME NEW path \in Seq(Names), NEW at, Walk(path, Len(path), at)
  PROVE  \A k \in 0..Len(path) : Canonical(SubSeq(path, 1, k)) = at[k]
<1> TAKE k \in 0..Len(path)
<1>1. PICK p : p = SubSeq(path, 1, k)
  OBVIOUS
<1>2. p \in Seq(Names) /\ Len(p) = k /\ k \in Nat /\ \A i \in 1..k : p[i] = path[i]
  BY <1>1
<1>3. PICK b : Walk(p, k, b) /\ Canonical(p) = b[k]
  BY <1>2, CanonicalWalk
<1>4. Walk(path, k, at)
  <2>1. (\A i \in 1..k : i \in 1..Len(path)) /\ \A i \in 0..k : i \in 0..Len(path)
    BY <1>2
  <2> QED BY <2>1 DEF Walk
<1>5. \A i \in 0..k : b[i] = at[i]
  BY <1>2, <1>3, <1>4, WalkUnique
<1>6. k \in 0..k
  BY <1>2
<1> QED BY <1>1, <1>3, <1>5, <1>6

(* A canonical path that exists is its own canonical form. *)
LEMMA RealIsCanonical ==
  ASSUME NEW path \in Real
  PROVE  Canonical(path) = path
<1>0. path \in Seq(Names) /\ Len(path) \in Nat
  BY CapabilitiesAssumption
<1>1. PICK at : Walk(path, Len(path), at) /\ Canonical(path) = at[Len(path)]
  BY <1>0, CanonicalWalk
<1> DEFINE S == {k \in 0..Len(path) : at[k] = SubSeq(path, 1, k)}
<1>2. 0 \in S
  BY <1>0, <1>1 DEF Walk
<1>3. \A k \in 0..(Len(path) - 1) : k \in S => k + 1 \in S
  <2> TAKE k \in 0..(Len(path) - 1)
  <2> HAVE k \in S
  <2>1. k + 1 \in 1..Len(path) /\ k + 1 \in 0..Len(path) /\ (k + 1) - 1 = k
    BY <1>0
  <2>2. at[k + 1] = Follow(Append(SubSeq(path, 1, k), path[k + 1]))
    BY <1>1, <2>1 DEF Walk
  <2>3. Append(SubSeq(path, 1, k), path[k + 1]) = SubSeq(path, 1, k + 1)
    BY <1>0, <2>1
  <2>4. SubSeq(path, 1, k + 1) \in Real
    BY <2>1, CapabilitiesAssumption
  <2>5. Follow(SubSeq(path, 1, k + 1)) = SubSeq(path, 1, k + 1)
    BY <2>4, CapabilitiesAssumption DEF Follow
  <2> QED BY <2>1, <2>2, <2>3, <2>5
<1>4. 0..Len(path) \subseteq S
  <2> HIDE DEF S
  <2> QED BY <1>0, <1>2, <1>3, InductionUpTo
<1>5. Len(path) \in S /\ SubSeq(path, 1, Len(path)) = path
  <2>1. Len(path) \in 0..Len(path)
    BY <1>0
  <2>2. SubSeq(path, 1, Len(path)) = path
    BY <1>0
  <2> HIDE DEF S
  <2> QED BY <1>4, <2>1, <2>2
<1> QED BY <1>1, <1>5

(* Below the nearest ancestor that is there no link is met but one that leads *)
(* nowhere.                                                                   *)
LEMMA NearestAncestorIs ==
  ASSUME NEW path \in Seq(Names)
  PROVE  LET n == NearestAncestor(path)
         IN  /\ n \in 0..Len(path) /\ (n = 0 \/ Exists(SubSeq(path, 1, n)))
             /\ \A k \in (n + 1)..Len(path) : ~Exists(SubSeq(path, 1, k))
<1> DEFINE N == {n \in 0..Len(path) : n = 0 \/ Exists(SubSeq(path, 1, n))}
           S == {k \in 0..Len(path) : \E n \in N : n <= k /\ \A m \in (n + 1)..k : m \notin N}
<1>0. Len(path) \in Nat
  OBVIOUS
<1>1. 0 \in S
  <2>1. 0 \in N /\ 0 \in 0..Len(path)
    BY <1>0
  <2> HIDE DEF N
  <2> QED BY <2>1
<1>2. \A k \in 0..(Len(path) - 1) : k \in S => k + 1 \in S
  <2> TAKE k \in 0..(Len(path) - 1)
  <2> HAVE k \in S
  <2>0. k + 1 \in 0..Len(path) /\ k \in Nat
    BY <1>0
  <2>1. CASE k + 1 \in N
    <3> HIDE DEF N
    <3> QED BY <2>0, <2>1
  <2>2. CASE k + 1 \notin N
    <3>1. PICK n \in N : n <= k /\ \A m \in (n + 1)..k : m \notin N
      OBVIOUS
    <3>2. n \in Nat
      BY <1>0
    <3> HIDE DEF N
    <3> QED BY <2>0, <2>2, <3>1, <3>2
  <2> QED BY <2>1, <2>2
<1>3. 0..Len(path) \subseteq S
  <2> HIDE DEF S
  <2> QED BY <1>0, <1>1, <1>2, InductionUpTo
<1>4. Len(path) \in S
  <2> HIDE DEF S
  <2> QED BY <1>0, <1>3
<1>5. PICK n \in N : n <= Len(path) /\ \A m \in (n + 1)..Len(path) : m \notin N
  BY <1>4
<1>6. \A m \in N : n >= m
  <2> TAKE m \in N
  <2>1. m \in 0..Len(path) /\ n \in 0..Len(path)
    OBVIOUS
  <2> HIDE DEF N
  <2> QED BY <1>0, <1>5, <2>1
<1>7. Max(N) \in N /\ \A m \in N : Max(N) >= m
  <2> HIDE DEF N
  <2> QED BY <1>6 DEF Max
<1>8. NearestAncestor(path) = Max(N)
  BY DEF NearestAncestor
<1>9. \A k \in (Max(N) + 1)..Len(path) : k \notin N
  <2>1. Max(N) \in 0..Len(path)
    BY <1>7
  <2> TAKE k \in (Max(N) + 1)..Len(path)
  <2>2. ~(Max(N) >= k)
    BY <1>0, <2>1
  <2> HIDE DEF N
  <2> QED BY <1>7, <2>2
<1>10. \A k \in (Max(N) + 1)..Len(path) : ~Exists(SubSeq(path, 1, k))
  <2>1. Max(N) \in 0..Len(path)
    BY <1>7
  <2> TAKE k \in (Max(N) + 1)..Len(path)
  <2>2. k \in 0..Len(path)
    BY <1>0, <2>1
  <2> QED BY <1>9, <2>2
<1> QED BY <1>7, <1>8, <1>10

(* Beyond the last prefix that exists, a path that is not dangling meets no link. *)
LEMMA WalkBeyond ==
  ASSUME NEW path \in Seq(Names), NEW at, Walk(path, Len(path), at), NEW n \in 0..Len(path),
         \A k \in (n + 1)..Len(path) : at[k] \notin Real, ~Dangling(path)
  PROVE  at[Len(path)] = at[n] \o SubSeq(path, n + 1, Len(path))
<1> DEFINE S == {k \in 0..(Len(path) - n) : at[n + k] = at[n] \o SubSeq(path, n + 1, n + k)}
<1>0. Len(path) \in Nat /\ n \in Nat /\ n <= Len(path) /\ Len(path) - n \in Nat /\ at[n] \in Seq(Names)
  BY DEF Walk
<1>1. 0 \in S
  <2>1. SubSeq(path, n + 1, n + 0) = <<>> /\ n + 0 = n /\ 0 \in 0..(Len(path) - n)
    BY <1>0
  <2>2. \A s \in Seq(Names) : s \o <<>> = s
    OBVIOUS
  <2>3. at[n] \o SubSeq(path, n + 1, n + 0) = at[n]
    BY <1>0, <2>1, <2>2
  <2> QED BY <2>1, <2>3
<1>2. \A k \in 0..((Len(path) - n) - 1) : k \in S => k + 1 \in S
  <2> TAKE k \in 0..((Len(path) - n) - 1)
  <2> HAVE k \in S
  <2>1. /\ n + (k + 1) \in 1..Len(path) /\ n + (k + 1) \in (n + 1)..Len(path)
        /\ (n + (k + 1)) - 1 = n + k /\ k + 1 \in 0..(Len(path) - n) /\ n + k \in 0..Len(path)
    BY <1>0
  <2>2. PICK m : m = n + (k + 1)
    OBVIOUS
  <2>3. at[m] = Follow(Append(at[n + k], path[m]))
    BY <2>1, <2>2 DEF Walk
  <2>4. Append(at[n + k], path[m]) \notin DOMAIN Links
    <3> SUFFICES ASSUME Append(at[n + k], path[m]) \in DOMAIN Links PROVE FALSE
      OBVIOUS
    <3>1. at[m] \in {Links[l] : l \in DOMAIN Links}
      BY <2>3 DEF Follow
    <3>2. Canonical(SubSeq(path, 1, m)) = at[m] /\ at[m] \notin Real
      BY <2>1, <2>2, WalkOfPrefixes
    <3> QED BY <2>1, <2>2, <3>1, <3>2 DEF Dangling
  <2>5. at[m] = Append(at[n + k], path[m])
    BY <2>3, <2>4 DEF Follow
  <2>6. at[n + k] = at[n] \o SubSeq(path, n + 1, n + k)
    OBVIOUS
  <2>7. SubSeq(path, n + 1, m) = Append(SubSeq(path, n + 1, n + k), path[m])
    BY <1>0, <2>1, <2>2
  <2>8. SubSeq(path, n + 1, n + k) \in Seq(Names)
    BY <1>0
  <2>9. ASSUME NEW s \in Seq(Names), NEW t \in Seq(Names), NEW x \in Names
        PROVE  Append(s \o t, x) = s \o Append(t, x)
    OBVIOUS
  <2>10. at[m] = at[n] \o SubSeq(path, n + 1, m)
    <3>1. path[m] \in Names
      BY <2>1, <2>2
    <3>2. Append(at[n] \o SubSeq(path, n + 1, n + k), path[m])
            = at[n] \o Append(SubSeq(path, n + 1, n + k), path[m])
      BY <1>0, <2>8, <2>9, <3>1
    <3> QED BY <2>5, <2>6, <2>7, <3>2, Zenon
  <2> QED BY <2>1, <2>2, <2>10
<1>3. Len(path) - n \in S
  <2>1. 0..(Len(path) - n) \subseteq S
    <3> HIDE DEF S
    <3> QED BY <1>0, <1>1, <1>2, InductionUpTo
  <2> HIDE DEF S
  <2> QED BY <1>0, <2>1
<1>4. n + (Len(path) - n) = Len(path)
  BY <1>0
<1> QED BY <1>3, <1>4

(* The pair of paths add_deny_access_rules adds is settled: the second is the *)
(* canonical form of the first, and its own.                                  *)
LEMMA DeniedIsSettled ==
  ASSUME NEW path \in Seq(Names)
  PROVE  Settled(DenyPathsOf(path))
<1>1. CASE Exists(path)
  <2>1. PICK c : c = Canonical(path)
    OBVIOUS
  <2>2. c \in Real /\ c \in Seq(Names) /\ Canonical(c) = c
    BY <1>1, <2>1, RealIsCanonical, CapabilitiesAssumption DEF Exists
  <2>3. DenyPathsOf(path) = {path, c}
    BY <1>1, <2>1 DEF DenyPathsOf
  <2> QED BY <2>1, <2>2, <2>3 DEF Settled
<1>2. CASE ~Exists(path)
  <2>1. PICK n, c : n = NearestAncestor(path) /\ c = Canonical(SubSeq(path, 1, n))
    OBVIOUS
  <2>2. PICK rest, r : rest = SubSeq(path, n + 1, Len(path)) /\ r = c \o rest
    OBVIOUS
  <2>3. DenyPathsOf(path) = {path, r}
    BY <1>2, <2>1, <2>2 DEF DenyPathsOf, resolve_parent_symlinks
  <2>4. /\ n \in 0..Len(path) /\ n \in Nat /\ Len(path) \in Nat /\ n <= Len(path)
        /\ n = 0 \/ Exists(SubSeq(path, 1, n))
        /\ \A k \in (n + 1)..Len(path) : ~Exists(SubSeq(path, 1, k))
    BY <2>1, NearestAncestorIs
  <2>5. PICK at : Walk(path, Len(path), at) /\ Canonical(path) = at[Len(path)]
    BY CanonicalWalk
  <2>6. /\ at[n] = c /\ c \in Seq(Names)
        /\ \A k \in (n + 1)..Len(path) : at[k] \notin Real
    <3>1. \A k \in 0..Len(path) : Canonical(SubSeq(path, 1, k)) = at[k]
      BY <2>5, WalkOfPrefixes
    <3>2. \A k \in (n + 1)..Len(path) : k \in 0..Len(path)
      BY <2>4
    <3> QED BY <2>1, <2>4, <2>5, <3>1, <3>2 DEF Exists, Walk
  <2>7. ~Dangling(path) => Canonical(path) = r
    BY <2>2, <2>4, <2>5, <2>6, WalkBeyond
  <2>8. Canonical(c) = c
    <3>1. CASE n = 0
      <4>1. c = <<>>
        BY <2>5, <2>6, <3>1 DEF Walk
      <4>2. PICK b : Walk(c, Len(c), b) /\ Canonical(c) = b[Len(c)]
        BY <2>6, CanonicalWalk
      <4> QED BY <4>1, <4>2 DEF Walk
    <3>2. CASE Exists(SubSeq(path, 1, n))
      BY <2>1, <3>2, RealIsCanonical DEF Exists
    <3> QED BY <2>4, <3>1, <3>2
  <2>9. PICK m, size : m = Len(c) /\ size = Len(path) - n
    OBVIOUS
  <2>10. /\ m \in Nat /\ size \in Nat /\ n + size = Len(path)
         /\ rest \in Seq(Names) /\ Len(rest) = size /\ \A k \in 1..size : rest[k] = path[n + k]
    BY <2>2, <2>4, <2>6, <2>9
  <2>11. /\ r \in Seq(Names) /\ Len(r) = m + size /\ SubSeq(r, 1, m) = c
         /\ SubSeq(r, m + 1, Len(r)) = rest
         /\ \A k \in 1..size : r[m + k] = rest[k]
    <3>1. r \in Seq(Names) /\ Len(r) = m + size
      BY <2>2, <2>6, <2>9, <2>10
    <3>2. (\A k \in 1..m : r[k] = c[k]) /\ \A k \in 1..size : r[m + k] = rest[k]
      BY <2>2, <2>6, <2>9, <2>10
    <3>3. SubSeq(r, 1, m) = c
      BY <2>6, <2>9, <2>10, <3>1, <3>2
    <3>4. SubSeq(r, m + 1, Len(r)) = rest
      <4>1. SubSeq(r, m + 1, m + size) \in Seq(Names) /\ Len(SubSeq(r, m + 1, m + size)) = size
        BY <2>10, <3>1
      <4>2. \A k \in 1..size : SubSeq(r, m + 1, m + size)[k] = r[m + k]
        BY <2>10, <3>1
      <4> QED BY <2>10, <3>1, <3>2, <4>1, <4>2
    <3> QED BY <3>1, <3>2, <3>3, <3>4
  <2>12. PICK b : Walk(r, Len(r), b) /\ Canonical(r) = b[Len(r)]
    BY <2>11, CanonicalWalk
  <2>13. b[m] = c
    <3>1. m \in 0..Len(r)
      BY <2>10, <2>11
    <3> QED BY <2>8, <2>11, <2>12, <3>1, WalkOfPrefixes
  <2> DEFINE S == {k \in 0..size : b[m + k] = at[n + k]}
  <2>14. 0 \in S
    BY <2>4, <2>6, <2>10, <2>13
  <2>15. \A k \in 0..(size - 1) : k \in S => k + 1 \in S
    <3> TAKE k \in 0..(size - 1)
    <3> HAVE k \in S
    <3>1. /\ n + (k + 1) \in 1..Len(path) /\ (n + (k + 1)) - 1 = n + k
          /\ m + (k + 1) \in 1..Len(r) /\ (m + (k + 1)) - 1 = m + k
          /\ k + 1 \in 1..size /\ k + 1 \in 0..size
      BY <2>4, <2>10, <2>11
    <3>2. at[n + (k + 1)] = Follow(Append(at[n + k], path[n + (k + 1)]))
      BY <2>5, <3>1 DEF Walk
    <3>3. b[m + (k + 1)] = Follow(Append(b[m + k], r[m + (k + 1)]))
      BY <2>12, <3>1 DEF Walk
    <3>4. r[m + (k + 1)] = path[n + (k + 1)]
      BY <2>10, <2>11, <3>1
    <3> QED BY <3>1, <3>2, <3>3, <3>4
  <2>16. \A k \in 0..size : b[m + k] = at[n + k]
    <3>1. 0..size \subseteq S
      <4> HIDE DEF S
      <4> QED BY <2>10, <2>14, <2>15, InductionUpTo
    <3> QED BY <3>1
  <2>17. \A j \in (m + 1)..Len(r) : b[j] \notin Real
    <3> TAKE j \in (m + 1)..Len(r)
    <3>1. PICK k : k = j - m
      OBVIOUS
    <3>2. k \in 0..size /\ m + k = j /\ n + k \in (n + 1)..Len(path)
      <4>1. j \in Nat /\ m + 1 <= j /\ j <= m + size
        BY <2>10, <2>11
      <4>2. k \in Nat /\ 1 <= k /\ k <= size /\ m + k = j
        BY <2>10, <3>1, <4>1
      <4> QED BY <2>4, <2>10, <4>2
    <3> QED BY <2>6, <2>16, <3>2
  <2>18. ~Dangling(r) => Canonical(r) = r
    <3>1. m \in 0..Len(r)
      BY <2>10, <2>11
    <3>2. ASSUME ~Dangling(r) PROVE b[Len(r)] = b[m] \o SubSeq(r, m + 1, Len(r))
      BY <2>11, <2>12, <2>17, <3>1, <3>2, WalkBeyond
    <3> QED BY <2>2, <2>11, <2>12, <2>13, <3>2
  <2> QED BY <2>3, <2>7, <2>11, <2>18 DEF Settled
<1> QED BY <1>1, <1>2

(* Settled sets add up. *)
LEMMA SettledUnion == ASSUME NEW P, NEW Q, Settled(P), Settled(Q) PROVE Settled(P \cup Q)
BY DEF Settled

(* add_deny_access_rules leaves the set alone and the deny paths settled. *)
LEMMA AddDenyStep ==
  ASSUME NEW a \in Accs, NEW p \in Expressions, NEW S
  PROVE  LET r == add_deny_access_rules(a, p)
         IN  /\ Grants(a, r, S)
             /\ r.error = None => a.error = None /\ Expandable(p) /\ ~BelowFile(expand_path(p))
             /\ Settled(a.deny_paths) => Settled(r.deny_paths)
<1> DEFINE r == add_deny_access_rules(a, p)
           path == expand_path(p)
<1>1. CASE a.error # None
  BY <1>1, GrantsItself DEF add_deny_access_rules
<1>2. CASE a.error = None /\ (~Expandable(p) \/ BelowFile(path))
  <2>1. PICK e \in {"ValueError", "OSError"} : r = [a EXCEPT !.error = e]
    BY <1>2 DEF add_deny_access_rules
  <2>2. r \in Accs /\ r.caps = a.caps /\ r.deny_paths = a.deny_paths /\ r.error # None
    BY <2>1, CapabilitiesAssumption DEF Accs
  <2> QED BY <1>2, <2>2, ExtendsItself DEF Grants, Accs, CapSets
<1>3. CASE a.error = None /\ Expandable(p) /\ ~BelowFile(path)
  <2>1. PICK new : new = DenyPathsOf(path)
    OBVIOUS
  <2>2. Settled(new)
    <3>1. path \in Seq(Names)
      BY <1>3, ExpandType
    <3> HIDE DEF path
    <3> QED BY <2>1, <3>1, DeniedIsSettled
  <2>3. r = [a EXCEPT !.deny_paths = @ \cup new]
    BY <1>3, <2>1 DEF add_deny_access_rules
  <2>4. new \subseteq Seq(Names)
    BY <2>2 DEF Settled
  <2>5. r \in Accs /\ r.caps = a.caps /\ r.deny_paths = a.deny_paths \cup new /\ r.error = a.error
    BY <2>3, <2>4 DEF Accs
  <2>6. Settled(a.deny_paths) => Settled(r.deny_paths)
    BY <2>2, <2>5, SettledUnion
  <2> QED BY <1>3, <2>5, <2>6, ExtendsItself DEF Grants, Accs, CapSets
<1> QED BY <1>1, <1>2, <1>3

-----------------------------------------------------------------------------
(* The loops of resolve_groups. *)

(* The fold over the paths a group allows. *)
AllowEntries == [path : Expressions, mode : AccessModes]
AllowFold(a, entries, name) ==
  FoldLeft(LAMBDA x, entry : add_fs_capability(x, entry, name), a, entries)
AllowIter(a, entries, name) == CHOOSE iter : iter =
  [s \in SUBSET (DOMAIN entries) |->
     IF s = {} THEN a ELSE LET m == Max(s) IN add_fs_capability(iter[s \ {m}], entries[m], name)]

(* It unfolds ... *)
LEMMA AllowUnfolds ==
  \A a, entries, name : AllowFold(a, entries, name) = AllowIter(a, entries, name)[DOMAIN entries]
BY DEF AllowFold, AllowIter, FoldLeft, MapThenFoldSet

(* ... and goes on entry by entry. *)
LEMMA AllowSteps ==
  ASSUME NEW a \in Accs, NEW entries \in Seq(AllowEntries), NEW name \in DOMAIN Groups
  PROVE  \E at : /\ at[0] = a /\ AllowFold(a, entries, name) = at[Len(entries)]
                 /\ \A k \in 1..Len(entries) : at[k] = add_fs_capability(at[k - 1], entries[k], name)
<1> DEFINE n == Len(entries)
           step == [k \in 1..n |-> [x \in Accs |-> add_fs_capability(x, entries[k], name)]]
           it == AllowIter(a, entries, name)
<1>1. n \in Nat /\ DOMAIN entries = 1..n
  OBVIOUS
<1>2. ASSUME NEW k \in 1..n, NEW x \in Accs PROVE add_fs_capability(x, entries[k], name) \in Accs
  <2>1. entries[k] \in AllowEntries
    BY <1>1
  <2> QED BY <2>1, AddFsStep DEF AllowEntries, Grants
<1>3. step \in [1..n -> [Accs -> Accs]]
  BY <1>2
<1>4. PICK f : /\ Unfolds(f, n, a, step) /\ f \in [SUBSET (1..n) -> Accs]
               /\ \A s \in SUBSET (1..n) : s # {} => Max(s) \in 1..n
  <2> HIDE DEF n, step
  <2> QED BY <1>1, <1>3, FoldExists
<1>5. f = [s \in SUBSET (DOMAIN entries) |->
             IF s = {} THEN a ELSE LET m == Max(s) IN add_fs_capability(f[s \ {m}], entries[m], name)]
  <2>1. ASSUME NEW s \in SUBSET (1..n), s # {}
        PROVE  f[s] = add_fs_capability(f[s \ {Max(s)}], entries[Max(s)], name)
    BY <1>4, <2>1 DEF Unfolds
  <2>2. f[{}] = a
    BY <1>4 DEF Unfolds
  <2> QED BY <1>1, <1>4, <2>1, <2>2
<1>6. it = [s \in SUBSET (DOMAIN entries) |->
              IF s = {} THEN a ELSE LET m == Max(s) IN add_fs_capability(it[s \ {m}], entries[m], name)]
  BY <1>5 DEF AllowIter
<1> HIDE DEF it
<1> DEFINE at == [k \in 0..n |-> it[1..k]]
<1>7. at[0] = a
  BY <1>6
<1>8. \A k \in 1..n : at[k] = add_fs_capability(at[k - 1], entries[k], name)
  <2> TAKE k \in 1..n
  <2>1. 1..k \in SUBSET (DOMAIN entries) /\ Max(1..k) = k /\ (1..k) \ {k} = 1..(k - 1) /\ 1..k # {}
    BY <1>1, MaxOfPrefix
  <2>2. it[1..k] = add_fs_capability(it[(1..k) \ {k}], entries[k], name)
    BY <1>6, <2>1
  <2>3. k \in 0..n /\ k - 1 \in 0..n
    BY <1>1
  <2> QED BY <2>1, <2>2, <2>3
<1>9. AllowFold(a, entries, name) = at[n]
  BY <1>1, AllowUnfolds DEF it
<1> HIDE DEF at
<1> QED BY <1>7, <1>8, <1>9

(* The fold over the paths a group denies. *)
DenyFold(a, paths) == FoldLeft(LAMBDA x, p : add_deny_access_rules(x, p), a, paths)
DenyIter(a, paths) == CHOOSE iter : iter =
  [s \in SUBSET (DOMAIN paths) |->
     IF s = {} THEN a ELSE LET m == Max(s) IN add_deny_access_rules(iter[s \ {m}], paths[m])]

(* It unfolds ... *)
LEMMA DenyUnfolds ==
  \A a, paths : DenyFold(a, paths) = DenyIter(a, paths)[DOMAIN paths]
BY DEF DenyFold, DenyIter, FoldLeft, MapThenFoldSet

(* ... and goes on path by path. *)
LEMMA DenySteps ==
  ASSUME NEW a \in Accs, NEW paths \in Seq(Expressions)
  PROVE  \E at : /\ at[0] = a /\ DenyFold(a, paths) = at[Len(paths)]
                 /\ \A k \in 1..Len(paths) : at[k] = add_deny_access_rules(at[k - 1], paths[k])
<1> DEFINE n == Len(paths)
           step == [k \in 1..n |-> [x \in Accs |-> add_deny_access_rules(x, paths[k])]]
           it == DenyIter(a, paths)
<1>1. n \in Nat /\ DOMAIN paths = 1..n
  OBVIOUS
<1>2. ASSUME NEW k \in 1..n, NEW x \in Accs PROVE add_deny_access_rules(x, paths[k]) \in Accs
  <2>1. paths[k] \in Expressions
    BY <1>1
  <2> QED BY <2>1, AddDenyStep DEF Grants
<1>3. step \in [1..n -> [Accs -> Accs]]
  BY <1>2
<1>4. PICK f : /\ Unfolds(f, n, a, step) /\ f \in [SUBSET (1..n) -> Accs]
               /\ \A s \in SUBSET (1..n) : s # {} => Max(s) \in 1..n
  <2> HIDE DEF n, step
  <2> QED BY <1>1, <1>3, FoldExists
<1>5. f = [s \in SUBSET (DOMAIN paths) |->
             IF s = {} THEN a ELSE LET m == Max(s) IN add_deny_access_rules(f[s \ {m}], paths[m])]
  <2>1. ASSUME NEW s \in SUBSET (1..n), s # {}
        PROVE  f[s] = add_deny_access_rules(f[s \ {Max(s)}], paths[Max(s)])
    BY <1>4, <2>1 DEF Unfolds
  <2>2. f[{}] = a
    BY <1>4 DEF Unfolds
  <2> QED BY <1>1, <1>4, <2>1, <2>2
<1>6. it = [s \in SUBSET (DOMAIN paths) |->
              IF s = {} THEN a ELSE LET m == Max(s) IN add_deny_access_rules(it[s \ {m}], paths[m])]
  BY <1>5 DEF DenyIter
<1> HIDE DEF it
<1> DEFINE at == [k \in 0..n |-> it[1..k]]
<1>7. at[0] = a
  BY <1>6
<1>8. \A k \in 1..n : at[k] = add_deny_access_rules(at[k - 1], paths[k])
  <2> TAKE k \in 1..n
  <2>1. 1..k \in SUBSET (DOMAIN paths) /\ Max(1..k) = k /\ (1..k) \ {k} = 1..(k - 1) /\ 1..k # {}
    BY <1>1, MaxOfPrefix
  <2>2. it[1..k] = add_deny_access_rules(it[(1..k) \ {k}], paths[k])
    BY <1>6, <2>1
  <2>3. k \in 0..n /\ k - 1 \in 0..n
    BY <1>1
  <2> QED BY <2>1, <2>2, <2>3
<1>9. DenyFold(a, paths) = at[n]
  BY <1>1, DenyUnfolds DEF it
<1> HIDE DEF at
<1> QED BY <1>7, <1>8, <1>9

(* What two turns grant, one after the other. *)
LEMMA GrantsTransitive ==
  ASSUME NEW a, NEW b, NEW c, NEW S, NEW T, Grants(a, b, S), Grants(b, c, T), S \subseteq T
  PROVE  Grants(a, c, T)
<1>1. a.caps.fs \in Seq(FsCaps) /\ b.caps.fs \in Seq(FsCaps) /\ c.caps.fs \in Seq(FsCaps)
  BY DEF Grants, Accs, CapSets
<1>2. Extends(a.caps.fs, c.caps.fs, T)
  BY <1>1, ExtendsTransitive DEF Grants
<1> QED BY <1>2 DEF Grants

(* What the first k entries of a group offer: nothing from the first that      *)
(* cannot be expanded on.                                                     *)
Offers(entries, k, name) ==
  {c \in FsCaps : \E e \in 1..k : /\ \A b \in 1..e : Expandable(entries[b].path)
                                  /\ c \in EntryOffers(name, entries[e])}

(* The allowed paths of a group grant what its entries offer. *)
LEMMA AllowFoldGrants ==
  ASSUME NEW a \in Accs, NEW entries \in Seq(AllowEntries), NEW name \in DOMAIN Groups
  PROVE  LET r == AllowFold(a, entries, name)
         IN  /\ Grants(a, r, Offers(entries, Len(entries), name)) /\ r.deny_paths = a.deny_paths
             /\ r.error = None => \A e \in 1..Len(entries) : Expandable(entries[e].path)
<1> DEFINE n == Len(entries)
           Good(r, k) == /\ Grants(a, r, Offers(entries, k, name))
                         /\ r.deny_paths = a.deny_paths
                         /\ r.error = None => \A e \in 1..k : Expandable(entries[e].path)
<1>1. PICK at : /\ at[0] = a /\ AllowFold(a, entries, name) = at[n]
                /\ \A k \in 1..n : at[k] = add_fs_capability(at[k - 1], entries[k], name)
  BY AllowSteps
<1>2. n \in Nat /\ \A k \in 1..n : entries[k] \in AllowEntries
  OBVIOUS
<1> HIDE DEF n
<1> DEFINE S == {k \in 0..n : Good(at[k], k)}
<1>3. 0 \in S
  BY <1>1, <1>2, GrantsItself
<1>4. \A k \in 0..(n - 1) : k \in S => k + 1 \in S
  <2> TAKE k \in 0..(n - 1)
  <2> HAVE k \in S
  <2>1. k + 1 \in 1..n /\ k + 1 \in 0..n /\ (k + 1) - 1 = k
    BY <1>2
  <2>2. PICK x, r : x = at[k] /\ r = at[k + 1]
    OBVIOUS
  <2>3. r = add_fs_capability(x, entries[k + 1], name) /\ entries[k + 1] \in AllowEntries
    BY <1>1, <1>2, <2>1, <2>2
  <2>4. Good(x, k) /\ x \in Accs
    BY <2>2 DEF Grants
  <2>5. PICK T : T = {c \in EntryOffers(name, entries[k + 1]) :
                        x.error = None /\ Expandable(entries[k + 1].path)}
    OBVIOUS
  <2>6. /\ Grants(x, r, T) /\ r.deny_paths = x.deny_paths
        /\ r.error = None => x.error = None /\ Expandable(entries[k + 1].path)
    BY <2>3, <2>4, <2>5, AddFsStep DEF AllowEntries
  <2>7. \A e \in 1..(k + 1) : e \in 1..k \/ e = k + 1
    BY <1>2
  <2>8. Offers(entries, k, name) \subseteq Offers(entries, k + 1, name)
    <3> SUFFICES ASSUME NEW c \in Offers(entries, k, name)
                 PROVE  c \in Offers(entries, k + 1, name)
      OBVIOUS
    <3>1. PICK e \in 1..k : /\ \A b \in 1..e : Expandable(entries[b].path)
                            /\ c \in EntryOffers(name, entries[e])
      BY DEF Offers
    <3>2. e \in 1..(k + 1) /\ c \in FsCaps
      BY <1>2 DEF Offers
    <3> QED BY <3>1, <3>2 DEF Offers
  <2>9. T \subseteq Offers(entries, k + 1, name)
    <3> SUFFICES ASSUME NEW c \in T PROVE c \in Offers(entries, k + 1, name)
      OBVIOUS
    <3>1. \A e \in 1..(k + 1) : Expandable(entries[e].path)
      BY <2>4, <2>5, <2>7
    <3>2. c \in EntryOffers(name, entries[k + 1]) /\ c \in FsCaps
      BY <2>5 DEF EntryOffers
    <3>3. k + 1 \in 1..(k + 1)
      BY <1>2
    <3> QED BY <3>1, <3>2, <3>3 DEF Offers
  <2>10. Grants(a, x, Offers(entries, k + 1, name))
    BY <2>4, <2>8 DEF Grants, Extends
  <2>11. Grants(a, r, Offers(entries, k + 1, name))
    <3>1. PICK U : U = Offers(entries, k + 1, name)
      OBVIOUS
    <3>2. Grants(a, x, U) /\ T \subseteq U
      BY <2>9, <2>10, <3>1
    <3>3. Grants(x, r, U)
      BY <2>6, <3>2 DEF Grants, Extends
    <3>4. Grants(a, r, U)
      <4> HIDE <3>1
      <4> QED BY <3>2, <3>3, GrantsTransitive
    <3> QED BY <3>1, <3>4
  <2>12. Good(r, k + 1)
    BY <2>4, <2>6, <2>7, <2>11
  <2> HIDE DEF Good
  <2> QED BY <2>1, <2>2, <2>12
<1>5. 0..n \subseteq S
  <2> HIDE DEF S
  <2> QED BY <1>2, <1>3, <1>4, InductionUpTo
<1>6. n \in 0..n
  BY <1>2
<1> QED BY <1>1, <1>5, <1>6 DEF n

(* A denied path that can be. *)
Deniable(p) == Expandable(p) /\ ~BelowFile(expand_path(p))

(* The denied paths of a group grant nothing. *)
LEMMA DenyFoldGrants ==
  ASSUME NEW a \in Accs, NEW paths \in Seq(Expressions), NEW T
  PROVE  LET r == DenyFold(a, paths)
         IN  /\ Grants(a, r, T)
             /\ r.error = None => a.error = None /\ \A d \in 1..Len(paths) : Deniable(paths[d])
             /\ Settled(a.deny_paths) => Settled(r.deny_paths)
<1> DEFINE n == Len(paths)
           Good(r, k) == /\ Grants(a, r, T)
                         /\ r.error = None => a.error = None /\ \A d \in 1..k : Deniable(paths[d])
                         /\ Settled(a.deny_paths) => Settled(r.deny_paths)
<1>1. PICK at : /\ at[0] = a /\ DenyFold(a, paths) = at[n]
                /\ \A k \in 1..n : at[k] = add_deny_access_rules(at[k - 1], paths[k])
  BY DenySteps
<1>2. n \in Nat /\ \A k \in 1..n : paths[k] \in Expressions
  OBVIOUS
<1> HIDE DEF n
<1> DEFINE S == {k \in 0..n : Good(at[k], k)}
<1>3. 0 \in S
  BY <1>1, <1>2, GrantsItself
<1>4. \A k \in 0..(n - 1) : k \in S => k + 1 \in S
  <2> TAKE k \in 0..(n - 1)
  <2> HAVE k \in S
  <2>1. k + 1 \in 1..n /\ k + 1 \in 0..n /\ (k + 1) - 1 = k
    BY <1>2
  <2>2. PICK x, r : x = at[k] /\ r = at[k + 1]
    OBVIOUS
  <2>3. r = add_deny_access_rules(x, paths[k + 1]) /\ paths[k + 1] \in Expressions
    BY <1>1, <1>2, <2>1, <2>2
  <2>4. Good(x, k) /\ x \in Accs
    BY <2>2 DEF Grants
  <2>5. /\ Grants(x, r, T) /\ (r.error = None => x.error = None /\ Deniable(paths[k + 1]))
        /\ Settled(x.deny_paths) => Settled(r.deny_paths)
    BY <2>3, <2>4, AddDenyStep DEF Deniable
  <2>6. \A d \in 1..(k + 1) : d \in 1..k \/ d = k + 1
    BY <1>2
  <2>7. Grants(a, r, T)
    BY <2>4, <2>5, GrantsTransitive
  <2>8. Good(r, k + 1)
    BY <2>4, <2>5, <2>6, <2>7
  <2> HIDE DEF Good
  <2> QED BY <2>1, <2>2, <2>8
<1>5. 0..n \subseteq S
  <2> HIDE DEF S
  <2> QED BY <1>2, <1>3, <1>4, InductionUpTo
<1>6. n \in 0..n
  BY <1>2
<1> QED BY <1>1, <1>5, <1>6 DEF n

(* block_network closes the network, and never opens it. *)
LEMMA BlockGrants ==
  ASSUME NEW a \in Accs, NEW network, NEW S
  PROVE  LET r == block_network(a, network)
         IN  Grants(a, r, S) /\ r.deny_paths = a.deny_paths /\ r.error = a.error
<1> DEFINE r == block_network(a, network)
<1>1. CASE r = a
  BY <1>1, GrantsItself
<1>2. CASE r # a
  <2>1. r = [a EXCEPT !.caps = SetNetworkBlocked(@)]
    BY <1>2 DEF block_network
  <2>2. a.caps \in CapSets
    BY DEF Accs
  <2>3. /\ SetNetworkBlocked(a.caps) \in CapSets /\ SetNetworkBlocked(a.caps).fs = a.caps.fs
        /\ SetNetworkBlocked(a.caps).network = "blocked"
    BY <2>2 DEF SetNetworkBlocked, CapSets
  <2>4. r \in Accs /\ r.caps = SetNetworkBlocked(a.caps) /\ r.deny_paths = a.deny_paths /\ r.error = a.error
    BY <2>1, <2>3 DEF Accs
  <2>5. a.caps.fs \in Seq(FsCaps)
    BY <2>2 DEF CapSets
  <2>6. Extends(a.caps.fs, r.caps.fs, S)
    BY <2>3, <2>4, <2>5, ExtendsItself
  <2>7. "blocked" # "allow_all"
    OBVIOUS
  <2> HIDE DEF r
  <2> QED BY <2>3, <2>4, <2>6, <2>7 DEF Grants, r
<1> QED BY <1>1, <1>2

(* What a known group of this platform offers, and when it is at fault. *)
GroupOffers(name) == {c \in FsCaps : Offered(c, name)}
Applies(name) == name \in DOMAIN Groups /\ group_matches_platform(Groups[name])

LEMMA OffersOfGroup ==
  ASSUME NEW name, Applies(name)
  PROVE  Offers(Groups[name].allow, Len(Groups[name].allow), name) \subseteq GroupOffers(name)
<1>1. PICK entries : entries = Groups[name].allow
  OBVIOUS
<1>2. entries \in Seq(AllowEntries)
  BY <1>1, PolicyAssumption DEF Applies, AllowEntries
<1>3. DOMAIN entries = 1..Len(entries)
  BY <1>2
<1> SUFFICES ASSUME NEW c \in Offers(entries, Len(entries), name) PROVE c \in GroupOffers(name)
  BY <1>1
<1>4. PICK e \in DOMAIN entries : /\ \A b \in 1..e : Expandable(entries[b].path)
                                  /\ c \in EntryOffers(name, entries[e])
  BY <1>3 DEF Offers
<1>5. /\ c \in FsCaps /\ c.source = name /\ c.access = entries[e].mode
      /\ c.resolved = Canonical(expand_path(entries[e].path))
  BY <1>4 DEF EntryOffers
<1> QED BY <1>1, <1>4, <1>5 DEF GroupOffers, Offered, Applies, group_matches_platform

(* resolve_single_group. *)
LEMMA GroupGrants ==
  ASSUME NEW a \in Accs, NEW name, Applies(name)
  PROVE  LET r == resolve_single_group(a, name)
         IN  /\ Grants(a, r, GroupOffers(name))
             /\ r.error = None => ~Faulty(name)
             /\ Settled(a.deny_paths) => Settled(r.deny_paths)
<1> DEFINE S == GroupOffers(name)
           entries == Groups[name].allow
           paths == Groups[name].deny
<1>0. name \in DOMAIN Groups
  BY DEF Applies
<1>1. PICK x : x = AllowFold(a, entries, name)
  OBVIOUS
<1>2. PICK y : y = DenyFold(x, paths)
  OBVIOUS
<1>3. PICK r : r = block_network(y, Groups[name].network)
  OBVIOUS
<1>4. resolve_single_group(a, name) = r
  BY <1>1, <1>2, <1>3 DEF resolve_single_group, AllowFold, DenyFold
<1>5. entries \in Seq(AllowEntries) /\ paths \in Seq(Expressions)
  BY <1>0, PolicyAssumption DEF AllowEntries
<1>6. Offers(entries, Len(entries), name) \subseteq S
  BY OffersOfGroup
<1>7. DOMAIN entries = 1..Len(entries) /\ DOMAIN paths = 1..Len(paths)
  BY <1>5
<1> HIDE DEF S, entries, paths
<1>8. /\ Grants(a, x, Offers(entries, Len(entries), name)) /\ x.deny_paths = a.deny_paths
      /\ x.error = None => \A e \in 1..Len(entries) : Expandable(entries[e].path)
  BY <1>0, <1>1, <1>5, AllowFoldGrants
<1>9. Grants(a, x, S)
  BY <1>6, <1>8 DEF Grants, Extends
<1>10. /\ Grants(x, y, S)
       /\ y.error = None => x.error = None /\ \A d \in 1..Len(paths) : Deniable(paths[d])
       /\ Settled(x.deny_paths) => Settled(y.deny_paths)
  BY <1>2, <1>5, <1>8, DenyFoldGrants DEF Grants
<1>11. Grants(y, r, S) /\ r.deny_paths = y.deny_paths /\ r.error = y.error
  BY <1>3, <1>10, BlockGrants DEF Grants
<1>12. Grants(a, r, S)
  BY <1>9, <1>10, <1>11, GrantsTransitive
<1>13. r.error = None => ~Faulty(name)
  BY <1>0, <1>7, <1>8, <1>10, <1>11 DEF Faulty, Deniable, entries, paths
<1> QED BY <1>4, <1>8, <1>10, <1>11, <1>12, <1>13 DEF S

(* One turn of resolve_groups_impl: it grants what a known group of this      *)
(* platform offers, and not after an error.                                   *)
LEMMA NextGrants ==
  ASSUME NEW a \in Accs, NEW name
  PROVE  LET r == ResolveNext(a, name)
         IN  /\ Grants(a, r, {c \in GroupOffers(name) : a.error = None})
             /\ r.error = None => a.error = None /\ ~Faulty(name)
             /\ Settled(a.deny_paths) => Settled(r.deny_paths)
<1> DEFINE r == ResolveNext(a, name)
           S == {c \in GroupOffers(name) : a.error = None}
<1>1. CASE a.error # None
  BY <1>1, GrantsItself DEF ResolveNext
<1>2. CASE a.error = None /\ name \notin DOMAIN Groups
  <2>1. r = [a EXCEPT !.error = "ValueError"]
    BY <1>2 DEF ResolveNext
  <2>2. r \in Accs /\ r.caps = a.caps /\ r.deny_paths = a.deny_paths /\ r.error # None
    BY <2>1, CapabilitiesAssumption DEF Accs
  <2> QED BY <2>2, ExtendsItself DEF Grants, Accs, CapSets
<1>3. CASE a.error = None /\ name \in DOMAIN Groups /\ ~group_matches_platform(Groups[name])
  <2>1. ~Faulty(name)
    BY <1>3 DEF Faulty, group_matches_platform
  <2>2. r = a
    BY <1>3 DEF ResolveNext
  <2> QED BY <1>3, <2>1, <2>2, GrantsItself
<1>4. CASE a.error = None /\ Applies(name)
  <2>1. PICK x : x = [a EXCEPT !.names = Append(@, name)]
    OBVIOUS
  <2>2. r = resolve_single_group(x, name)
    BY <1>4, <2>1 DEF ResolveNext, Applies
  <2>3. x \in Accs /\ x.caps = a.caps /\ x.deny_paths = a.deny_paths /\ x.error = a.error
    <3>1. PICK ns : ns = Append(a.names, name)
      OBVIOUS
    <3>2. a.names \in Seq(DOMAIN Groups) /\ name \in DOMAIN Groups
      BY <1>4 DEF Accs, Applies
    <3>3. ns \in Seq(DOMAIN Groups)
      BY <3>1, <3>2
    <3>4. x = [a EXCEPT !.names = ns]
      BY <2>1, <3>1
    <3> QED BY <3>3, <3>4 DEF Accs
  <2>4. /\ Grants(x, r, GroupOffers(name)) /\ S = GroupOffers(name)
        /\ r.error = None => ~Faulty(name)
        /\ Settled(x.deny_paths) => Settled(r.deny_paths)
    BY <1>4, <2>2, <2>3, GroupGrants
  <2>5. Grants(a, r, S)
    BY <2>3, <2>4 DEF Grants
  <2> QED BY <1>4, <2>3, <2>4, <2>5
<1> QED BY <1>1, <1>2, <1>3, <1>4 DEF Applies

(* The fold over the names. *)
ResolveFold(a, names) == FoldLeft(ResolveNext, a, names)
ResolveIter(a, names) == CHOOSE iter : iter =
  [s \in SUBSET (DOMAIN names) |->
     IF s = {} THEN a ELSE LET m == Max(s) IN ResolveNext(iter[s \ {m}], names[m])]

(* It unfolds ... *)
LEMMA ResolveUnfolds ==
  \A a, names : ResolveFold(a, names) = ResolveIter(a, names)[DOMAIN names]
BY DEF ResolveFold, ResolveIter, FoldLeft, MapThenFoldSet

(* ... and goes on name by name. *)
LEMMA ResolveSteps ==
  ASSUME NEW a \in Accs, NEW T, NEW names \in Seq(T)
  PROVE  \E at : /\ at[0] = a /\ ResolveFold(a, names) = at[Len(names)]
                 /\ \A k \in 1..Len(names) : at[k] = ResolveNext(at[k - 1], names[k])
<1> DEFINE n == Len(names)
           step == [k \in 1..n |-> [x \in Accs |-> ResolveNext(x, names[k])]]
           it == ResolveIter(a, names)
<1>1. n \in Nat /\ DOMAIN names = 1..n
  OBVIOUS
<1>2. ASSUME NEW k \in 1..n, NEW x \in Accs PROVE ResolveNext(x, names[k]) \in Accs
  <2>1. names[k] \in T
    BY <1>1
  <2> QED BY <2>1, NextGrants DEF Grants
<1>3. step \in [1..n -> [Accs -> Accs]]
  BY <1>2
<1>4. PICK f : /\ Unfolds(f, n, a, step) /\ f \in [SUBSET (1..n) -> Accs]
               /\ \A s \in SUBSET (1..n) : s # {} => Max(s) \in 1..n
  <2> HIDE DEF n, step
  <2> QED BY <1>1, <1>3, FoldExists
<1>5. f = [s \in SUBSET (DOMAIN names) |->
             IF s = {} THEN a ELSE LET m == Max(s) IN ResolveNext(f[s \ {m}], names[m])]
  <2>1. ASSUME NEW s \in SUBSET (1..n), s # {}
        PROVE  f[s] = ResolveNext(f[s \ {Max(s)}], names[Max(s)])
    BY <1>4, <2>1 DEF Unfolds
  <2>2. f[{}] = a
    BY <1>4 DEF Unfolds
  <2> QED BY <1>1, <1>4, <2>1, <2>2
<1>6. it = [s \in SUBSET (DOMAIN names) |->
              IF s = {} THEN a ELSE LET m == Max(s) IN ResolveNext(it[s \ {m}], names[m])]
  BY <1>5 DEF ResolveIter
<1> HIDE DEF it
<1> DEFINE at == [k \in 0..n |-> it[1..k]]
<1>7. at[0] = a
  BY <1>6
<1>8. \A k \in 1..n : at[k] = ResolveNext(at[k - 1], names[k])
  <2> TAKE k \in 1..n
  <2>1. 1..k \in SUBSET (DOMAIN names) /\ Max(1..k) = k /\ (1..k) \ {k} = 1..(k - 1) /\ 1..k # {}
    BY <1>1, MaxOfPrefix
  <2>2. it[1..k] = ResolveNext(it[(1..k) \ {k}], names[k])
    BY <1>6, <2>1
  <2>3. k \in 0..n /\ k - 1 \in 0..n
    BY <1>1
  <2> QED BY <2>1, <2>2, <2>3
<1>9. ResolveFold(a, names) = at[n]
  BY <1>1, ResolveUnfolds DEF it
<1> HIDE DEF at
<1> QED BY <1>7, <1>8, <1>9

(* What may be granted: what the groups offer that no faulty one is before. *)
Granters(names, k) ==
  {c \in FsCaps : \E m \in 1..k : /\ \A j \in 1..(m - 1) : ~Faulty(names[j])
                                 /\ Offered(c, names[m])}

(* All turns of resolve_groups_impl. *)
LEMMA ResolveGrants ==
  ASSUME NEW T, NEW names \in Seq(T), NEW set \in CapSets
  PROVE  LET a == [caps |-> set, names |-> <<>>, deny_paths |-> {}, error |-> None]
             r == resolve_groups_impl(names, set)
         IN  /\ Grants(a, r, Granters(names, Len(names))) /\ Settled(r.deny_paths)
             /\ r.error = None => \A j \in 1..Len(names) : ~Faulty(names[j])
<1> DEFINE n == Len(names)
<1>0. PICK a : a = [caps |-> set, names |-> <<>>, deny_paths |-> {}, error |-> None]
  OBVIOUS
<1> DEFINE Good(r, k) == /\ Grants(a, r, Granters(names, k))
                         /\ r.error = None => \A j \in 1..k : ~Faulty(names[j])
                         /\ Settled(r.deny_paths)
<1>1. a \in Accs /\ Settled(a.deny_paths)
  BY <1>0 DEF Accs, Settled
<1>2. PICK at : /\ at[0] = a /\ ResolveFold(a, names) = at[n]
                /\ \A k \in 1..n : at[k] = ResolveNext(at[k - 1], names[k])
  BY <1>1, ResolveSteps
<1>3. resolve_groups_impl(names, set) = at[n] /\ n \in Nat
  BY <1>0, <1>2 DEF resolve_groups_impl, ResolveFold
<1> HIDE DEF n
<1> DEFINE S == {k \in 0..n : Good(at[k], k)}
<1>4. 0 \in S
  BY <1>1, <1>2, <1>3, GrantsItself
<1>5. \A k \in 0..(n - 1) : k \in S => k + 1 \in S
  <2> TAKE k \in 0..(n - 1)
  <2> HAVE k \in S
  <2>1. k + 1 \in 1..n /\ k + 1 \in 0..n /\ (k + 1) - 1 = k
    BY <1>3
  <2>2. PICK x, r, name : x = at[k] /\ r = at[k + 1] /\ name = names[k + 1]
    OBVIOUS
  <2>3. r = ResolveNext(x, name)
    BY <1>2, <2>1, <2>2
  <2>4. Good(x, k) /\ x \in Accs
    BY <2>2 DEF Grants
  <2> DEFINE Fresh == {c \in GroupOffers(name) : x.error = None}
  <2>5. /\ Grants(x, r, Fresh)
        /\ r.error = None => x.error = None /\ ~Faulty(name)
        /\ Settled(x.deny_paths) => Settled(r.deny_paths)
    BY <2>3, <2>4, NextGrants
  <2>6. \A j \in 1..(k + 1) : j \in 1..k \/ j = k + 1
    BY <1>3
  <2>7. Granters(names, k) \subseteq Granters(names, k + 1)
    BY <1>3 DEF Granters
  <2>8. Fresh \subseteq Granters(names, k + 1)
    <3> SUFFICES ASSUME NEW c \in GroupOffers(name), x.error = None PROVE c \in Granters(names, k + 1)
      OBVIOUS
    <3>1. k + 1 \in 1..(k + 1) /\ (k + 1) - 1 = k
      BY <1>3
    <3>2. \A j \in 1..((k + 1) - 1) : ~Faulty(names[j])
      BY <2>4, <3>1
    <3>3. c \in FsCaps /\ Offered(c, names[k + 1])
      BY <2>2 DEF GroupOffers
    <3> QED BY <3>1, <3>2, <3>3 DEF Granters
  <2> HIDE DEF Fresh
  <2>9. Grants(a, x, Granters(names, k + 1))
    BY <2>4, <2>7 DEF Grants, Extends
  <2>10. Grants(x, r, Granters(names, k + 1))
    BY <2>5, <2>8 DEF Grants, Extends
  <2>11. Grants(a, r, Granters(names, k + 1))
    BY <2>9, <2>10, GrantsTransitive
  <2>12. Good(r, k + 1)
    BY <2>2, <2>4, <2>5, <2>6, <2>11 DEF Fresh
  <2> HIDE DEF Good
  <2> QED BY <2>1, <2>2, <2>12
<1>6. 0..n \subseteq S
  <2> HIDE DEF S
  <2> QED BY <1>3, <1>4, <1>5, InductionUpTo
<1>7. n \in 0..n
  BY <1>3
<1> QED BY <1>0, <1>3, <1>6, <1>7 DEF n

-----------------------------------------------------------------------------
(* The inductive invariant. *)

(* A saved state is the set it was made from, less what it cannot say. *)
Saved(s) ==
  /\ s.from \in CapSets /\ s.fs = s.from.fs
  /\ s.net_blocked \in BOOLEAN /\ (s.net_blocked <=> s.from.network # "allow_all")
  /\ s.from.connect = {} /\ s.from.bind = {} /\ s.from.localhost = {}
StateInv == state # None => Saved(state)

(* A set that was accepted. *)
Accepted(c) ==
  /\ c.caps \in CapSets /\ Settled(c.denied)
  /\ \A d \in c.denied, cap \in ToSet(c.caps.fs) : ~Overlaps(d, cap)
DenyInv == Settled(denied) /\ (checked # None => Accepted(checked))

(* The set the application builds. *)
SetInv ==
  /\ caps \in CapSets
  /\ raised \in {None, "FileNotFoundError", "OSError", "ValueError", "RuntimeError"}
  /\ calls \in 0..MaxCalls

(* What the application asked for and what the command wrote. *)
AskedInv == named \in Seq(ToSet(named)) /\ stderr \in Seq(Lines)

(* The inductive invariant. *)
SetupInv == AskedInv /\ SetInv /\ StateInv /\ DenyInv

(* CapabilitySet::new. *)
LEMMA EmptyIsTyped == EmptySet \in CapSets
BY DEF EmptySet, CapSets

(* It holds at the start. *)
LEMMA InvAtStart == Init => SetupInv
<1> SUFFICES ASSUME Init PROVE SetupInv
  OBVIOUS
<1>1. SetInv
  BY EmptyIsTyped, SetupAssumption DEF Init, CapabilitiesInit, SetInv
<1>2. StateInv /\ DenyInv
  BY DEF Init, CapabilitiesInit, PolicyInit, StateInv, DenyInv, Settled
<1>3. AskedInv
  BY DEF Init, PolicyInit, AskedInv
<1> QED BY <1>1, <1>2, <1>3 DEF SetupInv

(* allow_path and allow_file. *)
LEMMA AllowKeeps ==
  ASSUME caps \in CapSets, NEW path \in Seq(Names), NEW mode \in AccessModes, NEW is_file \in BOOLEAN,
         Allow(path, mode, is_file)
  PROVE  /\ caps' \in CapSets
         /\ raised' \in {None, "FileNotFoundError", "ValueError"}
<1>1. PICK cap : cap = FsCapability(path, mode, is_file, "user")
  OBVIOUS
<1>2. raised' = FsError(path, is_file) /\ raised' \in {None, "FileNotFoundError", "ValueError"}
  BY DEF Allow, FsError
<1>3. CASE caps' = caps
  BY <1>2, <1>3
<1>4. CASE raised' = None /\ caps' = AddFs(caps, cap)
  <2>1. CASE Exists(path) /\ (is_file <=> Canonical(path) \in Files)
    <3>1. cap \in FsCaps
      BY <1>1, <2>1, FsCapabilityType
    <3> QED BY <1>2, <1>4, <3>1, AddFsType
  <2>2. CASE ~Exists(path) \/ ~(is_file <=> Canonical(path) \in Files)
    <3>1. PICK b \in BOOLEAN : b <=> Canonical(path) \in Files
      OBVIOUS
    <3>2. raised' \in {"FileNotFoundError", "ValueError"}
      BY <1>2, <2>2, <3>1 DEF FsError
    <3>3. None \notin {"FileNotFoundError", "ValueError"}
      BY CapabilitiesAssumption
    <3> QED BY <1>4, <3>2, <3>3
  <2> QED BY <2>1, <2>2
<1> QED BY <1>1, <1>3, <1>4 DEF Allow

(* resolve_groups. *)
LEMMA ResolveKeeps ==
  ASSUME caps \in CapSets, NEW names \in GroupLists, ResolveGroups(names)
  PROVE  LET r == resolve_groups_impl(names, caps)
         IN  /\ caps' = r.caps /\ caps' \in CapSets /\ raised' \in {None, "ValueError", "OSError"}
             /\ raised' = None => \A j \in 1..Len(names) : ~Faulty(names[j])
             /\ Extends(caps.fs, caps'.fs, Granters(names, Len(names)))
             /\ caps.network # "allow_all" => caps'.network # "allow_all"
             /\ Settled(denied) => Settled(denied')
<1> DEFINE r == resolve_groups_impl(names, caps)
<1>1. PICK a : a = [caps |-> caps, names |-> <<>>, deny_paths |-> {}, error |-> None]
  OBVIOUS
<1>2. names \in Seq(ToSet(names))
  BY SetupAssumption
<1>3. /\ Grants(a, r, Granters(names, Len(names))) /\ Settled(r.deny_paths)
      /\ r.error = None => \A j \in 1..Len(names) : ~Faulty(names[j])
  BY <1>1, <1>2, ResolveGrants
<1>4. a.caps = caps
  BY <1>1
<1>5. /\ caps' = r.caps /\ raised' = r.error
      /\ denied' = IF r.error = None THEN denied \cup r.deny_paths ELSE denied
  BY DEF ResolveGroups
<1>6. r \in Accs
  BY <1>3 DEF Grants
<1>7. r.caps \in CapSets /\ r.error \in {None, "ValueError", "OSError"}
  BY <1>6 DEF Accs
<1>8. Settled(denied) => Settled(denied')
  BY <1>3, <1>5, SettledUnion
<1> HIDE DEF r
<1>9. /\ caps' = r.caps /\ caps' \in CapSets /\ raised' \in {None, "ValueError", "OSError"}
      /\ raised' = None => \A j \in 1..Len(names) : ~Faulty(names[j])
  BY <1>3, <1>5, <1>7
<1>10. /\ Extends(caps.fs, caps'.fs, Granters(names, Len(names)))
       /\ caps.network # "allow_all" => caps'.network # "allow_all"
  BY <1>3, <1>4, <1>9 DEF Grants
<1> QED BY <1>8, <1>9, <1>10 DEF r

(* to_caps makes, capability by capability, what was saved. *)
LEMMA RestoredType ==
  ASSUME Saved(state)
  PROVE  /\ Restored \in CapSets /\ Len(Restored.fs) = Len(state.from.fs)
         /\ \A i \in 1..Len(Restored.fs) :
              /\ Restored.fs[i].resolved = state.from.fs[i].resolved
              /\ Restored.fs[i].access = state.from.fs[i].access
              /\ Restored.fs[i].is_file = state.from.fs[i].is_file
         /\ Restored.network = IF state.net_blocked THEN "blocked" ELSE "allow_all"
         /\ Restored.localhost = {} /\ Restored.connect = {} /\ Restored.bind = {}
<1>1. PICK fs, network : /\ fs = [i \in DOMAIN state.fs |-> [state.fs[i] EXCEPT !.source = "user"]]
                         /\ network = IF state.net_blocked THEN "blocked" ELSE "allow_all"
  OBVIOUS
<1>2. state.fs = state.from.fs /\ state.fs \in Seq(FsCaps)
  BY DEF Saved, CapSets
<1>3. ASSUME NEW c \in FsCaps
      PROVE  LET d == [c EXCEPT !.source = "user"]
             IN  /\ d \in FsCaps /\ d.resolved = c.resolved /\ d.access = c.access
                 /\ d.is_file = c.is_file
  BY DEF FsCaps
<1>4. fs \in Seq(FsCaps) /\ Len(fs) = Len(state.fs)
  BY <1>1, <1>2, <1>3
<1>5. \A i \in 1..Len(fs) : fs[i].resolved = state.fs[i].resolved /\ fs[i].access = state.fs[i].access
                            /\ fs[i].is_file = state.fs[i].is_file
  BY <1>1, <1>2, <1>3
<1>6. Restored = [EmptySet EXCEPT !.fs = fs, !.network = network]
  BY <1>1 DEF Restored
<1>7. Restored = [fs |-> fs, network |-> network, localhost |-> {}, connect |-> {}, bind |-> {}]
  BY <1>6 DEF EmptySet
<1>8. network \in {"allow_all", "blocked", "proxy_only"}
  BY <1>1
<1>9. Restored \in CapSets
  BY <1>4, <1>7, <1>8 DEF CapSets
<1> QED BY <1>1, <1>2, <1>4, <1>5, <1>7, <1>9

-----------------------------------------------------------------------------
(* Every call keeps it. *)

(* allow_localhost_port, allow_connect_port and allow_bind_port. *)
LEMMA PortAdded ==
  ASSUME NEW set \in CapSets, NEW list \in {"localhost", "connect", "bind"}, NEW port \in Ports
  PROVE  [set EXCEPT ![list] = @ \cup {port}] \in CapSets
<1>1. CASE list = "localhost"
  BY <1>1 DEF CapSets
<1>2. CASE list = "connect"
  BY <1>2 DEF CapSets
<1>3. CASE list = "bind"
  BY <1>3 DEF CapSets
<1> QED BY <1>1, <1>2, <1>3

(* from_caps. *)
LEMMA FromCapsKeeps ==
  ASSUME caps \in CapSets, StateInv, FromCaps
  PROVE  caps' = caps /\ StateInv' /\ raised' \in {None, "ValueError"}
<1>1. CASE /\ caps.connect = {} /\ caps.bind = {} /\ caps.localhost = {}
           /\ state' = [fs |-> caps.fs, net_blocked |-> IsNetworkBlocked(caps), from |-> caps]
           /\ raised' = None /\ UNCHANGED caps
  <2>1. PICK s : s = [fs |-> caps.fs, net_blocked |-> IsNetworkBlocked(caps), from |-> caps]
    OBVIOUS
  <2>2. /\ s.from = caps /\ s.fs = caps.fs /\ s.net_blocked \in BOOLEAN
        /\ s.net_blocked <=> caps.network # "allow_all"
    BY <2>1 DEF IsNetworkBlocked
  <2>3. Saved(s) /\ state' = s
    BY <1>1, <2>1, <2>2 DEF Saved
  <2> QED BY <1>1, <2>3 DEF StateInv, Saved
<1>2. CASE raised' = "ValueError" /\ UNCHANGED <<caps, state>>
  BY <1>2 DEF StateInv, Saved
<1> QED BY <1>1, <1>2 DEF FromCaps

(* The calls that need no policy. *)
LEMMA BuildByHandKeeps ==
  ASSUME SetupInv, BuildByHand
  PROVE  /\ caps' \in CapSets /\ raised' \in {None, "FileNotFoundError", "OSError", "ValueError", "RuntimeError"}
         /\ StateInv' /\ UNCHANGED policyVars
<1>0. caps \in CapSets /\ StateInv /\ UNCHANGED policyVars
  BY DEF SetupInv, SetInv, BuildByHand
<1>1. ASSUME NEW p \in AllowPaths, NEW m \in AccessModes, NEW is_file \in BOOLEAN, Allow(p, m, is_file)
      PROVE  caps' \in CapSets /\ raised' \in {None, "FileNotFoundError", "ValueError"} /\ state' = state
  <2>1. p \in Seq(Names)
    BY SetupAssumption
  <2> QED BY <1>0, <1>1, <2>1, AllowKeeps DEF Allow
<1>2. ASSUME BlockNetwork \/ ProxyOnly PROVE caps' \in CapSets /\ raised' = None /\ state' = state
  BY <1>0, <1>2 DEF BlockNetwork, ProxyOnly, SetNetworkBlocked, CapSets
<1>3. ASSUME NEW list \in {"localhost", "connect", "bind"}, NEW port \in Ports, AllowPort(list, port)
      PROVE  caps' \in CapSets /\ raised' = None /\ state' = state
  BY <1>0, <1>3, PortAdded DEF AllowPort
<1>4. ASSUME ToCaps PROVE caps' \in CapSets /\ raised' = None /\ state' = state
  BY <1>0, <1>4, RestoredType DEF ToCaps, StateInv
<1>5. state' = state => StateInv'
  BY <1>0 DEF StateInv, Saved
<1>6. ASSUME FromCaps PROVE caps' \in CapSets /\ raised' \in {None, "ValueError"} /\ StateInv'
  BY <1>0, <1>6, FromCapsKeeps
<1> QED BY <1>0, <1>1, <1>2, <1>3, <1>4, <1>5, <1>6 DEF BuildByHand

(* validate_deny_overlaps. *)
LEMMA ValidateKeeps ==
  ASSUME SetupInv, ValidateDenyOverlaps
  PROVE  caps' = caps /\ raised' \in {None, "RuntimeError"} /\ state' = state /\ DenyInv'
<1>1. caps' = caps /\ state' = state /\ denied' = denied /\ raised' \in {None, "RuntimeError"}
  BY DEF ValidateDenyOverlaps
<1>2. caps \in CapSets /\ Settled(denied) /\ (checked # None => Accepted(checked))
  BY DEF SetupInv, SetInv, DenyInv
<1>3. Settled(denied')
  BY <1>1, <1>2
<1>4. CASE checked' = checked
  BY <1>1, <1>2, <1>3, <1>4 DEF DenyInv, Accepted, Settled
<1>5. CASE /\ \A d \in denied, c \in ToSet(caps.fs) : ~Overlaps(d, c)
           /\ checked' = [caps |-> caps, denied |-> denied]
  <2>1. PICK c : c = [caps |-> caps, denied |-> denied]
    OBVIOUS
  <2>2. c.caps = caps /\ c.denied = denied
    BY <2>1
  <2>3. Accepted(c)
    BY <1>2, <1>5, <2>2 DEF Accepted
  <2>4. Accepted(checked')
    BY <1>5, <2>1, <2>3
  <2> QED BY <1>1, <1>3, <2>4 DEF DenyInv, Accepted, Settled
<1> QED BY <1>1, <1>4, <1>5 DEF ValidateDenyOverlaps

(* resolve_groups, and what was accepted before. *)
LEMMA ResolveGroupsKeeps ==
  ASSUME SetupInv, NEW names \in GroupLists, ResolveGroups(names)
  PROVE  /\ caps' \in CapSets /\ raised' \in {None, "ValueError", "OSError"}
         /\ state' = state /\ DenyInv'
<1>1. caps \in CapSets /\ Settled(denied) /\ (checked # None => Accepted(checked))
  BY DEF SetupInv, SetInv, DenyInv
<1>2. caps' \in CapSets /\ raised' \in {None, "ValueError", "OSError"} /\ Settled(denied')
  BY <1>1, ResolveKeeps
<1>3. state' = state /\ checked' = checked
  BY DEF ResolveGroups
<1> QED BY <1>1, <1>2, <1>3 DEF DenyInv, Accepted

(* Steps of the command. *)
LEMMA StutterKeeps ==
  ASSUME UNCHANGED <<capabilityVars, policyVars>>
  PROVE  /\ caps' = caps /\ raised' = raised /\ (StateInv => StateInv') /\ (DenyInv => DenyInv')
<1>1. caps' = caps /\ state' = state /\ raised' = raised /\ denied' = denied /\ checked' = checked
  BY DEF capabilityVars, policyVars
<1>2. StateInv => StateInv'
  BY <1>1 DEF StateInv, Saved
<1>3. DenyInv => DenyInv'
  BY <1>1 DEF DenyInv, Accepted, Settled
<1> QED BY <1>1, <1>2, <1>3

(* The names and the lines. *)
LEMMA AskedKeeps ==
  ASSUME AskedInv, [Next]_setupVars
  PROVE  AskedInv'
<1>1. stderr' = stderr \/ \E l \in Lines : stderr' = Append(stderr, l)
  BY DEF Next, Setup, CommandComplains, setupVars
<1>2. stderr' \in Seq(Lines)
  BY <1>1 DEF AskedInv
<1>3. named' = named \/ \E names \in GroupLists : named' = names
  BY DEF Next, Setup, BuildByHand, BuildFromPolicy, ResolveGroups, ValidateDenyOverlaps,
         CommandComplains, setupVars, policyVars
<1>4. named' \in Seq(ToSet(named'))
  BY <1>3, SetupAssumption DEF AskedInv
<1> QED BY <1>2, <1>4 DEF AskedInv

(* Every step keeps the invariant. *)
LEMMA InvIsKept ==
  ASSUME SetupInv, [Next]_setupVars
  PROVE  SetupInv'
<1>0. SetInv /\ StateInv /\ DenyInv /\ AskedInv'
  BY AskedKeeps DEF SetupInv
<1>1. CASE Setup
  <2>1. calls' \in 0..MaxCalls
    BY <1>0, <1>1, SetupAssumption DEF Setup, SetInv
  <2>2. CASE BuildByHand
    <3>1. DenyInv'
      <4>1. denied' = denied /\ checked' = checked
        BY <2>2, BuildByHandKeeps DEF policyVars
      <4> QED BY <1>0, <4>1 DEF DenyInv, Accepted, Settled
    <3> QED BY <1>0, <2>1, <2>2, <3>1, BuildByHandKeeps DEF SetupInv, SetInv
  <2>3. CASE BuildFromPolicy
    <3>1. /\ caps' \in CapSets /\ raised' \in {None, "FileNotFoundError", "OSError", "ValueError", "RuntimeError"}
          /\ state' = state /\ DenyInv'
      <4>1. CASE \E names \in GroupLists : ResolveGroups(names)
        BY <4>1, ResolveGroupsKeeps
      <4>2. CASE ValidateDenyOverlaps
        BY <1>0, <4>2, ValidateKeeps DEF SetInv
      <4> QED BY <2>3, <4>1, <4>2 DEF BuildFromPolicy
    <3>2. StateInv'
      BY <1>0, <3>1 DEF StateInv, Saved
    <3> QED BY <1>0, <2>1, <3>1, <3>2 DEF SetupInv, SetInv
  <2> QED BY <1>1, <2>2, <2>3 DEF Setup
<1>2. CASE CommandComplains \/ UNCHANGED setupVars
  <2>1. UNCHANGED <<capabilityVars, policyVars>> /\ calls' = calls
    BY <1>2 DEF CommandComplains, setupVars
  <2> QED BY <1>0, <2>1, StutterKeeps DEF SetupInv, SetInv
<1> QED BY <1>1, <1>2 DEF Next

(* SetupInv is an invariant of the setup: what resolve_groups denies stays    *)
(* settled, what validate_deny_overlaps accepted has no overlap, and what     *)
(* from_caps saved is the set it was made from.                               *)
THEOREM SetupInvariant == Spec => []SetupInv
<1> QED BY InvAtStart, InvIsKept, PTL DEF Spec

(* An addition leaves what was there. *)
LEMMA PrefixExtends ==
  ASSUME NEW a \in Seq(FsCaps), NEW b \in Seq(FsCaps), NEW S, Extends(a, b, S)
  PROVE  IsPrefix(a, b) /\ \A i \in DOMAIN b \ DOMAIN a : b[i] \in S
<1>1. Len(a) \in Nat /\ Len(b) \in Nat /\ DOMAIN a = 1..Len(a) /\ DOMAIN b = 1..Len(b)
  OBVIOUS
<1>2. Len(a) <= Len(b) /\ SubSeq(a, 1, Len(a)) = SubSeq(b, 1, Len(a))
  BY <1>1 DEF Extends
<1>3. ASSUME NEW i \in DOMAIN b \ DOMAIN a PROVE b[i] \in S
  <2>1. i \in (Len(a) + 1)..Len(b)
    BY <1>1
  <2> QED BY <2>1 DEF Extends
<1> QED BY <1>2, <1>3 DEF IsPrefix

(* The action of GrantsStopAtTheError. *)
GrantsStop ==
  \A names \in {named'} :
     named' # named \/ denied' # denied =>
       /\ IsPrefix(caps.fs, caps'.fs)
       /\ \A i \in DOMAIN caps'.fs \ DOMAIN caps.fs :
            \E k \in DOMAIN names :
              /\ \A j \in 1..(k - 1) : ~Faulty(names[j])
              /\ Offered(caps'.fs[i], names[k])
       /\ (\E k \in DOMAIN names : Faulty(names[k])) => raised' # None
       /\ IsNetworkBlocked(caps) => IsNetworkBlocked(caps')

(* resolve_groups takes it. *)
LEMMA ResolveGrantsStop ==
  ASSUME caps \in CapSets, NEW names \in GroupLists, ResolveGroups(names)
  PROVE  GrantsStop
<1>1. named' = names
  BY DEF ResolveGroups
<1>2. /\ caps' \in CapSets /\ Extends(caps.fs, caps'.fs, Granters(names, Len(names)))
      /\ caps.network # "allow_all" => caps'.network # "allow_all"
      /\ raised' = None => \A j \in 1..Len(names) : ~Faulty(names[j])
  BY ResolveKeeps
<1>3. PICK a, b : a = caps.fs /\ b = caps'.fs
  OBVIOUS
<1>4. a \in Seq(FsCaps) /\ b \in Seq(FsCaps)
  BY <1>2, <1>3 DEF CapSets
<1>5. IsPrefix(a, b) /\ \A i \in DOMAIN b \ DOMAIN a : b[i] \in Granters(names, Len(names))
  BY <1>2, <1>3, <1>4, PrefixExtends
<1>6. DOMAIN names = 1..Len(names)
  BY SetupAssumption
<1>7. ASSUME NEW i \in DOMAIN b \ DOMAIN a
      PROVE  \E k \in DOMAIN names :
              /\ \A j \in 1..(k - 1) : ~Faulty(names[j])
              /\ Offered(b[i], names[k])
  BY <1>5, <1>6 DEF Granters
<1>8. (\E k \in DOMAIN names : Faulty(names[k])) => raised' # None
  BY <1>2, <1>6
<1> QED BY <1>1, <1>2, <1>3, <1>5, <1>7, <1>8 DEF GrantsStop, IsNetworkBlocked

(* A failing resolve_groups of src/src/policy.rs leaves the set with what came *)
(* before the error: what groups of this platform allow that no unknown or     *)
(* broken group is named before, and of a broken one what it allows before     *)
(* its bad expression.  The error is raised, and the network never opened.     *)
THEOREM SetupGrantsStopAtTheError == Spec => GrantsStopAtTheError
<1>1. SetupInv /\ [Next]_setupVars => [GrantsStop]_<<capabilityVars, policyVars>>
  <2> SUFFICES ASSUME SetupInv, [Next]_setupVars PROVE [GrantsStop]_<<capabilityVars, policyVars>>
    OBVIOUS
  <2>1. CASE \E names \in GroupLists : ResolveGroups(names)
    BY <2>1, ResolveGrantsStop DEF SetupInv, SetInv
  <2>2. CASE ~\E names \in GroupLists : ResolveGroups(names)
    <3>1. named' = named /\ denied' = denied
      BY <2>2 DEF Next, Setup, BuildByHand, BuildFromPolicy, ValidateDenyOverlaps, CommandComplains,
                  setupVars, policyVars
    <3> QED BY <3>1 DEF GrantsStop
  <2> QED BY <2>1, <2>2
<1>2. GrantsStopAtTheError <=> [][GrantsStop]_<<capabilityVars, policyVars>>
  BY DEF GrantsStopAtTheError, GrantsStop
<1> QED BY <1>1, <1>2, SetupInvariant, PTL DEF Spec

(* After validate_deny_overlaps no denied path is below a directory the user  *)
(* allowed, wherever the links on the way lead, dangling ones aside: the      *)
(* canonical form of a denied path is denied as well, and was compared.       *)
THEOREM SetupDeniedPaths == Spec => []DeniedPathsStayOutOfReach
<1>1. SetupInv => DeniedPathsStayOutOfReach
  <2> SUFFICES ASSUME SetupInv, checked # None, NEW d \in checked.denied, ~Dangling(d),
                      NEW c \in ToSet(checked.caps.fs), ~c.is_file, c.source = "user",
                      Covers(c, Canonical(d))
               PROVE  c.resolved = Canonical(d)
    BY DEF DeniedPathsStayOutOfReach
  <2>1. Accepted(checked)
    BY DEF SetupInv, DenyInv
  <2>2. Canonical(d) \in checked.denied
    BY <2>1 DEF Accepted, Settled
  <2>3. ~Overlaps(Canonical(d), c)
    BY <2>1, <2>2 DEF Accepted
  <2> QED BY <2>3 DEF Overlaps, Covers
<1> QED BY <1>1, SetupInvariant, PTL

-----------------------------------------------------------------------------
(* What was saved and restored. *)

(* What was saved comes back with the same paths and no more ports. *)
LEMMA SavedIsNoWider ==
  ASSUME Saved(state)
  PROVE  /\ \A p \in Real : Granted(Restored, p) \subseteq Granted(state.from, p)
         /\ Connectable(Restored) \subseteq Connectable(state.from)
         /\ Bindable(Restored) \subseteq Bindable(state.from)
<1>1. PICK old, new : old = state.from /\ new = Restored
  OBVIOUS
<1>2. /\ old \in CapSets /\ new \in CapSets /\ Len(new.fs) = Len(old.fs)
      /\ \A i \in 1..Len(new.fs) : /\ new.fs[i].resolved = old.fs[i].resolved
                                   /\ new.fs[i].access = old.fs[i].access
                                   /\ new.fs[i].is_file = old.fs[i].is_file
      /\ new.localhost = {} /\ new.connect = {} /\ new.bind = {}
  BY <1>1, RestoredType DEF Saved
<1>3. /\ old.localhost = {} /\ old.connect = {} /\ old.bind = {}
      /\ new.network = IF old.network # "allow_all" THEN "blocked" ELSE "allow_all"
  BY <1>1, RestoredType DEF Saved
<1>4. DOMAIN new.fs = 1..Len(new.fs) /\ DOMAIN old.fs = 1..Len(old.fs)
  BY <1>2 DEF CapSets
<1>5. ASSUME NEW p \in Real PROVE Granted(new, p) \subseteq Granted(old, p)
  <2> SUFFICES ASSUME NEW m \in Granted(new, p) PROVE m \in Granted(old, p)
    OBVIOUS
  <2>1. PICK i \in 1..Len(new.fs) : Covers(new.fs[i], p) /\ m \in new.fs[i].access
    BY <1>4 DEF Granted, ToSet
  <2>2. Covers(old.fs[i], p) /\ m \in old.fs[i].access /\ i \in DOMAIN old.fs
    BY <1>2, <1>4, <2>1 DEF Covers
  <2> QED BY <2>2 DEF Granted, ToSet
<1>6. Connectable(new) \subseteq Connectable(old) /\ Bindable(new) \subseteq Bindable(old)
  <2>1. old.network \in {"allow_all", "blocked", "proxy_only"}
    BY <1>2 DEF CapSets
  <2>2. Connectable(new) = {} \/ (new.network = "allow_all" /\ Connectable(new) = Connectable(old))
    <3>1. CASE new.network = "blocked"
      BY <1>2, <3>1 DEF Connectable
    <3>2. CASE new.network # "blocked"
      <4>1. new.network = "allow_all" /\ old.network = "allow_all"
        BY <1>3, <2>1, <3>2
      <4> QED BY <1>2, <1>3, <4>1 DEF Connectable
    <3> QED BY <3>1, <3>2
  <2>3. Bindable(new) = {} \/ (new.network = "allow_all" /\ Bindable(new) = Bindable(old))
    BY <1>2, <1>3, <2>1 DEF Bindable
  <2> QED BY <2>2, <2>3
<1> QED BY <1>1, <1>5, <1>6

(* A set restored from a SandboxState gives no path more rights and no port more *)
(* ways than the set it was made from.                                        *)
THEOREM SetupRoundTrip == Spec => []RoundTripIsNoWider
<1>1. SetupInv => RoundTripIsNoWider
  BY SavedIsNoWider DEF SetupInv, StateInv, RoundTripIsNoWider
<1> QED BY <1>1, SetupInvariant, PTL

-----------------------------------------------------------------------------
(* Reading stderr. *)

(* Types of what is read from stderr. *)
Observations == UNION {[D -> AccessModes] : D \in SUBSET Seq(Names)}
Pendings == [on : BOOLEAN, lines : 0..MaxPending, access : AccessModes \cup {None}]
Failures == {l.failure : l \in Lines} \cup {None}
Observed ==
  [observed : Observations, missing : SUBSET Seq(Names), relwrite : Seq(Names) \cup {None},
   pend : Pendings, net : BOOLEAN, failure : Failures]

(* What it is to be an observation. *)
LEMMA ObservationsAre ==
  ASSUME NEW f
  PROVE  f \in Observations <=> DOMAIN f \in SUBSET Seq(Names) /\ f \in [DOMAIN f -> AccessModes]
BY DEF Observations

(* Two modes merge into a mode. *)
LEMMA ModesMerge ==
  ASSUME NEW m \in AccessModes, NEW n \in AccessModes \cup {{}}
  PROVE  m \cup n \in AccessModes
BY DEF AccessModes, Read, Write, ReadWrite

(* A path observed: nothing at the limit, else its access is added. *)
LEMMA ObserveAdds ==
  ASSUME NEW a \in Observed, NEW path \in Seq(Names), NEW access \in AccessModes
  PROVE  LET r == Observe(a, path, access)
         IN  \/ Cardinality(DOMAIN a.observed) >= MaxPathHints /\ r = a
             \/ \E g \in Observations :
                  /\ ~(Cardinality(DOMAIN a.observed) >= MaxPathHints)
                  /\ r = [a EXCEPT !.observed = g] /\ r \in Observed
                  /\ DOMAIN g = DOMAIN a.observed \cup {path}
                  /\ g[path] = access \cup (IF path \in DOMAIN a.observed THEN a.observed[path] ELSE {})
                  /\ \A p \in DOMAIN a.observed \ {path} : g[p] = a.observed[p]
<1> DEFINE r == Observe(a, path, access)
<1>1. CASE Cardinality(DOMAIN a.observed) >= MaxPathHints
  BY <1>1 DEF Observe
<1>2. CASE ~(Cardinality(DOMAIN a.observed) >= MaxPathHints)
  <2>1. PICK f, x : f = a.observed /\ x = access \cup (IF path \in DOMAIN f THEN f[path] ELSE {})
    OBVIOUS
  <2>2. PICK g : g = [p \in DOMAIN f \cup {path} |-> IF p = path THEN x ELSE f[p]]
    OBVIOUS
  <2>3. f \in Observations /\ DOMAIN f \in SUBSET Seq(Names) /\ f \in [DOMAIN f -> AccessModes]
    BY <2>1, ObservationsAre DEF Observed
  <2>4. x \in AccessModes
    <3>1. (IF path \in DOMAIN f THEN f[path] ELSE {}) \in AccessModes \cup {{}}
      BY <2>3
    <3> QED BY <2>1, <3>1, ModesMerge
  <2>6. DOMAIN g = DOMAIN f \cup {path} /\ g[path] = x /\ \A p \in DOMAIN f \ {path} : g[p] = f[p]
    BY <2>2
  <2>7. g \in [DOMAIN g -> AccessModes] /\ DOMAIN g \in SUBSET Seq(Names)
    BY <2>2, <2>3, <2>4
  <2>8. g \in Observations
    BY <2>7, ObservationsAre
  <2>9. r = [a EXCEPT !.observed = g]
    BY <1>2, <2>1, <2>2 DEF Observe
  <2>10. r \in Observed
    BY <2>8, <2>9 DEF Observed

  <2> QED BY <1>2, <2>1, <2>6, <2>8, <2>9, <2>10 DEF r
<1> QED BY <1>1, <1>2

(* Observing changes the observed paths only. *)
LEMMA ObserveType ==
  ASSUME NEW a \in Observed, NEW path \in Seq(Names), NEW access \in AccessModes
  PROVE  LET r == Observe(a, path, access)
         IN  r \in Observed /\ r.pend = a.pend /\ r.relwrite = a.relwrite
<1>1. PICK r : r = Observe(a, path, access)
  OBVIOUS
<1>2. CASE r = a
  BY <1>1, <1>2
<1>3. ASSUME NEW g \in Observations, r = [a EXCEPT !.observed = g], r \in Observed
      PROVE  r \in Observed /\ r.pend = a.pend /\ r.relwrite = a.relwrite
  BY <1>3 DEF Observed
<1>4. \/ r = a
      \/ \E g \in Observations : r = [a EXCEPT !.observed = g] /\ r \in Observed
  <2>1. LET q == Observe(a, path, access)
        IN  \/ Cardinality(DOMAIN a.observed) >= MaxPathHints /\ q = a
            \/ \E g \in Observations :
                  /\ ~(Cardinality(DOMAIN a.observed) >= MaxPathHints)
                  /\ q = [a EXCEPT !.observed = g] /\ q \in Observed
                  /\ DOMAIN g = DOMAIN a.observed \cup {path}
                  /\ g[path] = access \cup (IF path \in DOMAIN a.observed THEN a.observed[path] ELSE {})
                  /\ \A p \in DOMAIN a.observed \ {path} : g[p] = a.observed[p]
    BY ObserveAdds
  <2> QED BY <1>1, <2>1
<1> QED BY <1>1, <1>2, <1>3, <1>4

(* A line of stderr is a line. *)
LEMMA LineTypes ==
  ASSUME NEW lines \in Seq(Lines), NEW k \in 1..Len(lines)
  PROVE  lines[k] \in Lines
OBVIOUS

(* What every line may tell changes neither the paths nor the pending denial. *)
LEMMA NoticeIs ==
  ASSUME NEW a \in Observed, NEW line \in Lines
  PROVE  LET r == Notice(a, line)
         IN  /\ r \in Observed /\ r.observed = a.observed /\ r.pend = a.pend
             /\ r.relwrite = IF line.relwrite # None /\ Cwd # None THEN Cwd \o line.relwrite ELSE a.relwrite
<1>1. PICK net, failure, relwrite :
        /\ net = (a.net \/ line.net)
        /\ failure = (IF a.failure = None THEN line.failure ELSE a.failure)
        /\ relwrite = IF line.relwrite # None /\ Cwd # None THEN Cwd \o line.relwrite ELSE a.relwrite
  OBVIOUS
<1>2. Notice(a, line) = [a EXCEPT !.net = net, !.failure = failure, !.relwrite = relwrite]
  BY <1>1 DEF Notice
<1>3. relwrite \in Seq(Names) \cup {None}
  <2>1. CASE line.relwrite # None /\ Cwd # None
    <3>1. line.relwrite \in Seq(Names) /\ Cwd \in Seq(Names)
      BY <2>1, SetupAssumption, CapabilitiesAssumption, DiagnosisAssumption
    <3> QED BY <1>1, <2>1, <3>1
  <2>2. CASE ~(line.relwrite # None /\ Cwd # None)
    BY <1>1, <2>2 DEF Observed
  <2> QED BY <2>1, <2>2
<1>4. failure \in Failures
  BY <1>1 DEF Failures, Observed
<1>5. net \in BOOLEAN
  BY <1>1
<1> QED BY <1>1, <1>2, <1>3, <1>4, <1>5 DEF Observed

(* A pending denial: given up, absent, or one line older. *)
LEMMA AwaitIs ==
  ASSUME NEW pend \in Pendings, NEW line \in Lines
  PROVE  LET p == Await(pend, line)
         IN  /\ p \in Pendings
             /\ \/ p = NoPending
                \/ p = pend /\ ~pend.on
                \/ /\ p.on /\ \/ line.code /\ p.lines = 1
                              \/ pend.on /\ p.lines = pend.lines + 1
                   /\ p.access = IF line.syscall # None THEN line.syscall ELSE pend.access
<1>0. line.syscall \in AccessModes \cup {None} /\ line.code \in BOOLEAN /\ MaxPending \in Nat
  BY SetupAssumption, DiagnosisAssumption
<1>1. PICK q : q = IF line.code THEN [pend EXCEPT !.on = TRUE, !.lines = 0] ELSE pend
  OBVIOUS
<1>2. /\ q \in Pendings /\ q.access = pend.access
      /\ line.code => q.on /\ q.lines = 0
      /\ ~line.code => q = pend
  <2>1. CASE line.code
    <3>1. q = [pend EXCEPT !.on = TRUE, !.lines = 0] /\ 0 \in 0..MaxPending
      BY <1>0, <1>1, <2>1
    <3> QED BY <2>1, <3>1 DEF Pendings
  <2>2. CASE ~line.code
    BY <1>1, <2>2
  <2> QED BY <2>1, <2>2
<1>3. CASE ~q.on
  <2>1. Await(pend, line) = q
    BY <1>1, <1>3 DEF Await
  <2> QED BY <1>2, <1>3, <2>1
<1>4. CASE q.on /\ q.lines = MaxPending
  <2>1. Await(pend, line) = NoPending
    BY <1>1, <1>4 DEF Await
  <2>2. NoPending \in Pendings
    BY <1>0 DEF NoPending, Pendings
  <2> QED BY <2>1, <2>2
<1>5. CASE q.on /\ q.lines # MaxPending
  <2>1. PICK access, n : /\ access = IF line.syscall # None THEN line.syscall ELSE q.access
                         /\ n = q.lines + 1
    OBVIOUS
  <2>2. Await(pend, line) = [q EXCEPT !.lines = n, !.access = access]
    BY <1>1, <1>5, <2>1 DEF Await
  <2>3. n \in 0..MaxPending /\ access \in AccessModes \cup {None}
    BY <1>0, <1>2, <1>5, <2>1 DEF Pendings
  <2>4. PICK p : p = Await(pend, line)
    OBVIOUS
  <2>5. p \in Pendings /\ p.on /\ p.lines = n /\ p.access = access
    BY <1>2, <1>5, <2>2, <2>3, <2>4 DEF Pendings
  <2>6. line.code \/ q = pend
    BY <1>2
  <2>7. \/ line.code /\ n = 1
        \/ pend.on /\ n = pend.lines + 1
    BY <1>2, <1>5, <2>1, <2>6
  <2> QED BY <1>2, <2>1, <2>4, <2>5, <2>7
<1> QED BY <1>3, <1>4, <1>5

(* A line read for what it says by itself: nothing of the paths, its own path, or *)
(* the file named before; a denial uses that file up.                         *)
LEMMA PlainDenialIs ==
  ASSUME NEW a \in Observed, NEW line \in Lines
  PROVE  LET r == PlainDenial(a, line)
         IN  /\ r \in Observed /\ r.pend = a.pend
             /\ \/ /\ line.missing \/ ~line.denial \/ (line.path = None /\ a.relwrite = None)
                   /\ r.observed = a.observed /\ r.relwrite = a.relwrite
                \/ /\ line.denial /\ ~line.missing
                   /\ r.relwrite = None
                   /\ \/ line.path # None /\ r.observed = Observe(a, line.path, line.access).observed
                      \/ /\ line.path = None /\ a.relwrite # None
                         /\ r.observed = Observe(a, a.relwrite, Write).observed
<1>0. /\ line.missing \in BOOLEAN /\ line.denial \in BOOLEAN /\ line.access \in AccessModes
      /\ line.path \in Seq(Names) \cup {None}
  BY SetupAssumption
<1>1. CASE line.missing
  <2>1. PICK missing : missing = a.missing \cup ({line.path} \ {None})
    OBVIOUS
  <2>2. PlainDenial(a, line) = [a EXCEPT !.missing = missing]
    BY <1>1, <2>1 DEF PlainDenial
  <2>3. missing \in SUBSET Seq(Names)
    BY <1>0, <2>1 DEF Observed
  <2> QED BY <1>1, <2>2, <2>3 DEF Observed
<1>2. CASE ~line.missing /\ (~line.denial \/ (line.path = None /\ a.relwrite = None))
  BY <1>2 DEF PlainDenial
<1>3. CASE ~line.missing /\ line.denial /\ ~(line.path = None /\ a.relwrite = None)
  <2>1. PICK path, access : /\ path = IF line.path # None THEN line.path ELSE a.relwrite
                            /\ access = IF line.path # None THEN line.access ELSE Write
    OBVIOUS
  <2>2. path \in Seq(Names) /\ access \in AccessModes
    BY <1>0, <1>3, <2>1 DEF Observed, AccessModes
  <2>3. PICK o : o = Observe(a, path, access)
    OBVIOUS
  <2>4. o \in Observed /\ o.pend = a.pend
    BY <2>2, <2>3, ObserveType
  <2>5. PlainDenial(a, line) = [o EXCEPT !.relwrite = None]
    BY <1>3, <2>1, <2>3 DEF PlainDenial
  <2>6. PICK r : r = PlainDenial(a, line)
    OBVIOUS
  <2>7. r \in Observed /\ r.pend = a.pend /\ r.relwrite = None /\ r.observed = o.observed
    BY <2>4, <2>5, <2>6 DEF Observed
  <2> QED BY <1>3, <2>1, <2>3, <2>6, <2>7
<1> QED BY <1>0, <1>1, <1>2, <1>3

(* One turn of the loop ... *)
LEMMA ReadLineType ==
  ASSUME NEW acc \in Observed, NEW line \in Lines
  PROVE  ReadLine(acc, line) \in Observed
<1>1. PICK a, p : a = Notice(acc, line) /\ p = Await(a.pend, line)
  OBVIOUS
<1>2. a \in Observed
  BY <1>1, NoticeIs
<1>3. p \in Pendings
  BY <1>1, <1>2, AwaitIs DEF Observed
<1>4. PICK b : b = [a EXCEPT !.pend = p]
  OBVIOUS
<1>5. b \in Observed
  BY <1>2, <1>3, <1>4 DEF Observed
<1>6. CASE p.on /\ line.spath # None /\ p.access # None
  <2>1. line.spath \in Seq(Names) /\ p.access \in AccessModes
    BY <1>3, <1>6, SetupAssumption DEF Pendings
  <2>2. PICK o : o = Observe(a, line.spath, p.access)
    OBVIOUS
  <2>3. o \in Observed
    BY <1>2, <2>1, <2>2, ObserveType
  <2>4. ReadLine(acc, line) = [o EXCEPT !.pend = NoPending]
    BY <1>1, <1>6, <2>2 DEF ReadLine
  <2>5. NoPending \in Pendings
    BY DiagnosisAssumption DEF NoPending, Pendings
  <2> QED BY <2>3, <2>4, <2>5 DEF Observed
<1>7. CASE ~(p.on /\ line.spath # None /\ p.access # None)
  <2>1. ReadLine(acc, line) = PlainDenial(b, line)
    BY <1>1, <1>4, <1>7 DEF ReadLine
  <2> QED BY <1>5, <2>1, PlainDenialIs
<1> QED BY <1>6, <1>7

(* ... and what it starts from. *)
LEMMA NothingIsTyped == NothingObserved \in Observed
<1>1. << >> \in Observations
  <2>1. PICK f : f = << >>
    OBVIOUS
  <2>2. f \in Seq(AccessModes) /\ Len(f) = 0 /\ DOMAIN f = 1..Len(f)
    BY <2>1
  <2>3. DOMAIN f = {} /\ f = [x \in DOMAIN f |-> f[x]]
    BY <2>2
  <2>4. f \in [DOMAIN f -> AccessModes]
    BY <2>3
  <2> QED BY <2>1, <2>3, <2>4, ObservationsAre
<1>2. NoPending \in Pendings
  BY DiagnosisAssumption DEF NoPending, Pendings
<1> QED BY <1>1, <1>2 DEF NothingObserved, Observed, Failures

(* The fold over the lines. *)
ReadFold(a, lines) == FoldLeft(ReadLine, a, lines)
ReadIter(a, lines) == CHOOSE iter : iter =
  [s \in SUBSET (DOMAIN lines) |->
     IF s = {} THEN a ELSE LET m == Max(s) IN ReadLine(iter[s \ {m}], lines[m])]

(* It unfolds ... *)
LEMMA ReadUnfolds ==
  \A a, lines : ReadFold(a, lines) = ReadIter(a, lines)[DOMAIN lines]
BY DEF ReadFold, ReadIter, FoldLeft, MapThenFoldSet

(* ... and goes on line by line. *)
LEMMA ReadSteps ==
  ASSUME NEW a \in Observed, NEW lines \in Seq(Lines)
  PROVE  \E at : /\ at[0] = a /\ ReadFold(a, lines) = at[Len(lines)]
                 /\ \A k \in 1..Len(lines) : at[k] = ReadLine(at[k - 1], lines[k])
<1> DEFINE n == Len(lines)
           step == [k \in 1..n |-> [x \in Observed |-> ReadLine(x, lines[k])]]
           it == ReadIter(a, lines)
<1>1. n \in Nat /\ DOMAIN lines = 1..n
  OBVIOUS
<1>2. ASSUME NEW k \in 1..n, NEW x \in Observed PROVE ReadLine(x, lines[k]) \in Observed
  <2>1. lines[k] \in Lines
    BY <1>1
  <2> QED BY <2>1, ReadLineType
<1>3. step \in [1..n -> [Observed -> Observed]]
  BY <1>2
<1>4. PICK f : /\ Unfolds(f, n, a, step) /\ f \in [SUBSET (1..n) -> Observed]
               /\ \A s \in SUBSET (1..n) : s # {} => Max(s) \in 1..n
  <2> HIDE DEF n, step
  <2> QED BY <1>1, <1>3, FoldExists
<1>5. f = [s \in SUBSET (DOMAIN lines) |->
             IF s = {} THEN a ELSE LET m == Max(s) IN ReadLine(f[s \ {m}], lines[m])]
  <2>1. ASSUME NEW s \in SUBSET (1..n), s # {}
        PROVE  f[s] = ReadLine(f[s \ {Max(s)}], lines[Max(s)])
    BY <1>4, <2>1 DEF Unfolds
  <2>2. f[{}] = a
    BY <1>4 DEF Unfolds
  <2> QED BY <1>1, <1>4, <2>1, <2>2
<1>6. it = [s \in SUBSET (DOMAIN lines) |->
              IF s = {} THEN a ELSE LET m == Max(s) IN ReadLine(it[s \ {m}], lines[m])]
  BY <1>5 DEF ReadIter
<1> HIDE DEF it
<1> DEFINE at == [k \in 0..n |-> it[1..k]]
<1>7. at[0] = a
  BY <1>6
<1>8. \A k \in 1..n : at[k] = ReadLine(at[k - 1], lines[k])
  <2> TAKE k \in 1..n
  <2>1. 1..k \in SUBSET (DOMAIN lines) /\ Max(1..k) = k /\ (1..k) \ {k} = 1..(k - 1) /\ 1..k # {}
    BY <1>1, MaxOfPrefix
  <2>2. it[1..k] = ReadLine(it[(1..k) \ {k}], lines[k])
    BY <1>6, <2>1
  <2>3. k \in 0..n /\ k - 1 \in 0..n
    BY <1>1
  <2> QED BY <2>1, <2>2, <2>3
<1>9. ReadFold(a, lines) = at[n]
  BY <1>1, ReadUnfolds DEF it
<1> HIDE DEF at
<1> QED BY <1>7, <1>8, <1>9

(* What analyze_error_output returns, for any stderr. *)
LEMMA ReportIsTyped ==
  ASSUME NEW lines \in Seq(Lines)
  PROVE  analyze_error_output(lines) \in Observed
<1>1. PICK at : /\ at[0] = NothingObserved /\ ReadFold(NothingObserved, lines) = at[Len(lines)]
                /\ \A k \in 1..Len(lines) : at[k] = ReadLine(at[k - 1], lines[k])
  BY NothingIsTyped, ReadSteps
<1>2. PICK n \in Nat : n = Len(lines)
  OBVIOUS
<1> DEFINE S == {k \in 0..n : at[k] \in Observed}
<1>3. 0 \in S
  BY <1>1, NothingIsTyped
<1>4. \A k \in 0..(n - 1) : k \in S => k + 1 \in S
  <2> TAKE k \in 0..(n - 1)
  <2> HAVE k \in S
  <2>1. k + 1 \in 1..Len(lines) /\ (k + 1) - 1 = k /\ k + 1 \in 0..n
    BY <1>2
  <2>2. at[k + 1] = ReadLine(at[k], lines[k + 1]) /\ lines[k + 1] \in Lines
    BY <1>1, <2>1
  <2> QED BY <2>1, <2>2, ReadLineType
<1>5. 0..n \subseteq S
  <2> HIDE DEF S
  <2> QED BY <1>3, <1>4, InductionUpTo
<1>6. n \in 0..n
  OBVIOUS
<1> QED BY <1>1, <1>2, <1>5, <1>6 DEF analyze_error_output, ReadFold

-----------------------------------------------------------------------------
(* What the lines justify. *)

(* A code at most MaxPending lines back. *)
Fresh(lines, x) == \E y \in 1..x : lines[y].code /\ x - y < MaxPending

(* The access a denial waits with after line k was read. *)
Awaiting(lines, k, p) ==
  /\ p \in Pendings
  /\ ~p.on => p.access = None
  /\ p.on => \E y \in 1..k : lines[y].code /\ p.lines = (k - y) + 1
  /\ p.access # None =>
       \E i \in 1..k : /\ lines[i].syscall = p.access
                       /\ \A x \in i..k : Fresh(lines, x)
                       /\ \A x \in (i + 1)..k : lines[x].syscall = None
                       /\ \A x \in i..(k - 1) : lines[x].spath = None

(* The file last said to be created. *)
Created(lines, k, path) ==
  path # None =>
    /\ Cwd # None
    /\ \E i \in 1..k : /\ lines[i].relwrite # None /\ Cwd \o lines[i].relwrite = path
                       /\ \A j \in (i + 1)..k : lines[j].relwrite = None
                       /\ \A j \in i..(k - 1) : ~lines[j].denial \/ lines[j].missing
                                                \/ lines[j].spath # None

(* What the first k lines tell of a path. *)
Told(lines, k, p) == UNION UNION {Justified(lines, j, p) : j \in 1..k}

(* Every observed access is told by the lines, and there is a limit to them. *)
Seen(lines, k, f) ==
  /\ IsFiniteSet(DOMAIN f) /\ Cardinality(DOMAIN f) <= MaxPathHints
  /\ \A p \in DOMAIN f : f[p] \subseteq Told(lines, k, p)

(* What holds of the accumulator after k lines. *)
Watched(lines, k, a) ==
  /\ a \in Observed
  /\ Awaiting(lines, k, a.pend) /\ (k > 0 /\ a.pend.access # None => lines[k].spath = None)
  /\ Created(lines, k, a.relwrite)
  /\ a.relwrite # None /\ k > 0 => ~lines[k].denial \/ lines[k].missing \/ lines[k].spath # None
  /\ Seen(lines, k, a.observed)

(* A justified access is told ... *)
LEMMA ToldIs ==
  ASSUME NEW lines, NEW k \in Nat, NEW j \in 1..k, NEW p, NEW m \in Justified(lines, j, p)
  PROVE  m \subseteq Told(lines, k, p)
BY DEF Told

(* ... and more lines tell no less. *)
LEMMA ToldGrows ==
  ASSUME NEW lines, NEW k \in Nat, NEW p
  PROVE  Told(lines, k, p) \subseteq Told(lines, k + 1, p)
<1>1. 1..k \subseteq 1..(k + 1)
  OBVIOUS
<1> QED BY <1>1 DEF Told

(* An access the lines tell can be observed. *)
LEMMA ObserveSeen ==
  ASSUME NEW lines, NEW k \in Nat, NEW a \in Observed, Seen(lines, k, a.observed),
         NEW path \in Seq(Names), NEW access \in AccessModes, access \subseteq Told(lines, k, path)
  PROVE  Seen(lines, k, Observe(a, path, access).observed)
<1>1. PICK r, f : r = Observe(a, path, access) /\ f = a.observed
  OBVIOUS
<1>2. \/ Cardinality(DOMAIN f) >= MaxPathHints /\ r = a
      \/ \E g \in Observations :
                  /\ ~(Cardinality(DOMAIN f) >= MaxPathHints)
                  /\ r = [a EXCEPT !.observed = g] /\ r \in Observed
                  /\ DOMAIN g = DOMAIN f \cup {path}
                  /\ g[path] = access \cup (IF path \in DOMAIN f THEN f[path] ELSE {})
                  /\ \A p \in DOMAIN f \ {path} : g[p] = f[p]
  <2>1. LET q == Observe(a, path, access)
        IN  \/ Cardinality(DOMAIN a.observed) >= MaxPathHints /\ q = a
            \/ \E g \in Observations :
                  /\ ~(Cardinality(DOMAIN a.observed) >= MaxPathHints)
                  /\ q = [a EXCEPT !.observed = g] /\ q \in Observed
                  /\ DOMAIN g = DOMAIN a.observed \cup {path}
                  /\ g[path] = access \cup (IF path \in DOMAIN a.observed THEN a.observed[path] ELSE {})
                  /\ \A p \in DOMAIN a.observed \ {path} : g[p] = a.observed[p]
    BY ObserveAdds
  <2> QED BY <1>1, <2>1
<1>3. ASSUME NEW g \in Observations,
             ~(Cardinality(DOMAIN f) >= MaxPathHints), r = [a EXCEPT !.observed = g],
             DOMAIN g = DOMAIN f \cup {path},
             g[path] = access \cup (IF path \in DOMAIN f THEN f[path] ELSE {}),
             \A p \in DOMAIN f \ {path} : g[p] = f[p]
      PROVE  Seen(lines, k, r.observed)
  <2>1. r.observed = g
    BY <1>3 DEF Observed
  <2>2. IsFiniteSet(DOMAIN f) /\ \A p \in DOMAIN f : f[p] \subseteq Told(lines, k, p)
    BY <1>1 DEF Seen
  <2>3. Cardinality(DOMAIN f) \in Nat /\ Cardinality(DOMAIN f) + 1 <= MaxPathHints
    BY <1>3, <2>2, FS_CardinalityType, DiagnosisAssumption
  <2>4. IsFiniteSet(DOMAIN g) /\ Cardinality(DOMAIN g) <= MaxPathHints
    <3>1. PICK D : D = DOMAIN f
      OBVIOUS
    <3>2. IsFiniteSet(D) /\ Cardinality(D) \in Nat /\ Cardinality(D) + 1 <= MaxPathHints
      BY <2>2, <2>3, <3>1
    <3>3. /\ IsFiniteSet(D \cup {path})
          /\ Cardinality(D \cup {path}) = IF path \in D THEN Cardinality(D) ELSE Cardinality(D) + 1
      BY <3>2, FS_AddElement
    <3>4. Cardinality(D \cup {path}) <= MaxPathHints
      BY <3>2, <3>3, DiagnosisAssumption
    <3> QED BY <1>3, <3>1, <3>3, <3>4
  <2>5. \A p \in DOMAIN g : g[p] \subseteq Told(lines, k, p)
    <3> TAKE p \in DOMAIN g
    <3>1. CASE p = path
      BY <1>3, <2>2, <3>1
    <3>2. CASE p # path
      BY <1>3, <2>2, <3>2
    <3> QED BY <3>1, <3>2
  <2> QED BY <2>1, <2>4, <2>5 DEF Seen
<1>4. CASE r = a
  BY <1>1, <1>4
<1> QED BY <1>1, <1>2, <1>3, <1>4

(* What was told stays told. *)
LEMMA SeenGrows ==
  ASSUME NEW lines, NEW k \in Nat, NEW f, Seen(lines, k, f)
  PROVE  Seen(lines, k + 1, f)
BY ToldGrows DEF Seen

(* One more line, read up to what it tells of a pending denial ... *)
LEMMA AwaitStep ==
  ASSUME NEW lines \in Seq(Lines), NEW k \in Nat, k + 1 \in 1..Len(lines), NEW q,
         Awaiting(lines, k, q), k > 0 /\ q.access # None => lines[k].spath = None
  PROVE  Awaiting(lines, k + 1, Await(q, lines[k + 1]))
<1>0. PICK n, line : n = k + 1 /\ line = lines[n]
  OBVIOUS
<1>1. /\ n \in Nat /\ n \in 1..n /\ n - 1 = k /\ line \in Lines /\ 1..k \subseteq 1..n
      /\ \A x \in 1..n : x \in 1..k \/ x = n
  BY <1>0, LineTypes
<1>2. line.syscall \in AccessModes \cup {None} /\ MaxPending \in Nat
  BY <1>1, SetupAssumption, DiagnosisAssumption
<1>3. q \in Pendings
  BY DEF Awaiting
<1>4. PICK p : p = Await(q, line)
  OBVIOUS
<1>5. /\ p \in Pendings
      /\ \/ p = NoPending
         \/ p = q /\ ~q.on
         \/ /\ p.on /\ \/ line.code /\ p.lines = 1
                       \/ q.on /\ p.lines = q.lines + 1
            /\ p.access = IF line.syscall # None THEN line.syscall ELSE q.access
  BY <1>1, <1>3, <1>4, AwaitIs
<1>6. CASE p = NoPending \/ (p = q /\ ~q.on)
  <2>1. ~p.on /\ p.access = None
    BY <1>6 DEF NoPending, Awaiting
  <2> QED BY <1>0, <1>4, <1>5, <2>1 DEF Awaiting
<1>7. CASE /\ p.on /\ \/ line.code /\ p.lines = 1
                      \/ q.on /\ p.lines = q.lines + 1
           /\ p.access = IF line.syscall # None THEN line.syscall ELSE q.access
  <2>1. \E y \in 1..n : lines[y].code /\ p.lines = (n - y) + 1
    <3>1. CASE line.code /\ p.lines = 1
      <4>1. (n - n) + 1 = 1
        BY <1>1
      <4> QED BY <1>0, <1>1, <3>1, <4>1
    <3>2. CASE q.on /\ p.lines = q.lines + 1
      <4>1. PICK y \in 1..k : lines[y].code /\ q.lines = (k - y) + 1
        BY <3>2 DEF Awaiting
      <4>2. y \in 1..n /\ p.lines = (n - y) + 1
        BY <1>0, <1>1, <3>2, <4>1
      <4> QED BY <4>1, <4>2
    <3> QED BY <1>7, <3>1, <3>2
  <2>2. Fresh(lines, n)
    <3>1. PICK y \in 1..n : lines[y].code /\ p.lines = (n - y) + 1
      BY <2>1
    <3>2. p.lines <= MaxPending
      BY <1>5 DEF Pendings
    <3>3. n - y < MaxPending
      BY <1>1, <1>2, <3>1, <3>2
    <3> QED BY <3>1, <3>3 DEF Fresh
  <2>3. ASSUME p.access # None
        PROVE  \E i \in 1..n : /\ lines[i].syscall = p.access
                               /\ \A x \in i..n : Fresh(lines, x)
                               /\ \A x \in (i + 1)..n : lines[x].syscall = None
                               /\ \A x \in i..(n - 1) : lines[x].spath = None
    <3>1. CASE line.syscall # None
      <4>1. \A x \in n..n : x = n
        BY <1>1
      <4>2. (n + 1)..n = {} /\ n..(n - 1) = {}
        BY <1>1
      <4> QED BY <1>0, <1>1, <1>7, <2>2, <3>1, <4>1, <4>2
    <3>2. CASE line.syscall = None
      <4>1. p.access = q.access
        BY <1>7, <3>2
      <4>2. PICK i \in 1..k : /\ lines[i].syscall = q.access
                              /\ \A x \in i..k : Fresh(lines, x)
                              /\ \A x \in (i + 1)..k : lines[x].syscall = None
                              /\ \A x \in i..(k - 1) : lines[x].spath = None
        BY <2>3, <4>1 DEF Awaiting
      <4>3. /\ \A x \in i..n : x \in i..k \/ x = n
            /\ \A x \in (i + 1)..n : x \in (i + 1)..k \/ x = n
            /\ \A x \in i..(n - 1) : x \in i..(k - 1) \/ x = k
            /\ i \in 1..n /\ k > 0
        BY <1>0, <1>1
      <4>4. lines[k].spath = None
        BY <2>3, <4>1, <4>3
      <4> QED BY <1>0, <2>2, <3>2, <4>1, <4>2, <4>3, <4>4
    <3> QED BY <3>1, <3>2
  <2> QED BY <1>0, <1>4, <1>5, <1>7, <2>1, <2>3 DEF Awaiting
<1> QED BY <1>5, <1>6, <1>7

(* ... and of a file that is created. *)
LEMMA NoticeStep ==
  ASSUME NEW lines \in Seq(Lines), NEW k \in Nat, k + 1 \in 1..Len(lines), NEW acc \in Observed,
         Created(lines, k, acc.relwrite),
         acc.relwrite # None /\ k > 0 => ~lines[k].denial \/ lines[k].missing \/ lines[k].spath # None
  PROVE  Created(lines, k + 1, Notice(acc, lines[k + 1]).relwrite)
<1>0. PICK n, line, r : n = k + 1 /\ line = lines[n] /\ r = Notice(acc, line)
  OBVIOUS
<1>1. n \in Nat /\ n \in 1..n /\ n - 1 = k /\ line \in Lines /\ 1..k \subseteq 1..n
  BY <1>0, LineTypes
<1>2. r.relwrite = IF line.relwrite # None /\ Cwd # None THEN Cwd \o line.relwrite ELSE acc.relwrite
  BY <1>0, <1>1, NoticeIs
<1>3. CASE line.relwrite # None /\ Cwd # None
  <2>1. (n + 1)..n = {} /\ n..(n - 1) = {}
    BY <1>1
  <2> QED BY <1>0, <1>1, <1>2, <1>3, <2>1 DEF Created
<1>4. CASE ~(line.relwrite # None /\ Cwd # None)
  <2> SUFFICES ASSUME acc.relwrite # None PROVE Created(lines, n, acc.relwrite)
    BY <1>0, <1>2, <1>4 DEF Created
  <2>1. PICK i \in 1..k :
             /\ lines[i].relwrite # None /\ Cwd \o lines[i].relwrite = acc.relwrite
             /\ \A j \in (i + 1)..k : lines[j].relwrite = None
             /\ \A j \in i..(k - 1) : ~lines[j].denial \/ lines[j].missing \/ lines[j].spath # None
    BY DEF Created
  <2>2. Cwd # None /\ lines[n].relwrite = None
    BY <1>0, <1>4 DEF Created
  <2>3. /\ \A j \in (i + 1)..n : j \in (i + 1)..k \/ j = n
        /\ \A j \in i..(n - 1) : j \in i..(k - 1) \/ j = k
        /\ i \in 1..n /\ k > 0
    BY <1>0, <1>1
  <2> QED BY <2>1, <2>2, <2>3 DEF Created
<1> QED BY <1>0, <1>3, <1>4

(* A denial that names its path justifies the access of its wording ... *)
LEMMA JustifiedPlain ==
  ASSUME NEW lines, NEW k \in Nat, lines[k].denial, ~lines[k].missing, lines[k].access \in AccessModes
  PROVE  lines[k].access \in Justified(lines, k, lines[k].path)
BY DEF Justified

(* ... one without a path that of writing the file created last ... *)
LEMMA JustifiedCreated ==
  ASSUME NEW lines, NEW k \in Nat, NEW path,
         path # None, lines[k].denial, ~lines[k].missing, lines[k].path = None,
         Created(lines, k, path)
  PROVE  Write \in Justified(lines, k, path)
<1>1. PICK i \in 1..k : /\ lines[i].relwrite # None /\ Cwd \o lines[i].relwrite = path
                        /\ \A j \in (i + 1)..k : lines[j].relwrite = None
                        /\ \A j \in i..(k - 1) : ~lines[j].denial \/ lines[j].missing
                                                 \/ lines[j].spath # None
  BY DEF Created
<1>2. Cwd # None /\ Write \in AccessModes
  BY DEF Created, AccessModes
<1> QED BY <1>1, <1>2 DEF Justified

(* ... a denial that still waits has a code not too far back ... *)
LEMMA AwaitingIsFresh ==
  ASSUME NEW lines, NEW k \in Nat, NEW p, Awaiting(lines, k, p), p.on
  PROVE  Fresh(lines, k)
<1>1. PICK y \in 1..k : lines[y].code /\ p.lines = (k - y) + 1
  BY DEF Awaiting
<1>2. p.lines \in 0..MaxPending /\ MaxPending \in Nat
  BY DiagnosisAssumption DEF Awaiting, Pendings
<1>3. k - y < MaxPending
  BY <1>1, <1>2
<1> QED BY <1>1, <1>3 DEF Fresh

(* ... and a path property the access the denial waits with. *)
LEMMA JustifiedPaired ==
  ASSUME NEW lines, NEW k \in Nat, NEW p, Awaiting(lines, k, p), p.on, p.access # None,
         lines[k].spath # None
  PROVE  p.access \in Justified(lines, k, lines[k].spath)
<1>1. Fresh(lines, k)
  BY AwaitingIsFresh
<1>2. PICK i \in 1..k : /\ lines[i].syscall = p.access
                        /\ \A x \in i..k : Fresh(lines, x)
                        /\ \A x \in (i + 1)..k : lines[x].syscall = None
                        /\ \A x \in i..(k - 1) : lines[x].spath = None
  BY DEF Awaiting
<1>3. p.access \in AccessModes
  BY DEF Awaiting, Pendings
<1> QED BY <1>1, <1>2, <1>3 DEF Justified, Fresh

(* One turn of the loop keeps all of it. *)
LEMMA WatchStep ==
  ASSUME NEW lines \in Seq(Lines), NEW k \in Nat, k + 1 \in 1..Len(lines), NEW acc, Watched(lines, k, acc)
  PROVE  Watched(lines, k + 1, ReadLine(acc, lines[k + 1]))
<1>0. PICK n, line : n = k + 1 /\ line = lines[n]
  OBVIOUS
<1>1. n \in Nat /\ n \in 1..n /\ n > 0 /\ line \in Lines /\ acc \in Observed
  BY <1>0, LineTypes DEF Watched
<1>2. PICK a, p : a = Notice(acc, line) /\ p = Await(a.pend, line)
  OBVIOUS
<1>3. a \in Observed /\ a.pend = acc.pend /\ a.observed = acc.observed
  BY <1>1, <1>2, NoticeIs
<1>4. Created(lines, n, a.relwrite)
  BY <1>0, <1>1, <1>2, NoticeStep DEF Watched
<1>5. Awaiting(lines, n, p)
  <2>1. Awaiting(lines, k + 1, Await(acc.pend, lines[k + 1]))
    BY AwaitStep DEF Watched
  <2> QED BY <1>0, <1>2, <1>3, <2>1
<1>6. Seen(lines, n, a.observed)
  BY <1>0, <1>3, SeenGrows DEF Watched
<1>7. p \in Pendings
  BY <1>5 DEF Awaiting
<1>8. /\ line.path \in Seq(Names) \cup {None} /\ line.access \in AccessModes
      /\ line.spath \in Seq(Names) \cup {None} /\ line.missing \in BOOLEAN /\ line.denial \in BOOLEAN
  BY <1>1, SetupAssumption
<1>9. CASE p.on /\ line.spath # None /\ p.access # None
  <2>1. line.spath \in Seq(Names) /\ p.access \in AccessModes
    BY <1>7, <1>8, <1>9 DEF Pendings
  <2>2. PICK o : o = Observe(a, line.spath, p.access)
    OBVIOUS
  <2>3. o \in Observed /\ o.relwrite = a.relwrite
    BY <1>3, <2>1, <2>2, ObserveType
  <2>4. p.access \subseteq Told(lines, n, line.spath)
    <3>1. p.access \in Justified(lines, n, line.spath)
      BY <1>0, <1>1, <1>5, <1>9, JustifiedPaired
    <3> QED BY <1>1, <3>1, ToldIs
  <2>5. Seen(lines, n, o.observed)
    BY <1>1, <1>3, <1>6, <2>1, <2>2, <2>4, ObserveSeen
  <2>6. NoPending \in Pendings /\ ~NoPending.on /\ NoPending.access = None
    BY DiagnosisAssumption DEF NoPending, Pendings
  <2>7. PICK r : r = ReadLine(acc, line)
    OBVIOUS
  <2>8. r = [o EXCEPT !.pend = NoPending]
    BY <1>2, <1>9, <2>2, <2>7 DEF ReadLine
  <2>9. r \in Observed /\ r.pend = NoPending /\ r.relwrite = a.relwrite /\ r.observed = o.observed
    BY <2>3, <2>6, <2>8 DEF Observed
  <2>10. Awaiting(lines, n, r.pend) /\ r.pend.access = None
    BY <2>6, <2>9 DEF Awaiting
  <2> QED BY <1>0, <1>4, <1>9, <2>5, <2>7, <2>9, <2>10 DEF Watched
<1>10. CASE ~(p.on /\ line.spath # None /\ p.access # None)
  <2>1. PICK b, r : b = [a EXCEPT !.pend = p] /\ r = PlainDenial(b, line)
    OBVIOUS
  <2>2. ReadLine(acc, line) = r
    BY <1>2, <1>10, <2>1 DEF ReadLine
  <2>3. b \in Observed /\ b.pend = p /\ b.observed = a.observed /\ b.relwrite = a.relwrite
    BY <1>3, <1>7, <2>1 DEF Observed
  <2>4. /\ r \in Observed /\ r.pend = b.pend
        /\ \/ /\ line.missing \/ ~line.denial \/ (line.path = None /\ b.relwrite = None)
              /\ r.observed = b.observed /\ r.relwrite = b.relwrite
           \/ /\ line.denial /\ ~line.missing
              /\ r.relwrite = None
              /\ \/ line.path # None /\ r.observed = Observe(b, line.path, line.access).observed
                 \/ /\ line.path = None /\ b.relwrite # None
                    /\ r.observed = Observe(b, b.relwrite, Write).observed
    BY <1>1, <2>1, <2>3, PlainDenialIs
  <2>5. Awaiting(lines, n, r.pend) /\ (r.pend.access # None => line.spath = None)
    <3>1. r.pend = p
      BY <2>3, <2>4
    <3>2. p.access # None => p.on
      BY <1>5 DEF Awaiting
    <3> QED BY <1>5, <1>10, <3>1, <3>2
  <2>6. /\ Created(lines, n, r.relwrite) /\ Seen(lines, n, r.observed)
        /\ r.relwrite # None => ~line.denial \/ line.missing \/ line.spath # None
    <3>1. CASE /\ line.missing \/ ~line.denial \/ (line.path = None /\ b.relwrite = None)
               /\ r.observed = b.observed /\ r.relwrite = b.relwrite
      BY <1>4, <1>6, <2>3, <3>1
    <3>2. CASE /\ line.denial /\ ~line.missing /\ r.relwrite = None
               /\ line.path # None /\ r.observed = Observe(b, line.path, line.access).observed
      <4>1. line.path \in Seq(Names)
        BY <1>8, <3>2
      <4>2. line.access \subseteq Told(lines, n, line.path)
        <5>1. line.access \in Justified(lines, n, line.path)
          BY <1>0, <1>1, <1>8, <3>2, JustifiedPlain
        <5> QED BY <1>1, <5>1, ToldIs
      <4>3. Seen(lines, n, r.observed)
        BY <1>1, <1>6, <1>8, <2>3, <3>2, <4>1, <4>2, ObserveSeen
      <4>4. Created(lines, n, r.relwrite)
        BY <3>2 DEF Created
      <4> QED BY <3>2, <4>3, <4>4
    <3>3. CASE /\ line.denial /\ ~line.missing /\ r.relwrite = None
               /\ line.path = None /\ b.relwrite # None
               /\ r.observed = Observe(b, b.relwrite, Write).observed
      <4>1. b.relwrite \in Seq(Names) /\ Write \in AccessModes
        BY <2>3, <3>3 DEF Observed, AccessModes
      <4>2. Write \subseteq Told(lines, n, b.relwrite)
        <5>1. Write \in Justified(lines, n, b.relwrite)
          BY <1>0, <1>1, <1>4, <2>3, <3>3, JustifiedCreated
        <5> QED BY <1>1, <5>1, ToldIs
      <4>3. Seen(lines, n, r.observed)
        BY <1>1, <1>6, <2>3, <3>3, <4>1, <4>2, ObserveSeen
      <4>4. Created(lines, n, r.relwrite)
        BY <3>3 DEF Created
      <4> QED BY <3>3, <4>3, <4>4
    <3> QED BY <2>4, <3>1, <3>2, <3>3
  <2> QED BY <1>0, <2>2, <2>4, <2>5, <2>6 DEF Watched
<1> QED BY <1>0, <1>9, <1>10

(* Whatever the command writes, its hints are justified. *)
LEMMA ReportIsJustified ==
  ASSUME NEW lines \in Seq(Lines)
  PROVE  HintsAreJustifiedBy(lines)
<1>1. PICK at : /\ at[0] = NothingObserved /\ ReadFold(NothingObserved, lines) = at[Len(lines)]
                /\ \A k \in 1..Len(lines) : at[k] = ReadLine(at[k - 1], lines[k])
  BY NothingIsTyped, ReadSteps
<1>2. PICK n \in Nat : n = Len(lines) /\ DOMAIN lines = 1..n
  OBVIOUS
<1> DEFINE S == {k \in 0..n : Watched(lines, k, at[k])}
<1>3. 0 \in S
  <2>1. PICK f : f = NothingObserved.observed
    OBVIOUS
  <2>2. /\ NothingObserved.pend = NoPending /\ NothingObserved.relwrite = None
        /\ NothingObserved.observed = << >>
    BY DEF NothingObserved
  <2>3. Awaiting(lines, 0, NoPending)
    BY DiagnosisAssumption DEF Awaiting, NoPending, Pendings
  <2>4. DOMAIN f = {}
    BY <2>1, <2>2
  <2>5. Seen(lines, 0, f)
    BY <2>4, FS_EmptySet, DiagnosisAssumption DEF Seen
  <2>6. Watched(lines, 0, NothingObserved)
    BY <2>1, <2>2, <2>3, <2>5, NothingIsTyped DEF Watched, Created
  <2> QED BY <1>1, <1>2, <2>6
<1>4. \A k \in 0..(n - 1) : k \in S => k + 1 \in S
  <2> TAKE k \in 0..(n - 1)
  <2> HAVE k \in S
  <2>1. k \in Nat /\ k + 1 \in 1..Len(lines) /\ (k + 1) - 1 = k /\ k + 1 \in 0..n
    BY <1>2
  <2>2. at[k + 1] = ReadLine(at[k], lines[k + 1])
    BY <1>1, <2>1
  <2>3. Watched(lines, k + 1, at[k + 1])
    BY <2>1, <2>2, WatchStep
  <2> QED BY <2>1, <2>3
<1>5. Watched(lines, n, at[n])
  <2>1. 0..n \subseteq S
    <3> HIDE DEF S
    <3> QED BY <1>3, <1>4, InductionUpTo
  <2> QED BY <2>1
<1>6. analyze_error_output(lines) = at[n]
  BY <1>1, <1>2 DEF analyze_error_output, ReadFold
<1>7. Seen(lines, n, analyze_error_output(lines).observed)
  BY <1>5, <1>6 DEF Watched
<1> QED BY <1>2, <1>7 DEF Seen, Told, HintsAreJustifiedBy

-----------------------------------------------------------------------------
(* Remediations. *)

(* There is a closest covering capability where one covers. *)
LEMMA ClosestIs ==
  ASSUME NEW set \in CapSets, NEW path, Covering(set, path) # {}
  PROVE  \E i \in 1..Len(set.fs) : /\ ClosestCovering(set, path) = set.fs[i]
                                   /\ Covers(set.fs[i], Canonical(path))
<1>1. PICK n \in Nat : n = Len(set.fs) /\ DOMAIN set.fs = 1..n
  BY DEF CapSets
<1>2. PICK C : C = Covering(set, path)
  OBVIOUS
<1>3. C \subseteq 1..n /\ C # {} /\ \A i \in C : Covers(set.fs[i], Canonical(path))
  BY <1>1, <1>2 DEF Covering
<1> DEFINE size == [i \in 1..n |-> Len(set.fs[i].resolved)]
<1>4. \A i \in 1..n : size[i] \in Nat
  <2> TAKE i \in 1..n
  <2>1. set.fs[i] \in FsCaps
    BY <1>1 DEF CapSets
  <2>2. set.fs[i].resolved \in Seq(Names)
    BY <2>1, CapabilitiesAssumption DEF FsCaps
  <2> QED BY <2>2
<1> DEFINE Above(i, j) == size[j] < size[i] \/ (size[j] = size[i] /\ j <= i)
           S == {k \in 0..n : C \cap 1..k = {} \/ \E i \in C \cap 1..k : \A j \in C \cap 1..k : Above(i, j)}
<1>5. 0 \in S
  OBVIOUS
<1>6. \A k \in 0..(n - 1) : k \in S => k + 1 \in S
  <2> TAKE k \in 0..(n - 1)
  <2> HAVE k \in S
  <2> HIDE DEF size
  <2>1. k + 1 \in 1..n /\ k + 1 \in 0..n /\ \A j \in 1..(k + 1) : j \in 1..k \/ j = k + 1
    BY <1>1
  <2>2. CASE k + 1 \notin C
    <3>1. C \cap 1..(k + 1) = C \cap 1..k
      BY <2>1, <2>2
    <3> QED BY <2>1, <3>1
  <2>3. CASE k + 1 \in C /\ C \cap 1..k = {}
    <3>1. C \cap 1..(k + 1) = {k + 1}
      BY <2>1, <2>3
    <3>2. Above(k + 1, k + 1)
      BY <1>1
    <3> QED BY <2>1, <3>1, <3>2
  <2>4. CASE k + 1 \in C /\ \E i \in C \cap 1..k : \A j \in C \cap 1..k : Above(i, j)
    <3>1. PICK i \in C \cap 1..k : \A j \in C \cap 1..k : Above(i, j)
      BY <2>4
    <3>2. size[i] \in Nat /\ size[k + 1] \in Nat /\ i \in C \cap 1..(k + 1) /\ i <= k
      BY <1>3, <1>4, <2>1
    <3>3. CASE size[k + 1] < size[i]
      <4>1. \A j \in C \cap 1..(k + 1) : Above(i, j)
        BY <2>1, <3>1, <3>3
      <4> QED BY <2>1, <3>2, <4>1
    <3>4. CASE ~(size[k + 1] < size[i])
      <4>1. \A j \in C \cap 1..(k + 1) : Above(k + 1, j)
        <5> TAKE j \in C \cap 1..(k + 1)
        <5>1. CASE j = k + 1
          BY <1>1, <5>1
        <5>2. CASE j \in 1..k
          <6>1. Above(i, j) /\ size[j] \in Nat /\ j <= k
            BY <1>3, <1>4, <3>1, <5>2
          <6> QED BY <1>1, <3>2, <3>4, <6>1
        <5> QED BY <2>1, <5>1, <5>2
      <4>2. k + 1 \in C \cap 1..(k + 1)
        BY <1>1, <2>4
      <4> QED BY <2>1, <4>1, <4>2
    <3> QED BY <3>3, <3>4
  <2> QED BY <2>2, <2>3, <2>4
<1>7. \E i \in C : \A j \in C : Above(i, j)
  <2>1. 0..n \subseteq S
    <3> HIDE DEF S
    <3> QED BY <1>5, <1>6, InductionUpTo
  <2>2. n \in S /\ C \cap 1..n = C
    <3>1. n \in 0..n
      BY <1>1
    <3>2. C \cap 1..n = C
      BY <1>3
    <3> HIDE DEF S
    <3> QED BY <2>1, <3>1, <3>2
  <2> QED BY <1>3, <2>2
<1>8. \E i \in C : \A j \in C :
        \/ Len(set.fs[j].resolved) < Len(set.fs[i].resolved)
        \/ Len(set.fs[j].resolved) = Len(set.fs[i].resolved) /\ j <= i
  <2>1. \A i \in C : size[i] = Len(set.fs[i].resolved)
    BY <1>3
  <2> HIDE DEF size
  <2> QED BY <1>7, <2>1
<1> DEFINE m == CHOOSE i \in C : \A j \in C :
                  \/ Len(set.fs[j].resolved) < Len(set.fs[i].resolved)
                  \/ Len(set.fs[j].resolved) = Len(set.fs[i].resolved) /\ j <= i
<1>9. m \in C
  BY <1>8
<1>10. ClosestCovering(set, path) = set.fs[m]
  BY <1>2 DEF ClosestCovering
<1> HIDE DEF m
<1> QED BY <1>1, <1>3, <1>9, <1>10

(* A capability more takes no right away. *)
LEMMA GrantedGrows ==
  ASSUME NEW set \in CapSets, NEW c, NEW x
  PROVE  /\ Granted(set, x) \subseteq Granted(AddFs(set, c), x)
         /\ Covers(c, x) => c.access \subseteq Granted(AddFs(set, c), x)
<1>1. PICK fs, n : fs = Append(set.fs, c) /\ n = Len(set.fs)
  OBVIOUS
<1>2. AddFs(set, c).fs = fs
  BY <1>1 DEF AddFs, CapSets
<1>3. /\ n \in Nat /\ DOMAIN set.fs = 1..n /\ DOMAIN fs = 1..(n + 1)
      /\ fs[n + 1] = c /\ \A i \in 1..n : fs[i] = set.fs[i]
  BY <1>1 DEF CapSets
<1>4. ToSet(set.fs) \subseteq ToSet(fs) /\ c \in ToSet(fs)
  BY <1>3 DEF ToSet
<1> QED BY <1>2, <1>4 DEF Granted

(* A covering capability grants its access. *)
LEMMA CoveringGrants ==
  ASSUME NEW set \in CapSets, NEW i \in 1..Len(set.fs), NEW x, Covers(set.fs[i], x)
  PROVE  set.fs[i].access \subseteq Granted(set, x)
<1>1. i \in DOMAIN set.fs
  BY DEF CapSets
<1> QED BY <1>1 DEF Granted, ToSet

(* Narrowed once or twice, what is missing makes up what was denied. *)
LEMMA NarrowIs ==
  ASSUME NEW g \in AccessModes, NEW m \in AccessModes
  PROVE  LET n == narrow_missing_access(g, m)
         IN  /\ n \in AccessModes /\ m \subseteq g \cup n
             /\ m \subseteq g \cup narrow_missing_access(g, n)
<1>1. g = {"r"} \/ g = {"w"} \/ g = {"r", "w"}
  BY DEF AccessModes, Read, Write, ReadWrite
<1>2. m = {"r"} \/ m = {"w"} \/ m = {"r", "w"}
  BY DEF AccessModes, Read, Write, ReadWrite
<1>3. CASE m # ReadWrite \/ g = ReadWrite
  BY <1>3 DEF narrow_missing_access
<1>4. CASE m = ReadWrite /\ g # ReadWrite
  <2>1. PICK n : n = ReadWrite \ g
    OBVIOUS
  <2>2. narrow_missing_access(g, m) = n
    BY <1>4, <2>1 DEF narrow_missing_access
  <2>3. n \in AccessModes /\ n # ReadWrite /\ m \subseteq g \cup n
    BY <1>1, <1>4, <2>1 DEF AccessModes, Read, Write, ReadWrite
  <2>4. narrow_missing_access(g, n) = n
    BY <2>3 DEF narrow_missing_access
  <2> QED BY <2>2, <2>3, <2>4
<1> QED BY <1>3, <1>4

(* The access a hint is reported with, or none when it was granted. *)
LEMMA ActionableIs ==
  ASSUME NEW set \in CapSets, NEW p, NEW m \in AccessModes
  PROVE  LET a == Actionable(set, p, m)
         IN  \/ a = None /\ m \subseteq Granted(set, Canonical(p))
             \/ Covering(set, p) = {} /\ a = m
             \/ \E i \in 1..Len(set.fs) :
                  /\ Covering(set, p) # {} /\ ClosestCovering(set, p) = set.fs[i]
                  /\ Covers(set.fs[i], Canonical(p))
                  /\ a = narrow_missing_access(set.fs[i].access, m)
<1>1. CASE Covering(set, p) = {}
  BY <1>1 DEF Actionable
<1>2. CASE Covering(set, p) # {}
  <2>1. PICK i \in 1..Len(set.fs) : /\ ClosestCovering(set, p) = set.fs[i]
                                    /\ Covers(set.fs[i], Canonical(p))
    BY <1>2, ClosestIs
  <2>2. set.fs[i].access \subseteq Granted(set, Canonical(p))
    BY <2>1, CoveringGrants
  <2>3. CASE m \subseteq set.fs[i].access
    <3>1. Actionable(set, p, m) = None
      BY <1>2, <2>1, <2>3 DEF Actionable
    <3> QED BY <2>2, <2>3, <3>1
  <2>4. CASE ~(m \subseteq set.fs[i].access)
    <3>1. Actionable(set, p, m) = narrow_missing_access(set.fs[i].access, m)
      BY <1>2, <2>1, <2>4 DEF Actionable
    <3> QED BY <1>2, <2>1, <3>1
  <2> QED BY <2>3, <2>4
<1> QED BY <1>1, <1>2

(* The diagnostic of an observed path. *)
Advised(set, p, a) ==
  [code |-> "likely_sandbox", path |-> p, access |-> a,
   remediation |-> remediation_for_observed_hint(set, p, a)]

(* It is all that the report says of that path, or the report is silent. *)
LEMMA AdviceIs ==
  ASSUME NEW set, NEW lines, NEW p \in DOMAIN analyze_error_output(lines).observed
                                       \ analyze_error_output(lines).missing
  PROVE  LET a == Actionable(set, p, analyze_error_output(lines).observed[p])
             report == build_session_report_from_exec(1, lines, set)
         IN  /\ a = None => {d \in report : d.code = "likely_sandbox" /\ d.path = p} = {}
             /\ a # None => Advised(set, p, a) \in {d \in report : d.code = "likely_sandbox" /\ d.path = p}
<1>1. PICK o : o = analyze_error_output(lines)
  OBVIOUS
<1>2. p \in DOMAIN o.observed \ o.missing
  BY <1>1
<1> DEFINE act(q) == Actionable(set, q, o.observed[q])
           hints == {q \in DOMAIN o.observed \ o.missing : act(q) # None}
           others == {[code |-> "missing_path", path |-> q] : q \in o.missing}
                      \cup {[code |-> "application", message |-> m] : m \in {o.failure} \ {None}}
                      \cup {[code |-> "network"] : n \in {TRUE} \cap {o.net /\ IsNetworkBlocked(set)}}
                      \cup {[code |-> "follow_up"] : n \in {TRUE} \cap {1 # 0}}
           report == build_session_report_from_exec(1, lines, set)
<1>3. report = others \cup {Advised(set, q, act(q)) : q \in hints}
  BY <1>1 DEF build_session_report_from_exec, append_stderr_observations, Advised
<1>4. \A d \in others : d.code # "likely_sandbox"
  OBVIOUS
<1> HIDE DEF others
<1>5. \A q, a : Advised(set, q, a).path = q /\ Advised(set, q, a).code = "likely_sandbox"
  BY DEF Advised
<1> HIDE DEF report, act
<1>6. act(p) = None => {d \in report : d.code = "likely_sandbox" /\ d.path = p} = {}
  BY <1>3, <1>4, <1>5
<1>7. act(p) # None => Advised(set, p, act(p)) \in {d \in report : d.code = "likely_sandbox" /\ d.path = p}
  BY <1>2, <1>3, <1>5
<1> QED BY <1>1, <1>6, <1>7 DEF report, act

(* Its remediation, once followed, grants what was denied. *)
LEMMA RemediedGrants ==
  ASSUME NEW set \in CapSets, NEW p \in Seq(Names), NEW m \in AccessModes, Exists(p),
         Cwd # None /\ IsPrefix(Cwd, p) => IsPrefix(Canonical(Cwd), Canonical(p)),
         Actionable(set, p, m) # None
  PROVE  m \subseteq Granted(Remedied(set, Advised(set, p, Actionable(set, p, m))), Canonical(p))
<1>1. PICK a, d, x : a = Actionable(set, p, m) /\ d = Advised(set, p, a) /\ x = Canonical(p)
  OBVIOUS
<1>2. \/ Covering(set, p) = {} /\ a = m
      \/ \E i \in 1..Len(set.fs) :
           /\ Covering(set, p) # {} /\ ClosestCovering(set, p) = set.fs[i]
           /\ Covers(set.fs[i], x)
           /\ a = narrow_missing_access(set.fs[i].access, m)
  BY <1>1, ActionableIs
<1>3. d.access = a /\ d.remediation = remediation_for_observed_hint(set, p, a)
  BY <1>1 DEF Advised
<1>4. ASSUME NEW i \in 1..Len(set.fs)
      PROVE  /\ set.fs[i] \in FsCaps /\ set.fs[i].access \in AccessModes /\ set.fs[i].resolved \in Real
             /\ set.fs[i].is_file \in BOOLEAN
             /\ set.fs[i].is_file <=> set.fs[i].resolved \in Files
  BY DEF CapSets, FsCaps
<1>5. CASE PointsToUngrantedCwd(set, p)
  <2>1. d.remediation.kind = "allow_cwd"
    BY <1>3, <1>5 DEF remediation_for_observed_hint
  <2>2. Cwd \in Real \ Files /\ Canonical(Cwd) = Cwd
    BY <1>5, DiagnosisAssumption, RealIsCanonical DEF PointsToUngrantedCwd
  <2>3. FsError(Cwd, FALSE) = None
    <3>1. (Cwd \in Files) = FALSE
      BY <2>2
    <3> QED BY <2>2, <3>1 DEF FsError, Exists
  <2>4. PICK c : c = FsCapability(Cwd, a, FALSE, "user")
    OBVIOUS
  <2>5. Remedied(set, d) = AddFs(set, c)
    BY <1>3, <2>1, <2>3, <2>4 DEF Remedied
  <2>6. Covers(c, x) /\ c.access = a
    <3>1. IsPrefix(Cwd, x)
      BY <1>1, <1>5, <2>2 DEF PointsToUngrantedCwd
    <3> QED BY <2>2, <2>4, <3>1 DEF FsCapability, Covers
  <2>7. Granted(set, x) \cup a \subseteq Granted(Remedied(set, d), x)
    BY <2>5, <2>6, GrantedGrows
  <2>8. CASE a = m
    BY <1>1, <2>7, <2>8
  <2>9. ASSUME NEW i \in 1..Len(set.fs), Covers(set.fs[i], x),
               a = narrow_missing_access(set.fs[i].access, m)
        PROVE  m \subseteq Granted(Remedied(set, d), x)
    <3>1. set.fs[i].access \subseteq Granted(set, x)
      BY <2>9, CoveringGrants
    <3>2. m \subseteq set.fs[i].access \cup a
      BY <1>4, <2>9, NarrowIs
    <3> QED BY <2>7, <3>1, <3>2
  <2> QED BY <1>1, <1>2, <2>8, <2>9
<1>6. ASSUME ~PointsToUngrantedCwd(set, p), NEW i \in 1..Len(set.fs),
             Covering(set, p) # {}, ClosestCovering(set, p) = set.fs[i],
             Covers(set.fs[i], x), a = narrow_missing_access(set.fs[i].access, m)
      PROVE  m \subseteq Granted(Remedied(set, d), x)
  <2>1. PICK cap, n : cap = set.fs[i] /\ n = narrow_missing_access(cap.access, a)
    OBVIOUS
  <2>2. d.remediation = GrantPath(cap.resolved, cap.is_file, n)
    BY <1>3, <1>6, <2>1 DEF remediation_for_observed_hint
  <2>3. Canonical(cap.resolved) = cap.resolved /\ cap.resolved \in Real
    BY <1>4, <2>1, RealIsCanonical
  <2>4. FsError(cap.resolved, cap.is_file) = None
    <3>1. (cap.resolved \in Files) = cap.is_file
      BY <1>4, <2>1
    <3> QED BY <2>3, <3>1 DEF FsError, Exists
  <2>5. PICK c : c = FsCapability(cap.resolved, n, cap.is_file, "user")
    OBVIOUS
  <2>6. /\ d.remediation.kind = "grant_path" /\ d.remediation.path = cap.resolved
        /\ d.remediation.access = n /\ d.remediation.is_file = cap.is_file
    BY <2>2 DEF GrantPath
  <2>7. Remedied(set, d) = AddFs(set, c)
    <3>1. cap.is_file \in BOOLEAN
      BY <1>4, <2>1
    <3>2. (~(d.remediation.kind = "allow_cwd") /\ d.remediation.is_file) = cap.is_file
      BY <2>6, <3>1
    <3> QED BY <2>4, <2>5, <2>6, <3>1, <3>2 DEF Remedied
  <2>8. Covers(c, x) /\ c.access = n
    BY <1>6, <2>1, <2>3, <2>5 DEF FsCapability, Covers
  <2>9. Granted(set, x) \cup n \subseteq Granted(Remedied(set, d), x)
    BY <2>7, <2>8, GrantedGrows
  <2>10. cap.access \subseteq Granted(set, x)
    BY <1>6, <2>1, CoveringGrants
  <2>11. m \subseteq cap.access \cup n
    BY <1>4, <1>6, <2>1, NarrowIs
  <2> QED BY <2>9, <2>10, <2>11
<1>7. CASE ~PointsToUngrantedCwd(set, p) /\ Covering(set, p) = {} /\ a = m
  <2>1. PICK f : f \in BOOLEAN /\ f = ~IsDir(p)
    OBVIOUS
  <2>2. d.remediation = GrantPath(p, f, m)
    BY <1>3, <1>7, <2>1 DEF remediation_for_observed_hint
  <2>3. FsError(p, f) = None
    <3>1. (Canonical(p) \in Files) = f
      BY <2>1 DEF IsDir
    <3> QED BY <3>1 DEF FsError
  <2>4. PICK c : c = FsCapability(p, m, f, "user")
    OBVIOUS
  <2>5. /\ d.remediation.kind = "grant_path" /\ d.remediation.path = p
        /\ d.remediation.access = m /\ d.remediation.is_file = f
    BY <2>2 DEF GrantPath
  <2>6. Remedied(set, d) = AddFs(set, c)
    <3>1. (~(d.remediation.kind = "allow_cwd") /\ d.remediation.is_file) = f
      BY <2>1, <2>5
    <3> QED BY <2>3, <2>4, <2>5, <3>1 DEF Remedied
  <2>7. Covers(c, x) /\ c.access = m
    <3>1. x \in Seq(Names) /\ IsPrefix(x, x)
      <4>1. x \in Seq(Names)
        BY <1>1, CanonicalType
      <4> QED BY <4>1 DEF IsPrefix
    <3> QED BY <1>1, <2>4, <3>1 DEF FsCapability, Covers
  <2> QED BY <1>1, <2>6, <2>7, GrantedGrows
<1> QED BY <1>1, <1>2, <1>5, <1>6, <1>7

(* Advice helps, for every set of capabilities and every stderr. *)
LEMMA AdviceHelps ==
  ASSUME NEW set \in CapSets, NEW lines \in Seq(Lines)
  PROVE  AdviceIsEnough(set, lines)
<1>1. PICK o : o = analyze_error_output(lines)
  OBVIOUS
<1>2. o.observed \in Observations
  BY <1>1, ReportIsTyped DEF Observed
<1> DEFINE report == build_session_report_from_exec(1, lines, set)
           advice(p) == {d \in report : d.code = "likely_sandbox" /\ d.path = p}
<1>3. ASSUME NEW p \in DOMAIN o.observed \ o.missing, Exists(p),
             Cwd # None /\ IsPrefix(Cwd, p) => IsPrefix(Canonical(Cwd), Canonical(p))
      PROVE  \/ advice(p) = {} /\ o.observed[p] \subseteq Granted(set, Canonical(p))
             \/ \E d \in advice(p) : o.observed[p] \subseteq Granted(Remedied(set, d), Canonical(p))
  <2>1. PICK m, a : m = o.observed[p] /\ a = Actionable(set, p, m)
    OBVIOUS
  <2>2. p \in Seq(Names) /\ m \in AccessModes
    BY <1>2, <2>1, ObservationsAre
  <2>3. /\ a = None => advice(p) = {}
        /\ a # None => Advised(set, p, a) \in advice(p)
    BY <1>1, <2>1, AdviceIs
  <2>4. CASE a = None
    <3>1. \A g \in AccessModes : narrow_missing_access(g, m) # None
      <4> TAKE g \in AccessModes
      <4>1. narrow_missing_access(g, m) \in AccessModes
        BY <2>2, NarrowIs
      <4> QED BY <4>1, CapabilitiesAssumption
    <3>2. \A i \in 1..Len(set.fs) : set.fs[i].access \in AccessModes
      BY DEF CapSets, FsCaps
    <3>3. m # None
      BY <2>2, CapabilitiesAssumption
    <3>4. m \subseteq Granted(set, Canonical(p))
      <4>1. \/ a = None /\ m \subseteq Granted(set, Canonical(p))
            \/ Covering(set, p) = {} /\ a = m
            \/ \E i \in 1..Len(set.fs) :
                 /\ Covering(set, p) # {} /\ ClosestCovering(set, p) = set.fs[i]
                 /\ Covers(set.fs[i], Canonical(p))
                 /\ a = narrow_missing_access(set.fs[i].access, m)
        BY <2>1, <2>2, ActionableIs
      <4> QED BY <2>4, <3>1, <3>2, <3>3, <4>1
    <3> QED BY <2>1, <2>3, <2>4, <3>4
  <2>5. CASE a # None
    <3>1. m \subseteq Granted(Remedied(set, Advised(set, p, a)), Canonical(p))
      BY <1>3, <2>1, <2>2, <2>5, RemediedGrants
    <3> HIDE DEF advice
    <3> QED BY <2>1, <2>3, <2>5, <3>1
  <2> QED BY <2>4, <2>5
<1> QED BY <1>1, <1>3 DEF AdviceIsEnough

-----------------------------------------------------------------------------
(* Proxy configurations. *)

(* Types of proxy configurations. *)
Networks == {Groups[n].network : n \in DOMAIN Groups} \ {None}
Hosts == UNION {ToSet(w.allow_domain) \cup ToSet(w.route_hosts) \cup w.upstream_bypass : w \in Networks}
Configs ==
  [allowed_hosts : Seq(Hosts), route_hosts : Seq(Hosts),
   upstream_proxy : {w.upstream_proxy : w \in Networks} \cup {None}, upstream_bypass : SUBSET Hosts,
   max_connections : Nat \cup {None}, error : {None, "ValueError"}]

(* The members of a longer sequence ... *)
LEMMA ToSetAppend ==
  ASSUME NEW T, NEW s \in Seq(T), NEW x \in T
  PROVE  ToSet(Append(s, x)) = ToSet(s) \cup {x}
<1>0. PICK n, t : n = Len(s) /\ t = Append(s, x)
  OBVIOUS
<1>1. n \in Nat /\ DOMAIN s = 1..n /\ t \in Seq(T) /\ Len(t) = n + 1 /\ DOMAIN t = 1..(n + 1)
  BY <1>0
<1>2. t[n + 1] = x /\ \A i \in 1..n : t[i] = s[i]
  BY <1>0, <1>1
<1>3. \A i \in 1..(n + 1) : i \in 1..n \/ i = n + 1
  BY <1>1
<1>4. ToSet(t) = {t[i] : i \in 1..(n + 1)} /\ ToSet(s) = {s[i] : i \in 1..n}
  BY <1>1 DEF ToSet
<1> QED BY <1>0, <1>1, <1>2, <1>3, <1>4

(* ... and of two put together. *)
LEMMA ToSetConcat ==
  ASSUME NEW T, NEW s \in Seq(T), NEW t \in Seq(T)
  PROVE  ToSet(s \o t) = ToSet(s) \cup ToSet(t)
<1>0. PICK n, m, u : n = Len(s) /\ m = Len(t) /\ u = s \o t
  OBVIOUS
<1>1. /\ n \in Nat /\ m \in Nat /\ u = s \o t /\ u \in Seq(T) /\ Len(u) = n + m
      /\ DOMAIN s = 1..n /\ DOMAIN t = 1..m /\ DOMAIN u = 1..(n + m)
  BY <1>0
<1>2. (\A i \in 1..n : u[i] = s[i]) /\ \A i \in 1..m : u[n + i] = t[i]
  BY <1>0, <1>1
<1>3. ASSUME NEW x \in ToSet(u) PROVE x \in ToSet(s) \cup ToSet(t)
  <2>1. PICK i \in 1..(n + m) : u[i] = x
    BY <1>1, <1>3 DEF ToSet
  <2>2. CASE i \in 1..n
    BY <1>1, <1>2, <2>1, <2>2 DEF ToSet
  <2>3. CASE i \notin 1..n
    <3>1. PICK j \in 1..m : i = n + j
      <4>1. i - n \in 1..m /\ i = n + (i - n)
        BY <1>1, <2>3
      <4> QED BY <4>1
    <3> QED BY <1>1, <1>2, <2>1, <3>1 DEF ToSet
  <2> QED BY <2>2, <2>3
<1>4. ASSUME NEW x \in ToSet(s) \cup ToSet(t) PROVE x \in ToSet(u)
  <2>1. CASE x \in ToSet(s)
    <3>1. PICK i \in 1..n : s[i] = x
      BY <1>1, <2>1 DEF ToSet
    <3>2. i \in 1..(n + m)
      BY <1>1
    <3> QED BY <1>1, <1>2, <3>1, <3>2 DEF ToSet
  <2>2. CASE x \in ToSet(t)
    <3>1. PICK i \in 1..m : t[i] = x
      BY <1>1, <2>2 DEF ToSet
    <3>2. n + i \in 1..(n + m)
      BY <1>1
    <3> QED BY <1>1, <1>2, <3>1, <3>2 DEF ToSet
  <2> QED BY <1>4, <2>1, <2>2
<1> QED BY <1>1, <1>3, <1>4

(* A host is added once. *)
LEMMA AppendNewIs ==
  ASSUME NEW s \in Seq(Hosts), NEW x \in Hosts
  PROVE  /\ AppendNew(s, x) \in Seq(Hosts) /\ ToSet(AppendNew(s, x)) = ToSet(s) \cup {x}
         /\ IsInjective(s) => IsInjective(AppendNew(s, x))
<1>1. CASE x \in ToSet(s)
  BY <1>1 DEF AppendNew
<1>2. CASE x \notin ToSet(s)
  <2>1. PICK t : t = Append(s, x)
    OBVIOUS
  <2>2. AppendNew(s, x) = t /\ t \in Seq(Hosts)
    BY <1>2, <2>1 DEF AppendNew
  <2>3. ToSet(t) = ToSet(s) \cup {x}
    BY <2>1, ToSetAppend
  <2>4. ASSUME IsInjective(s) PROVE IsInjective(t)
    <3>1. PICK n \in Nat : n = Len(s) /\ DOMAIN s = 1..n /\ DOMAIN t = 1..(n + 1)
      BY <2>1
    <3>2. t[n + 1] = x /\ \A i \in 1..n : t[i] = s[i] /\ s[i] # x
      BY <1>2, <2>1, <3>1 DEF ToSet
    <3>3. \A i \in 1..(n + 1) : i \in 1..n \/ i = n + 1
      OBVIOUS
    <3> QED BY <2>4, <3>1, <3>2, <3>3 DEF IsInjective
  <2> QED BY <2>2, <2>3, <2>4
<1> QED BY <1>1, <1>2

(* The fold over the hosts of a network. *)
AppendFold(a, hosts) == FoldLeft(AppendNew, a, hosts)
AppendIter(a, hosts) == CHOOSE iter : iter =
  [s \in SUBSET (DOMAIN hosts) |->
     IF s = {} THEN a ELSE LET m == Max(s) IN AppendNew(iter[s \ {m}], hosts[m])]

(* It unfolds ... *)
LEMMA AppendUnfolds ==
  \A a, hosts : AppendFold(a, hosts) = AppendIter(a, hosts)[DOMAIN hosts]
BY DEF AppendFold, AppendIter, FoldLeft, MapThenFoldSet

(* ... and goes on host by host. *)
LEMMA AppendSteps ==
  ASSUME NEW a \in Seq(Hosts), NEW hosts \in Seq(Hosts)
  PROVE  \E at : /\ at[0] = a /\ AppendFold(a, hosts) = at[Len(hosts)]
                 /\ \A k \in 1..Len(hosts) : at[k] = AppendNew(at[k - 1], hosts[k])
<1> DEFINE n == Len(hosts)
           step == [k \in 1..n |-> [x \in Seq(Hosts) |-> AppendNew(x, hosts[k])]]
           it == AppendIter(a, hosts)
<1>1. n \in Nat /\ DOMAIN hosts = 1..n
  OBVIOUS
<1>2. ASSUME NEW k \in 1..n, NEW x \in Seq(Hosts) PROVE AppendNew(x, hosts[k]) \in Seq(Hosts)
  <2>1. hosts[k] \in Hosts
    BY <1>1
  <2> QED BY <2>1, AppendNewIs
<1>3. step \in [1..n -> [Seq(Hosts) -> Seq(Hosts)]]
  BY <1>2
<1>4. PICK f : /\ Unfolds(f, n, a, step) /\ f \in [SUBSET (1..n) -> Seq(Hosts)]
               /\ \A s \in SUBSET (1..n) : s # {} => Max(s) \in 1..n
  <2> HIDE DEF n, step
  <2> QED BY <1>1, <1>3, FoldExists
<1>5. f = [s \in SUBSET (DOMAIN hosts) |->
             IF s = {} THEN a ELSE LET m == Max(s) IN AppendNew(f[s \ {m}], hosts[m])]
  <2>1. ASSUME NEW s \in SUBSET (1..n), s # {}
        PROVE  f[s] = AppendNew(f[s \ {Max(s)}], hosts[Max(s)])
    BY <1>4, <2>1 DEF Unfolds
  <2>2. f[{}] = a
    BY <1>4 DEF Unfolds
  <2> QED BY <1>1, <1>4, <2>1, <2>2
<1>6. it = [s \in SUBSET (DOMAIN hosts) |->
              IF s = {} THEN a ELSE LET m == Max(s) IN AppendNew(it[s \ {m}], hosts[m])]
  BY <1>5 DEF AppendIter
<1> HIDE DEF it
<1> DEFINE at == [k \in 0..n |-> it[1..k]]
<1>7. at[0] = a
  <2>1. 0 \in 0..n /\ 1..0 = {}
    BY <1>1
  <2>2. {} \in SUBSET (DOMAIN hosts)
    OBVIOUS
  <2>3. it[{}] = a
    BY <1>6, <2>2
  <2> QED BY <2>1, <2>3
<1>8. \A k \in 1..n : at[k] = AppendNew(at[k - 1], hosts[k])
  <2> TAKE k \in 1..n
  <2>1. 1..k \in SUBSET (DOMAIN hosts) /\ Max(1..k) = k /\ (1..k) \ {k} = 1..(k - 1) /\ 1..k # {}
    <3>1. DOMAIN hosts = 1..n /\ k \in Nat \ {0} /\ 1..k \subseteq 1..n
      BY <1>1
    <3>2. Max(1..k) = k /\ (1..k) \ {k} = 1..(k - 1) /\ 1..k # {}
      BY <3>1, MaxOfPrefix
    <3> QED BY <3>1, <3>2
  <2>2. it[1..k] = AppendNew(it[(1..k) \ {k}], hosts[k])
    BY <1>6, <2>1
  <2>3. k \in 0..n /\ k - 1 \in 0..n
    BY <1>1
  <2> QED BY <2>1, <2>2, <2>3
<1>9. AppendFold(a, hosts) = at[n]
  BY <1>1, AppendUnfolds DEF it
<1> HIDE DEF at
<1> QED BY <1>7, <1>8, <1>9

(* All hosts of a network, each once. *)
LEMMA AppendAll ==
  ASSUME NEW a \in Seq(Hosts), NEW hosts \in Seq(Hosts)
  PROVE  /\ AppendFold(a, hosts) \in Seq(Hosts)
         /\ ToSet(AppendFold(a, hosts)) = ToSet(a) \cup ToSet(hosts)
         /\ IsInjective(a) => IsInjective(AppendFold(a, hosts))
<1>1. PICK at : /\ at[0] = a /\ AppendFold(a, hosts) = at[Len(hosts)]
                /\ \A k \in 1..Len(hosts) : at[k] = AppendNew(at[k - 1], hosts[k])
  BY AppendSteps
<1>2. PICK n \in Nat : n = Len(hosts) /\ DOMAIN hosts = 1..n
  OBVIOUS
<1> DEFINE Good(k) == /\ at[k] \in Seq(Hosts)
                      /\ ToSet(at[k]) = ToSet(a) \cup {hosts[j] : j \in 1..k}
                      /\ IsInjective(a) => IsInjective(at[k])
           S == {k \in 0..n : Good(k)}
<1>3. 0 \in S
  <2>1. {hosts[j] : j \in 1..0} = {}
    OBVIOUS
  <2> QED BY <1>1, <2>1
<1>4. \A k \in 0..(n - 1) : k \in S => k + 1 \in S
  <2> TAKE k \in 0..(n - 1)
  <2> HAVE k \in S
  <2>1. k + 1 \in 1..n /\ (k + 1) - 1 = k /\ k + 1 \in 0..n /\ \A j \in 1..(k + 1) : j \in 1..k \/ j = k + 1
    OBVIOUS
  <2>2. PICK s, x : s = at[k] /\ x = hosts[k + 1]
    OBVIOUS
  <2>3. at[k + 1] = AppendNew(s, x) /\ x \in Hosts /\ s \in Seq(Hosts)
    BY <1>1, <1>2, <2>1, <2>2
  <2>4. /\ at[k + 1] \in Seq(Hosts) /\ ToSet(at[k + 1]) = ToSet(s) \cup {x}
        /\ IsInjective(s) => IsInjective(at[k + 1])
    BY <2>3, AppendNewIs
  <2>5. {hosts[j] : j \in 1..(k + 1)} = {hosts[j] : j \in 1..k} \cup {x}
    BY <2>1, <2>2
  <2>6. Good(k + 1)
    BY <2>2, <2>4, <2>5
  <2> HIDE DEF Good
  <2> QED BY <2>1, <2>6
<1>5. Good(n)
  <2>1. 0..n \subseteq S
    <3> HIDE DEF S
    <3> QED BY <1>3, <1>4, InductionUpTo
  <2> HIDE DEF Good
  <2> QED BY <2>1
<1>6. {hosts[j] : j \in 1..n} = ToSet(hosts)
  BY <1>2 DEF ToSet
<1> QED BY <1>1, <1>2, <1>5, <1>6

(* The network of a group. *)
LEMMA NetworkTypes ==
  ASSUME NEW w \in Networks
  PROVE  /\ w.allow_domain \in Seq(Hosts) /\ w.route_hosts \in Seq(Hosts)
         /\ w.max_connections \in Nat \cup {None} /\ w.upstream_bypass \subseteq Hosts
<1>1. /\ w.allow_domain \in Seq(ToSet(w.allow_domain)) /\ w.route_hosts \in Seq(ToSet(w.route_hosts))
      /\ w.max_connections \in Nat \cup {None}
  BY PolicyAssumption DEF Networks
<1>2. /\ ToSet(w.allow_domain) \subseteq Hosts
      /\ ToSet(w.route_hosts) \subseteq Hosts
      /\ w.upstream_bypass \subseteq Hosts
  BY DEF Hosts
<1> QED BY <1>1, <1>2

(* What a configuration says of a network that was merged into it. *)
Serves(c, w) ==
  /\ w.credentials = {}
  /\ ToSet(w.allow_domain) \subseteq ToSet(c.allowed_hosts)
  /\ ToSet(w.route_hosts) \subseteq ToSet(c.route_hosts)
  /\ w.upstream_proxy \in {None, c.upstream_proxy}
  /\ w.upstream_bypass \subseteq c.upstream_bypass
  /\ w.max_connections # None => c.max_connections # None /\ c.max_connections <= w.max_connections

(* One configuration goes on where another stopped. *)
GoesOn(c, d) ==
  /\ ToSet(c.allowed_hosts) \subseteq ToSet(d.allowed_hosts)
  /\ ToSet(c.route_hosts) \subseteq ToSet(d.route_hosts)
  /\ c.upstream_proxy \in {None, d.upstream_proxy}
  /\ c.upstream_bypass \subseteq d.upstream_bypass
  /\ c.max_connections # None => d.max_connections # None /\ d.max_connections <= c.max_connections
  /\ IsInjective(c.allowed_hosts) => IsInjective(d.allowed_hosts)

(* One network merged: an error, or a configuration that serves it, goes on with *)
(* what was there and holds no host of anybody else.                          *)
LEMMA MergeIs ==
  ASSUME NEW c \in Configs, NEW w \in Networks, c.error = None
  PROVE  LET d == MergeNetwork(c, w)
         IN  /\ d \in Configs
             /\ d.error = None =>
                  /\ GoesOn(c, d) /\ Serves(d, w)
                  /\ ToSet(d.allowed_hosts) \cup ToSet(d.route_hosts)
                       \subseteq (ToSet(c.allowed_hosts) \cup ToSet(c.route_hosts))
                                   \cup (ToSet(w.allow_domain) \cup ToSet(w.route_hosts))
<1>1. PICK d : d = MergeNetwork(c, w)
  OBVIOUS
<1>2. CASE \/ w.credentials # {}
           \/ /\ w.upstream_proxy # None /\ c.upstream_proxy # None
              /\ w.upstream_proxy # c.upstream_proxy
  <2>1. d = [c EXCEPT !.error = "ValueError"]
    BY <1>1, <1>2 DEF MergeNetwork
  <2>2. d \in Configs /\ d.error # None
    BY <2>1, CapabilitiesAssumption DEF Configs
  <2> QED BY <1>1, <2>2
<1>3. CASE /\ w.credentials = {}
           /\ w.upstream_proxy = None \/ c.upstream_proxy = None \/ w.upstream_proxy = c.upstream_proxy
  <2>1. PICK allowed, route, proxy, bypass, max :
          /\ allowed = AppendFold(c.allowed_hosts, w.allow_domain)
          /\ route = c.route_hosts \o w.route_hosts
          /\ proxy = (IF c.upstream_proxy = None THEN w.upstream_proxy ELSE c.upstream_proxy)
          /\ bypass = c.upstream_bypass \cup w.upstream_bypass
          /\ max = (IF w.max_connections = None THEN c.max_connections
                    ELSE IF c.max_connections = None THEN w.max_connections
                    ELSE Min({c.max_connections, w.max_connections}))
    OBVIOUS
  <2>2. d = [c EXCEPT !.allowed_hosts = allowed, !.route_hosts = route, !.upstream_proxy = proxy,
                      !.upstream_bypass = bypass, !.max_connections = max]
    BY <1>1, <1>3, <2>1 DEF MergeNetwork, AppendFold
  <2>3. /\ c.allowed_hosts \in Seq(Hosts) /\ c.route_hosts \in Seq(Hosts) /\ c.upstream_bypass \subseteq Hosts
        /\ c.max_connections \in Nat \cup {None}
        /\ c.upstream_proxy \in {n.upstream_proxy : n \in Networks} \cup {None}
    BY DEF Configs
  <2>4. /\ allowed \in Seq(Hosts) /\ ToSet(allowed) = ToSet(c.allowed_hosts) \cup ToSet(w.allow_domain)
        /\ IsInjective(c.allowed_hosts) => IsInjective(allowed)
    BY <2>1, <2>3, AppendAll, NetworkTypes
  <2>5. route \in Seq(Hosts) /\ ToSet(route) = ToSet(c.route_hosts) \cup ToSet(w.route_hosts)
    BY <2>1, <2>3, ToSetConcat, NetworkTypes
  <2>6. /\ proxy \in {n.upstream_proxy : n \in Networks} \cup {None}
        /\ w.upstream_proxy \in {None, proxy} /\ c.upstream_proxy \in {None, proxy}
    BY <1>3, <2>1, <2>3
  <2>7. bypass \subseteq Hosts
    BY <2>1, <2>3, NetworkTypes
  <2>8. /\ max \in Nat \cup {None}
        /\ w.max_connections # None => max # None /\ max <= w.max_connections
        /\ c.max_connections # None => max # None /\ max <= c.max_connections
    <3>1. w.max_connections \in Nat \cup {None}
      BY NetworkTypes
    <3>2. CASE w.max_connections = None \/ c.max_connections = None
      BY <2>1, <2>3, <3>1, <3>2
    <3>3. CASE w.max_connections # None /\ c.max_connections # None
      <4>1. PICK a \in Nat, b \in Nat : a = c.max_connections /\ b = w.max_connections
        BY <2>3, <3>1, <3>3
      <4>2. Min({a, b}) \in {a, b} /\ Min({a, b}) <= a /\ Min({a, b}) <= b
        <5>1. \E x \in {a, b} : \A y \in {a, b} : x <= y
          <6>1. CASE a <= b
            BY <6>1
          <6>2. CASE b <= a
            BY <6>2
          <6> QED BY <6>1, <6>2
        <5> QED BY <5>1 DEF Min
      <4> QED BY <2>1, <3>3, <4>1, <4>2
    <3> QED BY <3>2, <3>3
  <2>9. /\ d \in Configs /\ d.allowed_hosts = allowed /\ d.route_hosts = route /\ d.upstream_proxy = proxy
        /\ d.upstream_bypass = bypass /\ d.max_connections = max
    BY <2>2, <2>4, <2>5, <2>6, <2>7, <2>8 DEF Configs
  <2>10. GoesOn(c, d)
    BY <2>1, <2>4, <2>5, <2>6, <2>8, <2>9 DEF GoesOn
  <2>11. Serves(d, w)
    BY <1>3, <2>1, <2>4, <2>5, <2>6, <2>8, <2>9 DEF Serves
  <2> QED BY <1>1, <2>4, <2>5, <2>9, <2>10, <2>11
<1> QED BY <1>2, <1>3

(* One turn of the loop of resolve_proxy_config_impl. *)
LEMMA MergeGroupType ==
  ASSUME NEW c \in Configs, NEW name
  PROVE  MergeGroup(c, name) \in Configs
<1>1. CASE c.error # None
  BY <1>1 DEF MergeGroup
<1>2. CASE c.error = None /\ name \notin DOMAIN Groups
  BY <1>2 DEF MergeGroup, Configs
<1>3. CASE c.error = None /\ name \in DOMAIN Groups
           /\ (~group_matches_platform(Groups[name]) \/ Groups[name].network = None)
  BY <1>3 DEF MergeGroup
<1>4. CASE c.error = None /\ name \in DOMAIN Groups
           /\ ~(~group_matches_platform(Groups[name]) \/ Groups[name].network = None)
  <2>1. MergeGroup(c, name) = MergeNetwork(c, Groups[name].network)
    BY <1>4 DEF MergeGroup
  <2>2. Groups[name].network \in Networks
    BY <1>4 DEF Networks
  <2> QED BY <1>4, <2>1, <2>2, MergeIs
<1> QED BY <1>1, <1>2, <1>3, <1>4

(* The fold over the names. *)
MergeFold(a, names) == FoldLeft(MergeGroup, a, names)
MergeIter(a, names) == CHOOSE iter : iter =
  [s \in SUBSET (DOMAIN names) |->
     IF s = {} THEN a ELSE LET m == Max(s) IN MergeGroup(iter[s \ {m}], names[m])]

(* It unfolds ... *)
LEMMA MergeUnfolds ==
  \A a, names : MergeFold(a, names) = MergeIter(a, names)[DOMAIN names]
BY DEF MergeFold, MergeIter, FoldLeft, MapThenFoldSet

(* ... and goes on name by name. *)
LEMMA MergeSteps ==
  ASSUME NEW a \in Configs, NEW T, NEW names \in Seq(T)
  PROVE  \E at : /\ at[0] = a /\ MergeFold(a, names) = at[Len(names)]
                 /\ \A k \in 1..Len(names) : at[k] = MergeGroup(at[k - 1], names[k])
<1> DEFINE n == Len(names)
           step == [k \in 1..n |-> [x \in Configs |-> MergeGroup(x, names[k])]]
           it == MergeIter(a, names)
<1>1. n \in Nat /\ DOMAIN names = 1..n
  OBVIOUS
<1>2. ASSUME NEW k \in 1..n, NEW x \in Configs PROVE MergeGroup(x, names[k]) \in Configs
  <2>1. names[k] \in T
    BY <1>1
  <2> QED BY <2>1, MergeGroupType
<1>3. step \in [1..n -> [Configs -> Configs]]
  BY <1>2
<1>4. PICK f : /\ Unfolds(f, n, a, step) /\ f \in [SUBSET (1..n) -> Configs]
               /\ \A s \in SUBSET (1..n) : s # {} => Max(s) \in 1..n
  <2> HIDE DEF n, step
  <2> QED BY <1>1, <1>3, FoldExists
<1>5. f = [s \in SUBSET (DOMAIN names) |->
             IF s = {} THEN a ELSE LET m == Max(s) IN MergeGroup(f[s \ {m}], names[m])]
  <2>1. ASSUME NEW s \in SUBSET (1..n), s # {}
        PROVE  f[s] = MergeGroup(f[s \ {Max(s)}], names[Max(s)])
    BY <1>4, <2>1 DEF Unfolds
  <2>2. f[{}] = a
    BY <1>4 DEF Unfolds
  <2> QED BY <1>1, <1>4, <2>1, <2>2
<1>6. it = [s \in SUBSET (DOMAIN names) |->
              IF s = {} THEN a ELSE LET m == Max(s) IN MergeGroup(it[s \ {m}], names[m])]
  BY <1>5 DEF MergeIter
<1> HIDE DEF it
<1> DEFINE at == [k \in 0..n |-> it[1..k]]
<1>7. at[0] = a
  BY <1>6
<1>8. \A k \in 1..n : at[k] = MergeGroup(at[k - 1], names[k])
  <2> TAKE k \in 1..n
  <2>1. 1..k \in SUBSET (DOMAIN names) /\ Max(1..k) = k /\ (1..k) \ {k} = 1..(k - 1) /\ 1..k # {}
    BY <1>1, MaxOfPrefix
  <2>2. it[1..k] = MergeGroup(it[(1..k) \ {k}], names[k])
    BY <1>6, <2>1
  <2>3. k \in 0..n /\ k - 1 \in 0..n
    BY <1>1
  <2> QED BY <2>1, <2>2, <2>3
<1>9. MergeFold(a, names) = at[n]
  BY <1>1, MergeUnfolds DEF it
<1> HIDE DEF at
<1> QED BY <1>7, <1>8, <1>9

(* The networks of the groups that apply among the first k names. *)
Asked(names, k) ==
  {Groups[n].network : n \in {names[j] : j \in {i \in 1..k : Applies(names[i])}}} \ {None}

(* What holds of the configuration after k names. *)
Merged(names, k, c) ==
  /\ c \in Configs
  /\ c.error = None =>
       /\ IsInjective(c.allowed_hosts)
       /\ \A w \in Asked(names, k) : Serves(c, w)
       /\ ToSet(c.allowed_hosts) \cup ToSet(c.route_hosts)
            \subseteq UNION {ToSet(w.allow_domain) \cup ToSet(w.route_hosts) : w \in Asked(names, k)}

(* A network that was served stays served. *)
LEMMA ServesOn ==
  ASSUME NEW c \in Configs, NEW d \in Configs, NEW w \in Networks, Serves(c, w), GoesOn(c, d)
  PROVE  Serves(d, w)
<1>1. c.max_connections \in Nat \cup {None} /\ d.max_connections \in Nat \cup {None}
  BY DEF Configs
<1>2. w.max_connections \in Nat \cup {None}
  BY NetworkTypes
<1> QED BY <1>1, <1>2 DEF Serves, GoesOn

(* One more name. *)
LEMMA MergeStep ==
  ASSUME NEW names, NEW k \in Nat, NEW c, Merged(names, k, c)
  PROVE  Merged(names, k + 1, MergeGroup(c, names[k + 1]))
<1>0. PICK d, name : name = names[k + 1] /\ d = MergeGroup(c, name)
  OBVIOUS
<1>1. c \in Configs /\ d \in Configs
  BY <1>0, MergeGroupType DEF Merged
<1>2. \A i \in 1..(k + 1) : i \in 1..k \/ i = k + 1
  OBVIOUS
<1>3. k + 1 \in 1..(k + 1) /\ 1..k \subseteq 1..(k + 1)
  OBVIOUS
<1>4. CASE d.error # None
  BY <1>0, <1>1, <1>4 DEF Merged
<1>5. CASE d.error = None
  <2>1. c.error = None /\ name \in DOMAIN Groups
    <3>1. [c EXCEPT !.error = "ValueError"].error = "ValueError"
      BY <1>1 DEF Configs
    <3> QED BY <1>0, <1>5, <3>1, CapabilitiesAssumption DEF MergeGroup
  <2>2. CASE ~group_matches_platform(Groups[name]) \/ Groups[name].network = None
    <3>1. d = c
      BY <1>0, <2>1, <2>2 DEF MergeGroup
    <3>2. Asked(names, k + 1) = Asked(names, k)
      BY <1>0, <1>2, <1>3, <2>2 DEF Asked, Applies
    <3> QED BY <1>0, <3>1, <3>2 DEF Merged
  <2>3. CASE group_matches_platform(Groups[name]) /\ Groups[name].network # None
    <3>1. PICK w : w = Groups[name].network
      OBVIOUS
    <3>2. w \in Networks /\ d = MergeNetwork(c, w)
      BY <1>0, <2>1, <2>3, <3>1 DEF MergeGroup, Networks
    <3>3. Asked(names, k + 1) = Asked(names, k) \cup {w}
      BY <1>0, <1>2, <1>3, <2>1, <2>3, <3>1 DEF Asked, Applies
    <3>4. Asked(names, k) \subseteq Networks
      BY DEF Asked, Networks, Applies
    <3>5. /\ GoesOn(c, d) /\ Serves(d, w)
          /\ ToSet(d.allowed_hosts) \cup ToSet(d.route_hosts)
               \subseteq (ToSet(c.allowed_hosts) \cup ToSet(c.route_hosts))
                           \cup (ToSet(w.allow_domain) \cup ToSet(w.route_hosts))
      BY <1>1, <1>5, <2>1, <3>2, MergeIs
    <3>6. \A v \in Asked(names, k + 1) : Serves(d, v)
      BY <1>1, <2>1, <3>3, <3>4, <3>5, ServesOn DEF Merged
    <3>7. IsInjective(d.allowed_hosts)
      BY <2>1, <3>5 DEF Merged, GoesOn
    <3>8. ToSet(d.allowed_hosts) \cup ToSet(d.route_hosts)
            \subseteq UNION {ToSet(v.allow_domain) \cup ToSet(v.route_hosts) : v \in Asked(names, k + 1)}
      BY <2>1, <3>3, <3>5 DEF Merged
    <3> QED BY <1>0, <1>1, <3>6, <3>7, <3>8 DEF Merged
  <2> QED BY <2>2, <2>3
<1> QED BY <1>4, <1>5

(* A sequence without members. *)
LEMMA EmptyToSet ==
  ASSUME NEW T, NEW s \in Seq(T), ToSet(s) = {}
  PROVE  s = <<>>
<1>1. DOMAIN s = 1..Len(s) /\ Len(s) \in Nat
  OBVIOUS
<1>2. ~(1 \in 1..Len(s))
  BY <1>1 DEF ToSet
<1>3. Len(s) = 0
  BY <1>1, <1>2
<1> QED BY <1>3

(* All names. *)
LEMMA MergedAll ==
  ASSUME NEW T, NEW names \in Seq(T)
  PROVE  Merged(names, Len(names), MergeFold(NoConfig, names))
<1>0. NoConfig \in Configs /\ NoConfig.allowed_hosts = <<>> /\ NoConfig.route_hosts = <<>>
  BY DEF NoConfig, Configs
<1>1. PICK at : /\ at[0] = NoConfig /\ MergeFold(NoConfig, names) = at[Len(names)]
                /\ \A k \in 1..Len(names) : at[k] = MergeGroup(at[k - 1], names[k])
  BY <1>0, MergeSteps
<1>2. PICK n \in Nat : n = Len(names)
  OBVIOUS
<1> DEFINE S == {k \in 0..n : Merged(names, k, at[k])}
<1>3. 0 \in S
  <2>1. ToSet(<<>>) = {} /\ IsInjective(<<>>)
    BY DEF ToSet, IsInjective
  <2>2. Asked(names, 0) = {}
    BY DEF Asked
  <2> QED BY <1>0, <1>1, <2>1, <2>2 DEF Merged
<1>4. \A k \in 0..(n - 1) : k \in S => k + 1 \in S
  <2> TAKE k \in 0..(n - 1)
  <2> HAVE k \in S
  <2>1. k \in Nat /\ k + 1 \in 1..Len(names) /\ (k + 1) - 1 = k /\ k + 1 \in 0..n
    BY <1>2
  <2>2. at[k + 1] = MergeGroup(at[k], names[k + 1])
    BY <1>1, <2>1
  <2>3. Merged(names, k + 1, at[k + 1])
    BY <2>1, <2>2, MergeStep
  <2> QED BY <2>1, <2>3
<1>5. n \in S
  <2>1. 0..n \subseteq S
    <3> HIDE DEF S
    <3> QED BY <1>3, <1>4, InductionUpTo
  <2>2. n \in 0..n
    OBVIOUS
  <2> HIDE DEF S
  <2> QED BY <2>1, <2>2
<1> QED BY <1>1, <1>2, <1>5

(* The configuration of any list of names. *)
LEMMA ConfigIsNoWider ==
  ASSUME NEW T, named \in Seq(T)
  PROVE  ProxyConfigIsNoWider
<1>1. PICK config, n : config = MergeFold(NoConfig, named) /\ n = Len(named)
  OBVIOUS
<1>2. Merged(named, n, config)
  BY <1>1, MergedAll
<1>3. PICK configs : configs = resolve_proxy_config_impl(named)
  OBVIOUS
<1>4. configs = IF config.error = None /\ NothingToProxy(config) THEN {}
                ELSE IF config.upstream_proxy = None THEN {[config EXCEPT !.upstream_bypass = {}]}
                ELSE {config}
  BY <1>1, <1>3 DEF resolve_proxy_config_impl, MergeFold
<1> DEFINE networks == {Groups[m].network : m \in {m \in ToSet(named) \cap DOMAIN Groups :
                            Groups[m].platform \in {None, "linux"}}} \ {None}
<1>5. networks = Asked(named, n)
  <2>1. DOMAIN named = 1..n
    BY <1>1
  <2>2. {m \in ToSet(named) \cap DOMAIN Groups : Groups[m].platform \in {None, "linux"}}
          = {named[j] : j \in {i \in 1..n : Applies(named[i])}}
    BY <2>1 DEF ToSet, Applies, group_matches_platform
  <2> QED BY <2>2 DEF Asked
<1>6. Asked(named, n) \subseteq Networks
  BY DEF Asked, Networks, Applies
<1>7. config \in Configs
  BY <1>2 DEF Merged
<1> HIDE DEF networks
<1>8. ASSUME NEW w \in networks, network_requires_proxy(w) PROVE configs # {}
  <2>1. CASE config.error # None
    BY <1>4, <2>1
  <2>2. CASE config.error = None
    <3>1. Serves(config, w)
      BY <1>2, <1>5, <2>2 DEF Merged
    <3>2. ~NothingToProxy(config)
      <4> SUFFICES ASSUME NothingToProxy(config) PROVE FALSE
        OBVIOUS
      <4>1. /\ config.allowed_hosts = <<>> /\ config.route_hosts = <<>>
            /\ config.upstream_proxy = None /\ config.upstream_bypass = {}
            /\ config.max_connections = None
        BY DEF NothingToProxy
      <4>2. ToSet(<<>>) = {}
        BY DEF ToSet
      <4>3. ToSet(w.allow_domain) = {} /\ ToSet(w.route_hosts) = {}
        BY <3>1, <4>1, <4>2 DEF Serves
      <4>4. w.allow_domain = <<>> /\ w.route_hosts = <<>>
        BY <1>5, <1>6, <4>3, NetworkTypes, EmptyToSet
      <4>5. w.upstream_bypass = {}
        BY <3>1, <4>1 DEF Serves
      <4>6. w.credentials = {} /\ w.upstream_proxy = None /\ w.max_connections = None
        BY <3>1, <4>1 DEF Serves
      <4> QED BY <1>8, <4>4, <4>5, <4>6 DEF network_requires_proxy
    <3> QED BY <1>4, <3>2
  <2> QED BY <2>1, <2>2
<1>9. ASSUME NEW c \in configs, c.error = None
      PROVE  /\ FilterOf(c) # {}
             /\ FilterOf(c) \subseteq {DenyAllHost} \cup
                  UNION {ToSet(w.allow_domain) \cup ToSet(w.route_hosts) : w \in networks}
             /\ IsInjective(c.allowed_hosts)
             /\ \A w \in networks : w.upstream_proxy \in {None, c.upstream_proxy}
             /\ \A w \in networks : w.max_connections # None => c.max_connections <= w.max_connections
  <2>1. /\ c.allowed_hosts = config.allowed_hosts /\ c.route_hosts = config.route_hosts
        /\ c.upstream_proxy = config.upstream_proxy /\ c.max_connections = config.max_connections
        /\ c.error = config.error
    BY <1>4, <1>7 DEF Configs
  <2>2. /\ IsInjective(config.allowed_hosts)
        /\ \A w \in networks : Serves(config, w)
        /\ ToSet(config.allowed_hosts) \cup ToSet(config.route_hosts)
             \subseteq UNION {ToSet(w.allow_domain) \cup ToSet(w.route_hosts) : w \in networks}
    BY <1>2, <1>5, <1>9, <2>1 DEF Merged
  <2>3. PICK filter : filter = ToSet(c.allowed_hosts) \cup (ToSet(c.route_hosts) \ {None})
    OBVIOUS
  <2>4. FilterOf(c) = IF filter = {} THEN {DenyAllHost} ELSE filter
    BY <2>3 DEF FilterOf, effective_filter_hosts
  <2>5. FilterOf(c) # {}
    BY <2>4
  <2>6. FilterOf(c) \subseteq {DenyAllHost} \cup
                  UNION {ToSet(w.allow_domain) \cup ToSet(w.route_hosts) : w \in networks}
    BY <2>1, <2>2, <2>3, <2>4
  <2>7. /\ \A w \in networks : w.upstream_proxy \in {None, c.upstream_proxy}
        /\ \A w \in networks : w.max_connections # None => c.max_connections <= w.max_connections
    BY <2>1, <2>2 DEF Serves
  <2> QED BY <2>1, <2>2, <2>5, <2>6, <2>7
<1> QED BY <1>3, <1>8, <1>9 DEF ProxyConfigIsNoWider, networks

-----------------------------------------------------------------------------
(* The properties of the runs. *)

(* The type invariant of the setup: the constructors of src/src/lib.rs make   *)
(* canonical paths that exist and files for files, however the set came about, *)
(* and every stderr can be reported on.                                       *)
THEOREM SetupTypes == Spec => []SetupTypeOK
<1>1. SetupInv => SetupTypeOK
  <2> SUFFICES ASSUME SetupInv PROVE SetupTypeOK
    OBVIOUS
  <2>1. /\ caps \in CapSets /\ raised \in {None, "FileNotFoundError", "OSError", "ValueError", "RuntimeError"}
        /\ calls \in 0..MaxCalls /\ stderr \in Seq(Lines)
    BY DEF SetupInv, SetInv, AskedInv
  <2>2. ASSUME NEW c \in ToSet(caps.fs)
        PROVE  /\ c.resolved \in Real /\ c.access \in AccessModes /\ c.is_file = (c.resolved \in Files)
               /\ c.source \in {"user"} \cup DOMAIN Groups
    <3>1. caps.fs \in Seq(FsCaps)
      BY <2>1 DEF CapSets
    <3>2. c \in FsCaps
      BY <2>2, <3>1 DEF ToSet
    <3> QED BY <3>2 DEF FsCaps
  <2>3. /\ caps.network \in {"allow_all", "blocked", "proxy_only"}
        /\ UNION {caps.localhost, caps.connect, caps.bind} \subseteq Ports
    BY <2>1 DEF CapSets
  <2>4. PICK f : f = analyze_error_output(stderr).observed
    OBVIOUS
  <2>5. f \in Observations
    BY <2>1, <2>4, ReportIsTyped DEF Observed
  <2>6. \A p \in DOMAIN f : f[p] \in AccessModes
    BY <2>5, ObservationsAre
  <2> QED BY <2>1, <2>2, <2>3, <2>4, <2>6 DEF SetupTypeOK
<1> QED BY <1>1, SetupInvariant, PTL

(* resolve_proxy_config_impl: whatever groups are named, in whatever order, the *)
(* proxy configuration is no wider than each group, and never missing where a *)
(* group needs it.                                                            *)
THEOREM SetupProxyConfig == Spec => []ProxyConfigIsNoWider
<1>1. SetupInv => ProxyConfigIsNoWider
  BY ConfigIsNoWider DEF SetupInv, AskedInv
<1> QED BY <1>1, SetupInvariant, PTL

(* The remediations of src/src/diagnostic.rs are enough, and silence means the *)
(* access was granted.                                                        *)
THEOREM SetupRemediation == Spec => []RemediationIsEnough
<1>1. SetupInv => RemediationIsEnough
  <2> SUFFICES ASSUME SetupInv, NEW lines \in {stderr} \cup {<<l>> : l \in Lines}
               PROVE  AdviceIsEnough(caps, lines)
    BY DEF RemediationIsEnough
  <2>1. lines \in Seq(Lines) /\ caps \in CapSets
    <3>1. stderr \in Seq(Lines) /\ caps \in CapSets
      BY DEF SetupInv, SetInv, AskedInv
    <3>2. \A l \in Lines : <<l>> \in Seq(Lines)
      OBVIOUS
    <3> QED BY <3>1, <3>2
  <2> QED BY <2>1, AdviceHelps
<1> QED BY <1>1, SetupInvariant, PTL

(* Every hint of src/src/stderr_observation.rs is justified: a line that names *)
(* both the path and the access, or the path of a denial and the access of the *)
(* last syscall named in the unbroken series of error codes before it, which  *)
(* may belong to an earlier error of that series (lines 91-94). There are     *)
(* never more than MAX_PATH_HINTS of them.                                    *)
THEOREM SetupHints == Spec => []HintsAreJustified
<1>1. SetupInv => HintsAreJustified
  BY ReportIsJustified DEF SetupInv, AskedInv, HintsAreJustified
<1> QED BY <1>1, SetupInvariant, PTL
=============================================================================
