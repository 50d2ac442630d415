-------------------------------- MODULE Merkle --------------------------------
(***************************************************************************)
(* The Merkle tree over the leaves of an audit log, and the inclusion      *)
(* proofs of one leaf (audit.py).  A hash is the term that was hashed:     *)
(* a leaf <<event>>, a node <<left, right>>; the domain prefixes keep the  *)
(* two apart, so equal hashes are equal terms.                             *)
(***************************************************************************)
EXTENDS Integers, Sequences

Leaf(event) == <<event>>
Node(left, right) == <<left, right>>

(* One level up: pairs are hashed, an odd remainder is promoted unchanged. *)
Parents(level) ==
  [k \in 1..((Len(level) + 1) \div 2) |->
     IF 2 * k <= Len(level) THEN Node(level[2 * k - 1], level[2 * k]) ELSE level[2 * k - 1]]

(* Levels(leaves)[k]: the tree k levels above its leaves; the root stays. *)
Levels(leaves) ==
  LET at[k \in 0..Len(leaves)] ==
        IF k = 0 THEN leaves ELSE LET below == at[k - 1] IN Parents(below)
  IN  at

merkle_root(leaves) ==
  IF leaves = <<>> THEN <<>> ELSE Levels(leaves)[Len(leaves)][1]

(* The index of a leaf's ancestor, and the width of the level, k levels up. *)
Ancestors(index, height) ==
  LET at[k \in 0..height] == IF k = 0 THEN index ELSE at[k - 1] \div 2 IN at
Widths(count) ==
  LET at[k \in 0..count] == IF k = 0 THEN count ELSE (at[k - 1] + 1) \div 2 IN at

-----------------------------------------------------------------------------
(* build_inclusion_proof: the siblings on the way up, indices from 0. *)
SiblingOn(level, index) ==
  LET sibling == IF index % 2 = 0 THEN index + 1 ELSE index - 1
  IN  IF sibling >= Len(level) THEN <<>>
      ELSE <<[direction |-> IF sibling < index THEN "left" ELSE "right",
              hash |-> level[sibling + 1]]>>

build_inclusion_proof(leaves, index) ==
  LET levels == Levels(leaves)
      indices == Ancestors(index, Len(leaves))
      below[k \in 0..Len(leaves)] ==
        IF k = 0 THEN <<>> ELSE below[k - 1] \o SiblingOn(levels[k - 1], indices[k - 1])
  IN  [leaf_index |-> index, leaf_count |-> Len(leaves), leaf_hash |-> leaves[index + 1],
       merkle_root |-> merkle_root(leaves), siblings |-> below[Len(leaves)]]

(* verify_inclusion_proof: index and count alone say on which side a sibling *)
(* must be on each level, and where there is none.                           *)
expected_direction_WithoutWidth(index, width) == IF index % 2 = 0 THEN "right" ELSE "left"
expected_direction(index, width) ==
  IF index % 2 = 1 THEN "left" ELSE IF index + 1 < width THEN "right" ELSE "none"

(* Hashing one level up with the next sibling of the proof, if it is there. *)
Consume(walk, node, direction) ==
  IF node.direction # direction THEN [walk EXCEPT !.ok = FALSE]
  ELSE [walk EXCEPT !.used = @ + 1,
                    !.computed = IF direction = "left" THEN Node(node.hash, @)
                                 ELSE Node(@, node.hash)]

verify_inclusion_proof(proof, expected_root) ==
  LET widths == Widths(proof.leaf_count)
      indices == Ancestors(proof.leaf_index, proof.leaf_count)
      start == [ok |-> TRUE, used |-> 0, computed |-> proof.leaf_hash]
      climb[k \in 0..proof.leaf_count] ==
        IF k = 0 THEN start
        ELSE LET walk == climb[k - 1]
                 width == widths[k - 1]
                 expected == IF width = 1 THEN "none"
                             ELSE expected_direction(indices[k - 1], width)
             IN  IF expected = "none" \/ ~walk.ok THEN walk
                 ELSE IF walk.used = Len(proof.siblings) THEN [walk EXCEPT !.ok = FALSE]
                 ELSE Consume(walk, proof.siblings[walk.used + 1], expected)
      top == climb[proof.leaf_count]
  IN  /\ proof.leaf_index \in 0..(proof.leaf_count - 1)
      /\ top.ok /\ top.used = Len(proof.siblings)
      /\ top.computed = expected_root /\ top.computed = proof.merkle_root
=============================================================================
