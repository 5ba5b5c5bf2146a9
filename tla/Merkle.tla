------------------------------- MODULE Merkle -------------------------------
(***************************************************************************)
(* The inclusion proofs of verifier/sigstore/merkle, and the tree of       *)
(* RFC 6962 they are about.  Hashes are symbolic: a hash is the sequence   *)
(* that was hashed, under the prefix that tells leaves from nodes.         *)
(***************************************************************************)
EXTENDS Integers, FiniteSets, SequencesExt

hash_leaf(data) == <<"leaf", data>>
hash_children(left, right) == <<"node", left, right>>

-----------------------------------------------------------------------------
(* proof_verification.rs *)

Bit(n, i) == (n \div 2^i) % 2

count_ones(n) == Cardinality({i \in 0..n : Bit(n, i) = 1})

\* The levels below the one at which the paths to the leaf and to the last leaf
\* meet: 64 bits less the leading zeros of index xor (size - 1).
inner_proof_size(index, size) ==
  CHOOSE n \in 0..size : /\ index \div 2^n = (size - 1) \div 2^n
                         /\ n > 0 => index \div 2^(n - 1) # (size - 1) \div 2^(n - 1)

\* Inside the part of the tree both paths share, a neighbour may be on either side.
chain_inner(seed, hashes, index) ==
  FoldLeftDomain(LAMBDA below, i : IF Bit(index, i - 1) = 0
                                   THEN hash_children(below, hashes[i])
                                   ELSE hash_children(hashes[i], below),
                 seed, hashes)

\* A mistake: the border's hashes are put on the right.
chain_border_right_swapped(seed, hashes) ==
  FoldLeft(LAMBDA below, hash : hash_children(below, hash), seed, hashes)

\* Above, along the right border, a neighbour is always on the left.
chain_border_right(seed, hashes) ==
  FoldLeft(LAMBDA below, hash : hash_children(hash, below), seed, hashes)

\* The proof fits and leads from the leaf to the root.
verify_inclusion(index, leaf, size, hashes, root) ==
  /\ index < size
  /\ LET inner  == inner_proof_size(index, size)
         border == count_ones(index \div 2^inner)
     IN  /\ Len(hashes) = inner + border
         /\ root = chain_border_right(
                     chain_inner(leaf, SubSeq(hashes, 1, inner), index),
                     SubSeq(hashes, inner + 1, Len(hashes)))

-----------------------------------------------------------------------------
(* RFC 6962, section 2.1: what the log does. *)

\* The left subtree of n leaves is the largest full one that is not all of them.
LeftSize(n) == CHOOSE k \in {2^i : i \in 0..n} : k < n /\ n <= 2 * k

\* The hash of the n leaves after the first lo.
TreeHash(leaves) ==
  LET hash[lo \in Nat, n \in Nat] ==
        IF n = 1 THEN hash_leaf(leaves[lo + 1])
        ELSE hash_children(hash[lo, LeftSize(n)], hash[lo + LeftSize(n), n - LeftSize(n)])
  IN  hash

Root(leaves) == TreeHash(leaves)[0, Len(leaves)]

\* The audit path of the leaf with the given index.
Path(leaves, index) ==
  LET path[m \in Nat, lo \in Nat, n \in Nat] ==
        IF n = 1 THEN <<>>
        ELSE IF m < LeftSize(n)
             THEN Append(path[m, lo, LeftSize(n)],
                         TreeHash(leaves)[lo + LeftSize(n), n - LeftSize(n)])
             ELSE Append(path[m - LeftSize(n), lo + LeftSize(n), n - LeftSize(n)],
                         TreeHash(leaves)[lo, LeftSize(n)])
  IN  path[index, 0, Len(leaves)]
=============================================================================
