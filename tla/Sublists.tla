------------------------------ MODULE Sublists ------------------------------
(***************************************************************************)
(* What `retain` of a vector or queue and `filter` of an iterator leave: the*)
(* elements that are in a set, in their order.  A recursive function, which*)
(* proofs can reason about where SelectSeq is opaque to them.              *)
(***************************************************************************)
EXTENDS Integers, Sequences

Kept(s, U) ==
  LET kept[n \in 0 .. Len(s)] ==
        IF n = 0 THEN <<>>
        ELSE IF s[n] \in U THEN Append(kept[n - 1], s[n]) ELSE kept[n - 1]
  IN kept[Len(s)]
=============================================================================
