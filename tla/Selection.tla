----------------------------- MODULE Selection -----------------------------
(***************************************************************************)
(* The members of a sequence that are in a set: what the loops of this     *)
(* code that go over a Vec and `continue', and a queue that several tasks  *)
(* fill, leave of it.  SelectSeq of module Sequences says the same, but    *)
(* nothing can be proved about it here: the provers know no definition of  *)
(* it, and it takes its test as an operator.                               *)
(***************************************************************************)
EXTENDS Integers, Sequences

\* The members of s that are in S, in their order.
Filter(s, S) ==
    LET kept[k \in 0 .. Len(s)] ==
            IF k = 0 THEN <<>>
            ELSE IF s[k] \in S THEN Append(kept[k - 1], s[k]) ELSE kept[k - 1]
    IN  kept[Len(s)]
=============================================================================
