--------------------------- MODULE MCLoopReversal ---------------------------
(* Integers of four bits. *)
EXTENDS LoopReversal
FewValues ==
  {Signed(n) : n \in (-3..4) \cup {-8, -7, 6, 7}} \cup {Value(n, TRUE) : n \in {0, 1, 3, 7, 8, 14, 15}}
FewStrides ==
  {Increment("++i", 1), Increment("i--", 1), Increment("i += c", 2), Increment("i -= c", 2),
   Increment("i = i + c", 3), Increment("i = i - c", 3), Increment("i += c", -2),
   Increment("i = c + i", 5), Increment("i -= c", -1), Increment("i += c", 0),
   Increment("i = c - i", 3)}
==============================================================================
