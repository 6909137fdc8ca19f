--------------------------- MODULE MCComputeCache ---------------------------
(* Values for TLC: five keys, two of which share every bit of their hash,  *)
(* the others fewer.  MaxBits = 3.                                         *)
EXTENDS ComputeCache

MCKey == {<<0, 1, 2>>, <<0, 1, 0>>, <<1, 2, 0>>, <<1, 1, 1>>, <<2, 1, 0>>}
MCBits(a, b, c) == [j \in 0 .. 2 |-> <<a, b, c>>[j + 1]]
MCHash ==
  [k \in MCKey |->
     CASE k[1] = 0 -> MCBits(FALSE, FALSE, FALSE)
       [] k = <<1, 2, 0>> -> MCBits(FALSE, TRUE, TRUE)
       [] k = <<1, 1, 1>> -> MCBits(TRUE, FALSE, TRUE)
       [] k = <<2, 1, 0>> -> MCBits(TRUE, TRUE, TRUE)]
=============================================================================
