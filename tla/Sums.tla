-------------------------------- MODULE Sums --------------------------------
(***************************************************************************)
(* What the C code's loops accumulate along a list.                        *)
(***************************************************************************)
EXTENDS Integers, Sequences

\* sums[k] is the sum of the first k elements
SumOf(list) ==
  LET n == Len(list)
      sums[k \in 0 .. n] == IF k = 0 THEN 0 ELSE sums[k - 1] + list[k]
  IN  sums[n]

\* kept[k] are those of the first k elements that differ from x
Without(x, list) ==
  LET n == Len(list)
      kept[k \in 0 .. n] ==
        IF k = 0 THEN <<>>
        ELSE IF list[k] = x THEN kept[k - 1] ELSE Append(kept[k - 1], list[k])
  IN  kept[n]
=============================================================================
