---------------------------- MODULE MCVrptwSplit ----------------------------
(***************************************************************************)
(* Instances of VrptwSplit for TLC: all giant tours of three customers,    *)
(* each with no, one or two time windows, and a depot that closes early,   *)
(* late or never.                                                          *)
(***************************************************************************)
EXTENDS VrptwSplit

MCDist ==
  LET r == << <<0, 5, 3, 4>>, <<6, 0, 2, 7>>, <<3, 1, 0, 2>>, <<4, 6, 3, 0>> >>
  IN  [a \in Index \X Index |-> r[a[1] + 1][a[2] + 1]]
MCDuration ==
  LET r == << <<0, 2, 1, 2>>, <<1, 0, 1, 3>>, <<1, 1, 0, 1>>, <<2, 2, 1, 0>> >>
  IN  [a \in Index \X Index |-> r[a[1] + 1][a[2] + 1]]
MCService == [n \in Index |-> IF n = 0 THEN 0 ELSE 1]
MCDemand == [n \in Index |-> <<0, 2, 1, 2>>[n + 1]]
MCDepotWindows == {<<>>, << <<0, 6>> >>, << <<1, 9>> >>}
MCCustomerWindows ==
  {<<>>, << <<0, 1>> >>, << <<3, 4>> >>, << <<1, 2>>, <<5, 7>> >>}
MCTimeWindows ==
  {[n \in Index |-> IF n = 0 THEN depot ELSE customers[n]] :
     depot \in MCDepotWindows, customers \in [Customers -> MCCustomerWindows]}
MCGTours == SetToSeqs(1 .. 3)
MCJunk == {[k \in Customers |-> v] : v \in {0, 1, N, SIZE_NONE}}
=============================================================================
