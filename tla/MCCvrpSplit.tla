---------------------------- MODULE MCCvrpSplit ----------------------------
(***************************************************************************)
(* An instance of CvrpSplit for TLC: all giant tours of four customers, with *)
(* one-way costs, and memory that holds the same value everywhere.         *)
(***************************************************************************)
EXTENDS CvrpSplit

MCNodes == 0 .. 4
MCDist ==
  LET row == << <<0, 5, 1, 9, 1>>, <<7, 0, 9, 8, 1>>, <<9, 7, 0, 2, 2>>,
                <<1, 7, 2, 0, 8>>, <<4, 6, 1, 7, 0>> >>
  IN  [a \in MCNodes \X MCNodes |-> row[a[1] + 1][a[2] + 1]]
MCDemand == [c \in MCNodes |-> <<0, 2, 1, 3, 1>>[c + 1]]
MCGTours == SetToSeqs(1 .. 4)
MCJunk == {[k \in Customers |-> v] : v \in MCNodes \cup {SIZE_NONE}}
=============================================================================
