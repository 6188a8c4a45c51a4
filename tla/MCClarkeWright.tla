--------------------------- MODULE MCClarkeWright ---------------------------
(***************************************************************************)
(* An instance of ClarkeWright for TLC: four customers and two values of   *)
(* lambda.  All but three arcs are of one length: TLC explores every order *)
(* in which the nine pairs of equal savings can be sorted.                 *)
(***************************************************************************)
EXTENDS ClarkeWright

MCDemand4 == <<1, 1, 2, 4>>
MCTiedDist ==
  LET row == << <<0, 3, 3, 3, 3>>, <<3, 0, 5, 5, 9>>, <<3, 5, 0, 5, 5>>,
                <<3, 5, 9, 0, 5>>, <<3, 5, 5, 9, 0>> >>
  IN  [a \in Index \X Index |-> row[a[1] + 1][a[2] + 1]]
=============================================================================
