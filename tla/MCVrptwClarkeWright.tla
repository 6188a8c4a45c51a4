------------------------ MODULE MCVrptwClarkeWright ------------------------
(***************************************************************************)
(* Instances of VrptwClarkeWright for TLC: four customers, savings with    *)
(* many ties, whose order TLC leaves open, and time windows that make some *)
(* merges infeasible in one direction or in both.                          *)
(***************************************************************************)
EXTENDS VrptwClarkeWright

\* Links to a customer with a higher number save more
MCDist == [a \in Index \X Index |-> IF a[1] > a[2] /\ a[2] > 0 THEN 2 ELSE 1]
MCDuration ==
  LET r == << <<0, 2, 1, 2, 1>>, <<1, 0, 1, 3, 1>>, <<1, 1, 0, 1, 2>>,
              <<2, 2, 1, 0, 1>>, <<1, 2, 1, 1, 0>> >>
  IN  [a \in Index \X Index |-> r[a[1] + 1][a[2] + 1]]
MCService == [n \in Index |-> IF n = 0 THEN 0 ELSE 1]
MCDemand == [n \in Index |-> <<0, 1, 1, 2, 2>>[n + 1]]

MCEarly == << <<0, 3>> >>
MCMiddle == << <<3, 6>> >>
MCLate == << <<5, 9>> >>
MCNoon == << <<5, 5>> >>
MCTwo == << <<1, 2>>, <<5, 7>> >>
MCThree == << <<1, 1>>, <<5, 6>>, <<8, 8>> >>
MCWindows(depot, customers) == [n \in Index |-> IF n = 0 THEN depot ELSE customers[n]]

MCIds == [n \in Index |-> n]

\* One window each; then nodes with two, with three, or without any
MCIndexed ==
  {MCWindows(<< <<0, 10>> >>, w) :
     w \in {<<MCEarly, MCEarly, MCMiddle, MCLate>>,
            <<MCLate, MCMiddle, MCEarly, MCEarly>>,
            <<MCTwo, MCEarly, MCLate, MCTwo>>,
            <<MCEarly, MCThree, MCMiddle, MCEarly>>,
            << <<>>, MCLate, <<>>, MCEarly>>,
            <<MCMiddle, MCMiddle, MCLate, MCMiddle>> }}

\* The depot is node 1 of the roadgraph and the solutions look feasible all the
\* same; or the customers were added in another order than their requests
MCDepotSecond ==
  [tws |-> MCWindows(<< <<0, 10>> >>, << << <<0, 9>> >>, MCNoon, MCNoon, MCNoon>>),
   ids |-> [n \in Index |-> <<1, 0, 2, 3, 4>>[n + 1]]]
MCCustomersPermuted ==
  [tws |-> MCWindows(<<>>, << <<>>, <<>>, MCLate, MCTwo>>),
   ids |-> [n \in Index |-> <<0, 2, 1, 4, 3>>[n + 1]]]

MCModels ==
  [tws : MCIndexed, ids : {MCIds}] \cup {MCDepotSecond, MCCustomersPermuted}

MCSomeUnlimited ==
  [tws : {MCWindows(<< <<0, 6>> >>, <<MCEarly, <<>>, <<>>, MCEarly>>)}, ids : {MCIds}]
=============================================================================
