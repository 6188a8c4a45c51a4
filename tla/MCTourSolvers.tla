---------------------------- MODULE MCTourSolvers ----------------------------
(***************************************************************************)
(* An instance of TourSolvers for TLC: five nodes, asymmetric distances,   *)
(* a cycle through four of them that costs nothing, and two nodes at the   *)
(* same angle.                                                             *)
(***************************************************************************)
EXTENDS TourSolvers

None == SIZE_NONE
MCNodes == 0 .. 4
MCDist ==
  LET row == << <<0, 4, 9, 0, 7>>, <<0, 0, 5, 8, 1>>, <<6, 0, 0, 4, 9>>,
                <<8, 7, 0, 0, 3>>, <<2, 9, 6, 5, 0>> >>
  IN  [a \in MCNodes \X MCNodes |-> row[a[1] + 1][a[2] + 1]]
MCAngle == [n \in MCNodes |-> <<0, 2, 1, 2, 3>>[n + 1]]

\* Visits, deliveries from a depot, a node asked for twice, one node, nothing
MCRequestLists ==
  { <<>>,
    << <<None, 2>> >>,
    << <<0, 3>>, <<None, 1>> >>,
    << <<None, 1>>, <<None, 2>>, <<2, None>>, <<None, 3>>, <<None, 4>> >>,
    << <<None, 0>>, <<None, 1>>, <<None, 2>>, <<None, 3>> >> }
MCFleet == {None, 0, 2} \X {None, 0, 4}
MCNumsOfNodes == {4}

\* A round trip from node 0 to three visits
MCVisits == { << <<None, 1>>, <<None, 2>>, <<None, 3>> >> }
MCRoundTrip == {<<0, 0>>}
=============================================================================
