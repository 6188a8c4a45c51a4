--------------------------- MODULE MCCvrpEvolution ---------------------------
(***************************************************************************)
(* An instance of CvrpEvolution for TLC: four customers, two of them at    *)
(* the same angle, and up to three on a route.  Clarke and Wright may come *)
(* up with any feasible solution that lists its routes by first customers. *)
(***************************************************************************)
EXTENDS CvrpEvolution

MCNodes == 0 .. 4
MCDemand == [c \in MCNodes |-> <<0, 1, 1, 1, 2>>[c + 1]]
MCAngle == [c \in MCNodes \ {0} |-> <<2, 1, 2, 3>>[c]]
MCDist ==
  LET row == << <<0, 7, 4, 2, 3>>, <<6, 0, 9, 6, 8>>, <<4, 8, 0, 5, 4>>,
                <<2, 6, 5, 0, 3>>, <<5, 8, 4, 1, 0>> >>
  IN  [a \in MCNodes \X MCNodes |-> row[a[1] + 1][a[2] + 1]]

MCStarts ==
  {s \in {CutUp(tour, ends) : tour \in SetToSeqs(MCNodes \ {0}), ends \in Cuts(4)} :
     /\ \A k \in 1 .. Len(s) - 1 : s[k][2] < s[k + 1][2]
     /\ \A k \in DOMAIN s : RouteDemand(s[k]) <= Capacity}
=============================================================================
