------------------------- MODULE MCCvrpLocalSearch -------------------------
(***************************************************************************)
(* An instance of CvrpLocalSearch for TLC.  The starts are all the         *)
(* feasible solutions whose routes are listed by their first customers,    *)
(* the order cvrp_clark_wright_parallel builds them in.  Each of the four  *)
(* searches finds moves here, some exchanges of tails empty a route, and   *)
(* some reversals cost nothing.                                            *)
(***************************************************************************)
EXTENDS CvrpLocalSearch

MCNodes == 0 .. 5
MCCapacity == 6
MCDemand == [c \in MCNodes |-> <<0, 1, 1, 1, 1, 3>>[c + 1]]

\* The same distance both ways, without the triangle inequality
MCDist ==
  LET row == << <<0, 7, 4, 2, 3, 2>>, <<7, 0, 9, 6, 8, 9>>,
                <<4, 9, 0, 5, 4, 7>>, <<2, 6, 5, 0, 3, 4>>,
                <<3, 8, 4, 3, 0, 6>>, <<2, 9, 7, 4, 6, 0>> >>
  IN  [a \in MCNodes \X MCNodes |-> row[a[1] + 1][a[2] + 1]]

\* The customers of a tour cut into routes, each ending at a position of cut
MCCutUp(tour, cut) ==
  LET ends == SetToSortSeq(cut, <)
      start(k) == IF k = 1 THEN 1 ELSE ends[k - 1] + 1
  IN  [k \in DOMAIN ends |->
         <<0>> \o SubSeq(tour, start(k), ends[k]) \o <<0>>]

MCStarts ==
  LET tours == SetToSeqs(MCNodes \ {0})
      cuts == {cut \in SUBSET (1 .. 5) : 5 \in cut}
      load(r) == MapThenSumSet(LAMBDA i : MCDemand[r[i]], DOMAIN r)
  IN  {s \in {MCCutUp(tour, cut) : tour \in tours, cut \in cuts} :
         /\ \A k \in 1 .. Len(s) - 1 : s[k][2] < s[k + 1][2]
         /\ \A k \in DOMAIN s : load(s[k]) <= MCCapacity}
=============================================================================
