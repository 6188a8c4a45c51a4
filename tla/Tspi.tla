-------------------------------- MODULE Tspi --------------------------------
(***************************************************************************)
(* The stand-alone TSP solver of src/src/tspi.c: the caller sets the ends, *)
(* the kind of trip, costs and coordinates in any order, and may solve     *)
(* more than once.  The nodes are 0 .. num_nodes - 1, three or more.       *)
(* Of the costs and the coordinates only how far they are given is kept.   *)
(***************************************************************************)
EXTENDS TourSearch

CONSTANTS
  NumsOfNodes,  \* arguments of tspi_new
  MaxSolves     \* bound: calls of tspi_solve

ASSUME NumsOfNodesAssumption ==
  \A n \in NumsOfNodes : n \in Nat /\ n > 2 /\ 0 .. n - 1 \subseteq Nodes
ASSUME MaxSolvesAssumption == MaxSolves \in Nat

VARIABLES
  num_nodes,
  is_round_trip,
  costs,       \* every arc has a cost
  coords,      \* "none" (not allocated), "some" or "all" are set
  has_system   \* coord_sys # CS_NONE
settings == <<num_nodes, is_round_trip, costs, coords, has_system>>

TspiInit ==
  /\ solver = "tspi"
  /\ start_node = ID_NONE /\ end_node = ID_NONE

InitSettings ==
  /\ num_nodes = 0
  /\ is_round_trip = FALSE
  /\ costs = FALSE /\ coords = "none" /\ has_system = FALSE

TspiNew ==
  /\ solver = "tspi" /\ pc = "build"
  /\ num_nodes' \in NumsOfNodes
  /\ template' = [k \in 1 .. num_nodes' |-> k - 1]
  /\ pc' = "ready"
  /\ UNCHANGED <<solver, ends, window, genomes, search, solves, is_round_trip,
                 costs, coords, has_system>>

Idle == solver = "tspi" /\ pc \in {"ready", "failed"}

\* The setters, called before the first solve that goes through
Setting == Idle /\ solves = 0

unset == <<solver, template, window, genomes, search, solves, pc, num_nodes>>

\* tspi_set_start_node, tspi_set_end_node
SetEnds ==
  /\ Setting
  /\ \E node \in 0 .. num_nodes - 1 :
       \/ start_node' = node /\ UNCHANGED end_node
       \/ end_node' = node /\ UNCHANGED start_node
  /\ UNCHANGED <<unset, is_round_trip, costs, coords, has_system>>

SetRoundTrip ==
  /\ Setting
  /\ is_round_trip' \in BOOLEAN
  /\ UNCHANGED <<unset, ends, costs, coords, has_system>>

\* tspi_set_coord_system
SetCoordSystem ==
  /\ Setting
  /\ has_system' \in BOOLEAN
  /\ UNCHANGED <<unset, ends, is_round_trip, costs, coords>>

\* tspi_set_node_coord: the memory is not initialised on the first call
SetNodeCoord ==
  /\ Setting
  /\ coords' \in {"some", "all"}
  /\ coords = "all" => coords' = "all"
  /\ UNCHANGED <<unset, ends, is_round_trip, costs, has_system>>

\* tspi_set_cost: the arc given may have been the last one missing
SetCost ==
  /\ Setting
  /\ costs' \in {costs, TRUE}
  /\ UNCHANGED <<unset, ends, is_round_trip, coords, has_system>>

\* tspi_validate_coords.  Memory that no coordinate was written to may look
\* like a coordinate or not.
CoordsAnswers ==
  CASE coords = "none" -> {TRUE}
    [] coords # "none" /\ ~has_system -> {FALSE}
    [] coords = "some" /\ has_system -> BOOLEAN
    [] coords = "all" /\ has_system -> {TRUE}

GenerateBeeline ==
  /\ Setting /\ coords # "none"
  /\ \E valid \in CoordsAnswers : costs' = (costs \/ valid)
  /\ UNCHANGED <<unset, ends, is_round_trip, coords, has_system>>

-----------------------------------------------------------------------------
(***************************************************************************)
(* tspi_regularize_template, called by every tspi_solve: the ends that the *)
(* kind of trip implies, and a template that begins and ends with them.    *)
(* The nodes are swapped by their IDs, as if the template were still in    *)
(* the order it was created in.                                            *)
(***************************************************************************)
DifferentEnds ==
  start_node # ID_NONE /\ end_node # ID_NONE /\ start_node # end_node

\* For a round trip a missing end is the other one, or node 0
Ends ==
  LET either == IF start_node # ID_NONE THEN start_node ELSE end_node
      hub == IF either # ID_NONE THEN either ELSE 0
  IN  IF is_round_trip THEN [start |-> hub, end |-> hub]
                       ELSE [start |-> start_node, end |-> end_node]

\* Mutant: the start node stays where it is
WithStartLeft(s) == template

WithStart(s) ==
  IF s = ID_NONE THEN template ELSE SwapNodes(template, 0, s)

\* Node 0 has been swapped with the start node
EndPosition(s, e) == IF e = 0 /\ s # ID_NONE THEN s ELSE e

Regularized(s, e) ==
  CASE e = ID_NONE -> WithStart(s)
    [] e # ID_NONE /\ s = e -> Append(WithStart(s), e)
    [] e # ID_NONE /\ s # e ->
         SwapNodes(WithStart(s), EndPosition(s, e), num_nodes - 1)

\* assert (route_at (self->template, idx) == self->end_node)
RegularizeAborts(s, e) ==
  e # ID_NONE /\ s # e /\ At(WithStart(s), EndPosition(s, e)) # e

\* tspi_solve: its checks of the model
Callable ==
  /\ Idle \/ (solver = "tspi" /\ pc = "done")
  /\ solves < MaxSolves

Accepted(valid) == costs /\ valid /\ ~(is_round_trip /\ DifferentEnds)

StopsAs(end) ==
  /\ pc' = end
  /\ UNCHANGED <<ends, template, window, is_round_trip>>

\* What a call leaves of the one before
AfterCall ==
  /\ TwoOptOf(<<>>)
  /\ UNCHANGED <<solver, genomes, num_nodes, costs, coords, has_system>>

TspiSolveFails ==
  /\ Callable
  /\ \E valid \in CoordsAnswers : ~Accepted(valid)
  /\ StopsAs("failed") /\ UNCHANGED solves
  /\ AfterCall

TspiSolveAborts ==
  /\ Callable
  /\ \E valid \in CoordsAnswers : Accepted(valid)
  /\ RegularizeAborts(Ends.start, Ends.end)
  /\ StopsAs("aborted") /\ solves' = solves + 1
  /\ AfterCall

\* tspi_solve up to the evolution
TspiSolve ==
  LET s == Ends.start
      e == Ends.end
  IN
  /\ Callable
  /\ \E valid \in CoordsAnswers : Accepted(valid)
  /\ ~RegularizeAborts(s, e)
  /\ start_node' = s /\ end_node' = e
  /\ is_round_trip' = (s # ID_NONE /\ s = e)
  /\ template' = Regularized(s, e)
  /\ solves' = solves + 1
  /\ pc' = "evolve"
  /\ UNCHANGED window
  /\ AfterCall

\* tspi_sweep: all nodes by angle, without the fixed ends, between them
TspiSweep ==
  /\ solver = "tspi" /\ Evolving /\ coords # "none"
  /\ \E sorted \in SortedBy([k \in 1 .. num_nodes |-> k - 1], Angle) :
       LET others == Without(end_node, Without(start_node, sorted))
       IN  Join(Given(start_node) \o others \o Given(end_node))
  /\ UNCHANGED settings

TspiSet ==
  \/ SetEnds \/ SetRoundTrip \/ SetCoordSystem \/ SetNodeCoord \/ SetCost
  \/ GenerateBeeline

TspiStep ==
  \/ TspiNew \/ TspiSet
  \/ TspiSolve \/ TspiSolveFails \/ TspiSolveAborts \/ TspiSweep
=============================================================================
