-------------------------- MODULE CvrpLocalSearch --------------------------
(***************************************************************************)
(* The post optimisation of src/src/cvrp.c (cvrp_post_optimize) and the    *)
(* four local searches it drives: relocation of a node (or-opt), exchange  *)
(* of two nodes, reversal within a route (2-opt) and exchange of tails     *)
(* (2-opt* ).  All of them are called with exhaustive = false: they scan   *)
(* the solution with solution_iter_node, perform the first move that       *)
(* shortens it, and return.  A move is a tuple of the scan's positions in  *)
(* loop order, so the first one found is the lexicographically least.      *)
(* The cost is a ledger: it is adjusted by the delta of each move and      *)
(* never recomputed.  Costs are exact here; the code's are doubles.        *)
(***************************************************************************)
EXTENDS Route

CONSTANTS
  Depot,     \* nodes[0].id
  Demand,    \* Demand[c]: quantity of the request of customer c
  Capacity,
  Starts     \* solutions the search may be given

Customers == Nodes \ {Depot}

ASSUME DepotAssumption == Depot \in Nodes /\ Nodes \subseteq Nat
ASSUME DemandAssumption == Demand \in [Nodes -> Nat] /\ Demand[Depot] = 0
ASSUME CapacityAssumption == Capacity \in Nat

\* A route that becomes empty is dropped with its arc from depot to depot,
\* which the deltas do not account for; the matrices of vrp_new_from_file and
\* vrp_generate_beeline_distances have a zero there.
ASSUME NoCostAtDepot == Arc(Depot, Depot) = 0

VARIABLES
  sol,            \* routes of the solution, each from depot to depot
  total_distance, \* total_distance of the solution: the ledger
  cost_before,    \* total_distance when the optimisation began
  saving,         \* what the last local search returned
  total_saving,
  pc              \* the local search called next, or "done"
vars == <<sol, total_distance, cost_before, saving, total_saving, pc>>

SliceDemand(r, i, j) ==
  LET slice == Slice(r, i, j)
  IN  SumOf([k \in DOMAIN slice |-> Demand[slice[k]]])

RouteDemand(r) == SliceDemand(r, 0, LastIdx(r))

Cost(s) == SumOf([k \in DOMAIN s |-> TotalDistance(s[k])])

Init ==
  /\ sol \in Starts
  /\ total_distance = Cost(sol)
  /\ cost_before = total_distance
  /\ saving = 0 /\ total_saving = 0
  /\ pc = "or_opt"

-----------------------------------------------------------------------------
(* Moves of a solution s: <<route index, node index, route index, node index>> *)

Positions(s) == UNION {{k} \X Indices(s[k]) : k \in DOMAIN s}

PairsOfPositions(s) ==
  {<<p[1], p[2], q[1], q[2]>> : p, q \in Positions(s)}

NodeAt(s, k, i) == At(s[k], i)

\* solution_remove_route for a route r left with its two depots only
DropIfEmpty(s, r, k) == IF Len(r) = 2 THEN RemoveAt(s, k) ELSE s

\* Mutant: the insertion is not counted
OrOptDeltaOfRemoval(s, m) == RemoveNodeDelta(s[m[1]], m[2])

\* Relocate node i1 of route k1 before node i2 of route k2
OrOptDelta(s, m) ==
  RemoveNodeDelta(s[m[1]], m[2])
  + InsertNodeDelta(s[m[3]], m[4], NodeAt(s, m[1], m[2]))

OrOptAllowed(s, m) ==
  /\ NodeAt(s, m[1], m[2]) # Depot
  /\ m[1] # m[3] /\ m[4] # 0

\* Mutant: the load before the insertion is checked
OrOptFitsBefore(s, m) == RouteDemand(s[m[3]]) <= Capacity

OrOptFits(s, m) ==
  RouteDemand(s[m[3]]) + Demand[NodeAt(s, m[1], m[2])] <= Capacity

OrOptMoved(s, m) ==
  LET shorter == RemoveNode(s[m[1]], m[2])
      longer == InsertNode(s[m[3]], m[4], NodeAt(s, m[1], m[2]))
  IN  DropIfEmpty([s EXCEPT ![m[1]] = shorter, ![m[3]] = longer], shorter, m[1])

\* Exchange node i1 of route k1 with node i2 of a later route k2
ExchangeDelta(s, m) == ExchangeNodesDelta(s[m[1]], s[m[3]], m[2], m[4])

ExchangeAllowed(s, m) ==
  /\ m[1] < m[3]
  /\ Depot \notin {NodeAt(s, m[1], m[2]), NodeAt(s, m[3], m[4])}

ExchangeFits(s, m) ==
  LET demand1 == Demand[NodeAt(s, m[1], m[2])]
      demand2 == Demand[NodeAt(s, m[3], m[4])]
  IN  /\ RouteDemand(s[m[1]]) - demand1 + demand2 <= Capacity
      /\ RouteDemand(s[m[3]]) - demand2 + demand1 <= Capacity

ExchangeMoved(s, m) ==
  LET new == ExchangeNodes(s[m[1]], s[m[3]], m[2], m[4])
  IN  [s EXCEPT ![m[1]] = new[1], ![m[3]] = new[2]]

\* Exchange what follows node i1 of route k1 and node i2 of a later route k2
TailsDelta(s, m) == ExchangeTailsDelta(s[m[1]], s[m[3]], m[2], m[4])

TailsAllowed(s, m) ==
  /\ m[1] < m[3]
  /\ m[2] # LastIdx(s[m[1]]) /\ m[4] # LastIdx(s[m[3]])
  /\ ~(NodeAt(s, m[1], m[2]) = Depot /\ NodeAt(s, m[3], m[4]) = Depot)

TailsFit(s, m) ==
  LET q == s[m[1]]
      r == s[m[3]]
  IN  /\ SliceDemand(q, 0, m[2]) + SliceDemand(r, m[4] + 1, LastIdx(r))
           <= Capacity
      /\ SliceDemand(r, 0, m[4]) + SliceDemand(q, m[2] + 1, LastIdx(q))
           <= Capacity

\* The second removal uses the index of route k2 from before the first one
TailsMoved(s, m) ==
  LET new == ExchangeTails(s[m[1]], s[m[3]], m[2], m[4])
      swapped == [s EXCEPT ![m[1]] = new[1], ![m[3]] = new[2]]
  IN  DropIfEmpty(DropIfEmpty(swapped, new[1], m[1]), new[2], m[3])

\* Reverse the slice [i, j] of route k
TwoOptDelta(s, m) == ReverseDelta(s[m[1]], m[2], m[3])

TwoOptCandidates(s) ==
  {m \in UNION {{k} \X Indices(s[k]) \X Indices(s[k]) : k \in DOMAIN s} :
     1 <= m[2] /\ m[2] < m[3] /\ m[3] <= LastIdx(s[m[1]]) - 1}

TwoOptMoved(s, m) == [s EXCEPT ![m[1]] = ReverseSlice(@, m[2], m[3])]

\* The moves a search would perform: allowed, shortening, within capacity
OrOptMoves(s) ==
  {m \in PairsOfPositions(s) :
     OrOptAllowed(s, m) /\ OrOptDelta(s, m) < 0 /\ OrOptFits(s, m)}
ExchangeMoves(s) ==
  {m \in PairsOfPositions(s) :
     ExchangeAllowed(s, m) /\ ExchangeDelta(s, m) < 0 /\ ExchangeFits(s, m)}
TailsMoves(s) ==
  {m \in PairsOfPositions(s) :
     TailsAllowed(s, m) /\ TailsDelta(s, m) < 0 /\ TailsFit(s, m)}

\* Mutant: moves that gain nothing are performed too
TwoOptMovesTies(s) == {m \in TwoOptCandidates(s) : TwoOptDelta(s, m) <= 0}

TwoOptMoves(s) == {m \in TwoOptCandidates(s) : TwoOptDelta(s, m) < 0}

-----------------------------------------------------------------------------
(* The four local searches, as calls of the loop of cvrp_post_optimize *)

\* Mutant: the loop goes on with the same search instead of the first one
ImprovedGoesOn(delta) ==
  /\ total_distance' = total_distance + delta
  /\ saving' = -delta
  /\ total_saving' = total_saving - delta
  /\ UNCHANGED <<pc, cost_before>>

\* A search that performed a move of this delta: the loop starts over
Improved(delta) ==
  /\ total_distance' = total_distance + delta
  /\ saving' = -delta
  /\ total_saving' = total_saving - delta
  /\ pc' = "or_opt"
  /\ UNCHANGED cost_before

\* A search that found nothing returns 0: the loop goes on with the next one
NotImproved(next) ==
  /\ saving' = 0
  /\ pc' = next
  /\ UNCHANGED <<sol, total_distance, cost_before, total_saving>>

OrOpt ==
  /\ pc = "or_opt"
  /\ \E m \in First(OrOptMoves(sol)) :
       sol' = OrOptMoved(sol, m) /\ Improved(OrOptDelta(sol, m))

Exchange ==
  /\ pc = "exchange"
  /\ \E m \in First(ExchangeMoves(sol)) :
       sol' = ExchangeMoved(sol, m) /\ Improved(ExchangeDelta(sol, m))

TwoOpt ==
  /\ pc = "2_opt"
  /\ \E m \in First(TwoOptMoves(sol)) :
       sol' = TwoOptMoved(sol, m) /\ Improved(TwoOptDelta(sol, m))

TwoOptStar ==
  /\ pc = "2_opt_star"
  /\ \E m \in First(TailsMoves(sol)) :
       sol' = TailsMoved(sol, m) /\ Improved(TailsDelta(sol, m))

NoMove ==
  \/ pc = "or_opt" /\ OrOptMoves(sol) = {} /\ NotImproved("exchange")
  \/ pc = "exchange" /\ ExchangeMoves(sol) = {} /\ NotImproved("2_opt")
  \/ pc = "2_opt" /\ TwoOptMoves(sol) = {} /\ NotImproved("2_opt_star")
  \/ pc = "2_opt_star" /\ TailsMoves(sol) = {} /\ NotImproved("done")

Next == OrOpt \/ Exchange \/ TwoOpt \/ TwoOptStar \/ NoMove

Spec == Init /\ [][Next]_vars

\* A single thread runs the loop to its end
FairSpec == Spec /\ WF_vars(Next)

-----------------------------------------------------------------------------
(***************************************************************************)
(* Properties                                                              *)
(***************************************************************************)

\* How often a route, and how often all routes of a solution, come to a node
VisitsOn(r, c) == SumOf([i \in DOMAIN r |-> IF r[i] = c THEN 1 ELSE 0])
Visits(s, c) == SumOf([k \in DOMAIN s |-> VisitsOn(s[k], c)])

\* A feasible solution: routes from depot to depot, none of them empty, within
\* capacity, and every customer visited exactly once.
IsSolution(s) ==
  /\ s \in Seq(Seq(Nodes))
  /\ \A k \in DOMAIN s :
       /\ Len(s[k]) >= 3
       /\ \A i \in Indices(s[k]) : At(s[k], i) = Depot <=> i \in {0, LastIdx(s[k])}
       /\ RouteDemand(s[k]) <= Capacity
  /\ \A c \in Customers : Visits(s, c) = 1

ASSUME StartsAssumption == \A s \in Starts : IsSolution(s)

\* No move loses, duplicates or misplaces a customer, overloads a vehicle or
\* leaves an empty route, whatever moves came before (the assertion of
\* cvrp_post_optimize covers the load only).
SolutionSound == IsSolution(sol)

\* The ledger is the true cost of the solution after every move, those that
\* drop a route included, and total_saving is what has been gained since the
\* optimisation began.
LedgerExact ==
  /\ total_distance = Cost(sol)
  /\ total_saving = cost_before - total_distance

\* The result is a local optimum of all four neighbourhoods at once: no move
\* of an operator that ran early was opened up by one that ran later.
LocalOptimum ==
  pc = "done" =>
    OrOptMoves(sol) \cup ExchangeMoves(sol) \cup TwoOptMoves(sol)
      \cup TailsMoves(sol) = {}

\* The optimisation ends.
Termination == <>(pc = "done")
=============================================================================
