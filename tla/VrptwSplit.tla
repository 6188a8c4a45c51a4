----------------------------- MODULE VrptwSplit -----------------------------
(***************************************************************************)
(* The split of a giant tour under time windows (vrptw_split of            *)
(* src/src/vrptw.c), for a sub-model that vrptw_solve has found basically  *)
(* solvable: the rows of arcs of the graph H are relaxed one arc per step, *)
(* then the predecessors are followed back from N, one route per step, and *)
(* the solution found must pass vrptw_solution_is_feasible.                *)
(***************************************************************************)
EXTENDS VrptwTime

CONSTANTS
  Dist,        \* Dist[a, b]: vrptw_arc_distance
  GTours,      \* giant tours the split may be given
  TimeWindows, \* assignments of time windows to the nodes
  Junk,        \* functions on 1..N: contents of the memory from malloc
  DOUBLE_MAX   \* exceeds the cost of every solution

ASSUME DistAssumption == Dist \in [Index \X Index -> Nat]
ASSUME GToursAssumption ==
  \A g \in GTours : g \in [Customers -> Customers] /\ IsInjective(g)
ASSUME JunkAssumption == Junk \subseteq [Customers -> Index \cup {SIZE_NONE}]
ASSUME DOUBLE_MAXAssumption ==
  DOUBLE_MAX \in Nat /\ \A a \in DOMAIN Dist : 2 * N * Dist[a] < DOUBLE_MAX

VARIABLES
  tws, gtour,             \* the arguments
  pc,                     \* "relax", "walk", "done" or "aborted"
  i, j,                   \* relax: the arc (i - 1, j); walk: the arc (i, j)
  last_node,              \* the node the route has come to
  route_demand, route_distance, departure_time,   \* of that route
  sp_costs, predecessors, \* on 0..N
  sol,                    \* routes of the solution, each from depot to depot
  total_distance          \* of the solution; DOUBLE_NONE (here -1) if not set
arguments == <<tws, gtour>>
row == <<last_node, route_demand, route_distance, departure_time>>
labels == <<sp_costs, predecessors>>
vars == <<arguments, pc, i, j, row, labels, sol, total_distance>>

Init ==
  /\ tws \in {w \in TimeWindows : IsBasicallySolvable(w)}
  /\ gtour \in GTours
  /\ pc = "relax"
  /\ i = 1 /\ j = 1
  /\ last_node = 0 /\ route_demand = 0 /\ route_distance = 0
  /\ departure_time = DepotDeparture(tws)
  /\ sp_costs = [k \in Index |-> IF k = 0 THEN 0 ELSE DOUBLE_MAX]
  /\ \E junk \in Junk :
       predecessors = [k \in Index |-> IF k = 0 THEN SIZE_NONE ELSE junk[k]]
  /\ sol = <<>>
  /\ total_distance = -1

NewDemand == route_demand + Demand[gtour[j]]
Arrival == Plus(departure_time, Travel(last_node, gtour[j]))

Compatible == NewDemand <= Capacity /\ Arrival <= Latest(tws[gtour[j]])

\* last_node has already been moved on to the new node where the code uses it:
\* it subtracts and adds the way back from the new node, and the way from the
\* new node to itself
NewDistance ==
  LET node == gtour[j] IN
  IF i = j THEN Dist[0, node] + Dist[node, 0]
  ELSE route_distance - Dist[node, 0] + Dist[node, node] + Dist[node, 0]

\* The node of H that the arc leaves
From == i - 1

Shorter == sp_costs[From] + NewDistance < sp_costs[j]

\* Mutant: a new row goes on from the departure of the last one
RowDepartureStale == departure_time

RowDeparture == DepotDeparture(tws)

Relax ==
  /\ pc = "relax"
  /\ i <= N /\ j <= N
  /\ Compatible
  /\ route_demand' = NewDemand
  /\ departure_time' = DepartureTime(tws, gtour[j], last_node, departure_time)
  /\ last_node' = gtour[j]
  /\ route_distance' = NewDistance
  /\ IF Shorter
     THEN /\ sp_costs' = [sp_costs EXCEPT ![j] = sp_costs[From] + NewDistance]
          /\ predecessors' = [predecessors EXCEPT ![j] = From]
     ELSE UNCHANGED labels
  /\ j' = j + 1
  /\ UNCHANGED <<arguments, pc, i, sol, total_distance>>

\* A break of the inner loop, or its end
EndRow ==
  /\ pc = "relax"
  /\ i <= N
  /\ j <= N => ~Compatible
  /\ i' = i + 1 /\ j' = i + 1
  /\ last_node' = 0 /\ route_demand' = 0 /\ route_distance' = 0
  /\ departure_time' = RowDeparture
  /\ UNCHANGED <<arguments, pc, labels, sol, total_distance>>

StartWalk ==
  /\ pc = "relax"
  /\ i > N
  /\ j' = N /\ i' = predecessors[N]
  /\ pc' = "walk"
  /\ UNCHANGED <<arguments, row, labels, sol, total_distance>>

\* Mutant: the route starts with the customer before its first
NewRouteOffByOne == <<0>> \o SubSeq(gtour, IF i = 0 THEN 1 ELSE i, j) \o <<0>>

NewRoute == <<0>> \o SubSeq(gtour, i + 1, j) \o <<0>>

\* Bounded to N + 1 routes: a walk over junk may go round for ever
AddRoute ==
  /\ pc = "walk"
  /\ i # SIZE_NONE
  /\ Len(sol) <= N
  /\ sol' = <<NewRoute>> \o sol
  /\ j' = i /\ i' = predecessors[i]
  /\ UNCHANGED <<arguments, pc, row, labels, total_distance>>

\* The walk has met the NIL of node 0; two assertions follow
Finish ==
  /\ pc = "walk"
  /\ i = SIZE_NONE
  /\ total_distance' = IF sp_costs[N] > 0 THEN sp_costs[N] ELSE total_distance
  /\ pc' = IF sp_costs[N] > 0 /\ SolutionIsFeasible(tws, sol)
           THEN "done" ELSE "aborted"
  /\ UNCHANGED <<arguments, i, j, row, labels, sol>>

Next == Relax \/ EndRow \/ StartWalk \/ AddRoute \/ Finish

Spec == Init /\ [][Next]_vars

-----------------------------------------------------------------------------
(***************************************************************************)
(* Properties                                                              *)
(***************************************************************************)

\* Enough for every service time of the instances
Horizon == SIZE_NONE \div 2

\* A vehicle can serve the customers of positions m + 1 .. n in this order,
\* whatever the hour of its return
Servable(m, n) ==
  LET slice == SubSeq(gtour, m + 1, n) IN
  Load(slice) <= Capacity /\ CanServe(tws, <<0>> \o slice, 0, Horizon)

\* The labels describe paths of H: the predecessor of a labelled node is an
\* earlier and cheaper labelled node, and the route between the two can be
\* served.  Hence the walk ends, and its routes can be served.
LabelsArePaths ==
  \A n \in Customers :
    sp_costs[n] < DOUBLE_MAX =>
      LET p == predecessors[n] IN
      /\ p \in 0 .. n - 1
      /\ sp_costs[p] < sp_costs[n]
      /\ Servable(p, n)

\* A node is left unlabelled by the finished rows only if no route at all can
\* end with its customer: greedy breaks of the inner loop miss nothing.
RowsComplete ==
  \A n \in Customers :
    (\E m \in 0 .. n - 1 :
       m < i - 1 /\ pc = "relax" /\ sp_costs[m] < DOUBLE_MAX /\ Servable(m, n))
    => sp_costs[n] < DOUBLE_MAX

\* The labels tell exactly which nodes of H a servable path can reach.
LabelsExact == LabelsArePaths /\ RowsComplete

AllServable == \A c \in Customers : ServableAlone(tws, c)

\* When every customer can be served alone, a split that is over serves the
\* giant tour in its order, and it is aborted exactly when some route comes
\* back after the depot has closed, which the relaxation does not check.
AbortsOnlyOnLateReturn ==
  AllServable /\ pc \in {"done", "aborted"} =>
    /\ FlattenSeq([k \in DOMAIN sol |-> SubSeq(sol[k], 2, Len(sol[k]) - 1)]) = gtour
    /\ \A k \in DOMAIN sol :
         Load(sol[k]) <= Capacity /\ CanServe(tws, Front(sol[k]), 0, Horizon)
    /\ pc = "aborted" <=>
         \E k \in DOMAIN sol : ~CanServe(tws, sol[k], 0, Horizon)

Cost(r) == MapThenSumSet(LAMBDA k : Dist[r[k], r[k + 1]], 1 .. Len(r) - 1)

\* vrptw.c, of vrptw_split: "assert (sp_costs[N] ==
\* solution_cal_set_total_distance (sol, self->vrp))", commented out: the
\* distance recorded with the solution is the one it has.  Asked only of customers
\* that can all be served alone, so that the labels are those of a solution.
DistanceRecorded ==
  pc = "done" /\ AllServable =>
    total_distance = MapThenSumSet(LAMBDA k : Cost(sol[k]), DOMAIN sol)
=============================================================================
