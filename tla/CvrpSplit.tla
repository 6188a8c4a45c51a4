----------------------------- MODULE CvrpSplit -----------------------------
(***************************************************************************)
(* The split of a giant tour into routes (cvrp_split of src/src/cvrp.c): a *)
(* shortest path through the graph H on 0..N, where the arc (i - 1, j)     *)
(* stands for the route that serves the i-th to the j-th customer of the   *)
(* tour.  The relaxation visits the arcs row by row, one step per arc; the *)
(* predecessors are then followed back from N, one route per step.         *)
(* predecessor comes from malloc: an entry that no relaxation has set      *)
(* holds what the memory held.                                             *)
(***************************************************************************)
EXTENDS Route

CONSTANTS
  N,          \* num_customers
  Capacity,
  Demand,     \* Demand[c]: cvrp_node_demand, which is 0 for the depot
  GTours,     \* giant tours the split may be given
  Junk,       \* functions on 1..N: contents of the memory from malloc
  SIZE_NONE,  \* NIL
  DOUBLE_MAX

Customers == 1 .. N
Index == 0 .. N

ASSUME NAssumption == N \in Nat \ {0}
ASSUME NodesAssumption == Nodes = Index
ASSUME CapacityAssumption == Capacity \in Nat
ASSUME DemandAssumption == Demand \in [Nodes -> Nat] /\ Demand[0] = 0
ASSUME GToursAssumption ==
  \A g \in GTours : g \in [Customers -> Customers] /\ IsInjective(g)
ASSUME SIZE_NONEAssumption == SIZE_NONE \notin Index
ASSUME JunkAssumption == Junk \subseteq [Customers -> Index \cup {SIZE_NONE}]

\* The largest double is far above what serving each customer alone costs.
ASSUME DOUBLE_MAXAssumption ==
  /\ DOUBLE_MAX \in Nat
  /\ \E most \in 0 .. DOUBLE_MAX :
       /\ N * most < DOUBLE_MAX
       /\ \A c \in Customers : Arc(0, c) + Arc(c, 0) <= most

VARIABLES
  gtour,
  pc,                       \* "relax", "walk", "done" or "aborted"
  i, j,                     \* relax: the arc (i - 1, j); walk: the arc (i, j)
  route_demand, route_cost, \* of the route before the arc's last customer
  sp_cost, predecessor,     \* on 0..N
  sol,                      \* routes of the solution, each from depot to depot
  total_distance            \* of the solution, DOUBLE_NONE (here -1) if not set
vars == <<gtour, pc, i, j, route_demand, route_cost, sp_cost, predecessor,
          sol, total_distance>>

Init ==
  /\ gtour \in GTours
  /\ pc = "relax"
  /\ i = 1 /\ j = 1
  /\ route_demand = 0 /\ route_cost = 0
  /\ sp_cost = [k \in Index |-> IF k = 0 THEN 0 ELSE DOUBLE_MAX]
  /\ \E junk \in Junk :
       predecessor = [k \in Index |-> IF k = 0 THEN SIZE_NONE ELSE junk[k]]
  /\ sol = <<>>
  /\ total_distance = -1

NewDemand == route_demand + Demand[gtour[j]]

Feasible == NewDemand <= Capacity

\* Cost of the route to which gtour[j] is appended
NewCost ==
  IF i = j
  THEN Arc(0, gtour[j]) + Arc(gtour[j], 0)
  ELSE route_cost - Arc(gtour[j - 1], 0)
       + Arc(gtour[j - 1], gtour[j]) + Arc(gtour[j], 0)

\* Mutant: the arc leaves from the wrong node of H
FromOffByOne == i

\* The node of H that the arc leaves
From == i - 1

\* Mutant: the path up to the arc is forgotten
ShorterArc == NewCost < sp_cost[j]

Shorter == sp_cost[From] + NewCost < sp_cost[j]

Relax ==
  /\ pc = "relax"
  /\ i <= N /\ j <= N
  /\ Feasible
  /\ route_demand' = NewDemand
  /\ route_cost' = NewCost
  /\ IF Shorter
     THEN /\ sp_cost' = [sp_cost EXCEPT ![j] = sp_cost[From] + NewCost]
          /\ predecessor' = [predecessor EXCEPT ![j] = From]
     ELSE UNCHANGED <<sp_cost, predecessor>>
  /\ j' = j + 1
  /\ UNCHANGED <<gtour, pc, i, sol, total_distance>>

\* The break of the inner loop, or its end
EndRow ==
  /\ pc = "relax"
  /\ i <= N
  /\ j <= N => ~Feasible
  /\ i' = i + 1 /\ j' = i + 1
  /\ route_demand' = 0 /\ route_cost' = 0
  /\ UNCHANGED <<gtour, pc, sp_cost, predecessor, sol, total_distance>>

StartWalk ==
  /\ pc = "relax"
  /\ i > N
  /\ j' = N /\ i' = predecessor[N]
  /\ pc' = "walk"
  /\ UNCHANGED <<gtour, route_demand, route_cost, sp_cost, predecessor, sol,
                 total_distance>>

\* Mutant: the last customer is left out
NewRouteTooShort == <<0>> \o SubSeq(gtour, i + 1, j - 1) \o <<0>>

\* route (depot, i + 1, ..., j, depot)
NewRoute == <<0>> \o SubSeq(gtour, i + 1, j) \o <<0>>

\* Bounded to N + 1 routes: a walk over junk may go round for ever
AddRoute ==
  /\ pc = "walk"
  /\ i # SIZE_NONE
  /\ Len(sol) <= N
  /\ sol' = <<NewRoute>> \o sol
  /\ j' = i /\ i' = predecessor[i]
  /\ UNCHANGED <<gtour, pc, route_demand, route_cost, sp_cost, predecessor,
                 total_distance>>

\* assert (sp_cost[N] > 0)
Finish ==
  /\ pc = "walk"
  /\ i = SIZE_NONE
  /\ IF sp_cost[N] > 0
     THEN total_distance' = sp_cost[N] /\ pc' = "done"
     ELSE pc' = "aborted" /\ UNCHANGED total_distance
  /\ UNCHANGED <<gtour, i, j, route_demand, route_cost, sp_cost, predecessor,
                 sol>>

Next == Relax \/ EndRow \/ StartWalk \/ AddRoute \/ Finish

Spec == Init /\ [][Next]_vars

\* A single thread runs the split to its end
FairSpec == Spec /\ WF_vars(Next)

-----------------------------------------------------------------------------
(***************************************************************************)
(* Properties                                                              *)
(***************************************************************************)

Load(r) == SumOf([k \in DOMAIN r |-> Demand[r[k]]])

TotalCost(s) == SumOf([k \in DOMAIN s |-> TotalDistance(s[k])])

\* The route of the arc (from, to) of H
RouteOf(tour, from, to) == <<0>> \o SubSeq(tour, from + 1, to) \o <<0>>

RoutesOf(tour, path) ==
  [k \in 1 .. Len(path) - 1 |-> RouteOf(tour, path[k], path[k + 1])]

\* The paths of H from 0 to n
Paths == [n \in Index |->
  {p \in SeqOf(Index, n + 1) :
     /\ p # <<>> /\ p[1] = 0 /\ p[Len(p)] = n
     /\ \A k \in 1 .. Len(p) - 1 : p[k] < p[k + 1]}]

\* The feasible solutions that serve the first n customers in the tour's order
Plans(tour, n) ==
  {s \in {RoutesOf(tour, p) : p \in Paths[n]} :
     \A k \in DOMAIN s : Load(s[k]) <= Capacity}

\* Dynamic programming: every cost in the table is that of a plan, and a row is
\* begun with the cost of the best plan for the customers before it. This rests
\* on the order of the rows, on the cost of a route kept incrementally along
\* one, and on the break at the first route that is too heavy.
RowsSettled ==
  \A n \in Index :
    /\ sp_cost[n] = DOUBLE_MAX \/ \E s \in Plans(gtour, n) : TotalCost(s) = sp_cost[n]
    /\ pc # "relax" \/ n < i =>
         \A s \in Plans(gtour, n) : sp_cost[n] <= TotalCost(s)

DemandsFit == \A c \in Customers : Demand[c] <= Capacity

\* The solution serves the giant tour in its order with routes that fit the
\* vehicle, it is the cheapest that does, and the distance recorded with it is
\* its own (an assertion of the latter is commented out in the code).
SplitOptimal ==
  DemandsFit /\ pc = "done" =>
    /\ sol \in Plans(gtour, N)
    /\ total_distance = TotalCost(sol)
    /\ \A s \in Plans(gtour, N) : total_distance <= TotalCost(s)

\* The split ends with a solution, whatever the memory from malloc held.
Termination == <>(pc = "done")

=============================================================================
