------------------------- MODULE VrptwClarkeWright -------------------------
(***************************************************************************)
(* The savings heuristic of src/src/vrptw.c (vrptw_clark_wright and        *)
(* vrptw_clark_wright_parallel).  Besides the implicit routes of the       *)
(* predecessor and successor arrays, every customer carries the demand of  *)
(* its route, its departure time, and the time windows of the sub-route it *)
(* starts; a merge hands these on along the two joined routes, one         *)
(* customer per step.  A solution that is not feasible meets an assertion. *)
(* Its routes hold IDs of the roadgraph, and are read as inner indices.    *)
(***************************************************************************)
EXTENDS VrptwTime, ImplicitRoutes

CONSTANTS
  Dist,        \* Dist[a, b]: vrptw_arc_distance
  Models,      \* sub-models: records of the nodes' tws and ids
  FirstLambda, \* lambda runs over FirstLambda .. LastLambda, in tenths
  LastLambda

ASSUME DistAssumption == Dist \in [Index \X Index -> Nat]
\* An ID above N would be used as an index behind the end of the array
ASSUME ModelsAssumption ==
  \A m \in Models : m.ids \in [Index -> Index] /\ IsInjective(m.ids)
\* Windows are in order (VrpModel), and adding a service and an arc to a time
\* within the windows of a node comes nowhere near SIZE_NONE
IsWindows(w) ==
  /\ w \in Seq(Nat \X Nat)
  /\ \A k \in DOMAIN w : w[k][1] <= w[k][2]
  /\ \A k \in 1 .. Len(w) - 1 : w[k][2] <= w[k + 1][1]
ASSUME TimesAssumption ==
  \A m \in Models :
    /\ DOMAIN m.tws = Index
    /\ \A a \in Index :
         /\ IsWindows(m.tws[a])
         /\ m.tws[a] # <<>> =>
              \A b \in Index :
                Latest(m.tws[a]) + Service[a] + Travel(a, b) < SIZE_NONE
\* Durations come from distances, as vrp_generate_durations makes them
ASSUME DepotAssumption == Travel(0, 0) = 0
ASSUME LambdaAssumption ==
  FirstLambda \in Nat /\ LastLambda \in Nat /\ FirstLambda <= LastLambda

VARIABLES
  tws,           \* tws[n]: time windows of node n
  ids,           \* ids[n]: nodes[n].id, its ID in the roadgraph
  pc,            \* where the code is: see PCs
  lambda,        \* tenths
  savings,       \* pairs of the sorted array not yet reached
  predecessors, successors, route_demands,
  departure,     \* meta[n].departure_time
  subroute_tws,  \* meta[n].subroute_tws
  last_visit, first_visit,  \* the pair under consideration
  node,          \* the customer one of the walks has come to
  new_demand,    \* of the joined routes, while a merge goes on
  idx,           \* next customer of the construction loop
  sol,           \* routes appended to the solution
  genomes        \* giant tours of the solutions kept so far
model == <<tws, ids>>
chains == <<predecessors, successors>>
meta == <<departure, subroute_tws>>
locals == <<last_visit, first_visit, node, new_demand>>
result == <<idx, sol, genomes>>
vars == <<model, pc, lambda, savings, chains, route_demands, meta, locals, result>>

PCs == {"start", "scan", "walk_back", "departures", "windows", "build", "done",
        "aborted"}

Pairs == {p \in Customers \X Customers : p[1] # p[2]}
Unlinked == [c \in Customers |-> 0]

\* vrptw_solve goes on with a basically solvable model only
Init ==
  /\ \E m \in Models :
       IsBasicallySolvable(m.tws) /\ tws = m.tws /\ ids = m.ids
  /\ pc = "start"
  /\ lambda = FirstLambda
  /\ savings = {}
  /\ predecessors = Unlinked /\ successors = Unlinked
  /\ route_demands = Unlinked
  /\ departure = [n \in Index |-> 0] /\ subroute_tws = [n \in Index |-> <<>>]
  /\ last_visit = 0 /\ first_visit = 0 /\ node = 0 /\ new_demand = 0
  /\ idx = 1 /\ sol = <<>> /\ genomes = <<>>

\* The same arrays serve every lambda
StartLambda ==
  /\ pc = "start"
  /\ pc' = IF \E c \in Customers : SubrouteTwsAborts(tws, c, 0, tws[0])
           THEN "aborted" ELSE "scan"
  /\ savings' = Pairs
  /\ predecessors' = Unlinked /\ successors' = Unlinked
  /\ route_demands' = [c \in Customers |-> Demand[c]]
  /\ departure' =
       [n \in Index |-> IF n = 0 THEN DepotDeparture(tws)
                        ELSE DepartureTime(tws, n, 0, DepotDeparture(tws))]
  /\ subroute_tws' =
       [n \in Index |-> IF n = 0 THEN tws[0] ELSE SubrouteTws(tws, n, 0, tws[0])]
  /\ idx' = 1 /\ sol' = <<>>
  /\ UNCHANGED <<model, lambda, locals, genomes>>

Saving(p) == 10 * (Dist[p[1], 0] + Dist[0, p[2]]) - lambda * Dist[p[1], p[2]]

\* qsort is not stable: equal savings come in any order
IsNextSaving(p) == p \in savings /\ \A q \in savings : Saving(q) <= Saving(p)

CanLink(p) == successors[p[1]] = 0 /\ predecessors[p[2]] = 0

SkipSaving(p) ==
  /\ pc = "scan"
  /\ IsNextSaving(p)
  /\ ~CanLink(p)
  /\ savings' = savings \ {p}
  /\ UNCHANGED <<model, pc, lambda, chains, route_demands, meta, locals, result>>

TakeSaving(p) ==
  /\ pc = "scan"
  /\ IsNextSaving(p)
  /\ CanLink(p)
  /\ savings' = savings \ {p}
  /\ last_visit' = p[1] /\ first_visit' = p[2]
  /\ node' = p[1]
  /\ pc' = "walk_back"
  /\ UNCHANGED <<model, lambda, chains, route_demands, meta, new_demand, result>>

WalkBack ==
  /\ pc = "walk_back"
  /\ predecessors[node] # 0
  /\ node' = predecessors[node]
  /\ UNCHANGED <<model, pc, lambda, savings, chains, route_demands, meta,
                 last_visit, first_visit, new_demand, result>>

NewDemand == route_demands[last_visit] + route_demands[first_visit]
Arrival == Plus(departure[last_visit], Travel(last_visit, first_visit))

\* Mutant: the window of the customer, not the one of its sub-route
InWindowOfNode == Arrival <= Latest(tws[first_visit])

InWindow == Arrival <= Latest(subroute_tws[first_visit])

\* Mutant: the walk is not looked at
MayMergeAnyRoutes == NewDemand <= Capacity /\ InWindow

\* Mutant: strictly below the capacity
MayMergeBelow == node # first_visit /\ NewDemand < Capacity /\ InWindow

\* Mutant: the capacity is checked for the two customers only
MayMergeNodes ==
  /\ node # first_visit
  /\ Demand[last_visit] + Demand[first_visit] <= Capacity
  /\ InWindow

MayMerge == node # first_visit /\ NewDemand <= Capacity /\ InWindow

EndIteration ==
  /\ pc' = "scan"
  /\ last_visit' = 0 /\ first_visit' = 0 /\ node' = 0 /\ new_demand' = 0

Reject ==
  /\ pc = "walk_back"
  /\ predecessors[node] = 0
  /\ ~MayMerge
  /\ EndIteration
  /\ UNCHANGED <<model, lambda, savings, chains, route_demands, meta, result>>

Merge ==
  /\ pc = "walk_back"
  /\ predecessors[node] = 0
  /\ MayMerge
  /\ predecessors' = [predecessors EXCEPT ![first_visit] = last_visit]
  /\ successors' = [successors EXCEPT ![last_visit] = first_visit]
  /\ node' = first_visit /\ new_demand' = NewDemand
  /\ pc' = "departures"
  /\ UNCHANGED <<model, lambda, savings, route_demands, meta, last_visit,
                 first_visit, result>>

\* Mutant: only the first customer of the appended route is updated
PassOnDepartureOnce ==
  /\ pc = "departures"
  /\ departure' = [departure EXCEPT ![node] =
       DepartureTime(tws, node, predecessors[node], departure[predecessors[node]])]
  /\ route_demands' = [route_demands EXCEPT ![node] = new_demand]
  /\ node' = last_visit /\ pc' = "windows"
  /\ UNCHANGED <<model, lambda, savings, chains, subroute_tws, last_visit,
                 first_visit, new_demand, result>>

\* The first while loop after a merge: from first_visit to the end of its route
PassOnDeparture ==
  /\ pc = "departures"
  /\ departure' = [departure EXCEPT ![node] =
       DepartureTime(tws, node, predecessors[node], departure[predecessors[node]])]
  /\ route_demands' = [route_demands EXCEPT ![node] = new_demand]
  /\ IF successors[node] # 0
     THEN node' = successors[node] /\ UNCHANGED pc
     ELSE node' = last_visit /\ pc' = "windows"
  /\ UNCHANGED <<model, lambda, savings, chains, subroute_tws, last_visit,
                 first_visit, new_demand, result>>

NewWindows ==
  SubrouteTws(tws, node, successors[node], subroute_tws[successors[node]])
NewWindowsAbort ==
  SubrouteTwsAborts(tws, node, successors[node], subroute_tws[successors[node]])

\* The second loop: from last_visit back to the first customer of its route
PassOnWindows ==
  /\ pc = "windows"
  /\ ~NewWindowsAbort
  /\ subroute_tws' = [subroute_tws EXCEPT ![node] = NewWindows]
  /\ route_demands' = [route_demands EXCEPT ![node] = new_demand]
  /\ IF predecessors[node] # 0
     THEN node' = predecessors[node] /\ UNCHANGED <<pc, last_visit, first_visit, new_demand>>
     ELSE EndIteration
  /\ UNCHANGED <<model, lambda, savings, chains, departure, result>>

PassOnWindowsAborts ==
  /\ pc = "windows"
  /\ NewWindowsAbort
  /\ pc' = "aborted"
  /\ UNCHANGED <<model, lambda, savings, chains, route_demands, meta, locals, result>>

StartBuild ==
  /\ pc = "scan"
  /\ savings = {}
  /\ pc' = "build"
  /\ UNCHANGED <<model, lambda, savings, chains, route_demands, meta, locals, result>>

\* The customers from c on, following successors
ChainFrom(c) == ChainAlong(successors, N, c)

RouteThrough(chain) ==
  LET visits == <<0>> \o chain \o <<0>>
  IN  [k \in DOMAIN visits |-> ids[visits[k]]]

BuildRoute ==
  /\ pc = "build"
  /\ idx <= N
  /\ sol' = IF predecessors[idx] = 0
            THEN Append(sol, RouteThrough(ChainFrom(idx))) ELSE sol
  /\ idx' = idx + 1
  /\ UNCHANGED <<model, pc, lambda, savings, chains, route_demands, meta, locals,
                 genomes>>

\* Mutant: the ID of the depot is left out, not its index
GTourWithoutDepotId == Without(ids[0], FlattenSeq(sol))

\* vrptw_giant_tour_from_solution and giant_tour_hash
GTour == Without(0, FlattenSeq(sol))
HashOf(gtour) == MapThenSumSet(LAMBDA k : gtour[k] * (k - 1), DOMAIN gtour)

\* A solution whose hash is known is dropped as a duplicate
Kept ==
  IF \E k \in DOMAIN genomes : HashOf(genomes[k]) = HashOf(GTour)
  THEN genomes ELSE Append(genomes, GTour)

\* The assertions on the solution and on the size of its giant tour, then the
\* next lambda or the end
EndLambda ==
  /\ pc = "build"
  /\ idx > N
  /\ IF ~SolutionIsFeasible(tws, sol) \/ Len(GTour) # N
     THEN pc' = "aborted" /\ UNCHANGED <<lambda, genomes>>
     ELSE /\ genomes' = Kept
          /\ IF lambda < LastLambda
             THEN lambda' = lambda + 1 /\ pc' = "start"
             ELSE pc' = "done" /\ UNCHANGED lambda
  /\ UNCHANGED <<model, savings, chains, route_demands, meta, locals, idx, sol>>

Next ==
  \/ StartLambda
  \/ \E p \in Pairs : SkipSaving(p) \/ TakeSaving(p)
  \/ WalkBack \/ Reject \/ Merge
  \/ PassOnDeparture \/ PassOnWindows \/ PassOnWindowsAborts
  \/ StartBuild \/ BuildRoute \/ EndLambda

Spec == Init /\ [][Next]_vars

\* A single thread runs the heuristic to its end
FairSpec == Spec /\ WF_vars(Next)

-----------------------------------------------------------------------------
(***************************************************************************)
(* Properties                                                              *)
(***************************************************************************)

\* Routes end at the depot: nothing on them is served after it has closed
Horizon == Latest(tws[0])

\* No visit of a customer on the way saves time, as with distances in the plane,
\* truncated to durations, if each service takes a unit of time or more
NoShortcuts ==
  \A a, c \in Index, b \in Customers :
    Travel(a, c) <= Travel(a, b) + Service[b] + Travel(b, c)

AllServable == \A c \in Customers : ServableAlone(tws, c)
AllWindowed == \A n \in Index : tws[n] # <<>>
OneWindowEach == \A n \in Index : Len(tws[n]) = 1
IdsAreIndices == \A n \in Index : ids[n] = n

Chains == ChainsOf(successors, predecessors, N)
Suffix(chain, k) == SubSeq(chain, k, Len(chain)) \o <<0>>

\* Whenever the next saving is read, every customer knows the demand of its
\* route and leaves at the earliest hour its route allows.
ScheduleExact ==
  pc = "scan" /\ AllServable =>
    \A chain \in Chains : \A k \in DOMAIN chain :
      /\ route_demands[chain[k]] = Load(chain)
      /\ departure[chain[k]] = Departures(tws, <<0>> \o chain)[k + 1]

\* And its sub-route windows tell until when it can be reached such that the
\* rest of the route, the return included, is in time.  With several windows
\* a node the end may be too early, for the second half of them is never
\* looked at, but it is never too late.
DeadlineExact ==
  pc = "scan" /\ AllServable /\ AllWindowed =>
    \A chain \in Chains : \A k \in DOMAIN chain : \A t \in 0 .. Horizon :
      LET deadline == Latest(subroute_tws[chain[k]])
          rest == Suffix(chain, k)
      IN  /\ t <= deadline => CanServe(tws, rest, t, Horizon)
          /\ OneWindowEach /\ CanServe(tws, rest, t, Horizon) => t <= deadline

\* What a merge hands on along both routes leaves no customer with stale data.
MetaExact == ScheduleExact /\ DeadlineExact

\* One pass over the savings suffices: in the end no two routes can be joined.
\* With a shortcut a longer route may reach a customer earlier than its parts.
MergingMaximal ==
  pc = "build" /\ AllServable /\ OneWindowEach /\ NoShortcuts =>
    \A r, s \in Chains :
      \/ r = s
      \/ Load(r) + Load(s) > Capacity
      \/ ~CanServe(tws, <<0>> \o r \o s \o <<0>>, 0, Horizon)

\* With a window or two for every node, and IDs that happen to be the inner
\* indices, no assertion is met, so all solutions kept are feasible.
NeverAborts ==
  /\ AllServable /\ AllWindowed /\ IdsAreIndices
  /\ \A n \in Index : Len(tws[n]) <= 2
  => pc # "aborted"

\* IDs taken for inner indices never get as far as a genome whose giant tour is
\* not one of the customers: a depot whose ID is not its index fails the
\* assertion on the size of the tour for certain.
ToursOfCustomers ==
  /\ \A k \in DOMAIN genomes :
       Len(genomes[k]) = N /\ ToSet(genomes[k]) = Customers
  /\ ids[0] # 0 => pc # "done"

\* The arrays implement the abstract heuristic: every change of the chains is
\* the joining of two whole routes whose true joint demand fits a vehicle.
Merging == INSTANCE RouteMerging WITH routes <- Chains
ImplementsMerging == Merging!Spec

\* The heuristic ends: all walks, the scan, and the construction.
Termination == <>(pc \in {"done", "aborted"})

\* vrptw.c, vrptw_clark_wright: "assert (vrptw_solution_is_feasible (self,
\* sol))".  It is met when a node has no time windows: the list of sub-route
\* windows of the node is then empty, which reads as "no deadline".
SolutionsFeasible ==
  pc = "build" /\ idx > N /\ AllServable /\ IdsAreIndices =>
    SolutionIsFeasible(tws, sol)
=============================================================================
