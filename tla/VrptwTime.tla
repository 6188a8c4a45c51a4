------------------------------ MODULE VrptwTime ------------------------------
(***************************************************************************)
(* The arithmetic of time windows of src/src/vrptw.c: operators only.      *)
(* Nodes are inner indices, 0 the depot.  Times are of type size_t: sums   *)
(* and differences wrap at SIZE_NONE + 1, and SIZE_NONE itself stands for  *)
(* "none" (and is what listu_last answers for an empty list).  The flat    *)
(* list of bounds of a node is a sequence of pairs <<etw, ltw>> here.      *)
(***************************************************************************)
EXTENDS Integers, SequencesExt, Sums

CONSTANTS
  N,          \* num_customers
  Capacity,   \* capacity of every vehicle
  NumVehicles,
  Demand,     \* Demand[n], 0 for the depot
  Duration,   \* Duration[a, b]: vrptw_arc_duration
  Service,    \* Service[n]: service_duration
  SIZE_NONE   \* SIZE_MAX

Customers == 1 .. N
Index == 0 .. N

ASSUME NAssumption == N \in Nat \ {0}
ASSUME CapacityAssumption == Capacity \in Nat /\ NumVehicles \in Nat
ASSUME DemandAssumption == Demand \in [Index -> Nat] /\ Demand[0] = 0
ASSUME SIZE_NONEAssumption == SIZE_NONE \in Nat /\ SIZE_NONE > N
ASSUME DurationAssumption == Duration \in [Index \X Index -> 0 .. SIZE_NONE]
ASSUME ServiceAssumption == Service \in [Index -> 0 .. SIZE_NONE]

Plus(a, b) == (a + b) % (SIZE_NONE + 1)
Minus(a, b) == (a - b) % (SIZE_NONE + 1)

Later(a, b) == IF a > b THEN a ELSE b

Travel(a, b) == Duration[a, b]

Earliest(windows) == IF windows = <<>> THEN 0 ELSE windows[1][1]

Latest(windows) == IF windows = <<>> THEN SIZE_NONE ELSE Last(windows)[2]

\* Mutant: the service starts on arrival
ServiceTimeWithoutWait(windows, arrival) ==
  IF arrival > Latest(windows) THEN SIZE_NONE ELSE arrival

\* The first window that is not over yet decides
ServiceTime(windows, arrival) ==
  IF windows = <<>> THEN arrival
  ELSE IF arrival > Latest(windows) THEN SIZE_NONE
  ELSE LET k == SelectInSeq(windows, LAMBDA tw : arrival <= tw[2])
       IN  Later(arrival, windows[k][1])

\* tws[n] are the time windows of node n
DepartureTime(tws, node, predecessor, departure) ==
  LET arrival == Plus(departure, Travel(predecessor, node))
      service == ServiceTime(tws[node], arrival)
  IN  IF service = SIZE_NONE THEN SIZE_NONE ELSE Plus(service, Service[node])

DepotDeparture(tws) == Plus(Earliest(tws[0]), Service[0])

(***************************************************************************)
(* Windows of the sub-route that starts at a node, given those of the      *)
(* sub-route that starts at its successor.  The loop counts by two up to   *)
(* the number of windows, so it looks at the first half of them only.      *)
(***************************************************************************)
Considered(windows) == SubSeq(windows, 1, (Len(windows) + 1) \div 2)

LatestService(node, successor, successorTws) ==
  Minus(Minus(Latest(successorTws), Travel(node, successor)), Service[node])

\* Mutant: the travel to the successor is forgotten
SubrouteTwsAtSuccessor(tws, node, successor, successorTws) ==
  IF Latest(successorTws) = SIZE_NONE THEN tws[node]
  ELSE LET lst == Minus(Latest(successorTws), Service[node])
       IN  [k \in DOMAIN Considered(tws[node]) |->
              <<tws[node][k][1],
                IF tws[node][k][2] <= lst THEN tws[node][k][2] ELSE lst>>]

SubrouteTws(tws, node, successor, successorTws) ==
  IF Latest(successorTws) = SIZE_NONE THEN tws[node]
  ELSE
  LET lst == LatestService(node, successor, successorTws)
      considered == Considered(tws[node])
      cut == SelectInSeq(considered, LAMBDA tw : tw[2] > lst)
  IN  IF cut = 0 THEN considered
      ELSE Append(SubSeq(considered, 1, cut - 1), <<considered[cut][1], lst>>)

\* assert (earliest_tw <= latest_service_time) of the same loop
SubrouteTwsAborts(tws, node, successor, successorTws) ==
  LET lst == LatestService(node, successor, successorTws)
      cut == SelectInSeq(Considered(tws[node]), LAMBDA tw : tw[2] > lst)
  IN  /\ Latest(successorTws) # SIZE_NONE
      /\ cut > 0
      /\ tws[node][cut][1] > lst

(***************************************************************************)
(* vrptw_solution_is_feasible: capacity, then a walk along every route     *)
(* from the first to the last depot.                                       *)
(***************************************************************************)
Load(route) == SumOf([k \in DOMAIN route |-> Demand[route[k]]])

\* Departure times from the positions of a route; position 0 precedes it
Departures(tws, route) ==
  LET at(k) == route[IF k = 0 THEN 1 ELSE k]
      departure[k \in 0 .. Len(route)] ==
        IF k = 0 THEN Earliest(tws[0])
        ELSE DepartureTime(tws, at(k), at(k - 1), departure[k - 1])
  IN  departure

InTime(tws, route) ==
  LET at(k) == route[IF k = 0 THEN 1 ELSE k]
      departure == Departures(tws, route)
  IN  \A k \in DOMAIN route :
        Plus(departure[k - 1], Travel(at(k - 1), at(k))) <= Latest(tws[at(k)])

SolutionIsFeasible(tws, routes) ==
  \A k \in DOMAIN routes : Load(routes[k]) <= Capacity /\ InTime(tws, routes[k])

\* What vrptw_is_basically_solvable asks of one customer
ServableAlone(tws, c) ==
  LET arrival == Plus(DepotDeparture(tws), Travel(0, c))
      back == Plus(Plus(ServiceTime(tws[c], arrival), Service[c]), Travel(c, 0))
  IN  /\ Demand[c] <= Capacity
      /\ arrival <= Latest(tws[c])
      /\ back <= Latest(tws[0])

\* Its loop ends before the last customer
IsBasicallySolvable(tws) ==
  LET seen == 1 .. N - 1 IN
  /\ \A c \in seen : ServableAlone(tws, c)
  /\ MapThenSumSet(LAMBDA c : Demand[c], seen) <= Capacity * NumVehicles

-----------------------------------------------------------------------------
(***************************************************************************)
(* Reference: which routes can be served, by the sets of the possible      *)
(* service times, with unbounded arithmetic and without sentinels.         *)
(***************************************************************************)
IsOpen(windows, t) ==
  windows = <<>> \/ \E k \in DOMAIN windows : t \in windows[k][1] .. windows[k][2]

\* Some service times within 0 .. horizon serve the nodes in their order, when
\* the first one is reached at the given time
CanServe(tws, route, start, horizon) ==
  LET trip(k) == Service[route[k - 1]] + Travel(route[k - 1], route[k])
      times[k \in 1 .. Len(route)] ==
        {t \in 0 .. horizon :
           /\ IsOpen(tws[route[k]], t)
           /\ IF k = 1 THEN t >= start
              ELSE \E u \in times[k - 1] : t >= u + trip(k)}
  IN  times[Len(route)] # {}
=============================================================================
