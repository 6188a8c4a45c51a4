---------------------------- MODULE VrpDispatch ----------------------------
(***************************************************************************)
(* vrp_solve of src/src/vrp.c on a generic model: its validation, the      *)
(* attributes it collects in loops over the pending requests and the       *)
(* vehicles, the sub-model they select, and the constructors of the CVRP   *)
(* and the VRPTW, which rely on them.  Also the calls that complete the    *)
(* roadgraph and the fleet.  The requests are there from the beginning:    *)
(* VrpModel is about how they get there.                                   *)
(* Of coordinates, distances and durations only how far they are set is    *)
(* kept.  A request has the fields sender, receiver, quantity, and for     *)
(* each of its ends one time window [t, t], named t, or 0 if it has none.  *)
(* The attributes of a single receiver, which select nothing, are left out.*)
(***************************************************************************)
EXTENDS Integers, FiniteSets, SequencesExt

CONSTANTS
  ID_NONE,
  NumNodes,      \* nodes of a model that a caller builds
  RequestLists,  \* its pending requests, in the order of their IDs
  VehicleEnds,   \* pairs <<start node, end node>> of the vehicles it may add
  MaxCapacity,   \* their capacity
  MaxVehicles    \* bound: number of vehicles

ASSUME NumNodesAssumption == NumNodes \in Nat /\ ID_NONE \notin 0 .. NumNodes - 1
ASSUME RequestListsAssumption ==
  \A list \in RequestLists : \A k \in DOMAIN list :
    /\ {list[k].sender, list[k].receiver} \subseteq 0 .. NumNodes - 1 \cup {ID_NONE}
    /\ list[k].sender # list[k].receiver
    /\ list[k].sender = ID_NONE => list[k].sent = 0
    /\ list[k].receiver = ID_NONE => list[k].received = 0
ASSUME MaxCapacityAssumption == MaxCapacity \in Nat \ {0}
ASSUME MaxVehiclesAssumption == MaxVehicles \in Nat

VARIABLES
  nodes,       \* number of nodes
  coord_sys,   \* a coordinate system is set
  coords, distances, durations,  \* "none", "some" or "all" are set
  requests,
  lost,        \* the pending requests end with one of ID ID_NONE
  vehicles,    \* records of start, end, max_capacity and capacity
  model,       \* the sub-model that was constructed
  pc           \* "ready", "no_beeline" when the program stopped for want of
               \* coordinates, or how vrp_solve went on
roadgraph == <<nodes, coord_sys, coords, distances, durations>>
modelVars == <<roadgraph, requests, lost, vehicles, model, pc>>

NoModel == <<>>

ModelInit ==
  /\ coord_sys = FALSE
  /\ coords = "none" /\ distances = "none" /\ durations = "none"
  /\ vehicles = <<>>
  /\ model = NoModel

BuiltByCaller ==
  /\ ModelInit
  /\ nodes \in {0, NumNodes}
  /\ requests \in {list \in RequestLists : list = <<>> \/ nodes > 0}
  /\ lost \in (IF nodes > 0 THEN BOOLEAN ELSE {FALSE})
  /\ pc = "ready"

-----------------------------------------------------------------------------
(* The roadgraph *)

Building == pc = "ready" /\ nodes > 0
others == <<requests, lost, vehicles, model, pc>>

\* assert (self->coord_sys == CS_NONE)
SetCoordSys ==
  /\ Building /\ ~coord_sys
  /\ coord_sys' = TRUE
  /\ UNCHANGED <<nodes, coords, distances, durations, others>>

SetNodeCoord ==
  /\ Building
  /\ coords' \in (IF coords = "all" THEN {"all"} ELSE {"some", "all"})
  /\ UNCHANGED <<nodes, coord_sys, distances, durations, others>>

SetArcDistance ==
  /\ Building
  /\ distances' \in (IF distances = "all" THEN {"all"} ELSE {"some", "all"})
  /\ UNCHANGED <<nodes, coord_sys, coords, durations, others>>

\* A single node is at distance 0 of itself, whatever is set
GenerateBeeline ==
  /\ Building
  /\ nodes > 1 => coord_sys
  /\ distances' = "all"
  /\ UNCHANGED <<nodes, coord_sys, coords, durations, others>>

\* assert (self->coord_sys != ID_NONE) passes without a coordinate system, but
\* coord2d_distance of the second node then ends in assert (false); of a missing
\* coordinate it may be no number, and assert (distance >= 0) fails
BeelineAborts ==
  /\ Building /\ nodes > 1
  /\ ~coord_sys \/ coords # "all"
  /\ distances' = IF distances = "all" THEN "all" ELSE "some"
  /\ pc' = "no_beeline"
  /\ UNCHANGED <<nodes, coord_sys, coords, durations, requests, lost, vehicles, model>>

SetArcDuration ==
  /\ Building
  /\ durations' \in (IF durations = "all" THEN {"all"} ELSE {"some", "all"})
  /\ UNCHANGED <<nodes, coord_sys, coords, distances, others>>

GenerateDurations ==
  /\ Building /\ distances # "none"
  /\ durations' = "all"
  /\ UNCHANGED <<nodes, coord_sys, coords, distances, others>>

RoadgraphStep ==
  \/ SetCoordSys \/ SetNodeCoord \/ SetArcDistance \/ GenerateBeeline
  \/ BeelineAborts \/ SetArcDuration \/ GenerateDurations

-----------------------------------------------------------------------------
(* The fleet *)

NewVehicle(start, end, capacity) ==
  [start |-> start, end |-> end, max_capacity |-> capacity, capacity |-> capacity]

Fleet(new) ==
  /\ pc = "ready"
  /\ vehicles' = new
  /\ UNCHANGED <<roadgraph, requests, lost, model, pc>>

AddVehicle ==
  /\ Len(vehicles) < MaxVehicles
  /\ \E e \in VehicleEnds :
       /\ nodes > 0 \/ e = <<ID_NONE, ID_NONE>>
       /\ Fleet(Append(vehicles, NewVehicle(e[1], e[2], MaxCapacity)))

\* vrp_vehicle_do_pickup, vrp_vehicle_do_delivery
DoPickup ==
  \E v \in DOMAIN vehicles : \E quantity \in 1 .. vehicles[v].capacity :
    Fleet([vehicles EXCEPT ![v].capacity = @ - quantity])

DoDelivery ==
  \E v \in DOMAIN vehicles :
    \E quantity \in 1 .. vehicles[v].max_capacity - vehicles[v].capacity :
      Fleet([vehicles EXCEPT ![v].capacity = @ + quantity])

ResetCapacity ==
  \E v \in DOMAIN vehicles :
    Fleet([vehicles EXCEPT ![v].capacity = vehicles[v].max_capacity])

ResetAllCapacities ==
  Fleet([v \in DOMAIN vehicles |->
           [vehicles[v] EXCEPT !.capacity = vehicles[v].max_capacity]])

FleetStep ==
  AddVehicle \/ DoPickup \/ DoDelivery \/ ResetCapacity \/ ResetAllCapacities

-----------------------------------------------------------------------------
(* Validation *)

\* A missing duration is compared as an unsigned number with the double that
\* stands for "none", and never found missing
ValidRoadgraph ==
  /\ nodes > 0
  /\ coord_sys => coords = "all"
  /\ distances # "some"

ValidFleet == vehicles # <<>>

HasWindows(r) == r.sent # 0 \/ r.received # 0

\* With an arc duration of 1; an unset one is any number
MayClash(r) ==
  r.sent # 0 /\ r.received # 0 /\ (durations = "some" \/ r.sent + 1 > r.received)
MayFit(r) ==
  r.sent = 0 \/ r.received = 0 \/ durations = "some" \/ r.sent + 1 <= r.received

\* Why the loop over the requests may return false
MayBeRefused(r) == HasWindows(r) /\ (durations = "none" \/ MayClash(r))
MayPass(r) == ~HasWindows(r) \/ (durations # "none" /\ MayFit(r))

MayBeInvalid ==
  \/ ~ValidRoadgraph \/ ~ValidFleet
  \/ requests = <<>> /\ ~lost
  \/ \E k \in DOMAIN requests :
       MayBeRefused(requests[k]) /\ \A l \in 1 .. k - 1 : MayPass(requests[l])

\* The loop comes to an end, or to the request without ID
MayReachEnd ==
  /\ ValidRoadgraph /\ ValidFleet
  /\ requests # <<>> \/ lost
  /\ \A k \in DOMAIN requests : MayPass(requests[k])

-----------------------------------------------------------------------------
(* vrp_collect_attributes *)

\* Mutant: the last node decides
OneNodeSoFarOfLast(a, node) ==
  LET id == IF a.id = ID_NONE THEN node ELSE a.id
  IN  [id |-> id, same |-> node = id]

\* The idiom of its loops: the first node that is set, and whether every node
\* from there on is that one
OneNodeSoFar(a, node) ==
  LET id == IF a.id = ID_NONE THEN node ELSE a.id
  IN  [id |-> id, same |-> a.same /\ node = id]

OneNode(ids) == FoldLeft(OneNodeSoFar, [id |-> ID_NONE, same |-> TRUE], ids)

Senders(list) == [k \in DOMAIN list |-> list[k].sender]
Starts(list) == [v \in DOMAIN list |-> list[v].start]
Ends(list) == [v \in DOMAIN list |-> list[v].end]

\* Mutant: that a request has windows is noted behind the comparison
DefinedBefore(a, r) == a.defined

DefinedSoFar(a, r) == a.defined \/ HasWindows(r)

\* The windows at the sender, compared with those of the first request once
\* any window has been seen and while there is one sender only
SenderWindowsSame(list) ==
  LET loop(a, r) ==
        LET sender == OneNodeSoFar(a.sender, r.sender)
        IN  [sender |-> sender, defined |-> a.defined \/ HasWindows(r),
             same |-> a.same /\ (sender.same /\ DefinedSoFar(a, r)
                                  => list[1].sent = r.sent)]
  IN  FoldLeft(loop, [sender |-> [id |-> ID_NONE, same |-> TRUE],
                      defined |-> FALSE, same |-> TRUE], list).same

Attributes(reqs, fleet) ==
  LET sender == OneNode(Senders(reqs))
      start == OneNode(Starts(fleet))
      end == OneNode(Ends(fleet))
  IN  [distances |-> distances # "none",
       durations |-> durations # "none",
       single_sender |-> sender.same,
       all_pickup_and_delivery |->
         \A k \in DOMAIN reqs : ID_NONE \notin {reqs[k].sender, reqs[k].receiver},
       all_visits_without_goods |->
         \A k \in DOMAIN reqs : /\ ID_NONE \in {reqs[k].sender, reqs[k].receiver}
                                /\ reqs[k].quantity = 0,
       time_windows |-> \E k \in DOMAIN reqs : HasWindows(reqs[k]),
       sender_windows_same |-> SenderWindowsSame(reqs),
       single_vehicle |-> Len(fleet) = 1,
       same_capacity |-> \A v \in DOMAIN fleet : fleet[v].capacity = fleet[1].capacity,
       start_at_sender |-> /\ sender.same /\ start.same
                           /\ start.id \in {ID_NONE, sender.id},
       end_at_sender |-> sender.same /\ end.same /\ end.id = sender.id]

IsTsp(attr) ==
  /\ attr.distances /\ attr.single_vehicle
  /\ attr.all_visits_without_goods /\ ~attr.time_windows

\* Neither this nor the next one looks at the capacities
IsCvrp(attr) ==
  /\ attr.distances
  /\ attr.all_pickup_and_delivery /\ ~attr.time_windows
  /\ attr.single_sender /\ attr.start_at_sender /\ attr.end_at_sender

IsVrptw(attr) ==
  /\ attr.distances /\ attr.durations
  /\ attr.all_pickup_and_delivery /\ attr.time_windows
  /\ attr.single_sender /\ attr.start_at_sender /\ attr.end_at_sender

Submodel(reqs, fleet) ==
  LET attr == Attributes(reqs, fleet)
  IN  CASE IsTsp(attr) -> "tsp"
        [] ~IsTsp(attr) /\ IsCvrp(attr) -> "cvrp"
        [] ~IsTsp(attr) /\ ~IsCvrp(attr) /\ IsVrptw(attr) -> "vrptw"
        [] OTHER -> "unsupported"

-----------------------------------------------------------------------------
(* cvrp_new_from_generic, vrptw_new_from_generic *)

Receivers == {requests[k].receiver : k \in DOMAIN requests} \ {ID_NONE}

\* The array of nodes has room for the receivers and takes one per request
Overruns == Len(requests) > Cardinality(Receivers)

\* assert (self->nodes[0].id == vrp_request_sender (vrp, request))
ConstructorAborts == \E k \in DOMAIN requests : requests[k].sender # requests[1].sender

NewModel ==
  [depot |-> requests[1].sender,
   customers |-> [k \in DOMAIN requests |-> requests[k].receiver],
   capacity |-> vehicles[1].capacity,
   depot_window |-> requests[1].sent]

SolveReturns(how) ==
  /\ pc = "ready"
  /\ pc' = how
  /\ UNCHANGED <<roadgraph, requests, lost, vehicles>>

SolveInvalid == MayBeInvalid /\ SolveReturns("invalid") /\ UNCHANGED model

\* assert (request) of vrp_request for the ID ID_NONE
SolveAborts == MayReachEnd /\ lost /\ SolveReturns("aborted") /\ UNCHANGED model

SolveBySubmodel ==
  LET kind == Submodel(requests, vehicles) IN
  /\ MayReachEnd /\ ~lost
  /\ \/ kind \in {"tsp", "unsupported"} /\ SolveReturns(kind) /\ UNCHANGED model
     \/ /\ kind \in {"cvrp", "vrptw"} /\ Overruns
        /\ SolveReturns("overrun") /\ UNCHANGED model
     \/ /\ kind \in {"cvrp", "vrptw"} /\ ~Overruns
        /\ SolveReturns(IF ConstructorAborts THEN "aborted" ELSE kind)
        /\ model' = IF ConstructorAborts THEN NoModel ELSE NewModel

SolveStep == SolveInvalid \/ SolveAborts \/ SolveBySubmodel
=============================================================================
