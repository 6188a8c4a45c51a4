----------------------------- MODULE VrpSolve -----------------------------
(***************************************************************************)
(* A model from its origin to vrp_solve: either a caller completes a       *)
(* roadgraph and a fleet around its requests, or vrp_new_from_file         *)
(* (src/src/vrp.c) reads a benchmark file and builds all of it, and the    *)
(* model goes to vrp_solve as it is.                                       *)
(***************************************************************************)
EXTENDS VrpFile, VrpDispatch, Functions

vars == <<fileVars, modelVars>>

BuiltFromFile ==
  /\ ModelInit
  /\ nodes = 0 /\ requests = <<>> /\ lost = FALSE
  /\ pc = "file"

Init ==
  /\ FileInit
  /\ IF file = <<>> THEN BuiltByCaller ELSE BuiltFromFile

ReadFile == pc = "file" /\ FileStep /\ UNCHANGED modelVars

AnyRequest == [sender |-> ID_NONE, receiver |-> ID_NONE, quantity |-> 0,
               sent |-> 0, received |-> 0]

\* Demands make the first node a depot; without them every node is visited,
\* the first one as well
FileRequests ==
  IF has_demands
  THEN [k \in 1 .. num_nodes - 1 |->
          [AnyRequest EXCEPT !.sender = 0, !.receiver = k, !.quantity = 1]]
  ELSE [k \in 1 .. num_nodes |-> [AnyRequest EXCEPT !.receiver = k - 1]]

\* K is the number behind the last k of the file's name
FileVehicles(K) ==
  IF has_demands
  THEN [v \in 1 .. K |-> NewVehicle(0, 0, MaxCapacity)]
  ELSE <<NewVehicle(ID_NONE, ID_NONE, MaxCapacity)>>

CellsSet == {a \in Cells : a[1] # a[2]} \subseteq DOMAIN costs

\* What an entry that was not set compares like is up to the matrix
BuildFromFile ==
  /\ pc = "file" /\ reading = "read"
  /\ \/ /\ nodes' = num_nodes
        /\ coord_sys' = (edge_weight_type = "EUC_2D" /\ has_coords)
        /\ coords' = IF has_coords THEN "all" ELSE "none"
        /\ distances' = IF CellsSet THEN "all" ELSE "some"
        /\ requests' = FileRequests
        /\ \E K \in FleetSizes : vehicles' = FileVehicles(K)
        /\ pc' = "ready"
     \* assert (distance >= 0) of vrp_set_arc_distance
     \/ /\ ~CellsSet
        /\ pc' = "aborted"
        /\ UNCHANGED <<nodes, coord_sys, coords, distances, requests, vehicles>>
  /\ UNCHANGED <<fileVars, durations, lost, model>>

\* Named bound: the model of a file is solved as it is
ByCaller == file = <<>> /\ (RoadgraphStep \/ FleetStep) /\ UNCHANGED fileVars

Solve == SolveStep /\ UNCHANGED fileVars

Next == ReadFile \/ BuildFromFile \/ ByCaller \/ Solve

Spec == Init /\ [][Next]_vars

-----------------------------------------------------------------------------
(* Properties *)

Dispatched == pc \in {"cvrp", "vrptw"}

\* A model that reaches the CVRP or the VRPTW (is_cvrp, is_vrptw and the
\* constructors, cvrp.c:1123, vrptw.c:1277) has all distances, one depot that
\* sends every request and at which every vehicle starts and ends, as far as it
\* says where, one request per customer, and time windows exactly if it is the
\* VRPTW's.  The array of nodes overruns exactly if two requests share a receiver.
\* Once the model is built, an assertion fails only for a request that is not
\* there, and in the reader of files only for a missing distance; beeline distances
\* that a caller asks for without coordinates stop the program earlier ("no_beeline").
SubmodelSound ==
  /\ Dispatched =>
       /\ distances = "all"
       /\ \A k \in DOMAIN requests : requests[k].sender = model.depot
       /\ \A v \in DOMAIN vehicles :
            {vehicles[v].start, vehicles[v].end} \subseteq {model.depot, ID_NONE}
       /\ Last(vehicles).end = model.depot
       /\ IsInjective(model.customers)
       /\ ToSet(model.customers) \subseteq 0 .. nodes - 1 \ {model.depot}
       /\ pc = "vrptw" <=> \E k \in DOMAIN requests : HasWindows(requests[k])
       /\ pc = "vrptw" => durations # "none"
  /\ pc = "overrun" => \E k, l \in DOMAIN requests :
       k < l /\ requests[k].receiver = requests[l].receiver
  /\ pc = "aborted" => lost \/ (file # <<>> /\ ~CellsSet)

Orders(list) ==
  {[k \in DOMAIN list |-> list[p[k]]] :
     p \in {p \in [DOMAIN list -> DOMAIN list] : IsInjective(p)}}

AllOrNone(ids) == ToSet(ids) = {ID_NONE} \/ ID_NONE \notin ToSet(ids)

\* The early decisions of vrp_collect_attributes (vrp.c:1468): which sub-model a
\* model is taken for does not depend on the order of its requests, nor on the
\* order of its vehicles if either all or none of them have a start, or an end.
DispatchOrderFree ==
  pc = "ready" =>
    LET kind == Submodel(requests, vehicles) IN
    /\ \A reqs \in Orders(requests) : Submodel(reqs, vehicles) = kind
    /\ AllOrNone(Starts(vehicles)) /\ AllOrNone(Ends(vehicles)) =>
         \A fleet \in Orders(vehicles) : Submodel(requests, fleet) = kind

\* time_windows_are_same_for_single_sender (vrp.c:1513), which no sub-model looks
\* at, tells exactly whether the depot's window, which vrptw_new_from_generic takes
\* from the first request, is the one that every request asks of the depot.
SenderWindowsExact ==
  pc = "vrptw" =>
    (Attributes(requests, vehicles).sender_windows_same
     <=> \A k \in DOMAIN requests : requests[k].sent = model.depot_window)

FileIndex(block) == SelectInSeq(file, LAMBDA b : b = block)
ComesBefore(block, other) ==
  FileIndex(block) # 0 /\ FileIndex(block) < FileIndex(other)

\* The entries of the weight section can be placed: both keywords precede it, and
\* no section that numbers nodes does
WellOrdered ==
  /\ ComesBefore("EXPLICIT", "EDGE_WEIGHT_SECTION")
  /\ ComesBefore("LOWROW", "EDGE_WEIGHT_SECTION")
  /\ ComesBefore("DIMENSION", "EDGE_WEIGHT_SECTION")
  /\ ~ComesBefore("NODE_COORD_SECTION", "EDGE_WEIGHT_SECTION")
  /\ ~ComesBefore("DEMAND_SECTION", "EDGE_WEIGHT_SECTION")

Triangular ==
  [a \in Cells |-> IF a[1] = a[2] THEN Zero
                   ELSE IF a[1] > a[2] THEN Weight(a[1], a[2]) ELSE Weight(a[2], a[1])]

Are(matrix) == \A a \in Cells : a \in DOMAIN costs /\ costs[a] = matrix[a]

\* Of a file that is read (vrp.c:363), every distance is the file's exactly if its
\* type is EUC_2D or its sections come in the order the reader takes for granted;
\* a matrix that is not the file's is never complete, so that the model is refused
\* and no wrong distance is used.
FileFaithful ==
  reading = "read" =>
    /\ edge_weight_type = "EUC_2D" => Are(WithEuclid)
    /\ edge_weight_type # "EUC_2D" =>
         /\ WellOrdered => Are(Triangular)
         /\ ~WellOrdered => ~CellsSet
    /\ pc \notin {"file", "ready", "aborted", "invalid"} => CellsSet
=============================================================================
