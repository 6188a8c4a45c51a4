-------------------------------- MODULE Tsp --------------------------------
(***************************************************************************)
(* The TSP sub-model of src/src/tsp.c: its construction from the pending   *)
(* requests and the vehicle of a generic model, and tsp_solve.             *)
(***************************************************************************)
EXTENDS TourSearch

CONSTANTS
  RequestLists,     \* lists of pending requests <<sender, receiver>>
  Fleet,            \* pairs <<start node, end node>> of the vehicle
  SMALL_NUM_NODES   \* 60 in the code

ASSUME RequestListsAssumption ==
  \A list \in RequestLists :
    /\ list \in Seq((Nodes \cup {ID_NONE}) \X (Nodes \cup {ID_NONE}))
    /\ \A k \in DOMAIN list : list[k] # <<ID_NONE, ID_NONE>>
ASSUME FleetAssumption == Fleet \subseteq (Nodes \cup {ID_NONE}) \X (Nodes \cup {ID_NONE})
ASSUME SMALL_NUM_NODESAssumption == SMALL_NUM_NODES \in Nat /\ SMALL_NUM_NODES > 1

VARIABLE requests   \* the pending requests of the generic model

TspInit ==
  /\ solver = "tsp"
  /\ requests \in RequestLists
  /\ \E vehicle \in Fleet : start_node = vehicle[1] /\ end_node = vehicle[2]

\* One node per request: its sender, or its receiver if it has no sender
VisitOf(request) == IF request[1] # ID_NONE THEN request[1] ELSE request[2]

AddedOnce(list, node) ==
  IF node = ID_NONE \/ Contains(list, node) THEN list ELSE Append(list, node)

\* The start and then the nodes of the requests, each when it is first named
Listed(start, list) ==
  LET added[k \in 0 .. Len(list)] ==
        IF k = 0 THEN Given(start) ELSE AddedOnce(added[k - 1], VisitOf(list[k]))
  IN  added[Len(list)]

\* Mutant: the fixed end is left among the nodes to reorder
UnfixedEndOpen == Minus(Len(template'), 1)

UnfixedEnd == Minus(Len(template'), IF end_node = ID_NONE THEN 1 ELSE 2)

\* tsp_new_from_generic
TspNew ==
  /\ solver = "tsp" /\ pc = "build"
  /\ template' = AddedOnce(Listed(start_node, requests), end_node)
  /\ unfixed_begin' = IF start_node = ID_NONE THEN 0 ELSE 1
  /\ unfixed_end' = UnfixedEnd
  /\ pc' = IF unfixed_begin' <= unfixed_end' THEN "ready" ELSE "aborted"
  /\ UNCHANGED <<solver, ends, requests, genomes, search, solves>>

IsRoundTrip == start_node # ID_NONE /\ end_node # ID_NONE /\ start_node = end_node

NumNodes == Len(template) - (IF IsRoundTrip THEN 1 ELSE 0)

\* Nothing to be reordered: the template is the solution
IsTrivial ==
  \/ NumNodes <= 1
  \/ NumNodes = 2 /\ (start_node # ID_NONE \/ end_node # ID_NONE)

SolvesBy(next) ==
  /\ solver = "tsp" /\ pc = "ready"
  /\ solves' = solves + 1
  /\ pc' = next
  /\ UNCHANGED <<solver, ends, requests, template, window, genomes>>

\* tsp_solve_small_model, whose solution has no route when there is no node
TspSolveTrivial ==
  /\ NumNodes <= SMALL_NUM_NODES /\ IsTrivial
  /\ SolvesBy("done")
  /\ TwoOptOf(IF NumNodes = 0 THEN <<>> ELSE template)

TspSolveSmall ==
  /\ NumNodes <= SMALL_NUM_NODES /\ ~IsTrivial
  /\ SolvesBy("2_opt")
  /\ TwoOptOf(template)

TspSolve ==
  /\ NumNodes > SMALL_NUM_NODES
  /\ SolvesBy("evolve")
  /\ UNCHANGED search

\* tsp_sweep: the fixed ends around the nodes in between, sorted by angle
TspSweep ==
  /\ solver = "tsp" /\ Evolving
  /\ \E sorted \in SortedBy(Slice(template, unfixed_begin, unfixed_end), Angle) :
       Join(Given(start_node) \o sorted \o Given(end_node))
  /\ UNCHANGED requests

\* The educator of tsp_solve: the first improving reversal of a genome, if any
TspEducate ==
  /\ solver = "tsp" /\ Evolving
  /\ \E r \in genomes : \E m \in First({m \in Slices(r) : Improves(r, m)}) :
       Population((genomes \ {r}) \cup {ReverseSlice(r, m[1], m[2])})
  /\ UNCHANGED requests

TspStep ==
  \/ TspNew \/ TspSolveTrivial \/ TspSolveSmall \/ TspSolve
  \/ TspSweep \/ TspEducate
=============================================================================
