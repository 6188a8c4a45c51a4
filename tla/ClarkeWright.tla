---------------------------- MODULE ClarkeWright ----------------------------
(***************************************************************************)
(* The parallel savings heuristic of src/src/cvrp.c                        *)
(* (cvrp_clark_wright_parallel, called once per lambda by                  *)
(* cvrp_clark_wright on the same arrays).  Routes exist only implicitly,   *)
(* in the arrays predecessors, successors and route_demands; the latter is *)
(* kept up to date at the two ends of a route only.  Customers are the     *)
(* inner indices 1..N, index 0 is the depot and the end of a chain; their  *)
(* IDs in the roadgraph are taken to be the same numbers.                  *)
(* Each step of the two while loops that walk a chain is a step here.      *)
(***************************************************************************)
EXTENDS Integers, SequencesExt, ImplicitRoutes, Sums

CONSTANTS
  N,           \* num_customers
  Capacity,    \* capacity of a vehicle
  Demand,      \* Demand[c]: nodes[c].demand
  Dist,        \* Dist[i, j]: arc distance between inner indices
  FirstLambda, \* lambda runs over FirstLambda .. LastLambda, in tenths
  LastLambda

Customers == 1 .. N
Index == 0 .. N

ASSUME NAssumption == N \in Nat \ {0}
ASSUME CapacityAssumption == Capacity \in Nat
ASSUME DemandAssumption == Demand \in [Customers -> Nat]
ASSUME DistAssumption == Dist \in [Index \X Index -> Nat]
ASSUME LambdaAssumption ==
  FirstLambda \in Nat /\ LastLambda \in Nat /\ FirstLambda <= LastLambda

VARIABLES
  pc,            \* where the code is: see PCs
  lambda,        \* tenths
  savings,       \* pairs <<c1, c2>> of the sorted array not yet reached
  predecessors, successors, route_demands,
  c1, c2,        \* the pair under consideration (0: none)
  first_visit,   \* first customer of c1's route, once the walk has ended
  last_visit,    \* last customer of c2's route, once the walk has ended
  idx,           \* next customer of the construction loop
  sol,           \* routes appended to the solution, without the depots
  genomes        \* giant tours of the solutions kept so far

arrays == <<predecessors, successors, route_demands>>
walkers == <<c1, c2, first_visit, last_visit>>
vars == <<pc, lambda, savings, arrays, walkers, idx, sol, genomes>>

PCs == {"scan", "walk_back", "walk_forward", "build", "done"}

Pairs == {p \in Customers \X Customers : p[1] # p[2]}

Fresh == [c \in Customers |-> 0]

Init ==
  /\ pc = "scan"
  /\ lambda = FirstLambda
  /\ savings = Pairs
  /\ predecessors = Fresh /\ successors = Fresh /\ route_demands = Demand
  /\ c1 = 0 /\ c2 = 0 /\ first_visit = 0 /\ last_visit = 0
  /\ idx = 1
  /\ sol = <<>>
  /\ genomes = <<>>

Saving(p) == 10 * (Dist[p[1], 0] + Dist[0, p[2]]) - lambda * Dist[p[1], p[2]]

\* qsort is not stable: equal savings come in any order
IsNextSaving(p) == p \in savings /\ \A q \in savings : Saving(q) <= Saving(p)

\* Mutant: only customers that are alone on their routes are linked
CanLinkSingle(p) ==
  \A k \in {1, 2} : successors[p[k]] = 0 /\ predecessors[p[k]] = 0

CanLink(p) == successors[p[1]] = 0 /\ predecessors[p[2]] = 0

SkipSaving(p) ==
  /\ pc = "scan"
  /\ IsNextSaving(p)
  /\ ~CanLink(p)
  /\ savings' = savings \ {p}
  /\ UNCHANGED <<pc, lambda, arrays, walkers, idx, sol, genomes>>

TakeSaving(p) ==
  /\ pc = "scan"
  /\ IsNextSaving(p)
  /\ CanLink(p)
  /\ savings' = savings \ {p}
  /\ c1' = p[1] /\ c2' = p[2]
  /\ first_visit' = p[1]
  /\ pc' = "walk_back"
  /\ UNCHANGED <<lambda, arrays, last_visit, idx, sol, genomes>>

WalkBack ==
  /\ pc = "walk_back"
  /\ predecessors[first_visit] # 0
  /\ first_visit' = predecessors[first_visit]
  /\ UNCHANGED <<pc, lambda, savings, arrays, c1, c2, last_visit, idx, sol, genomes>>

\* Mutant: the demands of the customers, not of their routes
NewDemandOfNodes == Demand[c1] + Demand[c2]

NewDemand == route_demands[c1] + route_demands[c2]

\* Mutant: no check
SameRouteUnchecked == FALSE

SameRoute == first_visit = c2

\* A continue of the loop: the locals of the iteration are gone
EndIteration ==
  /\ pc' = "scan"
  /\ c1' = 0 /\ c2' = 0 /\ first_visit' = 0 /\ last_visit' = 0

Reject ==
  /\ pc = "walk_back"
  /\ predecessors[first_visit] = 0
  /\ SameRoute \/ NewDemand > Capacity
  /\ EndIteration
  /\ UNCHANGED <<lambda, savings, arrays, idx, sol, genomes>>

\* Mutant: c1 does not learn of its successor
MergeOneSided ==
  /\ pc = "walk_back"
  /\ predecessors[first_visit] = 0
  /\ ~SameRoute
  /\ NewDemand <= Capacity
  /\ predecessors' = [predecessors EXCEPT ![c2] = c1]
  /\ last_visit' = c2
  /\ pc' = "walk_forward"
  /\ UNCHANGED <<lambda, savings, successors, route_demands, c1, c2,
                 first_visit, idx, sol, genomes>>

Merge ==
  /\ pc = "walk_back"
  /\ predecessors[first_visit] = 0
  /\ ~SameRoute
  /\ NewDemand <= Capacity
  /\ predecessors' = [predecessors EXCEPT ![c2] = c1]
  /\ successors' = [successors EXCEPT ![c1] = c2]
  /\ last_visit' = c2
  /\ pc' = "walk_forward"
  /\ UNCHANGED <<lambda, savings, route_demands, c1, c2, first_visit, idx, sol, genomes>>

\* Mutant: the walk does not stop at the last customer
WalkForwardTooFar ==
  /\ pc = "walk_forward"
  /\ last_visit' = successors[last_visit]
  /\ UNCHANGED <<pc, lambda, savings, arrays, c1, c2, first_visit, idx, sol, genomes>>

WalkForward ==
  /\ pc = "walk_forward"
  /\ successors[last_visit] # 0
  /\ last_visit' = successors[last_visit]
  /\ UNCHANGED <<pc, lambda, savings, arrays, c1, c2, first_visit, idx, sol, genomes>>

\* Mutant: the demand is recorded at the first customer only
RecordDemandAtFirst ==
  /\ pc = "walk_forward"
  /\ successors[last_visit] = 0
  /\ route_demands' = [route_demands EXCEPT ![first_visit] = NewDemand]
  /\ EndIteration
  /\ UNCHANGED <<lambda, savings, predecessors, successors, idx, sol, genomes>>

RecordDemand ==
  /\ pc = "walk_forward"
  /\ successors[last_visit] = 0
  /\ route_demands' = [route_demands EXCEPT ![first_visit] = NewDemand,
                                            ![last_visit] = NewDemand]
  /\ EndIteration
  /\ UNCHANGED <<lambda, savings, predecessors, successors, idx, sol, genomes>>

StartBuild ==
  /\ pc = "scan"
  /\ savings = {}
  /\ pc' = "build"
  /\ UNCHANGED <<lambda, savings, arrays, walkers, idx, sol, genomes>>

\* The customers from c on, following successors
ChainFrom(c) == ChainAlong(successors, N, c)

\* Mutant: routes are built from their last customers
IsFirstReversed(c) == successors[c] = 0

IsFirst(c) == predecessors[c] = 0

BuildRoute ==
  /\ pc = "build"
  /\ idx <= N
  /\ sol' = IF IsFirst(idx) THEN Append(sol, ChainFrom(idx)) ELSE sol
  /\ idx' = idx + 1
  /\ UNCHANGED <<pc, lambda, savings, arrays, walkers, genomes>>

\* cvrp_giant_tour_from_solution and giant_tour_hash
GTour == FlattenSeq(sol)
HashOf(gtour) == MapThenSumSet(LAMBDA k : gtour[k] * (k - 1), DOMAIN gtour)

\* A solution whose hash is known is dropped as a duplicate
Kept ==
  IF \E k \in DOMAIN genomes : HashOf(genomes[k]) = HashOf(GTour)
  THEN genomes ELSE Append(genomes, GTour)

\* Mutant: the demands of the previous lambda's routes are kept
NextLambdaStale ==
  /\ pc = "build"
  /\ idx > N
  /\ lambda < LastLambda
  /\ lambda' = lambda + 1
  /\ pc' = "scan"
  /\ savings' = Pairs
  /\ predecessors' = Fresh /\ successors' = Fresh
  /\ idx' = 1
  /\ sol' = <<>>
  /\ genomes' = Kept
  /\ UNCHANGED <<route_demands, walkers>>

\* The loop of cvrp_clark_wright: the same arrays serve the next lambda
NextLambda ==
  /\ pc = "build"
  /\ idx > N
  /\ lambda < LastLambda
  /\ lambda' = lambda + 1
  /\ pc' = "scan"
  /\ savings' = Pairs
  /\ predecessors' = Fresh /\ successors' = Fresh /\ route_demands' = Demand
  /\ idx' = 1
  /\ sol' = <<>>
  /\ genomes' = Kept
  /\ UNCHANGED walkers

Finish ==
  /\ pc = "build"
  /\ idx > N
  /\ lambda = LastLambda
  /\ genomes' = Kept
  /\ pc' = "done"
  /\ UNCHANGED <<lambda, savings, arrays, walkers, idx, sol>>

Next ==
  \/ \E p \in Pairs : SkipSaving(p) \/ TakeSaving(p)
  \/ WalkBack \/ Reject \/ Merge \/ WalkForward \/ RecordDemand
  \/ StartBuild \/ BuildRoute \/ NextLambda \/ Finish

Spec == Init /\ [][Next]_vars

\* A single thread runs the heuristic to its end
FairSpec == Spec /\ WF_vars(Next)

-----------------------------------------------------------------------------
(***************************************************************************)
(* Properties                                                              *)
(***************************************************************************)

\* Type invariant; the locals of an iteration are set exactly while it runs.
TypeOK ==
  /\ pc \in PCs
  /\ lambda \in FirstLambda .. LastLambda
  /\ savings \subseteq Pairs
  /\ predecessors \in [Customers -> Index]
  /\ successors \in [Customers -> Index]
  /\ route_demands \in [Customers -> Nat]
  /\ c1 \in Index /\ c2 \in Index
  /\ first_visit \in Index /\ last_visit \in Index
  /\ pc \in {"walk_back", "walk_forward"} => 0 \notin {c1, c2, first_visit}
  /\ pc = "walk_forward" => last_visit # 0
  /\ idx \in 1 .. N + 1

\* The two arrays describe the same chains: c2 follows c1 exactly when c1
\* precedes c2, in every state, so no customer has two neighbours on a side.
LinksInverse ==
  \A a, b \in Customers : successors[a] = b <=> predecessors[b] = a

\* No sequence of merges ever closes a cycle: every set of customers has a
\* member whose successor is outside of it.  Otherwise the while loops and
\* the construction would not end, and a cycle has no first customer, so its
\* customers would be missing from the solution.
Acyclic ==
  \A S \in SUBSET Customers : S # {} => \E c \in S : successors[c] \notin S

\* During the walk towards the first customer of c1's route, the customers
\* passed so far are closed under successors, and under predecessors but for
\* the one reached last; c2 is among them only if the walk has ended there.
WalkedOver(T) ==
  /\ c1 \in T /\ first_visit \in T
  /\ c2 \in T => first_visit = c2
  /\ \A x \in T : successors[x] # 0 => successors[x] \in T
  /\ \A x \in T : x # first_visit => predecessors[x] \in T

WalkConsistent ==
  pc = "walk_back" =>
    /\ successors[c1] = 0 /\ predecessors[c2] = 0
    /\ \E T \in SUBSET Customers : WalkedOver(T)

\* The inductive invariant: why the comparison of first_visit with c2 is
\* enough to keep the chains free of cycles.
ChainInv == TypeOK /\ LinksInverse /\ Acyclic /\ WalkConsistent

Load(chain) == SumOf([k \in DOMAIN chain |-> Demand[chain[k]]])

Chains == ChainsOf(successors, predecessors, N)

\* route_demands is stale for inner customers, but whenever the next saving is
\* read it holds the true demand of a route at both of its ends, the only
\* entries the capacity check reads.
EndDemandsExact ==
  pc = "scan" =>
    \A chain \in Chains :
      \A c \in {chain[1], chain[Len(chain)]} : route_demands[c] = Load(chain)

\* One pass over the savings suffices: a pair that was skipped or rejected can
\* never become mergeable, so in the end no two routes fit one vehicle.
MaximalMerging ==
  pc \in {"build", "done"} =>
    \A r, s \in Chains : r # s => Load(r) + Load(s) > Capacity

\* The solution serves every customer exactly once, and no route is empty
\* (cvrp_giant_tour_from_solution asserts the count).
SolutionServesAll ==
  (pc = "build" /\ idx = N + 1) \/ pc = "done" =>
    \A c \in Customers :
      Cardinality({v \in (1 .. Len(sol)) \X (1 .. N) :
                     v[2] <= Len(sol[v[1]]) /\ sol[v[1]][v[2]] = c}) = 1

\* The arrays implement the abstract heuristic: every change of the chains is
\* the joining of two whole routes whose true joint demand fits a vehicle.
Merging == INSTANCE RouteMerging WITH routes <- Chains
ImplementsMerging == Merging!Spec

\* The heuristic ends: both walks, the scan, and the construction.
Termination == <>(pc = "done")
=============================================================================
