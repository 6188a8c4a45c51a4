---------------------------- MODULE CvrpEvolution ----------------------------
(***************************************************************************)
(* cvrp_solve of src/src/cvrp.c: small models choose among the solutions   *)
(* of the constructive heuristics, large ones evolve genomes, and both     *)
(* hand their best solution to the post optimisation, whose state machine  *)
(* is CvrpLocalSearch.  The Clarke-Wright heuristic and the split enter    *)
(* with what ClarkeWright and CvrpSplit show of them: some feasible        *)
(* solutions, and a cheapest feasible cut of a giant tour.                 *)
(* The random tours of a small model are made if no heuristic had a        *)
(* solution; Clarke and Wright always have one, so they are left out.      *)
(***************************************************************************)
EXTENDS CvrpLocalSearch, Evol

CONSTANT Angle   \* Angle[c]: rank of the polar angle around the depot

ASSUME AngleAssumption == Angle \in [Customers -> Nat]

\* The roadgraph has finitely many nodes
ASSUME NodesAssumption == IsFiniteSet(Nodes)

VARIABLES
  small,      \* num_customers <= SMALL_NUM_NODES; both are explored
  has_coords, \* every node has coordinates
  genomes,    \* the population: records of gtour, sol and its total distance
  min_dist,   \* small models: the distance of sol
  least,      \* history: least distance of the solutions there were to choose
  stage       \* "new", "sweep", "evolve" or "post"
choice == <<small, has_coords>>
solverVars == <<vars, choice, genomes, min_dist, least, stage>>

\* cvrp_giant_tour_from_solution
GiantTour(s) == Without(Depot, FlattenSeq(s))

\* giant_tour_hash
GiantTourHash(gtour) ==
  MapThenSumSet(LAMBDA idx : At(gtour, idx) * idx, Indices(gtour))

\* The ways to cut a tour of n nodes: 0 and the positions to cut behind
Cuts(n) ==
  {ends \in SeqOf(0 .. n, n + 1) :
     /\ ends # <<>> /\ ends[1] = 0 /\ ends[Len(ends)] = n
     /\ \A k \in 1 .. Len(ends) - 1 : ends[k] < ends[k + 1]}

CutUp(gtour, ends) ==
  [k \in 1 .. Len(ends) - 1 |->
     <<Depot>> \o SubSeq(gtour, ends[k] + 1, ends[k + 1]) \o <<Depot>>]

GiantTours == SetToSeqs(Customers)

\* What cvrp_split may answer: a cheapest of the feasible cuts.  It has no answer
\* if that one is free: the program stops at assert (sp_cost[N] > 0), and here no
\* step is taken that needs the answer.
Splits ==
  [gtour \in GiantTours |->
     LET feasible == {s \in {CutUp(gtour, ends) : ends \in Cuts(Len(gtour))} :
                        \A k \in DOMAIN s : RouteDemand(s[k]) <= Capacity}
     IN  {s \in feasible : Cost(s) > 0 /\ \A t \in feasible : Cost(s) <= Cost(t)}]

\* cvrp_new_genome, of a giant tour or of a solution
GenomesOfTour(gtour) ==
  {[gtour |-> gtour, sol |-> s, distance |-> Cost(s)] : s \in Splits[gtour]}

GenomeOfSolution(s) ==
  [gtour |-> GiantTour(s), sol |-> s, distance |-> Cost(s)]

GenomesOfSolutions == {GenomeOfSolution(s) : s \in Starts}

\* The giant tours of the sweep: its template, rotated at random
SweepTemplates ==
  {Rotated(t, num) : t \in SortedBy(SetToSeq(Customers), Angle),
                     num \in 0 .. Cardinality(Customers)}

SolverInit ==
  /\ small \in BOOLEAN /\ has_coords \in BOOLEAN
  /\ genomes = {}
  /\ sol = <<>> /\ total_distance = 0 /\ cost_before = 0
  /\ saving = 0 /\ total_saving = 0
  /\ min_dist = 0 /\ least = 0
  /\ pc = "idle"
  /\ stage = IF small THEN "new" ELSE "evolve"

\* cvrp_post_optimize is called for a copy of a solution
PostOptimize(s, distance) ==
  /\ sol' = s
  /\ total_distance' = distance /\ cost_before' = distance
  /\ saving' = 0 /\ total_saving' = 0
  /\ pc' = "or_opt"
  /\ stage' = "post"

-----------------------------------------------------------------------------
(* cvrp_solve_small_model *)

Cheapest(solutions) ==
  {s \in solutions : \A t \in solutions : Cost(s) <= Cost(t)}

\* The first of the sorted genomes of Clarke and Wright, of which there are up
\* to seven; here two
SmallClarkeWright ==
  /\ stage = "new"
  /\ \E s1, s2 \in Starts : \E s \in Cheapest({s1, s2}) :
       /\ sol' = s
       /\ min_dist' = Cost(s) /\ least' = Cost(s)
  /\ stage' = "sweep"
  /\ UNCHANGED <<choice, genomes, total_distance, cost_before, saving,
                 total_saving, pc>>

\* Tours whose hash an earlier one had are dropped
Deduped(tours) ==
  LET known(list, t) ==
        \E k \in DOMAIN list : GiantTourHash(list[k]) = GiantTourHash(t)
      kept[cnt \in 0 .. Len(tours)] ==
        IF cnt = 0 THEN <<>>
        ELSE IF known(kept[cnt - 1], tours[cnt]) THEN kept[cnt - 1]
        ELSE Append(kept[cnt - 1], tours[cnt])
  IN  kept[Len(tours)]

SweepTours(template) ==
  Deduped([cnt \in 1 .. Len(template) |-> Rotated(template, cnt - 1)])

\* Mutant: the solution of the sweep replaces any other
ChosenLast(s) == s

\* What is kept of the cheapest solution of the sweep
Chosen(s) == IF Cost(s) < min_dist THEN s ELSE sol

\* Without coordinates the sweep makes no tours
SmallSweep ==
  /\ stage = "sweep"
  /\ \/ /\ has_coords
        /\ \E template \in SweepTemplates :
             LET made == UNION {Splits[t] : t \in ToSet(SweepTours(template))} IN
             /\ \A t \in ToSet(SweepTours(template)) : Splits[t] # {}
             /\ \E s \in Cheapest(made) :
                  /\ PostOptimize(Chosen(s), Cost(Chosen(s)))
                  /\ min_dist' = Cost(Chosen(s))
                  /\ least' = Min({least, Cost(s)})
     \/ /\ ~has_coords
        /\ PostOptimize(sol, Cost(sol))
        /\ UNCHANGED <<min_dist, least>>
  /\ UNCHANGED <<choice, genomes>>

-----------------------------------------------------------------------------
(* The callbacks of the evolution *)

Population(new) ==
  /\ stage = "evolve"
  /\ genomes' = new
  /\ UNCHANGED <<vars, choice, min_dist, least, stage>>

Join(g) == HasRoom(genomes, g) /\ Population(genomes \cup {g})

AddClarkeWright == \E g \in GenomesOfSolutions : Join(g)

AddSweep ==
  /\ has_coords
  /\ \E template \in SweepTemplates : \E g \in GenomesOfTour(template) : Join(g)

AddRandom ==
  \E gtour \in GiantTours : \E g \in GenomesOfTour(gtour) : Join(g)

Crossover ==
  \E g1, g2 \in genomes :
    LET last == Cardinality(Customers) - 1 IN
    /\ Before(g1.gtour, g2.gtour)
    /\ \E j \in 0 .. last : \E i \in 0 .. j :
         LET children == Ox(g1.gtour, g2.gtour, 0, last, i, j) IN
         \E c1 \in GenomesOfTour(children[1]), c2 \in GenomesOfTour(children[2]) :
           Population((genomes \ {g1, g2}) \cup {c1, c2})

\* Mutant: the giant tour stays the one before the search
EducatedTourKept(g, s, delta) ==
  [gtour |-> g.gtour, sol |-> s, distance |-> g.distance + delta]

\* The genome of a solution that a local search has improved by a move
Educated(g, s, delta) ==
  [gtour |-> GiantTour(s), sol |-> s, distance |-> g.distance + delta]

\* cvrp_local_search_for_evol: a relocation, or else a reversal
Educate ==
  \E g \in genomes :
    \/ \E m \in First(OrOptMoves(g.sol)) :
         Population((genomes \ {g})
                    \cup {Educated(g, OrOptMoved(g.sol, m), OrOptDelta(g.sol, m))})
    \/ /\ OrOptMoves(g.sol) = {}
       /\ \E m \in First(TwoOptMoves(g.sol)) :
            Population((genomes \ {g})
                       \cup {Educated(g, TwoOptMoved(g.sol, m), TwoOptDelta(g.sol, m))})

GenomeDistance == [g \in genomes |-> g.distance]

\* evol_best_genome
EvolEnds ==
  /\ stage = "evolve" /\ genomes # {}
  /\ \E g \in Fittest(genomes, Cardinality(Customers) + 1, GenomeDistance) :
       PostOptimize(g.sol, g.distance)
  /\ least' = Min({g.distance : g \in genomes})
  /\ genomes' = {}
  /\ UNCHANGED <<choice, min_dist>>

PostStep == Next /\ UNCHANGED <<choice, genomes, min_dist, least, stage>>

SolverNext ==
  \/ SmallClarkeWright \/ SmallSweep
  \/ AddClarkeWright \/ AddSweep \/ AddRandom \/ Crossover \/ Educate \/ EvolEnds
  \/ PostStep

SolverSpec == SolverInit /\ [][SolverNext]_solverVars

-----------------------------------------------------------------------------
(***************************************************************************)
(* Properties                                                              *)
(***************************************************************************)

\* The three parts of a genome stay in step through crossover and education:
\* a feasible solution, its customers in the order of the giant tour, and its
\* distance.
GenomesInStep ==
  \A g \in genomes :
    /\ IsSolution(g.sol)
    /\ g.gtour = GiantTour(g.sol)
    /\ g.distance = Cost(g.sol)

\* What cvrp_solve returns is feasible, and costs no more than any solution the
\* heuristics or the evolution had come up with, unless the evolution has a free
\* one: the fitness of a genome of cost 0 is 0, the least there is.
ResultKeepsBest ==
  stage = "post" =>
    /\ IsSolution(sol)
    /\ total_distance = Cost(sol)
    /\ small \/ least > 0 => total_distance <= least
=============================================================================
