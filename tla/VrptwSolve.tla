----------------------------- MODULE VrptwSolve -----------------------------
(***************************************************************************)
(* vrptw_solve of src/src/vrptw.c for a model it finds basically solvable: *)
(* the best solution of Clarke and Wright, then the split of every tour of *)
(* the sweep (the state machine of VrptwSplit, run again and again), each  *)
(* followed by the meta data of its genome; the least distance recorded    *)
(* wins.  Clarke and Wright enter with what VrptwClarkeWright shows of     *)
(* them, for IDs that are inner indices: some feasible solution, or a      *)
(* failed assertion.  The random tours are made if no heuristic had a      *)
(* solution, which Clarke and Wright rule out; vrptw_post_optimize does    *)
(* nothing.                                                                *)
(***************************************************************************)
EXTENDS VrptwSplit

VARIABLES
  stage,       \* "cw", "sweep", "split", "solved" or "aborted"
  has_coords,  \* every node has coordinates
  template,    \* the customers by angle, rotated at random
  cnt,         \* rotations of it looked at so far
  genomes,     \* of the sweep: records of gtour, sol and recorded distance
  best,        \* the code's sol of vrptw_solve_small_model
  min_dist     \* the distance recorded with it
solver == <<has_coords, template>>
solveVars == <<vars, stage, solver, cnt, genomes, best, min_dist>>

Distance(routes) == MapThenSumSet(LAMBDA k : Cost(routes[k]), DOMAIN routes)

\* s_meta_new: the sub-route windows from the back of a route to its front,
\* with the assertion on them; departure times have none
SubrouteTwsOf(route) ==
  LET w[k \in DOMAIN route] ==
        IF k = Len(route) THEN tws[0]
        ELSE SubrouteTws(tws, route[k], route[k + 1], w[k + 1])
  IN  w

MetaAborts(routes) ==
  \E r \in ToSet(routes) : \E k \in 2 .. Len(r) - 1 :
    SubrouteTwsAborts(tws, r[k], r[k + 1], SubrouteTwsOf(r)[k + 1])

SolveInit ==
  /\ tws \in {w \in TimeWindows : IsBasicallySolvable(w)}
  /\ gtour = [c \in Customers |-> c]
  /\ pc = "idle" /\ i = 1 /\ j = 1
  /\ last_node = 0 /\ route_demand = 0 /\ route_distance = 0 /\ departure_time = 0
  /\ sp_costs = [k \in Index |-> IF k = 0 THEN 0 ELSE DOUBLE_MAX]
  /\ predecessors = [k \in Index |-> SIZE_NONE]
  /\ sol = <<>> /\ total_distance = -1
  /\ stage = "cw"
  /\ has_coords \in BOOLEAN
  /\ template \in GTours
  /\ cnt = 0 /\ genomes = {} /\ best = <<>> /\ min_dist = DOUBLE_MAX

\* Solutions in the form the savings heuristic gives them: routes in the order
\* of their first customers
CutUp(tour, ends) ==
  LET cuts == SetToSortSeq(ends, <)
      begin(k) == IF k = 1 THEN 1 ELSE cuts[k - 1] + 1
  IN  [k \in DOMAIN cuts |-> <<0>> \o SubSeq(tour, begin(k), cuts[k]) \o <<0>>]

Solutions ==
  {s \in {CutUp(t, ends) : t \in SetToSeqs(Customers),
                           ends \in {e \in SUBSET Customers : N \in e}} :
     \A k \in 1 .. Len(s) - 1 : s[k][2] < s[k + 1][2]}

ClarkeWright ==
  /\ stage = "cw"
  /\ \E s \in Solutions :
       /\ SolutionIsFeasible(tws, s) /\ ~MetaAborts(s)
       /\ best' = s /\ min_dist' = Distance(s)
  /\ stage' = IF has_coords THEN "sweep" ELSE "solved"
  /\ UNCHANGED <<vars, solver, cnt, genomes>>

\* When VrptwClarkeWright may fail an assertion
ClarkeWrightAborts ==
  /\ stage = "cw"
  /\ \/ \E c \in Customers : ~ServableAlone(tws, c)
     \/ \E n \in Index : tws[n] = <<>> \/ Len(tws[n]) > 2
  /\ stage' = "aborted"
  /\ UNCHANGED <<vars, solver, cnt, genomes, best, min_dist>>

-----------------------------------------------------------------------------
(* vrptw_sweep_giant_tours *)

Rotation == [k \in Customers |-> template[((k - 1 + cnt) % N) + 1]]

HashOf(tour) == MapThenSumSet(LAMBDA k : tour[k] * (k - 1), DOMAIN tour)

Known == \E g \in genomes : HashOf(g.gtour) = HashOf(Rotation)

SkipTour ==
  /\ stage = "sweep" /\ cnt < N /\ Known
  /\ cnt' = cnt + 1
  /\ UNCHANGED <<vars, stage, solver, genomes, best, min_dist>>

\* Mutant: the costs of the last split are used again
FreshCostsKept == sp_costs

FreshCosts == [k \in Index |-> IF k = 0 THEN 0 ELSE DOUBLE_MAX]

\* vrptw_split is called, and starts as VrptwSplit does
SplitTour ==
  /\ stage = "sweep" /\ cnt < N /\ ~Known
  /\ gtour' = Rotation
  /\ pc' = "relax" /\ i' = 1 /\ j' = 1
  /\ last_node' = 0 /\ route_demand' = 0 /\ route_distance' = 0
  /\ departure_time' = DepotDeparture(tws)
  /\ sp_costs' = FreshCosts
  /\ \E junk \in Junk :
       predecessors' = [k \in Index |-> IF k = 0 THEN SIZE_NONE ELSE junk[k]]
  /\ sol' = <<>> /\ total_distance' = -1
  /\ cnt' = cnt + 1
  /\ stage' = "split"
  /\ UNCHANGED <<tws, solver, genomes, best, min_dist>>

SplitStep ==
  /\ stage = "split"
  /\ Next
  /\ UNCHANGED <<stage, solver, cnt, genomes, best, min_dist>>

\* s_genome_new with the solution of the split
NewGenome ==
  /\ stage = "split" /\ pc = "done" /\ ~MetaAborts(sol)
  /\ genomes' = genomes \cup {[gtour |-> gtour, sol |-> sol, distance |-> total_distance]}
  /\ stage' = "sweep"
  /\ UNCHANGED <<vars, solver, cnt, best, min_dist>>

SplitAborts ==
  /\ stage = "split"
  /\ pc = "aborted" \/ (pc = "done" /\ MetaAborts(sol))
  /\ stage' = "aborted"
  /\ UNCHANGED <<vars, solver, cnt, genomes, best, min_dist>>

\* The first of the sorted genomes, if it is below min_dist
Choose ==
  /\ stage = "sweep" /\ cnt = N
  /\ \E g \in genomes :
       /\ \A h \in genomes : g.distance <= h.distance
       /\ IF g.distance < min_dist
          THEN best' = g.sol /\ min_dist' = g.distance
          ELSE UNCHANGED <<best, min_dist>>
  /\ stage' = "solved"
  /\ UNCHANGED <<vars, solver, cnt, genomes>>

SolveNext ==
  \/ ClarkeWright \/ ClarkeWrightAborts
  \/ SkipTour \/ SplitTour \/ SplitStep \/ NewGenome \/ SplitAborts \/ Choose

SolveSpec == SolveInit /\ [][SolveNext]_solveVars

-----------------------------------------------------------------------------
(***************************************************************************)
(* Properties                                                              *)
(***************************************************************************)

SolutionServed(routes) ==
  /\ LET visits == FlattenSeq([k \in DOMAIN routes |->
                                 SubSeq(routes[k], 2, Len(routes[k]) - 1)])
     IN  Len(visits) = N /\ ToSet(visits) = Customers
  /\ \A k \in DOMAIN routes :
       Load(routes[k]) <= Capacity /\ CanServe(tws, routes[k], 0, Horizon)

\* What vrptw_solve returns serves every customer once, in time and within
\* capacity, and no genome was recorded with less.  If the meta data of a
\* solution that has passed the feasibility check stops the program, then some
\* node has more than one time window.
OutcomeSound ==
  /\ stage = "solved" =>
       /\ SolutionServed(best)
       /\ \A g \in genomes : min_dist <= g.distance
  /\ stage = "aborted" /\ pc = "done" => \E n \in Index : Len(tws[n]) > 1
=============================================================================
