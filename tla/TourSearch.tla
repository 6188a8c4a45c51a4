----------------------------- MODULE TourSearch -----------------------------
(***************************************************************************)
(* What the solvers for one vehicle share, tsp_t of src/src/tsp.c and      *)
(* tspi_t of src/src/tspi.c: a route template whose ends may be fixed, an  *)
(* evolution of routes derived from it, and 2-opt on the best of them.     *)
(* The variable solver tells which of the two is running.  Indices of      *)
(* routes are 0-based as in the code, and of type size_t: they wrap.       *)
(***************************************************************************)
EXTENDS Route, Evol

CONSTANTS
  SIZE_NONE,  \* SIZE_MAX, also "no node"
  Angle       \* Angle[n]: rank of the polar angle of a node; ranks may tie

ASSUME SIZE_NONEAssumption == SIZE_NONE \in Nat
ASSUME NodesAssumption == Nodes \subseteq 0 .. SIZE_NONE - 1
ASSUME AngleAssumption == Angle \in [Nodes -> Nat]

ID_NONE == SIZE_NONE

VARIABLES
  solver,                     \* "tsp" or "tspi"
  start_node, end_node,       \* fixed ends of the route, or ID_NONE
  template,
  unfixed_begin, unfixed_end, \* tsp_t: the indices that may be reordered
  genomes,                    \* the population of the evolution: routes
  original,                   \* the route 2-opt was given
  route,                      \* the route as 2-opt has changed it
  cursor,                     \* 2-opt: the slice [i, j] looked at last
  improved,
  saving,                     \* 2-opt: distance saved so far
  solves,                     \* number of calls of the solver
  pc       \* "build", "ready", "evolve", "2_opt", "done", "failed", "aborted"
ends == <<start_node, end_node>>
window == <<unfixed_begin, unfixed_end>>
search == <<original, route, cursor, improved, saving>>

\* The route 2-opt begins with, if any
TwoOptOf(r) ==
  /\ original' = r /\ route' = r
  /\ cursor' = <<0, 0>> /\ improved' = FALSE /\ saving' = 0

\* Differences of size_t
Minus(a, b) == (a - b) % (SIZE_NONE + 1)

InitSearch ==
  /\ template = <<>>
  /\ unfixed_begin = 0 /\ unfixed_end = 0
  /\ genomes = {}
  /\ original = <<>> /\ route = <<>>
  /\ cursor = <<0, 0>> /\ improved = FALSE /\ saving = 0
  /\ solves = 0
  /\ pc = "build"

\* A node that is listed only if it is given
Given(node) == IF node = ID_NONE THEN <<>> ELSE <<node>>

\* The indices of a route that may be reordered: tspi_t finds them anew
Begin == IF solver = "tsp" THEN unfixed_begin ELSE Len(Given(start_node))
End(r) == IF solver = "tsp" THEN unfixed_end ELSE LastIdx(r) - Len(Given(end_node))

-----------------------------------------------------------------------------
(* The callbacks of the evolution *)

Evolving == pc = "evolve"

\* assert (cost > 0) of tspi_fitness; tsp_fitness has an answer
NotAssessable(r) == solver = "tspi" /\ TotalDistance(r) = 0

\* The genomes are assessed as they join
Population(new) ==
  /\ genomes' = new
  /\ pc' = IF \E r \in new : NotAssessable(r) THEN "aborted" ELSE pc
  /\ UNCHANGED <<solver, ends, template, window, search, solves>>

Join(r) == HasRoom(genomes, r) /\ Population(genomes \cup {r})

RandomRoutes == Shuffles(template, Begin, End(template))

RandomPermutation ==
  /\ Evolving
  /\ \E r \in RandomRoutes : Join(r)

\* tsp_ox, tspi_ox: the sizes of the parents are asserted equal.  The children
\* are the same when the parents change places.
Crossover ==
  /\ Evolving
  /\ \E r1, r2 \in genomes :
       /\ Len(r1) = Len(r2) /\ Before(r1, r2)
       /\ \E j \in 0 .. End(r1) - Begin : \E i \in 0 .. j :
            Population((genomes \ {r1, r2})
                       \cup ToSet(Ox(r1, r2, Begin, End(r1), i, j)))

\* assert (route_size (route1) == route_size (route2))
CrossoverAborts ==
  /\ Evolving
  /\ \E r1, r2 \in genomes : Len(r1) # Len(r2)
  /\ pc' = "aborted"
  /\ UNCHANGED <<solver, ends, template, window, genomes, search, solves>>

\* evol_best_genome, and the dup of it that 2-opt works on
EvolEnds ==
  /\ Evolving
  /\ LET length == [r \in genomes |-> TotalDistance(r)] IN
     \E r \in Fittest(genomes, LastIdx(template), length) : TwoOptOf(r)
  /\ pc' = "2_opt"
  /\ genomes' = {}
  /\ UNCHANGED <<solver, ends, template, window, solves>>

-----------------------------------------------------------------------------
(***************************************************************************)
(* 2-opt: for i in [begin, end), for j in [i + 1, end], until a whole scan *)
(* has improved nothing.  One step per improving slice.  tsp_2_opt starts  *)
(* a new scan after an improvement, tspi_2_opt goes on with the same one.  *)
(***************************************************************************)
\* Mutant: j stops before the end
SlicesShort(r) ==
  {m \in (Begin .. End(r) - 1) \X (Begin .. End(r) - 1) : m[1] < m[2]}

Slices(r) == {m \in (Begin .. End(r) - 1) \X (Begin .. End(r)) : m[1] < m[2]}

\* tspi_route_reverse_delta_cost has no case for the ends of a route: it reads
\* beyond them, which route_at asserts against
ReadsBeyond(m) ==
  solver = "tspi" /\ (m[1] = 0 \/ m[2] = LastIdx(route))

\* Mutant: a reversal that costs nothing is performed too
ImprovesOrTies(r, m) == ReverseDelta(r, m[1], m[2]) <= 0

Improves(r, m) == ReverseDelta(r, m[1], m[2]) < 0

\* The slices the scan stops at, after the cursor
Hits ==
  {m \in Slices(route) : Before(cursor, m) /\ (ReadsBeyond(m) \/ Improves(route, m))}

ReverseImproving ==
  /\ pc = "2_opt"
  /\ \E m \in First(Hits) :
       /\ ~ReadsBeyond(m)
       /\ route' = ReverseSlice(route, m[1], m[2])
       /\ saving' = saving - ReverseDelta(route, m[1], m[2])
       /\ cursor' = IF solver = "tsp" THEN <<0, 0>> ELSE m
       /\ improved' = (solver = "tspi")
  /\ UNCHANGED <<solver, ends, template, window, genomes, original, solves, pc>>

ReverseAborts ==
  /\ pc = "2_opt"
  /\ \E m \in First(Hits) : ReadsBeyond(m)
  /\ pc' = "aborted"
  /\ UNCHANGED <<solver, ends, template, window, genomes, search, solves>>

\* The scan is over: another one, or the route is the solution
EndScan ==
  /\ pc = "2_opt" /\ Hits = {}
  /\ cursor' = <<0, 0>> /\ improved' = FALSE
  /\ pc' = IF improved THEN "2_opt" ELSE "done"
  /\ UNCHANGED <<solver, ends, template, window, genomes, original, route,
                 saving, solves>>

TwoOptStep == ReverseImproving \/ ReverseAborts \/ EndScan
=============================================================================
