-------------------------------- MODULE Evol --------------------------------
(***************************************************************************)
(* What the solvers see of evol_run, the evolution of the external library *)
(* libcube: it calls the heuristics that a solver registers to fill a      *)
(* population, then the crossover and the educator, any number of times    *)
(* and on any of the genomes, and hands out one of greatest fitness in the *)
(* end.  Here children take the places of their parents: to keep a parent  *)
(* instead changes nothing about what a single genome may be.              *)
(***************************************************************************)
EXTENDS Integers, FiniteSets

CONSTANT MaxGenomes   \* bound: size of the population

ASSUME MaxGenomesAssumption == MaxGenomes \in Nat \ {0}

\* A genome that a heuristic made may join the population
HasRoom(population, g) == Cardinality(population \cup {g}) <= MaxGenomes

\* The fitness of a genome g is arcs / length[g], and 0 for a length of 0
Fittest(population, arcs, length) ==
  LET num(g) == IF length[g] > 0 THEN arcs ELSE 0
      den(g) == IF length[g] > 0 THEN length[g] ELSE 1
  IN  {g \in population :
         \A h \in population : num(g) * den(h) >= num(h) * den(g)}
=============================================================================
