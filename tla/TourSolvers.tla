----------------------------- MODULE TourSolvers -----------------------------
(***************************************************************************)
(* The two solvers for one vehicle, tsp_t and tspi_t, and what a caller    *)
(* may expect of the tours they make.                                      *)
(***************************************************************************)
EXTENDS Tsp, Tspi

vars == <<solver, ends, template, window, genomes, search, solves, pc,
          requests, settings>>

Init ==
  /\ InitSearch
  /\ InitSettings
  /\ \/ TspInit
     \/ TspiInit /\ requests = <<>>

Next ==
  \/ TspStep /\ UNCHANGED settings
  \/ TspiStep /\ UNCHANGED requests
  \/ (\/ RandomPermutation \/ Crossover \/ CrossoverAborts \/ EvolEnds
      \/ TwoOptStep)
       /\ UNCHANGED <<requests, settings>>

Spec == Init /\ [][Next]_vars

\* The evolution fills its population and stops after finitely many
\* generations; a single thread runs 2-opt
FairSpec ==
  /\ Spec
  /\ WF_vars(RandomPermutation /\ genomes = {} /\ UNCHANGED <<requests, settings>>)
  /\ WF_vars(EvolEnds /\ UNCHANGED <<requests, settings>>)
  /\ WF_vars(TwoOptStep /\ UNCHANGED <<requests, settings>>)

-----------------------------------------------------------------------------
(***************************************************************************)
(* Properties                                                              *)
(***************************************************************************)
Visits == {VisitOf(requests[k]) : k \in DOMAIN requests}

\* The nodes a solver is to visit, without the fixed ends
Others ==
  (IF solver = "tsp" THEN Visits ELSE 0 .. num_nodes - 1)
    \ {start_node, end_node}

\* [start_node, ..., end_node] with every other node once in between
IsTour(r) ==
  LET first == 1 + Len(Given(start_node))
      last == Len(r) - Len(Given(end_node))
      between == SubSeq(r, first, last)
  IN  /\ Len(between) = Cardinality(Others) /\ ToSet(between) = Others
      /\ r = Given(start_node) \o between \o Given(end_node)

Constructed == pc \notin {"build", "ready", "failed", "aborted"}

\* The template of a generic model has the form its constructor's comment
\* promises unless the end is the start, or is to be visited and some other node
\* is named only later.  That of a stand-alone model has the form its own
\* comment promises when first solved; every further call swaps or appends anew,
\* so a round trip loses the form for good, and a one-way trip whose start is not
\* node 0 has it in every second call only.
RegularExactly ==
  LET node(k) == VisitOf(requests[k])
      named == \E k, l \in DOMAIN requests :
                 /\ k < l
                 /\ node(k) = end_node /\ node(l) \notin {start_node, end_node}
                 /\ \A m \in 1 .. l - 1 : node(m) # node(l)
      broken == end_node # ID_NONE /\ (end_node = start_node \/ named)
      intact == \/ solves = 1
                \/ start_node # end_node /\ (start_node = 0 \/ solves % 2 = 1)
  IN  Constructed /\ solves > 0 =>
        (IsTour(template) <=> IF solver = "tsp" THEN ~broken ELSE intact)

\* Every genome and every result is a tour: shuffling, sweeping, crossing over
\* in place, education and reversals lose no node and move no fixed end.
ToursSound ==
  IsTour(template) =>
    /\ \A r \in genomes : IsTour(r)
    /\ pc \in {"2_opt", "done"} /\ route # <<>> => IsTour(route)

\* The saving that 2-opt adds up is the difference of the two distances.
SavingsAddUp == saving = TotalDistance(original) - TotalDistance(route)

\* No reversal between the fixed ends would improve the result, wherever in
\* it the search found its last one.
LocalOptimum ==
  pc = "done" =>
    \A i, j \in Len(Given(start_node)) .. LastIdx(route) - Len(Given(end_node)) :
      i < j => TotalDistance(ReverseSlice(route, i, j)) >= TotalDistance(route)

\* What a run may and may not end with.  tsp_t: an assertion fails exactly when
\* the start is fixed and, of the nodes (one fewer for an open end), there is one
\* besides it; a start that is the end and all there is wraps around and passes.
\* So tsp_solve_small_model never sees two of the cases it lists: one node that
\* is the start, and two nodes with both ends fixed.  tspi_t: a solution takes
\* both ends fixed, although tspi.h calls them optional, an evolution that saw no
\* cost of 0, and, from the second call on, an end that tspi_new had put last or
\* that is the start; nothing else aborts, but for the mixed lengths of sweeps
\* and permutations of a round trip that is solved again.
AbortsExactly ==
  LET nodes == (Visits \cup {start_node, end_node}) \ {ID_NONE}
      nothing == /\ start_node # ID_NONE
                 /\ Cardinality(nodes) = (IF end_node = ID_NONE THEN 1 ELSE 2)
      open == ID_NONE \in {start_node, end_node}
      again == solves > 1
      moved == start_node # end_node /\ end_node # num_nodes - 1
      mixed == start_node = end_node /\ coords # "none"
      unassessable == \E r \in genomes : TotalDistance(r) = 0
  IN  /\ solver = "tsp" /\ pc \in {"done", "aborted"} =>
           (pc = "aborted" <=> nothing)
      /\ solver = "tspi" /\ pc = "done" =>
           ~open /\ TotalDistance(original) > 0 /\ ~(again /\ moved)
      /\ solver = "tspi" /\ pc = "aborted" =>
           open \/ unassessable \/ (again /\ (moved \/ mixed))

\* Whatever the evolution came up with, 2-opt ends.
Termination ==
  pc \in {"evolve", "2_opt"} ~> pc \in {"done", "aborted"}

\* tsp.c, of the constructor: "Make regularized route template: (start_node,
\* ..., end_node)", and of end_node: "last node is fixed if specified".
EndsWhereAsked ==
  pc = "done" /\ solver = "tsp" /\ route # <<>> /\ end_node # ID_NONE =>
    Last(route) = end_node
=============================================================================
