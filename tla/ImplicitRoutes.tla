--------------------------- MODULE ImplicitRoutes ---------------------------
(***************************************************************************)
(* Routes the way the savings heuristics of src/src/cvrp.c and             *)
(* src/src/vrptw.c keep them: not as lists but in two arrays, next and     *)
(* prev, over the customers 1..n.  0 is the depot: the end of a route.     *)
(***************************************************************************)
EXTENDS Integers, FiniteSets

\* The first n + 1 places a walk from c along next comes to
Places(next, n, c) ==
  LET visit[k \in 0 .. n] ==
        IF k = 0 THEN c
        ELSE IF visit[k - 1] = 0 THEN 0 ELSE next[visit[k - 1]]
  IN  visit

\* The customers from c on
ChainAlong(next, n, c) ==
  LET visit == Places(next, n, c)
      length == Cardinality({k \in 0 .. n : visit[k] # 0})
  IN  [k \in 1 .. length |-> visit[k - 1]]

\* The routes of the arrays
ChainsOf(next, prev, n) ==
  {ChainAlong(next, n, c) : c \in {x \in 1 .. n : prev[x] = 0}}
=============================================================================
