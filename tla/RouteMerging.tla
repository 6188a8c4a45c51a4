---------------------------- MODULE RouteMerging ----------------------------
(***************************************************************************)
(* What a savings heuristic promises: it starts from one route per         *)
(* customer and only ever joins two whole routes end to end, when the      *)
(* joint demand fits a vehicle; it may give up and start anew.  Abstract   *)
(* specification; ClarkeWright implements it with three arrays.            *)
(***************************************************************************)
EXTENDS Integers, Sequences, Sums

CONSTANTS Customers, Demand, Capacity

VARIABLE routes   \* set of routes, each the sequence of its customers

LoadOf(route) == SumOf([k \in DOMAIN route |-> Demand[route[k]]])

Singles == {<<c>> : c \in Customers}

Init == routes = Singles

Join(r, s) ==
  /\ r # s
  /\ LoadOf(r) + LoadOf(s) <= Capacity
  /\ routes' = (routes \ {r, s}) \cup {r \o s}

StartAnew == routes' = Singles

Next ==
  \/ \E r, s \in routes : Join(r, s)
  \/ StartAnew

Spec == Init /\ [][Next]_routes
=============================================================================
