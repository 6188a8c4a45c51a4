--------------------------- MODULE CvrpSolveProofs ---------------------------
(***************************************************************************)
(* What cvrp_solve keeps, for every set of nodes and every matrix of       *)
(* distances.  The post optimisation of CvrpLocalSearch: the solution      *)
(* stays feasible, the ledger of its cost stays exact, and the result is a *)
(* local optimum of all four neighbourhoods.  The evolution of             *)
(* CvrpEvolution around it: every genome is a giant tour of all customers  *)
(* together with the solution it stands for, and no solution the evolution *)
(* was started with is better than the result.                             *)
(*                                                                         *)
(* A move changes one or two routes.  RouteFacts says what it does to      *)
(* their distance; the first part below says what it does to their shape,  *)
(* their load and the customers they visit, the second what the change of  *)
(* these routes, and the removal of one that has become empty, does to the *)
(* whole solution, the last what the callbacks do to the population.       *)
(***************************************************************************)
EXTENDS CvrpEvolution, RouteFacts

-----------------------------------------------------------------------------
(***************************************************************************)
(* Routes                                                                  *)
(***************************************************************************)

\* A route from depot to depot that may have become empty.
IsTrip(r) ==
  /\ r \in Seq(Nodes) /\ Len(r) >= 2
  /\ \A k \in 1 .. Len(r) : r[k] = Depot <=> k \in {1, Len(r)}

\* What a node counts for the visits of node c.
Is(c) == [x \in Nodes |-> IF x = c THEN 1 ELSE 0]

\* The load of a route, and its visits of a node, are weights of its nodes.
LEMMA Measures ==
  /\ Demand \in [Nodes -> Nat]
  /\ \A c : Is(c) \in [Nodes -> Nat]
BY DemandAssumption DEF Is

\* The demand of a slice is the weight of its nodes.
LEMMA SliceLoad ==
  ASSUME NEW r, NEW i, NEW j
  PROVE  SliceDemand(r, i, j) = SumOf(Weights(Demand, Slice(r, i, j)))
BY DEF SliceDemand, Weights

\* The load of a route is the weight of its nodes.
LEMMA RouteLoad ==
  ASSUME NEW r \in Seq(Nodes)
  PROVE  RouteDemand(r) = SumOf(Weights(Demand, r)) /\ RouteDemand(r) \in Nat
<1>1. Slice(r, 0, LastIdx(r)) = r
  <2>1. Len(r) \in 0 .. Len(r) /\ (Len(r) - 1) + 1 = Len(r) /\ 0 + 1 = 1
    OBVIOUS
  <2>2. CutBehind(Nodes, r, Len(r))
    BY ONLY <2>1, r \in Seq(Nodes), CutList
  <2>3. /\ SubSeq(r, 1, Len(r)) \in Seq(Nodes) /\ Len(SubSeq(r, 1, Len(r))) = Len(r)
        /\ \A k \in 1 .. Len(r) : SubSeq(r, 1, Len(r))[k] = r[k]
    BY <2>2 DEF CutBehind
  <2>4. SubSeq(r, 1, Len(r)) = r
    BY ONLY <2>3, r \in Seq(Nodes), SeqEqual
  <2> QED
    BY <2>1, <2>4 DEF Slice, LastIdx
<1>2. RouteDemand(r) = SumOf(Weights(Demand, r))
  BY <1>1, SliceLoad DEF RouteDemand
<1>3. SumOf(Weights(Demand, r)) \in Nat
  BY Measures, WeightNat
<1> QED
  BY <1>2, <1>3

\* The visits of a route are the weight of its nodes.
LEMMA RouteVisits ==
  ASSUME NEW r \in Seq(Nodes), NEW c
  PROVE  VisitsOn(r, c) = SumOf(Weights(Is(c), r)) /\ VisitsOn(r, c) \in Nat
<1>1. \A k \in DOMAIN r : r[k] \in Nodes
  OBVIOUS
<1>2. [k \in DOMAIN r |-> IF r[k] = c THEN 1 ELSE 0] = Weights(Is(c), r)
  BY <1>1 DEF Weights, Is
<1>3. SumOf(Weights(Is(c), r)) \in Nat
  BY Measures, WeightNat
<1> QED
  BY <1>2, <1>3 DEF VisitsOn

\* What a route counts for the cost of a solution and for its visits of node c.
Distances == [r \in Seq(Nodes) |-> TotalDistance(r)]
VisitsTo(c) == [r \in Seq(Nodes) |-> VisitsOn(r, c)]

\* Both are weights of the routes of a solution.
LEMMA RouteMeasures ==
  /\ Distances \in [Seq(Nodes) -> Nat]
  /\ \A c : VisitsTo(c) \in [Seq(Nodes) -> Nat]
<1>1. \A r \in Seq(Nodes) : TotalDistance(r) \in Nat
  BY LegsType
<1>2. \A c : \A r \in Seq(Nodes) : VisitsOn(r, c) \in Nat
  BY RouteVisits
<1> QED
  BY <1>1, <1>2 DEF Distances, VisitsTo

\* The cost of a solution and its visits of a node are sums over its routes.
LEMMA SolutionMeasures ==
  ASSUME NEW s \in Seq(Seq(Nodes))
  PROVE  /\ Cost(s) = SumOf(Weights(Distances, s)) /\ Cost(s) \in Nat
         /\ \A c : Visits(s, c) = SumOf(Weights(VisitsTo(c), s))
<1>1. \A k \in DOMAIN s : s[k] \in Seq(Nodes)
  OBVIOUS
<1>2. [k \in DOMAIN s |-> TotalDistance(s[k])] = Weights(Distances, s)
  BY <1>1 DEF Weights, Distances
<1>3. ASSUME NEW c
      PROVE  [k \in DOMAIN s |-> VisitsOn(s[k], c)] = Weights(VisitsTo(c), s)
  BY <1>1 DEF Weights, VisitsTo
<1>4. SumOf(Weights(Distances, s)) \in Nat
  BY RouteMeasures, WeightNat
<1> QED
  BY <1>2, <1>3, <1>4 DEF Cost, Visits

-----------------------------------------------------------------------------
(***************************************************************************)
(* Solutions                                                               *)
(***************************************************************************)

\* A feasible solution, but for routes that may have become empty.
IsFeasible(s) ==
  /\ s \in Seq(Seq(Nodes))
  /\ \A k \in DOMAIN s : IsTrip(s[k]) /\ RouteDemand(s[k]) <= Capacity
  /\ \A c \in Customers : Visits(s, c) = 1

NoneEmpty(s) == \A k \in DOMAIN s : Len(s[k]) >= 3

\* The nodes of a route, by the indices of the code and by their positions.
LEMMA TripByIndices ==
  ASSUME NEW r \in Seq(Nodes)
  PROVE  (\A i \in Indices(r) : At(r, i) = Depot <=> i \in {0, LastIdx(r)})
           <=> (\A k \in 1 .. Len(r) : r[k] = Depot <=> k \in {1, Len(r)})
<1> DEFINE n == Len(r)
<1>1. n \in Nat
  OBVIOUS
<1>2. Indices(r) = 0 .. n - 1 /\ LastIdx(r) = n - 1
  BY DEF Indices, LastIdx
<1> HIDE DEF n
<1>3. ASSUME \A i \in 0 .. n - 1 : r[i + 1] = Depot <=> i \in {0, n - 1},
             NEW k \in 1 .. n
      PROVE  r[k] = Depot <=> k \in {1, n}
  <2>1. k - 1 \in 0 .. n - 1 /\ (k - 1) + 1 = k
        /\ (k - 1 \in {0, n - 1} <=> k \in {1, n})
    BY <1>1
  <2> QED
    BY <1>3, <2>1
<1>4. ASSUME \A k \in 1 .. n : r[k] = Depot <=> k \in {1, n}, NEW i \in 0 .. n - 1
      PROVE  r[i + 1] = Depot <=> i \in {0, n - 1}
  <2>1. i + 1 \in 1 .. n /\ (i + 1 \in {1, n} <=> i \in {0, n - 1})
    BY <1>1
  <2> QED
    BY <1>4, <2>1
<1> QED
  BY <1>2, <1>3, <1>4 DEF At, n

\* A feasible solution is one without empty routes.
LEMMA SolutionShape ==
  ASSUME NEW s
  PROVE  IsSolution(s) <=> IsFeasible(s) /\ NoneEmpty(s)
<1>1. ASSUME s \in Seq(Seq(Nodes)), NEW k \in DOMAIN s
      PROVE  s[k] \in Seq(Nodes) /\ Len(s[k]) \in Nat
  BY <1>1
<1>2. ASSUME s \in Seq(Seq(Nodes))
      PROVE  (\A k \in DOMAIN s :
                /\ Len(s[k]) >= 3
                /\ \A i \in Indices(s[k]) :
                     At(s[k], i) = Depot <=> i \in {0, LastIdx(s[k])}
                /\ RouteDemand(s[k]) <= Capacity)
             <=> /\ \A k \in DOMAIN s : IsTrip(s[k]) /\ RouteDemand(s[k]) <= Capacity
                 /\ \A k \in DOMAIN s : Len(s[k]) >= 3
  <2>1. ASSUME NEW k \in DOMAIN s
        PROVE  (/\ Len(s[k]) >= 3
                /\ \A i \in Indices(s[k]) :
                     At(s[k], i) = Depot <=> i \in {0, LastIdx(s[k])}
                /\ RouteDemand(s[k]) <= Capacity)
               <=> IsTrip(s[k]) /\ RouteDemand(s[k]) <= Capacity /\ Len(s[k]) >= 3
    <3>1. s[k] \in Seq(Nodes) /\ Len(s[k]) \in Nat
      BY <1>1, <1>2
    <3>2. Len(s[k]) >= 3 => Len(s[k]) >= 2
      BY ONLY <3>1
    <3> QED
      BY ONLY <3>1, <3>2, TripByIndices DEF IsTrip
  <2> QED
    BY ONLY <2>1
<1> QED
  BY <1>2 DEF IsSolution, IsFeasible, NoneEmpty

\* What a move makes of a solution: a feasible one, at a cost that differs by d.
Becomes(s, t, d) == IsFeasible(t) /\ Cost(t) = Cost(s) + d

\* One route is replaced by another one, which visits what this one did.
LEMMA RouteChanged ==
  ASSUME NEW s, IsFeasible(s), NEW k \in DOMAIN s, NEW q, NEW d \in Int,
         IsTrip(q), RouteDemand(q) <= Capacity,
         \A c \in Customers : VisitsOn(q, c) = VisitsOn(s[k], c),
         TotalDistance(q) = TotalDistance(s[k]) + d
  PROVE  /\ Becomes(s, Replaced(s, k, q), d)
         /\ DOMAIN Replaced(s, k, q) = DOMAIN s
         /\ \A l \in DOMAIN s : Replaced(s, k, q)[l] = IF l = k THEN q ELSE s[l]
<1> DEFINE t == Replaced(s, k, q)
<1>1. /\ s \in Seq(Seq(Nodes)) /\ k \in 1 .. Len(s) /\ q \in Seq(Nodes)
      /\ s[k] \in Seq(Nodes)
  BY DEF IsFeasible, IsTrip
<1>2. /\ t \in Seq(Seq(Nodes)) /\ DOMAIN t = DOMAIN s
      /\ \A l \in DOMAIN s : t[l] = IF l = k THEN q ELSE s[l]
  BY <1>1 DEF Replaced
<1>3. SumOf(Weights(Distances, t))
        = SumOf(Weights(Distances, s)) - Distances[s[k]] + Distances[q]
  BY ONLY <1>1, RouteMeasures, WeightReplaced
<1>4. ASSUME NEW c
      PROVE  SumOf(Weights(VisitsTo(c), t))
               = SumOf(Weights(VisitsTo(c), s)) - VisitsTo(c)[s[k]] + VisitsTo(c)[q]
  BY ONLY <1>1, RouteMeasures, WeightReplaced
<1> HIDE DEF t
<1>5. Cost(t) = Cost(s) + d
  <2>1. /\ Cost(t) = Cost(s) - TotalDistance(s[k]) + TotalDistance(q)
        /\ Cost(s) \in Nat /\ TotalDistance(s[k]) \in Nat
    BY <1>1, <1>2, <1>3, SolutionMeasures, LegsType DEF Distances
  <2> QED
    BY <2>1
<1>6. ASSUME NEW c \in Customers PROVE Visits(t, c) = 1
  <2>1. /\ Visits(t, c) = Visits(s, c) - VisitsOn(s[k], c) + VisitsOn(q, c)
        /\ VisitsOn(s[k], c) \in Nat
    BY <1>1, <1>2, <1>4, SolutionMeasures, RouteVisits DEF VisitsTo
  <2>2. Visits(s, c) = 1
    BY DEF IsFeasible
  <2> QED
    BY <2>1, <2>2
<1>7. \A l \in DOMAIN t : IsTrip(t[l]) /\ RouteDemand(t[l]) <= Capacity
  BY <1>2 DEF IsFeasible
<1>8. IsFeasible(t)
  BY ONLY <1>2, <1>6, <1>7 DEF IsFeasible
<1> QED
  BY <1>2, <1>5, <1>8 DEF Becomes, t

\* Two routes visit together what two others did.
SameVisits(q, u, r1, r2) ==
  \A c \in Customers : VisitsOn(q, c) + VisitsOn(u, c) = VisitsOn(r1, c) + VisitsOn(r2, c)

\* The solution t that comes of s when the routes q and u replace two of it.
TwoReplaced(s, t, d, k1, k2, q, u) ==
  /\ Becomes(s, t, d) /\ DOMAIN t = DOMAIN s
  /\ \A l \in DOMAIN s : t[l] = IF l = k1 THEN q ELSE IF l = k2 THEN u ELSE s[l]

\* Two routes are replaced by others, which visit together what these did.
LEMMA RoutesChanged ==
  ASSUME NEW s, IsFeasible(s), NEW k1 \in DOMAIN s, NEW k2 \in DOMAIN s, k1 # k2,
         NEW q, NEW u, NEW d \in Int,
         IsTrip(q), RouteDemand(q) <= Capacity,
         IsTrip(u), RouteDemand(u) <= Capacity,
         SameVisits(q, u, s[k1], s[k2]),
         TotalDistance(q) + TotalDistance(u)
           = TotalDistance(s[k1]) + TotalDistance(s[k2]) + d,
         NEW t, t = [s EXCEPT ![k1] = q, ![k2] = u]
  PROVE  TwoReplaced(s, t, d, k1, k2, q, u)
<1> DEFINE v == Replaced(s, k1, q)
<1>1. /\ s \in Seq(Seq(Nodes)) /\ k1 \in 1 .. Len(s) /\ k2 \in 1 .. Len(s)
      /\ q \in Seq(Nodes) /\ u \in Seq(Nodes)
      /\ s[k1] \in Seq(Nodes) /\ s[k2] \in Seq(Nodes)
  BY DEF IsFeasible, IsTrip
<1>2. /\ v \in Seq(Seq(Nodes)) /\ Len(v) = Len(s) /\ v[k2] = s[k2]
      /\ DOMAIN v = DOMAIN s /\ k2 \in 1 .. Len(v)
  BY <1>1 DEF Replaced
<1>3. t = Replaced(v, k2, u)
  BY DEF Replaced
<1>4. /\ t \in Seq(Seq(Nodes)) /\ DOMAIN t = DOMAIN s
      /\ \A l \in DOMAIN s : t[l] = IF l = k1 THEN q ELSE IF l = k2 THEN u ELSE s[l]
  BY <1>1, <1>2
<1> HIDE DEF v
<1>5. ASSUME NEW w \in [Seq(Nodes) -> Nat]
      PROVE  SumOf(Weights(w, t))
               = ((SumOf(Weights(w, s)) - w[s[k1]]) + w[q]) - w[s[k2]] + w[u]
  <2>1. SumOf(Weights(w, v)) = SumOf(Weights(w, s)) - w[s[k1]] + w[q]
    BY ONLY <1>1, <1>5, WeightReplaced DEF v
  <2>2. SumOf(Weights(w, t)) = SumOf(Weights(w, v)) - w[v[k2]] + w[u]
    <3>1. v \in Seq(Seq(Nodes)) /\ u \in Seq(Nodes) /\ k2 \in 1 .. Len(v)
      BY <1>1, <1>2
    <3> QED
      BY ONLY <1>3, <1>5, <3>1, WeightReplaced
  <2> QED
    BY ONLY <1>2, <2>1, <2>2
<1>6. Cost(t) = Cost(s) + d
  <2>1. SumOf(Weights(Distances, t))
          = ((SumOf(Weights(Distances, s)) - Distances[s[k1]]) + Distances[q])
             - Distances[s[k2]] + Distances[u]
    BY ONLY <1>5, RouteMeasures
  <2>2. /\ Cost(t) = ((Cost(s) - TotalDistance(s[k1])) + TotalDistance(q))
                      - TotalDistance(s[k2]) + TotalDistance(u)
        /\ Cost(s) \in Nat /\ TotalDistance(s[k1]) \in Nat /\ TotalDistance(s[k2]) \in Nat
        /\ TotalDistance(q) \in Nat /\ TotalDistance(u) \in Nat
    BY <1>1, <1>4, <2>1, SolutionMeasures, LegsType DEF Distances
  <2> QED
    BY <2>2
<1>7. ASSUME NEW c \in Customers PROVE Visits(t, c) = 1
  <2> DEFINE w == VisitsTo(c)
  <2>1. SumOf(Weights(w, t))
          = ((SumOf(Weights(w, s)) - w[s[k1]]) + w[q]) - w[s[k2]] + w[u]
    <3>1. w \in [Seq(Nodes) -> Nat]
      BY RouteMeasures
    <3> HIDE DEF w
    <3> QED
      BY ONLY <1>5, <3>1
  <2>2. /\ Visits(t, c) = ((Visits(s, c) - VisitsOn(s[k1], c)) + VisitsOn(q, c))
                           - VisitsOn(s[k2], c) + VisitsOn(u, c)
        /\ VisitsOn(s[k1], c) \in Nat /\ VisitsOn(s[k2], c) \in Nat
        /\ VisitsOn(q, c) \in Nat /\ VisitsOn(u, c) \in Nat
    BY <1>1, <1>4, <2>1, SolutionMeasures, RouteVisits DEF VisitsTo
  <2>3. /\ Visits(s, c) = 1
        /\ VisitsOn(q, c) + VisitsOn(u, c) = VisitsOn(s[k1], c) + VisitsOn(s[k2], c)
    BY DEF IsFeasible, SameVisits
  <2> QED
    BY <2>2, <2>3
<1>8. \A l \in DOMAIN t : IsTrip(t[l]) /\ RouteDemand(t[l]) <= Capacity
  BY <1>4 DEF IsFeasible
<1>9. IsFeasible(t)
  BY ONLY <1>4, <1>7, <1>8 DEF IsFeasible
<1> QED
  BY ONLY <1>4, <1>6, <1>9 DEF Becomes, TwoReplaced

\* An empty route costs nothing and visits no customer.
LEMMA EmptyTrip ==
  ASSUME NEW r, IsTrip(r), Len(r) = 2
  PROVE  TotalDistance(r) = 0 /\ \A c \in Customers : VisitsOn(r, c) = 0
<1>1. r \in Seq(Nodes) /\ r[1] = Depot /\ r[2] = Depot /\ Depot \in Nodes
  BY DepotAssumption DEF IsTrip
<1>2. <<Depot>> \in Seq(Nodes) /\ r = <<Depot>> \o <<Depot>>
  BY <1>1
<1>3. TotalDistance(<<Depot>>) = 0
  <2>1. Legs(<<Depot>>) \in Seq(Int) /\ Len(Legs(<<Depot>>)) = 1 /\ Legs(<<Depot>>)[1] = 0
        /\ TotalDistance(<<Depot>>) = SumOf(Legs(<<Depot>>))
    BY <1>1, <1>2, LegsType
  <2> QED
    BY ONLY <2>1, SumOfOne
<1>4. Link(<<Depot>>, <<Depot>>) = 0
  BY NoCostAtDepot DEF Link, If
<1>5. TotalDistance(r) = 0
  <2>1. TotalDistance(<<Depot>> \o <<Depot>>)
          = TotalDistance(<<Depot>>) + Link(<<Depot>>, <<Depot>>) + TotalDistance(<<Depot>>)
    BY ONLY <1>2, PathConcat
  <2> QED
    BY <1>2, <1>3, <1>4, <2>1
<1>6. ASSUME NEW c \in Customers PROVE VisitsOn(r, c) = 0
  <2>1. Is(c)[Depot] = 0
    BY <1>1 DEF Is, Customers
  <2>2. SumOf(Weights(Is(c), <<Depot>> \o <<Depot>>))
          = SumOf(Weights(Is(c), <<Depot>>)) + SumOf(Weights(Is(c), <<Depot>>))
    BY ONLY <1>2, Measures, WeightConcat
  <2>3. SumOf(Weights(Is(c), <<Depot>>)) = 0
    BY ONLY <1>1, <2>1, Measures, WeightOne
  <2>4. SumOf(Weights(Is(c), r)) = 0
    BY ONLY <1>2, <2>2, <2>3
  <2> QED
    BY ONLY <1>1, <2>4, RouteVisits
<1> QED
  BY <1>5, <1>6

\* solution_remove_route of an empty route: it leaves a feasible solution of the
\* same cost.
LEMMA EmptyDropped ==
  ASSUME NEW s, IsFeasible(s), NEW k \in DOMAIN s, Len(s[k]) = 2
  PROVE  /\ Becomes(s, RemoveAt(s, k), 0)
         /\ \A l \in DOMAIN RemoveAt(s, k) :
              \E h \in DOMAIN s \ {k} : RemoveAt(s, k)[l] = s[h]
<1> DEFINE t == RemoveAt(s, k)
<1>1. s \in Seq(Seq(Nodes)) /\ k \in 1 .. Len(s) /\ s[k] \in Seq(Nodes)
      /\ DOMAIN s = 1 .. Len(s) /\ Len(s) \in Nat
  BY DEF IsFeasible
<1>2. /\ t \in Seq(Seq(Nodes)) /\ Len(t) = Len(s) - 1
      /\ \A l \in 1 .. Len(s) - 1 : t[l] = IF l < k THEN s[l] ELSE s[l + 1]
  BY ONLY <1>1, RemoveAtProperties
<1>3. ASSUME NEW w \in [Seq(Nodes) -> Nat]
      PROVE  SumOf(Weights(w, t)) = SumOf(Weights(w, s)) - w[s[k]]
  BY ONLY <1>1, <1>3, WeightRemoved
<1> HIDE DEF t
<1>4. ASSUME NEW l \in DOMAIN t PROVE \E h \in DOMAIN s \ {k} : t[l] = s[h]
  <2>1. l \in 1 .. Len(s) - 1
    BY <1>2
  <2>2. CASE l < k
    <3>1. l \in 1 .. Len(s) /\ l # k
      BY ONLY <1>1, <2>1, <2>2
    <3>2. l \in DOMAIN s \ {k} /\ t[l] = s[l]
      BY ONLY <1>1, <1>2, <2>1, <2>2, <3>1
    <3> QED
      BY <3>2
  <2>3. CASE ~(l < k)
    <3>1. l + 1 \in 1 .. Len(s) /\ l + 1 # k
      BY ONLY <1>1, <2>1, <2>3
    <3>2. l + 1 \in DOMAIN s \ {k} /\ t[l] = s[l + 1]
      BY ONLY <1>1, <1>2, <2>1, <2>3, <3>1
    <3> QED
      BY <3>2
  <2> QED
    BY <2>2, <2>3
<1>5. TotalDistance(s[k]) = 0 /\ \A c \in Customers : VisitsOn(s[k], c) = 0
  BY EmptyTrip DEF IsFeasible
<1>6. Cost(t) = Cost(s) + 0
  <2>1. SumOf(Weights(Distances, t)) = SumOf(Weights(Distances, s)) - Distances[s[k]]
    BY ONLY <1>3, RouteMeasures
  <2>2. Cost(t) = Cost(s) - 0 /\ Cost(s) \in Nat
    BY <1>1, <1>2, <1>5, <2>1, SolutionMeasures DEF Distances
  <2> QED
    BY <2>2
<1>7. ASSUME NEW c \in Customers PROVE Visits(t, c) = 1
  <2> DEFINE w == VisitsTo(c)
  <2>1. SumOf(Weights(w, t)) = SumOf(Weights(w, s)) - w[s[k]]
    <3>1. w \in [Seq(Nodes) -> Nat]
      BY RouteMeasures
    <3> HIDE DEF w
    <3> QED
      BY ONLY <1>3, <3>1
  <2>2. Visits(t, c) = Visits(s, c) - 0 /\ Visits(s, c) = 1
    BY <1>1, <1>2, <1>5, <2>1, SolutionMeasures DEF VisitsTo, IsFeasible
  <2> QED
    BY <2>2
<1>8. \A l \in DOMAIN t : IsTrip(t[l]) /\ RouteDemand(t[l]) <= Capacity
  BY <1>4 DEF IsFeasible
<1>9. IsFeasible(t)
  BY ONLY <1>2, <1>7, <1>8 DEF IsFeasible
<1> QED
  BY <1>4, <1>6, <1>9 DEF Becomes, t

-----------------------------------------------------------------------------
(***************************************************************************)
(* Moves of a node, and of two                                             *)
(***************************************************************************)

\* The parts of a move are indices of two routes and of a node in each.
LEMMA MovePlace ==
  ASSUME NEW s, NEW m \in PairsOfPositions(s)
  PROVE  /\ m[1] \in DOMAIN s /\ m[2] \in Indices(s[m[1]])
         /\ m[3] \in DOMAIN s /\ m[4] \in Indices(s[m[3]])
<1>1. ASSUME NEW p \in Positions(s)
      PROVE  p[1] \in DOMAIN s /\ p[2] \in Indices(s[p[1]])
  <2>1. PICK k \in DOMAIN s : p \in {k} \X Indices(s[k])
    BY DEF Positions
  <2> QED
    BY <2>1
<1>2. PICK p \in Positions(s), q \in Positions(s) : m = <<p[1], p[2], q[1], q[2]>>
  BY DEF PairsOfPositions
<1> QED
  BY <1>1, <1>2

\* A node of a trip that is not the depot lies between its ends.
LEMMA InnerNode ==
  ASSUME NEW r, IsTrip(r), NEW i \in Indices(r), At(r, i) # Depot
  PROVE  /\ r \in Seq(Nodes) /\ i + 1 \in 1 .. Len(r) /\ i + 1 > 1 /\ i + 1 < Len(r)
         /\ At(r, i) = r[i + 1] /\ r[i + 1] \in Nodes /\ r[i + 1] # Depot
         /\ Len(r) \in Nat
<1>1. r \in Seq(Nodes) /\ Len(r) \in Nat /\ i \in 0 .. Len(r) - 1
  BY DEF IsTrip, Indices, LastIdx
<1>2. i + 1 \in 1 .. Len(r)
  BY <1>1
<1>3. r[i + 1] # Depot /\ At(r, i) = r[i + 1]
  BY DEF At
<1>4. i + 1 \notin {1, Len(r)}
  BY <1>2, <1>3 DEF IsTrip
<1> QED
  BY <1>1, <1>2, <1>3, <1>4

\* What the removal of a customer makes of a trip.
LEMMA TripRemove ==
  ASSUME NEW r, IsTrip(r), NEW i \in Indices(r), At(r, i) # Depot,
         NEW q, q = RemoveNode(r, i)
  PROVE  /\ IsTrip(q) /\ Len(q) = Len(r) - 1
         /\ RouteDemand(q) = RouteDemand(r) - Demand[At(r, i)]
         /\ \A c : VisitsOn(q, c) = VisitsOn(r, c) - Is(c)[At(r, i)]
         /\ TotalDistance(q) = TotalDistance(r) + RemoveNodeDelta(r, i)
<1> DEFINE p == i + 1
           n == Len(r)
<1>1. /\ r \in Seq(Nodes) /\ p \in 1 .. n /\ p > 1 /\ p < n /\ n \in Nat
      /\ At(r, i) = r[p] /\ r[p] \in Nodes /\ n = Len(r)
  BY InnerNode
<1>2. q = RemoveAt(r, p)
  BY DEF RemoveNode
<1>3. TotalDistance(q) = TotalDistance(r) + RemoveNodeDelta(r, i)
  BY <1>1, RemoveNodeExact
<1> HIDE DEF p, n
<1>4. /\ q \in Seq(Nodes) /\ Len(q) = n - 1
      /\ \A k \in 1 .. n - 1 : q[k] = IF k < p THEN r[k] ELSE r[k + 1]
  BY ONLY <1>1, <1>2, RemoveAtProperties
<1>5. ASSUME NEW w \in [Nodes -> Nat]
      PROVE  SumOf(Weights(w, q)) = SumOf(Weights(w, r)) - w[r[p]]
  BY ONLY <1>1, <1>2, <1>5, WeightRemoved
<1>6. RouteDemand(q) = RouteDemand(r) - Demand[r[p]]
  BY ONLY <1>1, <1>4, <1>5, Measures, RouteLoad
<1>7. ASSUME NEW c PROVE VisitsOn(q, c) = VisitsOn(r, c) - Is(c)[r[p]]
  BY ONLY <1>1, <1>4, <1>5, Measures, RouteVisits
<1>8. IsTrip(q)
  <2>1. ASSUME NEW k \in 1 .. n - 1 PROVE q[k] = Depot <=> k \in {1, n - 1}
    <3>1. CASE k < p
      <4>1. k \in 1 .. n /\ (k \in {1, n} <=> k \in {1, n - 1})
        BY ONLY <1>1, <3>1, k \in 1 .. n - 1
      <4> QED
        BY <1>1, <1>4, <3>1, <4>1 DEF IsTrip
    <3>2. CASE ~(k < p)
      <4>1. k + 1 \in 1 .. n /\ (k + 1 \in {1, n} <=> k \in {1, n - 1})
        BY ONLY <1>1, <3>2, k \in 1 .. n - 1
      <4> QED
        BY <1>1, <1>4, <3>2, <4>1 DEF IsTrip
    <3> QED
      BY <3>1, <3>2
  <2>2. n - 1 >= 2
    BY ONLY <1>1
  <2> QED
    BY ONLY <1>4, <2>1, <2>2 DEF IsTrip
<1> QED
  BY ONLY <1>1, <1>3, <1>4, <1>6, <1>7, <1>8

\* What the insertion of a customer before a node other than the first makes of
\* a trip.
LEMMA TripInsert ==
  ASSUME NEW r, IsTrip(r), NEW i \in Indices(r), i # 0,
         NEW x \in Nodes, x # Depot, NEW q, q = InsertNode(r, i, x)
  PROVE  /\ IsTrip(q) /\ Len(q) = Len(r) + 1
         /\ RouteDemand(q) = RouteDemand(r) + Demand[x]
         /\ \A c : VisitsOn(q, c) = VisitsOn(r, c) + Is(c)[x]
         /\ TotalDistance(q) = TotalDistance(r) + InsertNodeDelta(r, i, x)
<1> DEFINE p == i + 1
           n == Len(r)
<1>1. /\ r \in Seq(Nodes) /\ p \in 1 .. n /\ p > 1 /\ n \in Nat /\ n >= 2
      /\ n = Len(r) /\ i \in 0 .. Len(r) /\ p \in 1 .. n + 1
  BY DEF IsTrip, Indices, LastIdx
<1>2. q = InsertAt(r, p, x)
  BY DEF InsertNode
<1>3. TotalDistance(q) = TotalDistance(r) + InsertNodeDelta(r, i, x)
  BY <1>1, InsertNodeExact
<1> HIDE DEF p, n
<1>4. /\ q \in Seq(Nodes) /\ Len(q) = n + 1
      /\ \A k \in 1 .. n + 1 :
           q[k] = IF k < p THEN r[k] ELSE IF k = p THEN x ELSE r[k - 1]
  <2>1. r \in Seq(Nodes) /\ p \in 1 .. Len(r) + 1
    BY ONLY <1>1
  <2>2. /\ InsertAt(r, p, x) \in Seq(Nodes)
        /\ Len(InsertAt(r, p, x)) = Len(r) + 1
        /\ \A k \in 1 .. Len(r) + 1 :
             InsertAt(r, p, x)[k] =
               IF k < p THEN r[k] ELSE IF k = p THEN x ELSE r[k - 1]
    BY ONLY <2>1, x \in Nodes, InsertAtProperties
  <2> QED
    BY ONLY <1>1, <1>2, <2>2
<1>5. RemoveAt(q, p) = r
  BY ONLY <1>1, <1>2, x \in Nodes, RemoveInserted
<1>6. p \in 1 .. Len(q) /\ q[p] = x
  BY ONLY <1>1, <1>4
<1>7. ASSUME NEW w \in [Nodes -> Nat]
      PROVE  SumOf(Weights(w, q)) = SumOf(Weights(w, r)) + w[x]
  <2>1. SumOf(Weights(w, RemoveAt(q, p))) = SumOf(Weights(w, q)) - w[q[p]]
    BY ONLY <1>4, <1>6, <1>7, WeightRemoved
  <2>2. SumOf(Weights(w, q)) \in Nat /\ w[x] \in Nat
    BY <1>4, WeightNat
  <2> QED
    BY ONLY <1>5, <1>6, <2>1, <2>2
<1>8. RouteDemand(q) = RouteDemand(r) + Demand[x]
  BY ONLY <1>1, <1>4, <1>7, Measures, RouteLoad
<1>9. ASSUME NEW c PROVE VisitsOn(q, c) = VisitsOn(r, c) + Is(c)[x]
  BY ONLY <1>1, <1>4, <1>7, Measures, RouteVisits
<1>10. IsTrip(q)
  <2>1. ASSUME NEW k \in 1 .. n + 1 PROVE q[k] = Depot <=> k \in {1, n + 1}
    <3>1. CASE k < p
      <4>1. k \in 1 .. n /\ (k \in {1, n} <=> k \in {1, n + 1})
        BY ONLY <1>1, <3>1, k \in 1 .. n + 1
      <4> QED
        BY <1>1, <1>4, <3>1, <4>1 DEF IsTrip
    <3>2. CASE k = p
      <4>1. k \notin {1, n + 1} /\ ~(k < p)
        BY ONLY <1>1, <3>2
      <4> QED
        BY <1>4, <3>2, <4>1
    <3>3. CASE ~(k < p) /\ k # p
      <4>1. k - 1 \in 1 .. n /\ (k - 1 \in {1, n} <=> k \in {1, n + 1})
        BY ONLY <1>1, <3>3, k \in 1 .. n + 1
      <4> QED
        BY <1>1, <1>4, <3>3, <4>1 DEF IsTrip
    <3> QED
      BY <3>1, <3>2, <3>3
  <2>2. n + 1 >= 2
    BY ONLY <1>1
  <2> QED
    BY ONLY <1>4, <2>1, <2>2 DEF IsTrip
<1> QED
  BY ONLY <1>1, <1>3, <1>4, <1>8, <1>9, <1>10

\* What the replacement of a customer by another one makes of a trip.
LEMMA TripReplace ==
  ASSUME NEW r, IsTrip(r), NEW i \in Indices(r), At(r, i) # Depot,
         NEW x \in Nodes, x # Depot, NEW q, q = [r EXCEPT ![i + 1] = x]
  PROVE  /\ IsTrip(q) /\ Len(q) = Len(r)
         /\ RouteDemand(q) = RouteDemand(r) - Demand[At(r, i)] + Demand[x]
         /\ \A c : VisitsOn(q, c) = VisitsOn(r, c) - Is(c)[At(r, i)] + Is(c)[x]
         /\ TotalDistance(q) = TotalDistance(r) + ReplaceNodeDelta(r, i, x)
<1> DEFINE p == i + 1
           n == Len(r)
<1>1. /\ r \in Seq(Nodes) /\ p \in 1 .. n /\ p > 1 /\ p < n /\ n \in Nat
      /\ At(r, i) = r[p] /\ r[p] \in Nodes /\ n = Len(r) /\ r[p] # Depot
  BY InnerNode
<1>2. q = Replaced(r, p, x)
  BY DEF Replaced
<1>3. TotalDistance(q) = TotalDistance(r) + ReplaceNodeDelta(r, i, x)
  BY <1>1, <1>2, ReplaceNodeExact
<1>4. /\ q \in Seq(Nodes) /\ Len(q) = n
      /\ \A k \in 1 .. n : q[k] = IF k = p THEN x ELSE r[k]
  BY <1>1
<1> HIDE DEF p, n
<1>5. ASSUME NEW w \in [Nodes -> Nat]
      PROVE  SumOf(Weights(w, q)) = SumOf(Weights(w, r)) - w[r[p]] + w[x]
  BY ONLY <1>1, <1>2, <1>5, x \in Nodes, WeightReplaced
<1>6. RouteDemand(q) = RouteDemand(r) - Demand[r[p]] + Demand[x]
  BY ONLY <1>1, <1>4, <1>5, Measures, RouteLoad
<1>7. ASSUME NEW c PROVE VisitsOn(q, c) = VisitsOn(r, c) - Is(c)[r[p]] + Is(c)[x]
  BY ONLY <1>1, <1>4, <1>5, Measures, RouteVisits
<1>8. IsTrip(q)
  <2>1. ASSUME NEW k \in 1 .. n PROVE q[k] = Depot <=> k \in {1, n}
    BY <1>1, <1>4 DEF IsTrip
  <2>2. n >= 2
    BY ONLY <1>1
  <2> QED
    BY ONLY <1>4, <2>1, <2>2 DEF IsTrip
<1> QED
  BY ONLY <1>1, <1>3, <1>4, <1>6, <1>7, <1>8

-----------------------------------------------------------------------------
(***************************************************************************)
(* Exchange of tails and reversal of a slice                               *)
(***************************************************************************)

\* The weight of a slice of a route.
SliceWeight(w, r, i, j) == SumOf(Weights(w, Slice(r, i, j)))

\* The weight of a route is that of the two slices it is cut into.
LEMMA CutWeight ==
  ASSUME NEW r \in Seq(Nodes), NEW i \in Indices(r), NEW w \in [Nodes -> Nat]
  PROVE  /\ SumOf(Weights(w, r))
              = SliceWeight(w, r, 0, i) + SliceWeight(w, r, i + 1, LastIdx(r))
         /\ SliceWeight(w, r, 0, i) \in Nat /\ SliceWeight(w, r, i + 1, LastIdx(r)) \in Nat
<1> DEFINE a == Slice(r, 0, i)
           b == Slice(r, i + 1, LastIdx(r))
<1>1. a \in Seq(Nodes) /\ b \in Seq(Nodes) /\ r = a \o b
  BY CutRoute DEF IsCut
<1> HIDE DEF a, b
<1>2. SumOf(Weights(w, r)) = SumOf(Weights(w, a)) + SumOf(Weights(w, b))
  BY ONLY <1>1, w \in [Nodes -> Nat], WeightConcat
<1>3. SumOf(Weights(w, a)) \in Nat /\ SumOf(Weights(w, b)) \in Nat
  BY <1>1, WeightNat
<1> QED
  BY <1>2, <1>3 DEF SliceWeight, a, b

\* The trip that the head of one and the tail of another one make.
IsJoined(r, i, s, j, q) ==
  /\ IsTrip(q) /\ Len(q) = (i + 1) + (Len(s) - (j + 1))
  /\ \A w \in [Nodes -> Nat] :
       SumOf(Weights(w, q))
         = SliceWeight(w, r, 0, i) + SliceWeight(w, s, j + 1, LastIdx(s))

\* They make a trip.
LEMMA JoinedTrip ==
  ASSUME NEW r, IsTrip(r), NEW i \in Indices(r), i # LastIdx(r),
         NEW s, IsTrip(s), NEW j \in Indices(s), j # LastIdx(s),
         NEW q, q = Slice(r, 0, i) \o Slice(s, j + 1, LastIdx(s))
  PROVE  IsJoined(r, i, s, j, q)
<1> DEFINE a == Slice(r, 0, i)
           d == Slice(s, j + 1, LastIdx(s))
           m == i + 1
           l == Len(s) - (j + 1)
<1>1. /\ r \in Seq(Nodes) /\ s \in Seq(Nodes)
      /\ i \in 0 .. Len(r) - 1 /\ i # Len(r) - 1 /\ Len(r) \in Nat
      /\ j \in 0 .. Len(s) - 1 /\ j # Len(s) - 1 /\ Len(s) \in Nat
  BY DEF IsTrip, Indices, LastIdx
<1>2. /\ a \in Seq(Nodes) /\ Len(a) = m /\ \A k \in 1 .. m : a[k] = r[k]
  BY <1>1, CutRoute DEF IsCut
<1>3. /\ d \in Seq(Nodes) /\ Len(d) = l /\ \A k \in 1 .. l : d[k] = s[(j + 1) + k]
  BY <1>1, CutRoute DEF IsCut
<1>4. /\ m \in Nat /\ m >= 1 /\ m < Len(r) /\ l \in Nat /\ l >= 1 /\ (j + 1) + l = Len(s)
  BY ONLY <1>1
<1>5. q = a \o d
  OBVIOUS
<1> HIDE DEF a, d, m, l
<1>6. a \in Seq(Nodes) /\ d \in Seq(Nodes)
  BY <1>2, <1>3
<1>7. /\ a \o d \in Seq(Nodes) /\ Len(a \o d) = Len(a) + Len(d)
      /\ \A k \in 1 .. Len(a) : (a \o d)[k] = a[k]
      /\ \A k \in 1 .. Len(d) : (a \o d)[Len(a) + k] = d[k]
  BY ONLY <1>6, ConcatElements
<1>8. /\ q \in Seq(Nodes) /\ Len(q) = m + l
      /\ \A k \in 1 .. m : q[k] = r[k]
      /\ \A k \in 1 .. l : q[m + k] = s[(j + 1) + k]
  BY ONLY <1>2, <1>3, <1>5, <1>7
<1>9. ASSUME NEW k \in 1 .. m + l PROVE q[k] = Depot <=> k \in {1, m + l}
  <2>1. CASE k <= m
    <3>1. k \in 1 .. m /\ k \in 1 .. Len(r) /\ (k \in {1, Len(r)} <=> k \in {1, m + l})
      BY ONLY <1>4, <2>1, k \in 1 .. m + l
    <3> QED
      BY <1>8, <3>1 DEF IsTrip
  <2>2. CASE ~(k <= m)
    <3> DEFINE h == k - m
    <3>1. h \in 1 .. l /\ k = m + h /\ (j + 1) + h \in 1 .. Len(s)
          /\ ((j + 1) + h \in {1, Len(s)} <=> k \in {1, m + l})
      BY ONLY <1>1, <1>4, <2>2, k \in 1 .. m + l
    <3> HIDE DEF h
    <3>2. q[k] = s[(j + 1) + h]
      BY ONLY <1>8, <3>1
    <3> QED
      BY <3>1, <3>2 DEF IsTrip
  <2> QED
    BY <2>1, <2>2
<1>10. IsTrip(q)
  <2>1. m + l >= 2
    BY ONLY <1>4
  <2> QED
    BY ONLY <1>8, <1>9, <2>1 DEF IsTrip
<1>11. ASSUME NEW w \in [Nodes -> Nat]
       PROVE  SumOf(Weights(w, q)) = SumOf(Weights(w, a)) + SumOf(Weights(w, d))
  BY ONLY <1>5, <1>6, <1>11, WeightConcat
<1> QED
  BY <1>8, <1>10, <1>11 DEF IsJoined, SliceWeight, a, d, m, l

\* What the exchange of their tails makes of two trips.
LEMMA TripTails ==
  ASSUME NEW r, IsTrip(r), NEW i \in Indices(r), i # LastIdx(r),
         NEW s, IsTrip(s), NEW j \in Indices(s), j # LastIdx(s),
         NEW q, NEW u, ExchangeTails(r, s, i, j) = <<q, u>>
  PROVE  /\ IsTrip(q) /\ Len(q) = (i + 1) + (Len(s) - (j + 1))
         /\ IsTrip(u) /\ Len(u) = (j + 1) + (Len(r) - (i + 1))
         /\ RouteDemand(q) = SliceDemand(r, 0, i) + SliceDemand(s, j + 1, LastIdx(s))
         /\ RouteDemand(u) = SliceDemand(s, 0, j) + SliceDemand(r, i + 1, LastIdx(r))
         /\ \A c : VisitsOn(q, c) + VisitsOn(u, c) = VisitsOn(r, c) + VisitsOn(s, c)
         /\ TotalDistance(q) + TotalDistance(u)
              = TotalDistance(r) + TotalDistance(s) + ExchangeTailsDelta(r, s, i, j)
<1>1. q = Slice(r, 0, i) \o Slice(s, j + 1, LastIdx(s))
      /\ u = Slice(s, 0, j) \o Slice(r, i + 1, LastIdx(r))
  BY DEF ExchangeTails
<1>2. /\ IsTrip(q) /\ Len(q) = (i + 1) + (Len(s) - (j + 1))
      /\ \A w \in [Nodes -> Nat] :
           SumOf(Weights(w, q))
             = SliceWeight(w, r, 0, i) + SliceWeight(w, s, j + 1, LastIdx(s))
  <2>1. IsJoined(r, i, s, j, q)
    BY <1>1, JoinedTrip
  <2> QED
    BY <2>1 DEF IsJoined
<1>3. /\ IsTrip(u) /\ Len(u) = (j + 1) + (Len(r) - (i + 1))
      /\ \A w \in [Nodes -> Nat] :
           SumOf(Weights(w, u))
             = SliceWeight(w, s, 0, j) + SliceWeight(w, r, i + 1, LastIdx(r))
  <2>1. IsJoined(s, j, r, i, u)
    BY <1>1, JoinedTrip
  <2> QED
    BY <2>1 DEF IsJoined
<1>4. /\ r \in Seq(Nodes) /\ s \in Seq(Nodes) /\ q \in Seq(Nodes) /\ u \in Seq(Nodes)
  BY <1>2, <1>3 DEF IsTrip
<1>5. /\ RouteDemand(q) = SliceDemand(r, 0, i) + SliceDemand(s, j + 1, LastIdx(s))
      /\ RouteDemand(u) = SliceDemand(s, 0, j) + SliceDemand(r, i + 1, LastIdx(r))
  BY ONLY <1>2, <1>3, <1>4, Measures, RouteLoad, SliceLoad DEF SliceWeight
<1>6. ASSUME NEW c
      PROVE  VisitsOn(q, c) + VisitsOn(u, c) = VisitsOn(r, c) + VisitsOn(s, c)
  <2> DEFINE ra == SliceWeight(Is(c), r, 0, i)
             rb == SliceWeight(Is(c), r, i + 1, LastIdx(r))
             sa == SliceWeight(Is(c), s, 0, j)
             sb == SliceWeight(Is(c), s, j + 1, LastIdx(s))
  <2>1. VisitsOn(r, c) = ra + rb /\ ra \in Nat /\ rb \in Nat
    BY <1>4, Measures, RouteVisits, CutWeight
  <2>2. VisitsOn(s, c) = sa + sb /\ sa \in Nat /\ sb \in Nat
    BY <1>4, Measures, RouteVisits, CutWeight
  <2>3. VisitsOn(q, c) = ra + sb /\ VisitsOn(u, c) = sa + rb
    BY ONLY <1>2, <1>3, <1>4, Measures, RouteVisits
  <2> HIDE DEF ra, rb, sa, sb
  <2> QED
    BY ONLY <2>1, <2>2, <2>3
<1>7. TotalDistance(q) + TotalDistance(u)
        = TotalDistance(r) + TotalDistance(s) + ExchangeTailsDelta(r, s, i, j)
  BY <1>4, ExchangeTailsExact
<1> QED
  BY ONLY <1>2, <1>3, <1>5, <1>6, <1>7

\* What the reversal of a slice between the ends makes of a trip.
LEMMA TripReverse ==
  ASSUME NEW r, IsTrip(r), NEW i \in Indices(r), NEW j \in Indices(r),
         1 <= i, i < j, j <= LastIdx(r) - 1, NEW q, q = ReverseSlice(r, i, j)
  PROVE  /\ IsTrip(q) /\ Len(q) = Len(r)
         /\ RouteDemand(q) = RouteDemand(r)
         /\ \A c : VisitsOn(q, c) = VisitsOn(r, c)
         /\ TotalDistance(q) = TotalDistance(r) + ReverseDelta(r, i, j)
<1> DEFINE n == Len(r)
<1>1. /\ r \in Seq(Nodes) /\ n \in Nat /\ n = Len(r) /\ i \in Nat /\ j \in Nat
      /\ 1 <= i /\ i < j /\ j <= n - 2 /\ i <= j
  BY DEF IsTrip, Indices, LastIdx
<1>2. TotalDistance(q) = TotalDistance(r) + ReverseDelta(r, i, j)
  BY <1>1, ReverseSliceExact
<1>3. PICK a, m, b : IsSliced(r, i, j, a, m, b)
  BY <1>1, SliceRoute
<1>4. /\ a \in Seq(Nodes) /\ m \in Seq(Nodes) /\ b \in Seq(Nodes)
      /\ r = (a \o m) \o b /\ q = (a \o Reverse(m)) \o b
      /\ Reverse(m) \in Seq(Nodes)
      /\ a \o m \in Seq(Nodes) /\ a \o Reverse(m) \in Seq(Nodes)
  <2>1. /\ a \in Seq(Nodes) /\ m \in Seq(Nodes) /\ b \in Seq(Nodes)
        /\ r = (a \o m) \o b /\ q = (a \o Reverse(m)) \o b
    BY <1>3 DEF IsSliced
  <2>2. Reverse(m) \in Seq(Nodes)
    BY <2>1, DepotAssumption, ReverseStep
  <2> QED
    BY <2>1, <2>2
<1>5. ASSUME NEW w \in [Nodes -> Nat]
      PROVE  SumOf(Weights(w, q)) = SumOf(Weights(w, r))
  <2>1. SumOf(Weights(w, r)) = SumOf(Weights(w, a \o m)) + SumOf(Weights(w, b))
    BY ONLY <1>4, <1>5, WeightConcat
  <2>2. SumOf(Weights(w, a \o m)) = SumOf(Weights(w, a)) + SumOf(Weights(w, m))
    BY ONLY <1>4, <1>5, WeightConcat
  <2>3. SumOf(Weights(w, q)) = SumOf(Weights(w, a \o Reverse(m))) + SumOf(Weights(w, b))
    BY ONLY <1>4, <1>5, WeightConcat
  <2>4. SumOf(Weights(w, a \o Reverse(m)))
          = SumOf(Weights(w, a)) + SumOf(Weights(w, Reverse(m)))
    BY ONLY <1>4, <1>5, WeightConcat
  <2>5. SumOf(Weights(w, Reverse(m))) = SumOf(Weights(w, m))
    BY ONLY <1>4, <1>5, WeightReversed
  <2> QED
    BY ONLY <2>1, <2>2, <2>3, <2>4, <2>5
<1> HIDE DEF n
<1>6. /\ q \in Seq(Nodes) /\ Len(q) = n
      /\ \A k \in 1 .. n :
           q[k] = IF k - 1 \in i .. j THEN r[(i + j - (k - 1)) + 1] ELSE r[k]
  <2>1. ASSUME NEW k \in 1 .. n
        PROVE  (IF k - 1 \in i .. j THEN r[(i + j - (k - 1)) + 1] ELSE r[k]) \in Nodes
    <3>1. k - 1 \in i .. j => (i + j - (k - 1)) + 1 \in 1 .. n
      BY ONLY <1>1, k \in 1 .. n
    <3> QED
      BY <1>1, <3>1
  <2>2. q = [k \in 1 .. n |->
               IF k - 1 \in i .. j THEN r[(i + j - (k - 1)) + 1] ELSE r[k]]
    BY <1>1 DEF ReverseSlice, At
  <2>3. q \in [1 .. n -> Nodes]
    BY ONLY <2>1, <2>2
  <2> QED
    BY <1>1, <2>2, <2>3
<1>7. ASSUME NEW k \in 1 .. n PROVE q[k] = Depot <=> k \in {1, n}
  <2>1. CASE k - 1 \in i .. j
    <3> DEFINE h == (i + j - (k - 1)) + 1
    <3>1. h \in 1 .. n /\ h \notin {1, n} /\ k \notin {1, n}
      BY ONLY <1>1, <2>1, k \in 1 .. n
    <3>2. q[k] = r[h]
      BY <1>6, <2>1
    <3> HIDE DEF h
    <3> QED
      BY <1>1, <3>1, <3>2 DEF IsTrip
  <2>2. CASE k - 1 \notin i .. j
    BY <1>1, <1>6, <2>2 DEF IsTrip
  <2> QED
    BY <2>1, <2>2
<1>8. IsTrip(q)
  <2>1. n >= 2
    BY ONLY <1>1
  <2> QED
    BY ONLY <1>6, <1>7, <2>1 DEF IsTrip
<1>9. RouteDemand(q) = RouteDemand(r)
  BY ONLY <1>1, <1>5, <1>6, Measures, RouteLoad
<1>10. ASSUME NEW c PROVE VisitsOn(q, c) = VisitsOn(r, c)
  BY ONLY <1>1, <1>5, <1>6, Measures, RouteVisits
<1> QED
  BY ONLY <1>1, <1>2, <1>6, <1>8, <1>9, <1>10

-----------------------------------------------------------------------------
(***************************************************************************)
(* The moves of the four searches                                          *)
(***************************************************************************)

\* A move of this delta makes the feasible solution t of the solution s.
Results(s, t, d) == IsSolution(t) /\ Cost(t) = Cost(s) + d /\ d \in Int

\* solution_remove_route of the one route that a move may have emptied.
LEMMA MoveDrops ==
  ASSUME NEW s, NEW t, NEW d \in Int, Becomes(s, t, d), IsSolution(s),
         NEW k \in DOMAIN t, \A l \in DOMAIN t \ {k} : Len(t[l]) >= 3
  PROVE  Results(s, DropIfEmpty(t, t[k], k), d)
<1>1. IsFeasible(t) /\ Cost(t) = Cost(s) + d
  BY DEF Becomes
<1>2. IsTrip(t[k]) /\ Len(t[k]) \in Nat /\ Len(t[k]) >= 2
  BY <1>1 DEF IsFeasible, IsTrip
<1>3. CASE Len(t[k]) = 2
  <2> DEFINE v == RemoveAt(t, k)
  <2>1. /\ Becomes(t, v, 0)
        /\ \A l \in DOMAIN v : \E h \in DOMAIN t \ {k} : v[l] = t[h]
    BY <1>1, <1>3, EmptyDropped
  <2>2. DropIfEmpty(t, t[k], k) = v
    BY <1>3 DEF DropIfEmpty
  <2> HIDE DEF v
  <2>3. IsFeasible(v) /\ Cost(v) = Cost(t) + 0
    BY <2>1 DEF Becomes
  <2>4. NoneEmpty(v)
    BY <2>1 DEF NoneEmpty
  <2>5. IsSolution(v)
    BY <2>3, <2>4, SolutionShape
  <2>6. Cost(v) = Cost(s) + d
    <3>1. Cost(s) \in Nat
      BY SolutionMeasures DEF IsSolution
    <3> QED
      BY <1>1, <2>3, <3>1
  <2> QED
    BY <2>2, <2>5, <2>6 DEF Results
<1>4. CASE Len(t[k]) # 2
  <2>1. DropIfEmpty(t, t[k], k) = t
    BY <1>4 DEF DropIfEmpty
  <2>2. NoneEmpty(t)
    <3> DEFINE n == Len(t[k])
    <3>1. n \in Nat /\ n >= 2 /\ n # 2
      BY <1>2, <1>4
    <3> HIDE DEF n
    <3>2. n >= 3
      BY ONLY <3>1
    <3> QED
      BY <3>2 DEF NoneEmpty, n
  <2>3. IsSolution(t)
    BY <1>1, <2>2, SolutionShape
  <2> QED
    BY <1>1, <2>1, <2>3 DEF Results
<1> QED
  BY <1>3, <1>4

\* The routes of a solution.
LEMMA SolutionRoutes ==
  ASSUME NEW s, IsSolution(s), NEW k \in DOMAIN s
  PROVE  /\ IsFeasible(s) /\ IsTrip(s[k]) /\ s[k] \in Seq(Nodes)
         /\ Len(s[k]) \in Nat /\ Len(s[k]) >= 3
         /\ RouteDemand(s[k]) <= Capacity /\ RouteDemand(s[k]) \in Nat
         /\ \A c : VisitsOn(s[k], c) \in Nat
         /\ TotalDistance(s[k]) \in Nat
<1>1. IsFeasible(s) /\ NoneEmpty(s)
  BY SolutionShape
<1>2. IsTrip(s[k]) /\ s[k] \in Seq(Nodes) /\ Len(s[k]) >= 3 /\ RouteDemand(s[k]) <= Capacity
  BY <1>1 DEF IsFeasible, IsTrip, NoneEmpty
<1> QED
  BY <1>1, <1>2, RouteLoad, RouteVisits, LegsType

\* What a node counts, for every node and every customer it may be.
LEMMA NodeMeasures ==
  ASSUME NEW x \in Nodes
  PROVE  Demand[x] \in Nat /\ \A c : Is(c)[x] \in Nat
BY Measures

\* cvrp_or_opt: relocating a node within the capacity of the other vehicle keeps
\* the solution feasible and changes its cost by the delta, also when the route
\* the node leaves becomes empty and is removed.
LEMMA OrOptExact ==
  ASSUME NEW s, IsSolution(s), NEW m \in OrOptMoves(s)
  PROVE  Results(s, OrOptMoved(s, m), OrOptDelta(s, m))
<1> DEFINE k1 == m[1]
           k2 == m[3]
           i == m[2]
           j == m[4]
           r1 == s[k1]
           r2 == s[k2]
           x == At(r1, i)
           q == RemoveNode(r1, i)
           u == InsertNode(r2, j, x)
           t == [s EXCEPT ![k1] = q, ![k2] = u]
           d1 == RemoveNodeDelta(r1, i)
           d2 == InsertNodeDelta(r2, j, x)
<1>1. m \in PairsOfPositions(s) /\ OrOptAllowed(s, m) /\ OrOptFits(s, m)
  BY DEF OrOptMoves
<1>2. k1 \in DOMAIN s /\ i \in Indices(r1) /\ k2 \in DOMAIN s /\ j \in Indices(r2)
  BY <1>1, MovePlace
<1>3. k1 # k2 /\ j # 0 /\ x # Depot /\ RouteDemand(r2) + Demand[x] <= Capacity
  BY <1>1 DEF OrOptAllowed, OrOptFits, NodeAt
<1>4. /\ OrOptMoved(s, m) = DropIfEmpty(t, q, k1)
      /\ OrOptDelta(s, m) = d1 + d2
  BY DEF OrOptMoved, OrOptDelta, NodeAt
<1> HIDE DEF k1, k2, i, j
<1>5. /\ IsFeasible(s)
      /\ IsTrip(r1) /\ r1 \in Seq(Nodes) /\ Len(r1) \in Nat /\ Len(r1) >= 3
      /\ RouteDemand(r1) <= Capacity /\ RouteDemand(r1) \in Nat
      /\ IsTrip(r2) /\ r2 \in Seq(Nodes) /\ Len(r2) \in Nat /\ Len(r2) >= 3
      /\ RouteDemand(r2) \in Nat
      /\ \A c : VisitsOn(r1, c) \in Nat /\ VisitsOn(r2, c) \in Nat
      /\ TotalDistance(r1) \in Nat /\ TotalDistance(r2) \in Nat
  BY <1>2, SolutionRoutes
<1> HIDE DEF r1, r2
<1>6. x \in Nodes
  BY <1>2, <1>3, <1>5, InnerNode
<1> HIDE DEF x
<1>7. /\ IsTrip(q) /\ Len(q) = Len(r1) - 1
      /\ RouteDemand(q) = RouteDemand(r1) - Demand[x]
      /\ \A c : VisitsOn(q, c) = VisitsOn(r1, c) - Is(c)[x]
      /\ TotalDistance(q) = TotalDistance(r1) + d1
  BY <1>2, <1>3, <1>5, TripRemove DEF x
<1>8. /\ IsTrip(u) /\ Len(u) = Len(r2) + 1
      /\ RouteDemand(u) = RouteDemand(r2) + Demand[x]
      /\ \A c : VisitsOn(u, c) = VisitsOn(r2, c) + Is(c)[x]
      /\ TotalDistance(u) = TotalDistance(r2) + d2
  BY <1>2, <1>3, <1>5, <1>6, TripInsert
<1>9. d1 \in Int /\ d2 \in Int
  BY <1>2, <1>5, <1>6, RemoveDeltaInt, InsertDeltaInt
<1> HIDE DEF q, u, d1, d2
<1>10. Demand[x] \in Nat /\ \A c : Is(c)[x] \in Nat
  BY <1>6, NodeMeasures
<1>11. RouteDemand(q) <= Capacity /\ RouteDemand(u) <= Capacity
  BY <1>3, <1>5, <1>7, <1>8, <1>10, CapacityAssumption
<1>12. SameVisits(q, u, r1, r2)
  <2>1. ASSUME NEW c
        PROVE  VisitsOn(q, c) + VisitsOn(u, c) = VisitsOn(r1, c) + VisitsOn(r2, c)
    <3>1. /\ VisitsOn(q, c) = VisitsOn(r1, c) - Is(c)[x]
          /\ VisitsOn(u, c) = VisitsOn(r2, c) + Is(c)[x]
          /\ VisitsOn(r1, c) \in Nat /\ VisitsOn(r2, c) \in Nat /\ Is(c)[x] \in Nat
      BY <1>5, <1>7, <1>8, <1>10
    <3> QED
      BY ONLY <3>1
  <2> QED
    BY <2>1 DEF SameVisits
<1>13. TotalDistance(q) + TotalDistance(u)
         = TotalDistance(r1) + TotalDistance(r2) + (d1 + d2)
  BY ONLY <1>5, <1>7, <1>8, <1>9
<1>14. d1 + d2 \in Int
  BY <1>9
<1>15. /\ Becomes(s, t, d1 + d2) /\ DOMAIN t = DOMAIN s
       /\ \A l \in DOMAIN s : t[l] = IF l = k1 THEN q ELSE IF l = k2 THEN u ELSE s[l]
  <2>1. TwoReplaced(s, t, d1 + d2, k1, k2, q, u)
    BY ONLY <1>2, <1>3, <1>5, <1>7, <1>8, <1>11, <1>12, <1>13, <1>14, RoutesChanged
       DEF r1, r2
  <2> QED
    BY <2>1 DEF TwoReplaced
<1> HIDE DEF t
<1>16. k1 \in DOMAIN t /\ t[k1] = q
  BY <1>2, <1>15
<1>17. ASSUME NEW l \in DOMAIN t \ {k1} PROVE Len(t[l]) >= 3
  <2>1. t[l] = IF l = k2 THEN u ELSE s[l]
    BY <1>15
  <2>2. Len(u) >= 3
    BY <1>5, <1>8
  <2>3. Len(s[l]) >= 3
    BY <1>15, SolutionRoutes
  <2> QED
    BY <2>1, <2>2, <2>3
<1>18. Results(s, DropIfEmpty(t, t[k1], k1), d1 + d2)
  BY ONLY <1>14, <1>15, <1>16, <1>17, IsSolution(s), MoveDrops
<1> QED
  BY <1>4, <1>16, <1>18

\* cvrp_exchange: exchanging two nodes within the capacity of both vehicles keeps
\* the solution feasible and changes its cost by the delta.
LEMMA ExchangeExact ==
  ASSUME NEW s, IsSolution(s), NEW m \in ExchangeMoves(s)
  PROVE  Results(s, ExchangeMoved(s, m), ExchangeDelta(s, m))
<1> DEFINE k1 == m[1]
           k2 == m[3]
           i == m[2]
           j == m[4]
           r1 == s[k1]
           r2 == s[k2]
           x == At(r1, i)
           y == At(r2, j)
           q == [r1 EXCEPT ![i + 1] = y]
           u == [r2 EXCEPT ![j + 1] = x]
           t == [s EXCEPT ![k1] = q, ![k2] = u]
           d1 == ReplaceNodeDelta(r1, i, y)
           d2 == ReplaceNodeDelta(r2, j, x)
<1>1. m \in PairsOfPositions(s) /\ ExchangeAllowed(s, m) /\ ExchangeFits(s, m)
  BY DEF ExchangeMoves
<1>2. k1 \in DOMAIN s /\ i \in Indices(r1) /\ k2 \in DOMAIN s /\ j \in Indices(r2)
  BY <1>1, MovePlace
<1>3. /\ k1 < k2 /\ x # Depot /\ y # Depot
      /\ RouteDemand(r1) - Demand[x] + Demand[y] <= Capacity
      /\ RouteDemand(r2) - Demand[y] + Demand[x] <= Capacity
  BY <1>1 DEF ExchangeAllowed, ExchangeFits, NodeAt
<1>4. /\ ExchangeMoved(s, m) = t
      /\ ExchangeDelta(s, m) = d1 + d2
  BY DEF ExchangeMoved, ExchangeNodes, ExchangeDelta, ExchangeNodesDelta
<1> HIDE DEF k1, k2, i, j
<1>5. /\ IsFeasible(s)
      /\ IsTrip(r1) /\ r1 \in Seq(Nodes)
      /\ IsTrip(r2) /\ r2 \in Seq(Nodes)
      /\ \A c : VisitsOn(r1, c) \in Nat /\ VisitsOn(r2, c) \in Nat
      /\ TotalDistance(r1) \in Nat /\ TotalDistance(r2) \in Nat
      /\ Len(r1) >= 3 /\ Len(r2) >= 3
  BY <1>2, SolutionRoutes
<1>6. k1 # k2
  BY <1>2, <1>3, <1>5 DEF IsFeasible
<1> HIDE DEF r1, r2
<1>7. x \in Nodes /\ y \in Nodes
  BY <1>2, <1>3, <1>5, InnerNode
<1> HIDE DEF x, y
<1>8. /\ IsTrip(q) /\ Len(q) = Len(r1)
      /\ RouteDemand(q) = RouteDemand(r1) - Demand[x] + Demand[y]
      /\ \A c : VisitsOn(q, c) = VisitsOn(r1, c) - Is(c)[x] + Is(c)[y]
      /\ TotalDistance(q) = TotalDistance(r1) + d1
  BY <1>2, <1>3, <1>5, <1>7, TripReplace DEF x
<1>9. /\ IsTrip(u) /\ Len(u) = Len(r2)
      /\ RouteDemand(u) = RouteDemand(r2) - Demand[y] + Demand[x]
      /\ \A c : VisitsOn(u, c) = VisitsOn(r2, c) - Is(c)[y] + Is(c)[x]
      /\ TotalDistance(u) = TotalDistance(r2) + d2
  BY <1>2, <1>3, <1>5, <1>7, TripReplace DEF y
<1>10. d1 \in Int /\ d2 \in Int
  BY <1>2, <1>5, <1>7, ReplaceDeltaInt
<1> HIDE DEF q, u, d1, d2
<1>11. \A c : Is(c)[x] \in Nat /\ Is(c)[y] \in Nat
  BY <1>7, NodeMeasures
<1>12. RouteDemand(q) <= Capacity /\ RouteDemand(u) <= Capacity
  BY ONLY <1>3, <1>8, <1>9
<1>13. SameVisits(q, u, r1, r2)
  <2>1. ASSUME NEW c
        PROVE  VisitsOn(q, c) + VisitsOn(u, c) = VisitsOn(r1, c) + VisitsOn(r2, c)
    <3>1. /\ VisitsOn(q, c) = VisitsOn(r1, c) - Is(c)[x] + Is(c)[y]
          /\ VisitsOn(u, c) = VisitsOn(r2, c) - Is(c)[y] + Is(c)[x]
          /\ VisitsOn(r1, c) \in Nat /\ VisitsOn(r2, c) \in Nat
          /\ Is(c)[x] \in Nat /\ Is(c)[y] \in Nat
      BY <1>5, <1>8, <1>9, <1>11
    <3> QED
      BY ONLY <3>1
  <2> QED
    BY <2>1 DEF SameVisits
<1>14. TotalDistance(q) + TotalDistance(u)
         = TotalDistance(r1) + TotalDistance(r2) + (d1 + d2)
  BY ONLY <1>5, <1>8, <1>9, <1>10
<1>15. d1 + d2 \in Int
  BY <1>10
<1>16. /\ Becomes(s, t, d1 + d2) /\ DOMAIN t = DOMAIN s
       /\ \A l \in DOMAIN s : t[l] = IF l = k1 THEN q ELSE IF l = k2 THEN u ELSE s[l]
  <2>1. TwoReplaced(s, t, d1 + d2, k1, k2, q, u)
    BY ONLY <1>2, <1>5, <1>6, <1>8, <1>9, <1>12, <1>13, <1>14, <1>15, RoutesChanged
       DEF r1, r2
  <2> QED
    BY <2>1 DEF TwoReplaced
<1> HIDE DEF t
<1>17. ASSUME NEW l \in DOMAIN t PROVE Len(t[l]) >= 3
  <2>1. t[l] = IF l = k1 THEN q ELSE IF l = k2 THEN u ELSE s[l]
    BY <1>16
  <2>2. Len(q) >= 3 /\ Len(u) >= 3
    BY <1>5, <1>8, <1>9
  <2>3. Len(s[l]) >= 3
    BY <1>16, SolutionRoutes
  <2> QED
    BY <2>1, <2>2, <2>3
<1>18. IsSolution(t) /\ Cost(t) = Cost(s) + (d1 + d2)
  BY <1>16, <1>17, SolutionShape DEF Becomes, NoneEmpty
<1> QED
  BY <1>4, <1>15, <1>18 DEF Results

\* cvrp_2_opt: reversing a slice keeps the solution feasible and changes its cost
\* by the delta.
LEMMA TwoOptExact ==
  ASSUME NEW s, IsSolution(s), NEW m \in TwoOptMoves(s)
  PROVE  Results(s, TwoOptMoved(s, m), TwoOptDelta(s, m))
<1> DEFINE k == m[1]
           i == m[2]
           j == m[3]
           r == s[k]
           q == ReverseSlice(r, i, j)
           t == Replaced(s, k, q)
           d == ReverseDelta(r, i, j)
<1>1. k \in DOMAIN s /\ i \in Indices(r) /\ j \in Indices(r)
      /\ 1 <= i /\ i < j /\ j <= LastIdx(r) - 1
  <2>1. PICK h \in DOMAIN s : m \in {h} \X Indices(s[h]) \X Indices(s[h])
    BY DEF TwoOptMoves, TwoOptCandidates
  <2>2. 1 <= m[2] /\ m[2] < m[3] /\ m[3] <= LastIdx(s[m[1]]) - 1
    BY DEF TwoOptMoves, TwoOptCandidates
  <2> QED
    BY <2>1, <2>2
<1>2. TwoOptMoved(s, m) = t /\ TwoOptDelta(s, m) = d
  BY DEF TwoOptMoved, TwoOptDelta, Replaced
<1> HIDE DEF k, i, j
<1>3. /\ IsFeasible(s) /\ IsTrip(r) /\ r \in Seq(Nodes) /\ Len(r) >= 3
      /\ RouteDemand(r) <= Capacity
  BY <1>1, SolutionRoutes
<1> HIDE DEF r
<1>4. /\ IsTrip(q) /\ Len(q) = Len(r)
      /\ RouteDemand(q) = RouteDemand(r)
      /\ \A c : VisitsOn(q, c) = VisitsOn(r, c)
      /\ TotalDistance(q) = TotalDistance(r) + d
  BY <1>1, <1>3, TripReverse
<1>5. d \in Int
  <2>1. i <= j
    BY <1>1 DEF Indices
  <2> QED
    BY <1>1, <1>3, <2>1, ReverseSliceExact
<1> HIDE DEF q, d
<1>6. RouteDemand(q) <= Capacity /\ \A c \in Customers : VisitsOn(q, c) = VisitsOn(r, c)
  BY <1>3, <1>4
<1>7. /\ Becomes(s, t, d) /\ DOMAIN t = DOMAIN s
      /\ \A l \in DOMAIN s : t[l] = IF l = k THEN q ELSE s[l]
  BY ONLY <1>1, <1>3, <1>4, <1>5, <1>6, RouteChanged DEF r
<1> HIDE DEF t
<1>8. ASSUME NEW l \in DOMAIN t PROVE Len(t[l]) >= 3
  <2>1. t[l] = IF l = k THEN q ELSE s[l]
    BY <1>7
  <2>2. Len(q) >= 3
    BY <1>3, <1>4
  <2>3. Len(s[l]) >= 3
    BY <1>7, SolutionRoutes
  <2> QED
    BY <2>1, <2>2, <2>3
<1>9. IsSolution(t) /\ Cost(t) = Cost(s) + d
  BY <1>7, <1>8, SolutionShape DEF Becomes, NoneEmpty
<1> QED
  BY <1>2, <1>5, <1>9 DEF Results

\* cvrp_2_opt_star: exchanging the tails of two routes keeps the solution feasible
\* and changes its cost by the delta.  At most one of the two routes can become
\* empty, so the index of the second, taken before the first is removed, is
\* never used once it is stale.
LEMMA TailsExact ==
  ASSUME NEW s, IsSolution(s), NEW m \in TailsMoves(s)
  PROVE  Results(s, TailsMoved(s, m), TailsDelta(s, m))
<1> DEFINE k1 == m[1]
           k2 == m[3]
           i == m[2]
           j == m[4]
           r1 == s[k1]
           r2 == s[k2]
           new == ExchangeTails(r1, r2, i, j)
           q == new[1]
           u == new[2]
           t == [s EXCEPT ![k1] = q, ![k2] = u]
           d == ExchangeTailsDelta(r1, r2, i, j)
<1>1. m \in PairsOfPositions(s) /\ TailsAllowed(s, m) /\ TailsFit(s, m)
  BY DEF TailsMoves
<1>2. k1 \in DOMAIN s /\ i \in Indices(r1) /\ k2 \in DOMAIN s /\ j \in Indices(r2)
  BY <1>1, MovePlace
<1>3. /\ k1 < k2 /\ i # LastIdx(r1) /\ j # LastIdx(r2)
      /\ ~(At(r1, i) = Depot /\ At(r2, j) = Depot)
      /\ SliceDemand(r1, 0, i) + SliceDemand(r2, j + 1, LastIdx(r2)) <= Capacity
      /\ SliceDemand(r2, 0, j) + SliceDemand(r1, i + 1, LastIdx(r1)) <= Capacity
  BY <1>1 DEF TailsAllowed, TailsFit, NodeAt
<1>4. /\ TailsMoved(s, m) = DropIfEmpty(DropIfEmpty(t, q, k1), u, k2)
      /\ TailsDelta(s, m) = d
  BY DEF TailsMoved, TailsDelta
<1> HIDE DEF k1, k2, i, j
<1>5. /\ IsFeasible(s)
      /\ IsTrip(r1) /\ r1 \in Seq(Nodes) /\ Len(r1) \in Nat /\ Len(r1) >= 3
      /\ IsTrip(r2) /\ r2 \in Seq(Nodes) /\ Len(r2) \in Nat /\ Len(r2) >= 3
  BY <1>2, SolutionRoutes
<1>6. k1 # k2
  BY <1>2, <1>3, <1>5 DEF IsFeasible
<1> HIDE DEF r1, r2
<1>7. ExchangeTails(r1, r2, i, j) = <<q, u>>
  BY DEF ExchangeTails
<1> HIDE DEF new, q, u
<1>8. /\ IsTrip(q) /\ Len(q) = (i + 1) + (Len(r2) - (j + 1))
      /\ IsTrip(u) /\ Len(u) = (j + 1) + (Len(r1) - (i + 1))
      /\ RouteDemand(q) = SliceDemand(r1, 0, i) + SliceDemand(r2, j + 1, LastIdx(r2))
      /\ RouteDemand(u) = SliceDemand(r2, 0, j) + SliceDemand(r1, i + 1, LastIdx(r1))
      /\ \A c : VisitsOn(q, c) + VisitsOn(u, c) = VisitsOn(r1, c) + VisitsOn(r2, c)
      /\ TotalDistance(q) + TotalDistance(u) = TotalDistance(r1) + TotalDistance(r2) + d
  BY <1>2, <1>3, <1>5, <1>7, TripTails
<1>9. d \in Int
  BY <1>2, <1>5, TailsDeltaInt
<1> HIDE DEF d
<1>10. RouteDemand(q) <= Capacity /\ RouteDemand(u) <= Capacity
  BY ONLY <1>3, <1>8
<1>11. SameVisits(q, u, r1, r2)
  BY ONLY <1>8 DEF SameVisits
<1>12. /\ Becomes(s, t, d) /\ DOMAIN t = DOMAIN s
       /\ \A l \in DOMAIN s : t[l] = IF l = k1 THEN q ELSE IF l = k2 THEN u ELSE s[l]
  <2>1. TwoReplaced(s, t, d, k1, k2, q, u)
    BY ONLY <1>2, <1>5, <1>6, <1>8, <1>9, <1>10, <1>11, RoutesChanged DEF r1, r2
  <2> QED
    BY <2>1 DEF TwoReplaced
<1> HIDE DEF t
<1>13. /\ k1 \in DOMAIN t /\ t[k1] = q /\ k2 \in DOMAIN t /\ t[k2] = u
       /\ \A l \in DOMAIN t \ {k1, k2} : Len(t[l]) >= 3
  <2>1. \A l \in DOMAIN t \ {k1, k2} : l \in DOMAIN s /\ t[l] = s[l]
    BY <1>12
  <2> QED
    BY <1>2, <1>6, <1>12, <2>1, SolutionRoutes
\* The two lengths add up to six at least
<1>14. (Len(u) # 2 /\ Len(u) >= 3) \/ (Len(q) # 2 /\ Len(q) >= 3)
  <2> DEFINE lq == Len(q)
             lu == Len(u)
             n1 == Len(r1)
             n2 == Len(r2)
  <2>1. /\ lq = (i + 1) + (n2 - (j + 1)) /\ lu = (j + 1) + (n1 - (i + 1))
        /\ lq >= 2 /\ lu >= 2 /\ n1 >= 3 /\ n2 >= 3
    BY <1>5, <1>8 DEF IsTrip
  <2>2. /\ n1 \in Int /\ n2 \in Int /\ i \in Int /\ j \in Int
    BY <1>2, <1>5 DEF Indices
  <2> HIDE DEF lq, lu, n1, n2
  <2>3. (lu # 2 /\ lu >= 3) \/ (lq # 2 /\ lq >= 3)
    BY ONLY <2>1, <2>2
  <2> QED
    BY <2>3 DEF lq, lu
<1>15. CASE Len(u) # 2 /\ Len(u) >= 3
  <2>1. \A l \in DOMAIN t \ {k1} : Len(t[l]) >= 3
    BY ONLY <1>13, <1>15
  <2>2. Results(s, DropIfEmpty(t, q, k1), d)
    <3>1. Results(s, DropIfEmpty(t, t[k1], k1), d)
      BY ONLY <1>9, <1>12, <1>13, <2>1, IsSolution(s), MoveDrops
    <3> QED
      BY <1>13, <3>1
  <2>3. DropIfEmpty(DropIfEmpty(t, q, k1), u, k2) = DropIfEmpty(t, q, k1)
    <3>1. Len(u) # 2
      BY <1>15
    <3> QED
      BY ONLY <3>1 DEF DropIfEmpty
  <2> QED
    BY <1>4, <2>2, <2>3
<1>16. CASE Len(q) # 2 /\ Len(q) >= 3
  <2>1. \A l \in DOMAIN t \ {k2} : Len(t[l]) >= 3
    BY ONLY <1>13, <1>16
  <2>2. Results(s, DropIfEmpty(t, u, k2), d)
    <3>1. Results(s, DropIfEmpty(t, t[k2], k2), d)
      BY ONLY <1>9, <1>12, <1>13, <2>1, IsSolution(s), MoveDrops
    <3> QED
      BY <1>13, <3>1
  <2>3. DropIfEmpty(t, q, k1) = t
    <3>1. Len(q) # 2
      BY <1>16
    <3> QED
      BY ONLY <3>1 DEF DropIfEmpty
  <2> QED
    BY <1>4, <2>2, <2>3
<1> QED
  BY <1>14, <1>15, <1>16

-----------------------------------------------------------------------------
(***************************************************************************)
(* The optimisation                                                        *)
(***************************************************************************)

\* The first move of a search is one of its moves.
LEMMA FirstIsMove == \A moves : \A m \in First(moves) : m \in moves
BY DEF First

\* A call of a search either performs a move, which makes a cheaper feasible
\* solution, or leaves the solution alone.
LEMMA Steps ==
  ASSUME IsSolution(sol), Next
  PROVE  \/ \E d : d < 0 /\ Results(sol, sol', d) /\ Improved(d)
         \/ NoMove /\ UNCHANGED <<sol, total_distance, cost_before, total_saving>>
<1>1. CASE OrOpt
  <2>1. PICK m \in First(OrOptMoves(sol)) :
          sol' = OrOptMoved(sol, m) /\ Improved(OrOptDelta(sol, m))
    BY <1>1 DEF OrOpt
  <2>2. Results(sol, sol', OrOptDelta(sol, m))
    BY <2>1, FirstIsMove, OrOptExact
  <2>3. OrOptDelta(sol, m) < 0
    BY <2>1, FirstIsMove DEF OrOptMoves
  <2> QED
    BY <2>1, <2>2, <2>3
<1>2. CASE Exchange
  <2>1. PICK m \in First(ExchangeMoves(sol)) :
          sol' = ExchangeMoved(sol, m) /\ Improved(ExchangeDelta(sol, m))
    BY <1>2 DEF Exchange
  <2>2. Results(sol, sol', ExchangeDelta(sol, m))
    BY <2>1, FirstIsMove, ExchangeExact
  <2>3. ExchangeDelta(sol, m) < 0
    BY <2>1, FirstIsMove DEF ExchangeMoves
  <2> QED
    BY <2>1, <2>2, <2>3
<1>3. CASE TwoOpt
  <2>1. PICK m \in First(TwoOptMoves(sol)) :
          sol' = TwoOptMoved(sol, m) /\ Improved(TwoOptDelta(sol, m))
    BY <1>3 DEF TwoOpt
  <2>2. Results(sol, sol', TwoOptDelta(sol, m))
    BY <2>1, FirstIsMove, TwoOptExact
  <2>3. TwoOptDelta(sol, m) < 0
    BY <2>1, FirstIsMove DEF TwoOptMoves
  <2> QED
    BY <2>1, <2>2, <2>3
<1>4. CASE TwoOptStar
  <2>1. PICK m \in First(TailsMoves(sol)) :
          sol' = TailsMoved(sol, m) /\ Improved(TailsDelta(sol, m))
    BY <1>4 DEF TwoOptStar
  <2>2. Results(sol, sol', TailsDelta(sol, m))
    BY <2>1, FirstIsMove, TailsExact
  <2>3. TailsDelta(sol, m) < 0
    BY <2>1, FirstIsMove DEF TailsMoves
  <2> QED
    BY <2>1, <2>2, <2>3
<1>5. CASE NoMove
  BY <1>5 DEF NoMove, NotImproved
<1> QED
  BY <1>1, <1>2, <1>3, <1>4, <1>5 DEF Next

\* No move loses, duplicates or misplaces a customer, overloads a vehicle or
\* leaves an empty route: the searches of cvrp_post_optimize keep every feasible
\* start feasible.
THEOREM Sound == Spec => []SolutionSound
<1>1. Init => SolutionSound
  BY StartsAssumption DEF Init, SolutionSound
<1>2. SolutionSound /\ [Next]_vars => SolutionSound'
  <2> SUFFICES ASSUME SolutionSound, [Next]_vars PROVE SolutionSound'
    OBVIOUS
  <2>1. CASE Next
    <3>1. IsSolution(sol)
      BY DEF SolutionSound
    <3>2. \/ \E d : Results(sol, sol', d) /\ Improved(d)
          \/ NoMove /\ UNCHANGED <<sol, total_distance, cost_before, total_saving>>
      BY <2>1, <3>1, Steps
    <3> QED
      BY <3>1, <3>2 DEF Results, SolutionSound
  <2>2. CASE UNCHANGED vars
    BY <2>2 DEF SolutionSound, vars
  <2> QED
    BY <2>1, <2>2
<1> QED
  BY <1>1, <1>2, PTL DEF Spec

\* The inductive invariant of the ledger: its entries are numbers and it is exact.
LedgerInv ==
  /\ SolutionSound
  /\ cost_before \in Int
  /\ LedgerExact

\* The cost that is only ever adjusted by the deltas of the moves is that of the
\* solution, after every move of every search, the removal of empty routes
\* included.
THEOREM LedgerStaysExact == Spec => []LedgerExact
<1>1. ASSUME NEW s, IsSolution(s) PROVE Cost(s) \in Int
  <2>1. s \in Seq(Seq(Nodes))
    BY <1>1 DEF IsSolution
  <2> QED
    BY <2>1, SolutionMeasures
<1>2. Init => LedgerInv
  <2> SUFFICES ASSUME Init PROVE LedgerInv
    OBVIOUS
  <2>1. IsSolution(sol) /\ total_distance = Cost(sol) /\ cost_before = total_distance
        /\ total_saving = 0
    BY StartsAssumption DEF Init
  <2> QED
    BY <1>1, <2>1 DEF LedgerInv, LedgerExact, SolutionSound
<1>3. LedgerInv /\ [Next]_vars => LedgerInv'
  <2> SUFFICES ASSUME LedgerInv, [Next]_vars PROVE LedgerInv'
    OBVIOUS
  <2>1. IsSolution(sol) /\ cost_before \in Int /\ total_distance = Cost(sol)
        /\ total_saving = cost_before - total_distance /\ Cost(sol) \in Int
    BY <1>1 DEF LedgerInv, LedgerExact, SolutionSound
  <2>2. CASE Next
    <3>1. CASE \E d : Results(sol, sol', d) /\ Improved(d)
      <4>1. PICK d : Results(sol, sol', d) /\ Improved(d)
        BY <3>1
      <4>2. /\ IsSolution(sol') /\ Cost(sol') = Cost(sol) + d /\ d \in Int
            /\ total_distance' = total_distance + d
            /\ total_saving' = total_saving - d /\ cost_before' = cost_before
        BY <4>1 DEF Results, Improved
      <4>3. /\ total_distance' = Cost(sol')
            /\ total_saving' = cost_before' - total_distance'
        BY ONLY <2>1, <4>2
      <4> QED
        BY <2>1, <4>2, <4>3 DEF LedgerInv, LedgerExact, SolutionSound
    <3>2. CASE UNCHANGED <<sol, total_distance, cost_before, total_saving>>
      BY <2>1, <3>2 DEF LedgerInv, LedgerExact, SolutionSound
    <3> QED
      BY <2>1, <2>2, <3>1, <3>2, Steps
  <2>3. CASE UNCHANGED vars
    BY <2>1, <2>3 DEF LedgerInv, LedgerExact, SolutionSound, vars
  <2> QED
    BY <2>2, <2>3
<1>4. LedgerInv => LedgerExact
  BY DEF LedgerInv
<1> QED
  BY <1>2, <1>3, <1>4, PTL DEF Spec

\* What the loop of cvrp_post_optimize knows when a search is next: those before
\* it have found nothing on this very solution.
Exhausted ==
  /\ pc \in {"or_opt", "exchange", "2_opt", "2_opt_star", "done"}
  /\ pc # "or_opt" => OrOptMoves(sol) = {}
  /\ pc \in {"2_opt", "2_opt_star", "done"} => ExchangeMoves(sol) = {}
  /\ pc \in {"2_opt_star", "done"} => TwoOptMoves(sol) = {}
  /\ pc = "done" => TailsMoves(sol) = {}

\* The result is a local optimum of all four neighbourhoods at once: a search that
\* improves the solution sends the loop back to the first one.
THEOREM EndsAtLocalOptimum == Spec => []LocalOptimum
<1>1. Init => Exhausted
  BY DEF Init, Exhausted
<1>2. Exhausted /\ [Next]_vars => Exhausted'
  <2> SUFFICES ASSUME Exhausted, [Next]_vars PROVE Exhausted'
    OBVIOUS
  <2>1. ASSUME NEW d, Improved(d) PROVE Exhausted'
    BY <2>1 DEF Improved, Exhausted
  <2>2. CASE OrOpt
    BY <2>1, <2>2 DEF OrOpt
  <2>3. CASE Exchange
    BY <2>1, <2>3 DEF Exchange
  <2>4. CASE TwoOpt
    BY <2>1, <2>4 DEF TwoOpt
  <2>5. CASE TwoOptStar
    BY <2>1, <2>5 DEF TwoOptStar
  <2>6. CASE NoMove
    <3>1. OrOptMoves(sol)' = OrOptMoves(sol') /\ sol' = sol
      BY <2>6 DEF NoMove, NotImproved
    <3> QED
      BY <2>6, <3>1 DEF NoMove, NotImproved, Exhausted
  <2>7. CASE UNCHANGED vars
    BY <2>7 DEF Exhausted, vars
  <2> QED
    BY <2>2, <2>3, <2>4, <2>5, <2>6, <2>7 DEF Next
<1>3. Exhausted => LocalOptimum
  BY DEF Exhausted, LocalOptimum
<1> QED
  BY <1>1, <1>2, <1>3, PTL DEF Spec

-----------------------------------------------------------------------------
(***************************************************************************)
(* Giant tours                                                             *)
(***************************************************************************)

NumCustomers == Cardinality(Customers)

\* There are finitely many customers.
LEMMA CustomersFinite ==
  /\ IsFiniteSet(Customers) /\ NumCustomers \in Nat
  /\ Customers \subseteq Nodes /\ Depot \notin Customers /\ Depot \in Nodes
<1>1. Customers \in SUBSET Nodes
  BY DEF Customers
<1>2. IsFiniteSet(Customers)
  BY ONLY <1>1, NodesAssumption, FS_Subset
<1> QED
  BY <1>1, <1>2, FS_CardinalityType, DepotAssumption DEF Customers, NumCustomers

\* The giant tours list the customers.
LEMMA GiantTourLists ==
  ASSUME NEW t
  PROVE  t \in GiantTours <=> Lists(t, NumCustomers, Customers)
<1>1. t \in GiantTours <=>
        /\ t \in [1 .. NumCustomers -> Customers]
        /\ \A x, y \in 1 .. NumCustomers : t[x] = t[y] => x = y
  BY DEF GiantTours, SetToSeqs, NumCustomers
<1>2. ASSUME t \in [1 .. NumCustomers -> Customers],
             \A x, y \in 1 .. NumCustomers : t[x] = t[y] => x = y
      PROVE  Lists(t, NumCustomers, Customers)
  <2>1. IsFiniteSet(1 .. NumCustomers) /\ Cardinality(1 .. NumCustomers) = NumCustomers
    BY CustomersFinite, FS_Interval
  <2>2. t \in Injection(1 .. NumCustomers, Customers)
    BY <1>2 DEF Injection, IsInjective
  <2>3. t \in Surjection(1 .. NumCustomers, Customers)
    BY <2>1, <2>2, CustomersFinite, FS_Injection DEF NumCustomers
  <2> QED
    BY <1>2, <2>3 DEF Surjection, Lists
<1> QED
  BY <1>1, <1>2 DEF Lists

\* A list without an element of weight weighs nothing.
LEMMA WeightAbsent ==
  ASSUME NEW S, NEW w \in [S -> Nat], NEW s \in Seq(S),
         \A k \in 1 .. Len(s) : w[s[k]] = 0
  PROVE  SumOf(Weights(w, s)) = 0
<1> DEFINE list == Weights(w, s)
           g == SumsOf(list)
<1>1. list \in Seq(Int) /\ Len(list) = Len(s) /\ \A k \in 1 .. Len(s) : list[k] = 0
  BY WeightsType DEF WeighsAs
<1>2. Len(s) \in Nat
  OBVIOUS
<1> HIDE DEF list
<1>3. g[0] = 0 /\ \A k \in 1 .. Len(s) : g[k] = g[k - 1] + list[k]
  BY <1>1, SumsOfStep
<1> HIDE DEF g
<1> DEFINE n == Len(s)
           T == {0}
<1>4. g[0] \in T /\ \A k \in 1 .. n : g[k - 1] \in T => g[k] \in T
  BY <1>1, <1>3
<1>5. \A k \in 0 .. n : g[k] \in T
  <2>1. n \in Nat
    BY <1>2
  <2> HIDE DEF n, T
  <2> QED
    BY ONLY <2>1, <1>4, LoopType
<1>6. SumOf(list) = g[Len(s)]
  BY <1>1, SumOfLast DEF g
<1>7. Len(s) \in 0 .. Len(s)
  BY <1>2
<1>8. SumOf(list) = 0
  BY <1>5, <1>6, <1>7
<1> QED
  BY <1>8 DEF list

\* What removing an element that counts leaves.
LEMMA CountRemoved ==
  ASSUME NEW r \in Seq(Nodes), NEW c \in Nodes, NEW p \in 1 .. Len(r), r[p] = c
  PROVE  /\ VisitsOn(RemoveAt(r, p), c) = VisitsOn(r, c) - 1
         /\ RemoveAt(r, p) \in Seq(Nodes) /\ Len(RemoveAt(r, p)) = Len(r) - 1
         /\ \A k \in 1 .. Len(r) - 1 :
              RemoveAt(r, p)[k] = IF k < p THEN r[k] ELSE r[k + 1]
         /\ VisitsOn(RemoveAt(r, p), c) \in Nat
<1>1. Is(c) \in [Nodes -> Nat] /\ Is(c)[r[p]] = 1
  BY Measures DEF Is
<1>2. /\ RemoveAt(r, p) \in Seq(Nodes) /\ Len(RemoveAt(r, p)) = Len(r) - 1
      /\ \A k \in 1 .. Len(r) - 1 :
           RemoveAt(r, p)[k] = IF k < p THEN r[k] ELSE r[k + 1]
  BY RemoveAtProperties
<1>3. SumOf(Weights(Is(c), RemoveAt(r, p))) = SumOf(Weights(Is(c), r)) - 1
  BY <1>1, WeightRemoved
<1> QED
  BY <1>2, <1>3, RouteVisits

\* A node that is not on a route is not visited.
LEMMA NotVisited ==
  ASSUME NEW r \in Seq(Nodes), NEW c \in Nodes, \A k \in 1 .. Len(r) : r[k] # c
  PROVE  VisitsOn(r, c) = 0
<1>1. Is(c) \in [Nodes -> Nat] /\ \A k \in 1 .. Len(r) : Is(c)[r[k]] = 0
  BY Measures DEF Is
<1> QED
  BY <1>1, WeightAbsent, RouteVisits

\* A node is visited once if it is at one position.
LEMMA VisitedOnce ==
  ASSUME NEW r \in Seq(Nodes), NEW c \in Nodes
  PROVE  VisitsOn(r, c) = 1 <=>
           /\ \E k \in 1 .. Len(r) : r[k] = c
           /\ \A k, l \in 1 .. Len(r) : r[k] = c /\ r[l] = c => k = l
<1>1. ASSUME VisitsOn(r, c) = 1
      PROVE  \E k \in 1 .. Len(r) : r[k] = c
  BY <1>1, NotVisited
<1>2. ASSUME VisitsOn(r, c) = 1, NEW k \in 1 .. Len(r), NEW l \in 1 .. Len(r),
             r[k] = c, r[l] = c, k < l
      PROVE  FALSE
  <2> DEFINE q == RemoveAt(r, k)
  <2>1. q \in Seq(Nodes) /\ Len(q) = Len(r) - 1 /\ q[l - 1] = r[(l - 1) + 1] /\ VisitsOn(q, c) = 0
    BY <1>2, CountRemoved
  <2>2. l - 1 \in 1 .. Len(q) /\ q[l - 1] = c
    BY <1>2, <2>1
  <2> HIDE DEF q
  <2>3. VisitsOn(RemoveAt(q, l - 1), c) = 0 - 1 /\ VisitsOn(RemoveAt(q, l - 1), c) \in Nat
    BY <2>1, <2>2, CountRemoved
  <2> QED
    BY <2>3
<1>3. ASSUME NEW k \in 1 .. Len(r), r[k] = c,
             \A h, l \in 1 .. Len(r) : r[h] = c /\ r[l] = c => h = l
      PROVE  VisitsOn(r, c) = 1
  <2> DEFINE q == RemoveAt(r, k)
  <2>1. /\ q \in Seq(Nodes) /\ Len(q) = Len(r) - 1
        /\ VisitsOn(q, c) = VisitsOn(r, c) - 1
        /\ \A h \in 1 .. Len(r) - 1 : q[h] = IF h < k THEN r[h] ELSE r[h + 1]
    BY <1>3, CountRemoved
  <2>2. \A h \in 1 .. Len(q) : q[h] # c
    BY <1>3, <2>1
  <2> HIDE DEF q
  <2>3. VisitsOn(q, c) = 0
    BY <2>1, <2>2, NotVisited
  <2>4. VisitsOn(r, c) \in Nat
    BY RouteVisits
  <2> QED
    BY <2>1, <2>3, <2>4
<1>4. ASSUME VisitsOn(r, c) = 1, NEW k \in 1 .. Len(r), NEW l \in 1 .. Len(r),
             r[k] = c, r[l] = c
      PROVE  k = l
  <2>1. ~(k < l) /\ ~(l < k)
    BY <1>2, <1>4
  <2> QED
    BY <2>1
<1> QED
  BY <1>1, <1>3, <1>4

\* A list of customers is a giant tour if it visits every one of them once.
LEMMA GiantTourVisits ==
  ASSUME NEW t \in Seq(Customers)
  PROVE  t \in GiantTours <=> \A c \in Customers : VisitsOn(t, c) = 1
<1>1. t \in Seq(Nodes) /\ Len(t) \in Nat /\ t \in [1 .. Len(t) -> Customers]
  BY CustomersFinite
<1>2. ASSUME t \in GiantTours, NEW c \in Customers
      PROVE  VisitsOn(t, c) = 1
  <2>1. Lists(t, NumCustomers, Customers)
    BY <1>2, GiantTourLists
  <2>2. Len(t) = NumCustomers
    <3>1. t \in [1 .. NumCustomers -> Customers] /\ NumCustomers \in Nat
      BY <2>1, CustomersFinite DEF Lists
    <3> QED
      BY ONLY <3>1
  <2>3. /\ \E k \in 1 .. Len(t) : t[k] = c
        /\ \A k, l \in 1 .. Len(t) : t[k] = c /\ t[l] = c => k = l
    BY <2>1, <2>2 DEF Lists
  <2> QED
    BY <1>1, <2>3, VisitedOnce, CustomersFinite
<1>3. ASSUME \A c \in Customers : VisitsOn(t, c) = 1
      PROVE  t \in GiantTours
  <2>1. ASSUME NEW c \in Customers
        PROVE  /\ \E k \in 1 .. Len(t) : t[k] = c
               /\ \A k, l \in 1 .. Len(t) : t[k] = c /\ t[l] = c => k = l
    BY <1>1, <1>3, VisitedOnce, CustomersFinite
  <2>2. \A k, l \in 1 .. Len(t) : t[k] = t[l] => k = l
    BY <1>1, <2>1
  <2>3. t \in Injection(1 .. Len(t), Customers) /\ t \in Surjection(1 .. Len(t), Customers)
    BY <1>1, <2>1, <2>2 DEF Injection, IsInjective, Surjection
  <2>4. IsFiniteSet(1 .. Len(t)) /\ Cardinality(1 .. Len(t)) = Len(t)
    BY <1>1, FS_Interval
  <2>5. NumCustomers = Len(t)
    BY <2>3, <2>4, FS_Surjection DEF NumCustomers
  <2>6. Lists(t, NumCustomers, Customers)
    BY <1>1, <2>1, <2>2, <2>5 DEF Lists
  <2> QED
    BY <2>6, GiantTourLists
<1> QED
  BY <1>2, <1>3

\* The prefixes of a list.
HasPrefixes(S, s) ==
  /\ SubSeq(s, 1, 0) = <<>> /\ SubSeq(s, 1, Len(s)) = s
  /\ \A k \in 0 .. Len(s) : SubSeq(s, 1, k) \in Seq(S)
  /\ \A k \in 0 .. Len(s) - 1 :
       SubSeq(s, 1, k + 1) = Append(SubSeq(s, 1, k), s[k + 1]) /\ s[k + 1] \in S

\* They grow by its elements.
LEMMA PrefixesGrow ==
  ASSUME NEW S, NEW s \in Seq(S)
  PROVE  HasPrefixes(S, s)
<1>1. Len(s) \in Nat
  OBVIOUS
<1>2. SubSeq(s, 1, Len(s)) = s
  OBVIOUS
<1>3. \A k \in 0 .. Len(s) : SubSeq(s, 1, k) \in Seq(S)
  OBVIOUS
<1>4. ASSUME NEW k \in 0 .. Len(s) - 1
      PROVE  /\ SubSeq(s, 1, k + 1) = Append(SubSeq(s, 1, k), s[k + 1])
             /\ s[k + 1] \in S
  <2> DEFINE a == SubSeq(s, 1, k + 1)
             b == SubSeq(s, 1, k)
             c == Append(b, s[k + 1])
  <2>1. a \in Seq(S) /\ Len(a) = k + 1 /\ \A i \in 1 .. k + 1 : a[i] = s[i]
    BY <1>1
  <2>2. b \in Seq(S) /\ Len(b) = k /\ \A i \in 1 .. k : b[i] = s[i]
    BY <1>1
  <2>3. s[k + 1] \in S
    BY <1>1
  <2> HIDE DEF a, b
  <2>4. c \in Seq(S) /\ Len(c) = k + 1 /\ \A i \in 1 .. k + 1 : c[i] = s[i]
    BY <1>1, <2>2, <2>3
  <2> HIDE DEF c
  <2>5. a = c
    BY <1>1, <2>1, <2>4
  <2> QED
    BY <2>3, <2>5 DEF a, b, c
<1>5. SubSeq(s, 1, 0) = <<>>
  OBVIOUS
<1> QED
  BY <1>2, <1>3, <1>4, <1>5 DEF HasPrefixes

\* Visits add up.
LEMMA VisitsConcat ==
  ASSUME NEW a \in Seq(Nodes), NEW b \in Seq(Nodes), NEW c
  PROVE  VisitsOn(a \o b, c) = VisitsOn(a, c) + VisitsOn(b, c)
<1>1. Is(c) \in [Nodes -> Nat] /\ a \o b \in Seq(Nodes)
  BY Measures
<1>2. SumOf(Weights(Is(c), a \o b)) = SumOf(Weights(Is(c), a)) + SumOf(Weights(Is(c), b))
  BY ONLY <1>1, WeightConcat, a \in Seq(Nodes), b \in Seq(Nodes)
<1> QED
  BY <1>1, <1>2, RouteVisits

\* A route of one node visits it.
LEMMA VisitsOne ==
  ASSUME NEW x \in Nodes, NEW c
  PROVE  VisitsOn(<<x>>, c) = IF x = c THEN 1 ELSE 0
<1>1. Is(c) \in [Nodes -> Nat] /\ <<x>> \in Seq(Nodes)
  BY Measures
<1>2. SumOf(Weights(Is(c), <<x>>)) = Is(c)[x]
  BY ONLY <1>1, WeightOne, x \in Nodes
<1> QED
  BY <1>1, <1>2, RouteVisits DEF Is

\* To leave out the depots changes nothing about the customers.
LEMMA WithoutDepots ==
  ASSUME NEW r \in Seq(Nodes), NEW c \in Customers
  PROVE  VisitsOn(Without(Depot, r), c) = VisitsOn(r, c)
<1> DEFINE Same(q) == VisitsOn(Without(Depot, q), c) = VisitsOn(q, c)
           P == {k \in 0 .. Len(r) : Same(SubSeq(r, 1, k))}
<1>1. Len(r) \in Nat /\ Depot \in Nodes /\ c \in Nodes /\ c # Depot
  BY CustomersFinite
<1>2. /\ SubSeq(r, 1, 0) = <<>> /\ SubSeq(r, 1, Len(r)) = r
      /\ \A k \in 0 .. Len(r) : SubSeq(r, 1, k) \in Seq(Nodes)
      /\ \A k \in 0 .. Len(r) - 1 : /\ SubSeq(r, 1, k + 1) = Append(SubSeq(r, 1, k), r[k + 1])
                                    /\ r[k + 1] \in Nodes
  <2>1. HasPrefixes(Nodes, r)
    BY PrefixesGrow
  <2> QED
    BY <2>1 DEF HasPrefixes
<1>3. 0 \in P
  <2>1. Without(Depot, <<>>) = <<>>
    <3>1. <<>> \in Seq(Nodes)
      OBVIOUS
    <3> QED
      BY ONLY <3>1, WithoutFacts
  <2>2. 0 \in 0 .. Len(r) /\ Same(<<>>)
    BY <1>1, <2>1
  <2>3. SubSeq(r, 1, 0) = <<>>
    BY <1>2
  <2> HIDE DEF Same
  <2> QED
    BY <2>2, <2>3
<1>4. ASSUME NEW k \in 0 .. Len(r) - 1, k \in P
      PROVE  k + 1 \in P
  <2> DEFINE a == SubSeq(r, 1, k)
             x == r[k + 1]
  <2>1. k \in 0 .. Len(r) /\ k + 1 \in 0 .. Len(r)
    BY <1>1
  <2>2. a \in Seq(Nodes) /\ x \in Nodes /\ <<x>> \in Seq(Nodes) /\ <<Depot>> \in Seq(Nodes)
    BY <1>1, <1>2, <2>1
  <2>3. SubSeq(r, 1, k + 1) = a \o <<x>>
    BY <1>2, <2>2
  <2>4. VisitsOn(Without(Depot, a), c) = VisitsOn(a, c)
    BY <1>4
  <2> DEFINE e == <<x>>
  <2>5. VisitsOn(Without(Depot, e), c) = VisitsOn(e, c)
    <3>1. CASE x = Depot
      <4>1. Without(Depot, <<x>>) = <<>>
        BY <2>2, <3>1, WithoutOne
      <4>2. VisitsOn(<<>>, c) = 0
        <5> DEFINE e0 == <<>>
        <5>1. e0 \in Seq(Nodes) /\ \A h \in 1 .. Len(e0) : e0[h] # c
          OBVIOUS
        <5> HIDE DEF e0
        <5>2. VisitsOn(e0, c) = 0
          BY <1>1, <5>1, NotVisited
        <5> QED
          BY <5>2 DEF e0
      <4>3. VisitsOn(<<x>>, c) = 0
        <5>1. x # c
          BY <1>1, <3>1
        <5> QED
          BY <2>2, <5>1, VisitsOne
      <4> QED
        BY <4>1, <4>2, <4>3
    <3>2. CASE x # Depot
      BY <2>2, <3>2, WithoutOne
    <3> QED
      BY <3>1, <3>2
  <2>6. a \in Seq(Nodes) /\ e \in Seq(Nodes)
    BY <2>2
  <2>7. SubSeq(r, 1, k + 1) = a \o e
    BY <2>3
  <2> HIDE DEF a, x, e
  <2>8. /\ Without(Depot, a) \in Seq(Nodes) /\ Without(Depot, e) \in Seq(Nodes)
        /\ Without(Depot, a \o e) = Without(Depot, a) \o Without(Depot, e)
    <3>1. Without(Depot, a) \in Seq(Nodes \ {Depot}) /\ Without(Depot, e) \in Seq(Nodes \ {Depot})
      BY ONLY <2>6, WithoutFacts
    <3>2. Without(Depot, a \o e) = Without(Depot, a) \o Without(Depot, e)
      BY ONLY <2>6, WithoutConcat
    <3> QED
      BY <3>1, <3>2
  <2>9. /\ VisitsOn(a \o e, c) = VisitsOn(a, c) + VisitsOn(e, c)
        /\ VisitsOn(Without(Depot, a) \o Without(Depot, e), c)
             = VisitsOn(Without(Depot, a), c) + VisitsOn(Without(Depot, e), c)
    BY ONLY <2>6, <2>8, VisitsConcat
  <2>10. VisitsOn(Without(Depot, a \o e), c) = VisitsOn(a \o e, c)
    BY <2>4, <2>5, <2>8, <2>9
  <2> QED
    BY <2>1, <2>7, <2>10
<1> HIDE DEF P
<1>5. 0 .. Len(r) \subseteq P
  BY ONLY <1>1, <1>3, <1>4, IntervalInduction
<1>6. Len(r) \in P
  BY <1>1, <1>5
<1> QED
  BY <1>2, <1>6 DEF P

\* The visits of a solution are those of its routes one after the other.
LEMMA FlattenVisits ==
  ASSUME NEW s \in Seq(Seq(Nodes)), NEW c
  PROVE  Visits(s, c) = VisitsOn(FlattenSeq(s), c)
<1> DEFINE Same(q) == Visits(q, c) = VisitsOn(FlattenSeq(q), c)
           P == {k \in 0 .. Len(s) : Same(SubSeq(s, 1, k))}
<1>1. Len(s) \in Nat
  OBVIOUS
<1>2. /\ SubSeq(s, 1, 0) = <<>> /\ SubSeq(s, 1, Len(s)) = s
      /\ \A k \in 0 .. Len(s) : SubSeq(s, 1, k) \in Seq(Seq(Nodes))
      /\ \A k \in 0 .. Len(s) - 1 : /\ SubSeq(s, 1, k + 1) = Append(SubSeq(s, 1, k), s[k + 1])
                                    /\ s[k + 1] \in Seq(Nodes)
  <2>1. HasPrefixes(Seq(Nodes), s)
    BY PrefixesGrow
  <2> QED
    BY <2>1 DEF HasPrefixes
<1>3. 0 \in P
  <2>1. FlattenSeq(<<>>) = <<>>
    BY FlattenSeqIsLast
  <2>2. Visits(<<>>, c) = VisitsOn(<<>>, c)
    BY DEF Visits, VisitsOn
  <2>3. 0 \in 0 .. Len(s) /\ Same(<<>>)
    BY <1>1, <2>1, <2>2
  <2>4. SubSeq(s, 1, 0) = <<>>
    BY <1>2
  <2> HIDE DEF Same
  <2> QED
    BY <2>3, <2>4
<1>4. ASSUME NEW k \in 0 .. Len(s) - 1, k \in P
      PROVE  k + 1 \in P
  <2> DEFINE a == SubSeq(s, 1, k)
             x == s[k + 1]
  <2>1. k \in 0 .. Len(s) /\ k + 1 \in 0 .. Len(s)
    BY <1>1
  <2>2. a \in Seq(Seq(Nodes)) /\ x \in Seq(Nodes) /\ <<x>> \in Seq(Seq(Nodes))
    BY <1>2, <2>1
  <2>3. SubSeq(s, 1, k + 1) = Append(a, x)
    BY <1>2, <2>2
  <2>4. Visits(a, c) = VisitsOn(FlattenSeq(a), c)
    BY <1>4
  <2> HIDE DEF a, x
  <2>5. Append(a, x) = a \o <<x>> /\ Append(a, x) \in Seq(Seq(Nodes))
    BY <2>2
  <2>6. FlattenSeq(Append(a, x)) = FlattenSeq(a) \o x /\ FlattenSeq(a) \in Seq(Nodes)
    BY <2>2, FlattenAppend, FlattenType
  <2>7. VisitsOn(FlattenSeq(Append(a, x)), c) = VisitsOn(FlattenSeq(a), c) + VisitsOn(x, c)
    BY <2>2, <2>6, VisitsConcat
  <2>8. Visits(Append(a, x), c) = Visits(a, c) + VisitsOn(x, c)
    <3>1. VisitsTo(c) \in [Seq(Nodes) -> Nat]
      BY RouteMeasures
    <3>2. SumOf(Weights(VisitsTo(c), a \o <<x>>))
            = SumOf(Weights(VisitsTo(c), a)) + SumOf(Weights(VisitsTo(c), <<x>>))
      BY ONLY <2>2, <3>1, WeightConcat
    <3>3. SumOf(Weights(VisitsTo(c), <<x>>)) = VisitsTo(c)[x]
      BY ONLY <2>2, <3>1, WeightOne
    <3>4. VisitsTo(c)[x] = VisitsOn(x, c)
      BY <2>2 DEF VisitsTo
    <3>5. /\ Visits(Append(a, x), c) = SumOf(Weights(VisitsTo(c), a \o <<x>>))
          /\ Visits(a, c) = SumOf(Weights(VisitsTo(c), a))
      BY <2>2, <2>5, SolutionMeasures
    <3> QED
      BY <3>2, <3>3, <3>4, <3>5
  <2> QED
    BY <2>1, <2>3, <2>4, <2>7, <2>8
<1> HIDE DEF P
<1>5. 0 .. Len(s) \subseteq P
  BY ONLY <1>1, <1>3, <1>4, IntervalInduction
<1>6. Len(s) \in P
  BY <1>1, <1>5
<1> QED
  BY <1>2, <1>6 DEF P

\* The giant tour of a solution lists the customers.
LEMMA GiantTourOf ==
  ASSUME NEW s, IsSolution(s)
  PROVE  GiantTour(s) \in GiantTours
<1>1. s \in Seq(Seq(Nodes)) /\ \A c \in Customers : Visits(s, c) = 1
  BY DEF IsSolution
<1>2. FlattenSeq(s) \in Seq(Nodes)
  BY <1>1, FlattenType
<1>3. GiantTour(s) \in Seq(Customers)
  BY <1>2, WithoutFacts DEF GiantTour, Customers
<1>4. \A c \in Customers : VisitsOn(GiantTour(s), c) = 1
  BY <1>1, <1>2, FlattenVisits, WithoutDepots DEF GiantTour
<1> QED
  BY <1>3, <1>4, GiantTourVisits

-----------------------------------------------------------------------------
(***************************************************************************)
(* The cuts of a giant tour                                                *)
(***************************************************************************)

\* The parts of a list of length m that ends with position q.
IsPart(S, t, p, q) ==
  /\ SubSeq(t, p + 1, q) \in Seq(S) /\ Len(SubSeq(t, p + 1, q)) = q - p
  /\ SubSeq(t, 1, p) \in Seq(S) /\ SubSeq(t, 1, q) \in Seq(S)
  /\ SubSeq(t, 1, q) = SubSeq(t, 1, p) \o SubSeq(t, p + 1, q)

\* A slice between two positions of a list.
LEMMA PartOfList ==
  ASSUME NEW S, NEW t \in Seq(S), NEW q \in 0 .. Len(t), NEW p \in 0 .. q
  PROVE  IsPart(S, t, p, q)
<1> DEFINE a == SubSeq(t, 1, p)
           b == SubSeq(t, p + 1, q)
           c == SubSeq(t, 1, q)
           d == a \o b
<1>1. Len(t) \in Nat /\ p \in Nat /\ q \in Nat /\ p <= q /\ q <= Len(t)
  OBVIOUS
<1>2. a \in Seq(S) /\ Len(a) = p /\ \A i \in 1 .. p : a[i] = t[i]
  BY <1>1
<1>3. b \in Seq(S) /\ Len(b) = q - p /\ \A i \in 1 .. q - p : b[i] = t[p + i]
  <2>1. \A i \in 1 .. q - p : (p + 1) + i - 1 = p + i
    BY <1>1
  <2>2. b \in Seq(S) /\ Len(b) = q - p /\ \A i \in 1 .. q - p : b[i] = t[(p + 1) + i - 1]
    BY <1>1
  <2> QED
    BY <2>1, <2>2
<1>4. c \in Seq(S) /\ Len(c) = q /\ \A i \in 1 .. q : c[i] = t[i]
  BY <1>1
<1> HIDE DEF a, b, c
<1>5. d \in Seq(S) /\ Len(d) = q
      /\ \A i \in 1 .. q : d[i] = IF i <= p THEN a[i] ELSE b[i - p]
  <2>1. /\ d \in Seq(S) /\ Len(d) = Len(a) + Len(b)
        /\ \A i \in 1 .. Len(a) + Len(b) :
             d[i] = IF i <= Len(a) THEN a[i] ELSE b[i - Len(a)]
    <3>1. a \in Seq(S) /\ b \in Seq(S)
      BY <1>2, <1>3
    <3> QED
      BY ONLY <3>1
  <2>2. Len(a) + Len(b) = q /\ Len(a) = p
    BY <1>1, <1>2, <1>3
  <2> HIDE DEF d
  <2> QED
    BY <2>1, <2>2
<1> HIDE DEF d
<1>6. \A i \in 1 .. q : d[i] = t[i]
  <2> SUFFICES ASSUME NEW i \in 1 .. q PROVE d[i] = t[i]
    OBVIOUS
  <2>1. CASE i <= p
    BY <1>1, <1>2, <1>5, <2>1
  <2>2. CASE ~(i <= p)
    <3>1. i - p \in 1 .. q - p /\ p + (i - p) = i
      BY <1>1, <2>2
    <3> QED
      BY <1>3, <1>5, <2>2, <3>1
  <2> QED
    BY <2>1, <2>2
<1>7. c = d
  BY <1>4, <1>5, <1>6, SeqEqual
<1> QED
  BY <1>2, <1>3, <1>4, <1>7 DEF IsPart, a, b, c, d

\* A trip of the customers q.
IsTripOf(r, q) ==
  IsTrip(r) /\ Len(r) = Len(q) + 2 /\ Without(Depot, r) = q

\* A list of customers between two depots is a trip of them.
LEMMA FramedTrip ==
  ASSUME NEW q \in Seq(Customers)
  PROVE  IsTripOf((<<Depot>> \o q) \o <<Depot>>, q)
<1> DEFINE e == <<Depot>>
           c == e \o q
           r == c \o e
<1>1. /\ Depot \in Nodes /\ Depot \notin Customers /\ Customers \subseteq Nodes
      /\ q \in Seq(Nodes) /\ e \in Seq(Nodes) /\ Len(q) \in Nat
      /\ \A k \in 1 .. Len(q) : q[k] \in Customers
  BY CustomersFinite
<1>2. IsFramed(r, Nodes, Depot, q)
  BY ONLY <1>1, FramedList
<1>3. Without(Depot, e) = <<>>
  BY ONLY <1>1, WithoutOne
<1>4. Without(Depot, q) = q
  BY ONLY <1>1, q \in Seq(Customers), WithoutNone
<1>5. c \in Seq(Nodes)
  BY ONLY <1>1
<1> HIDE DEF e
<1>6. Without(Depot, c) = Without(Depot, e) \o Without(Depot, q)
  BY ONLY <1>1, WithoutConcat DEF c
<1> HIDE DEF c
<1>7. Without(Depot, r) = Without(Depot, c) \o Without(Depot, e)
  BY ONLY <1>1, <1>5, WithoutConcat DEF r
<1> HIDE DEF r
<1>8. Without(Depot, r) = q
  <2>1. (<<>> \o q) \o <<>> = q
    BY <1>1
  <2> QED
    BY <1>3, <1>4, <1>6, <1>7, <2>1
<1>9. IsTrip(r) /\ Len(r) = Len(q) + 2
  <2> HIDE DEF r
  <2>1. /\ r \in Seq(Nodes) /\ Len(r) = Len(q) + 2
        /\ r[1] = Depot /\ r[Len(q) + 2] = Depot
        /\ \A k \in 1 .. Len(q) : r[k + 1] = q[k]
    BY <1>2 DEF IsFramed
  <2>2. ASSUME NEW k \in 1 .. Len(r), k # 1, k # Len(r) PROVE r[k] # Depot
    <3>1. k - 1 \in 1 .. Len(q) /\ (k - 1) + 1 = k
      BY <1>1, <2>1, <2>2
    <3> QED
      BY <1>1, <2>1, <3>1
  <2> QED
    BY <1>1, <2>1, <2>2 DEF IsTrip
<1> QED
  BY <1>8, <1>9 DEF IsTripOf, e, c, r

\* The positions to cut behind increase from 0 to m.
AreEnds(ends, m) ==
  /\ ends \in Seq(0 .. m) /\ Len(ends) \in Nat \ {0}
  /\ ends[1] = 0 /\ ends[Len(ends)] = m
  /\ \A k \in 1 .. Len(ends) - 1 : ends[k] < ends[k + 1]

\* So they do in the cuts of the model.
LEMMA CutsIncrease ==
  ASSUME NEW m \in Nat, NEW ends \in Cuts(m)
  PROVE  AreEnds(ends, m)
<1>1. PICK l \in 0 .. m + 1 : ends \in [1 .. l -> 0 .. m]
  BY DEF Cuts, SeqOf
<1>2. ends \in Seq(0 .. m) /\ Len(ends) \in Nat
  BY <1>1
<1>3. ends # <<>>
  BY DEF Cuts
<1>4. Len(ends) # 0
  BY <1>2, <1>3
<1> QED
  BY <1>2, <1>4 DEF Cuts, AreEnds

\* What a giant tour is cut into.
IsCutInto(s, t) ==
  /\ s \in Seq(Seq(Nodes)) /\ GiantTour(s) = t
  /\ \A k \in 1 .. Len(s) : IsTrip(s[k]) /\ Len(s[k]) >= 3

\* To cut up a tour gives trips, none of them empty, with the nodes of the tour
\* in its order.
LEMMA CutUpTrips ==
  ASSUME NEW t \in Seq(Customers), NEW ends \in Cuts(Len(t))
  PROVE  IsCutInto(CutUp(t, ends), t)
<1> DEFINE m == Len(t)
           n == Len(ends) - 1
           part(k) == SubSeq(t, ends[k] + 1, ends[k + 1])
           s == CutUp(t, ends)
<1>1. m \in Nat /\ AreEnds(ends, m)
  BY CutsIncrease
<1>2. /\ n \in Nat /\ n + 1 = Len(ends)
      /\ \A k \in 1 .. n + 1 : ends[k] \in 0 .. m
      /\ ends[1] = 0 /\ ends[n + 1] = m
      /\ \A k \in 1 .. n : ends[k] < ends[k + 1]
  BY <1>1 DEF AreEnds
<1>3. ASSUME NEW k \in 1 .. n
      PROVE  IsPart(Customers, t, ends[k], ends[k + 1])
  <2>1. ends[k + 1] \in 0 .. Len(t) /\ ends[k] \in 0 .. ends[k + 1]
    BY <1>2
  <2> QED
    BY ONLY <2>1, t \in Seq(Customers), PartOfList
<1>4. DOMAIN s = 1 .. n /\ \A k \in 1 .. n : s[k] = (<<Depot>> \o part(k)) \o <<Depot>>
  BY DEF CutUp
<1>5. ASSUME NEW k \in 1 .. n
      PROVE  /\ IsTripOf(s[k], part(k)) /\ part(k) \in Seq(Customers)
             /\ Len(part(k)) >= 1 /\ Len(part(k)) \in Nat
  <2>1. part(k) \in Seq(Customers) /\ Len(part(k)) = ends[k + 1] - ends[k]
    BY <1>3 DEF IsPart
  <2>2. Len(part(k)) >= 1
    BY <1>2, <2>1
  <2> DEFINE q == part(k)
  <2>3. q \in Seq(Customers) /\ s[k] = (<<Depot>> \o q) \o <<Depot>>
    BY <1>4, <2>1
  <2> HIDE DEF q
  <2>4. IsTripOf(s[k], q)
    BY <2>3, FramedTrip
  <2> QED
    BY <2>1, <2>2, <2>4 DEF q
<1>6. s \in Seq(Seq(Nodes)) /\ Len(s) = n
  <2>1. \A k \in 1 .. n : s[k] \in Seq(Nodes)
    BY <1>5 DEF IsTripOf, IsTrip
  <2>2. s \in [1 .. n -> Seq(Nodes)]
    <3>1. s = [k \in 1 .. n |-> s[k]]
      BY <1>4 DEF CutUp
    <3> QED
      BY ONLY <2>1, <3>1
  <2> HIDE DEF s, n
  <2> QED
    BY <1>2, <2>2
<1>7. \A k \in 1 .. Len(s) : IsTrip(s[k]) /\ Len(s[k]) >= 3
  BY <1>5, <1>6 DEF IsTripOf
<1>8. GiantTour(s) = t
  <2> DEFINE Same(k) == GiantTour(SubSeq(s, 1, k)) = SubSeq(t, 1, ends[k + 1])
             P == {k \in 0 .. n : Same(k)}
  <2>1. HasPrefixes(Seq(Nodes), s)
    BY <1>6, PrefixesGrow
  <2>2. HasPrefixes(Customers, t)
    BY PrefixesGrow
  <2>3. 0 \in P
    <3>1. FlattenSeq(<<>>) = <<>>
      BY FlattenSeqIsLast
    <3>2. Without(Depot, <<>>) = <<>>
      <4>1. <<>> \in Seq(Nodes)
        OBVIOUS
      <4> QED
        BY ONLY <4>1, WithoutFacts
    <3>3. GiantTour(<<>>) = <<>>
      BY <3>1, <3>2 DEF GiantTour
    <3>4. ends[0 + 1] = 0
      BY <1>2
    <3>5. SubSeq(s, 1, 0) = <<>> /\ SubSeq(t, 1, 0) = <<>>
      BY <2>1, <2>2 DEF HasPrefixes
    <3>6. Same(0)
      BY <3>3, <3>4, <3>5
    <3> QED
      BY <1>2, <3>6
  <2>4. ASSUME NEW k \in 0 .. n - 1, k \in P
        PROVE  k + 1 \in P
    <3> DEFINE a == SubSeq(s, 1, k)
               r == s[k + 1]
    <3>1. k + 1 \in 1 .. n /\ k + 1 \in 0 .. n /\ k \in 0 .. Len(s) /\ k \in 0 .. Len(s) - 1
      BY <1>2, <1>6
    <3>2. /\ a \in Seq(Seq(Nodes)) /\ r \in Seq(Nodes)
          /\ SubSeq(s, 1, k + 1) = Append(a, r)
      BY <2>1, <3>1 DEF HasPrefixes
    <3>3. GiantTour(a) = SubSeq(t, 1, ends[k + 1])
      BY <2>4
    <3>4. Without(Depot, r) = part(k + 1)
      BY <1>5, <3>1 DEF IsTripOf
    <3>5. SubSeq(t, 1, ends[(k + 1) + 1])
            = SubSeq(t, 1, ends[k + 1]) \o part(k + 1)
      BY <1>3, <3>1 DEF IsPart
    <3> HIDE DEF a, r
    <3>6. FlattenSeq(Append(a, r)) = FlattenSeq(a) \o r /\ FlattenSeq(a) \in Seq(Nodes)
      BY <3>2, FlattenAppend, FlattenType
    <3>7. Without(Depot, FlattenSeq(a) \o r)
            = Without(Depot, FlattenSeq(a)) \o Without(Depot, r)
      BY ONLY <3>2, <3>6, WithoutConcat
    <3>8. GiantTour(Append(a, r)) = GiantTour(a) \o part(k + 1)
      BY <3>4, <3>6, <3>7 DEF GiantTour
    <3>9. Same(k + 1)
      BY <3>2, <3>3, <3>5, <3>8
    <3> QED
      BY <3>1, <3>9
  <2> HIDE DEF P
  <2>5. 0 .. n \subseteq P
    BY ONLY <1>2, <2>3, <2>4, IntervalInduction
  <2>6. Same(n)
    BY <1>2, <2>5 DEF P
  <2>7. SubSeq(s, 1, n) = s /\ SubSeq(t, 1, m) = t
    BY <1>6, <2>1, <2>2 DEF HasPrefixes
  <2> QED
    BY <1>2, <2>6, <2>7
<1> QED
  BY <1>6, <1>7, <1>8 DEF IsCutInto

\* What the split answers is a feasible solution with the customers in the order
\* of the giant tour.
LEMMA SplitsAreSolutions ==
  ASSUME NEW t \in GiantTours, NEW s \in Splits[t]
  PROVE  IsSolution(s) /\ GiantTour(s) = t
<1>1. t \in Seq(Customers)
  <2>1. t \in [1 .. NumCustomers -> Customers] /\ NumCustomers \in Nat
    BY GiantTourLists, CustomersFinite DEF Lists
  <2> QED
    BY <2>1
<1>2. PICK ends \in Cuts(Len(t)) :
        s = CutUp(t, ends) /\ \A k \in DOMAIN s : RouteDemand(s[k]) <= Capacity
  BY DEF Splits
<1>3. IsCutInto(s, t)
  BY <1>1, <1>2, CutUpTrips
<1>4. ASSUME NEW c \in Customers PROVE Visits(s, c) = 1
  <2>1. s \in Seq(Seq(Nodes)) /\ FlattenSeq(s) \in Seq(Nodes) /\ GiantTour(s) = t
    BY <1>3, FlattenType DEF IsCutInto
  <2>2. Visits(s, c) = VisitsOn(FlattenSeq(s), c)
    BY <2>1, FlattenVisits
  <2>3. VisitsOn(Without(Depot, FlattenSeq(s)), c) = VisitsOn(FlattenSeq(s), c)
    BY <2>1, WithoutDepots
  <2>4. VisitsOn(t, c) = 1
    BY <1>1, GiantTourVisits
  <2> QED
    BY <2>1, <2>2, <2>3, <2>4 DEF GiantTour
<1>5. IsFeasible(s)
  BY <1>2, <1>3, <1>4 DEF IsFeasible, IsCutInto
<1>6. NoneEmpty(s)
  BY <1>3 DEF NoneEmpty, IsCutInto
<1> QED
  BY <1>3, <1>5, <1>6, SolutionShape DEF IsCutInto

-----------------------------------------------------------------------------
(***************************************************************************)
(* The giant tours of the heuristics and of the crossover                  *)
(***************************************************************************)

\* The template of the sweep is a giant tour, and so are its rotations.
LEMMA TemplatesAreTours ==
  /\ \A t \in SweepTemplates : t \in GiantTours
  /\ \A t \in GiantTours : \A num \in 0 .. NumCustomers : Rotated(t, num) \in GiantTours
<1>1. NumCustomers \in Nat
  BY CustomersFinite
<1>2. ASSUME NEW t \in GiantTours, NEW num \in 0 .. NumCustomers
      PROVE  Rotated(t, num) \in GiantTours
  <2>1. Lists(t, NumCustomers, Customers)
    BY GiantTourLists
  <2>2. Lists(Rotated(t, num), NumCustomers, Customers)
    BY ONLY <1>1, <2>1, num \in 0 .. NumCustomers, RotatedList
  <2> QED
    BY <2>2, GiantTourLists
<1>3. ASSUME NEW t \in SweepTemplates PROVE t \in GiantTours
  <2>1. PICK s \in SortedBy(SetToSeq(Customers), Angle), num \in 0 .. NumCustomers :
          t = Rotated(s, num)
    BY DEF SweepTemplates, NumCustomers
  <2>2. Lists(SetToSeq(Customers), NumCustomers, Customers)
    BY CustomersFinite, SetListed DEF NumCustomers
  <2>3. Lists(s, NumCustomers, Customers)
    BY ONLY <1>1, <2>1, <2>2, SortedList
  <2>4. s \in GiantTours
    BY <2>3, GiantTourLists
  <2> QED
    BY <1>2, <2>1, <2>4
<1> QED
  BY <1>2, <1>3

\* DedupedOf(tours)[cnt] are those of the first cnt tours that are kept.
DedupedOf(tours) ==
  LET known(list, t) ==
        \E k \in DOMAIN list : GiantTourHash(list[k]) = GiantTourHash(t)
      kept[cnt \in 0 .. Len(tours)] ==
        IF cnt = 0 THEN <<>>
        ELSE IF known(kept[cnt - 1], tours[cnt]) THEN kept[cnt - 1]
        ELSE Append(kept[cnt - 1], tours[cnt])
  IN  kept

\* A tour of the same hash is on the list.
IsKnown(list, t) ==
  \E k \in DOMAIN list : GiantTourHash(list[k]) = GiantTourHash(t)

\* What is kept are some of the tours.
LEMMA DedupedType ==
  ASSUME NEW T, NEW tours \in Seq(T)
  PROVE  Deduped(tours) \in Seq(T)
<1> DEFINE n == Len(tours)
           S == Seq(T)
           next(s, t) == IF IsKnown(s, t) THEN s ELSE Append(s, t)
           Def(g) == g = [k \in 0 .. n |->
                            IF k = 0 THEN <<>> ELSE next(g[k - 1], tours[k])]
           step == [k \in 1 .. n |-> [s \in S |-> next(s, tours[k])]]
<1>1. n \in Nat /\ \A k \in 1 .. n : tours[k] \in T
  OBVIOUS
<1>2. \A k \in 1 .. n : \A s \in S : next(s, tours[k]) \in S
  BY <1>1
<1>3. \E f \in [0 .. n -> S] : Iterates(f, n, <<>>, step)
  <2>1. step \in [1 .. n -> [S -> S]]
    <3> HIDE DEF S, next
    <3> QED
      BY <1>2
  <2>2. <<>> \in S
    OBVIOUS
  <2> HIDE DEF step, S, n
  <2> QED
    BY ONLY <1>1, <2>1, <2>2, Iteration
<1>4. PICK f \in [0 .. n -> S] : Def(f)
  <2>1. PICK f \in [0 .. n -> S] :
           f[0] = <<>> /\ \A k \in 1 .. n : f[k] = step[k][f[k - 1]]
    BY <1>3 DEF Iterates
  <2>2. ASSUME NEW k \in 1 .. n
        PROVE  f[k] = next(f[k - 1], tours[k])
    <3>1. k - 1 \in 0 .. n
      BY <1>1
    <3> HIDE DEF S, next
    <3>2. f[k - 1] \in S
      BY <2>1, <3>1
    <3> QED
      BY <2>1, <3>2
  <2>3. \A k \in 0 .. n : k = 0 \/ k \in 1 .. n
    BY <1>1
  <2>4. f[0] = <<>>
    BY <2>1
  <2> HIDE DEF S, n, step, next
  <2>5. Def(f)
    BY <2>2, <2>3, <2>4
  <2> QED
    BY <2>5
<1> DEFINE h == DedupedOf(tours)
<1>5. Def(h)
  BY <1>4 DEF DedupedOf, IsKnown
<1> HIDE DEF h
<1>6. h[n] \in S
  <2> HIDE DEF S, next, n
  <2>1. 0 \in 0 .. n /\ \A k \in 1 .. n : k \in 0 .. n /\ k # 0
    BY <1>1
  <2>2. h[0] = <<>> /\ \A k \in 1 .. n : h[k] = next(h[k - 1], tours[k])
    BY <1>5, <2>1
  <2>3. <<>> \in S
    BY DEF S
  <2>4. h[0] \in S
    BY <2>2, <2>3
  <2>5. \A k \in 1 .. n : h[k - 1] \in S => h[k] \in S
    BY <1>2, <2>2
  <2>6. \A k \in 0 .. n : h[k] \in S
    BY ONLY <1>1, <2>4, <2>5, LoopType
  <2> QED
    BY <1>1, <2>6
<1>7. Deduped(tours) = h[n]
  BY DEF Deduped, DedupedOf, h
<1> QED
  BY <1>6, <1>7

\* The sweep of a small model tries giant tours.
LEMMA SweepToursAreTours ==
  ASSUME NEW t \in GiantTours, NEW u \in ToSet(SweepTours(t))
  PROVE  u \in GiantTours
<1> DEFINE all == [cnt \in 1 .. Len(t) |-> Rotated(t, cnt - 1)]
<1>1. Len(t) = NumCustomers /\ NumCustomers \in Nat
  <2>1. t \in [1 .. NumCustomers -> Customers] /\ NumCustomers \in Nat
    BY GiantTourLists, CustomersFinite DEF Lists
  <2> QED
    BY <2>1
<1>2. \A cnt \in 1 .. Len(t) : Rotated(t, cnt - 1) \in GiantTours
  <2>1. \A cnt \in 1 .. Len(t) : cnt - 1 \in 0 .. NumCustomers
    BY <1>1
  <2> QED
    BY <2>1, TemplatesAreTours
<1>3. all \in Seq(GiantTours)
  <2>1. all \in [1 .. Len(t) -> GiantTours]
    BY <1>2
  <2> HIDE DEF all
  <2> QED
    BY <1>1, <2>1
<1> HIDE DEF all
<1>4. SweepTours(t) \in Seq(GiantTours)
  BY <1>3, DedupedType DEF SweepTours, all
<1> QED
  BY <1>4 DEF ToSet

\* A list is the window of all its positions.
LEMMA WholeWindow ==
  ASSUME NEW n, NEW W, NEW r \in [1 .. n -> W], n \in Nat
  PROVE  Window(r, 0, n) = r
<1>1. \A y \in 1 .. n : 0 + y = y
  OBVIOUS
<1>2. Window(r, 0, n) = [y \in 1 .. n |-> r[y]]
  BY <1>1 DEF Window
<1> QED
  BY <1>2

\* The children of two giant tours are giant tours.
LEMMA CrossedTours ==
  ASSUME NEW t1 \in GiantTours, NEW t2 \in GiantTours,
         NEW j \in 0 .. NumCustomers - 1, NEW i \in 0 .. j
  PROVE  /\ Ox(t1, t2, 0, NumCustomers - 1, i, j)[1] \in GiantTours
         /\ Ox(t1, t2, 0, NumCustomers - 1, i, j)[2] \in GiantTours
<1> DEFINE n == NumCustomers
           e == NumCustomers - 1
<1>1. n \in Nat /\ Lists(t1, n, Customers) /\ Lists(t2, n, Customers)
  BY CustomersFinite, GiantTourLists
<1>2. t1 \in [1 .. n -> Customers] /\ t2 \in [1 .. n -> Customers]
  BY <1>1 DEF Lists
<1>3. IsWindow(n, 0, n, i, j) /\ n = e - 0 + 1
  BY <1>1 DEF IsWindow
<1> HIDE DEF n, e
<1>4. Window(t1, 0, n) = t1 /\ Window(t2, 0, n) = t2
  BY ONLY <1>1, <1>2, WholeWindow
<1>5. PICK q1, q2 : /\ Ox(t1, t2, 0, e, i, j) = <<q1, q2>>
                    /\ IsChild(q1, t1, Customers, n, 0, n, Customers)
                    /\ IsChild(q2, t2, Customers, n, 0, n, Customers)
  <2>1. Lists(Window(t1, 0, n), n, Customers) /\ Lists(Window(t2, 0, n), n, Customers)
    BY <1>1, <1>4
  <2> QED
    BY ONLY <1>2, <1>3, <2>1, OxExact
<1>6. ASSUME NEW q, NEW own, IsChild(q, own, Customers, n, 0, n, Customers)
      PROVE  q \in GiantTours
  <2>1. q \in [1 .. n -> Customers] /\ Lists(Window(q, 0, n), n, Customers)
    BY <1>6 DEF IsChild
  <2>2. Window(q, 0, n) = q
    BY ONLY <1>1, <2>1, WholeWindow
  <2> QED
    BY <2>1, <2>2, GiantTourLists DEF n
<1>7. q1 \in GiantTours /\ q2 \in GiantTours
  BY <1>5, <1>6
<1> QED
  BY <1>5, <1>7 DEF e

-----------------------------------------------------------------------------
(***************************************************************************)
(* Genomes                                                                 *)
(***************************************************************************)

\* The parts of a genome are in step.
InStep(g) ==
  IsSolution(g.sol) /\ g.gtour = GiantTour(g.sol) /\ g.distance = Cost(g.sol)

\* The cost of a solution is a number.
LEMMA CostNat == \A s : IsSolution(s) => Cost(s) \in Nat
<1> SUFFICES ASSUME NEW s, IsSolution(s) PROVE Cost(s) \in Nat
  OBVIOUS
<1>1. s \in Seq(Seq(Nodes))
  BY DEF IsSolution
<1> QED
  BY <1>1, SolutionMeasures

\* They are in what cvrp_new_genome makes of a giant tour or of a solution.
LEMMA NewGenomesInStep ==
  /\ \A t \in GiantTours : \A g \in GenomesOfTour(t) : InStep(g)
  /\ \A g \in GenomesOfSolutions : InStep(g)
<1>1. ASSUME NEW t \in GiantTours, NEW g \in GenomesOfTour(t) PROVE InStep(g)
  <2>1. PICK s \in Splits[t] : g = [gtour |-> t, sol |-> s, distance |-> Cost(s)]
    BY DEF GenomesOfTour
  <2>2. IsSolution(s) /\ GiantTour(s) = t
    BY SplitsAreSolutions
  <2> QED
    BY <2>1, <2>2 DEF InStep
<1>2. ASSUME NEW g \in GenomesOfSolutions PROVE InStep(g)
  BY StartsAssumption DEF GenomesOfSolutions, GenomeOfSolution, InStep
<1> QED
  BY <1>1, <1>2

\* The giant tour of a genome in step lists the customers.
LEMMA GenomeTours == \A g : InStep(g) => g.gtour \in GiantTours
BY GiantTourOf DEF InStep

\* The giant tour and the distance of an educated genome are brought into step.
LEMMA EducatedInStep ==
  ASSUME NEW g, InStep(g), NEW s, NEW d, Results(g.sol, s, d)
  PROVE  InStep(Educated(g, s, d))
BY DEF InStep, Educated, Results

\* The fittest genome is the shortest one, unless some genome is free.
LEMMA FittestIsShortest ==
  ASSUME NEW population, population # {}, NEW arcs \in Nat \ {0},
         \A g \in population : g.distance \in Nat,
         NEW best \in Fittest(population, arcs, [g \in population |-> g.distance]),
         NEW bound, bound = Min({g.distance : g \in population})
  PROVE  best \in population /\ bound \in Nat /\ (bound > 0 => best.distance <= bound)
<1> DEFINE S == {g.distance : g \in population}
           length == [g \in population |-> g.distance]
           num(g) == IF length[g] > 0 THEN arcs ELSE 0
           den(g) == IF length[g] > 0 THEN length[g] ELSE 1
<1>1. S \subseteq Nat /\ S # {}
  OBVIOUS
<1>2. \E x \in S : \A y \in S : x <= y
  <2> HIDE DEF S
  <2> QED
    BY ONLY <1>1, LeastMember
<1>3. bound \in S /\ \A y \in S : bound <= y
  BY <1>2 DEF Min
<1>4. PICK g \in population : bound = g.distance
  BY <1>3
<1>5. best \in population /\ \A h \in population : num(best) * den(h) >= num(h) * den(best)
  BY DEF Fittest
<1>6. ASSUME bound > 0 PROVE best.distance <= bound
  <2>1. best.distance \in S /\ best.distance \in Nat /\ g.distance \in Nat
    BY <1>5, <1>4
  <2>2. best.distance > 0 /\ g.distance > 0
    <3>1. bound <= best.distance /\ bound = g.distance /\ bound > 0
      BY <1>3, <1>4, <1>6, <2>1
    <3> QED
      BY ONLY <2>1, <3>1
  <2>3. length[best] = best.distance /\ length[g] = g.distance
    BY <1>4, <1>5
  <2>4. num(best) = arcs /\ den(best) = best.distance /\ num(g) = arcs /\ den(g) = g.distance
    BY <2>2, <2>3
  <2>5. num(best) * den(g) >= num(g) * den(best)
    BY <1>5
  <2>6. arcs * g.distance >= arcs * best.distance
    BY <2>4, <2>5
  <2> DEFINE a == g.distance
             b == best.distance
  <2>7. a \in Nat /\ b \in Nat /\ arcs * a >= arcs * b
    BY <2>1, <2>6
  <2> HIDE DEF a, b
  <2>8. a >= b
    <3>1. ASSUME a < b PROVE FALSE
      <4>1. b - a \in Nat /\ b - a >= 1 /\ arcs >= 1 /\ arcs \in Nat
        BY <2>7, <3>1
      <4>2. arcs * (b - a) >= 1
        BY ONLY <4>1
      <4>3. arcs * b = arcs * a + arcs * (b - a)
        BY ONLY <2>7, <4>1
      <4>4. arcs * a \in Nat /\ arcs * b \in Nat /\ arcs * (b - a) \in Nat
        BY ONLY <2>7, <4>1
      <4> QED
        BY ONLY <2>7, <4>2, <4>3, <4>4
    <3> QED
      BY ONLY <2>7, <3>1
  <2> QED
    BY <1>4, <2>7, <2>8 DEF a, b
<1> QED
  BY <1>1, <1>3, <1>5, <1>6

-----------------------------------------------------------------------------
(***************************************************************************)
(* cvrp_solve                                                              *)
(***************************************************************************)

\* The inductive invariant: beside the genomes, it follows the solution at hand,
\* which the ledger of the post optimisation describes once that has begun.
SolverInv ==
  /\ GenomesInStep
  /\ least \in Nat
  /\ stage # "post" => pc = "idle"
  /\ stage = "evolve" => ~small
  /\ stage = "sweep" => IsSolution(sol) /\ min_dist = Cost(sol) /\ least = Cost(sol)
  /\ ResultKeepsBest

\* A population whose genomes are in step, while nothing else changes.
LEMMA PopulationKeeps ==
  ASSUME SolverInv, NEW new, \A g \in new : InStep(g), Population(new)
  PROVE  SolverInv'
<1>1. genomes' = new /\ stage = "evolve" /\ UNCHANGED <<vars, choice, min_dist, least, stage>>
  BY DEF Population
<1>2. GenomesInStep'
  BY <1>1 DEF GenomesInStep, InStep
<1> QED
  BY <1>1, <1>2 DEF SolverInv, ResultKeepsBest, vars, choice

\* The post optimisation begins with a solution and its cost.
LEMMA PostOptimizeKeeps ==
  ASSUME NEW s, IsSolution(s), NEW d, d = Cost(s), PostOptimize(s, d),
         genomes' = {} \/ (GenomesInStep /\ UNCHANGED genomes),
         least' \in Nat, small' \/ least' > 0 => d <= least'
  PROVE  SolverInv'
<1>1. sol' = s /\ total_distance' = d /\ stage' = "post"
  BY DEF PostOptimize
<1>2. GenomesInStep'
  BY DEF GenomesInStep
<1>3. ResultKeepsBest'
  BY <1>1 DEF ResultKeepsBest
<1> QED
  BY <1>1, <1>2, <1>3 DEF SolverInv

\* Every step of cvrp_solve keeps the invariant.
LEMMA SolverSteps == SolverInv /\ [SolverNext]_solverVars => SolverInv'
<1> SUFFICES ASSUME SolverInv, [SolverNext]_solverVars PROVE SolverInv'
  OBVIOUS
<1>1. GenomesInStep /\ \A g \in genomes : InStep(g)
  BY DEF SolverInv, GenomesInStep, InStep
<1>2. CASE SmallClarkeWright
  <2>1. PICK s1 \in Starts, s2 \in Starts : \E s \in Cheapest({s1, s2}) :
          sol' = s /\ min_dist' = Cost(s) /\ least' = Cost(s)
    BY <1>2 DEF SmallClarkeWright
  <2>2. PICK s \in Cheapest({s1, s2}) :
          sol' = s /\ min_dist' = Cost(s) /\ least' = Cost(s)
    BY <2>1
  <2>3. IsSolution(s)
    BY <2>2, StartsAssumption DEF Cheapest
  <2>4. stage' = "sweep" /\ UNCHANGED <<genomes, pc>> /\ stage = "new"
    BY <1>2 DEF SmallClarkeWright
  <2>5. Cost(s) \in Nat
    BY <2>3, CostNat
  <2>6. GenomesInStep'
    BY <1>1, <2>4 DEF GenomesInStep
  <2> QED
    BY <2>2, <2>3, <2>4, <2>5, <2>6 DEF SolverInv, ResultKeepsBest
<1>3. CASE SmallSweep
  <2>1. stage = "sweep" /\ UNCHANGED genomes
    BY <1>3 DEF SmallSweep
  <2>2. IsSolution(sol) /\ min_dist = Cost(sol) /\ least = Cost(sol)
    BY <2>1 DEF SolverInv
  <2>3. CASE /\ has_coords
             /\ \E template \in SweepTemplates :
                  LET made == UNION {Splits[t] : t \in ToSet(SweepTours(template))} IN
                  /\ \A t \in ToSet(SweepTours(template)) : Splits[t] # {}
                  /\ \E s \in Cheapest(made) :
                       /\ PostOptimize(Chosen(s), Cost(Chosen(s)))
                       /\ min_dist' = Cost(Chosen(s))
                       /\ least' = Min({least, Cost(s)})
    <3>1. PICK template \in SweepTemplates :
            \E s \in Cheapest(UNION {Splits[t] : t \in ToSet(SweepTours(template))}) :
              /\ PostOptimize(Chosen(s), Cost(Chosen(s)))
              /\ least' = Min({least, Cost(s)})
      BY <2>3
    <3>2. PICK s \in Cheapest(UNION {Splits[t] : t \in ToSet(SweepTours(template))}) :
              /\ PostOptimize(Chosen(s), Cost(Chosen(s)))
              /\ least' = Min({least, Cost(s)})
      BY <3>1
    <3>3. PICK t \in ToSet(SweepTours(template)) : s \in Splits[t]
      BY DEF Cheapest
    <3>4. IsSolution(s)
      BY <3>3, TemplatesAreTours, SweepToursAreTours, SplitsAreSolutions
    <3>5. Cost(s) \in Nat /\ Cost(sol) \in Nat
      BY <2>2, <3>4, CostNat
    <3>6. least' = IF Cost(s) < least THEN Cost(s) ELSE least
      <4> DEFINE a == least
                 b == Cost(s)
      <4>1. a \in Nat /\ b \in Nat
        BY <2>2, <3>5
      <4> HIDE DEF a, b
      <4>2. Min({a, b}) = IF b < a THEN b ELSE a
        <5>1. \E x \in {a, b} : \A y \in {a, b} : x <= y
          BY <4>1
        <5>2. Min({a, b}) \in {a, b} /\ \A y \in {a, b} : Min({a, b}) <= y
          BY <5>1 DEF Min
        <5> QED
          BY <4>1, <5>2
      <4> QED
        BY <3>2, <4>2 DEF a, b
    <3>7. IsSolution(Chosen(s)) /\ Cost(Chosen(s)) = least'
      BY <2>2, <3>4, <3>5, <3>6 DEF Chosen
    <3>8. least' \in Nat
      BY <2>2, <3>5, <3>6
    <3> DEFINE c == Chosen(s)
    <3>9. PostOptimize(c, Cost(c)) /\ IsSolution(c) /\ Cost(c) <= least'
      BY <3>2, <3>7, <3>8
    <3> HIDE DEF c
    <3> QED
      BY <1>1, <2>1, <3>8, <3>9, PostOptimizeKeeps
  <2>4. CASE ~has_coords /\ PostOptimize(sol, Cost(sol)) /\ UNCHANGED <<min_dist, least>>
    <3>1. least' = Cost(sol) /\ Cost(sol) \in Nat
      BY <2>2, <2>4, CostNat
    <3> QED
      BY <1>1, <2>1, <2>2, <2>4, <3>1, PostOptimizeKeeps
  <2> QED
    BY <1>3, <2>3, <2>4 DEF SmallSweep
<1>4. CASE AddClarkeWright
  <2>1. PICK g \in GenomesOfSolutions : Population(genomes \cup {g})
    BY <1>4 DEF AddClarkeWright, Join
  <2>2. \A h \in genomes \cup {g} : InStep(h)
    BY <1>1, NewGenomesInStep
  <2> QED
    BY <2>1, <2>2, PopulationKeeps
<1>5. CASE AddSweep \/ AddRandom
  <2>1. PICK t \in GiantTours : \E g \in GenomesOfTour(t) : Population(genomes \cup {g})
    BY <1>5, TemplatesAreTours DEF AddSweep, AddRandom, Join
  <2>2. PICK g \in GenomesOfTour(t) : Population(genomes \cup {g})
    BY <2>1
  <2>3. \A h \in genomes \cup {g} : InStep(h)
    BY <1>1, NewGenomesInStep
  <2> QED
    BY <2>2, <2>3, PopulationKeeps
<1>6. CASE Crossover
  <2>1. PICK g1 \in genomes, g2 \in genomes, j \in 0 .. NumCustomers - 1 :
          \E i \in 0 .. j :
          LET children == Ox(g1.gtour, g2.gtour, 0, NumCustomers - 1, i, j) IN
          \E c1 \in GenomesOfTour(children[1]), c2 \in GenomesOfTour(children[2]) :
            Population((genomes \ {g1, g2}) \cup {c1, c2})
    BY <1>6 DEF Crossover, NumCustomers
  <2>2. PICK i \in 0 .. j :
          LET children == Ox(g1.gtour, g2.gtour, 0, NumCustomers - 1, i, j) IN
          \E c1 \in GenomesOfTour(children[1]), c2 \in GenomesOfTour(children[2]) :
            Population((genomes \ {g1, g2}) \cup {c1, c2})
    BY <2>1
  <2> DEFINE children == Ox(g1.gtour, g2.gtour, 0, NumCustomers - 1, i, j)
  <2>3. g1.gtour \in GiantTours /\ g2.gtour \in GiantTours
    BY <1>1, GenomeTours
  <2>4. children[1] \in GiantTours /\ children[2] \in GiantTours
    BY <2>3, CrossedTours
  <2> HIDE DEF children
  <2>5. PICK c1 \in GenomesOfTour(children[1]), c2 \in GenomesOfTour(children[2]) :
            Population((genomes \ {g1, g2}) \cup {c1, c2})
    BY <2>2 DEF children
  <2>6. \A h \in (genomes \ {g1, g2}) \cup {c1, c2} : InStep(h)
    BY <1>1, <2>4, NewGenomesInStep
  <2> QED
    BY <2>5, <2>6, PopulationKeeps
<1>7. CASE Educate
  <2>1. PICK g \in genomes :
          \/ \E m \in First(OrOptMoves(g.sol)) :
               Population((genomes \ {g})
                 \cup {Educated(g, OrOptMoved(g.sol, m), OrOptDelta(g.sol, m))})
          \/ \E m \in First(TwoOptMoves(g.sol)) :
               Population((genomes \ {g})
                 \cup {Educated(g, TwoOptMoved(g.sol, m), TwoOptDelta(g.sol, m))})
    BY <1>7 DEF Educate
  <2>2. \E s, d : Results(g.sol, s, d) /\ Population((genomes \ {g}) \cup {Educated(g, s, d)})
    <3>1. IsSolution(g.sol)
      BY <1>1 DEF InStep
    <3>2. ASSUME NEW m \in First(OrOptMoves(g.sol))
          PROVE  Results(g.sol, OrOptMoved(g.sol, m), OrOptDelta(g.sol, m))
      BY <3>1, FirstIsMove, OrOptExact
    <3>3. ASSUME NEW m \in First(TwoOptMoves(g.sol))
          PROVE  Results(g.sol, TwoOptMoved(g.sol, m), TwoOptDelta(g.sol, m))
      BY <3>1, FirstIsMove, TwoOptExact
    <3> QED
      BY <2>1, <3>2, <3>3
  <2>3. PICK s, d : Results(g.sol, s, d) /\ Population((genomes \ {g}) \cup {Educated(g, s, d)})
    BY <2>2
  <2>4. InStep(Educated(g, s, d))
    BY <1>1, <2>3, EducatedInStep
  <2>5. \A h \in (genomes \ {g}) \cup {Educated(g, s, d)} : InStep(h)
    BY <1>1, <2>4
  <2> QED
    BY <2>3, <2>5, PopulationKeeps
<1>8. CASE EvolEnds
  <2>1. /\ genomes # {} /\ genomes' = {} /\ ~small'
        /\ least' = Min({g.distance : g \in genomes})
    BY <1>8 DEF EvolEnds, SolverInv, choice
  <2>2. PICK g \in Fittest(genomes, NumCustomers + 1, GenomeDistance) :
          PostOptimize(g.sol, g.distance)
    BY <1>8 DEF EvolEnds, NumCustomers
  <2>3. \A h \in genomes : h.distance \in Nat
    BY <1>1, CostNat DEF InStep
  <2>4. g \in genomes /\ least' \in Nat /\ (least' > 0 => g.distance <= least')
    <3>1. NumCustomers + 1 \in Nat \ {0}
      BY CustomersFinite
    <3>2. g \in Fittest(genomes, NumCustomers + 1, [h \in genomes |-> h.distance])
      BY <2>2 DEF GenomeDistance
    <3> QED
      BY ONLY <2>1, <2>3, <3>1, <3>2, FittestIsShortest
  <2>5. IsSolution(g.sol) /\ g.distance = Cost(g.sol)
    BY <1>1, <2>4 DEF InStep
  <2> QED
    BY <2>1, <2>2, <2>4, <2>5, PostOptimizeKeeps
<1>9. CASE PostStep
  <2>1. Next /\ UNCHANGED <<small, genomes, min_dist, least, stage>>
    BY <1>9 DEF PostStep, choice
  <2>2. pc \in {"or_opt", "exchange", "2_opt", "2_opt_star"}
    BY <2>1 DEF Next, OrOpt, Exchange, TwoOpt, TwoOptStar, NoMove
  <2>3. stage = "post"
    BY <2>2 DEF SolverInv
  <2>4. /\ IsSolution(sol) /\ total_distance = Cost(sol) /\ Cost(sol) \in Nat /\ least \in Nat
        /\ small \/ least > 0 => total_distance <= least
    BY <2>3, CostNat DEF SolverInv, ResultKeepsBest
  <2>5. /\ IsSolution(sol') /\ total_distance' = Cost(sol')
        /\ small \/ least > 0 => total_distance' <= least
    <3>1. CASE \E d : d < 0 /\ Results(sol, sol', d) /\ Improved(d)
      <4>1. PICK d : d < 0 /\ Results(sol, sol', d) /\ Improved(d)
        BY <3>1
      <4>2. /\ IsSolution(sol') /\ Cost(sol') = Cost(sol) + d /\ d \in Int /\ d < 0
            /\ total_distance' = total_distance + d
        BY <4>1 DEF Results, Improved
      <4> QED
        BY <2>4, <4>2
    <3>2. CASE UNCHANGED <<sol, total_distance, cost_before, total_saving>>
      BY <2>4, <3>2
    <3> QED
      BY <2>1, <2>4, <3>1, <3>2, Steps
  <2>6. GenomesInStep'
    BY <1>1, <2>1 DEF GenomesInStep
  <2> QED
    BY <2>1, <2>3, <2>4, <2>5, <2>6 DEF SolverInv, ResultKeepsBest
<1>10. CASE UNCHANGED solverVars
  BY <1>10 DEF SolverInv, GenomesInStep, ResultKeepsBest, solverVars, vars, choice
<1> QED
  BY <1>2, <1>3, <1>4, <1>5, <1>6, <1>7, <1>8, <1>9, <1>10 DEF SolverNext

\* It holds at first.
LEMMA SolverBegins == SolverInit => SolverInv
BY DEF SolverInit, SolverInv, GenomesInStep, ResultKeepsBest

\* Crossover in place, the split and the searches of the educator keep the giant
\* tour of a genome the order of a feasible solution, and its distance exact.
THEOREM GenomesStayInStep == SolverSpec => []GenomesInStep
<1>1. SolverInv => GenomesInStep
  BY DEF SolverInv
<1> QED
  BY <1>1, SolverBegins, SolverSteps, PTL DEF SolverSpec

\* The solution that cvrp_solve returns is feasible, its cost is the one reported,
\* and no solution there was to choose from is better, unless one costs nothing.
THEOREM BestIsKept == SolverSpec => []ResultKeepsBest
<1>1. SolverInv => ResultKeepsBest
  BY DEF SolverInv
<1> QED
  BY <1>1, SolverBegins, SolverSteps, PTL DEF SolverSpec
=============================================================================
