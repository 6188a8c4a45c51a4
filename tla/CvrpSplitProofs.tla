-------------------------- MODULE CvrpSplitProofs --------------------------
(***************************************************************************)
(* The split of a giant tour is optimal, for every tour, every matrix of   *)
(* distances (symmetric or not, with the triangle inequality or without),  *)
(* every demand and every capacity, and whatever the memory from malloc    *)
(* held.  The argument is Bellman's: every entry of the table is the cost  *)
(* of a path of H (by its predecessor), every arc of H behind the two      *)
(* loops has been relaxed, and the loops pass all arcs into a node before  *)
(* any arc out of it.                                                      *)
(***************************************************************************)
EXTENDS CvrpSplit, RouteFacts

-----------------------------------------------------------------------------
(***************************************************************************)
(* The inductive invariant                                                 *)
(***************************************************************************)

Fits(tour, a, b) == Load(RouteOf(tour, a, b)) <= Capacity
ArcCost(tour, a, b) == TotalDistance(RouteOf(tour, a, b))

\* A path of H, and the arcs on it
IsPath(p, from, to) ==
  /\ p \in Seq(Index) /\ Len(p) \in 1 .. to - from + 1
  /\ p[1] = from /\ p[Len(p)] = to
  /\ \A k \in 1 .. Len(p) - 1 : p[k] < p[k + 1]

AllFit(tour, p) == \A k \in 1 .. Len(p) - 1 : Fits(tour, p[k], p[k + 1])

TypeInv ==
  /\ gtour \in GTours
  /\ pc \in {"relax", "walk", "done", "aborted"}
  /\ sp_cost \in [Index -> 0 .. DOUBLE_MAX]
  /\ predecessor \in [Index -> Index \cup {SIZE_NONE}]

\* The two accumulators belong to the route before the next arc, and there is
\* no solution yet.
RowInv ==
  pc = "relax" =>
    /\ sol = <<>>
    /\ i \in 1 .. N + 1 /\ j \in i .. N + 1
    /\ route_demand = Load(RouteOf(gtour, i - 1, j - 1))
    /\ j > i => route_cost = ArcCost(gtour, i - 1, j - 1)

\* What the predecessor of a node that has been reached says of its cost
Reached(b) ==
  /\ predecessor[b] \in 0 .. b - 1
  /\ pc = "relax" => predecessor[b] < i
  /\ Fits(gtour, predecessor[b], b)
  /\ sp_cost[predecessor[b]] # DOUBLE_MAX
  /\ sp_cost[b] = sp_cost[predecessor[b]] + ArcCost(gtour, predecessor[b], b)

\* The loops have passed the arc (a, b).
Behind(a, b) == pc # "relax" \/ a < i - 1 \/ (a = i - 1 /\ b < j)

Relaxed(a, b) == sp_cost[b] <= sp_cost[a] + ArcCost(gtour, a, b)

TableInv ==
  /\ sp_cost[0] = 0 /\ predecessor[0] = SIZE_NONE
  /\ \A b \in Customers : sp_cost[b] # DOUBLE_MAX => Reached(b)
  /\ \A a \in Index, b \in Customers :
       a < b /\ Behind(a, b) /\ Fits(gtour, a, b) => Relaxed(a, b)

\* The routes of the solution are those of a path from j on.
WalkInv ==
  pc # "relax" /\ DemandsFit =>
    /\ j \in Index /\ i = predecessor[j] /\ sp_cost[j] # DOUBLE_MAX
    /\ \E p \in SeqOf(Index, N + 1) :
         IsPath(p, j, N) /\ AllFit(gtour, p) /\ sol = RoutesOf(gtour, p)
    /\ TotalCost(sol) + sp_cost[j] = sp_cost[N]
    /\ pc # "walk" => i = SIZE_NONE
    /\ pc = "done" => total_distance = sp_cost[N]

IInv == TypeInv /\ RowInv /\ TableInv /\ WalkInv

-----------------------------------------------------------------------------
(***************************************************************************)
(* The route of an arc                                                     *)
(***************************************************************************)

IsTour(g) == g \in Seq(Customers) /\ Len(g) = N

\* A giant tour is a list of N customers, which are nodes as the depot is.
LEMMA TourList ==
  /\ N \in Nat /\ N >= 1 /\ Customers \subseteq Nodes /\ 0 \in Nodes
  /\ \A g \in GTours : IsTour(g)
<1>1. N \in Nat /\ N >= 1
  BY NAssumption
<1>2. Customers \subseteq Nodes /\ 0 \in Nodes
  BY <1>1, NodesAssumption DEF Customers, Index
<1>3. ASSUME NEW g \in GTours PROVE IsTour(g)
  <2>1. g \in [1 .. N -> Customers]
    BY GToursAssumption DEF Customers
  <2> QED
    BY <1>1, <2>1 DEF IsTour
<1> QED
  BY <1>1, <1>2, <1>3

\* The nodes between the depots of a route.
Inner(g, a, b) == SubSeq(g, a + 1, b)

IsInner(g, a, b) ==
  /\ Inner(g, a, b) \in Seq(Nodes) /\ Len(Inner(g, a, b)) = b - a
  /\ b > a => Inner(g, a, b)[b - a] = g[b] /\ Inner(g, a, b)[1] = g[a + 1]

\* The nodes of the arc (a, b) are those of the tour behind a up to b.
LEMMA InnerType ==
  ASSUME NEW g, IsTour(g), NEW a \in 0 .. N, NEW b \in a .. N
  PROVE  IsInner(g, a, b)
<1> DEFINE m == Inner(g, a, b)
<1>1. /\ N \in Nat /\ \A k \in 1 .. b - a : g[(a + 1) + k - 1] \in Nodes
      /\ \A k \in (a + 1) .. b : g[k] \in Nodes
  BY TourList DEF IsTour
<1>2. \A k \in 1 .. b - (a + 1) + 1 : m[k] = g[(a + 1) + k - 1]
  BY <1>1, SubSeqProperties DEF Inner
<1>3. m \in Seq(Nodes) /\ Len(m) = IF a + 1 <= b THEN b - (a + 1) + 1 ELSE 0
  BY <1>1, SubSeqProperties DEF Inner
<1> HIDE DEF m
<1>4. Len(m) = b - a /\ m \in Seq(Nodes)
  BY <1>1, <1>3
<1>5. ASSUME b > a PROVE m[b - a] = g[b] /\ m[1] = g[a + 1]
  <2>1. /\ b - a \in 1 .. b - (a + 1) + 1 /\ 1 \in 1 .. b - (a + 1) + 1
        /\ (a + 1) + (b - a) - 1 = b /\ (a + 1) + 1 - 1 = a + 1
    BY <1>1, <1>5
  <2> QED
    BY <1>2, <2>1
<1> QED
  BY <1>4, <1>5 DEF IsInner, m

\* A list with one more customer of the tour.
LEMMA InnerAppend ==
  ASSUME NEW g, IsTour(g), NEW a \in 0 .. N, NEW b \in 1 .. N, a < b
  PROVE  /\ Inner(g, a, b) = Inner(g, a, b - 1) \o <<g[b]>>
         /\ g[b] \in Customers /\ g[b] \in Nodes
<1> DEFINE m == Inner(g, a, b)
           h == Inner(g, a, b - 1)
           n == b - 1 - a
<1>1. N \in Nat /\ g[b] \in Customers /\ g[b] \in Nodes
  BY TourList DEF IsTour
<1>2. /\ \A k \in 1 .. b - a : g[(a + 1) + k - 1] \in Nodes
      /\ \A k \in (a + 1) .. b : g[k] \in Nodes
  BY TourList DEF IsTour
<1>3. /\ m \in Seq(Nodes) /\ Len(m) = b - a
      /\ \A k \in 1 .. b - (a + 1) + 1 : m[k] = g[(a + 1) + k - 1]
  BY <1>1, <1>2, SubSeqProperties DEF Inner
<1>4. /\ h \in Seq(Nodes) /\ Len(h) = b - 1 - a
      /\ \A k \in 1 .. (b - 1) - (a + 1) + 1 : h[k] = g[(a + 1) + k - 1]
  <2>1. \A k \in (a + 1) .. b - 1 : g[k] \in Nodes
    BY <1>1, <1>2
  <2> QED
    BY <1>1, <2>1, SubSeqProperties DEF Inner
<1>5. n \in Nat /\ b - a = n + 1 /\ b - (a + 1) + 1 = n + 1 /\ (b - 1) - (a + 1) + 1 = n
      /\ (a + 1) + (n + 1) - 1 = b /\ b - 1 - a = n
  BY <1>1
<1> HIDE DEF m, h, n
<1>6. /\ m \in Seq(Nodes) /\ Len(m) = n + 1 /\ h \in Seq(Nodes) /\ Len(h) = n
      /\ m[n + 1] = g[b] /\ \A k \in 1 .. n : m[k] = h[k]
  BY <1>3, <1>4, <1>5
<1> DEFINE x == g[b]
<1> HIDE DEF x
<1>7. x \in Nodes /\ m[n + 1] = x
  BY <1>1, <1>6 DEF x
<1>8. m = h \o <<x>>
  <2> DEFINE t == h \o <<x>>
  <2>1. t \in Seq(Nodes) /\ Len(t) = n + 1 /\ t[n + 1] = x /\ \A k \in 1 .. n : t[k] = h[k]
    BY ONLY <1>5, <1>6, <1>7
  <2> HIDE DEF t
  <2>2. \A k \in 1 .. n + 1 : m[k] = t[k]
    <3>1. \A k \in 1 .. n + 1 : k \in 1 .. n \/ k = n + 1
      BY <1>5
    <3> QED
      BY <1>6, <1>7, <2>1, <3>1
  <2> QED
    BY <1>6, <2>1, <2>2, SeqEqual DEF t
<1> QED
  BY <1>1, <1>8 DEF m, h, x

\* The load of a route is that of the nodes between the depots.
LEMMA RouteLoad ==
  ASSUME NEW g, NEW a, NEW b, Inner(g, a, b) \in Seq(Nodes)
  PROVE  /\ Load(RouteOf(g, a, b)) = SumOf(Weights(Demand, Inner(g, a, b)))
         /\ Load(RouteOf(g, a, b)) \in Nat
<1> DEFINE m == Inner(g, a, b)
           d == <<0>>
           W(s) == SumOf(Weights(Demand, s))
<1>1. /\ d \in Seq(Nodes) /\ Demand \in [Nodes -> Nat] /\ 0 \in Nodes
      /\ W(d) = Demand[0] /\ Demand[0] = 0 /\ m \in Seq(Nodes)
  BY DemandAssumption, TourList, WeightOne
<1>2. RouteOf(g, a, b) = (d \o m) \o d
  BY DEF RouteOf, Inner
<1>3. Load(RouteOf(g, a, b)) = W(RouteOf(g, a, b))
  BY DEF Load, Weights
<1> HIDE DEF m, d
<1>4. d \o m \in Seq(Nodes)
  BY <1>1
<1>5. W((d \o m) \o d) = W(d \o m) + W(d) /\ W(d \o m) = W(d) + W(m)
  BY <1>1, <1>4, WeightConcat
<1>6. W(m) \in Nat
  BY <1>1, WeightNat
<1> HIDE DEF W
<1>7. W((d \o m) \o d) = W(m)
  BY <1>1, <1>5, <1>6
<1> QED
  BY <1>2, <1>3, <1>6, <1>7 DEF W, m

\* The load along a row: nothing at its begin, then the demand of one customer
\* more with each arc.
LEMMA LoadAlongRow ==
  ASSUME NEW g, IsTour(g)
  PROVE  /\ \A a \in 0 .. N : Load(RouteOf(g, a, a)) = 0
         /\ \A a \in 0 .. N : \A b \in a .. N : Load(RouteOf(g, a, b)) \in Nat
         /\ \A a \in 0 .. N, b \in 1 .. N : a < b =>
              /\ g[b] \in Customers /\ Demand[g[b]] \in Nat
              /\ Load(RouteOf(g, a, b)) = Load(RouteOf(g, a, b - 1)) + Demand[g[b]]
<1>0. N \in Nat /\ Demand \in [Nodes -> Nat]
  BY TourList, DemandAssumption
<1>1. ASSUME NEW a \in 0 .. N, NEW b \in a .. N
      PROVE  /\ Inner(g, a, b) \in Seq(Nodes) /\ Len(Inner(g, a, b)) = b - a
             /\ Load(RouteOf(g, a, b)) = SumOf(Weights(Demand, Inner(g, a, b)))
             /\ Load(RouteOf(g, a, b)) \in Nat
  BY InnerType, RouteLoad DEF IsInner
<1>2. ASSUME NEW a \in 0 .. N PROVE Load(RouteOf(g, a, a)) = 0
  <2> DEFINE m == Inner(g, a, a)
  <2>1. m \in Seq(Nodes) /\ Len(m) = 0
        /\ Load(RouteOf(g, a, a)) = SumOf(Weights(Demand, m))
    BY <1>0, <1>1
  <2> HIDE DEF m
  <2>2. m \o m = m
    BY <2>1
  <2>3. SumOf(Weights(Demand, m \o m)) = SumOf(Weights(Demand, m)) + SumOf(Weights(Demand, m))
    BY <1>0, <2>1, WeightConcat
  <2>4. SumOf(Weights(Demand, m)) \in Nat
    BY <1>0, <2>1, WeightNat
  <2> QED
    BY <2>1, <2>2, <2>3, <2>4
<1>3. ASSUME NEW a \in 0 .. N, NEW b \in 1 .. N, a < b
      PROVE  /\ g[b] \in Customers /\ Demand[g[b]] \in Nat
             /\ Load(RouteOf(g, a, b)) = Load(RouteOf(g, a, b - 1)) + Demand[g[b]]
  <2> DEFINE h == Inner(g, a, b - 1)
             x == g[b]
  <2>1. b \in a .. N /\ b - 1 \in a .. N
    BY <1>0, <1>3
  <2>2. h \in Seq(Nodes) /\ Load(RouteOf(g, a, b - 1)) = SumOf(Weights(Demand, h))
    BY <1>1, <2>1
  <2>3. Inner(g, a, b) = h \o <<x>> /\ x \in Nodes /\ x \in Customers
    BY <1>3, InnerAppend
  <2>4. Load(RouteOf(g, a, b)) = SumOf(Weights(Demand, h \o <<x>>))
    BY <1>1, <2>1, <2>3
  <2> HIDE DEF h, x
  <2>5. <<x>> \in Seq(Nodes) /\ SumOf(Weights(Demand, <<x>>)) = Demand[x]
    BY <1>0, <2>3, WeightOne
  <2>6. SumOf(Weights(Demand, h \o <<x>>))
          = SumOf(Weights(Demand, h)) + SumOf(Weights(Demand, <<x>>))
    BY <1>0, <2>2, <2>5, WeightConcat
  <2>7. Demand[x] \in Nat
    BY <1>0, <2>3
  <2> QED
    BY <2>2, <2>3, <2>4, <2>5, <2>6, <2>7 DEF x
<1> QED
  BY <1>1, <1>2, <1>3

\* One node more at the end of a path.
LEMMA AppendNode ==
  ASSUME NEW s \in Seq(Nodes), NEW x \in Nodes, s # <<>>
  PROVE  /\ TotalDistance(s \o <<x>>) = TotalDistance(s) + Arc(s[Len(s)], x)
         /\ TotalDistance(s) \in Nat /\ Arc(s[Len(s)], x) \in Nat
         /\ TotalDistance(<<x>>) = 0
<1> DEFINE t == <<x>>
<1>1. t \in Seq(Nodes) /\ Len(t) = 1 /\ t # <<>> /\ t[1] = x
  OBVIOUS
<1> HIDE DEF t
<1>2. TotalDistance(t) = 0
  BY <1>1, LegsType, SumOfOne
<1>3. TotalDistance(s \o t) = TotalDistance(s) + Link(s, t) + TotalDistance(t)
      /\ TotalDistance(s) \in Nat /\ Link(s, t) \in Nat
  BY <1>1, PathConcat, LegsType
<1>4. Link(s, t) = Arc(s[Len(s)], x)
  BY <1>1 DEF Link, If
<1> QED
  BY <1>2, <1>3, <1>4 DEF t

\* The cost along a row, which cvrp_split updates: the vehicle no longer
\* returns from the last customer but drives on to the next one.
LEMMA CostAlongRow ==
  ASSUME NEW g, IsTour(g), NEW a \in 0 .. N
  PROVE  /\ \A b \in 1 .. N : a < b =>
              /\ ArcCost(g, a, b) \in Nat
              /\ a = b - 1 =>
                   ArcCost(g, a, b) = Arc(0, g[b]) + Arc(g[b], 0)
              /\ a < b - 1 =>
                   ArcCost(g, a, b) = ArcCost(g, a, b - 1) - Arc(g[b - 1], 0)
                                      + Arc(g[b - 1], g[b]) + Arc(g[b], 0)
<1> DEFINE H(b) == <<0>> \o Inner(g, a, b)
<1>0. N \in Nat /\ 0 \in Nodes /\ <<0>> \in Seq(Nodes) /\ Len(<<0>>) = 1 /\ <<0>>[1] = 0
  BY TourList
<1>1. ASSUME NEW b \in a .. N
      PROVE  /\ H(b) \in Seq(Nodes) /\ H(b) # <<>> /\ RouteOf(g, a, b) = H(b) \o <<0>>
             /\ H(b)[Len(H(b))] = IF b = a THEN 0 ELSE g[b]
  <2> DEFINE m == Inner(g, a, b)
  <2>1. m \in Seq(Nodes) /\ Len(m) = b - a /\ (b > a => m[b - a] = g[b])
    BY InnerType DEF IsInner
  <2>2. RouteOf(g, a, b) = (<<0>> \o m) \o <<0>>
    BY DEF RouteOf, Inner
  <2>3. b - a \in Nat /\ (b # a => b > a)
    BY <1>0
  <2> HIDE DEF m
  <2> DEFINE d == <<0>>
             h == d \o m
             l == b - a
  <2> HIDE DEF d, l
  <2>4. h \in Seq(Nodes) /\ Len(h) = 1 + l
    BY <1>0, <2>1 DEF d, l
  <2>5. CASE b = a
    <3>1. Len(h) = 1 /\ h[1] = 0
      BY <1>0, <2>1, <2>3, <2>4, <2>5 DEF d, l
    <3> QED
      BY <2>2, <2>4, <2>5, <3>1 DEF d, m
  <2>6. CASE b # a
    <3>1. l \in 1 .. Len(m) /\ m[l] = g[b]
      BY <2>1, <2>3, <2>6 DEF l
    <3>2. h[1 + l] = m[l]
      BY <1>0, <2>1, <3>1 DEF d
    <3>3. h[Len(h)] = g[b]
      BY <2>4, <3>1, <3>2
    <3>4. h # <<>>
      BY <2>3, <2>4 DEF l
    <3> QED
      BY <2>2, <2>4, <2>6, <3>3, <3>4 DEF d, m
  <2> QED
    BY <2>5, <2>6
<1> HIDE DEF H
<1>2. ASSUME NEW b \in a .. N
      PROVE  /\ ArcCost(g, a, b) = TotalDistance(H(b)) + Arc(H(b)[Len(H(b))], 0)
             /\ TotalDistance(H(b)) \in Nat /\ Arc(H(b)[Len(H(b))], 0) \in Nat
  BY <1>0, <1>1, AppendNode DEF ArcCost
<1>3. ASSUME NEW b \in 1 .. N, a < b
      PROVE  /\ H(b) = H(b - 1) \o <<g[b]>>
             /\ TotalDistance(H(b)) = TotalDistance(H(b - 1)) + Arc(H(b - 1)[Len(H(b - 1))], g[b])
             /\ Arc(H(b - 1)[Len(H(b - 1))], g[b]) \in Nat
  <2> DEFINE h == Inner(g, a, b - 1)
             x == g[b]
             d == <<0>>
  <2>1. Inner(g, a, b) = h \o <<x>> /\ x \in Nodes
    BY <1>3, InnerAppend
  <2>2. b - 1 \in a .. N
    BY <1>0, <1>3
  <2>3. h \in Seq(Nodes) /\ d \in Seq(Nodes)
    BY <1>0, <2>2, InnerType DEF IsInner
  <2>4. H(b) = d \o (h \o <<x>>) /\ H(b - 1) = d \o h
    BY <2>1 DEF H
  <2> HIDE DEF h, d, x
  <2>5. <<x>> \in Seq(Nodes)
    BY <2>1
  <2>6. d \o (h \o <<x>>) = (d \o h) \o <<x>>
    BY <2>3, <2>5
  <2>7. H(b) = H(b - 1) \o <<x>>
    BY <2>4, <2>6
  <2>8. H(b - 1) \in Seq(Nodes) /\ H(b - 1) # <<>>
    BY <1>1, <2>2
  <2> QED
    BY <2>1, <2>7, <2>8, AppendNode DEF x
<1>4. TotalDistance(H(a)) = 0
  <2> DEFINE m == Inner(g, a, a)
  <2>1. m \in Seq(Nodes) /\ Len(m) = 0
    <3>1. a \in a .. N /\ a - a = 0
      BY <1>0
    <3> QED
      BY <3>1, InnerType DEF IsInner
  <2> HIDE DEF m
  <2>2. <<0>> \o m = <<0>>
    BY <1>0, <2>1
  <2> QED
    BY <1>0, <2>2, AppendNode DEF H, m
<1> QED
  <2> SUFFICES ASSUME NEW b \in 1 .. N, a < b
               PROVE  /\ ArcCost(g, a, b) \in Nat
                      /\ a = b - 1 =>
                           ArcCost(g, a, b) = Arc(0, g[b]) + Arc(g[b], 0)
                      /\ a < b - 1 =>
                           ArcCost(g, a, b) = ArcCost(g, a, b - 1) - Arc(g[b - 1], 0)
                                              + Arc(g[b - 1], g[b]) + Arc(g[b], 0)
    OBVIOUS
  <2>1. b \in a .. N /\ b - 1 \in a .. N /\ a \in a .. N /\ b # a
    BY <1>0
  <2>2. /\ ArcCost(g, a, b) = TotalDistance(H(b)) + Arc(g[b], 0)
        /\ TotalDistance(H(b)) \in Nat /\ Arc(g[b], 0) \in Nat
    BY <1>1, <1>2, <2>1
  <2>3. /\ TotalDistance(H(b)) = TotalDistance(H(b - 1)) + Arc(H(b - 1)[Len(H(b - 1))], g[b])
        /\ Arc(H(b - 1)[Len(H(b - 1))], g[b]) \in Nat
    BY <1>3
  <2>4. H(b - 1)[Len(H(b - 1))] = IF b - 1 = a THEN 0 ELSE g[b - 1]
    BY <1>1, <2>1
  <2>5. ArcCost(g, a, b) \in Nat
    BY <2>2
  <2>6. CASE a = b - 1
    <3>1. TotalDistance(H(b - 1)) = 0
      BY <1>4, <2>6
    <3>2. Arc(H(b - 1)[Len(H(b - 1))], g[b]) = Arc(0, g[b])
      BY <2>4, <2>6
    <3> QED
      BY <2>2, <2>3, <2>5, <2>6, <3>1, <3>2
  <2>7. CASE a # b - 1
    <3>1. /\ ArcCost(g, a, b - 1) = TotalDistance(H(b - 1)) + Arc(H(b - 1)[Len(H(b - 1))], 0)
          /\ TotalDistance(H(b - 1)) \in Nat /\ Arc(H(b - 1)[Len(H(b - 1))], 0) \in Nat
      BY <1>2, <2>1
    <3>2. H(b - 1)[Len(H(b - 1))] = g[b - 1]
      BY <2>4, <2>7
    <3> QED
      BY <2>2, <2>3, <2>5, <2>7, <3>1, <3>2
  <2> QED
    BY <2>6, <2>7

\* A route that is too heavy is so with more customers as well.
LEMMA HeavierAlongRow ==
  ASSUME NEW g, IsTour(g), NEW a \in 0 .. N, NEW b \in a .. N, NEW c \in b .. N
  PROVE  Load(RouteOf(g, a, b)) <= Load(RouteOf(g, a, c))
<1> DEFINE L(k) == Load(RouteOf(g, a, k))
           S == {k \in 0 .. c - b : L(b) <= L(b + k)}
<1>0. N \in Nat /\ a \in Int /\ b \in Int /\ c \in Int /\ c - b \in Nat
  BY TourList
<1>1. /\ \A k \in a .. N : L(k) \in Nat
      /\ \A k \in 1 .. N : a < k =>
           L(k) = L(k - 1) + Demand[g[k]] /\ Demand[g[k]] \in Nat
  BY LoadAlongRow
<1> HIDE DEF L
<1>2. 0 \in S
  BY <1>0, <1>1
<1>3. ASSUME NEW k \in 0 .. (c - b) - 1, k \in S PROVE k + 1 \in S
  <2>1. /\ b + (k + 1) \in 1 .. N /\ a < b + (k + 1) /\ (b + (k + 1)) - 1 = b + k
        /\ b + (k + 1) \in a .. N /\ b + k \in a .. N /\ b \in a .. N
        /\ k + 1 \in 0 .. c - b
    BY <1>0
  <2>2. L(b + (k + 1)) = L(b + k) + Demand[g[b + (k + 1)]]
        /\ Demand[g[b + (k + 1)]] \in Nat
    BY <1>1, <2>1
  <2>3. L(b) <= L(b + k)
    BY <1>3
  <2>4. L(b) \in Nat /\ L(b + k) \in Nat
    BY <1>1, <2>1
  <2>5. L(b) <= L(b + (k + 1))
    BY <2>2, <2>3, <2>4
  <2> QED
    BY <2>1, <2>5
<1> HIDE DEF S
<1>4. c - b \in S
  BY <1>0, <1>2, <1>3, IntervalInduction
<1> QED
  BY <1>0, <1>4 DEF S, L

-----------------------------------------------------------------------------
(***************************************************************************)
(* Solutions as paths of H                                                 *)
(***************************************************************************)

RouteSeq == Seq(Nodes)

\* The cost of the routes of two solutions one after the other, and of one
\* route alone.
LEMMA CostOfRoutes ==
  /\ \A s, t \in Seq(RouteSeq) :
       /\ TotalCost(s \o t) = TotalCost(s) + TotalCost(t)
       /\ TotalCost(s) \in Nat
  /\ \A r \in RouteSeq : TotalCost(<<r>>) = TotalDistance(r)
<1> DEFINE w == [r \in RouteSeq |-> TotalDistance(r)]
<1>1. w \in [RouteSeq -> Nat]
  BY LegsType DEF RouteSeq
<1>2. ASSUME NEW s \in Seq(RouteSeq) PROVE TotalCost(s) = SumOf(Weights(w, s))
  <2>1. \A k \in DOMAIN s : s[k] \in RouteSeq
    OBVIOUS
  <2>2. [k \in DOMAIN s |-> TotalDistance(s[k])] = [k \in DOMAIN s |-> w[s[k]]]
    BY <2>1
  <2> QED
    BY <2>2 DEF TotalCost, Weights
<1>3. \A r \in RouteSeq : w[r] = TotalDistance(r)
  OBVIOUS
<1> HIDE DEF w
<1>4. ASSUME NEW s \in Seq(RouteSeq), NEW t \in Seq(RouteSeq)
      PROVE  /\ TotalCost(s \o t) = TotalCost(s) + TotalCost(t)
             /\ TotalCost(s) \in Nat
  <2>1. s \o t \in Seq(RouteSeq)
    OBVIOUS
  <2>2. SumOf(Weights(w, s \o t)) = SumOf(Weights(w, s)) + SumOf(Weights(w, t))
        /\ SumOf(Weights(w, s)) \in Nat
    BY <1>1, WeightConcat, WeightNat
  <2> QED
    BY <1>2, <2>1, <2>2
<1>5. ASSUME NEW r \in RouteSeq PROVE TotalCost(<<r>>) = TotalDistance(r)
  <2>1. <<r>> \in Seq(RouteSeq)
    OBVIOUS
  <2>2. SumOf(Weights(w, <<r>>)) = w[r]
    BY <1>1, WeightOne
  <2> QED
    BY <1>2, <1>3, <2>1, <2>2
<1> QED
  BY <1>4, <1>5

\* The solution of a path, one route for each of its arcs.
IsSolutionOf(s, g, p) ==
  /\ s \in Seq(RouteSeq) /\ Len(s) = Len(p) - 1
  /\ \A k \in 1 .. Len(p) - 1 : s[k] = RouteOf(g, p[k], p[k + 1])

\* An arc of H stands for a route.
LEMMA RouteType ==
  ASSUME NEW g, IsTour(g), NEW a \in 0 .. N, NEW b \in a .. N
  PROVE  RouteOf(g, a, b) \in RouteSeq
<1>1. Inner(g, a, b) \in Seq(Nodes) /\ 0 \in Nodes
  BY InnerType, TourList DEF IsInner
<1> QED
  BY <1>1 DEF RouteOf, Inner, RouteSeq

\* The nodes of a path of H.
LEMMA PathNodes ==
  ASSUME NEW from \in Index, NEW to \in Index, NEW p, IsPath(p, from, to)
  PROVE  /\ Len(p) \in Nat /\ Len(p) >= 1
         /\ \A k \in 1 .. Len(p) : p[k] \in 0 .. N
         /\ \A k \in 1 .. Len(p) - 1 : k + 1 \in 1 .. Len(p) /\ p[k + 1] \in p[k] .. N
                                       /\ p[k + 1] \in 1 .. N
<1>1. p \in Seq(0 .. N) /\ Len(p) \in Nat /\ Len(p) >= 1 /\ N \in Nat
  BY TourList DEF IsPath, Index
<1>2. \A k \in 1 .. Len(p) : p[k] \in 0 .. N
  BY <1>1
<1>3. ASSUME NEW k \in 1 .. Len(p) - 1
      PROVE  k + 1 \in 1 .. Len(p) /\ p[k + 1] \in p[k] .. N /\ p[k + 1] \in 1 .. N
  <2>1. k \in 1 .. Len(p) /\ k + 1 \in 1 .. Len(p)
    BY <1>1
  <2>2. p[k] < p[k + 1] /\ p[k] \in 0 .. N /\ p[k + 1] \in 0 .. N
    BY <1>2, <2>1 DEF IsPath
  <2> QED
    BY <1>1, <2>1, <2>2
<1> QED
  BY <1>1, <1>2, <1>3

\* Every path of H has its solution.
LEMMA SolutionOfPath ==
  ASSUME NEW g, IsTour(g), NEW from \in Index, NEW to \in Index,
         NEW p, IsPath(p, from, to)
  PROVE  IsSolutionOf(RoutesOf(g, p), g, p)
<1> DEFINE n == Len(p) - 1
           s == RoutesOf(g, p)
<1>1. n \in Nat /\ \A k \in 1 .. n : p[k] \in 0 .. N /\ p[k + 1] \in p[k] .. N
  <2>1. \A k \in 1 .. Len(p) - 1 : k \in 1 .. Len(p)
    BY PathNodes
  <2> QED
    BY <2>1, PathNodes
<1>2. \A k \in 1 .. n : RouteOf(g, p[k], p[k + 1]) \in RouteSeq
  BY <1>1, RouteType
<1>3. s = [k \in 1 .. n |-> RouteOf(g, p[k], p[k + 1])]
  BY DEF RoutesOf
<1>4. s \in [1 .. n -> RouteSeq]
  BY <1>2, <1>3
<1>5. \A k \in 1 .. n : s[k] = RouteOf(g, p[k], p[k + 1])
  BY <1>3
<1> HIDE DEF n, s
<1>6. s \in Seq(RouteSeq) /\ Len(s) = n
  BY ONLY <1>1, <1>4
<1> QED
  BY <1>5, <1>6 DEF IsSolutionOf, n, s

\* A path of H that is one arc longer than another, at one of its ends, with
\* its solution.
IsLonger(g, q, p, s, cost) ==
  /\ AllFit(g, q)
  /\ RoutesOf(g, q) = s
  /\ TotalCost(s) = TotalCost(RoutesOf(g, p)) + cost
  /\ TotalCost(RoutesOf(g, p)) \in Nat

\* A path can be continued with an arc behind it.
LEMMA ExtendPath ==
  ASSUME NEW g, IsTour(g), NEW a \in Index, NEW b \in Customers, a < b,
         NEW p, IsPath(p, 0, a), AllFit(g, p), Fits(g, a, b)
  PROVE  /\ IsPath(Append(p, b), 0, b)
         /\ IsLonger(g, Append(p, b), p, Append(RoutesOf(g, p), RouteOf(g, a, b)),
                     ArcCost(g, a, b))
<1> DEFINE q == Append(p, b)
           n == Len(p)
           r == RouteOf(g, a, b)
           s == RoutesOf(g, p)
<1>1. N \in Nat /\ 0 \in Index /\ a \in 0 .. N /\ b \in 1 .. N /\ b \in Index
  BY TourList DEF Index, Customers
<1>2. p \in Seq(Index) /\ n \in 1 .. a + 1 /\ p[1] = 0 /\ p[n] = a /\ n \in Nat /\ n >= 1
      /\ \A k \in 1 .. n - 1 : p[k] < p[k + 1]
  BY <1>1 DEF IsPath
<1>3. q \in Seq(Index) /\ Len(q) = n + 1 /\ q[n + 1] = b /\ \A k \in 1 .. n : q[k] = p[k]
  BY <1>1, <1>2
<1> HIDE DEF q
<1>4. \A k \in 1 .. n : k = n \/ (k \in 1 .. n - 1 /\ k + 1 \in 1 .. n)
  BY <1>2
<1>5. \A k \in 1 .. n : IF k = n THEN q[k] = a /\ q[k + 1] = b
                                  ELSE q[k] = p[k] /\ q[k + 1] = p[k + 1]
  BY <1>2, <1>3, <1>4
<1>6. IsPath(q, 0, b)
  <2>1. q[1] = 0
    BY <1>2, <1>3
  <2>2. \A k \in 1 .. n : q[k] < q[k + 1]
    BY <1>2, <1>4, <1>5
  <2>3. n + 1 \in 1 .. b - 0 + 1 /\ (n + 1) - 1 = n
    BY <1>1, <1>2
  <2> QED
    BY <1>3, <2>1, <2>2, <2>3 DEF IsPath
<1>7. AllFit(g, q)
  <2>1. \A k \in 1 .. n : Fits(g, q[k], q[k + 1])
    BY <1>4, <1>5 DEF AllFit
  <2>2. Len(q) - 1 = n
    BY <1>2, <1>3
  <2> QED
    BY <2>1, <2>2 DEF AllFit
<1>8. s \in Seq(RouteSeq) /\ Len(s) = n - 1
      /\ \A k \in 1 .. n - 1 : s[k] = RouteOf(g, p[k], p[k + 1])
  BY <1>1, SolutionOfPath DEF IsSolutionOf
<1>9. r \in RouteSeq
  <2>1. b \in a .. N
    BY <1>1
  <2> QED
    BY <1>1, <2>1, RouteType
<1>10. RoutesOf(g, q) \in Seq(RouteSeq) /\ Len(RoutesOf(g, q)) = n
       /\ \A k \in 1 .. n : RoutesOf(g, q)[k] = RouteOf(g, q[k], q[k + 1])
  <2>1. Len(q) - 1 = n
    BY <1>2, <1>3
  <2>2. IsSolutionOf(RoutesOf(g, q), g, q)
    BY <1>1, <1>6, SolutionOfPath
  <2> QED
    BY <2>1, <2>2 DEF IsSolutionOf
<1> DEFINE t == RoutesOf(g, q)
<1>11. \A k \in 1 .. n : t[k] = IF k = n THEN r ELSE s[k]
  BY <1>4, <1>5, <1>8, <1>10
<1> HIDE DEF s, r, t, n
<1>12. t = Append(s, r)
  <2> DEFINE u == Append(s, r)
  <2>1. u \in Seq(RouteSeq) /\ Len(u) = n /\ u[n] = r /\ \A k \in 1 .. n - 1 : u[k] = s[k]
    BY <1>2, <1>8, <1>9
  <2> HIDE DEF u
  <2>2. \A k \in 1 .. n : t[k] = u[k]
    BY <1>4, <1>11, <2>1
  <2> QED
    BY <1>10, <2>1, <2>2, SeqEqual DEF u, t
<1>13. TotalCost(Append(s, r)) = TotalCost(s) + TotalDistance(r) /\ TotalCost(s) \in Nat
  <2>1. <<r>> \in Seq(RouteSeq) /\ Append(s, r) = s \o <<r>>
    BY <1>8, <1>9
  <2> QED
    BY <1>8, <1>9, <2>1, CostOfRoutes
<1> QED
  BY <1>6, <1>7, <1>12, <1>13 DEF IsLonger, q, s, r, t, ArcCost

\* A path can be continued with an arc before it.
LEMMA PrependPath ==
  ASSUME NEW g, IsTour(g), NEW a \in Index, NEW b \in Customers, a < b,
         NEW p, IsPath(p, b, N), AllFit(g, p), Fits(g, a, b)
  PROVE  /\ IsPath(<<a>> \o p, a, N)
         /\ IsLonger(g, <<a>> \o p, p, <<RouteOf(g, a, b)>> \o RoutesOf(g, p),
                     ArcCost(g, a, b))
<1> DEFINE d == <<a>>
           q == d \o p
           n == Len(p)
           r == RouteOf(g, a, b)
           s == RoutesOf(g, p)
<1>1. N \in Nat /\ N \in Index /\ a \in 0 .. N /\ b \in 1 .. N /\ b \in Index
  BY TourList DEF Index, Customers
<1>2. p \in Seq(Index) /\ n \in 1 .. N - b + 1 /\ p[1] = b /\ p[n] = N /\ n \in Nat /\ n >= 1
      /\ \A k \in 1 .. n - 1 : p[k] < p[k + 1]
  BY <1>1 DEF IsPath
<1>3. q \in Seq(Index) /\ Len(q) = n + 1 /\ q[1] = a /\ \A k \in 1 .. n : q[k + 1] = p[k]
  BY <1>2, ConsElements
<1> HIDE DEF d, q
<1>4. \A k \in 1 .. n : k = 1 \/ (k - 1 \in 1 .. n - 1 /\ k - 1 \in 1 .. n /\ (k - 1) + 1 = k)
  BY <1>2
<1>5. \A k \in 1 .. n : IF k = 1 THEN q[k] = a /\ q[k + 1] = b
                                  ELSE q[k] = p[k - 1] /\ q[k + 1] = p[k]
  BY <1>2, <1>3, <1>4
<1>6. IsPath(q, a, N)
  <2>1. q[n + 1] = N
    BY <1>2, <1>3
  <2>2. \A k \in 1 .. n : q[k] < q[k + 1]
    <3>1. \A k \in 1 .. n : k # 1 => p[k - 1] < p[k]
      BY <1>2, <1>4
    <3> QED
      BY <1>5, <3>1
  <2>3. n + 1 \in 1 .. N - a + 1 /\ (n + 1) - 1 = n
    BY <1>1, <1>2
  <2> QED
    BY <1>3, <2>1, <2>2, <2>3 DEF IsPath
<1>7. AllFit(g, q)
  <2>1. \A k \in 1 .. n : k # 1 => Fits(g, p[k - 1], p[k])
    BY <1>4 DEF AllFit
  <2>2. \A k \in 1 .. n : Fits(g, q[k], q[k + 1])
    BY <1>5, <2>1
  <2>3. Len(q) - 1 = n
    BY <1>2, <1>3
  <2> QED
    BY <2>2, <2>3 DEF AllFit
<1>8. s \in Seq(RouteSeq) /\ Len(s) = n - 1
      /\ \A k \in 1 .. n - 1 : s[k] = RouteOf(g, p[k], p[k + 1])
  BY <1>1, SolutionOfPath DEF IsSolutionOf
<1>9. r \in RouteSeq
  <2>1. b \in a .. N
    BY <1>1
  <2> QED
    BY <1>1, <2>1, RouteType
<1>10. RoutesOf(g, q) \in Seq(RouteSeq) /\ Len(RoutesOf(g, q)) = n
       /\ \A k \in 1 .. n : RoutesOf(g, q)[k] = RouteOf(g, q[k], q[k + 1])
  <2>1. Len(q) - 1 = n
    BY <1>2, <1>3
  <2>2. IsSolutionOf(RoutesOf(g, q), g, q)
    BY <1>1, <1>6, SolutionOfPath
  <2> QED
    BY <2>1, <2>2 DEF IsSolutionOf
<1> DEFINE t == RoutesOf(g, q)
<1>11. \A k \in 1 .. n : t[k] = IF k = 1 THEN r ELSE s[k - 1]
  <2>1. \A k \in 1 .. n : k # 1 => s[k - 1] = RouteOf(g, p[k - 1], p[k])
    BY <1>4, <1>8
  <2> QED
    BY <1>5, <1>10, <2>1
<1> HIDE DEF s, r, t, n
<1>12. t = <<r>> \o s
  <2> DEFINE e == <<r>>
             u == e \o s
  <2>3. u \in Seq(RouteSeq) /\ Len(u) = Len(s) + 1 /\ u[1] = r
        /\ \A k \in 1 .. Len(s) : u[k + 1] = s[k]
    BY <1>8, <1>9, ConsElements
  <2> HIDE DEF e, u
  <2>1. u \in Seq(RouteSeq) /\ Len(u) = n /\ u[1] = r /\ \A k \in 1 .. n - 1 : u[k + 1] = s[k]
    BY <1>2, <1>8, <2>3
  <2>2. \A k \in 1 .. n : t[k] = u[k]
    <3>1. \A k \in 1 .. n : k # 1 => u[k] = s[k - 1]
      BY <1>4, <2>1
    <3> QED
      BY <1>11, <2>1, <3>1
  <2> QED
    BY <1>10, <2>1, <2>2, SeqEqual DEF u, t, e
<1>13. TotalCost(<<r>> \o s) = TotalCost(s) + TotalDistance(r) /\ TotalCost(s) \in Nat
  <2>1. <<r>> \in Seq(RouteSeq)
    BY <1>9
  <2>2. TotalCost(<<r>> \o s) = TotalCost(<<r>>) + TotalCost(s) /\ TotalCost(<<r>>) \in Nat
        /\ TotalCost(<<r>>) = TotalDistance(r) /\ TotalCost(s) \in Nat
    BY <1>8, <1>9, <2>1, CostOfRoutes
  <2> QED
    BY <2>2
<1> QED
  BY <1>6, <1>7, <1>12, <1>13 DEF IsLonger, q, s, r, t, d, ArcCost

\* No node of a path of H is behind its last one.
LEMMA PathBelow ==
  ASSUME NEW from \in Index, NEW to \in Index, NEW p, IsPath(p, from, to)
  PROVE  \A k \in 1 .. Len(p) : p[k] <= to
<1> DEFINE n == Len(p) - 1
           S == {m \in 0 .. n : p[Len(p) - m] <= to}
<1>1. /\ n \in Nat /\ Len(p) \in Nat /\ p[Len(p)] = to /\ N \in Nat
      /\ \A k \in 1 .. Len(p) : p[k] \in 0 .. N
      /\ \A k \in 1 .. n : p[k] < p[k + 1]
  BY PathNodes, TourList DEF IsPath
<1>2. 0 \in S
  BY <1>1
<1>3. ASSUME NEW m \in 0 .. n - 1, m \in S PROVE m + 1 \in S
  <2> DEFINE k == Len(p) - (m + 1)
  <2>1. /\ k \in 1 .. n /\ k + 1 = Len(p) - m /\ m + 1 \in 0 .. n
        /\ k \in 1 .. Len(p) /\ k + 1 \in 1 .. Len(p)
    BY <1>1
  <2>2. p[k + 1] <= to /\ p[k] < p[k + 1] /\ p[k] \in Int /\ p[k + 1] \in Int /\ to \in Int
    BY <1>1, <1>3, <2>1 DEF Index
  <2>3. p[k] <= to
    BY <2>2
  <2> QED
    BY <2>1, <2>3
<1> HIDE DEF S
<1>4. 0 .. n \subseteq S
  BY <1>1, <1>2, <1>3, IntervalInduction
<1>5. ASSUME NEW k \in 1 .. Len(p) PROVE p[k] <= to
  <2>1. Len(p) - k \in 0 .. n /\ Len(p) - (Len(p) - k) = k
    BY <1>1
  <2> QED
    BY <1>4, <2>1 DEF S
<1> QED
  BY <1>5

\* The plans are the solutions of the paths of H whose routes all fit.
LEMMA PlansArePaths ==
  ASSUME NEW g, IsTour(g), NEW n \in Index
  PROVE  /\ \A p : IsPath(p, 0, n) /\ AllFit(g, p) => RoutesOf(g, p) \in Plans(g, n)
         /\ \A s \in Plans(g, n) :
              \E p : IsPath(p, 0, n) /\ AllFit(g, p) /\ s = RoutesOf(g, p)
<1>1. n \in Nat /\ 0 \in Index
  BY TourList DEF Index
<1>2. Paths[n] = {p \in SeqOf(Index, n + 1) :
                    /\ p # <<>> /\ p[1] = 0 /\ p[Len(p)] = n
                    /\ \A k \in 1 .. Len(p) - 1 : p[k] < p[k + 1]}
  BY DEF Paths
<1>3. ASSUME NEW p PROVE p \in Paths[n] <=> IsPath(p, 0, n)
  <2>1. p \in SeqOf(Index, n + 1) <=> p \in Seq(Index) /\ Len(p) <= n + 1
    <3>1. ASSUME p \in SeqOf(Index, n + 1) PROVE p \in Seq(Index) /\ Len(p) <= n + 1
      <4>1. PICK m \in 0 .. n + 1 : p \in [1 .. m -> Index]
        BY <3>1 DEF SeqOf
      <4>2. m \in Nat /\ m <= n + 1
        BY <1>1
      <4> QED
        BY ONLY <4>1, <4>2
    <3>2. ASSUME p \in Seq(Index), Len(p) <= n + 1 PROVE p \in SeqOf(Index, n + 1)
      <4>1. Len(p) \in 0 .. n + 1 /\ p \in [1 .. Len(p) -> Index]
        BY <1>1, <3>2
      <4> QED
        BY <4>1 DEF SeqOf
    <3> QED
      BY <3>1, <3>2
  <2>2. p \in Seq(Index) => (p # <<>> <=> Len(p) # 0) /\ Len(p) \in Nat
    OBVIOUS
  <2>3. n - 0 + 1 = n + 1
    BY <1>1
  <2>4. p \in Seq(Index) => (Len(p) \in 1 .. n - 0 + 1 <=> p # <<>> /\ Len(p) <= n + 1)
    BY <1>1, <2>2, <2>3
  <2> QED
    BY <1>2, <2>1, <2>4 DEF IsPath
<1>4. ASSUME NEW p, IsPath(p, 0, n)
      PROVE  AllFit(g, p)
               <=> \A k \in DOMAIN RoutesOf(g, p) : Load(RoutesOf(g, p)[k]) <= Capacity
  BY DEF AllFit, Fits, RoutesOf
<1> QED
  BY <1>3, <1>4 DEF Plans

-----------------------------------------------------------------------------
(***************************************************************************)
(* What the table says                                                     *)
(***************************************************************************)

\* The plan with no route.
LEMMA NoRoute ==
  ASSUME NEW g
  PROVE  RoutesOf(g, <<0>>) = <<>> /\ TotalCost(<<>>) = 0
<1>1. RoutesOf(g, <<0>>) = <<>>
  BY DEF RoutesOf
<1>2. TotalCost(<<>>) = SumOf(<<>>)
  BY DEF TotalCost
<1>3. SumOf(<<>>) = 0
  <2>1. <<>> \in Seq(Int) /\ Len(<<>>) = 0
    OBVIOUS
  <2> QED
    BY <2>1, SumsOfStep, SumOfLast
<1> QED
  BY <1>1, <1>2, <1>3

\* Every cost of the table below DOUBLE_MAX is that of a path.
LEMMA CostOfAPath ==
  ASSUME TypeInv, TableInv, NEW n \in Index, sp_cost[n] # DOUBLE_MAX
  PROVE  \E p : /\ IsPath(p, 0, n) /\ AllFit(gtour, p)
                /\ TotalCost(RoutesOf(gtour, p)) = sp_cost[n]
<1> DEFINE Has(k) == \E p : /\ IsPath(p, 0, k) /\ AllFit(gtour, p)
                            /\ TotalCost(RoutesOf(gtour, p)) = sp_cost[k]
           S == {m \in 0 .. N : \A k \in 0 .. m : sp_cost[k] # DOUBLE_MAX => Has(k)}
<1>0. N \in Nat /\ IsTour(gtour) /\ 0 \in Index
  BY TourList DEF TypeInv, Index
<1>1. Has(0)
  <2> DEFINE p == <<0>>
  <2>1. p \in Seq(Index) /\ Len(p) = 1 /\ p[1] = 0
    BY <1>0
  <2>2. TotalCost(RoutesOf(gtour, p)) = sp_cost[0]
    BY NoRoute DEF TableInv
  <2> HIDE DEF p
  <2>3. IsPath(p, 0, 0) /\ AllFit(gtour, p)
    BY <2>1 DEF IsPath, AllFit
  <2> QED
    BY <2>2, <2>3
<1>2. ASSUME NEW b \in Customers, sp_cost[b] # DOUBLE_MAX,
             \A k \in 0 .. b - 1 : sp_cost[k] # DOUBLE_MAX => Has(k)
      PROVE  Has(b)
  <2> DEFINE a == predecessor[b]
  <2>1. /\ a \in 0 .. b - 1 /\ Fits(gtour, a, b) /\ sp_cost[a] # DOUBLE_MAX
        /\ sp_cost[b] = sp_cost[a] + ArcCost(gtour, a, b)
    BY <1>2 DEF TableInv, Reached
  <2> HIDE DEF a
  <2>2. a \in Index /\ a < b
    BY <1>0, <2>1 DEF Index, Customers
  <2>3. PICK p : /\ IsPath(p, 0, a) /\ AllFit(gtour, p)
                 /\ TotalCost(RoutesOf(gtour, p)) = sp_cost[a]
    BY <1>2, <2>1
  <2> DEFINE q == Append(p, b)
             s == Append(RoutesOf(gtour, p), RouteOf(gtour, a, b))
  <2> HIDE DEF q, s
  <2>4. IsPath(q, 0, b) /\ IsLonger(gtour, q, p, s, ArcCost(gtour, a, b))
    BY <1>0, <2>1, <2>2, <2>3, ExtendPath DEF q, s
  <2>5. AllFit(gtour, q) /\ TotalCost(RoutesOf(gtour, q)) = sp_cost[b]
    BY <2>1, <2>3, <2>4 DEF IsLonger
  <2> QED
    BY <2>4, <2>5
<1> HIDE DEF Has
<1>3. 0 \in S
  BY <1>0, <1>1
<1>4. ASSUME NEW m \in 0 .. N - 1, m \in S PROVE m + 1 \in S
  <2>1. m + 1 \in Customers /\ (m + 1) - 1 = m /\ m + 1 \in 0 .. N
        /\ \A k \in 0 .. m + 1 : k \in 0 .. m \/ k = m + 1
    BY <1>0 DEF Customers
  <2>2. \A k \in 0 .. m : sp_cost[k] # DOUBLE_MAX => Has(k)
    BY <1>4
  <2>3. sp_cost[m + 1] # DOUBLE_MAX => Has(m + 1)
    BY <1>2, <2>1, <2>2
  <2> QED
    BY <2>1, <2>2, <2>3
<1>5. 0 .. N \subseteq S
  <2> HIDE DEF S
  <2> QED
    BY <1>0, <1>3, <1>4, IntervalInduction
<1>6. Has(n)
  BY <1>0, <1>5 DEF Index
<1> QED
  BY <1>6 DEF Has

\* A node all of whose arcs are behind the loops has no path that costs less.
LEMMA NoCheaperPath ==
  ASSUME TypeInv, RowInv, TableInv, NEW n \in Index, pc # "relax" \/ n < i,
         NEW p, IsPath(p, 0, n), AllFit(gtour, p)
  PROVE  sp_cost[n] <= TotalCost(RoutesOf(gtour, p))
<1> DEFINE s == RoutesOf(gtour, p)
           L == Len(p) - 1
           c == [k \in DOMAIN s |-> TotalDistance(s[k])]
           f == SumsOf(c)
           S == {k \in 0 .. L : sp_cost[p[k + 1]] <= f[k]}
<1>0. N \in Nat /\ IsTour(gtour) /\ 0 \in Index
  BY TourList DEF TypeInv, Index
<1>1. /\ L \in Nat /\ L + 1 = Len(p) /\ p[1] = 0 /\ p[L + 1] = n
      /\ \A k \in 1 .. L : /\ p[k] \in 0 .. N /\ p[k + 1] \in 1 .. N
                           /\ p[k] < p[k + 1] /\ p[k + 1] <= n
                           /\ Fits(gtour, p[k], p[k + 1])
  <2>1. Len(p) \in Nat /\ Len(p) >= 1 /\ p[1] = 0 /\ p[Len(p)] = n
    BY <1>0, PathNodes DEF IsPath
  <2>2. ASSUME NEW k \in 1 .. L
        PROVE  /\ p[k] \in 0 .. N /\ p[k + 1] \in 1 .. N
               /\ p[k] < p[k + 1] /\ p[k + 1] <= n
               /\ Fits(gtour, p[k], p[k + 1])
    <3>1. k \in 1 .. Len(p) /\ k + 1 \in 1 .. Len(p)
      BY <2>1
    <3>2. p[k] \in 0 .. N /\ p[k + 1] \in 1 .. N
      BY <1>0, <3>1, PathNodes
    <3>3. p[k + 1] <= n
      BY <1>0, <3>1, PathBelow
    <3> QED
      BY <3>2, <3>3 DEF IsPath, AllFit
  <2> QED
    BY <2>1, <2>2
<1>2. /\ s \in Seq(RouteSeq) /\ Len(s) = L
      /\ \A k \in 1 .. L : s[k] = RouteOf(gtour, p[k], p[k + 1])
  BY <1>0, SolutionOfPath DEF IsSolutionOf
<1>3. /\ c \in Seq(Int) /\ Len(c) = L
      /\ \A k \in 1 .. L : c[k] = ArcCost(gtour, p[k], p[k + 1])
  <2> HIDE DEF s, L
  <2>1. DOMAIN s = 1 .. L /\ L \in Nat
    BY <1>1, <1>2
  <2>2. \A k \in 1 .. L : TotalDistance(s[k]) \in Int
    <3>1. \A k \in 1 .. L : s[k] \in Seq(Nodes)
      BY <1>2, <2>1 DEF RouteSeq
    <3> QED
      BY <3>1, LegsType
  <2>3. c \in [1 .. L -> Int]
    BY <2>1, <2>2
  <2>4. \A k \in 1 .. L : c[k] = ArcCost(gtour, p[k], p[k + 1])
    BY <1>2, <2>1 DEF ArcCost
  <2> HIDE DEF c
  <2>5. c \in Seq(Int) /\ Len(c) = L
    BY ONLY <2>1, <2>3
  <2> QED
    BY <2>4, <2>5
<1>4. TotalCost(s) = f[L]
  BY <1>3, SumOfLast DEF TotalCost
<1> HIDE DEF s, L, c
<1>5. f[0] = 0 /\ \A k \in 1 .. L : f[k] = f[k - 1] + c[k] /\ f[k - 1] \in Int
  <2>1. /\ f \in [0 .. L -> Int] /\ f[0] = 0
        /\ \A k \in 1 .. L : f[k] = f[k - 1] + c[k]
    BY <1>3, SumsOfStep
  <2>2. \A k \in 1 .. L : k - 1 \in 0 .. L
    BY <1>1
  <2> HIDE DEF f
  <2> QED
    BY <2>1, <2>2
<1> HIDE DEF f
<1>6. 0 \in S
  BY <1>1, <1>5 DEF TableInv
<1>7. ASSUME NEW k \in 0 .. L - 1, k \in S PROVE k + 1 \in S
  <2> DEFINE a == p[k + 1]
             b == p[(k + 1) + 1]
  <2>1. k + 1 \in 1 .. L /\ (k + 1) - 1 = k /\ k + 1 \in 0 .. L
    BY <1>1
  <2>2. a \in 0 .. N /\ b \in 1 .. N /\ a < b /\ b <= n /\ Fits(gtour, a, b)
    BY <1>1, <2>1
  <2>3. Behind(a, b)
    <3>1. CASE pc # "relax"
      BY <3>1 DEF Behind
    <3>2. CASE pc = "relax"
      <4>1. n < i /\ i \in Int /\ n \in Int
        BY <1>0, <3>2 DEF RowInv, Index
      <4>2. a < i - 1
        BY <2>2, <4>1
      <4> QED
        BY <4>2 DEF Behind
    <3> QED
      BY <3>1, <3>2
  <2>4. sp_cost[b] <= sp_cost[a] + ArcCost(gtour, a, b)
    BY <2>2, <2>3 DEF TableInv, Relaxed, Index, Customers
  <2>5. sp_cost[a] <= f[k]
    BY <1>7
  <2>6. f[k + 1] = f[k] + c[k + 1] /\ f[k] \in Int
    BY <1>5, <2>1
  <2>7. c[k + 1] = ArcCost(gtour, a, b)
    BY <1>3, <2>1
  <2>8. sp_cost[a] \in Int /\ sp_cost[b] \in Int
    <3>1. \A m \in Index : sp_cost[m] \in Int
      BY DOUBLE_MAXAssumption DEF TypeInv
    <3>2. a \in Index /\ b \in Index
      BY <1>0, <2>2 DEF Index
    <3> QED
      BY <3>1, <3>2
  <2>9. ArcCost(gtour, a, b) \in Int
    BY <1>0, <2>2, CostAlongRow
  <2> HIDE DEF a, b
  <2>10. sp_cost[b] <= f[k + 1]
    BY <2>4, <2>5, <2>6, <2>7, <2>8, <2>9
  <2> QED
    BY <2>1, <2>10 DEF b
<1> HIDE DEF S
<1>8. L \in S
  <2>1. L \in Nat
    BY <1>1
  <2>2. 0 .. L \subseteq S
    BY ONLY <2>1, <1>6, <1>7, IntervalInduction
  <2> QED
    BY <2>1, <2>2
<1> QED
  BY <1>1, <1>4, <1>8 DEF S, s

\* When every customer fits the vehicle, the last one has been reached.
LEMMA LastReached ==
  ASSUME TypeInv, TableInv, DemandsFit,
         \A a \in Index, b \in Customers : a < b => Behind(a, b)
  PROVE  sp_cost[N] # DOUBLE_MAX
<1>0. N \in Nat /\ IsTour(gtour) /\ Customers \subseteq Nodes /\ 0 \in Nodes
  BY TourList DEF TypeInv
<1>1. PICK most \in 0 .. DOUBLE_MAX :
        /\ N * most < DOUBLE_MAX
        /\ \A c \in Customers : Arc(0, c) + Arc(c, 0) <= most
  BY DOUBLE_MAXAssumption
<1>2. most \in Nat
  BY DOUBLE_MAXAssumption
<1> DEFINE S == {k \in 0 .. N : sp_cost[k] <= k * most}
<1>3. 0 \in S
  BY <1>0, <1>2 DEF TableInv
<1>4. ASSUME NEW k \in 0 .. N - 1, k \in S PROVE k + 1 \in S
  <2> DEFINE b == k + 1
             x == gtour[b]
  <2>1. b \in 1 .. N /\ b - 1 = k /\ k \in 0 .. N /\ k < b /\ k \in k .. N /\ b \in k .. N
        /\ k \in Index /\ b \in Index /\ b \in Customers
    BY <1>0 DEF Index, Customers
  <2>2. x \in Customers /\ Load(RouteOf(gtour, k, b)) = Demand[x] /\ Demand[x] \in Nat
    <3>1. /\ x \in Customers /\ Demand[x] \in Nat
          /\ Load(RouteOf(gtour, k, b)) = Load(RouteOf(gtour, k, k)) + Demand[x]
          /\ Load(RouteOf(gtour, k, k)) = 0
      <4> HIDE DEF x, b
      <4>1. Load(RouteOf(gtour, k, b)) = Load(RouteOf(gtour, k, b - 1)) + Demand[gtour[b]]
            /\ gtour[b] \in Customers /\ Demand[gtour[b]] \in Nat
        BY <1>0, <2>1, LoadAlongRow
      <4>2. Load(RouteOf(gtour, k, k)) = 0
        BY <1>0, <2>1, LoadAlongRow
      <4> QED
        BY <2>1, <4>1, <4>2 DEF x
    <3> QED
      BY <3>1
  <2>3. Fits(gtour, k, b)
    BY <2>2 DEF DemandsFit, Fits
  <2>4. ArcCost(gtour, k, b) = Arc(0, x) + Arc(x, 0)
    BY <1>0, <2>1, CostAlongRow
  <2>5. ArcCost(gtour, k, b) <= most
    BY <1>1, <2>2, <2>4
  <2>6. sp_cost[b] <= sp_cost[k] + ArcCost(gtour, k, b)
    BY <2>1, <2>3 DEF TableInv, Relaxed
  <2>7. sp_cost[k] <= k * most
    BY <1>4
  <2>8. sp_cost[k] \in Int /\ sp_cost[b] \in Int
    BY <2>1, DOUBLE_MAXAssumption DEF TypeInv
  <2>9. ArcCost(gtour, k, b) \in Int
    BY <1>0, <2>1, CostAlongRow
  <2>10. b * most = k * most + most /\ k * most \in Int
    BY <1>0, <1>2
  <2> HIDE DEF b, x
  <2>11. sp_cost[b] <= b * most
    BY <1>2, <2>5, <2>6, <2>7, <2>8, <2>9, <2>10
  <2> QED
    BY <1>0, <2>1, <2>11 DEF b
<1> HIDE DEF S
<1>5. N \in S
  <2>1. 0 .. N \subseteq S
    BY ONLY <1>0, <1>3, <1>4, IntervalInduction
  <2> QED
    BY <1>0, <2>1
<1> QED
  <2>1. sp_cost[N] <= N * most
    BY <1>5 DEF S
  <2>2. N \in Index /\ sp_cost[N] \in Int /\ DOUBLE_MAX \in Int
    BY <1>0, DOUBLE_MAXAssumption DEF TypeInv, Index
  <2>3. N * most \in Int
    BY <1>0, <1>2
  <2> QED
    BY <1>1, <2>1, <2>2, <2>3

-----------------------------------------------------------------------------
(***************************************************************************)
(* The invariant implies the properties                                    *)
(***************************************************************************)

\* The invariant says that the rows are settled.
LEMMA InvRowsSettled ==
  ASSUME IInv
  PROVE  RowsSettled
<1>1. TypeInv /\ RowInv /\ TableInv /\ IsTour(gtour)
  BY TourList DEF IInv, TypeInv
<1>2. ASSUME NEW n \in Index, sp_cost[n] # DOUBLE_MAX
      PROVE  \E s \in Plans(gtour, n) : TotalCost(s) = sp_cost[n]
  <2>1. PICK p : /\ IsPath(p, 0, n) /\ AllFit(gtour, p)
                 /\ TotalCost(RoutesOf(gtour, p)) = sp_cost[n]
    BY <1>1, <1>2, CostOfAPath
  <2>2. RoutesOf(gtour, p) \in Plans(gtour, n)
    BY <1>1, <2>1, PlansArePaths
  <2> QED
    BY <2>1, <2>2
<1>3. ASSUME NEW n \in Index, pc # "relax" \/ n < i, NEW s \in Plans(gtour, n)
      PROVE  sp_cost[n] <= TotalCost(s)
  <2>1. PICK p : IsPath(p, 0, n) /\ AllFit(gtour, p) /\ s = RoutesOf(gtour, p)
    BY <1>1, <1>3, PlansArePaths
  <2>2. sp_cost[n] <= TotalCost(RoutesOf(gtour, p))
    BY <1>1, <1>3, <2>1, NoCheaperPath
  <2> QED
    BY <2>1, <2>2
<1> QED
  BY <1>2, <1>3 DEF RowsSettled

\* The walk over the predecessors ends at the depot.
LEMMA WalkEnds ==
  ASSUME IInv, pc # "relax", DemandsFit
  PROVE  /\ i = SIZE_NONE <=> j = 0
         /\ j \in Customers => Reached(j)
<1>1. j \in Index /\ i = predecessor[j] /\ sp_cost[j] # DOUBLE_MAX
      /\ predecessor[0] = SIZE_NONE /\ N \in Nat
  BY TourList DEF IInv, WalkInv, TableInv
<1>2. ASSUME j # 0 PROVE j \in Customers /\ Reached(j) /\ i # SIZE_NONE
  <2>1. j \in Customers
    BY <1>1, <1>2 DEF Index, Customers
  <2>2. Reached(j)
    BY <1>1, <2>1 DEF IInv, TableInv
  <2>3. i \in 0 .. j - 1 /\ j \in 1 .. N
    BY <1>1, <2>1, <2>2 DEF Reached, Customers
  <2>4. i \in Index
    BY <1>1, <2>3 DEF Index
  <2> QED
    BY <2>1, <2>2, <2>4, SIZE_NONEAssumption
<1> QED
  BY <1>1, <1>2 DEF Customers

\* The invariant says that the solution is optimal.
LEMMA InvSplitOptimal ==
  ASSUME IInv
  PROVE  SplitOptimal
<1> SUFFICES ASSUME DemandsFit, pc = "done"
             PROVE  /\ sol \in Plans(gtour, N)
                    /\ total_distance = TotalCost(sol)
                    /\ \A s \in Plans(gtour, N) : total_distance <= TotalCost(s)
  BY DEF SplitOptimal
<1>1. /\ pc # "relax" /\ N \in Index /\ IsTour(gtour) /\ i = SIZE_NONE
      /\ TotalCost(sol) + sp_cost[j] = sp_cost[N] /\ total_distance = sp_cost[N]
      /\ sp_cost[0] = 0
  BY TourList DEF IInv, TypeInv, WalkInv, TableInv, Index
<1>2. j = 0
  BY <1>1, WalkEnds
<1>3. PICK p : IsPath(p, 0, N) /\ AllFit(gtour, p) /\ sol = RoutesOf(gtour, p)
  BY <1>1, <1>2 DEF IInv, WalkInv
<1>4. sol \in Plans(gtour, N)
  BY <1>1, <1>3, PlansArePaths
<1>5. TotalCost(sol) \in Nat
  <2>1. 0 \in Index
    BY TourList DEF Index
  <2>2. IsSolutionOf(sol, gtour, p)
    BY <1>1, <1>3, <2>1, SolutionOfPath
  <2> QED
    BY <2>2, CostOfRoutes DEF IsSolutionOf
<1>6. total_distance = TotalCost(sol)
  BY <1>1, <1>2, <1>5
<1>7. \A s \in Plans(gtour, N) : sp_cost[N] <= TotalCost(s)
  BY <1>1, InvRowsSettled DEF RowsSettled
<1> QED
  BY <1>1, <1>4, <1>6, <1>7

-----------------------------------------------------------------------------
(***************************************************************************)
(* The invariant is inductive                                              *)
(***************************************************************************)

\* Nothing has been relaxed before the loops begin.
LEMMA InitInv == Init => IInv
<1> SUFFICES ASSUME Init PROVE IInv
  OBVIOUS
<1>1. /\ N \in Nat /\ N >= 1 /\ IsTour(gtour) /\ DOUBLE_MAX \in Nat
      /\ Customers \subseteq Index /\ 0 \in Index /\ 0 \notin Customers
      /\ \A b \in Index : b # 0 => b \in Customers
  BY TourList, DOUBLE_MAXAssumption DEF Init, Index, Customers
<1>2. PICK junk \in Junk :
        predecessor = [k \in Index |-> IF k = 0 THEN SIZE_NONE ELSE junk[k]]
  BY DEF Init
<1>3. junk \in [Customers -> Index \cup {SIZE_NONE}]
  BY JunkAssumption
<1>4. sp_cost = [k \in Index |-> IF k = 0 THEN 0 ELSE DOUBLE_MAX]
  BY DEF Init
<1>5. TypeInv
  <2>1. sp_cost \in [Index -> 0 .. DOUBLE_MAX]
    BY <1>1, <1>4
  <2>2. predecessor \in [Index -> Index \cup {SIZE_NONE}]
    BY <1>1, <1>2, <1>3
  <2> QED
    BY <2>1, <2>2 DEF Init, TypeInv
<1>6. RowInv
  <2>1. Load(RouteOf(gtour, 0, 0)) = 0 /\ 1 - 1 = 0
    BY <1>1, LoadAlongRow
  <2> QED
    BY <1>1, <2>1 DEF Init, RowInv
<1>7. TableInv
  <2>1. sp_cost[0] = 0 /\ predecessor[0] = SIZE_NONE
    BY <1>1, <1>2, <1>4
  <2>2. \A b \in Customers : sp_cost[b] = DOUBLE_MAX
    BY <1>1, <1>4
  <2>3. ASSUME NEW a \in Index, NEW b \in Customers PROVE ~Behind(a, b)
    BY <1>1 DEF Init, Behind, Index, Customers
  <2> QED
    BY <2>1, <2>2, <2>3 DEF TableInv
<1> QED
  BY <1>5, <1>6, <1>7 DEF IInv, Init, WalkInv

\* What the row's accumulators become with the next customer is the demand and
\* the cost of the route of the arc.
LEMMA NextArc ==
  ASSUME TypeInv, RowInv, pc = "relax", i <= N, j <= N
  PROVE  /\ i - 1 \in 0 .. N /\ j \in 1 .. N /\ i - 1 < j /\ i <= j
         /\ i \in Int /\ j \in Int
         /\ j \in Customers /\ j \in Index /\ i - 1 \in Index
         /\ NewDemand = Load(RouteOf(gtour, i - 1, j))
         /\ NewCost = ArcCost(gtour, i - 1, j) /\ NewCost \in Nat
<1> DEFINE a == i - 1
<1>1. /\ N \in Nat /\ IsTour(gtour) /\ a \in 0 .. N /\ j \in 1 .. N /\ a < j /\ i <= j
      /\ i \in Int /\ j \in Int
      /\ j \in Customers /\ j \in Index /\ a \in Index
      /\ route_demand = Load(RouteOf(gtour, a, j - 1))
      /\ j > i => route_cost = ArcCost(gtour, a, j - 1)
  BY TourList DEF TypeInv, RowInv, Index, Customers
<1> HIDE DEF a
<1>2. /\ Load(RouteOf(gtour, a, j)) = Load(RouteOf(gtour, a, j - 1)) + Demand[gtour[j]]
  BY <1>1, LoadAlongRow
<1>3. /\ ArcCost(gtour, a, j) \in Nat
      /\ a = j - 1 =>
           ArcCost(gtour, a, j) = Arc(0, gtour[j]) + Arc(gtour[j], 0)
      /\ a < j - 1 =>
           ArcCost(gtour, a, j) = ArcCost(gtour, a, j - 1) - Arc(gtour[j - 1], 0)
                                  + Arc(gtour[j - 1], gtour[j]) + Arc(gtour[j], 0)
  BY <1>1, CostAlongRow
<1>4. (i = j <=> a = j - 1) /\ (i # j => a < j - 1 /\ j > i)
  BY <1>1 DEF a
<1>5. NewDemand = Load(RouteOf(gtour, a, j))
  BY <1>1, <1>2 DEF NewDemand
<1>6. NewCost = ArcCost(gtour, a, j)
  BY <1>1, <1>3, <1>4 DEF NewCost
<1> QED
  BY <1>1, <1>3, <1>5, <1>6 DEF a

\* An arc that is relaxed.
LEMMA RelaxInv ==
  ASSUME IInv, Relax
  PROVE  IInv'
<1> DEFINE a == i - 1
<1>1. /\ TypeInv /\ RowInv /\ TableInv /\ pc = "relax" /\ pc' = pc /\ gtour' = gtour
      /\ i' = i /\ j' = j + 1 /\ i <= N /\ j <= N
      /\ route_demand' = NewDemand /\ route_cost' = NewCost /\ Feasible /\ sol' = sol
  BY DEF IInv, Relax
<1>2. /\ a \in 0 .. N /\ j \in 1 .. N /\ a < j /\ i <= j /\ i \in Int /\ j \in Int
      /\ j \in Customers /\ j \in Index /\ a \in Index
      /\ NewDemand = Load(RouteOf(gtour, a, j))
      /\ NewCost = ArcCost(gtour, a, j) /\ NewCost \in Nat
  BY <1>1, NextArc
<1>3. /\ N \in Nat /\ DOUBLE_MAX \in Nat /\ Customers \subseteq Index
      /\ sp_cost \in [Index -> 0 .. DOUBLE_MAX]
      /\ predecessor \in [Index -> Index \cup {SIZE_NONE}]
      /\ \A b \in Index : sp_cost[b] \in 0 .. DOUBLE_MAX
  BY <1>1, TourList, DOUBLE_MAXAssumption DEF TypeInv, Index, Customers
<1>4. Shorter => /\ sp_cost' = [sp_cost EXCEPT ![j] = sp_cost[a] + NewCost]
                 /\ predecessor' = [predecessor EXCEPT ![j] = a]
                 /\ sp_cost[a] + NewCost < sp_cost[j]
  BY DEF Relax, Shorter, From
<1>5. ~Shorter => /\ sp_cost' = sp_cost /\ predecessor' = predecessor
                  /\ ~(sp_cost[a] + NewCost < sp_cost[j])
  BY DEF Relax, Shorter, From
<1> DEFINE m == sp_cost[a] + NewCost
<1>6. m \in Nat /\ sp_cost[a] \in Nat /\ sp_cost[j] \in 0 .. DOUBLE_MAX
      /\ (m < sp_cost[j] => m \in 0 .. DOUBLE_MAX /\ sp_cost[a] # DOUBLE_MAX)
  BY <1>2, <1>3
<1> HIDE DEF a, m
<1>7. /\ \A b \in Index : b # j => /\ sp_cost'[b] = sp_cost[b]
                                   /\ predecessor'[b] = predecessor[b]
      /\ Shorter => sp_cost'[j] = m /\ predecessor'[j] = a
      /\ ~Shorter => sp_cost'[j] = sp_cost[j] /\ predecessor'[j] = predecessor[j]
      /\ Shorter <=> m < sp_cost[j]
  BY <1>2, <1>3, <1>4, <1>5 DEF m
<1>8. TypeInv'
  <2>1. sp_cost' \in [Index -> 0 .. DOUBLE_MAX]
    BY <1>2, <1>3, <1>4, <1>5, <1>6 DEF m
  <2>2. predecessor' \in [Index -> Index \cup {SIZE_NONE}]
    BY <1>2, <1>3, <1>4, <1>5
  <2> QED
    BY <1>1, <2>1, <2>2 DEF TypeInv
<1>9. RowInv'
  <2>1. i \in 1 .. N + 1 /\ j + 1 \in i .. N + 1 /\ (j + 1) - 1 = j
    BY <1>1, <1>2, <1>3 DEF RowInv
  <2> QED
    BY <1>1, <1>2, <2>1 DEF RowInv, a
<1>10. sp_cost'[j] <= sp_cost[j] /\ sp_cost'[j] <= m
       /\ \A b \in Index : sp_cost'[b] <= sp_cost[b] /\ sp_cost'[b] \in Nat
  <2>1. sp_cost'[j] <= sp_cost[j] /\ sp_cost'[j] <= m /\ sp_cost'[j] \in Nat
    BY <1>6, <1>7
  <2>2. \A b \in Index : b # j => sp_cost'[b] <= sp_cost[b] /\ sp_cost'[b] \in Nat
    BY <1>3, <1>7
  <2> QED
    BY <2>1, <2>2
<1>11. ASSUME NEW b \in Customers, sp_cost'[b] # DOUBLE_MAX PROVE Reached(b)'
  <2>1. CASE b = j /\ Shorter
    <3>1. predecessor'[b] = a /\ sp_cost'[b] = m /\ sp_cost'[a] = sp_cost[a]
          /\ sp_cost[a] # DOUBLE_MAX
      BY <1>2, <1>6, <1>7, <2>1
    <3>2. a \in 0 .. b - 1 /\ a < i
      BY <1>2, <2>1 DEF a
    <3>3. Fits(gtour, a, b)
      BY <1>1, <1>2, <2>1 DEF Feasible, Fits
    <3>4. m = sp_cost[a] + ArcCost(gtour, a, b)
      BY <1>2, <2>1 DEF m
    <3> QED
      BY <1>1, <3>1, <3>2, <3>3, <3>4 DEF Reached
  <2>2. CASE ~(b = j /\ Shorter)
    <3>1. sp_cost'[b] = sp_cost[b] /\ predecessor'[b] = predecessor[b]
      BY <1>3, <1>7, <2>2
    <3>2. Reached(b)
      BY <1>1, <1>11, <3>1 DEF TableInv
    <3> DEFINE c == predecessor[b]
    <3>3. /\ c \in 0 .. b - 1 /\ c < i
          /\ Fits(gtour, c, b) /\ sp_cost[c] # DOUBLE_MAX
          /\ sp_cost[b] = sp_cost[c] + ArcCost(gtour, c, b)
      BY <1>1, <3>2 DEF Reached
    <3> HIDE DEF c
    <3>4. c \in Index /\ c # j
      BY <1>2, <1>3, <3>3 DEF Index, Customers
    <3>5. sp_cost'[c] = sp_cost[c]
      BY <1>7, <3>4
    <3>6. predecessor'[b] = c
      BY <3>1 DEF c
    <3> QED
      BY <1>1, <3>1, <3>3, <3>5, <3>6 DEF Reached
  <2> QED
    BY <2>1, <2>2
<1>12. ASSUME NEW c \in Index, NEW b \in Customers, c < b,
              Behind(c, b)', Fits(gtour, c, b)'
       PROVE  Relaxed(c, b)'
  <2>1. c < i - 1 \/ (c = i - 1 /\ b < j + 1)
    BY <1>1, <1>12 DEF Behind
  <2>2. c # j /\ b \in Index /\ b \in Int /\ c \in Int
    BY <1>2, <1>3, <2>1 DEF Index, Customers
  <2>3. sp_cost'[c] = sp_cost[c]
    BY <1>7, <2>2
  <2>4. CASE c = a /\ b = j
    <3>1. sp_cost'[b] <= sp_cost'[c] + ArcCost(gtour, c, b)
      BY <1>2, <1>10, <2>3, <2>4 DEF m
    <3> QED
      BY <1>1, <3>1 DEF Relaxed
  <2>5. CASE ~(c = a /\ b = j)
    <3>1. Behind(c, b)
      BY <1>2, <2>1, <2>2, <2>5 DEF Behind, a
    <3>2. Fits(gtour, c, b)
      BY <1>1, <1>12 DEF Fits
    <3>3. sp_cost[b] <= sp_cost[c] + ArcCost(gtour, c, b)
      BY <1>1, <1>12, <3>1, <3>2 DEF TableInv, Relaxed
    <3>4. sp_cost'[b] <= sp_cost[b] /\ sp_cost'[b] \in Nat /\ sp_cost[b] \in Int
          /\ sp_cost[c] \in Int
      BY <1>3, <1>10, <2>2
    <3>5. ArcCost(gtour, c, b) \in Int
      <4>1. IsTour(gtour) /\ c \in 0 .. N /\ b \in 1 .. N
        BY <1>1, TourList DEF TypeInv, Index, Customers
      <4> QED
        BY <1>12, <4>1, CostAlongRow
    <3>6. sp_cost'[b] <= sp_cost'[c] + ArcCost(gtour, c, b)
      BY <2>3, <3>3, <3>4, <3>5
    <3> QED
      BY <1>1, <3>6 DEF Relaxed
  <2> QED
    BY <2>4, <2>5
<1>13. TableInv'
  <2>1. 0 \in Index /\ 0 # j
    BY <1>2, <1>3 DEF Index
  <2>2. sp_cost'[0] = 0 /\ predecessor'[0] = SIZE_NONE
    BY <1>1, <1>7, <2>1 DEF TableInv
  <2> QED
    BY <2>2, <1>11, <1>12 DEF TableInv
<1> QED
  BY <1>1, <1>8, <1>9, <1>13 DEF IInv, WalkInv

\* The end of a row: the arcs that are skipped stand for routes too heavy.
LEMMA EndRowInv ==
  ASSUME IInv, EndRow
  PROVE  IInv'
<1>1. /\ TypeInv /\ RowInv /\ TableInv /\ pc = "relax" /\ pc' = pc /\ gtour' = gtour
      /\ i' = i + 1 /\ j' = i + 1 /\ i <= N /\ (j <= N => ~Feasible)
      /\ route_demand' = 0 /\ sp_cost' = sp_cost /\ predecessor' = predecessor
      /\ sol' = sol
  BY DEF IInv, EndRow
<1>2. N \in Nat /\ IsTour(gtour) /\ i \in 1 .. N /\ j \in i .. N + 1 /\ i \in Int /\ j \in Int
  BY <1>1, TourList DEF TypeInv, RowInv
<1>3. TypeInv'
  BY <1>1 DEF TypeInv
<1>4. RowInv'
  <2>1. i \in 0 .. N /\ (i + 1) - 1 = i /\ i + 1 \in 1 .. N + 1 /\ i + 1 \in i + 1 .. N + 1
        /\ ~(i + 1 > i + 1)
    BY <1>2
  <2>2. Load(RouteOf(gtour, i, i)) = 0
    BY <1>2, <2>1, LoadAlongRow
  <2> QED
    BY <1>1, <2>1, <2>2 DEF RowInv
<1>5. ASSUME NEW a \in Index, NEW b \in Customers, a < b,
             Behind(a, b)', Fits(gtour, a, b)
      PROVE  Behind(a, b)
  <2>1. a < i \/ (a = i /\ b < i + 1)
    BY <1>1, <1>2, <1>5 DEF Behind
  <2>2. a \in 0 .. N /\ b \in 1 .. N /\ a \in Int /\ b \in Int
    BY <1>2 DEF Index, Customers
  <2>3. a <= i - 1
    BY <1>2, <1>5, <2>1, <2>2
  <2>4. CASE a = i - 1 /\ b >= j
    <3>1. j <= N /\ j \in a .. N /\ b \in j .. N
      BY <1>2, <2>2, <2>4
    <3>2. Load(RouteOf(gtour, a, j)) <= Load(RouteOf(gtour, a, b))
      BY <1>2, <2>2, <3>1, HeavierAlongRow
    <3>3. ~(Load(RouteOf(gtour, a, j)) <= Capacity)
      BY <1>1, <1>2, <2>4, <3>1, NextArc DEF Feasible
    <3>4. Load(RouteOf(gtour, a, j)) \in Nat /\ Load(RouteOf(gtour, a, b)) \in Nat
      <4>1. b \in a .. N
        BY <1>2, <2>2, <3>1
      <4> QED
        BY <1>2, <2>2, <3>1, <4>1, LoadAlongRow
    <3>5. ~Fits(gtour, a, b)
      BY <3>2, <3>3, <3>4, CapacityAssumption DEF Fits
    <3> QED
      BY <1>5, <3>5
  <2>5. CASE ~(a = i - 1 /\ b >= j)
    BY <1>2, <2>2, <2>3, <2>5 DEF Behind
  <2> QED
    BY <2>4, <2>5
<1>6. TableInv'
  <2>1. ASSUME NEW b \in Customers, sp_cost[b] # DOUBLE_MAX PROVE Reached(b)'
    <3>1. Reached(b)
      BY <1>1, <2>1 DEF TableInv
    <3>2. predecessor[b] < i /\ predecessor[b] \in Int
      <4>1. b \in Nat
        BY <1>2 DEF Customers
      <4> QED
        BY <1>1, <3>1, <4>1 DEF Reached
    <3>3. predecessor[b] < i + 1
      BY <1>2, <3>2
    <3> QED
      BY <1>1, <3>1, <3>3 DEF Reached
  <2>2. ASSUME NEW a \in Index, NEW b \in Customers, a < b,
               Behind(a, b)', Fits(gtour, a, b)'
        PROVE  Relaxed(a, b)'
    <3>1. Fits(gtour, a, b)
      BY <1>1, <2>2 DEF Fits
    <3>2. Relaxed(a, b)
      BY <1>1, <1>5, <2>2, <3>1 DEF TableInv
    <3> QED
      BY <1>1, <3>2 DEF Relaxed
  <2> QED
    BY <1>1, <2>1, <2>2 DEF TableInv
<1> QED
  BY <1>1, <1>3, <1>4, <1>6 DEF IInv, WalkInv

\* The table outlives the loops: all arcs are behind them.
LEMMA TableKept ==
  ASSUME TypeInv, TableInv,
         \A a \in Index, b \in Customers : a < b => Behind(a, b),
         pc' # "relax", gtour' = gtour, sp_cost' = sp_cost, predecessor' = predecessor
  PROVE  TableInv'
<1>1. ASSUME NEW b \in Customers, sp_cost[b] # DOUBLE_MAX PROVE Reached(b)'
  BY <1>1 DEF TableInv, Reached
<1>2. ASSUME NEW a \in Index, NEW b \in Customers, a < b, Fits(gtour, a, b)'
      PROVE  Relaxed(a, b)'
  <2>1. Fits(gtour, a, b)
    BY <1>2 DEF Fits
  <2>2. Relaxed(a, b)
    BY <1>2, <2>1 DEF TableInv
  <2> QED
    BY <2>2 DEF Relaxed
<1> QED
  BY <1>1, <1>2 DEF TableInv

\* The walk begins at the last node, with no route.
LEMMA StartWalkInv ==
  ASSUME IInv, StartWalk
  PROVE  IInv'
<1>1. /\ TypeInv /\ RowInv /\ TableInv /\ pc = "relax" /\ pc' = "walk" /\ gtour' = gtour
      /\ j' = N /\ i' = predecessor[N] /\ i > N /\ sol' = sol
      /\ sp_cost' = sp_cost /\ predecessor' = predecessor
  BY DEF IInv, StartWalk
<1>2. N \in Nat /\ N >= 1 /\ IsTour(gtour) /\ i = N + 1 /\ N \in Index
  BY <1>1, TourList DEF TypeInv, RowInv, Index
<1>3. ASSUME NEW a \in Index, NEW b \in Customers, a < b PROVE Behind(a, b)
  BY <1>2, <1>3 DEF Behind, Index, Customers
<1>4. TypeInv' /\ TableInv' /\ RowInv'
  BY <1>1, <1>3, TableKept DEF TypeInv, RowInv
<1>5. ASSUME DemandsFit PROVE sp_cost[N] # DOUBLE_MAX
  BY <1>1, <1>3, <1>5, LastReached
<1> DEFINE p == <<N>>
<1>6. p \in Seq(Index) /\ Len(p) = 1 /\ p[1] = N /\ p \in [1 .. 1 -> Index]
  BY <1>2
<1>7. RoutesOf(gtour, p) = <<>>
  BY DEF RoutesOf
<1> HIDE DEF p
<1>8. IsPath(p, N, N) /\ AllFit(gtour, p) /\ p \in SeqOf(Index, N + 1)
  <2>1. 1 \in 0 .. N + 1 /\ N - N + 1 = 1
    BY <1>2
  <2> QED
    BY <1>6, <2>1 DEF IsPath, AllFit, SeqOf
<1>9. TotalCost(<<>>) = 0 /\ sp_cost[N] \in Nat
  BY <1>1, <1>2, NoRoute, DOUBLE_MAXAssumption DEF TypeInv
<1>10. WalkInv'
  <2>4. sol = <<>>
    BY <1>1 DEF RowInv
  <2> SUFFICES ASSUME DemandsFit
               PROVE  /\ j' \in Index /\ i' = predecessor'[j'] /\ sp_cost'[j'] # DOUBLE_MAX
                      /\ \E q \in SeqOf(Index, N + 1) :
                           IsPath(q, j', N) /\ AllFit(gtour', q) /\ sol' = RoutesOf(gtour', q)
                      /\ TotalCost(sol') + sp_cost'[j'] = sp_cost'[N]
                      /\ pc' # "walk" => i' = SIZE_NONE
                      /\ pc' = "done" => total_distance' = sp_cost'[N]
    BY DEF WalkInv
  <2>1. /\ j' \in Index /\ i' = predecessor'[j'] /\ sp_cost'[j'] # DOUBLE_MAX
    BY <1>1, <1>2, <1>5
  <2>2. TotalCost(sol') + sp_cost'[j'] = sp_cost'[N]
    BY <1>1, <1>9, <2>4
  <2>3. IsPath(p, j', N) /\ AllFit(gtour', p) /\ sol' = RoutesOf(gtour', p)
    BY <1>1, <1>7, <1>8, <2>4
  <2> QED
    BY <1>1, <1>8, <2>1, <2>2, <2>3
<1> QED
  BY <1>4, <1>10 DEF IInv

\* One route of the solution: the path is continued towards the depot.
LEMMA AddRouteInv ==
  ASSUME IInv, AddRoute
  PROVE  IInv'
<1>1. /\ TypeInv /\ TableInv /\ WalkInv /\ pc = "walk" /\ pc' = pc /\ gtour' = gtour
      /\ i # SIZE_NONE /\ j' = i /\ i' = predecessor[i] /\ sol' = <<NewRoute>> \o sol
      /\ sp_cost' = sp_cost /\ predecessor' = predecessor
  BY DEF IInv, AddRoute
<1>2. N \in Nat /\ N \in Index /\ IsTour(gtour)
  BY <1>1, TourList DEF TypeInv, Index
<1>3. TypeInv' /\ TableInv' /\ RowInv'
  <2>1. \A a \in Index, b \in Customers : a < b => Behind(a, b)
    BY <1>1 DEF Behind
  <2> QED
    BY <1>1, <2>1, TableKept DEF TypeInv, RowInv
<1>4. WalkInv'
  <2> SUFFICES ASSUME DemandsFit
               PROVE  /\ j' \in Index /\ i' = predecessor'[j'] /\ sp_cost'[j'] # DOUBLE_MAX
                      /\ \E q \in SeqOf(Index, N + 1) :
                           IsPath(q, j', N) /\ AllFit(gtour', q) /\ sol' = RoutesOf(gtour', q)
                      /\ TotalCost(sol') + sp_cost'[j'] = sp_cost'[N]
                      /\ pc' # "walk" => i' = SIZE_NONE
                      /\ pc' = "done" => total_distance' = sp_cost'[N]
    BY DEF WalkInv
  <2>1. /\ j \in Index /\ i = predecessor[j] /\ TotalCost(sol) + sp_cost[j] = sp_cost[N]
    BY <1>1 DEF WalkInv
  <2>2. PICK p \in SeqOf(Index, N + 1) :
          IsPath(p, j, N) /\ AllFit(gtour, p) /\ sol = RoutesOf(gtour, p)
    BY <1>1 DEF WalkInv
  <2>3. j \in Customers /\ Reached(j)
    <3>1. j # 0
      BY <1>1, WalkEnds
    <3>2. j \in Customers
      BY <1>2, <2>1, <3>1 DEF Index, Customers
    <3> QED
      BY <1>1, <3>2, WalkEnds
  <2>4. /\ i \in 0 .. j - 1 /\ Fits(gtour, i, j) /\ sp_cost[i] # DOUBLE_MAX
        /\ sp_cost[j] = sp_cost[i] + ArcCost(gtour, i, j)
    BY <2>1, <2>3 DEF Reached
  <2>5. i \in Index /\ i < j /\ i \in 0 .. N /\ j \in 1 .. N
    BY <1>2, <2>3, <2>4 DEF Index, Customers
  <2> DEFINE q == <<i>> \o p
             s == <<RouteOf(gtour, i, j)>> \o RoutesOf(gtour, p)
  <2>6. IsPath(q, i, N) /\ IsLonger(gtour, q, p, s, ArcCost(gtour, i, j))
    BY <1>2, <2>2, <2>3, <2>4, <2>5, PrependPath
  <2>7. sol' = s
    BY <1>1, <2>2 DEF NewRoute, RouteOf
  <2> HIDE DEF q, s
  <2>8. q \in SeqOf(Index, N + 1)
    <3>1. q \in Seq(Index) /\ Len(q) \in 1 .. N - i + 1
      BY <2>6 DEF IsPath
    <3>2. Len(q) \in 0 .. N + 1
      BY <1>2, <2>5, <3>1
    <3>3. q \in [1 .. Len(q) -> Index]
      BY <3>1
    <3> QED
      BY <3>2, <3>3 DEF SeqOf
  <2>9. AllFit(gtour, q) /\ sol' = RoutesOf(gtour, q)
        /\ TotalCost(sol') = TotalCost(sol) + ArcCost(gtour, i, j) /\ TotalCost(sol) \in Nat
    BY <2>2, <2>6, <2>7 DEF IsLonger
  <2>10. ArcCost(gtour, i, j) \in Nat /\ sp_cost[i] \in Nat /\ sp_cost[j] \in Nat
    BY <1>1, <1>2, <2>1, <2>5, CostAlongRow, DOUBLE_MAXAssumption DEF TypeInv
  <2>11. TotalCost(sol') + sp_cost[i] = sp_cost[N]
    BY <2>1, <2>4, <2>9, <2>10
  <2> QED
    BY <1>1, <2>4, <2>5, <2>6, <2>8, <2>9, <2>11
<1> QED
  BY <1>3, <1>4 DEF IInv

\* The end of the walk, with the cost of the table for the solution.
LEMMA FinishInv ==
  ASSUME IInv, Finish
  PROVE  IInv'
<1>1. /\ TypeInv /\ TableInv /\ WalkInv /\ pc = "walk" /\ pc' \in {"done", "aborted"}
      /\ i = SIZE_NONE /\ j' = j /\ i' = i /\ sol' = sol /\ gtour' = gtour
      /\ sp_cost' = sp_cost /\ predecessor' = predecessor
      /\ pc' = "done" => total_distance' = sp_cost[N]
  BY DEF IInv, Finish
<1>2. TypeInv' /\ TableInv' /\ RowInv'
  <2>1. \A a \in Index, b \in Customers : a < b => Behind(a, b)
    BY <1>1 DEF Behind
  <2> QED
    BY <1>1, <2>1, TableKept DEF TypeInv, RowInv
<1>3. WalkInv'
  BY <1>1 DEF WalkInv
<1> QED
  BY <1>2, <1>3 DEF IInv

\* A step that changes nothing.
LEMMA StutterInv ==
  ASSUME IInv, UNCHANGED vars
  PROVE  IInv'
<1>1. /\ gtour' = gtour /\ pc' = pc /\ i' = i /\ j' = j /\ route_demand' = route_demand
      /\ route_cost' = route_cost /\ sp_cost' = sp_cost /\ predecessor' = predecessor
      /\ sol' = sol /\ total_distance' = total_distance
  BY DEF vars
<1>2. TypeInv' /\ RowInv' /\ WalkInv'
  BY <1>1 DEF IInv, TypeInv, RowInv, WalkInv
<1>3. TableInv'
  BY <1>1 DEF IInv, TableInv, Reached, Relaxed, Behind, Fits
<1> QED
  BY <1>2, <1>3 DEF IInv

\* The invariant holds in every state of the split.
THEOREM Invariance == Spec => []IInv
<1>1. IInv /\ [Next]_vars => IInv'
  BY RelaxInv, EndRowInv, StartWalkInv, AddRouteInv, FinishInv, StutterInv DEF Next
<1> QED
  BY InitInv, <1>1, PTL DEF Spec

\* At every moment each cost of the table is that of a plan for the customers
\* up to there, and where a row is begun it is that of the best one.
THEOREM RowsAreSettled == Spec => []RowsSettled
BY Invariance, InvRowsSettled, PTL

\* cvrp_split returns the best of all solutions that serve the giant tour in
\* its order with routes that fit the vehicle, and its cost.
THEOREM Optimality == Spec => []SplitOptimal
BY Invariance, InvSplitOptimal, PTL
=============================================================================
