----------------------------- MODULE RouteFacts -----------------------------
(***************************************************************************)
(* Facts about the operations of Route: for each of them, that the delta   *)
(* the code computes in advance is the change of the total distance, and   *)
(* what it does to the weight of the routes, that is to a sum over their   *)
(* nodes: the demand of a route, or how often it comes to a node.          *)
(* Distances need not be symmetric nor obey the triangle inequality.       *)
(***************************************************************************)
EXTENDS Route, SequenceFacts

\* The distances of a matrix are natural numbers.
LEMMA ArcNat == \A a, b \in Nodes : Arc(a, b) \in Nat
BY DistAssumption DEF Arc

\* The arcs that lead to the nodes of a route; none leads to the first.
Legs(r) == [k \in DOMAIN r |-> If(k > 1, Arc(r[k - 1], r[k]))]

\* The legs of a route are a list of distances.
LEMMA LegsType ==
  ASSUME NEW r \in Seq(Nodes)
  PROVE  /\ Legs(r) \in Seq(Nat) /\ Legs(r) \in Seq(Int)
         /\ Len(Legs(r)) = Len(r) /\ Len(r) \in Nat
         /\ r # <<>> => Legs(r)[1] = 0
         /\ \A k \in 2 .. Len(r) : Legs(r)[k] = Arc(r[k - 1], r[k])
         /\ TotalDistance(r) = SumOf(Legs(r)) /\ TotalDistance(r) \in Nat
<1> DEFINE n == Len(r)
<1>1. n \in Nat /\ DOMAIN r = 1 .. n /\ \A k \in 1 .. n : r[k] \in Nodes
  OBVIOUS
<1> HIDE DEF n
<1>2. Legs(r) = [k \in 1 .. n |-> If(k > 1, Arc(r[k - 1], r[k]))]
  BY <1>1 DEF Legs
<1>3. ASSUME NEW k \in 1 .. n PROVE If(k > 1, Arc(r[k - 1], r[k])) \in Nat
  <2>1. k > 1 => k - 1 \in 1 .. n
    BY <1>1
  <2> QED
    BY <1>1, <2>1, ArcNat DEF If
<1>4. Legs(r) \in [1 .. n -> Nat]
  BY <1>2, <1>3
<1>5. /\ Legs(r) \in Seq(Nat) /\ Legs(r) \in Seq(Int) /\ Len(Legs(r)) = n
  BY <1>1, <1>4
<1>6. r # <<>> => Legs(r)[1] = 0
  <2>1. r # <<>> => 1 \in 1 .. n
    BY <1>1 DEF n
  <2> QED
    BY <1>2, <2>1 DEF If
<1>7. \A k \in 2 .. n : Legs(r)[k] = Arc(r[k - 1], r[k])
  <2>1. \A k \in 2 .. n : k \in 1 .. n /\ k > 1
    BY <1>1
  <2> QED
    BY <1>2, <2>1 DEF If
<1>8. TotalDistance(r) = SumOf(Legs(r))
  BY DEF TotalDistance, Legs
<1>9. TotalDistance(r) \in Nat
  BY <1>5, <1>8, SumOfNat
<1> QED
  BY <1>1, <1>5, <1>6, <1>7, <1>8, <1>9 DEF n

\* The arc that joins two parts of a route.
Link(a, b) == If(a # <<>> /\ b # <<>>, Arc(a[Len(a)], b[1]))

\* The distance of a route is that of its parts and of the arc that joins them.
LEMMA PathConcat ==
  ASSUME NEW a \in Seq(Nodes), NEW b \in Seq(Nodes)
  PROVE  /\ TotalDistance(a \o b) = TotalDistance(a) + Link(a, b) + TotalDistance(b)
         /\ Link(a, b) \in Nat
<1>1. TotalDistance(a) \in Nat /\ TotalDistance(b) \in Nat
      /\ Legs(a) \in Seq(Int) /\ Legs(b) \in Seq(Int)
      /\ Len(Legs(a)) = Len(a) /\ Len(Legs(b)) = Len(b)
      /\ TotalDistance(a) = SumOf(Legs(a)) /\ TotalDistance(b) = SumOf(Legs(b))
  BY LegsType
<1>2. TotalDistance(<<>>) = 0
  <2>1. <<>> \in Seq(Nodes) /\ <<>> \in Seq(Int) /\ Len(<<>>) = 0
    OBVIOUS
  <2>2. Legs(<<>>) \in Seq(Int) /\ Len(Legs(<<>>)) = 0
        /\ TotalDistance(<<>>) = SumOf(Legs(<<>>))
    BY <2>1, LegsType
  <2>3. SumsOf(Legs(<<>>))[0] = 0
    BY <2>2, SumsOfStep
  <2> QED
    BY <2>2, <2>3, SumOfLast
<1>3. CASE a = <<>>
  <2>1. a \o b = b /\ Link(a, b) = 0
    BY <1>3 DEF Link, If
  <2> QED
    BY <1>1, <1>2, <1>3, <2>1
<1>4. CASE b = <<>>
  <2>1. a \o b = a /\ Link(a, b) = 0
    BY <1>4 DEF Link, If
  <2> QED
    BY <1>1, <1>2, <1>4, <2>1
<1>5. CASE a # <<>> /\ b # <<>>
  <2> DEFINE m == Len(a)
             n == Len(b)
             r == a \o b
             x == Arc(a[m], b[1])
             t == Replaced(Legs(b), 1, x)
  <2>1. m \in Nat /\ n \in Nat /\ m \in 1 .. m /\ 1 \in 1 .. n
        /\ a[m] \in Nodes /\ b[1] \in Nodes
    BY <1>5
  <2>2. x \in Nat /\ x \in Int /\ Link(a, b) = x
    <3>1. x \in Nat
      BY <2>1, ArcNat
    <3>2. Link(a, b) = x
      BY <1>5 DEF Link, If
    <3> QED
      BY <3>1, <3>2
  <2>3. r \in Seq(Nodes) /\ Len(r) = m + n
        /\ (\A k \in 1 .. m : r[k] = a[k])
        /\ (\A k \in 1 .. n : r[m + k] = b[k])
    BY ConcatElements
  <2>4. /\ Legs(r) \in Seq(Int) /\ Len(Legs(r)) = m + n
        /\ Legs(r)[1] = 0
        /\ \A k \in 2 .. m + n : Legs(r)[k] = Arc(r[k - 1], r[k])
        /\ TotalDistance(r) = SumOf(Legs(r))
    <3>1. r # <<>>
      BY <2>1, <2>3
    <3> QED
      BY <2>3, <3>1, LegsType
  <2>5. /\ Legs(a)[1] = 0 /\ Legs(b)[1] = 0
        /\ (\A k \in 2 .. m : Legs(a)[k] = Arc(a[k - 1], a[k]))
        /\ (\A k \in 2 .. n : Legs(b)[k] = Arc(b[k - 1], b[k]))
    BY <1>5, LegsType
  <2>6. t \in Seq(Int) /\ Len(t) = n /\ t[1] = x
        /\ \A k \in 2 .. n : t[k] = Legs(b)[k]
    BY <1>1, <2>1, <2>2 DEF Replaced
  <2>7. Legs(a) \o t \in Seq(Int) /\ Len(Legs(a) \o t) = m + n
        /\ (\A k \in 1 .. m : (Legs(a) \o t)[k] = Legs(a)[k])
        /\ (\A k \in 1 .. n : (Legs(a) \o t)[m + k] = t[k])
    <3> DEFINE l == Legs(a)
    <3>1. l \in Seq(Int) /\ t \in Seq(Int) /\ Len(l) = m /\ Len(t) = n
      BY <1>1, <2>6
    <3>0. l \in Seq(Int) /\ t \in Seq(Int)
      BY <3>1
    <3> HIDE DEF t, l
    <3>2. l \o t \in Seq(Int) /\ Len(l \o t) = Len(l) + Len(t)
          /\ (\A k \in 1 .. Len(l) : (l \o t)[k] = l[k])
          /\ (\A k \in 1 .. Len(t) : (l \o t)[Len(l) + k] = t[k])
      BY ONLY <3>0, ConcatElements
    <3> HIDE DEF m, n
    <3>3. l \o t \in Seq(Int) /\ Len(l \o t) = m + n
          /\ (\A k \in 1 .. m : (l \o t)[k] = l[k])
          /\ (\A k \in 1 .. n : (l \o t)[m + k] = t[k])
      BY <3>1, <3>2
    <3> QED
      BY <3>3 DEF l
  <2>8. \A k \in 1 .. m + n : Legs(r)[k] = (Legs(a) \o t)[k]
    <3> SUFFICES ASSUME NEW k \in 1 .. m + n
                 PROVE  Legs(r)[k] = (Legs(a) \o t)[k]
      OBVIOUS
    <3>1. CASE k = 1
      <4>1. 1 \in 1 .. m
        BY <2>1
      <4> QED
        BY <2>4, <2>5, <2>7, <3>1, <4>1
    <3>2. CASE k \in 2 .. m
      <4>1. k \in 1 .. m /\ k - 1 \in 1 .. m /\ k \in 2 .. m + n
        BY <2>1, <3>2
      <4>2. Legs(r)[k] = Arc(r[k - 1], r[k])
        BY <2>4, <4>1
      <4>3. r[k - 1] = a[k - 1] /\ r[k] = a[k]
        BY <2>3, <4>1
      <4>4. (Legs(a) \o t)[k] = Arc(a[k - 1], a[k])
        BY <2>5, <2>7, <3>2, <4>1
      <4> QED
        BY <4>2, <4>3, <4>4
    <3>3. CASE k = m + 1
      <4>1. k - 1 = m /\ m \in 1 .. m /\ 1 \in 1 .. n /\ k \in 2 .. m + n
        BY <2>1, <3>3
      <4>2. Legs(r)[k] = Arc(r[k - 1], r[k])
        BY <2>4, <4>1
      <4>3. r[k - 1] = a[m] /\ r[m + 1] = b[1]
        BY <2>3, <4>1
      <4>4. (Legs(a) \o t)[m + 1] = x
        BY <2>6, <2>7, <4>1
      <4> QED
        BY <3>3, <4>2, <4>3, <4>4
    <3>4. CASE k \in m + 2 .. m + n
      <4> DEFINE l == k - m
      <4>1. l \in 2 .. n /\ l \in 1 .. n /\ l - 1 \in 1 .. n /\ k = m + l
            /\ k - 1 = m + (l - 1) /\ k \in 2 .. m + n
        BY <2>1, <3>4
      <4> HIDE DEF l
      <4>2. Legs(r)[k] = Arc(r[k - 1], r[k])
        BY <2>4, <4>1
      <4>3. r[k - 1] = b[l - 1] /\ r[k] = b[l]
        BY <2>3, <4>1
      <4>4. (Legs(a) \o t)[m + l] = t[l] /\ t[l] = Legs(b)[l]
        BY <2>6, <2>7, <4>1
      <4>5. Legs(b)[l] = Arc(b[l - 1], b[l])
        BY <2>5, <4>1
      <4> QED
        BY <4>1, <4>2, <4>3, <4>4, <4>5
    <3>5. k = 1 \/ k \in 2 .. m \/ k = m + 1 \/ k \in m + 2 .. m + n
      BY <2>1
    <3> QED
      BY <3>1, <3>2, <3>3, <3>4, <3>5
  <2>9. Legs(r) = Legs(a) \o t
    <3> HIDE DEF r, t
    <3>1. Len(Legs(r)) = Len(Legs(a) \o t)
      BY <2>4, <2>7
    <3>2. \A k \in 1 .. Len(Legs(r)) : Legs(r)[k] = (Legs(a) \o t)[k]
      BY <2>4, <2>8
    <3> QED
      BY <2>4, <2>7, <3>1, <3>2, SeqEqual
  <2>10. SumOf(t) = SumOf(Legs(b)) + x
    <3>1. 1 \in 1 .. Len(Legs(b))
      BY <1>1, <2>1
    <3>2. SumOf(t) = SumOf(Legs(b)) - Legs(b)[1] + x
      BY <1>1, <2>2, <3>1, SumOfReplaced
    <3> QED
      BY <1>1, <2>2, <2>5, <3>2
  <2>11. SumOf(Legs(r)) = SumOf(Legs(a)) + SumOf(t)
    <3> HIDE DEF t, r
    <3> QED
      BY <1>1, <2>6, <2>9, SumOfConcat
  <2> QED
    BY <1>1, <2>2, <2>4, <2>10, <2>11
<1> QED
  BY <1>1, <1>3, <1>4, <1>5, <1>2, ArcNat DEF Link, If

-----------------------------------------------------------------------------
(***************************************************************************)
(* One node of a route: removed, inserted, or replaced                     *)
(***************************************************************************)

\* The distance of what precedes and of what follows a position.
Sides(r, p) ==
  TotalDistance(SubSeq(r, 1, p - 1)) + TotalDistance(SubSeq(r, p + 1, Len(r)))

\* The distance of a route around one of its positions, for any node there and
\* for none.
LEMMA PathAround ==
  ASSUME NEW r \in Seq(Nodes), NEW p \in 1 .. Len(r), NEW x \in Nodes
  PROVE  /\ Sides(r, p) \in Nat
         /\ TotalDistance(Replaced(r, p, x))
              = Sides(r, p) + If(p > 1, Arc(r[p - 1], x))
                            + If(p < Len(r), Arc(x, r[p + 1]))
         /\ TotalDistance(RemoveAt(r, p))
              = Sides(r, p) + If(p > 1 /\ p < Len(r), Arc(r[p - 1], r[p + 1]))
<1> DEFINE a == SubSeq(r, 1, p - 1)
           b == SubSeq(r, p + 1, Len(r))
           n == Len(r)
           A == TotalDistance(a)
           B == TotalDistance(b)
<1>1. SplitsAround(Nodes, r, p, x)
  BY SplitList
<1>2. /\ a \in Seq(Nodes) /\ Len(a) = p - 1 /\ (p > 1 => a[p - 1] = r[p - 1])
      /\ b \in Seq(Nodes) /\ Len(b) = n - p /\ (p < n => b[1] = r[p + 1])
      /\ Replaced(r, p, x) = (a \o <<x>>) \o b
      /\ RemoveAt(r, p) = a \o b
  BY <1>1 DEF SplitsAround
<1>3. n \in Nat /\ p \in 1 .. n
  OBVIOUS
<1>4. Sides(r, p) = A + B
  BY DEF Sides
<1> HIDE DEF a, b, n
<1>5. A \in Nat /\ B \in Nat
  BY <1>2, LegsType
<1> DEFINE c == a \o <<x>>
<1>6. /\ <<x>> \in Seq(Nodes) /\ Len(<<x>>) = 1 /\ <<x>>[1] = x /\ <<x>> # <<>>
  OBVIOUS
<1>7. /\ c \in Seq(Nodes) /\ Len(c) = p /\ c[p] = x /\ c # <<>>
  <2>1. /\ c \in Seq(Nodes) /\ Len(c) = (p - 1) + 1 /\ c[(p - 1) + 1] = x
    BY <1>2, <1>3
  <2> QED
    BY <1>3, <2>1
<1>8. TotalDistance(<<x>>) = 0
  <2>1. Legs(<<x>>) \in Seq(Int) /\ Len(Legs(<<x>>)) = 1 /\ Legs(<<x>>)[1] = 0
        /\ TotalDistance(<<x>>) = SumOf(Legs(<<x>>))
    BY <1>6, LegsType
  <2> QED
    BY <2>1, SumOfOne
<1>9. (a # <<>> <=> p > 1) /\ (b # <<>> <=> p < n)
  BY <1>2, <1>3
<1>10. Link(a, <<x>>) = If(p > 1, Arc(r[p - 1], x))
  BY <1>2, <1>6, <1>9 DEF Link, If
<1>11. Link(c, b) = If(p < n, Arc(x, r[p + 1]))
  <2> HIDE DEF c
  <2> QED
    BY <1>2, <1>7, <1>9 DEF Link, If
<1>12. Link(a, b) = If(p > 1 /\ p < n, Arc(r[p - 1], r[p + 1]))
  BY <1>2, <1>9 DEF Link, If
<1>13. TotalDistance(c) = A + Link(a, <<x>>) /\ Link(a, <<x>>) \in Nat
  <2>1. TotalDistance(c) = A + Link(a, <<x>>) + TotalDistance(<<x>>)
        /\ Link(a, <<x>>) \in Nat
    BY <1>2, <1>6, PathConcat
  <2> QED
    BY <1>5, <1>8, <2>1
<1>14. TotalDistance(c \o b) = TotalDistance(c) + Link(c, b) + B
       /\ Link(c, b) \in Nat
  <2> HIDE DEF c
  <2> QED
    BY <1>2, <1>7, PathConcat
<1>15. TotalDistance(a \o b) = A + Link(a, b) + B /\ Link(a, b) \in Nat
  BY <1>2, PathConcat
<1>16. TotalDistance(c \o b) = (A + B) + Link(a, <<x>>) + Link(c, b)
       /\ TotalDistance(a \o b) = (A + B) + Link(a, b)
  <2> HIDE DEF A, B, c
  <2> QED
    BY <1>5, <1>13, <1>14, <1>15
<1>17. A + B \in Nat
  BY <1>5
<1> QED
  BY <1>2, <1>4, <1>10, <1>11, <1>12, <1>16, <1>17 DEF n

\* A node as such a replacement.
LEMMA ReplacedBySelf ==
  ASSUME NEW S, NEW r \in Seq(S), NEW p \in 1 .. Len(r)
  PROVE  Replaced(r, p, r[p]) = r /\ r[p] \in S
BY DEF Replaced

\* route_remove_node_delta_distance is the change of the distance of the route
\* by listu_remove_at.
LEMMA RemoveNodeExact ==
  ASSUME NEW r \in Seq(Nodes), NEW idx \in Indices(r)
  PROVE  TotalDistance(RemoveNode(r, idx)) = TotalDistance(r) + RemoveNodeDelta(r, idx)
<1> DEFINE p == idx + 1
           n == Len(r)
           x == r[p]
<1>1. /\ n \in Nat /\ idx \in Int /\ p \in 1 .. n /\ p - 1 = idx
      /\ (idx > 0 <=> p > 1) /\ (idx < LastIdx(r) <=> p < n)
  BY DEF Indices, LastIdx
<1>2. /\ At(r, idx) = x /\ At(r, idx - 1) = r[p - 1] /\ At(r, idx + 1) = r[p + 1]
  BY <1>1 DEF At
<1>3. x \in Nodes /\ Replaced(r, p, x) = r
  BY <1>1, ReplacedBySelf
<1>4. /\ p > 1 => r[p - 1] \in Nodes
      /\ p < n => r[p + 1] \in Nodes
  BY <1>1
<1> HIDE DEF p, x
<1>5. /\ Sides(r, p) \in Nat
      /\ TotalDistance(Replaced(r, p, x))
           = Sides(r, p) + If(p > 1, Arc(r[p - 1], x))
                         + If(p < n, Arc(x, r[p + 1]))
      /\ TotalDistance(RemoveAt(r, p))
           = Sides(r, p) + If(p > 1 /\ p < n, Arc(r[p - 1], r[p + 1]))
  BY <1>1, <1>3, PathAround
<1>6. RemoveNodeDelta(r, idx)
        = If(p > 1 /\ p < n, Arc(r[p - 1], r[p + 1]))
          - If(p > 1, Arc(r[p - 1], x)) - If(p < n, Arc(x, r[p + 1]))
  BY <1>1, <1>2 DEF RemoveNodeDelta, If
<1>7. /\ If(p > 1 /\ p < n, Arc(r[p - 1], r[p + 1])) \in Nat
      /\ If(p > 1, Arc(r[p - 1], x)) \in Nat
      /\ If(p < n, Arc(x, r[p + 1])) \in Nat
  BY <1>3, <1>4, ArcNat DEF If
<1>8. RemoveNode(r, idx) = RemoveAt(r, p)
  BY DEF RemoveNode, p
<1> QED
  BY <1>3, <1>5, <1>6, <1>7, <1>8

\* Replacing a node changes the distance of a route by the delta that
\* route_exchange_nodes_delta_distance has for each of its two routes.
LEMMA ReplaceNodeExact ==
  ASSUME NEW r \in Seq(Nodes), NEW idx \in Indices(r), NEW new \in Nodes
  PROVE  TotalDistance(Replaced(r, idx + 1, new))
           = TotalDistance(r) + ReplaceNodeDelta(r, idx, new)
<1> DEFINE p == idx + 1
           n == Len(r)
           x == r[p]
<1>1. /\ n \in Nat /\ idx \in Int /\ p \in 1 .. n /\ p - 1 = idx
      /\ (idx > 0 <=> p > 1) /\ (idx < LastIdx(r) <=> p < n)
  BY DEF Indices, LastIdx
<1>2. /\ At(r, idx) = x /\ At(r, idx - 1) = r[p - 1] /\ At(r, idx + 1) = r[p + 1]
  BY <1>1 DEF At
<1>3. x \in Nodes /\ Replaced(r, p, x) = r
  BY <1>1, ReplacedBySelf
<1>4. /\ p > 1 => r[p - 1] \in Nodes
      /\ p < n => r[p + 1] \in Nodes
  BY <1>1
<1> HIDE DEF p, x
<1>5. ASSUME NEW y \in Nodes
      PROVE  /\ Sides(r, p) \in Nat
             /\ TotalDistance(Replaced(r, p, y))
                  = Sides(r, p) + If(p > 1, Arc(r[p - 1], y))
                                + If(p < n, Arc(y, r[p + 1]))
  BY <1>1, PathAround
<1>6. ReplaceNodeDelta(r, idx, new)
        = If(new # x, If(p > 1, Arc(r[p - 1], new) - Arc(r[p - 1], x))
                      + If(p < n, Arc(new, r[p + 1]) - Arc(x, r[p + 1])))
  BY <1>1, <1>2 DEF ReplaceNodeDelta, If
<1>7. ASSUME NEW y \in Nodes
      PROVE  /\ p > 1 => Arc(r[p - 1], y) \in Nat
             /\ p < n => Arc(y, r[p + 1]) \in Nat
  BY <1>4, ArcNat
<1>8. TotalDistance(Replaced(r, p, new))
        = TotalDistance(Replaced(r, p, x)) + ReplaceNodeDelta(r, idx, new)
  <2>1. CASE new = x
    <3>1. ReplaceNodeDelta(r, idx, new) = 0
      BY <1>6, <2>1 DEF If
    <3>2. TotalDistance(Replaced(r, p, x)) \in Nat
      BY <1>3, LegsType
    <3> QED
      BY <2>1, <3>1, <3>2
  <2>2. CASE new # x
    <3>1. ReplaceNodeDelta(r, idx, new)
            = If(p > 1, Arc(r[p - 1], new) - Arc(r[p - 1], x))
              + If(p < n, Arc(new, r[p + 1]) - Arc(x, r[p + 1]))
      BY <1>6, <2>2 DEF If
    <3>2. /\ TotalDistance(Replaced(r, p, new))
               = Sides(r, p) + If(p > 1, Arc(r[p - 1], new))
                             + If(p < n, Arc(new, r[p + 1]))
          /\ TotalDistance(Replaced(r, p, x))
               = Sides(r, p) + If(p > 1, Arc(r[p - 1], x))
                             + If(p < n, Arc(x, r[p + 1]))
          /\ Sides(r, p) \in Nat
      BY <1>3, <1>5
    <3>3. /\ p > 1 => Arc(r[p - 1], new) \in Nat /\ Arc(r[p - 1], x) \in Nat
          /\ p < n => Arc(new, r[p + 1]) \in Nat /\ Arc(x, r[p + 1]) \in Nat
      BY <1>3, <1>7
    <3> QED
      BY ONLY <3>1, <3>2, <3>3 DEF If
  <2> QED
    BY <2>1, <2>2
<1> QED
  BY <1>3, <1>8 DEF p

\* route_insert_node_delta_distance is the change of the distance of the route
\* by listu_insert_at, which undoes a removal.
LEMMA InsertNodeExact ==
  ASSUME NEW r \in Seq(Nodes), NEW idx \in 0 .. Len(r), NEW node \in Nodes
  PROVE  TotalDistance(InsertNode(r, idx, node))
           = TotalDistance(r) + InsertNodeDelta(r, idx, node)
<1> DEFINE p == idx + 1
           n == Len(r)
           t == InsertAt(r, p, node)
<1>1. n \in Nat /\ idx \in Int /\ p \in 1 .. n + 1 /\ p - 1 = idx
  OBVIOUS
<1>2. /\ t \in Seq(Nodes) /\ Len(t) = n + 1
      /\ \A k \in 1 .. n + 1 :
           t[k] = IF k < p THEN r[k] ELSE IF k = p THEN node ELSE r[k - 1]
  BY <1>1, InsertAtProperties
<1>3. RemoveAt(t, p) = r
  BY <1>1, RemoveInserted
<1> HIDE DEF t, n
<1>4. idx \in Indices(t)
  BY <1>1, <1>2 DEF Indices, LastIdx
<1>5. TotalDistance(r) = TotalDistance(t) + RemoveNodeDelta(t, idx)
  <2>1. TotalDistance(RemoveNode(t, idx)) = TotalDistance(t) + RemoveNodeDelta(t, idx)
    BY <1>2, <1>4, RemoveNodeExact
  <2> QED
    BY <1>3, <2>1 DEF RemoveNode
<1>6. /\ At(t, idx) = node
      /\ idx > 0 => At(t, idx - 1) = At(r, idx - 1)
      /\ idx < n => At(t, idx + 1) = At(r, idx)
      /\ (idx < LastIdx(t) <=> idx < n)
  <2>1. p \in 1 .. n + 1 /\ (idx > 0 => idx \in 1 .. n + 1 /\ idx < p /\ idx - 1 + 1 = idx)
        /\ (idx < n => p + 1 \in 1 .. n + 1 /\ ~(p + 1 < p) /\ p + 1 # p
                       /\ p + 1 - 1 = p /\ idx + 1 + 1 = p + 1)
    BY <1>1
  <2>2. t[p] = node /\ (idx > 0 => t[idx] = r[idx]) /\ (idx < n => t[p + 1] = r[p])
    BY <1>2, <2>1
  <2>3. idx < LastIdx(t) <=> idx < n
    BY <1>1, <1>2 DEF LastIdx
  <2> QED
    BY <2>1, <2>2, <2>3 DEF At
<1>7. /\ idx > 0 => At(r, idx - 1) \in Nodes
      /\ idx < n => At(r, idx) \in Nodes
  BY <1>1 DEF At, n
<1>8. /\ idx > 0 => Arc(At(r, idx - 1), node) \in Nat
      /\ idx < n => Arc(node, At(r, idx)) \in Nat
      /\ idx > 0 /\ idx < n => Arc(At(r, idx - 1), At(r, idx)) \in Nat
  BY <1>7, ArcNat
<1>9. RemoveNodeDelta(t, idx) = -InsertNodeDelta(r, idx, node)
      /\ InsertNodeDelta(r, idx, node) \in Int
  <2>1. RemoveNodeDelta(t, idx)
          = If(idx > 0 /\ idx < n, Arc(At(r, idx - 1), At(r, idx)))
            - If(idx > 0, Arc(At(r, idx - 1), node))
            - If(idx < n, Arc(node, At(r, idx)))
    BY <1>6 DEF RemoveNodeDelta, If
  <2>2. InsertNodeDelta(r, idx, node)
          = If(idx > 0, Arc(At(r, idx - 1), node))
            + If(idx < n, Arc(node, At(r, idx)))
            - If(idx > 0 /\ idx < n, Arc(At(r, idx - 1), At(r, idx)))
    BY DEF InsertNodeDelta, n
  <2> QED
    BY <1>8, <2>1, <2>2 DEF If
<1>10. TotalDistance(t) \in Nat /\ TotalDistance(r) \in Nat
  BY <1>2, LegsType
<1>11. InsertNode(r, idx, node) = t
  BY DEF InsertNode, t
<1> QED
  BY <1>5, <1>9, <1>10, <1>11

-----------------------------------------------------------------------------
(***************************************************************************)
(* The tails of two routes, exchanged                                      *)
(***************************************************************************)

\* A route in two parts, cut behind one of its nodes.
IsCut(r, idx, head, tail) ==
  /\ head \in Seq(Nodes) /\ tail \in Seq(Nodes) /\ r = head \o tail
  /\ Len(head) = idx + 1 /\ Len(tail) = Len(r) - (idx + 1)
  /\ \A k \in 1 .. idx + 1 : head[k] = r[k]
  /\ \A k \in 1 .. Len(r) - (idx + 1) : tail[k] = r[(idx + 1) + k]

\* The slices that route_exchange_tails exchanges cut a route in two parts.
LEMMA CutRoute ==
  ASSUME NEW r \in Seq(Nodes), NEW idx \in Indices(r)
  PROVE  IsCut(r, idx, Slice(r, 0, idx), Slice(r, idx + 1, LastIdx(r)))
<1>1. idx + 1 \in 0 .. Len(r) /\ 0 + 1 = 1 /\ LastIdx(r) + 1 = Len(r)
  BY DEF Indices, LastIdx
<1>2. CutBehind(Nodes, r, idx + 1)
  BY <1>1, CutList
<1>3. Slice(r, 0, idx) = SubSeq(r, 1, idx + 1)
      /\ Slice(r, idx + 1, LastIdx(r)) = SubSeq(r, (idx + 1) + 1, Len(r))
  BY <1>1 DEF Slice
<1> QED
  BY <1>2, <1>3 DEF IsCut, CutBehind

\* route_exchange_tails_delta_distance is the change of the distance of the two
\* routes together by route_exchange_tails.
LEMMA ExchangeTailsExact ==
  ASSUME NEW r \in Seq(Nodes), NEW s \in Seq(Nodes),
         NEW idx1 \in Indices(r), NEW idx2 \in Indices(s),
         NEW q, NEW u, ExchangeTails(r, s, idx1, idx2) = <<q, u>>
  PROVE  TotalDistance(q) + TotalDistance(u)
           = TotalDistance(r) + TotalDistance(s)
             + ExchangeTailsDelta(r, s, idx1, idx2)
<1> DEFINE a == Slice(r, 0, idx1)
           b == Slice(r, idx1 + 1, LastIdx(r))
           c == Slice(s, 0, idx2)
           d == Slice(s, idx2 + 1, LastIdx(s))
<1>1. IsCut(r, idx1, a, b) /\ IsCut(s, idx2, c, d)
  BY CutRoute
<1>2. q = a \o d /\ u = c \o b
  BY DEF ExchangeTails
<1> HIDE DEF a, b, c, d
<1>3. /\ a \in Seq(Nodes) /\ b \in Seq(Nodes) /\ c \in Seq(Nodes) /\ d \in Seq(Nodes)
      /\ r = a \o b /\ s = c \o d
  BY <1>1 DEF IsCut
<1>4. ASSUME NEW x \in Seq(Nodes), NEW y \in Seq(Nodes)
      PROVE  /\ TotalDistance(x \o y) = TotalDistance(x) + Link(x, y) + TotalDistance(y)
             /\ Link(x, y) \in Nat /\ TotalDistance(x) \in Nat /\ TotalDistance(y) \in Nat
  BY PathConcat, LegsType
<1>5. /\ TotalDistance(q) = TotalDistance(a) + Link(a, d) + TotalDistance(d)
      /\ TotalDistance(u) = TotalDistance(c) + Link(c, b) + TotalDistance(b)
      /\ TotalDistance(r) = TotalDistance(a) + Link(a, b) + TotalDistance(b)
      /\ TotalDistance(s) = TotalDistance(c) + Link(c, d) + TotalDistance(d)
      /\ Link(a, d) \in Nat /\ Link(c, b) \in Nat /\ Link(a, b) \in Nat
      /\ Link(c, d) \in Nat
      /\ TotalDistance(a) \in Nat /\ TotalDistance(b) \in Nat
      /\ TotalDistance(c) \in Nat /\ TotalDistance(d) \in Nat
  BY <1>2, <1>3, <1>4
<1>6. /\ a # <<>> /\ a[Len(a)] = At(r, idx1)
      /\ (b # <<>> <=> idx1 < LastIdx(r))
      /\ (idx1 < LastIdx(r) => b[1] = At(r, idx1 + 1))
  <2>1. /\ Len(r) \in Nat /\ idx1 \in 0 .. Len(r) - 1
        /\ Len(a) = idx1 + 1 /\ Len(b) = Len(r) - (idx1 + 1)
        /\ \A k \in 1 .. idx1 + 1 : a[k] = r[k]
        /\ \A k \in 1 .. Len(r) - (idx1 + 1) : b[k] = r[(idx1 + 1) + k]
    BY <1>1 DEF IsCut, Indices, LastIdx
  <2>2. a # <<>> /\ a[Len(a)] = r[idx1 + 1]
    BY <1>3, <2>1
  <2>3. b # <<>> <=> idx1 < Len(r) - 1
    BY <1>3, <2>1
  <2>4. idx1 < Len(r) - 1 => b[1] = r[(idx1 + 1) + 1]
    <3>1. idx1 < Len(r) - 1 => 1 \in 1 .. Len(r) - (idx1 + 1)
      BY <2>1
    <3> QED
      BY <2>1, <3>1
  <2> QED
    BY <2>2, <2>3, <2>4 DEF At, LastIdx
<1>7. /\ c # <<>> /\ c[Len(c)] = At(s, idx2)
      /\ (d # <<>> <=> idx2 < LastIdx(s))
      /\ (idx2 < LastIdx(s) => d[1] = At(s, idx2 + 1))
  <2>1. /\ Len(s) \in Nat /\ idx2 \in 0 .. Len(s) - 1
        /\ Len(c) = idx2 + 1 /\ Len(d) = Len(s) - (idx2 + 1)
        /\ \A k \in 1 .. idx2 + 1 : c[k] = s[k]
        /\ \A k \in 1 .. Len(s) - (idx2 + 1) : d[k] = s[(idx2 + 1) + k]
    BY <1>1 DEF IsCut, Indices, LastIdx
  <2>2. c # <<>> /\ c[Len(c)] = s[idx2 + 1]
    BY <1>3, <2>1
  <2>3. d # <<>> <=> idx2 < Len(s) - 1
    BY <1>3, <2>1
  <2>4. idx2 < Len(s) - 1 => d[1] = s[(idx2 + 1) + 1]
    <3>1. idx2 < Len(s) - 1 => 1 \in 1 .. Len(s) - (idx2 + 1)
      BY <2>1
    <3> QED
      BY <2>1, <3>1
  <2> QED
    BY <2>2, <2>3, <2>4 DEF At, LastIdx
<1>8. /\ Link(a, b) = If(idx1 < LastIdx(r), Arc(At(r, idx1), At(r, idx1 + 1)))
      /\ Link(c, b) = If(idx1 < LastIdx(r), Arc(At(s, idx2), At(r, idx1 + 1)))
      /\ Link(c, d) = If(idx2 < LastIdx(s), Arc(At(s, idx2), At(s, idx2 + 1)))
      /\ Link(a, d) = If(idx2 < LastIdx(s), Arc(At(r, idx1), At(s, idx2 + 1)))
  BY <1>6, <1>7 DEF Link, If
<1>9. ExchangeTailsDelta(r, s, idx1, idx2)
        = (Link(c, b) - Link(a, b)) + (Link(a, d) - Link(c, d))
  BY <1>5, <1>8 DEF ExchangeTailsDelta, If
<1> DEFINE lad == Link(a, d)
           lab == Link(a, b)
           lcb == Link(c, b)
           lcd == Link(c, d)
           ta == TotalDistance(a)
           tb == TotalDistance(b)
           tc == TotalDistance(c)
           td == TotalDistance(d)
<1>10. /\ lad \in Int /\ lab \in Int /\ lcb \in Int /\ lcd \in Int
       /\ ta \in Int /\ tb \in Int /\ tc \in Int /\ td \in Int
  BY <1>5
<1>11. /\ TotalDistance(q) = ta + lad + td /\ TotalDistance(u) = tc + lcb + tb
       /\ TotalDistance(r) = ta + lab + tb /\ TotalDistance(s) = tc + lcd + td
       /\ ExchangeTailsDelta(r, s, idx1, idx2) = (lcb - lab) + (lad - lcd)
  BY <1>5, <1>9
<1> HIDE DEF lad, lab, lcb, lcd, ta, tb, tc, td
<1> QED
  BY ONLY <1>10, <1>11

-----------------------------------------------------------------------------
(***************************************************************************)
(* A slice of a route, reversed                                            *)
(***************************************************************************)

\* What each arc of a path costs more when it is driven the other way.
Turns(m) == [k \in 1 .. Len(m) - 1 |-> Arc(m[k + 1], m[k]) - Arc(m[k], m[k + 1])]

\* They are a list of integers.
LEMMA TurnsType ==
  ASSUME NEW m \in Seq(Nodes), NEW n \in Nat, Len(m) = n + 1
  PROVE  /\ Turns(m) \in Seq(Int) /\ Len(Turns(m)) = n
         /\ \A k \in 1 .. n : Turns(m)[k] = Arc(m[k + 1], m[k]) - Arc(m[k], m[k + 1])
<1>1. Len(m) - 1 = n /\ \A k \in 1 .. n + 1 : m[k] \in Nodes
  OBVIOUS
<1>2. Turns(m) = [k \in 1 .. n |-> Arc(m[k + 1], m[k]) - Arc(m[k], m[k + 1])]
  BY ONLY <1>1 DEF Turns
<1>3. ASSUME NEW k \in 1 .. n
      PROVE  Arc(m[k + 1], m[k]) - Arc(m[k], m[k + 1]) \in Int
  <2>1. k \in 1 .. n + 1 /\ k + 1 \in 1 .. n + 1
    OBVIOUS
  <2>2. m[k] \in Nodes /\ m[k + 1] \in Nodes
    BY <1>1, <2>1
  <2>3. Arc(m[k + 1], m[k]) \in Nat /\ Arc(m[k], m[k + 1]) \in Nat
    BY ONLY <2>2, ArcNat
  <2> QED
    BY ONLY <2>3
<1>4. Turns(m) \in [1 .. n -> Int]
  BY ONLY <1>2, <1>3
<1> QED
  BY <1>2, <1>4

\* The first node of a reversed path is its last one.
LEMMA ReverseEnds ==
  ASSUME NEW S, NEW s \in Seq(S), NEW n \in Nat, Len(s) = n + 1
  PROVE  /\ Reverse(s) \in Seq(S) /\ Len(Reverse(s)) = n + 1
         /\ Reverse(s)[1] = s[n + 1] /\ Reverse(s)[n + 1] = s[1]
         /\ s[1] \in S /\ s[n + 1] \in S
BY DEF Reverse

\* A path that is driven the other way costs that much more.
LEMMA TurnExact ==
  ASSUME NEW s \in Seq(Nodes), NEW l \in Nat, Len(s) = l + 1
  PROVE  TotalDistance(Reverse(s)) = TotalDistance(s) + SumOf(Turns(s))
<1> DEFINE Holds(t) == TotalDistance(Reverse(t)) = TotalDistance(t) + SumOf(Turns(t))
           P == {n \in Nat : \A t \in Seq(Nodes) : Len(t) = n + 1 => Holds(t)}
<1>1. 0 \in P
  <2>1. ASSUME NEW t \in Seq(Nodes), Len(t) = 0 + 1 PROVE Holds(t)
    <3>1. Reverse(t) = t
      BY <2>1 DEF Reverse
    <3>2. Turns(t) \in Seq(Int) /\ Len(Turns(t)) = 0
      BY <2>1, TurnsType
    <3>3. SumOf(Turns(t)) = 0
      BY ONLY <3>2, SumsOfStep, SumOfLast
    <3>4. TotalDistance(t) \in Nat
      BY LegsType
    <3> QED
      BY <3>1, <3>3, <3>4
  <2> QED
    BY <2>1
<1>2. ASSUME NEW n \in P PROVE n + 1 \in P
  <2>1. n \in Nat /\ \A t \in Seq(Nodes) : Len(t) = n + 1 => Holds(t)
    BY <1>2
  <2>2. ASSUME NEW t \in Seq(Nodes), Len(t) = (n + 1) + 1 PROVE Holds(t)
    <3> DEFINE u == SubSeq(t, 1, n + 1)
               x == t[(n + 1) + 1]
               y == u[n + 1]
    <3>1. u \in Seq(Nodes) /\ Len(u) = n + 1 /\ x \in Nodes /\ t = u \o <<x>>
      BY <2>1, <2>2, LastElement
    <3> HIDE DEF u, x
    <3>2. /\ Reverse(u) \in Seq(Nodes) /\ Len(Reverse(u)) = n + 1
          /\ Reverse(u)[1] = y /\ y \in Nodes
      BY <2>1, <3>1, ReverseEnds
    <3>3. Reverse(t) = <<x>> \o Reverse(u)
      BY <3>1, ReverseStep
    <3>4. <<x>> \in Seq(Nodes)
      BY <3>1
    <3>5. /\ TotalDistance(t) = TotalDistance(u) + Link(u, <<x>>) + TotalDistance(<<x>>)
          /\ TotalDistance(Reverse(t))
               = TotalDistance(<<x>>) + Link(<<x>>, Reverse(u)) + TotalDistance(Reverse(u))
      BY ONLY <3>1, <3>2, <3>3, <3>4, PathConcat
    <3>6. Link(u, <<x>>) = Arc(y, x)
      BY <2>1, <3>1 DEF Link, If
    <3>7. Link(<<x>>, Reverse(u)) = Arc(x, y)
      BY <2>1, <3>1, <3>2 DEF Link, If
    <3> DEFINE last == Arc(x, y) - Arc(y, x)
    <3>8. Arc(x, y) \in Nat /\ Arc(y, x) \in Nat
      BY ONLY <3>1, <3>2, ArcNat
    <3>9. Turns(t) = Turns(u) \o <<last>>
      <4>1. /\ Turns(u) \in Seq(Int) /\ Len(Turns(u)) = n
            /\ \A k \in 1 .. n : Turns(u)[k] = Arc(u[k + 1], u[k]) - Arc(u[k], u[k + 1])
        BY ONLY <2>1, <3>1, TurnsType
      <4>2. n + 1 \in Nat
        BY <2>1
      <4>3. /\ Turns(t) \in Seq(Int) /\ Len(Turns(t)) = n + 1
            /\ \A k \in 1 .. n + 1 :
                 Turns(t)[k] = Arc(t[k + 1], t[k]) - Arc(t[k], t[k + 1])
        BY ONLY <2>2, <4>2, TurnsType
      <4>4. /\ \A k \in 1 .. n + 1 : t[k] = u[k]
            /\ t[(n + 1) + 1] = x
        BY <2>1, <3>1
      <4>5. Turns(t)[n + 1] = last
        <5>1. n + 1 \in 1 .. n + 1
          BY <2>1
        <5>2. t[n + 1] = y
          BY <4>4, <5>1
        <5> QED
          BY <4>3, <4>4, <5>1, <5>2
      <4>6. \A k \in 1 .. n : Turns(t)[k] = Turns(u)[k]
        <5>1. \A k \in 1 .. n : k \in 1 .. n + 1 /\ k + 1 \in 1 .. n + 1
          BY <2>1
        <5> QED
          BY ONLY <4>1, <4>3, <4>4, <5>1
      <4>7. last \in Int
        BY <3>8
      <4> HIDE DEF last
      <4>8. <<last>> \in Seq(Int) /\ Len(<<last>>) = 1 /\ <<last>>[1] = last
        BY <4>7
      <4> DEFINE v == Turns(u) \o <<last>>
                 tt == Turns(t)
                 tu == Turns(u)
      <4>9. v \in Seq(Int) /\ Len(v) = n + 1 /\ v[n + 1] = last
            /\ \A k \in 1 .. n : v[k] = tu[k]
        BY <2>1, <4>1, <4>8
      <4>10. \A k \in 1 .. n + 1 : tt[k] = v[k]
        <5>1. \A k \in 1 .. n + 1 : k \in 1 .. n \/ k = n + 1
          BY <2>1
        <5> QED
          BY <4>5, <4>6, <4>9, <5>1
      <4> HIDE DEF v, tt
      <4>11. tt \in Seq(Int) /\ Len(tt) = n + 1
        BY <4>3 DEF tt
      <4>12. tt = v
        BY <4>9, <4>10, <4>11, SeqEqual
      <4> QED
        BY <4>12 DEF tt, v
    <3>10. SumOf(Turns(t)) = SumOf(Turns(u)) + last
      <4>1. Turns(u) \in Seq(Int)
        BY <2>1, <3>1, TurnsType
      <4>2. last \in Int
        BY <3>8
      <4> HIDE DEF last
      <4>3. <<last>> \in Seq(Int) /\ Len(<<last>>) = 1 /\ <<last>>[1] = last
        BY <4>2
      <4>4. SumOf(<<last>>) = last
        BY <4>3, SumOfOne
      <4> QED
        BY <3>9, <4>1, <4>3, <4>4, SumOfConcat
    <3>11. TotalDistance(Reverse(u)) = TotalDistance(u) + SumOf(Turns(u))
      BY <2>1, <3>1
    <3>12. /\ TotalDistance(u) \in Nat /\ TotalDistance(<<x>>) \in Nat
           /\ SumOf(Turns(u)) \in Int
      BY <2>1, <3>1, <3>4, LegsType, TurnsType, SumOfInt
    <3> DEFINE du == TotalDistance(u)
               dx == TotalDistance(<<x>>)
               su == SumOf(Turns(u))
               xy == Arc(x, y)
               yx == Arc(y, x)
    <3>13. /\ TotalDistance(t) = du + yx + dx
           /\ TotalDistance(Reverse(t)) = dx + xy + (du + su)
           /\ SumOf(Turns(t)) = su + (xy - yx)
      BY ONLY <3>5, <3>6, <3>7, <3>10, <3>11
    <3>14. du \in Int /\ dx \in Int /\ su \in Int /\ xy \in Int /\ yx \in Int
      BY <3>8, <3>12
    <3> HIDE DEF du, dx, su, xy, yx
    <3> QED
      BY ONLY <3>13, <3>14
  <2> QED
    BY <2>1, <2>2
<1> HIDE DEF P
<1>3. P \subseteq Nat
  BY DEF P
<1>4. P = Nat
  BY <1>1, <1>2, <1>3, SetInduction
<1>5. l \in P
  BY <1>4
<1> QED
  BY <1>5 DEF P

\* A route in three parts, the one in the middle being the slice [i, j].
IsSliced(r, i, j, a, m, b) ==
  /\ a \in Seq(Nodes) /\ m \in Seq(Nodes) /\ b \in Seq(Nodes)
  /\ Len(a) = i /\ Len(m) = (j - i) + 1 /\ Len(b) = Len(r) - (j + 1)
  /\ \A k \in 1 .. i : a[k] = r[k]
  /\ \A k \in 1 .. (j - i) + 1 : m[k] = r[i + k]
  /\ \A k \in 1 .. Len(r) - (j + 1) : b[k] = r[(j + 1) + k]
  /\ r = (a \o m) \o b
  /\ ReverseSlice(r, i, j) = (a \o Reverse(m)) \o b

\* The slice that route_reverse reverses is a part of the route, and what lies
\* on either side of it stays.
LEMMA SliceRoute ==
  ASSUME NEW r \in Seq(Nodes), NEW i \in Indices(r), NEW j \in Indices(r), i <= j
  PROVE  \E a, m, b : IsSliced(r, i, j, a, m, b)
<1> DEFINE n == Len(r)
           a == SubSeq(r, 1, i)
           c == SubSeq(r, i + 1, n)
           l == (j - i) + 1
           m == SubSeq(c, 1, l)
           b == SubSeq(c, l + 1, n - i)
           v == ReverseSlice(r, i, j)
           t == Reverse(m)
           u == (a \o t) \o b
<1>1. n \in Nat /\ i \in Nat /\ j \in Nat /\ i <= j /\ j + 1 <= n
      /\ n = Len(r)
  BY DEF Indices, LastIdx
<1>2. i \in 0 .. Len(r)
  BY <1>1
<1>3. CutBehind(Nodes, r, i)
  BY ONLY r \in Seq(Nodes), <1>2, CutList
<1>4. /\ a \in Seq(Nodes) /\ Len(a) = i /\ \A k \in 1 .. i : a[k] = r[k]
      /\ c \in Seq(Nodes) /\ Len(c) = n - i /\ \A k \in 1 .. n - i : c[k] = r[i + k]
      /\ r = a \o c
  BY <1>3 DEF CutBehind
<1>5. l \in 0 .. Len(c) /\ l \in Nat
  BY <1>1, <1>4
<1> HIDE DEF c
<1>6. CutBehind(Nodes, c, l)
  BY ONLY <1>4, <1>5, CutList
<1>7. /\ m \in Seq(Nodes) /\ Len(m) = l /\ \A k \in 1 .. l : m[k] = c[k]
      /\ b \in Seq(Nodes) /\ Len(b) = (n - i) - l
      /\ \A k \in 1 .. (n - i) - l : b[k] = c[l + k]
      /\ c = m \o b
  <2> HIDE DEF a, v, t, u, l
  <2>1. SubSeq(c, l + 1, n - i) = SubSeq(c, l + 1, Len(c))
    BY ONLY <1>4
  <2> QED
    BY ONLY <1>4, <1>6, <2>1 DEF CutBehind
<1>8. l = (j - i) + 1 /\ (n - i) - l = n - (j + 1)
  BY <1>1
<1> HIDE DEF a, m, b, l
<1>9. /\ \A k \in 1 .. l : m[k] = r[i + k]
      /\ \A k \in 1 .. n - (j + 1) : b[k] = r[(j + 1) + k]
      /\ Len(b) = n - (j + 1)
  <2> HIDE DEF n, v, t, u
  <2>1. \A k \in 1 .. l : k \in 1 .. n - i
    BY ONLY <1>1, <1>8
  <2>2. \A k \in 1 .. n - (j + 1) :
          k \in 1 .. (n - i) - l /\ l + k \in 1 .. n - i /\ i + (l + k) = (j + 1) + k
    BY ONLY <1>1, <1>8
  <2> QED
    BY ONLY <1>4, <1>7, <1>8, <2>1, <2>2
<1>10. r = (a \o m) \o b
  BY <1>4, <1>7
<1>11. /\ t \in Seq(Nodes) /\ Len(t) = l /\ \A k \in 1 .. l : t[k] = m[(l - k) + 1]
  BY <1>5, <1>7 DEF Reverse
<1> HIDE DEF t
<1>12. /\ u \in Seq(Nodes) /\ Len(u) = n
       /\ \A k \in 1 .. i : u[k] = a[k]
       /\ \A k \in 1 .. l : u[i + k] = t[k]
       /\ \A k \in 1 .. n - (j + 1) : u[(j + 1) + k] = b[k]
  <2> HIDE DEF n, v
  <2> DEFINE x == a \o t
  <2>1. /\ x \in Seq(Nodes) /\ Len(x) = i + l
        /\ \A k \in 1 .. i : x[k] = a[k]
        /\ \A k \in 1 .. l : x[i + k] = t[k]
    <3>1. a \in Seq(Nodes) /\ t \in Seq(Nodes)
      BY <1>4, <1>11
    <3>2. /\ a \o t \in Seq(Nodes) /\ Len(a \o t) = Len(a) + Len(t)
          /\ \A k \in 1 .. Len(a) : (a \o t)[k] = a[k]
          /\ \A k \in 1 .. Len(t) : (a \o t)[Len(a) + k] = t[k]
      BY ONLY <3>1, ConcatElements
    <3> QED
      BY ONLY <1>4, <1>11, <3>2
  <2> HIDE DEF x
  <2>2. /\ x \o b \in Seq(Nodes) /\ Len(x \o b) = Len(x) + Len(b)
        /\ \A k \in 1 .. Len(x) : (x \o b)[k] = x[k]
        /\ \A k \in 1 .. Len(b) : (x \o b)[Len(x) + k] = b[k]
    <3>1. x \in Seq(Nodes) /\ b \in Seq(Nodes)
      BY <1>7, <2>1
    <3> QED
      BY ONLY <3>1, ConcatElements
  <2>3. u = x \o b
    BY DEF x
  <2> HIDE DEF u
  <2>4. /\ i + l = j + 1 /\ (i + l) + (n - (j + 1)) = n
        /\ \A k \in 1 .. i : k \in 1 .. i + l
        /\ \A k \in 1 .. l : i + k \in 1 .. i + l
    BY ONLY <1>1, <1>8
  <2> QED
    BY ONLY <1>9, <2>1, <2>2, <2>3, <2>4
<1>13. v \in Seq(Nodes) /\ Len(v) = n
       /\ \A k \in 1 .. n :
            v[k] = IF k - 1 \in i .. j THEN r[(i + j - (k - 1)) + 1] ELSE r[k]
  <2>1. ASSUME NEW k \in 1 .. n
        PROVE  (IF k - 1 \in i .. j THEN r[(i + j - (k - 1)) + 1] ELSE r[k]) \in Nodes
    <3>1. k - 1 \in i .. j => (i + j - (k - 1)) + 1 \in 1 .. n
      BY <1>1
    <3> QED
      BY <3>1
  <2>2. v = [k \in 1 .. n |->
               IF k - 1 \in i .. j THEN r[(i + j - (k - 1)) + 1] ELSE r[k]]
    BY DEF ReverseSlice, At
  <2> HIDE DEF v, u
  <2>3. v \in [1 .. n -> Nodes]
    BY ONLY <2>1, <2>2
  <2> QED
    BY <1>1, <2>2, <2>3
<1>14. \A k \in 1 .. n : v[k] = u[k]
  <2> HIDE DEF n, v, u
  <2> TAKE k \in 1 .. n
  <2>1. CASE k \in 1 .. i
    <3>1. k - 1 \notin i .. j
      BY ONLY <1>1, <2>1
    <3> QED
      BY ONLY <1>4, <1>12, <1>13, <2>1, <3>1, k \in 1 .. n
  <2>2. CASE k - i \in 1 .. l
    <3> DEFINE h == k - i
    <3>1. /\ h \in 1 .. l /\ k = i + h /\ k - 1 \in i .. j
          /\ (l - h) + 1 \in 1 .. l
          /\ i + ((l - h) + 1) = (i + j - (k - 1)) + 1
      BY ONLY <1>1, <1>8, <2>2, k \in 1 .. n
    <3> HIDE DEF h
    <3>2. u[k] = t[h] /\ t[h] = m[(l - h) + 1] /\ m[(l - h) + 1] = r[i + ((l - h) + 1)]
      BY ONLY <1>9, <1>11, <1>12, <3>1
    <3> QED
      BY ONLY <1>13, <3>1, <3>2, k \in 1 .. n
  <2>3. CASE k - (j + 1) \in 1 .. n - (j + 1)
    <3> DEFINE h == k - (j + 1)
    <3>1. h \in 1 .. n - (j + 1) /\ k = (j + 1) + h /\ k - 1 \notin i .. j
      BY ONLY <1>1, <2>3, k \in 1 .. n
    <3> HIDE DEF h
    <3> QED
      BY ONLY <1>9, <1>12, <1>13, <3>1, k \in 1 .. n
  <2>4. k \in 1 .. i \/ k - i \in 1 .. l \/ k - (j + 1) \in 1 .. n - (j + 1)
    BY ONLY <1>1, <1>8, k \in 1 .. n
  <2> QED
    BY <2>1, <2>2, <2>3, <2>4
<1>15. v = u
  <2> HIDE DEF n, v, u
  <2> QED
    BY ONLY <1>12, <1>13, <1>14, SeqEqual
<1>16. IsSliced(r, i, j, a, m, b)
  <2>1. ReverseSlice(r, i, j) = (a \o Reverse(m)) \o b
    BY <1>15 DEF t
  <2> HIDE DEF v, u
  <2> QED
    BY <1>4, <1>7, <1>8, <1>9, <1>10, <2>1 DEF IsSliced
<1> QED
  BY <1>16

\* route_reverse_delta_distance is the change of the distance of the route by
\* route_reverse, the arcs inside the slice included.
LEMMA ReverseSliceExact ==
  ASSUME NEW r \in Seq(Nodes), NEW i \in Indices(r), NEW j \in Indices(r), i <= j
  PROVE  /\ TotalDistance(ReverseSlice(r, i, j)) = TotalDistance(r) + ReverseDelta(r, i, j)
         /\ ReverseDelta(r, i, j) \in Int
<1>1. PICK a, m, b : IsSliced(r, i, j, a, m, b)
  BY SliceRoute
<1> DEFINE n == Len(r)
           l == j - i
           t == Reverse(m)
<1>2. n \in Nat /\ i \in Nat /\ j \in Nat /\ i <= j /\ j + 1 <= n /\ l \in Nat
      /\ (j - i) + 1 = l + 1
  BY DEF Indices, LastIdx
<1>3. /\ a \in Seq(Nodes) /\ m \in Seq(Nodes) /\ b \in Seq(Nodes)
      /\ Len(a) = i /\ Len(m) = l + 1 /\ Len(b) = n - (j + 1)
      /\ \A k \in 1 .. i : a[k] = r[k]
      /\ \A k \in 1 .. l + 1 : m[k] = r[i + k]
      /\ \A k \in 1 .. n - (j + 1) : b[k] = r[(j + 1) + k]
  BY <1>1, <1>2 DEF IsSliced
<1>4. r = (a \o m) \o b /\ ReverseSlice(r, i, j) = (a \o t) \o b
  BY <1>1 DEF IsSliced
<1> HIDE DEF n, l
<1>5. /\ t \in Seq(Nodes) /\ Len(t) = l + 1 /\ t[1] = m[l + 1] /\ t[l + 1] = m[1]
      /\ m[1] \in Nodes /\ m[l + 1] \in Nodes
  BY ONLY <1>2, <1>3, ReverseEnds
<1>6. TotalDistance(t) = TotalDistance(m) + SumOf(Turns(m))
  BY ONLY <1>2, <1>3, TurnExact
<1> HIDE DEF t
<1> DEFINE out == If(b # <<>>, Arc(m[l + 1], b[1]))
           outT == If(b # <<>>, Arc(m[1], b[1]))
           in == If(a # <<>>, Arc(a[i], m[1]))
           inT == If(a # <<>>, Arc(a[i], m[l + 1]))
\* A path from a through x to b, for x one way and the other
<1>7. ASSUME NEW x \in Seq(Nodes), Len(x) = l + 1
      PROVE  TotalDistance((a \o x) \o b)
               = TotalDistance(a) + If(a # <<>>, Arc(a[i], x[1])) + TotalDistance(x)
                 + If(b # <<>>, Arc(x[l + 1], b[1])) + TotalDistance(b)
  <2>1. /\ TotalDistance(a \o x) = TotalDistance(a) + Link(a, x) + TotalDistance(x)
    BY ONLY <1>3, x \in Seq(Nodes), PathConcat
  <2> DEFINE y == a \o x
  <2>2. /\ y \in Seq(Nodes) /\ Len(y) = i + (l + 1) /\ y[i + (l + 1)] = x[l + 1]
        /\ i + (l + 1) # 0
    <3>1. /\ a \o x \in Seq(Nodes) /\ Len(a \o x) = Len(a) + Len(x)
          /\ \A k \in 1 .. Len(x) : (a \o x)[Len(a) + k] = x[k]
      <4>1. a \in Seq(Nodes) /\ x \in Seq(Nodes)
        BY <1>3
      <4> QED
        BY ONLY <4>1, ConcatElements
    <3>2. l + 1 \in 1 .. l + 1 /\ i + (l + 1) # 0
      BY ONLY <1>2
    <3> HIDE DEF y
    <3>3. y = a \o x
      BY DEF y
    <3> QED
      BY ONLY <1>3, <1>7, <3>1, <3>2, <3>3
  <2> HIDE DEF y
  <2>3. TotalDistance(y \o b) = TotalDistance(y) + Link(y, b) + TotalDistance(b)
    BY ONLY <1>3, <2>2, PathConcat
  <2>4. y # <<>> /\ x # <<>>
    BY ONLY <1>2, <1>7, <2>2
  <2>5. Link(a, x) = If(a # <<>>, Arc(a[i], x[1]))
    BY <1>3, <2>4 DEF Link, If
  <2>6. Link(y, b) = If(b # <<>>, Arc(x[l + 1], b[1]))
    BY <2>2, <2>4 DEF Link, If
  <2> QED
    BY <2>1, <2>3, <2>5, <2>6 DEF y
<1>8. TotalDistance(r) = TotalDistance(a) + in + TotalDistance(m) + out + TotalDistance(b)
  BY ONLY <1>3, <1>4, <1>7
<1>9. TotalDistance(ReverseSlice(r, i, j))
        = TotalDistance(a) + inT + TotalDistance(t) + outT + TotalDistance(b)
  BY ONLY <1>3, <1>4, <1>5, <1>7
<1>10. /\ TotalDistance(a) \in Int /\ TotalDistance(m) \in Int /\ TotalDistance(b) \in Int
       /\ SumOf(Turns(m)) \in Int
  BY ONLY <1>2, <1>3, LegsType, TurnsType, SumOfInt
<1>11. in \in Int /\ inT \in Int /\ out \in Int /\ outT \in Int
  <2>1. a # <<>> => a[i] \in Nodes
    BY <1>2, <1>3
  <2>2. b # <<>> => b[1] \in Nodes
    BY <1>3
  <2> QED
    BY <1>5, <2>1, <2>2, ArcNat DEF If
\* What the code adds up is the same, read off the indices of the route
<1>12. (a # <<>> <=> i > 0) /\ (b # <<>> <=> j < LastIdx(r))
  BY <1>2, <1>3 DEF LastIdx, n
<1>13. m[1] = At(r, i) /\ m[l + 1] = At(r, j)
  <2>1. 1 \in 1 .. l + 1 /\ l + 1 \in 1 .. l + 1 /\ i + (l + 1) = j + 1
    BY <1>2 DEF l
  <2> QED
    BY <1>3, <2>1 DEF At
<1>14. i > 0 => a[i] = At(r, i - 1)
  <2>1. i > 0 => i \in 1 .. i /\ (i - 1) + 1 = i
    BY <1>2
  <2> QED
    BY <1>3, <2>1 DEF At
<1>15. j < LastIdx(r) => b[1] = At(r, j + 1)
  <2>1. j < LastIdx(r) => 1 \in 1 .. n - (j + 1)
    BY <1>2 DEF LastIdx, n
  <2> QED
    BY <1>3, <2>1 DEF At
<1>16. Turns(m) = [k \in 1 .. j - i |-> Arc(At(r, i + k), At(r, i + k - 1))
                                         - Arc(At(r, i + k - 1), At(r, i + k))]
  <2>1. Len(m) - 1 = j - i /\ l = j - i
    BY <1>2, <1>3 DEF l
  <2>2. ASSUME NEW k \in 1 .. j - i
        PROVE  m[k + 1] = At(r, i + k) /\ m[k] = At(r, i + k - 1)
    <3>1. /\ k \in 1 .. l + 1 /\ k + 1 \in 1 .. l + 1
          /\ i + (k + 1) = (i + k) + 1 /\ i + k = (i + k - 1) + 1
      BY <1>2, <2>1
    <3> QED
      BY <1>3, <3>1 DEF At
  <2>3. Turns(m) = [k \in 1 .. j - i |-> Arc(m[k + 1], m[k]) - Arc(m[k], m[k + 1])]
    BY ONLY <2>1 DEF Turns
  <2> QED
    BY ONLY <2>2, <2>3
<1>17. ReverseDelta(r, i, j) =
         If(i # j, If(i > 0, Arc(At(r, i - 1), At(r, j)) - Arc(At(r, i - 1), At(r, i)))
                   + If(j < LastIdx(r),
                        Arc(At(r, i), At(r, j + 1)) - Arc(At(r, j), At(r, j + 1)))
                   + SumOf(Turns(m)))
  BY ONLY <1>16 DEF ReverseDelta
<1>18. If(i > 0, Arc(At(r, i - 1), At(r, j)) - Arc(At(r, i - 1), At(r, i))) = inT - in
  BY <1>12, <1>13, <1>14 DEF If
<1>19. If(j < LastIdx(r), Arc(At(r, i), At(r, j + 1)) - Arc(At(r, j), At(r, j + 1)))
         = outT - out
  BY <1>12, <1>13, <1>15 DEF If
<1>20. i = j => inT = in /\ outT = out /\ SumOf(Turns(m)) = 0
  <2>1. i = j => l = 0
    BY <1>2 DEF l
  <2>2. l = 0 => inT = in /\ outT = out
    BY <1>3
  <2>3. l = 0 => SumOf(Turns(m)) = 0
    <3>1. Turns(m) \in Seq(Int) /\ Len(Turns(m)) = l
      BY ONLY <1>2, <1>3, TurnsType
    <3> QED
      BY <3>1, SumsOfStep, SumOfLast
  <2> QED
    BY <2>1, <2>2, <2>3
<1> DEFINE da == TotalDistance(a)
           dm == TotalDistance(m)
           db == TotalDistance(b)
           turns == SumOf(Turns(m))
<1> HIDE DEF in, inT, out, outT
<1>21. ReverseDelta(r, i, j) = (inT - in) + (outT - out) + turns
  <2>1. turns \in Int
    BY <1>10
  <2>2. ReverseDelta(r, i, j) = If(i # j, (inT - in) + (outT - out) + turns)
    BY ONLY <1>17, <1>18, <1>19
  <2>3. i = j => turns = 0 /\ inT = in /\ outT = out
    BY <1>20
  <2> HIDE DEF turns
  <2> QED
    BY ONLY <1>11, <2>1, <2>2, <2>3 DEF If
<1>22. /\ TotalDistance(r) = da + in + dm + out + db
       /\ TotalDistance(ReverseSlice(r, i, j)) = da + inT + (dm + turns) + outT + db
       /\ da \in Int /\ dm \in Int /\ db \in Int /\ turns \in Int
  BY ONLY <1>6, <1>8, <1>9, <1>10
<1> HIDE DEF da, dm, db, turns
<1> QED
  BY ONLY <1>11, <1>21, <1>22

-----------------------------------------------------------------------------
(***************************************************************************)
(* The deltas are integers                                                 *)
(***************************************************************************)

\* The node at an index of a route is a node.
LEMMA NodeAtIndex ==
  ASSUME NEW r \in Seq(Nodes), NEW i \in Indices(r)
  PROVE  /\ At(r, i) \in Nodes
         /\ i > 0 => At(r, i - 1) \in Nodes
         /\ i < LastIdx(r) => At(r, i + 1) \in Nodes
<1>1. /\ Len(r) \in Nat /\ i \in 0 .. Len(r) - 1 /\ LastIdx(r) = Len(r) - 1
  BY DEF Indices, LastIdx
<1>2. /\ i + 1 \in 1 .. Len(r)
      /\ i > 0 => (i - 1) + 1 \in 1 .. Len(r)
      /\ i < LastIdx(r) => (i + 1) + 1 \in 1 .. Len(r)
  BY ONLY <1>1
<1> QED
  BY <1>2 DEF At


\* route_remove_node_delta_distance computes a number.
LEMMA RemoveDeltaInt ==
  ASSUME NEW r \in Seq(Nodes), NEW idx \in Indices(r)
  PROVE  RemoveNodeDelta(r, idx) \in Int
<1>1. /\ idx > 0 /\ idx < LastIdx(r) => Arc(At(r, idx - 1), At(r, idx + 1)) \in Nat
      /\ idx > 0 => Arc(At(r, idx - 1), At(r, idx)) \in Nat
      /\ idx < LastIdx(r) => Arc(At(r, idx), At(r, idx + 1)) \in Nat
  BY NodeAtIndex, ArcNat
<1>2. /\ If(idx > 0 /\ idx < LastIdx(r), Arc(At(r, idx - 1), At(r, idx + 1))) \in Nat
      /\ If(idx > 0, Arc(At(r, idx - 1), At(r, idx))) \in Nat
      /\ If(idx < LastIdx(r), Arc(At(r, idx), At(r, idx + 1))) \in Nat
  BY ONLY <1>1 DEF If
<1> QED
  BY ONLY <1>2 DEF RemoveNodeDelta

\* route_insert_node_delta_distance computes a number.
LEMMA InsertDeltaInt ==
  ASSUME NEW r \in Seq(Nodes), NEW idx \in Indices(r), NEW node \in Nodes
  PROVE  InsertNodeDelta(r, idx, node) \in Int
<1>1. /\ idx > 0 => Arc(At(r, idx - 1), node) \in Nat
      /\ Arc(node, At(r, idx)) \in Nat
      /\ idx > 0 => Arc(At(r, idx - 1), At(r, idx)) \in Nat
  BY NodeAtIndex, ArcNat
<1>2. /\ If(idx > 0, Arc(At(r, idx - 1), node)) \in Nat
      /\ If(idx < Len(r), Arc(node, At(r, idx))) \in Nat
      /\ If(idx > 0 /\ idx < Len(r), Arc(At(r, idx - 1), At(r, idx))) \in Nat
  BY ONLY <1>1 DEF If
<1> QED
  BY ONLY <1>2 DEF InsertNodeDelta

\* route_replace_node_delta_distance computes a number.
LEMMA ReplaceDeltaInt ==
  ASSUME NEW r \in Seq(Nodes), NEW idx \in Indices(r), NEW new \in Nodes
  PROVE  ReplaceNodeDelta(r, idx, new) \in Int
<1>1. /\ idx > 0 => /\ Arc(At(r, idx - 1), new) \in Nat
                    /\ Arc(At(r, idx - 1), At(r, idx)) \in Nat
      /\ idx < LastIdx(r) => /\ Arc(new, At(r, idx + 1)) \in Nat
                             /\ Arc(At(r, idx), At(r, idx + 1)) \in Nat
  BY NodeAtIndex, ArcNat
<1>2. /\ If(idx > 0, Arc(At(r, idx - 1), new) - Arc(At(r, idx - 1), At(r, idx))) \in Int
      /\ If(idx < LastIdx(r),
            Arc(new, At(r, idx + 1)) - Arc(At(r, idx), At(r, idx + 1))) \in Int
  BY ONLY <1>1 DEF If
<1>3. If(new # At(r, idx),
         If(idx > 0, Arc(At(r, idx - 1), new) - Arc(At(r, idx - 1), At(r, idx)))
         + If(idx < LastIdx(r),
              Arc(new, At(r, idx + 1)) - Arc(At(r, idx), At(r, idx + 1)))) \in Int
  BY ONLY <1>2 DEF If
<1> QED
  BY ONLY <1>3 DEF ReplaceNodeDelta

\* route_exchange_tails_delta_distance computes a number.
LEMMA TailsDeltaInt ==
  ASSUME NEW r \in Seq(Nodes), NEW s \in Seq(Nodes),
         NEW idx1 \in Indices(r), NEW idx2 \in Indices(s)
  PROVE  ExchangeTailsDelta(r, s, idx1, idx2) \in Int
<1>1. /\ idx1 < LastIdx(r) => /\ Arc(At(s, idx2), At(r, idx1 + 1)) \in Nat
                              /\ Arc(At(r, idx1), At(r, idx1 + 1)) \in Nat
      /\ idx2 < LastIdx(s) => /\ Arc(At(r, idx1), At(s, idx2 + 1)) \in Nat
                              /\ Arc(At(s, idx2), At(s, idx2 + 1)) \in Nat
  BY NodeAtIndex, ArcNat
<1>2. /\ If(idx1 < LastIdx(r), Arc(At(s, idx2), At(r, idx1 + 1))
                               - Arc(At(r, idx1), At(r, idx1 + 1))) \in Int
      /\ If(idx2 < LastIdx(s), Arc(At(r, idx1), At(s, idx2 + 1))
                               - Arc(At(s, idx2), At(s, idx2 + 1))) \in Int
  BY ONLY <1>1 DEF If
<1> QED
  BY ONLY <1>2 DEF ExchangeTailsDelta

-----------------------------------------------------------------------------
(* Order crossover *)

\* The turn y of the loop, of n, reads this index of the window: the indices
\* from behind the segment [i, j] on and around.
Turn(n, j, y) == IF j + y < n THEN j + y ELSE j + y - n

\* A window of a route in the order in which the turns read it; the nodes of
\* the segment come last.
Cyclic(r, b, n, j) == [y \in 1 .. n |-> r[b + Turn(n, j, y) + 1]]

\* What is taken from the other route before the segment would be overwritten
Room(n, i, j) == n - (j - i + 1)

\* The arguments of route_ox: a window of n indices from b on, in routes of
\* some length, and a segment of it
IsWindow(len, b, n, i, j) ==
  /\ len \in Nat /\ b \in Nat /\ n \in Nat \ {0} /\ b + n <= len
  /\ i \in Nat /\ j \in Nat /\ i <= j /\ j < n

\* Indices wrap around at most once.
LEMMA Remainder ==
  ASSUME NEW n \in Nat, n >= 1, NEW x \in Nat, x < 2 * n
  PROVE  x % n = IF x < n THEN x ELSE x - n
<1>1. x % n \in 0 .. n - 1 /\ x = n * (x \div n) + (x % n)
  OBVIOUS
<1> QED
  BY <1>1

TurnsAround(len, b, n, i, j) ==
  /\ \A y \in 1 .. n : /\ Turn(n, j, y) \in 0 .. n - 1
                       /\ (j + y) % n = Turn(n, j, y)
                       /\ b + Turn(n, j, y) + 1 \in 1 .. len
                       /\ Turn(n, j, y) \in i .. j <=> y > Room(n, i, j)
  /\ \A y \in 1 .. n - 1 : (Turn(n, j, y) + 1) % n = Turn(n, j, y + 1)
  /\ \A x, y \in 1 .. n : Turn(n, j, x) = Turn(n, j, y) => x = y
  /\ \A k \in 0 .. n - 1 : \E y \in 1 .. n : Turn(n, j, y) = k
  /\ Room(n, i, j) \in 0 .. n - 1
  /\ Turn(n, j, Room(n, i, j) + 1) = i

\* The turns go once around the window.
LEMMA TurnPlaces ==
  ASSUME NEW len, NEW b, NEW n, NEW i, NEW j, IsWindow(len, b, n, i, j)
  PROVE  TurnsAround(len, b, n, i, j)
<1>1. /\ len \in Nat /\ b \in Nat /\ n \in Nat /\ n >= 1 /\ b + n <= len
      /\ i \in Nat /\ j \in Nat /\ i <= j /\ j < n
  BY DEF IsWindow
<1>2. ASSUME NEW y \in 1 .. n
      PROVE  /\ Turn(n, j, y) \in 0 .. n - 1
             /\ (j + y) % n = Turn(n, j, y)
             /\ b + Turn(n, j, y) + 1 \in 1 .. len
             /\ Turn(n, j, y) \in i .. j <=> y > Room(n, i, j)
  <2>1. Turn(n, j, y) \in 0 .. n - 1
    BY <1>1 DEF Turn
  <2>2. (j + y) % n = Turn(n, j, y)
    <3>1. j + y \in Nat /\ j + y < 2 * n
      BY <1>1
    <3>2. (j + y) % n = IF j + y < n THEN j + y ELSE (j + y) - n
      BY ONLY <3>1, <1>1, Remainder
    <3> QED
      BY <3>2, <1>1 DEF Turn
  <2>3. b + Turn(n, j, y) + 1 \in 1 .. len
    BY <1>1, <2>1
  <2>4. Turn(n, j, y) \in i .. j <=> y > Room(n, i, j)
    BY <1>1 DEF Turn, Room
  <2> QED
    BY <2>1, <2>2, <2>3, <2>4
<1>3. ASSUME NEW y \in 1 .. n - 1
      PROVE  (Turn(n, j, y) + 1) % n = Turn(n, j, y + 1)
  <2> DEFINE x == Turn(n, j, y) + 1
  <2>1. x \in 1 .. n
    <3>1. y \in 1 .. n
      BY <1>1
    <3> QED
      BY <3>1, <1>2, <1>1
  <2>2. x = IF j + y < n THEN j + y + 1 ELSE j + y - n + 1
    BY <1>1 DEF Turn
  <2>3. x % n = IF x < n THEN x ELSE x - n
    <3>1. x \in Nat /\ x < 2 * n
      BY <2>1, <1>1
    <3> QED
      BY ONLY <3>1, <1>1, Remainder
  <2> HIDE DEF x
  <2>4. x % n = Turn(n, j, y + 1)
    BY <2>1, <2>2, <2>3, <1>1 DEF Turn
  <2> QED
    BY <2>4 DEF x
<1>4. \A x, y \in 1 .. n : Turn(n, j, x) = Turn(n, j, y) => x = y
  BY <1>1 DEF Turn
<1>5. ASSUME NEW k \in 0 .. n - 1
      PROVE  \E y \in 1 .. n : Turn(n, j, y) = k
  <2>1. CASE k > j
    <3>1. k - j \in 1 .. n /\ Turn(n, j, k - j) = k
      BY <1>1, <2>1 DEF Turn
    <3> QED
      BY <3>1
  <2>2. CASE k <= j
    <3>1. k + n - j \in 1 .. n /\ Turn(n, j, k + n - j) = k
      BY <1>1, <2>2 DEF Turn
    <3> QED
      BY <3>1
  <2> QED
    BY <2>1, <2>2, <1>1
<1>6. Room(n, i, j) \in 0 .. n - 1 /\ Turn(n, j, Room(n, i, j) + 1) = i
  BY <1>1 DEF Turn, Room
<1> QED
  BY <1>2, <1>3, <1>4, <1>5, <1>6 DEF TurnsAround

\* What a child does with a node of the other route
Takes(child, node, b, n, i, j) ==
  IF child.pos = i \/ InSegment(child.route, b, i, j, node) THEN child
  ELSE [route |-> [child.route EXCEPT ![b + child.pos + 1] = node],
        pos |-> (child.pos + 1) % n]

\* A child after k turns: w nodes of the other route have been taken
TakenBy(child, S, own, other, b, n, i, j, k, w) ==
  /\ child.route \in [DOMAIN own -> S]
  /\ w \in 0 .. Room(n, i, j) /\ w <= k
  /\ child.pos = Turn(n, j, w + 1)
  /\ \A p \in DOMAIN own :
       (\A y \in 1 .. w : p # b + Turn(n, j, y) + 1) => child.route[p] = own[p]
  /\ \A y \in 1 .. w : \E x \in 1 .. k :
       Cyclic(child.route, b, n, j)[y] = Cyclic(other, b, n, j)[x]
  /\ \A y \in 1 .. w : \A z \in Room(n, i, j) + 1 .. n :
       Cyclic(child.route, b, n, j)[y] # Cyclic(own, b, n, j)[z]
  /\ \A y, z \in 1 .. w :
       Cyclic(child.route, b, n, j)[y] = Cyclic(child.route, b, n, j)[z] => y = z
  /\ w < Room(n, i, j) =>
       \A x \in 1 .. k :
         \/ \E z \in Room(n, i, j) + 1 .. n :
              Cyclic(other, b, n, j)[x] = Cyclic(own, b, n, j)[z]
         \/ \E y \in 1 .. w :
              Cyclic(other, b, n, j)[x] = Cyclic(child.route, b, n, j)[y]

\* Only what the first w turns read may differ
Overwritten(r, own, b, n, j, w) ==
  \A y \in 1 .. n : y > w => Cyclic(r, b, n, j)[y] = Cyclic(own, b, n, j)[y]

\* What has not been overwritten is as it was.
LEMMA Unwritten ==
  ASSUME NEW S, NEW own, NEW other, NEW child, NEW len, DOMAIN own = 1 .. len,
         NEW b, NEW n, NEW i, NEW j, IsWindow(len, b, n, i, j),
         NEW k \in Nat, NEW w, TakenBy(child, S, own, other, b, n, i, j, k, w)
  PROVE  Overwritten(child.route, own, b, n, j, w)
<1> SUFFICES ASSUME NEW y \in 1 .. n, y > w
             PROVE  Cyclic(child.route, b, n, j)[y] = Cyclic(own, b, n, j)[y]
  BY DEF Overwritten
<1>0. TurnsAround(len, b, n, i, j)
  BY TurnPlaces
<1>1. w \in Nat /\ w < n /\ n \in Nat
  <2>1. w \in 0 .. Room(n, i, j) /\ Room(n, i, j) \in 0 .. n - 1 /\ n \in Nat
    BY <1>0 DEF TakenBy, IsWindow, TurnsAround
  <2> QED
    BY <2>1
<1> DEFINE p == b + Turn(n, j, y) + 1
<1>2. p \in DOMAIN own
  <2>1. p \in 1 .. len
    BY <1>0 DEF TurnsAround
  <2> QED
    BY ONLY <2>1, DOMAIN own = 1 .. len
<1>3. ASSUME NEW z \in 1 .. w
      PROVE  p # b + Turn(n, j, z) + 1
  <2>1. z \in 1 .. n /\ z # y
    BY <1>1
  <2>2. Turn(n, j, z) # Turn(n, j, y)
    BY ONLY <2>1, <1>0, y \in 1 .. n DEF TurnsAround
  <2>3. Turn(n, j, z) \in Int /\ Turn(n, j, y) \in Int /\ b \in Int
    BY ONLY <2>1, <1>0, IsWindow(len, b, n, i, j), y \in 1 .. n DEF TurnsAround, IsWindow
  <2> QED
    BY <2>2, <2>3
<1>4. child.route[p] = own[p]
  <2> HIDE DEF p
  <2> QED
    BY <1>2, <1>3 DEF TakenBy
<1> QED
  BY <1>4 DEF Cyclic

\* The segment has this node
OnSegment(r, b, n, i, j, node) ==
  \E z \in Room(n, i, j) + 1 .. n : Cyclic(r, b, n, j)[z] = node

\* The segment is looked through as it was in the beginning.
LEMMA SegmentNodes ==
  ASSUME NEW S, NEW r, NEW len, r \in [1 .. len -> S],
         NEW b, NEW n, NEW i, NEW j, IsWindow(len, b, n, i, j), NEW node
  PROVE  InSegment(r, b, i, j, node) <=> OnSegment(r, b, n, i, j, node)
<1>1. /\ len \in Nat /\ b \in Nat /\ n \in Nat /\ n >= 1 /\ b + n <= len
      /\ i \in Nat /\ j \in Nat /\ i <= j /\ j < n
  BY DEF IsWindow
<1> DEFINE s == SubSeq(r, b + i + 1, b + j + 1)
<1>2. r \in Seq(S) /\ Len(r) = len
  BY <1>1
<1>3. /\ s \in Seq(S) /\ Len(s) = j - i + 1
      /\ \A k \in 1 .. j - i + 1 : s[k] = r[b + i + k]
  BY <1>1, <1>2
<1>4. InSegment(r, b, i, j, node) <=> \E k \in 1 .. j - i + 1 : s[k] = node
  <2>1. InSegment(r, b, i, j, node) <=> Contains(s, node)
    BY <1>1 DEF InSegment, Slice
  <2> HIDE DEF s
  <2> QED
    BY <2>1, <1>3 DEF Contains
<1> HIDE DEF s
<1>5. ASSUME NEW k \in 1 .. j - i + 1
      PROVE  /\ Room(n, i, j) + k \in Room(n, i, j) + 1 .. n
             /\ Cyclic(r, b, n, j)[Room(n, i, j) + k] = s[k]
  <2>1. Room(n, i, j) + k \in 1 .. n /\ Room(n, i, j) + k \in Room(n, i, j) + 1 .. n
    BY <1>1 DEF Room
  <2>2. Turn(n, j, Room(n, i, j) + k) = i + k - 1
    BY <1>1 DEF Turn, Room
  <2>3. Cyclic(r, b, n, j)[Room(n, i, j) + k] = r[b + (i + k - 1) + 1]
    BY <2>1, <2>2 DEF Cyclic
  <2>4. b + (i + k - 1) + 1 = b + i + k
    BY <1>1
  <2> QED
    BY <2>1, <2>3, <2>4, <1>3
<1>6. ASSUME NEW z \in Room(n, i, j) + 1 .. n
      PROVE  \E k \in 1 .. j - i + 1 : z = Room(n, i, j) + k
  <2>1. z - Room(n, i, j) \in 1 .. j - i + 1 /\ z = Room(n, i, j) + (z - Room(n, i, j))
    BY <1>1 DEF Room
  <2> QED
    BY <2>1
<1> QED
  BY <1>4, <1>5, <1>6 DEF OnSegment

\* A turn of a child: a node that its segment does not have is taken.
LEMMA TurnTaken ==
  ASSUME NEW S, NEW own, NEW other, NEW child, NEW len,
         own \in [1 .. len -> S], other \in [1 .. len -> S],
         NEW b, NEW n, NEW i, NEW j, IsWindow(len, b, n, i, j),
         \A x, y \in 1 .. n :
           Cyclic(other, b, n, j)[x] = Cyclic(other, b, n, j)[y] => x = y,
         NEW k \in 1 .. n, NEW w,
         TakenBy(child, S, own, other, b, n, i, j, k - 1, w),
         NEW node, node = Cyclic(other, b, n, j)[k]
  PROVE  \E v : TakenBy(Takes(child, node, b, n, i, j), S, own, other, b, n, i, j, k, v)
<1> DEFINE m == Room(n, i, j)
           new == Takes(child, node, b, n, i, j)
           C(r) == Cyclic(r, b, n, j)
<1>1. /\ len \in Nat /\ b \in Nat /\ n \in Nat /\ n >= 1 /\ b + n <= len
      /\ i \in Nat /\ j \in Nat /\ i <= j /\ j < n
  BY DEF IsWindow
<1>2. TurnsAround(len, b, n, i, j)
  BY TurnPlaces
<1>3. /\ m \in 0 .. n - 1 /\ m \in Nat /\ m < n /\ n \in Nat /\ k <= n
      /\ w \in 0 .. m /\ w \in Nat /\ w <= k - 1 /\ k \in Nat
  <2>1. m \in 0 .. n - 1
    BY <1>2 DEF TurnsAround
  <2>2. w \in 0 .. m /\ w <= k - 1
    BY DEF TakenBy
  <2> HIDE DEF m
  <2> QED
    BY <1>1, <2>1, <2>2
<1>4. /\ child.route \in [1 .. len -> S]
      /\ child.pos = Turn(n, j, w + 1)
  BY DEF TakenBy
<1>5. \A y \in 1 .. n : y > w => C(child.route)[y] = C(own)[y]
  <2>1. DOMAIN own = 1 .. len
    OBVIOUS
  <2>2. k - 1 \in Nat
    BY <1>3
  <2>3. Overwritten(child.route, own, b, n, j, w)
    BY ONLY <2>1, <2>2, Unwritten, IsWindow(len, b, n, i, j),
            TakenBy(child, S, own, other, b, n, i, j, k - 1, w)
  <2> QED
    BY <2>3 DEF Overwritten
<1>6. InSegment(child.route, b, i, j, node) <=> \E z \in m + 1 .. n : C(own)[z] = node
  <2>1. InSegment(child.route, b, i, j, node) <=>
          \E z \in m + 1 .. n : C(child.route)[z] = node
    <3>1. InSegment(child.route, b, i, j, node) <=> OnSegment(child.route, b, n, i, j, node)
      BY ONLY <1>4, SegmentNodes, IsWindow(len, b, n, i, j)
    <3> QED
      BY <3>1 DEF OnSegment
  <2>2. \A z \in m + 1 .. n : z \in 1 .. n /\ z > w
    BY <1>3
  <2> HIDE DEF m, C
  <2> QED
    BY <2>1, <2>2, <1>5
<1>7. child.pos = i <=> w = m
  <2>1. w + 1 \in 1 .. n /\ m + 1 \in 1 .. n
    BY <1>3
  <2>2. child.pos = i <=> Turn(n, j, w + 1) = Turn(n, j, m + 1)
    BY <1>2, <1>4 DEF TurnsAround
  <2>3. Turn(n, j, w + 1) = Turn(n, j, m + 1) <=> w + 1 = m + 1
    <3> HIDE DEF m
    <3> QED
      BY <2>1, <1>2 DEF TurnsAround
  <2> QED
    BY <2>2, <2>3, <1>3
<1>8. CASE child.pos = i \/ InSegment(child.route, b, i, j, node)
  <2>1. new = child
    BY <1>8 DEF Takes
  <2>2. TakenBy(child, S, own, other, b, n, i, j, k, w)
    <3>1. \A x \in 1 .. k - 1 : x \in 1 .. k
      BY <1>3
    <3>2. \A x \in 1 .. k : x \in 1 .. k - 1 \/ x = k
      BY <1>3
    <3>3. w < m => \E z \in m + 1 .. n : C(other)[k] = C(own)[z]
      BY <1>6, <1>7, <1>8, <1>3
    <3>4. w <= k
      BY <1>3
    <3> QED
      BY <3>1, <3>2, <3>3, <3>4 DEF TakenBy
  <2> QED
    BY <2>1, <2>2
<1>9. CASE ~(child.pos = i \/ InSegment(child.route, b, i, j, node))
  <2> DEFINE p == b + Turn(n, j, w + 1) + 1
  <2>1. /\ w < m /\ w + 1 \in 1 .. m /\ w + 1 \in 1 .. n - 1 /\ w + 1 \in 1 .. n
        /\ w + 1 <= k /\ w + 1 \in 0 .. m
    BY <1>3, <1>7, <1>9
  <2>2. /\ new.route = [child.route EXCEPT ![p] = node]
        /\ new.pos = Turn(n, j, (w + 1) + 1)
    <3>1. (Turn(n, j, w + 1) + 1) % n = Turn(n, j, (w + 1) + 1)
      BY <1>2, <2>1 DEF TurnsAround
    <3>2. new = [route |-> [child.route EXCEPT ![b + child.pos + 1] = node],
                 pos |-> (child.pos + 1) % n]
      BY <1>9 DEF Takes
    <3> QED
      BY <3>1, <3>2, <1>4
  <2>3. p \in 1 .. len
    BY <1>2, <2>1 DEF TurnsAround
  <2>4. node \in S
    <3>1. b + Turn(n, j, k) + 1 \in 1 .. len
      BY <1>2 DEF TurnsAround
    <3> QED
      BY <3>1 DEF Cyclic
  <2>5. new.route \in [1 .. len -> S]
    BY <1>4, <2>2, <2>3, <2>4
  <2>6. \A y \in 1 .. n : C(new.route)[y] = IF y = w + 1 THEN node ELSE C(child.route)[y]
    <3> SUFFICES ASSUME NEW y \in 1 .. n
                 PROVE  C(new.route)[y] = IF y = w + 1 THEN node ELSE C(child.route)[y]
      OBVIOUS
    <3> DEFINE q == b + Turn(n, j, y) + 1
    <3>1. q \in 1 .. len
      BY <1>2 DEF TurnsAround
    <3>2. q = p <=> y = w + 1
      <4>1. Turn(n, j, y) = Turn(n, j, w + 1) <=> y = w + 1
        BY <1>2, <2>1 DEF TurnsAround
      <4>2. Turn(n, j, y) \in Int /\ Turn(n, j, w + 1) \in Int
        BY <1>2, <2>1 DEF TurnsAround
      <4> QED
        BY <4>1, <4>2, <1>1
    <3>3. new.route[q] = IF q = p THEN node ELSE child.route[q]
      <4> HIDE DEF p, q, new
      <4> QED
        BY <1>4, <2>2, <3>1
    <3>4. C(new.route)[y] = new.route[q] /\ C(child.route)[y] = child.route[q]
      BY DEF Cyclic
    <3> HIDE DEF p, q, new, C
    <3> QED
      BY <3>2, <3>3, <3>4
  <2>7. \A y \in 1 .. w + 1 : y \in 1 .. n /\ (y \in 1 .. w \/ y = w + 1)
    BY <1>3, <2>1
  <2>8. \A y \in 1 .. w : y \in 1 .. n /\ y # w + 1 /\ y \in 1 .. w + 1
    BY <1>3, <2>1
  <2>9. \A x \in 1 .. k - 1 : x \in 1 .. k /\ x \in 1 .. n /\ x # k
    BY <1>3
  <2>10. ASSUME NEW y \in 1 .. w
         PROVE  /\ C(new.route)[y] = C(child.route)[y]
                /\ \E x \in 1 .. k - 1 : C(new.route)[y] = C(other)[x]
                /\ \A z \in m + 1 .. n : C(new.route)[y] # C(own)[z]
                /\ \A z \in 1 .. w : C(new.route)[y] = C(new.route)[z] => y = z
                /\ C(new.route)[y] # node
    <3>1. \A z \in 1 .. w : C(new.route)[z] = C(child.route)[z]
      <4> HIDE DEF C, new
      <4> QED
        BY <2>6, <2>8
    <3>2. /\ \E x \in 1 .. k - 1 : C(child.route)[y] = C(other)[x]
          /\ \A z \in m + 1 .. n : C(child.route)[y] # C(own)[z]
          /\ \A z \in 1 .. w : C(child.route)[y] = C(child.route)[z] => y = z
      BY DEF TakenBy
    <3>3. \A x \in 1 .. k - 1 : C(other)[x] # node
      BY <2>9
    <3> HIDE DEF C, new, m
    <3> QED
      BY <3>1, <3>2, <3>3
  <2>11. C(new.route)[w + 1] = node
    <3> HIDE DEF C, new
    <3> QED
      BY <2>6, <2>1
  <2>12. \A z \in m + 1 .. n : C(own)[z] # node
    BY <1>6, <1>9
  <2>13. TakenBy(new, S, own, other, b, n, i, j, k, w + 1)
    <3>1. new.route \in [DOMAIN own -> S]
      BY <2>5
    <3>2. \A q \in DOMAIN own :
            (\A y \in 1 .. w + 1 : q # b + Turn(n, j, y) + 1) => new.route[q] = own[q]
      <4> SUFFICES ASSUME NEW q \in DOMAIN own,
                          \A y \in 1 .. w + 1 : q # b + Turn(n, j, y) + 1
                   PROVE  new.route[q] = own[q]
        OBVIOUS
      <4>1. w + 1 \in 1 .. w + 1 /\ \A y \in 1 .. w : y \in 1 .. w + 1
        BY <1>3
      <4>2. q # p
        BY <4>1
      <4>3. child.route[q] = own[q]
        BY <4>1 DEF TakenBy
      <4>4. new.route[q] = child.route[q]
        <5> HIDE DEF p, new
        <5> QED
          BY <1>4, <2>2, <4>2
      <4> QED
        BY <4>3, <4>4
    <3>3. \A y \in 1 .. w + 1 : \E x \in 1 .. k : C(new.route)[y] = C(other)[x]
      <4>1. k \in 1 .. k /\ node = C(other)[k]
        BY <1>3
      <4> HIDE DEF C, new, m
      <4>2. ASSUME NEW y \in 1 .. w + 1
            PROVE  \E x \in 1 .. k : C(new.route)[y] = C(other)[x]
        <5>1. CASE y = w + 1
          BY <5>1, <2>11, <4>1
        <5>2. CASE y \in 1 .. w
          BY <5>2, <2>9, <2>10
        <5> QED
          BY <5>1, <5>2, <2>7
      <4> QED
        BY <4>2
    <3>4. \A y \in 1 .. w + 1 : \A z \in m + 1 .. n : C(new.route)[y] # C(own)[z]
      <4> HIDE DEF C, new, m
      <4> QED
        BY <2>7, <2>10, <2>11, <2>12
    <3>5. \A y, z \in 1 .. w + 1 : C(new.route)[y] = C(new.route)[z] => y = z
      <4> HIDE DEF C, new, m
      <4> QED
        BY <2>7, <2>10, <2>11
    <3>6. w + 1 < m =>
            \A x \in 1 .. k :
              \/ \E z \in m + 1 .. n : C(other)[x] = C(own)[z]
              \/ \E y \in 1 .. w + 1 : C(other)[x] = C(new.route)[y]
      <4> SUFFICES ASSUME NEW x \in 1 .. k
                   PROVE  \/ \E z \in m + 1 .. n : C(other)[x] = C(own)[z]
                          \/ \E y \in 1 .. w + 1 : C(other)[x] = C(new.route)[y]
        OBVIOUS
      <4>1. CASE x = k
        <5>1. w + 1 \in 1 .. w + 1
          BY <1>3
        <5> HIDE DEF new
        <5> QED
          BY <4>1, <2>11, <5>1
      <4>2. CASE x \in 1 .. k - 1
        <5>1. \/ \E z \in m + 1 .. n : C(other)[x] = C(own)[z]
              \/ \E y \in 1 .. w : C(other)[x] = C(child.route)[y]
          BY <4>2, <2>1 DEF TakenBy
        <5> HIDE DEF C, new, m
        <5> QED
          BY <5>1, <2>8, <2>10
      <4> QED
        BY <4>1, <4>2, <1>3
    <3> HIDE DEF new
    <3> QED
      BY <2>1, <2>2, <3>1, <3>2, <3>3, <3>4, <3>5, <3>6 DEF TakenBy
  <2> QED
    BY <2>13
<1> QED
  BY <1>8, <1>9

\* A list that names every member of a set once.
Lists(f, n, W) ==
  /\ f \in [1 .. n -> W]
  /\ \A x, y \in 1 .. n : f[x] = f[y] => x = y
  /\ \A v \in W : \E x \in 1 .. n : f[x] = v

\* A list of n members of a set that has n is complete if none is named twice.
LEMMA CompleteList ==
  ASSUME NEW n \in Nat, NEW W, NEW f, Lists(f, n, W), NEW g \in [1 .. n -> W],
         \A x, y \in 1 .. n : g[x] = g[y] => x = y
  PROVE  Lists(g, n, W)
<1>1. f \in Surjection(1 .. n, W) /\ f \in Injection(1 .. n, W)
  BY DEF Lists, Surjection, Injection, IsInjective
<1>2. IsFiniteSet(1 .. n) /\ Cardinality(1 .. n) = n
  BY FS_Interval
<1>3. IsFiniteSet(W) /\ Cardinality(W) = n
  BY <1>1, <1>2, FS_Surjection
<1>4. g \in Injection(1 .. n, W)
  BY DEF Injection, IsInjective
<1>5. g \in Surjection(1 .. n, W)
  BY <1>2, <1>3, <1>4, FS_Injection
<1> QED
  BY <1>5 DEF Surjection, Lists

\* Every member of W is named at a place other than m.
NamedElsewhere(g, n, W, m) == \A v \in W : \E x \in 1 .. n : x # m /\ g[x] = v

\* A list cannot do without one of its places.
LEMMA NoListWithAGap ==
  ASSUME NEW n \in Nat, NEW W, NEW f, Lists(f, n, W), NEW m \in 1 .. n,
         NEW g \in [1 .. n -> W],
         NamedElsewhere(g, n, W, m)
  PROVE  FALSE
<1> DEFINE D == (1 .. n) \ {m}
           h == [x \in D |-> g[x]]
<1>1. f \in Surjection(1 .. n, W) /\ f \in Injection(1 .. n, W)
  BY DEF Lists, Surjection, Injection, IsInjective
<1>2. IsFiniteSet(1 .. n) /\ Cardinality(1 .. n) = n
  BY FS_Interval
<1>3. IsFiniteSet(W) /\ Cardinality(W) = n
  BY <1>1, <1>2, FS_Surjection
<1>4. IsFiniteSet(D) /\ Cardinality(D) = n - 1
  BY <1>2, FS_RemoveElement
<1>5. h \in Surjection(D, W)
  BY DEF Surjection, NamedElsewhere
<1>6. Cardinality(W) <= Cardinality(D)
  <2> HIDE DEF D, h
  <2> QED
    BY <1>4, <1>5, FS_Surjection
<1> QED
  BY <1>3, <1>4, <1>6

\* When the loop is over a child has every node of the window once.
LEMMA RoomFilled ==
  ASSUME NEW S, NEW own, NEW other, NEW child, NEW len,
         own \in [1 .. len -> S], other \in [1 .. len -> S],
         NEW b, NEW n, NEW i, NEW j, IsWindow(len, b, n, i, j), NEW W,
         Lists(Cyclic(own, b, n, j), n, W), Lists(Cyclic(other, b, n, j), n, W),
         NEW w, TakenBy(child, S, own, other, b, n, i, j, n, w)
  PROVE  Lists(Cyclic(child.route, b, n, j), n, W)
<1> DEFINE m == Room(n, i, j)
           C(r) == Cyclic(r, b, n, j)
           g == C(child.route)
<1>1. n \in Nat /\ n >= 1
  BY DEF IsWindow
<1>2. m \in 0 .. n - 1
  BY TurnPlaces DEF TurnsAround
<1>3. w \in 0 .. m
  BY DEF TakenBy
<1>4. \A y \in 1 .. n : y > w => g[y] = C(own)[y]
  <2>1. DOMAIN own = 1 .. len
    OBVIOUS
  <2>3. Overwritten(child.route, own, b, n, j, w)
    BY ONLY <2>1, <1>1, Unwritten, IsWindow(len, b, n, i, j),
            TakenBy(child, S, own, other, b, n, i, j, n, w)
  <2> QED
    BY <2>3 DEF Overwritten
<1>5. /\ \A y \in 1 .. w : \E x \in 1 .. n : g[y] = C(other)[x]
      /\ \A y \in 1 .. w : \A z \in m + 1 .. n : g[y] # C(own)[z]
      /\ \A y, z \in 1 .. w : g[y] = g[z] => y = z
      /\ w < m => \A x \in 1 .. n :
                    \/ \E z \in m + 1 .. n : C(other)[x] = C(own)[z]
                    \/ \E y \in 1 .. w : C(other)[x] = g[y]
  BY DEF TakenBy
<1>6. /\ C(own) \in [1 .. n -> W] /\ C(other) \in [1 .. n -> W]
      /\ \A x, y \in 1 .. n : C(own)[x] = C(own)[y] => x = y
      /\ \A v \in W : \E x \in 1 .. n : C(other)[x] = v
  BY DEF Lists
<1>7. g = [y \in 1 .. n |-> g[y]]
  BY DEF Cyclic
<1> HIDE DEF g, C, m
<1>8. /\ \A y \in 1 .. n : y \in 1 .. w \/ y > w
      /\ \A z \in m + 1 .. n : z \in 1 .. n /\ z > w /\ z # m
      /\ \A y \in 1 .. w : y \in 1 .. n
  BY <1>1, <1>2, <1>3
<1>9. g \in [1 .. n -> W]
  <2>1. ASSUME NEW y \in 1 .. n
        PROVE  g[y] \in W
    <3>1. CASE y \in 1 .. w
      BY <3>1, <1>5, <1>6
    <3>2. CASE y > w
      BY <3>2, <1>4, <1>6
    <3> QED
      BY <3>1, <3>2, <1>8
  <2> QED
    BY <2>1, <1>7
<1>10. w = m
  <2> SUFFICES ASSUME w < m
               PROVE  FALSE
    BY <1>1, <1>2, <1>3
  <2>1. m \in 1 .. n /\ \A y \in 1 .. w : y # m
    BY <1>1, <1>2, <1>3
  <2>2. ASSUME NEW v \in W
        PROVE  \E x \in 1 .. n : x # m /\ g[x] = v
    <3>1. PICK x \in 1 .. n : C(other)[x] = v
      BY <1>6
    <3>2. CASE \E z \in m + 1 .. n : C(other)[x] = C(own)[z]
      BY <3>1, <3>2, <1>4, <1>8
    <3>3. CASE \E y \in 1 .. w : C(other)[x] = g[y]
      BY <3>1, <3>3, <1>8, <2>1
    <3> QED
      BY <3>2, <3>3, <1>5
  <2>3. Lists(C(own), n, W)
    BY DEF C
  <2>4. NamedElsewhere(g, n, W, m)
    BY <2>2 DEF NamedElsewhere
  <2> QED
    BY ONLY <1>1, <1>9, <2>1, <2>3, <2>4, NoListWithAGap
<1>11. \A x, y \in 1 .. n : g[x] = g[y] => x = y
  <2> SUFFICES ASSUME NEW x \in 1 .. n, NEW y \in 1 .. n, g[x] = g[y]
               PROVE  x = y
    OBVIOUS
  <2>1. \A z \in 1 .. n : z \in 1 .. w \/ z \in m + 1 .. n
    BY <1>1, <1>2, <1>10
  <2>2. CASE x \in 1 .. w /\ y \in 1 .. w
    BY <2>2, <1>5
  <2>3. CASE x \in 1 .. w /\ y \in m + 1 .. n
    BY <2>3, <1>4, <1>5, <1>8
  <2>4. CASE y \in 1 .. w /\ x \in m + 1 .. n
    BY <2>4, <1>4, <1>5, <1>8
  <2>5. CASE x \in m + 1 .. n /\ y \in m + 1 .. n
    BY <2>5, <1>4, <1>6, <1>8
  <2> QED
    BY <2>1, <2>2, <2>3, <2>4, <2>5
<1>12. Lists(C(own), n, W)
  BY DEF C
<1>13. Lists(g, n, W)
  BY ONLY <1>1, <1>9, <1>11, <1>12, CompleteList
<1> QED
  BY <1>13 DEF g, C

\* The children of r1 and r2 before each of the turns.
BredOf(r1, r2, b, n, i, j) ==
  LET bred[cnt \in 0 .. n] ==
        IF cnt = 0 THEN <<[route |-> r1, pos |-> (j + 1) % n],
                          [route |-> r2, pos |-> (j + 1) % n]>>
        ELSE <<Takes(bred[cnt - 1][1], At(bred[cnt - 1][2].route, b + ((j + cnt) % n)),
                     b, n, i, j),
               Takes(bred[cnt - 1][2], At(bred[cnt - 1][1].route, b + ((j + cnt) % n)),
                     b, n, i, j)>>
  IN  bred

\* Ox answers with the children after the last turn.
LEMMA OxIsLast ==
  ASSUME NEW r1, NEW r2, NEW b, NEW e, NEW i, NEW j, NEW n, n = e - b + 1
  PROVE  Ox(r1, r2, b, e, i, j) = <<BredOf(r1, r2, b, n, i, j)[n][1].route,
                                    BredOf(r1, r2, b, n, i, j)[n][2].route>>
BY DEF Ox, BredOf, Takes

\* The loop of Ox.
Breeds(g, r1, r2, b, n, i, j) ==
  /\ g[0] = <<[route |-> r1, pos |-> (j + 1) % n], [route |-> r2, pos |-> (j + 1) % n]>>
  /\ \A k \in 1 .. n :
       g[k] = <<Takes(g[k - 1][1], At(g[k - 1][2].route, b + ((j + k) % n)), b, n, i, j),
                Takes(g[k - 1][2], At(g[k - 1][1].route, b + ((j + k) % n)), b, n, i, j)>>

\* What a child may be: a route of the same nodes and an index of the window.
Child(S, len, n) == [route : [1 .. len -> S], pos : 0 .. n - 1]

\* A child remains one.
LEMMA TakesType ==
  ASSUME NEW S, NEW len, NEW b, NEW n, NEW i, NEW j, IsWindow(len, b, n, i, j),
         NEW child \in Child(S, len, n), NEW node \in S
  PROVE  Takes(child, node, b, n, i, j) \in Child(S, len, n)
<1>1. /\ n \in Nat /\ n >= 1 /\ b \in Nat /\ len \in Nat
      /\ child.route \in [1 .. len -> S] /\ child.pos \in 0 .. n - 1
  BY DEF IsWindow, Child
<1>2. (child.pos + 1) % n \in 0 .. n - 1
  BY <1>1
<1>3. [child.route EXCEPT ![b + child.pos + 1] = node] \in [1 .. len -> S]
  BY <1>1
<1> QED
  BY <1>2, <1>3 DEF Takes, Child

\* It computes something, and turn by turn.
LEMMA BredStep ==
  ASSUME NEW S, NEW r1, NEW r2, NEW len, r1 \in [1 .. len -> S], r2 \in [1 .. len -> S],
         NEW b, NEW n, NEW i, NEW j, IsWindow(len, b, n, i, j)
  PROVE  Breeds(BredOf(r1, r2, b, n, i, j), r1, r2, b, n, i, j)
<1> DEFINE T == Child(S, len, n) \X Child(S, len, n)
           a == <<[route |-> r1, pos |-> (j + 1) % n], [route |-> r2, pos |-> (j + 1) % n]>>
           turn(c, k) == <<Takes(c[1], At(c[2].route, b + ((j + k) % n)), b, n, i, j),
                           Takes(c[2], At(c[1].route, b + ((j + k) % n)), b, n, i, j)>>
           Def(g) == g = [k \in 0 .. n |-> IF k = 0 THEN a ELSE turn(g[k - 1], k)]
           step == [k \in 1 .. n |-> [c \in T |-> turn(c, k)]]
<1>1. n \in Nat /\ n >= 1 /\ j \in Nat /\ j < n /\ b \in Nat /\ b + n <= len /\ len \in Nat
  BY DEF IsWindow
<1>2. \A k \in 1 .. n : \A c \in T : turn(c, k) \in T
  <2> SUFFICES ASSUME NEW k \in 1 .. n, NEW c \in T
               PROVE  turn(c, k) \in T
    OBVIOUS
  <2>1. (j + k) % n \in 0 .. n - 1
    BY <1>1
  <2>2. c[1] \in Child(S, len, n) /\ c[2] \in Child(S, len, n)
    OBVIOUS
  <2>3. c[1].route \in [1 .. len -> S] /\ c[2].route \in [1 .. len -> S]
    BY <2>2 DEF Child
  <2>4. b + ((j + k) % n) + 1 \in 1 .. len
    BY <2>1, <1>1
  <2>5. /\ At(c[1].route, b + ((j + k) % n)) \in S
        /\ At(c[2].route, b + ((j + k) % n)) \in S
    BY <2>3, <2>4 DEF At
  <2>6. /\ Takes(c[1], At(c[2].route, b + ((j + k) % n)), b, n, i, j) \in Child(S, len, n)
        /\ Takes(c[2], At(c[1].route, b + ((j + k) % n)), b, n, i, j) \in Child(S, len, n)
    BY <2>2, <2>5, TakesType
  <2> QED
    BY <2>6
<1>3. a \in T
  <2>1. (j + 1) % n \in 0 .. n - 1
    BY <1>1
  <2> QED
    BY <2>1 DEF Child
<1>4. \E f \in [0 .. n -> T] : Iterates(f, n, a, step)
  <2>1. step \in [1 .. n -> [T -> T]]
    <3> HIDE DEF turn, T
    <3> QED
      BY <1>2
  <2> HIDE DEF step, T, a
  <2> QED
    BY ONLY <1>1, <1>3, <2>1, Iteration
<1>5. PICK f \in [0 .. n -> T] : Def(f)
  <2>1. PICK f \in [0 .. n -> T] :
           f[0] = a /\ \A k \in 1 .. n : f[k] = step[k][f[k - 1]]
    BY <1>4 DEF Iterates
  <2>2. ASSUME NEW k \in 1 .. n
        PROVE  f[k] = turn(f[k - 1], k)
    <3>1. k - 1 \in 0 .. n
      BY <1>1
    <3> HIDE DEF T, turn
    <3>2. f[k - 1] \in T
      BY <2>1, <3>1
    <3> QED
      BY <2>1, <3>2
  <2>3. \A k \in 0 .. n : k = 0 \/ k \in 1 .. n
    BY <1>1
  <2>4. f[0] = a
    BY <2>1
  <2>5. 0 \notin 1 .. n
    BY <1>1
  <2> HIDE DEF T, step, turn, a
  <2>6. Def(f)
    BY <2>2, <2>3, <2>4, <2>5
  <2> QED
    BY <2>6
<1>6. Def(BredOf(r1, r2, b, n, i, j))
  BY <1>5 DEF BredOf
<1> DEFINE g == BredOf(r1, r2, b, n, i, j)
<1> HIDE DEF g
<1>7. g[0] = a /\ \A k \in 1 .. n : g[k] = turn(g[k - 1], k)
  <2>1. Def(g)
    BY <1>6 DEF g
  <2>2. 0 \in 0 .. n /\ \A k \in 1 .. n : k \in 0 .. n /\ k # 0
    BY <1>1
  <2> HIDE DEF a, turn
  <2> QED
    BY <2>1, <2>2
<1> QED
  BY <1>7 DEF Breeds, g

\* The nodes of a route at the n indices from b on.
Window(r, b, n) == [y \in 1 .. n |-> r[b + y]]

\* The order in which the turns read a window is one of its orders.
LEMMA SameWindow ==
  ASSUME NEW r, NEW len, NEW b, NEW n, NEW i, NEW j, IsWindow(len, b, n, i, j), NEW W
  PROVE  Lists(Window(r, b, n), n, W) <=> Lists(Cyclic(r, b, n, j), n, W)
<1> DEFINE w == Window(r, b, n)
           c == Cyclic(r, b, n, j)
           turn(y) == Turn(n, j, y) + 1
<1>1. n \in Nat /\ b \in Nat
  BY DEF IsWindow
<1>2. TurnsAround(len, b, n, i, j)
  BY TurnPlaces
<1>3. /\ \A y \in 1 .. n : turn(y) \in 1 .. n
      /\ \A x, y \in 1 .. n : turn(x) = turn(y) => x = y
      /\ \A k \in 1 .. n : \E y \in 1 .. n : turn(y) = k
  <2>1. \A y \in 1 .. n : Turn(n, j, y) \in 0 .. n - 1
    BY <1>2 DEF TurnsAround
  <2>2. \A x, y \in 1 .. n : Turn(n, j, x) = Turn(n, j, y) => x = y
    BY <1>2 DEF TurnsAround
  <2>3. \A k \in 0 .. n - 1 : \E y \in 1 .. n : Turn(n, j, y) = k
    BY <1>2 DEF TurnsAround
  <2>4. ASSUME NEW k \in 1 .. n
        PROVE  \E y \in 1 .. n : turn(y) = k
    <3>1. k - 1 \in 0 .. n - 1 /\ (k - 1) + 1 = k
      BY <1>1
    <3> QED
      BY <3>1, <2>3
  <2>5. \A y \in 1 .. n : turn(y) \in 1 .. n /\ Turn(n, j, y) \in Int
    BY <1>1, <2>1
  <2>6. \A x, y \in 1 .. n : turn(x) = turn(y) => x = y
    BY <2>2, <2>5
  <2> HIDE DEF turn
  <2> QED
    BY <2>4, <2>5, <2>6
<1>4. \A y \in 1 .. n : c[y] = w[turn(y)]
  <2> SUFFICES ASSUME NEW y \in 1 .. n
               PROVE  c[y] = w[turn(y)]
    OBVIOUS
  <2>1. b + (Turn(n, j, y) + 1) = b + Turn(n, j, y) + 1
    <3>1. Turn(n, j, y) \in Int
      BY <1>2 DEF TurnsAround
    <3> QED
      BY <1>1, <3>1
  <2>2. w[turn(y)] = r[b + turn(y)]
    BY <1>3 DEF Window
  <2> QED
    BY <2>1, <2>2 DEF Cyclic
<1>5. w = [y \in 1 .. n |-> w[y]] /\ c = [y \in 1 .. n |-> c[y]]
  BY DEF Window, Cyclic
<1> HIDE DEF w, c, turn
<1>6. (\A y \in 1 .. n : w[y] \in W) <=> (\A y \in 1 .. n : c[y] \in W)
  BY <1>3, <1>4
<1>7. w \in [1 .. n -> W] <=> c \in [1 .. n -> W]
  BY <1>5, <1>6
<1>8. (\A x, y \in 1 .. n : w[x] = w[y] => x = y)
        <=> (\A x, y \in 1 .. n : c[x] = c[y] => x = y)
  <2>1. ASSUME \A x, y \in 1 .. n : w[x] = w[y] => x = y
        PROVE  \A x, y \in 1 .. n : c[x] = c[y] => x = y
    BY <2>1, <1>3, <1>4
  <2>2. ASSUME \A x, y \in 1 .. n : c[x] = c[y] => x = y,
               NEW x \in 1 .. n, NEW y \in 1 .. n, w[x] = w[y]
        PROVE  x = y
    <3>1. PICK u \in 1 .. n : turn(u) = x
      BY <1>3
    <3>2. PICK v \in 1 .. n : turn(v) = y
      BY <1>3
    <3>3. c[u] = c[v]
      BY <1>4, <2>2, <3>1, <3>2
    <3> QED
      BY <2>2, <3>1, <3>2, <3>3
  <2> QED
    BY <2>1, <2>2
<1>9. (\A v \in W : \E x \in 1 .. n : w[x] = v) <=> (\A v \in W : \E x \in 1 .. n : c[x] = v)
  BY <1>3, <1>4
<1>10. Lists(w, n, W) <=> Lists(c, n, W)
  BY <1>7, <1>8, <1>9 DEF Lists
<1> QED
  BY <1>10 DEF w, c

\* A route whose window has the same nodes in another order.
IsChild(q, own, S, len, b, n, W) ==
  /\ q \in [1 .. len -> S]
  /\ Lists(Window(q, b, n), n, W)
  /\ \A p \in 1 .. len : p \notin b + 1 .. b + n => q[p] = own[p]

\* route_ox loses no node, names none twice and leaves the rest of the routes as
\* it was, although it overwrites the routes that it reads from.
LEMMA OxExact ==
  ASSUME NEW S, NEW r1, NEW r2, NEW len, r1 \in [1 .. len -> S], r2 \in [1 .. len -> S],
         NEW b, NEW n, NEW i, NEW j, IsWindow(len, b, n, i, j), NEW W,
         Lists(Window(r1, b, n), n, W), Lists(Window(r2, b, n), n, W),
         NEW e, n = e - b + 1
  PROVE  \E q1, q2 : /\ Ox(r1, r2, b, e, i, j) = <<q1, q2>>
                      /\ IsChild(q1, r1, S, len, b, n, W)
                      /\ IsChild(q2, r2, S, len, b, n, W)
<1> DEFINE C(r) == Cyclic(r, b, n, j)
           g == BredOf(r1, r2, b, n, i, j)
           Inv(k) == /\ \E w : TakenBy(g[k][1], S, r1, r2, b, n, i, j, k, w)
                     /\ \E w : TakenBy(g[k][2], S, r2, r1, b, n, i, j, k, w)
<1>1. /\ n \in Nat /\ n >= 1 /\ b \in Nat /\ len \in Nat /\ b + n <= len
  BY DEF IsWindow
<1>2. TurnsAround(len, b, n, i, j)
  BY TurnPlaces
<1>3. Lists(C(r1), n, W) /\ Lists(C(r2), n, W)
  BY SameWindow
<1>4. Breeds(g, r1, r2, b, n, i, j)
  BY ONLY r1 \in [1 .. len -> S], r2 \in [1 .. len -> S], IsWindow(len, b, n, i, j), BredStep
<1> HIDE DEF g
<1>5. Inv(0)
  <2>1. /\ (j + 1) % n = Turn(n, j, 0 + 1) /\ 0 \in 0 .. Room(n, i, j)
    <3>1. 1 \in 1 .. n /\ 0 + 1 = 1
      BY <1>1
    <3>2. Room(n, i, j) \in 0 .. n - 1
      BY <1>2 DEF TurnsAround
    <3>3. 0 \in 0 .. Room(n, i, j)
      BY <1>1, <3>2
    <3> QED
      BY <1>2, <3>1, <3>3 DEF TurnsAround
  <2>2. \A y : y \notin 1 .. 0
    OBVIOUS
  <2>3. /\ TakenBy([route |-> r1, pos |-> (j + 1) % n], S, r1, r2, b, n, i, j, 0, 0)
        /\ TakenBy([route |-> r2, pos |-> (j + 1) % n], S, r2, r1, b, n, i, j, 0, 0)
    BY <2>1, <2>2 DEF TakenBy
  <2> QED
    BY <2>3, <1>4 DEF Breeds
<1>6. ASSUME NEW k \in 1 .. n, Inv(k - 1)
      PROVE  Inv(k)
  <2>1. PICK w1 : TakenBy(g[k - 1][1], S, r1, r2, b, n, i, j, k - 1, w1)
    BY <1>6
  <2>2. PICK w2 : TakenBy(g[k - 1][2], S, r2, r1, b, n, i, j, k - 1, w2)
    BY <1>6
  <2>3. k - 1 \in Nat /\ DOMAIN r1 = 1 .. len /\ DOMAIN r2 = 1 .. len
    BY <1>1
  <2>4. /\ Overwritten(g[k - 1][1].route, r1, b, n, j, w1)
        /\ Overwritten(g[k - 1][2].route, r2, b, n, j, w2)
    BY ONLY <2>1, <2>2, <2>3, IsWindow(len, b, n, i, j), Unwritten
  <2>5. k > w1 /\ k > w2
    <3>1. w1 \in 0 .. Room(n, i, j) /\ w1 <= k - 1 /\ w2 \in 0 .. Room(n, i, j) /\ w2 <= k - 1
      BY <2>1, <2>2 DEF TakenBy
    <3> QED
      BY <3>1, <1>1
  <2>6. /\ At(g[k - 1][1].route, b + ((j + k) % n)) = C(r1)[k]
        /\ At(g[k - 1][2].route, b + ((j + k) % n)) = C(r2)[k]
    <3>1. (j + k) % n = Turn(n, j, k)
      BY <1>2 DEF TurnsAround
    <3>2. /\ C(g[k - 1][1].route)[k] = C(r1)[k]
          /\ C(g[k - 1][2].route)[k] = C(r2)[k]
      BY <2>4, <2>5 DEF Overwritten
    <3> QED
      BY <3>1, <3>2 DEF Cyclic, At
  <2>7. g[k] = <<Takes(g[k - 1][1], C(r2)[k], b, n, i, j),
                 Takes(g[k - 1][2], C(r1)[k], b, n, i, j)>>
    BY <1>4, <2>6 DEF Breeds
  <2>8. /\ \A x, y \in 1 .. n : Cyclic(r1, b, n, j)[x] = Cyclic(r1, b, n, j)[y] => x = y
        /\ \A x, y \in 1 .. n : Cyclic(r2, b, n, j)[x] = Cyclic(r2, b, n, j)[y] => x = y
    BY <1>3 DEF Lists
  <2>9. \E v : TakenBy(Takes(g[k - 1][1], C(r2)[k], b, n, i, j), S, r1, r2, b, n, i, j, k, v)
    BY <2>1, <2>8, TurnTaken
  <2>10. \E v : TakenBy(Takes(g[k - 1][2], C(r1)[k], b, n, i, j), S, r2, r1, b, n, i, j, k, v)
    BY <2>2, <2>8, TurnTaken
  <2> QED
    BY <2>7, <2>9, <2>10
<1>7. Inv(n)
  <2> DEFINE P == {k \in 0 .. n : Inv(k)}
  <2>1. 0 \in P
    BY <1>1, <1>5
  <2>2. \A k \in 0 .. n - 1 : k \in P => k + 1 \in P
    <3> SUFFICES ASSUME NEW k \in 0 .. n - 1, Inv(k)
                 PROVE  k + 1 \in P
      OBVIOUS
    <3>1. k + 1 \in 1 .. n /\ k + 1 \in 0 .. n /\ (k + 1) - 1 = k
      BY <1>1
    <3> HIDE DEF Inv
    <3> QED
      BY <3>1, <1>6
  <2> HIDE DEF P, Inv
  <2>3. 0 .. n \subseteq P
    BY ONLY <1>1, <2>1, <2>2, IntervalInduction
  <2>4. n \in 0 .. n
    BY <1>1
  <2> QED
    BY <2>3, <2>4 DEF P
<1>8. PICK w1 : TakenBy(g[n][1], S, r1, r2, b, n, i, j, n, w1)
  BY <1>7
<1>9. PICK w2 : TakenBy(g[n][2], S, r2, r1, b, n, i, j, n, w2)
  BY <1>7
<1> DEFINE q1 == g[n][1].route
           q2 == g[n][2].route
<1>10. Lists(C(q1), n, W) /\ Lists(C(q2), n, W)
  <2>1. Lists(Cyclic(g[n][1].route, b, n, j), n, W)
    BY <1>3, <1>8, RoomFilled
  <2>2. Lists(Cyclic(g[n][2].route, b, n, j), n, W)
    BY <1>3, <1>9, RoomFilled
  <2> QED
    BY <2>1, <2>2
<1>11. Lists(Window(q1, b, n), n, W) /\ Lists(Window(q2, b, n), n, W)
  BY <1>10, SameWindow
<1>12. q1 \in [1 .. len -> S] /\ q2 \in [1 .. len -> S]
  BY <1>8, <1>9 DEF TakenBy
<1>13. ASSUME NEW p \in 1 .. len, p \notin b + 1 .. b + n
       PROVE  q1[p] = r1[p] /\ q2[p] = r2[p]
  <2>1. ASSUME NEW w \in 0 .. Room(n, i, j), NEW y \in 1 .. w
        PROVE  p # b + Turn(n, j, y) + 1
    <3>1. y \in 1 .. n
      <4>1. Room(n, i, j) \in 0 .. n - 1
        BY <1>2 DEF TurnsAround
      <4> QED
        BY <4>1, <2>1, <1>1
    <3>2. Turn(n, j, y) \in 0 .. n - 1
      BY <1>2, <3>1 DEF TurnsAround
    <3> QED
      BY <3>2, <1>1, <1>13
  <2>2. w1 \in 0 .. Room(n, i, j) /\ w2 \in 0 .. Room(n, i, j)
    BY <1>8, <1>9 DEF TakenBy
  <2>3. p \in DOMAIN r1 /\ p \in DOMAIN r2
    OBVIOUS
  <2>4. /\ \A y \in 1 .. w1 : p # b + Turn(n, j, y) + 1
        /\ \A y \in 1 .. w2 : p # b + Turn(n, j, y) + 1
    BY <2>1, <2>2
  <2>5. q1[p] = r1[p]
    BY <1>8, <2>3, <2>4 DEF TakenBy
  <2>6. q2[p] = r2[p]
    BY <1>9, <2>3, <2>4 DEF TakenBy
  <2> QED
    BY <2>5, <2>6
<1>14. Ox(r1, r2, b, e, i, j) = <<q1, q2>>
  BY OxIsLast DEF g
<1>15. IsChild(q1, r1, S, len, b, n, W) /\ IsChild(q2, r2, S, len, b, n, W)
  <2> HIDE DEF q1, q2
  <2> QED
    BY <1>11, <1>12, <1>13 DEF IsChild
<1> QED
  BY <1>14, <1>15

-----------------------------------------------------------------------------
(***************************************************************************)
(* Lists in another order                                                  *)
(***************************************************************************)

\* A list read along a permutation of its positions.
LEMMA ListsAlong ==
  ASSUME NEW n \in Nat, NEW W, NEW f, Lists(f, n, W), NEW p \in [1 .. n -> 1 .. n],
         \A v \in 1 .. n : \E y \in 1 .. n : p[y] = v,
         NEW g \in [1 .. n -> W], \A y \in 1 .. n : g[y] = f[p[y]]
  PROVE  Lists(g, n, W)
<1>1. IsFiniteSet(1 .. n) /\ p \in Surjection(1 .. n, 1 .. n)
  BY FS_Interval DEF Surjection
<1>2. p \in Injection(1 .. n, 1 .. n)
  BY <1>1, FS_Surjection
<1>3. \A x, y \in 1 .. n : p[x] = p[y] => x = y
  BY <1>2 DEF Injection, IsInjective
<1>4. /\ \A x, y \in 1 .. n : f[x] = f[y] => x = y
      /\ \A v \in W : \E x \in 1 .. n : f[x] = v
  BY DEF Lists
<1>5. ASSUME NEW x \in 1 .. n, NEW y \in 1 .. n, g[x] = g[y] PROVE x = y
  <2>1. p[x] \in 1 .. n /\ p[y] \in 1 .. n /\ f[p[x]] = f[p[y]]
    BY <1>5
  <2> QED
    BY <1>3, <1>4, <2>1
<1>6. ASSUME NEW v \in W PROVE \E x \in 1 .. n : g[x] = v
  <2>1. PICK z \in 1 .. n : f[z] = v
    BY <1>4
  <2>2. PICK y \in 1 .. n : p[y] = z
    OBVIOUS
  <2>3. g[y] = v
    BY <2>1, <2>2
  <2> QED
    BY <2>3
<1> QED
  BY <1>5, <1>6 DEF Lists

\* What shuffling does to the indices from b on.
LEMMA ShuffledList ==
  ASSUME NEW S, NEW len \in Nat, NEW r \in [1 .. len -> S],
         NEW b \in Nat, NEW n \in Nat, b + n <= len, NEW e, e = b + n - 1,
         NEW W, Lists(Window(r, b, n), n, W), NEW s \in Shuffles(r, b, e)
  PROVE  IsChild(s, r, S, len, b, n, W)
<1>1. PICK p \in Bijection(b .. e, b .. e) :
        s = [k \in 1 .. len |-> IF k - 1 \in b .. e THEN r[p[k - 1] + 1] ELSE r[k]]
  BY DEF Shuffles, At
<1>2. p \in [b .. e -> b .. e] /\ \A w \in b .. e : \E v \in b .. e : p[v] = w
  BY DEF Bijection, Injection, Surjection
<1>3. e \in Int
  OBVIOUS
<1>4. ASSUME NEW k \in 1 .. len PROVE s[k] \in S
  <2>1. CASE k - 1 \in b .. e
    <3>1. p[k - 1] \in b .. e
      BY <1>2, <2>1
    <3>2. p[k - 1] + 1 \in 1 .. len
      BY <1>3, <3>1
    <3> QED
      BY <1>1, <2>1, <3>2
  <2>2. CASE k - 1 \notin b .. e
    BY <1>1, <2>2
  <2> QED
    BY <2>1, <2>2
<1>5. s \in [1 .. len -> S]
  BY <1>1, <1>4
<1>6. ASSUME NEW k \in 1 .. len, k \notin b + 1 .. b + n PROVE s[k] = r[k]
  <2>1. k - 1 \notin b .. e
    BY <1>6
  <2> QED
    BY <1>1, <2>1
<1> DEFINE q == [y \in 1 .. n |-> p[b + y - 1] - b + 1]
           f == Window(r, b, n)
           g == Window(s, b, n)
<1>7. ASSUME NEW y \in 1 .. n
      PROVE  /\ q[y] \in 1 .. n
             /\ g[y] = f[q[y]]
  <2>1. b + y - 1 \in b .. e /\ b + y \in 1 .. len /\ (b + y) - 1 = b + y - 1
    BY <1>3
  <2>2. p[b + y - 1] \in b .. e
    BY <1>2, <2>1
  <2>3. q[y] \in 1 .. n /\ b + q[y] = p[b + y - 1] + 1
    <3>1. q[y] = p[b + y - 1] - b + 1
      OBVIOUS
    <3> DEFINE z == p[b + y - 1]
    <3>2. z \in b .. b + n - 1 /\ q[y] = z - b + 1
      BY <2>2, <3>1
    <3> HIDE DEF q, z
    <3>3. q[y] \in 1 .. n /\ b + q[y] = z + 1
      BY ONLY <3>2, b \in Nat, n \in Nat
    <3> QED
      BY <3>3 DEF z
  <2>4. s[b + y] = r[p[b + y - 1] + 1]
    BY <1>1, <2>1
  <2> QED
    BY <2>3, <2>4 DEF Window
<1>8. q \in [1 .. n -> 1 .. n]
  BY <1>7
<1>9. ASSUME NEW v \in 1 .. n PROVE \E y \in 1 .. n : q[y] = v
  <2>1. b + v - 1 \in b .. e
    BY <1>3
  <2>2. PICK w \in b .. e : p[w] = b + v - 1
    BY <1>2, <2>1
  <2>3. w - b + 1 \in 1 .. n /\ b + (w - b + 1) - 1 = w
    BY <1>3
  <2>4. q[w - b + 1] = v
    BY <2>2, <2>3
  <2> QED
    BY <2>3, <2>4
<1>10. g \in [1 .. n -> W]
  <2>1. f \in [1 .. n -> W]
    BY DEF Lists
  <2>2. \A y \in 1 .. n : g[y] \in W
    BY <1>7, <2>1
  <2> QED
    BY <2>2 DEF Window
<1> HIDE DEF q, f, g
<1>11. Lists(f, n, W)
  BY DEF f
<1>12. Lists(g, n, W)
  BY <1>7, <1>8, <1>9, <1>10, <1>11, ListsAlong
<1> QED
  BY <1>5, <1>6, <1>12 DEF IsChild, g

\* A list sorted by rank is the list in another order.
LEMMA SortedList ==
  ASSUME NEW n \in Nat, NEW W, NEW r, Lists(r, n, W), NEW rank, NEW s \in SortedBy(r, rank)
  PROVE  Lists(s, n, W)
<1>1. r \in [1 .. n -> W]
  BY DEF Lists
<1>2. Len(r) = n
  BY <1>1
<1>3. s \in Shuffles(r, 0, n - 1)
  BY <1>2 DEF SortedBy, LastIdx
<1>4. Window(r, 0, n) = r
  <2>1. \A y \in 1 .. n : 0 + y = y
    OBVIOUS
  <2>2. Window(r, 0, n) = [y \in 1 .. n |-> r[y]]
    BY <2>1 DEF Window
  <2> QED
    BY <1>1, <2>2
<1>5. IsChild(s, r, W, n, 0, n, W)
  <2>1. 0 + n <= n /\ n - 1 = 0 + n - 1 /\ 0 \in Nat
    OBVIOUS
  <2> QED
    BY <1>1, <1>3, <1>4, <2>1, ShuffledList
<1>6. s \in [1 .. n -> W] /\ Lists(Window(s, 0, n), n, W)
  BY <1>5 DEF IsChild
<1>7. Window(s, 0, n) = s
  <2>1. \A y \in 1 .. n : 0 + y = y
    OBVIOUS
  <2>2. Window(s, 0, n) = [y \in 1 .. n |-> s[y]]
    BY <2>1 DEF Window
  <2> QED
    BY <1>6, <2>2
<1> QED
  BY <1>6, <1>7

\* So is a list that listu_rotate has rotated.
LEMMA RotatedList ==
  ASSUME NEW n \in Nat, NEW W, NEW r, Lists(r, n, W), NEW num \in 0 .. n
  PROVE  Lists(Rotated(r, num), n, W)
<1>1. r \in [1 .. n -> W]
  BY DEF Lists
<1>2. Len(r) = n /\ DOMAIN r = 1 .. n
  BY <1>1
<1> DEFINE p == [k \in 1 .. n |-> ((k - 1 + num) % n) + 1]
           g == Rotated(r, num)
<1>3. ASSUME NEW k \in 1 .. n
      PROVE  /\ p[k] = IF k + num <= n THEN k + num ELSE k + num - n
             /\ p[k] \in 1 .. n
  <2>1. k - 1 + num \in Nat /\ k - 1 + num < 2 * n /\ n >= 1
    OBVIOUS
  <2>2. (k - 1 + num) % n = IF k - 1 + num < n THEN k - 1 + num ELSE k - 1 + num - n
    <3> DEFINE x == k - 1 + num
    <3>1. x \in Nat /\ x < 2 * n /\ n >= 1
      BY <2>1
    <3> HIDE DEF x
    <3>2. x % n = IF x < n THEN x ELSE x - n
      BY ONLY <3>1, n \in Nat, Remainder
    <3> QED
      BY <3>2 DEF x
  <2>3. p[k] = ((k - 1 + num) % n) + 1
    OBVIOUS
  <2> HIDE DEF p
  <2>4. p[k] = (IF k - 1 + num < n THEN k - 1 + num ELSE k - 1 + num - n) + 1
    BY <2>2, <2>3
  <2> QED
    BY ONLY <2>4, n \in Nat, num \in 0 .. n, k \in 1 .. n
<1>4. g = [k \in 1 .. n |-> r[p[k]]]
  BY <1>2 DEF Rotated
<1>5. p \in [1 .. n -> 1 .. n]
  BY <1>3
<1> HIDE DEF p, g
<1>6. ASSUME NEW v \in 1 .. n PROVE \E y \in 1 .. n : p[y] = v
  <2>1. CASE v > num
    <3>1. v - num \in 1 .. n /\ (v - num) + num = v
      BY <2>1
    <3> QED
      BY <1>3, <3>1
  <2>2. CASE ~(v > num)
    <3>1. v - num + n \in 1 .. n /\ (v - num + n) + num - n = v
          /\ (v - num + n) + num <= n => v - num + n + num = v
      BY <2>2
    <3> QED
      BY <1>3, <3>1
  <2> QED
    BY <2>1, <2>2
<1>7. g \in [1 .. n -> W] /\ \A y \in 1 .. n : g[y] = r[p[y]]
  BY <1>1, <1>4, <1>5
<1>8. Lists(g, n, W)
  BY <1>5, <1>6, <1>7, ListsAlong
<1> QED
  BY <1>8 DEF g

\* SetToSeq lists a finite set.
LEMMA SetListed ==
  ASSUME NEW W, IsFiniteSet(W)
  PROVE  Lists(SetToSeq(W), Cardinality(W), W) /\ Cardinality(W) \in Nat
<1> DEFINE n == Cardinality(W)
<1>1. n \in Nat /\ ExistsBijection(1 .. n, W)
  BY FS_CardinalityType
<1>2. PICK f : f \in Bijection(1 .. n, W)
  BY <1>1 DEF ExistsBijection
<1>3. /\ f \in [1 .. n -> W]
      /\ \A x, y \in 1 .. n : f[x] = f[y] => x = y
      /\ \A v \in W : \E x \in 1 .. n : f[x] = v
  BY <1>2 DEF Bijection, Injection, Surjection, IsInjective
<1> DEFINE s == SetToSeq(W)
<1>4. IsInjective(f)
  BY <1>3 DEF IsInjective
<1>5. s \in [1 .. n -> W] /\ IsInjective(s)
  BY <1>3, <1>4 DEF SetToSeq
<1> HIDE DEF s
<1>6. \A x, y \in 1 .. n : s[x] = s[y] => x = y
  BY <1>5 DEF IsInjective
<1>7. Lists(f, n, W)
  BY <1>3 DEF Lists
<1>8. Lists(s, n, W)
  <2> HIDE DEF n
  <2> QED
    BY ONLY <1>1, <1>5, <1>6, <1>7, CompleteList
<1> QED
  BY <1>1, <1>8 DEF s

\* route_ox makes routes of the same length and of the same nodes, whatever its
\* arguments are.
LEMMA OxType ==
  ASSUME NEW S, NEW r1, NEW r2, NEW len, r1 \in [1 .. len -> S], r2 \in [1 .. len -> S],
         NEW b, NEW n, NEW i, NEW j, IsWindow(len, b, n, i, j), NEW e, n = e - b + 1
  PROVE  Ox(r1, r2, b, e, i, j) \in [1 .. len -> S] \X [1 .. len -> S]
<1> DEFINE T == Child(S, len, n) \X Child(S, len, n)
           g == BredOf(r1, r2, b, n, i, j)
<1>1. n \in Nat /\ n >= 1 /\ j \in Nat /\ b \in Nat /\ b + n <= len /\ len \in Nat
  BY DEF IsWindow
<1>2. Breeds(g, r1, r2, b, n, i, j)
  BY ONLY r1 \in [1 .. len -> S], r2 \in [1 .. len -> S], IsWindow(len, b, n, i, j), BredStep
<1>3. Ox(r1, r2, b, e, i, j) = <<g[n][1].route, g[n][2].route>>
  BY OxIsLast
<1> HIDE DEF g
<1>4. g[0] \in T
  <2>1. (j + 1) % n \in 0 .. n - 1
    BY <1>1
  <2> QED
    BY <1>2, <2>1 DEF Child, Breeds
<1>5. ASSUME NEW k \in 1 .. n, g[k - 1] \in T PROVE g[k] \in T
  <2> DEFINE c1 == g[k - 1][1]
             c2 == g[k - 1][2]
             x == b + ((j + k) % n)
  <2>1. g[k] = <<Takes(c1, At(c2.route, x), b, n, i, j), Takes(c2, At(c1.route, x), b, n, i, j)>>
    BY <1>2 DEF Breeds
  <2>2. x + 1 \in 1 .. len
    <3>1. (j + k) % n \in 0 .. n - 1
      BY <1>1
    <3> QED
      BY ONLY <1>1, <3>1
  <2>3. c1 \in Child(S, len, n) /\ c2 \in Child(S, len, n)
    BY <1>5
  <2> HIDE DEF c1, c2, x
  <2>4. At(c1.route, x) \in S /\ At(c2.route, x) \in S
    BY <2>2, <2>3 DEF Child, At
  <2>5. /\ Takes(c1, At(c2.route, x), b, n, i, j) \in Child(S, len, n)
        /\ Takes(c2, At(c1.route, x), b, n, i, j) \in Child(S, len, n)
    BY <2>3, <2>4, TakesType
  <2> QED
    BY <2>1, <2>5
<1>6. g[n] \in T
  <2> HIDE DEF T
  <2>1. \A k \in 0 .. n : g[k] \in T
    BY ONLY <1>1, <1>4, <1>5, LoopType
  <2>2. n \in 0 .. n
    BY <1>1
  <2> QED
    BY <2>1, <2>2
<1>7. g[n][1].route \in [1 .. len -> S] /\ g[n][2].route \in [1 .. len -> S]
  BY <1>6 DEF Child
<1> QED
  BY ONLY <1>3, <1>7
=============================================================================
