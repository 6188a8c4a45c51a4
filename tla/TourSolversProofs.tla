-------------------------- MODULE TourSolversProofs --------------------------
(***************************************************************************)
(* What the solvers for one vehicle keep, for every set of nodes, every    *)
(* distance matrix, every vehicle and every list of requests: their        *)
(* templates are the tours that were asked for, and exactly when; every    *)
(* genome and every result is a tour if the template is; the saving of     *)
(* 2-opt is exact, and its result a local optimum.                         *)
(*                                                                         *)
(* IsTour describes a route by its parts; the first part below describes   *)
(* it by its positions and says of each operation on routes that a tour    *)
(* stays a tour.  Then come the template of either solver, that of tspi_t  *)
(* after any number of calls, the inductive invariant TourInv, and a lemma *)
(* for every action.                                                       *)
(***************************************************************************)
EXTENDS TourSolvers, RouteFacts

-----------------------------------------------------------------------------
(***************************************************************************)
(* Routes with fixed ends                                                  *)
(***************************************************************************)

MaybeNode == Nodes \cup {ID_NONE}

\* The number of positions that a fixed end takes.
Fixed(node) == IF node = ID_NONE THEN 0 ELSE 1

\* A node is not "no node".
LEMMA NodeFacts ==
  /\ ID_NONE \notin Nodes /\ ID_NONE \in Nat /\ Nodes \subseteq Nat
  /\ \A x \in Nodes : x < ID_NONE
  /\ IsFiniteSet(Nodes) /\ Cardinality(Nodes) <= SIZE_NONE
<1>1. SIZE_NONE \in Nat /\ Nodes \subseteq 0 .. SIZE_NONE - 1
  BY SIZE_NONEAssumption, NodesAssumption
<1>2. IsFiniteSet(0 .. SIZE_NONE - 1) /\ Cardinality(0 .. SIZE_NONE - 1) = SIZE_NONE
  BY <1>1, FS_Interval
<1>3. Nodes \in SUBSET (0 .. SIZE_NONE - 1)
  BY <1>1
<1>4. IsFiniteSet(Nodes) /\ Cardinality(Nodes) <= Cardinality(0 .. SIZE_NONE - 1)
  BY ONLY <1>2, <1>3, FS_Subset
<1> QED
  BY <1>1, <1>2, <1>4 DEF ID_NONE

\* The list of a fixed end.
LEMMA GivenFacts ==
  ASSUME NEW node \in MaybeNode
  PROVE  /\ Given(node) \in Seq(Nodes) /\ Len(Given(node)) = Fixed(node)
         /\ node # ID_NONE => Given(node)[1] = node /\ node \in Nodes
         /\ Fixed(node) \in 0 .. 1
BY DEF Given, Fixed, MaybeNode

\* The list t between the ends s and e.
IsEnded(q, s, t, e) ==
  /\ q \in Seq(Nodes) /\ Len(q) = (Fixed(s) + Len(t)) + Fixed(e)
  /\ \A y \in 1 .. Len(t) : q[Fixed(s) + y] = t[y]
  /\ s # ID_NONE => q[1] = s
  /\ e # ID_NONE => q[Len(q)] = e

\* What comes of putting them together.
LEMMA EndedList ==
  ASSUME NEW s \in MaybeNode, NEW e \in MaybeNode, NEW t \in Seq(Nodes)
  PROVE  IsEnded(Given(s) \o t \o Given(e), s, t, e)
<1> DEFINE a == Given(s)
           c == Given(e)
           b == a \o t
           q == b \o c
<1>1. /\ a \in Seq(Nodes) /\ Len(a) = Fixed(s) /\ (s # ID_NONE => a[1] = s)
      /\ c \in Seq(Nodes) /\ Len(c) = Fixed(e) /\ (e # ID_NONE => c[1] = e)
      /\ Fixed(s) \in 0 .. 1 /\ Fixed(e) \in 0 .. 1 /\ Len(t) \in Nat
      /\ (s # ID_NONE => Fixed(s) = 1) /\ (e # ID_NONE => Fixed(e) = 1)
  BY GivenFacts DEF Fixed
<1> HIDE DEF a, c
<1>2. /\ b \in Seq(Nodes) /\ Len(b) = Fixed(s) + Len(t)
      /\ \A y \in 1 .. Len(t) : b[Fixed(s) + y] = t[y]
      /\ s # ID_NONE => b[1] = s
  <2>1. /\ b \in Seq(Nodes) /\ Len(b) = Len(a) + Len(t)
        /\ \A y \in 1 .. Len(a) + Len(t) : b[y] = IF y <= Len(a) THEN a[y] ELSE t[y - Len(a)]
    BY ONLY <1>1, t \in Seq(Nodes)
  <2> HIDE DEF b
  <2>2. \A y \in 1 .. Len(t) :
          Fixed(s) + y \in 1 .. Len(a) + Len(t) /\ ~(Fixed(s) + y <= Len(a))
          /\ (Fixed(s) + y) - Len(a) = y
    BY <1>1
  <2>3. s # ID_NONE => 1 \in 1 .. Len(a) + Len(t) /\ 1 <= Len(a)
    BY <1>1
  <2> QED
    BY <1>1, <2>1, <2>2, <2>3
<1> HIDE DEF b
<1>3. /\ q \in Seq(Nodes) /\ Len(q) = (Fixed(s) + Len(t)) + Fixed(e)
      /\ \A y \in 1 .. Len(b) : q[y] = b[y]
      /\ e # ID_NONE => q[Len(q)] = e
  <2>1. /\ q \in Seq(Nodes) /\ Len(q) = Len(b) + Len(c)
        /\ \A y \in 1 .. Len(b) + Len(c) : q[y] = IF y <= Len(b) THEN b[y] ELSE c[y - Len(b)]
    BY ONLY <1>1, <1>2
  <2> HIDE DEF q
  <2>2. Len(b) \in Nat /\ Len(c) \in Nat
    BY <1>1, <1>2
  <2>3. \A y \in 1 .. Len(b) : y \in 1 .. Len(b) + Len(c) /\ y <= Len(b)
    BY <2>2
  <2>4. e # ID_NONE => /\ Len(q) \in 1 .. Len(b) + Len(c) /\ ~(Len(q) <= Len(b))
                       /\ Len(q) - Len(b) = 1
    BY <1>1, <2>1, <2>2
  <2> QED
    BY <1>1, <1>2, <2>1, <2>3, <2>4
<1> HIDE DEF q
<1>4. /\ \A y \in 1 .. Len(t) : Fixed(s) + y \in 1 .. Len(b)
      /\ s # ID_NONE => 1 \in 1 .. Len(b)
  BY <1>1, <1>2
<1>5. IsEnded(q, s, t, e)
  BY <1>2, <1>3, <1>4 DEF IsEnded
<1> QED
  BY <1>5 DEF a, b, c, q

\* There is one such list.
LEMMA EndedUnique ==
  ASSUME NEW s \in MaybeNode, NEW e \in MaybeNode, NEW t \in Seq(Nodes),
         NEW p, IsEnded(p, s, t, e), NEW q, IsEnded(q, s, t, e)
  PROVE  p = q
<1>1. /\ p \in Seq(Nodes) /\ q \in Seq(Nodes) /\ Len(p) = Len(q)
      /\ Len(q) = (Fixed(s) + Len(t)) + Fixed(e) /\ Len(t) \in Nat
      /\ Fixed(s) \in 0 .. 1 /\ Fixed(e) \in 0 .. 1
  BY GivenFacts DEF IsEnded
<1>2. ASSUME NEW k \in 1 .. Len(p) PROVE p[k] = q[k]
  <2>1. CASE k <= Fixed(s)
    <3>1. s # ID_NONE /\ k = 1
      BY <1>1, <2>1 DEF Fixed
    <3> QED
      BY <3>1 DEF IsEnded
  <2>2. CASE k > Fixed(s) + Len(t)
    <3>1. Fixed(e) = 1 /\ k = Len(p)
      <4>1. k \in 1 .. (Fixed(s) + Len(t)) + Fixed(e) /\ Len(p) = (Fixed(s) + Len(t)) + Fixed(e)
        BY <1>1
      <4> QED
        BY ONLY <1>1, <2>2, <4>1
    <3>2. e # ID_NONE /\ k = Len(p)
      BY <3>1 DEF Fixed
    <3>3. p[Len(p)] = e /\ q[Len(q)] = e
      BY <3>2 DEF IsEnded
    <3> QED
      BY <1>1, <3>2, <3>3
  <2>3. CASE ~(k <= Fixed(s)) /\ ~(k > Fixed(s) + Len(t))
    <3>1. k - Fixed(s) \in 1 .. Len(t) /\ Fixed(s) + (k - Fixed(s)) = k
      BY <1>1, <2>3
    <3> QED
      BY <3>1 DEF IsEnded
  <2> QED
    BY <2>1, <2>2, <2>3
<1> QED
  BY <1>1, <1>2, SeqEqual

-----------------------------------------------------------------------------
(***************************************************************************)
(* Tours                                                                   *)
(***************************************************************************)

\* IsTour, of these ends and these other nodes.
IsTourOf(r, s, e, W) ==
  LET first == 1 + Len(Given(s))
      last == Len(r) - Len(Given(e))
      between == SubSeq(r, first, last)
  IN  /\ Len(between) = Cardinality(W) /\ ToSet(between) = W
      /\ r = Given(s) \o between \o Given(e)

\* A tour by its positions: the window between the ends lists the other nodes.
Tours(s, e, W) ==
  {r \in Seq(Nodes) :
     /\ Len(r) = (Fixed(s) + Cardinality(W)) + Fixed(e)
     /\ Lists(Window(r, Fixed(s), Cardinality(W)), Cardinality(W), W)
     /\ s # ID_NONE => r[1] = s
     /\ e # ID_NONE => r[Len(r)] = e}

\* The two say the same.
LEMMA TourShape ==
  ASSUME NEW s \in MaybeNode, NEW e \in MaybeNode, NEW W, W \subseteq Nodes,
         NEW r \in Seq(Nodes)
  PROVE  IsTourOf(r, s, e, W) <=> r \in Tours(s, e, W)
<1> DEFINE b == Fixed(s)
           f == Fixed(e)
           n == Cardinality(W)
           m == Len(r)
           t == SubSeq(r, 1 + b, m - f)
<1>1. b \in 0 .. 1 /\ f \in 0 .. 1 /\ m \in Nat
  BY GivenFacts
<1>2. n \in Nat /\ IsFiniteSet(W)
  <2>1. W \in SUBSET Nodes
    OBVIOUS
  <2> QED
    BY ONLY <2>1, NodeFacts, FS_Subset, FS_CardinalityType
<1>3. IsTourOf(r, s, e, W) <=>
        /\ Len(t) = n /\ ToSet(t) = W
        /\ r = Given(s) \o t \o Given(e)
  BY GivenFacts DEF IsTourOf
<1>4. /\ t \in Seq(Nodes) /\ Len(t) = IF 1 + b <= m - f THEN (m - f) - b ELSE 0
      /\ \A y \in 1 .. Len(t) : t[y] = r[b + y] /\ b + y \in 1 .. m
  <2> DEFINE l == 1 + b
             k == m - f
  <2>1. l \in Int /\ k \in Int /\ 1 <= l /\ k <= m /\ k - l + 1 = (m - f) - b
    BY <1>1
  <2>2. /\ \A y \in 1 .. k - l + 1 : b + y \in 1 .. m /\ l + y - 1 = b + y
        /\ \A y \in 1 .. k - l + 1 : l + y - 1 \in 1 .. m
    BY <1>1
  <2>3. /\ SubSeq(r, l, k) \in Seq(Nodes)
        /\ Len(SubSeq(r, l, k)) = IF l <= k THEN k - l + 1 ELSE 0
        /\ \A y \in 1 .. k - l + 1 : SubSeq(r, l, k)[y] = r[l + y - 1]
    <3> HIDE DEF l, k, m
    <3>1. \A y \in l .. k : y \in 1 .. m
      BY <1>1, <2>1
    <3> QED
      BY <1>1, <2>1, <3>1 DEF m
  <2>4. t = SubSeq(r, l, k)
    OBVIOUS
  <2>5. l <= k <=> 1 + b <= m - f
    OBVIOUS
  <2> HIDE DEF t, l, k
  <2>6. /\ t \in Seq(Nodes) /\ Len(t) = IF 1 + b <= m - f THEN (m - f) - b ELSE 0
        /\ \A y \in 1 .. k - l + 1 : t[y] = r[b + y] /\ b + y \in 1 .. m
    BY <2>1, <2>2, <2>3, <2>4, <2>5
  <2>7. Len(t) = k - l + 1 \/ Len(t) = 0
    BY ONLY <2>1, <2>6
  <2> QED
    BY <2>1, <2>6, <2>7
<1> HIDE DEF t
<1>5. ASSUME Len(t) = n, ToSet(t) = W, r = Given(s) \o t \o Given(e)
      PROVE  r \in Tours(s, e, W)
  <2>1. IsEnded(r, s, t, e)
    BY <1>4, <1>5, EndedList
  <2>2. m = (b + n) + f
    BY <1>5, <2>1 DEF IsEnded
  <2>3. Window(r, b, n) = t
    <3>1. \A y \in 1 .. n : t[y] = r[b + y]
      BY <1>4, <1>5
    <3>2. t = [y \in 1 .. n |-> t[y]]
      BY <1>4, <1>5
    <3> QED
      BY ONLY <3>1, <3>2 DEF Window
  <2>4. \A v \in W : \E x \in 1 .. n : t[x] = v
    BY <1>4, <1>5 DEF ToSet
  <2>5. t \in [1 .. n -> W]
    BY <1>4, <1>5 DEF ToSet
  <2>6. \A x, y \in 1 .. n : t[x] = t[y] => x = y
    <3>1. t \in Surjection(1 .. n, W)
      BY <2>4, <2>5 DEF Surjection
    <3>2. IsFiniteSet(1 .. n) /\ Cardinality(1 .. n) = n
      BY <1>2, FS_Interval
    <3>3. t \in Injection(1 .. n, W)
      <4> HIDE DEF n
      <4>1. Cardinality(W) = Cardinality(1 .. n)
        BY <3>2 DEF n
      <4> QED
        BY <3>1, <3>2, <4>1, FS_Surjection
    <3> QED
      BY <3>3 DEF Injection, IsInjective
  <2>7. Lists(Window(r, b, n), n, W)
    BY <2>3, <2>4, <2>5, <2>6 DEF Lists
  <2> QED
    BY <2>1, <2>2, <2>7 DEF Tours, IsEnded
<1>6. ASSUME r \in Tours(s, e, W)
      PROVE  Len(t) = n /\ ToSet(t) = W /\ r = Given(s) \o t \o Given(e)
  <2>1. /\ m = (b + n) + f /\ Lists(Window(r, b, n), n, W)
        /\ s # ID_NONE => r[1] = s
        /\ e # ID_NONE => r[m] = e
    BY <1>6 DEF Tours
  <2>2. Len(t) = n
    BY <1>1, <1>2, <1>4, <2>1
  <2>3. \A y \in 1 .. n : t[y] = Window(r, b, n)[y]
    BY <1>4, <2>2 DEF Window
  <2>4. ToSet(t) = W
    <3>1. /\ \A y \in 1 .. n : Window(r, b, n)[y] \in W
          /\ \A v \in W : \E y \in 1 .. n : Window(r, b, n)[y] = v
      BY <2>1 DEF Lists
    <3>2. DOMAIN t = 1 .. n
      BY <1>4, <2>2
    <3> QED
      BY <2>3, <3>1, <3>2 DEF ToSet
  <2>5. IsEnded(r, s, t, e)
    BY <1>4, <2>1, <2>2 DEF IsEnded
  <2>6. IsEnded(Given(s) \o t \o Given(e), s, t, e)
    BY <1>4, EndedList
  <2>7. r = Given(s) \o t \o Given(e)
    <3> DEFINE q == Given(s) \o t \o Given(e)
    <3>1. IsEnded(q, s, t, e)
      BY <2>6
    <3> HIDE DEF q
    <3>2. r = q
      BY <1>4, <2>5, <3>1, EndedUnique
    <3> QED
      BY <3>2 DEF q
  <2> QED
    BY <2>2, <2>4, <2>7
<1> QED
  BY <1>3, <1>5, <1>6

-----------------------------------------------------------------------------
(***************************************************************************)
(* What the operations do to a route and to a tour                         *)
(***************************************************************************)

\* A set of nodes is finite.
LEMMA SetOfNodes ==
  ASSUME NEW W, W \subseteq Nodes
  PROVE  IsFiniteSet(W) /\ Cardinality(W) \in Nat
<1>1. W \in SUBSET Nodes
  OBVIOUS
<1> QED
  BY ONLY <1>1, NodeFacts, FS_Subset, FS_CardinalityType

\* Where the nodes between the ends of a tour are.
LEMMA TourWindow ==
  ASSUME NEW s \in MaybeNode, NEW e \in MaybeNode, NEW W, W \subseteq Nodes,
         NEW r, r \in Tours(s, e, W)
  PROVE  /\ r \in Seq(Nodes) /\ Cardinality(W) \in Nat
         /\ Fixed(s) + Cardinality(W) <= Len(r)
         /\ Lists(Window(r, Fixed(s), Cardinality(W)), Cardinality(W), W)
         /\ LastIdx(r) - Fixed(e) = Fixed(s) + Cardinality(W) - 1
<1>1. Fixed(s) \in 0 .. 1 /\ Fixed(e) \in 0 .. 1 /\ Cardinality(W) \in Nat
  BY GivenFacts, SetOfNodes
<1>2. /\ r \in Seq(Nodes) /\ Len(r) = (Fixed(s) + Cardinality(W)) + Fixed(e)
      /\ Lists(Window(r, Fixed(s), Cardinality(W)), Cardinality(W), W)
  BY DEF Tours
<1>3. Fixed(s) + Cardinality(W) <= Len(r)
  BY ONLY <1>1, <1>2
<1>4. LastIdx(r) - Fixed(e) = Fixed(s) + Cardinality(W) - 1
  BY ONLY <1>1, <1>2 DEF LastIdx
<1> QED
  BY <1>1, <1>2, <1>3, <1>4

\* A tour whose window is put in another order is a tour.
LEMMA ChildOfTour ==
  ASSUME NEW s \in MaybeNode, NEW e \in MaybeNode, NEW W, W \subseteq Nodes,
         NEW r, r \in Tours(s, e, W), NEW q,
         IsChild(q, r, Nodes, Len(r), Fixed(s), Cardinality(W), W)
  PROVE  q \in Tours(s, e, W)
<1> DEFINE b == Fixed(s)
           n == Cardinality(W)
<1>1. b \in 0 .. 1 /\ Fixed(e) \in 0 .. 1 /\ n \in Nat
      /\ (s # ID_NONE => b = 1) /\ (e # ID_NONE => Fixed(e) = 1)
  BY GivenFacts, SetOfNodes DEF Fixed
<1>2. /\ r \in Seq(Nodes) /\ Len(r) = (b + n) + Fixed(e)
      /\ s # ID_NONE => r[1] = s
      /\ e # ID_NONE => r[Len(r)] = e
  BY DEF Tours
<1>3. /\ q \in [1 .. Len(r) -> Nodes] /\ Lists(Window(q, b, n), n, W)
      /\ \A p \in 1 .. Len(r) : p \notin b + 1 .. b + n => q[p] = r[p]
  BY DEF IsChild
<1>4. q \in Seq(Nodes) /\ Len(q) = Len(r)
  BY <1>2, <1>3
<1> HIDE DEF b, n
<1>5. s # ID_NONE => 1 \in 1 .. Len(r) /\ 1 \notin b + 1 .. b + n
  BY ONLY <1>1, <1>2
<1>6. e # ID_NONE => Len(r) \in 1 .. Len(r) /\ Len(r) \notin b + 1 .. b + n
  BY ONLY <1>1, <1>2
<1>7. (s # ID_NONE => q[1] = s) /\ (e # ID_NONE => q[Len(q)] = e)
  BY <1>2, <1>3, <1>4, <1>5, <1>6
<1> QED
  BY <1>2, <1>3, <1>4, <1>7 DEF Tours, b, n

\* What an operation must keep of a route.
Keeps(q, r, s, e, W) ==
  /\ q \in Seq(Nodes) /\ Len(q) = Len(r)
  /\ r \in Tours(s, e, W) => q \in Tours(s, e, W)

\* Random permutations of what lies between the ends.
LEMMA ShuffledRoute ==
  ASSUME NEW s \in MaybeNode, NEW e \in MaybeNode, NEW W, W \subseteq Nodes,
         NEW r \in Seq(Nodes),
         NEW q \in Shuffles(r, Fixed(s), LastIdx(r) - Fixed(e))
  PROVE  Keeps(q, r, s, e, W)
<1> DEFINE b == Fixed(s)
           f == LastIdx(r) - Fixed(e)
           l == Len(r)
<1>1. b \in Nat /\ f \in Int /\ f < l /\ l \in Nat /\ r \in [1 .. l -> Nodes]
  BY GivenFacts DEF LastIdx
<1>2. q \in [1 .. l -> Nodes]
  <2>1. PICK p \in Bijection(b .. f, b .. f) :
          q = [k \in 1 .. l |-> IF k - 1 \in b .. f THEN r[p[k - 1] + 1] ELSE r[k]]
    BY <1>1 DEF Shuffles, At
  <2>2. p \in [b .. f -> b .. f]
    BY DEF Bijection, Injection
  <2> HIDE DEF b, f, l
  <2>3. ASSUME NEW k \in 1 .. l, k - 1 \in b .. f PROVE p[k - 1] + 1 \in 1 .. l
    <3>1. p[k - 1] \in b .. f
      BY <2>2, <2>3
    <3> QED
      BY ONLY <1>1, <3>1
  <2>4. \A k \in 1 .. l : k - 1 \in b .. f => r[p[k - 1] + 1] \in Nodes
    BY <1>1, <2>3
  <2>5. \A k \in 1 .. l : r[k] \in Nodes
    BY <1>1
  <2> QED
    BY ONLY <2>1, <2>4, <2>5
<1>3. ASSUME r \in Tours(s, e, W) PROVE q \in Tours(s, e, W)
  <2> DEFINE n == Cardinality(W)
  <2>1. n \in Nat /\ b + n <= l /\ Lists(Window(r, b, n), n, W) /\ f = b + n - 1
    BY <1>3, TourWindow
  <2>2. q \in Shuffles(r, b, f)
    OBVIOUS
  <2> HIDE DEF b, f, n, l
  <2>3. IsChild(q, r, Nodes, l, b, n, W)
    BY ONLY <1>1, <2>1, <2>2, ShuffledList
  <2> QED
    BY <1>3, <2>3, ChildOfTour DEF b, n, l
<1>4. q \in Seq(Nodes) /\ Len(q) = l
  BY <1>1, <1>2
<1> QED
  BY <1>3, <1>4 DEF Keeps

\* The reversal of a slice between the ends.
LEMMA ReversedRoute ==
  ASSUME NEW s \in MaybeNode, NEW e \in MaybeNode, NEW W, W \subseteq Nodes,
         NEW r \in Seq(Nodes), NEW i \in Int, NEW j \in Int,
         Fixed(s) <= i, i < j, j <= LastIdx(r) - Fixed(e)
  PROVE  Keeps(ReverseSlice(r, i, j), r, s, e, W)
<1> DEFINE b == Fixed(s)
           f == LastIdx(r) - Fixed(e)
           l == Len(r)
           q == ReverseSlice(r, i, j)
<1>1. b \in Nat /\ f \in Int /\ f < l /\ l \in Nat /\ r \in [1 .. l -> Nodes]
  BY GivenFacts DEF LastIdx
<1>2. q = [k \in 1 .. l |-> IF k - 1 \in i .. j THEN r[i + j - (k - 1) + 1] ELSE r[k]]
  BY <1>1 DEF ReverseSlice, At
<1>3. b <= i /\ j <= f
  OBVIOUS
<1> HIDE DEF b, f, l, q
<1>4. \A k \in 1 .. l : k - 1 \in i .. j => i + j - (k - 1) + 1 \in 1 .. l
  BY ONLY <1>1, <1>3, i \in Int, j \in Int
<1>5. q \in [1 .. l -> Nodes]
  <2>1. \A k \in 1 .. l : k - 1 \in i .. j => r[i + j - (k - 1) + 1] \in Nodes
    BY <1>1, <1>4
  <2>2. \A k \in 1 .. l : r[k] \in Nodes
    BY <1>1
  <2> QED
    BY ONLY <1>2, <2>1, <2>2
<1>6. ASSUME r \in Tours(s, e, W) PROVE q \in Tours(s, e, W)
  <2> DEFINE n == Cardinality(W)
             p == [y \in 1 .. n |-> IF b + y - 1 \in i .. j THEN i + j - (b + y - 1) - b + 1
                                    ELSE y]
             g == Window(q, b, n)
             h == Window(r, b, n)
  <2>1. n \in Nat /\ b + n <= l /\ Lists(h, n, W) /\ f = b + n - 1
    BY <1>6, TourWindow DEF b, f, l
  <2>2. \A y \in 1 .. n : p[y] = IF b + y - 1 \in i .. j THEN i + j - (b + y - 1) - b + 1 ELSE y
    OBVIOUS
  <2>3. \A y \in 1 .. n : g[y] = q[b + y] /\ h[y] = r[b + y]
    BY DEF Window
  <2>4. h \in [1 .. n -> W]
    BY <2>1 DEF Lists
  <2>5. DOMAIN p = 1 .. n /\ DOMAIN g = 1 .. n /\ g = [y \in 1 .. n |-> g[y]]
        /\ p = [y \in 1 .. n |-> p[y]]
    BY DEF Window
  <2> HIDE DEF n, p, g, h
  <2>6. ASSUME NEW y \in 1 .. n
        PROVE  /\ p[y] \in 1 .. n /\ g[y] = h[p[y]]
               /\ \E x \in 1 .. n : p[x] = y
    <3>1. CASE b + y - 1 \in i .. j
      <4>1. p[y] = i + j - (b + y - 1) - b + 1
        BY <2>2, <3>1
      <4>2. /\ p[y] \in 1 .. n /\ b + p[y] = i + j - (b + y - 1) + 1
            /\ b + y \in 1 .. l /\ (b + y) - 1 = b + y - 1
            /\ b + p[y] - 1 \in i .. j /\ i + j - (b + p[y] - 1) - b + 1 = y
        BY ONLY <1>1, <1>3, <2>1, <3>1, <4>1, y \in 1 .. n, i \in Int, j \in Int
      <4>3. q[b + y] = r[i + j - (b + y - 1) + 1]
        BY <1>2, <3>1, <4>2
      <4>4. p[p[y]] = y
        BY <2>2, <4>2
      <4> QED
        BY <2>3, <4>2, <4>3, <4>4
    <3>2. CASE b + y - 1 \notin i .. j
      <4>1. p[y] = y
        BY <2>2, <3>2
      <4>2. b + y \in 1 .. l /\ (b + y) - 1 = b + y - 1
        BY ONLY <1>1, <2>1, y \in 1 .. n
      <4>3. q[b + y] = r[b + y]
        BY <1>2, <3>2, <4>2
      <4> QED
        BY <2>3, <4>1, <4>3
    <3> QED
      BY <3>1, <3>2
  <2>7. p \in [1 .. n -> 1 .. n] /\ g \in [1 .. n -> W]
    <3>1. \A y \in 1 .. n : p[y] \in 1 .. n /\ g[y] \in W
      BY <2>4, <2>6
    <3> QED
      BY ONLY <2>5, <3>1
  <2>8. Lists(g, n, W)
    <3>1. /\ \A v \in 1 .. n : \E y \in 1 .. n : p[y] = v
          /\ \A y \in 1 .. n : g[y] = h[p[y]]
      BY <2>6
    <3> QED
      BY ONLY <2>1, <2>7, <3>1, ListsAlong
  <2>9. \A x \in 1 .. l : x \notin b + 1 .. b + n => q[x] = r[x]
    <3>1. \A x \in 1 .. l : x \notin b + 1 .. b + n => x - 1 \notin i .. j
      BY ONLY <1>1, <1>3, <2>1, i \in Int, j \in Int
    <3> QED
      BY <1>2, <3>1
  <2>10. IsChild(q, r, Nodes, l, b, n, W)
    BY <1>5, <2>8, <2>9 DEF IsChild, g
  <2> QED
    BY <1>6, <2>10, ChildOfTour DEF b, n, l
<1>7. q \in Seq(Nodes) /\ Len(q) = l
  BY <1>1, <1>5
<1> QED
  BY <1>6, <1>7 DEF Keeps, q, l

\* Order crossover of what lies between the ends.
LEMMA CrossedRoutes ==
  ASSUME NEW s \in MaybeNode, NEW e \in MaybeNode, NEW W, W \subseteq Nodes,
         NEW r1 \in Seq(Nodes), NEW r2 \in Seq(Nodes), Len(r2) = Len(r1),
         NEW j \in 0 .. (LastIdx(r1) - Fixed(e)) - Fixed(s), NEW i \in 0 .. j,
         NEW q \in ToSet(Ox(r1, r2, Fixed(s), LastIdx(r1) - Fixed(e), i, j))
  PROVE  /\ q \in Seq(Nodes) /\ Len(q) = Len(r1)
         /\ r1 \in Tours(s, e, W) /\ r2 \in Tours(s, e, W) => q \in Tours(s, e, W)
<1> DEFINE b == Fixed(s)
           f == LastIdx(r1) - Fixed(e)
           l == Len(r1)
           n == f - b + 1
<1>1. /\ b \in Nat /\ f \in Int /\ f < l /\ l \in Nat
      /\ r1 \in [1 .. l -> Nodes] /\ r2 \in [1 .. l -> Nodes]
  BY GivenFacts DEF LastIdx
<1>2. j \in 0 .. f - b /\ n = f - b + 1 /\ q \in ToSet(Ox(r1, r2, b, f, i, j))
  OBVIOUS
<1> HIDE DEF b, f, l, n
<1>3. IsWindow(l, b, n, i, j)
  BY ONLY <1>1, <1>2, i \in 0 .. j DEF IsWindow
<1>4. q \in [1 .. l -> Nodes]
  <2>1. Ox(r1, r2, b, f, i, j) \in [1 .. l -> Nodes] \X [1 .. l -> Nodes]
    <3>1. r1 \in [1 .. l -> Nodes] /\ r2 \in [1 .. l -> Nodes] /\ n = f - b + 1
      BY <1>1, <1>2
    <3> QED
      BY ONLY <1>3, <3>1, OxType
  <2>2. PICK q1 \in [1 .. l -> Nodes], q2 \in [1 .. l -> Nodes] :
          Ox(r1, r2, b, f, i, j) = <<q1, q2>>
    BY ONLY <2>1
  <2>3. q = q1 \/ q = q2
    BY <1>2, <2>2 DEF ToSet
  <2> QED
    BY <2>3
<1>5. q \in Seq(Nodes) /\ Len(q) = l
  BY <1>1, <1>4
<1>6. ASSUME r1 \in Tours(s, e, W), r2 \in Tours(s, e, W)
      PROVE  q \in Tours(s, e, W)
  <2>1. n = Cardinality(W)
    <3>1. Cardinality(W) \in Nat /\ f = b + Cardinality(W) - 1
      BY <1>6, TourWindow DEF b, f
    <3> QED
      BY ONLY <1>1, <1>2, <3>1
  <2>2. Lists(Window(r1, b, n), n, W) /\ Lists(Window(r2, b, n), n, W)
    BY <1>6, <2>1, TourWindow DEF b
  <2>3. PICK q1, q2 : /\ Ox(r1, r2, b, f, i, j) = <<q1, q2>>
                      /\ IsChild(q1, r1, Nodes, l, b, n, W)
                      /\ IsChild(q2, r2, Nodes, l, b, n, W)
    BY ONLY <1>1, <1>2, <1>3, <2>2, OxExact
  <2>4. q1 \in Tours(s, e, W)
    BY <1>6, <2>1, <2>3, ChildOfTour DEF b, l
  <2>5. q2 \in Tours(s, e, W)
    <3>1. Len(r2) = l
      BY DEF l
    <3> QED
      BY <1>6, <2>1, <2>3, <3>1, ChildOfTour DEF b
  <2>6. q = q1 \/ q = q2
    BY <1>2, <2>3 DEF ToSet
  <2> QED
    BY <2>4, <2>5, <2>6
<1> QED
  BY <1>5, <1>6 DEF l

\* A list of the other nodes between the ends is a tour.
LEMMA EndedTour ==
  ASSUME NEW s \in MaybeNode, NEW e \in MaybeNode, NEW W, W \subseteq Nodes,
         NEW t, Lists(t, Cardinality(W), W)
  PROVE  Given(s) \o t \o Given(e) \in Tours(s, e, W)
<1> DEFINE n == Cardinality(W)
           q == Given(s) \o t \o Given(e)
<1>1. n \in Nat /\ t \in [1 .. n -> W]
  BY SetOfNodes DEF Lists
<1>2. t \in Seq(Nodes) /\ Len(t) = n /\ t = [y \in 1 .. n |-> t[y]]
  BY <1>1
<1>3. IsEnded(q, s, t, e)
  BY <1>2, EndedList
<1> HIDE DEF q
<1>4. Window(q, Fixed(s), n) = t
  <2>1. \A y \in 1 .. n : q[Fixed(s) + y] = t[y]
    BY <1>2, <1>3 DEF IsEnded
  <2> QED
    BY ONLY <1>2, <2>1 DEF Window
<1>5. Lists(Window(q, Fixed(s), n), n, W)
  BY <1>4
<1>6. Len(q) = (Fixed(s) + n) + Fixed(e)
  BY <1>2, <1>3 DEF IsEnded
<1>7. q \in Tours(s, e, W)
  BY <1>3, <1>5, <1>6 DEF Tours, IsEnded
<1> QED
  BY <1>7 DEF q

\* Sorting only changes the order.
LEMMA SortedType ==
  ASSUME NEW S, NEW t \in Seq(S), NEW rank, NEW u \in SortedBy(t, rank)
  PROVE  u \in Seq(S) /\ Len(u) = Len(t)
<1> DEFINE l == Len(t)
<1>1. l \in Nat /\ t \in [1 .. l -> S] /\ LastIdx(t) = l - 1
  BY DEF LastIdx
<1>2. PICK p \in Bijection(0 .. l - 1, 0 .. l - 1) :
        u = [k \in 1 .. l |-> IF k - 1 \in 0 .. l - 1 THEN t[p[k - 1] + 1] ELSE t[k]]
  BY <1>1 DEF SortedBy, Shuffles, At
<1>3. p \in [0 .. l - 1 -> 0 .. l - 1]
  BY DEF Bijection, Injection
<1> HIDE DEF l
<1>4. ASSUME NEW k \in 1 .. l PROVE u[k] \in S
  <2>1. k - 1 \in 0 .. l - 1
    BY ONLY <1>1, k \in 1 .. l
  <2>2. p[k - 1] \in 0 .. l - 1
    BY <1>3, <2>1
  <2>3. p[k - 1] + 1 \in 1 .. l
    BY ONLY <1>1, <2>2
  <2>4. u[k] = t[p[k - 1] + 1]
    BY <1>2, <2>1
  <2> QED
    BY <1>1, <2>3, <2>4
<1>5. u \in [1 .. l -> S]
  BY <1>2, <1>4
<1> QED
  BY <1>1, <1>5 DEF l

\* tsp_sweep sorts what lies between the ends.
LEMMA SweptRoute ==
  ASSUME NEW s \in MaybeNode, NEW e \in MaybeNode, NEW W, W \subseteq Nodes,
         NEW r \in Seq(Nodes), Fixed(s) + Fixed(e) <= Len(r), NEW rank,
         NEW u \in SortedBy(Slice(r, Fixed(s), LastIdx(r) - Fixed(e)), rank)
  PROVE  Keeps(Given(s) \o u \o Given(e), r, s, e, W)
<1> DEFINE b == Fixed(s)
           f == LastIdx(r) - Fixed(e)
           l == Len(r)
           t == Slice(r, b, f)
           q == Given(s) \o u \o Given(e)
<1>1. b \in Nat /\ f \in Int /\ f < l /\ l \in Nat /\ b - 1 <= f
      /\ Fixed(e) \in Nat /\ f = (l - 1) - Fixed(e)
  BY GivenFacts DEF LastIdx
<1>2. /\ t \in Seq(Nodes) /\ Len(t) = f - b + 1
      /\ \A y \in 1 .. f - b + 1 : t[y] = r[b + y]
  <2>1. t = SubSeq(r, b + 1, f + 1)
    BY DEF Slice
  <2>2. \A y \in b + 1 .. f + 1 : y \in 1 .. l
    BY <1>1
  <2> HIDE DEF t, b, f
  <2>3. /\ SubSeq(r, b + 1, f + 1) \in Seq(Nodes)
        /\ Len(SubSeq(r, b + 1, f + 1)) = IF b + 1 <= f + 1 THEN f + 1 - (b + 1) + 1 ELSE 0
        /\ \A y \in 1 .. f + 1 - (b + 1) + 1 :
             SubSeq(r, b + 1, f + 1)[y] = r[b + 1 + y - 1]
    BY <1>1, <2>2
  <2>4. /\ (IF b + 1 <= f + 1 THEN f + 1 - (b + 1) + 1 ELSE 0) = f - b + 1
        /\ f + 1 - (b + 1) + 1 = f - b + 1
        /\ \A y \in 1 .. f - b + 1 : b + 1 + y - 1 = b + y
    BY <1>1
  <2> QED
    BY <2>1, <2>3, <2>4
<1>3. u \in Seq(Nodes) /\ Len(u) = f - b + 1
  BY <1>2, SortedType
<1>4. IsEnded(q, s, u, e)
  BY <1>3, EndedList
<1>5. q \in Seq(Nodes) /\ Len(q) = l
  <2>1. q \in Seq(Nodes) /\ Len(q) = (b + (f - b + 1)) + Fixed(e)
    BY <1>3, <1>4 DEF IsEnded
  <2> HIDE DEF b, f, l, q
  <2>2. (b + (f - b + 1)) + Fixed(e) = l
    BY ONLY <1>1
  <2> QED
    BY <2>1, <2>2
<1>6. ASSUME r \in Tours(s, e, W) PROVE q \in Tours(s, e, W)
  <2> DEFINE n == Cardinality(W)
  <2>1. n \in Nat /\ Lists(Window(r, b, n), n, W) /\ f = b + n - 1
    BY <1>6, TourWindow
  <2> HIDE DEF b, f, n, t
  <2>2. f - b + 1 = n
    BY ONLY <1>1, <2>1
  <2>3. t = Window(r, b, n)
    <3>1. t = [y \in 1 .. n |-> t[y]] /\ \A y \in 1 .. n : t[y] = r[b + y]
      BY <1>2, <2>2
    <3> QED
      BY ONLY <3>1 DEF Window
  <2>4. Lists(u, n, W)
    <3>1. Lists(t, n, W) /\ u \in SortedBy(t, rank)
      BY <2>1, <2>3 DEF t, b, f
    <3> QED
      BY ONLY <2>1, <3>1, SortedList
  <2> QED
    BY <2>4, EndedTour DEF n
<1> QED
  BY <1>5, <1>6 DEF Keeps

\* The members of a list are counted by it.
LEMMA ListCounts ==
  ASSUME NEW n \in Nat, NEW W, NEW f, Lists(f, n, W)
  PROVE  IsFiniteSet(W) /\ Cardinality(W) = n
<1>1. f \in Surjection(1 .. n, W) /\ f \in Injection(1 .. n, W)
  BY DEF Lists, Surjection, Injection, IsInjective
<1>2. IsFiniteSet(1 .. n) /\ Cardinality(1 .. n) = n
  BY FS_Interval
<1> QED
  BY <1>1, <1>2, FS_Surjection

\* A list of a set, without x, lists the rest of the set.
LEMMA WithoutList ==
  ASSUME NEW n \in Nat, NEW W, NEW s, Lists(s, n, W), NEW x
  PROVE  Lists(Without(x, s), Cardinality(W \ {x}), W \ {x})
<1> DEFINE g == WithoutsOf(x, s)
           Good(t, k) == /\ IsInjective(t)
                         /\ \A j \in 1 .. Len(t) : \E i \in 1 .. k : t[j] = s[i]
           P == {k \in 0 .. n : Good(g[k], k)}
<1>1. /\ s \in Seq(W) /\ Len(s) = n /\ s \in [1 .. n -> W]
      /\ \A i, j \in 1 .. n : s[i] = s[j] => i = j
      /\ \A v \in W : \E i \in 1 .. n : s[i] = v
  BY DEF Lists
<1>2. IsWithouts(g, W, x, s) /\ Without(x, s) = g[n]
  BY <1>1, WithoutsStep, WithoutIsLast
<1> HIDE DEF g
<1>3. 0 \in P
  <2>1. g[0] = <<>>
    BY <1>2 DEF IsWithouts
  <2> QED
    BY <2>1 DEF IsInjective
<1>4. ASSUME NEW k \in 0 .. n - 1, k \in P PROVE k + 1 \in P
  <2>1. k + 1 \in 1 .. n /\ k + 1 - 1 = k /\ k + 1 \in 0 .. n /\ k \in 0 .. n
    OBVIOUS
  <2>2. /\ g[k] \in Seq(W \ {x})
        /\ g[k + 1] = IF s[k + 1] = x THEN g[k] ELSE Append(g[k], s[k + 1])
    BY <1>1, <1>2, <2>1 DEF IsWithouts
  <2>3. Good(g[k], k) /\ \A i \in 1 .. k : i \in 1 .. k + 1
    BY <1>4
  <2>4. CASE s[k + 1] = x
    BY <2>1, <2>2, <2>3, <2>4
  <2>5. CASE s[k + 1] # x
    <3> DEFINE t == g[k]
               v == s[k + 1]
               m == Len(g[k])
    <3>1. v \in W \ {x} /\ t \in Seq(W \ {x}) /\ Good(t, k) /\ g[k + 1] = Append(t, v)
      BY <1>1, <2>1, <2>2, <2>3, <2>5
    <3>2. ~Contains(t, v)
      <4>1. \A j \in 1 .. Len(t) : t[j] # v
        <5> SUFFICES ASSUME NEW j \in 1 .. Len(t), t[j] = v PROVE FALSE
          OBVIOUS
        <5>1. PICK i \in 1 .. k : t[j] = s[i]
          BY <3>1
        <5>2. i \in 1 .. n /\ s[i] = s[k + 1] /\ i # k + 1
          BY <2>1, <5>1
        <5> QED
          BY <1>1, <2>1, <5>2
      <4> QED
        BY <3>1, <4>1 DEF Contains
    <3> HIDE DEF t, v
    <3>3. IsInjective(Append(t, v))
      BY <3>1, <3>2, InjectiveAppend
    <3>4. /\ Len(Append(t, v)) = Len(t) + 1 /\ Len(t) \in Nat
          /\ Append(t, v)[Len(t) + 1] = v
          /\ \A j \in 1 .. Len(t) : Append(t, v)[j] = t[j]
      BY <3>1
    <3>5. ASSUME NEW j \in 1 .. Len(Append(t, v))
          PROVE  \E i \in 1 .. k + 1 : Append(t, v)[j] = s[i]
      <4>1. CASE j = Len(t) + 1
        <5>1. Append(t, v)[j] = s[k + 1] /\ k + 1 \in 1 .. k + 1
          BY <2>1, <3>4, <4>1 DEF v
        <5> QED
          BY <5>1
      <4>2. CASE j # Len(t) + 1
        <5>1. j \in 1 .. Len(t)
          BY ONLY <3>4, <4>2, j \in 1 .. Len(Append(t, v))
        <5>2. PICK i \in 1 .. k : t[j] = s[i]
          BY <3>1, <5>1
        <5> QED
          BY <2>3, <3>4, <5>1, <5>2
      <4> QED
        BY <4>1, <4>2
    <3> QED
      BY <2>1, <3>1, <3>3, <3>5
  <2> QED
    BY <2>4, <2>5
<1>5. n \in P
  <2> HIDE DEF P
  <2>1. 0 .. n \subseteq P /\ n \in 0 .. n
    BY <1>3, <1>4, IntervalInduction
  <2> QED
    BY <2>1
<1> DEFINE u == Without(x, s)
           m == Len(u)
<1>6. u \in Seq(W \ {x}) /\ IsInjective(u) /\ m \in Nat
  <2>1. IsInjective(g[n])
    BY <1>5
  <2>2. Without(x, s) \in Seq(W \ {x})
    BY <1>1, WithoutFacts
  <2> QED
    BY <1>2, <2>1, <2>2
<1>7. ASSUME NEW v \in W \ {x} PROVE \E j \in 1 .. m : u[j] = v
  <2>1. PICK i \in 1 .. n : s[i] = v
    BY <1>1
  <2>2. i \in 1 .. Len(s) /\ s[i] # x
    BY <1>1, <2>1
  <2>3. \E j \in 1 .. Len(Without(x, s)) : Without(x, s)[j] = s[i]
    BY <1>1, <2>2, WithoutKeeps
  <2> QED
    BY <2>1, <2>3
<1> HIDE DEF u
<1>8. Lists(u, m, W \ {x})
  <2>1. u \in [1 .. m -> W \ {x}] /\ DOMAIN u = 1 .. m
    BY <1>6
  <2>2. \A i, j \in 1 .. m : u[i] = u[j] => i = j
    BY <1>6, <2>1 DEF IsInjective
  <2> QED
    BY <1>7, <2>1, <2>2 DEF Lists
<1>9. Cardinality(W \ {x}) = m
  BY <1>6, <1>8, ListCounts
<1> QED
  BY <1>8, <1>9 DEF u

\* The nodes of a stand-alone model, in order.
Numbered(n) == [k \in 1 .. n |-> k - 1]

\* They are listed once each.
LEMMA NumberedList ==
  ASSUME NEW n \in Nat
  PROVE  Lists(Numbered(n), n, 0 .. n - 1)
<1>1. \A k \in 1 .. n : Numbered(n)[k] = k - 1 /\ k - 1 \in 0 .. n - 1
  BY DEF Numbered
<1>2. \A v \in 0 .. n - 1 : v + 1 \in 1 .. n /\ Numbered(n)[v + 1] = v
  BY DEF Numbered
<1>3. Numbered(n) \in [1 .. n -> 0 .. n - 1]
  BY <1>1 DEF Numbered
<1>4. \A x, y \in 1 .. n : Numbered(n)[x] = Numbered(n)[y] => x = y
  BY <1>1
<1> QED
  BY <1>2, <1>3, <1>4 DEF Lists

\* tspi_sweep makes a tour of all nodes, whatever the template is.
LEMMA SweptTour ==
  ASSUME NEW s \in MaybeNode, NEW e \in MaybeNode, NEW n \in Nat,
         0 .. n - 1 \subseteq Nodes, NEW rank, NEW sorted \in SortedBy(Numbered(n), rank)
  PROVE  Given(s) \o Without(e, Without(s, sorted)) \o Given(e)
           \in Tours(s, e, (0 .. n - 1) \ {s, e})
<1> DEFINE W == 0 .. n - 1
           t == Without(s, sorted)
           u == Without(e, t)
           V == W \ {s}
           U == V \ {e}
<1>1. Lists(sorted, n, W)
  BY NumberedList, SortedList
<1> HIDE DEF W
<1>2. Lists(t, Cardinality(V), V)
  BY <1>1, WithoutList
<1>3. Cardinality(V) \in Nat
  <2>1. V \subseteq Nodes
    BY DEF W
  <2> QED
    BY <2>1, SetOfNodes
<1>4. Lists(u, Cardinality(U), U)
  <2> HIDE DEF t, V
  <2> QED
    BY <1>2, <1>3, WithoutList
<1>5. U = (0 .. n - 1) \ {s, e} /\ U \subseteq Nodes
  BY DEF W
<1> HIDE DEF u, U
<1>6. Given(s) \o u \o Given(e) \in Tours(s, e, U)
  BY <1>4, <1>5, EndedTour
<1> QED
  BY <1>5, <1>6 DEF u

\* The list f with its members at the indices i and j in each other's place.
IsSwapped(g, f, n, W, i, j) ==
  /\ Lists(g, n, W) /\ g[j + 1] = f[i + 1] /\ g[i + 1] = f[j + 1]
  /\ \A k \in 1 .. n : k # i + 1 /\ k # j + 1 => g[k] = f[k]

\* route_swap_nodes only changes the order of a list.
LEMMA SwappedList ==
  ASSUME NEW n \in Nat, NEW W, NEW f, Lists(f, n, W),
         NEW i \in 0 .. n - 1, NEW j \in 0 .. n - 1
  PROVE  IsSwapped(SwapNodes(f, i, j), f, n, W, i, j)
<1> DEFINE g == SwapNodes(f, i, j)
           p == [k \in 1 .. n |-> IF k = i + 1 THEN j + 1 ELSE IF k = j + 1 THEN i + 1 ELSE k]
<1>1. f \in [1 .. n -> W] /\ i + 1 \in 1 .. n /\ j + 1 \in 1 .. n
  BY DEF Lists
<1>2. g = [f EXCEPT ![i + 1] = f[j + 1], ![j + 1] = f[i + 1]]
  BY DEF SwapNodes, At
<1>3. /\ g[j + 1] = f[i + 1] /\ g[i + 1] = f[j + 1] /\ g \in [1 .. n -> W]
      /\ \A k \in 1 .. n : k # i + 1 /\ k # j + 1 => g[k] = f[k]
  BY <1>1, <1>2
<1>4. \A k \in 1 .. n : p[k] \in 1 .. n /\ g[k] = f[p[k]]
  BY <1>1, <1>3
<1>5. p \in [1 .. n -> 1 .. n] /\ \A v \in 1 .. n : \E y \in 1 .. n : p[y] = v
  <2>1. \A v \in 1 .. n : p[p[v]] = v
    BY <1>1
  <2> QED
    BY <1>4, <2>1
<1> HIDE DEF g, p
<1>6. Lists(g, n, W)
  <2>1. \A k \in 1 .. n : g[k] = f[p[k]]
    BY <1>4
  <2>2. g \in [1 .. n -> W]
    BY <1>3
  <2> QED
    BY ONLY n \in Nat, Lists(f, n, W), <1>5, <2>1, <2>2, ListsAlong
<1> QED
  BY <1>3, <1>6 DEF g, IsSwapped

\* A list of all nodes that begins and ends with the fixed ends is a tour.
LEMMA ListedTour ==
  ASSUME NEW n \in Nat, NEW W, W \subseteq Nodes, NEW q, Lists(q, n, W),
         NEW s \in W \cup {ID_NONE}, NEW e \in W \cup {ID_NONE},
         Fixed(s) + Fixed(e) <= n,
         s = e => s = ID_NONE,
         s # ID_NONE => q[1] = s, e # ID_NONE => q[n] = e
  PROVE  q \in Tours(s, e, W \ {s, e})
<1> DEFINE b == Fixed(s)
           f == Fixed(e)
           m == (n - b) - f
           V == W \ {s, e}
           w == Window(q, b, m)
<1>1. /\ b \in 0 .. 1 /\ f \in 0 .. 1 /\ (s = ID_NONE <=> b = 0) /\ (e = ID_NONE <=> f = 0)
      /\ m = (n - b) - f
  BY DEF Fixed
<1>0. b + f <= n
  OBVIOUS
<1>2. /\ q \in [1 .. n -> W] /\ \A x, y \in 1 .. n : q[x] = q[y] => x = y
      /\ \A v \in W : \E x \in 1 .. n : q[x] = v
  BY DEF Lists
<1>3. ID_NONE \notin W
  BY NodeFacts
<1> HIDE DEF b, f, m
<1>14. m \in Nat
  BY ONLY <1>0, <1>1, n \in Nat
<1>4. \A y \in 1 .. m : /\ b + y \in 1 .. n
                        /\ b = 1 => b + y # 1
                        /\ f = 1 => b + y # n
  BY ONLY <1>1, n \in Nat
<1>5. (b = 1 => 1 \in 1 .. n) /\ (f = 1 => n \in 1 .. n)
  BY ONLY <1>1, <1>0, n \in Nat
<1>6. ASSUME NEW y \in 1 .. m PROVE w[y] = q[b + y] /\ w[y] \in V
  <2>1. w[y] = q[b + y] /\ q[b + y] \in W
    BY <1>2, <1>4 DEF Window
  <2>2. s # ID_NONE => q[b + y] # s
    BY <1>1, <1>2, <1>4, <1>5
  <2>3. e # ID_NONE => q[b + y] # e
    BY <1>1, <1>2, <1>4, <1>5
  <2> QED
    BY <1>3, <2>1, <2>2, <2>3
<1>7. w \in [1 .. m -> V]
  BY <1>6 DEF Window
<1>8. ASSUME NEW x \in 1 .. m, NEW y \in 1 .. m, w[x] = w[y] PROVE x = y
  <2>1. b + x \in 1 .. n /\ b + y \in 1 .. n /\ q[b + x] = q[b + y]
    BY <1>4, <1>6, <1>8
  <2>2. b + x = b + y
    BY <1>2, <2>1
  <2> QED
    BY ONLY <1>1, <2>2, x \in 1 .. m, y \in 1 .. m
<1>9. ASSUME NEW v \in V PROVE \E y \in 1 .. m : w[y] = v
  <2>1. PICK x \in 1 .. n : q[x] = v
    BY <1>2
  <2>2. (b = 1 => x # 1) /\ (f = 1 => x # n)
    BY <1>1, <2>1
  <2>3. x - b \in 1 .. m /\ b + (x - b) = x
    BY ONLY <1>1, <2>2, x \in 1 .. n, n \in Nat
  <2>4. w[x - b] = v
    BY <1>6, <2>1, <2>3
  <2> QED
    BY <2>3, <2>4
<1> HIDE DEF w, V
<1>10. Lists(w, m, V)
  BY <1>7, <1>8, <1>9 DEF Lists
<1>11. Cardinality(V) = m
  BY <1>10, <1>14, ListCounts
<1>12. q \in Seq(Nodes) /\ Len(q) = n
  BY <1>2
<1>13. n = (b + m) + f
  BY ONLY <1>1, n \in Nat
<1> QED
  BY <1>10, <1>11, <1>12, <1>13 DEF Tours, w, V, b, f

\* A tour whose first node is added to its end is a round trip.
LEMMA RoundTour ==
  ASSUME NEW W, W \subseteq Nodes, NEW s \in Nodes, NEW q,
         q \in Tours(s, ID_NONE, W)
  PROVE  Append(q, s) \in Tours(s, s, W)
<1> DEFINE n == Cardinality(W)
           p == Append(q, s)
           l == Len(q)
<1>1. /\ n \in Nat /\ Fixed(s) = 1 /\ Fixed(ID_NONE) = 0 /\ ID_NONE \notin Nodes
      /\ s # ID_NONE
  BY SetOfNodes, NodeFacts DEF Fixed
<1>2. /\ q \in Seq(Nodes) /\ l = (1 + n) + 0 /\ Lists(Window(q, 1, n), n, W) /\ q[1] = s
  BY <1>1 DEF Tours
<1>3. /\ p \in Seq(Nodes) /\ Len(p) = l + 1 /\ p[l + 1] = s
      /\ \A k \in 1 .. l : p[k] = q[k]
  BY <1>2
<1> HIDE DEF p, n, l
<1>4. Len(p) = (1 + n) + 1 /\ 1 \in 1 .. l /\ \A y \in 1 .. n : 1 + y \in 1 .. l
  BY ONLY <1>1, <1>2, <1>3
<1>5. Window(p, 1, n) = Window(q, 1, n)
  BY <1>3, <1>4 DEF Window
<1>6. p[1] = s /\ p[Len(p)] = s
  BY <1>2, <1>3, <1>4
<1>7. p \in Tours(s, s, W)
  BY <1>1, <1>2, <1>3, <1>4, <1>5, <1>6 DEF Tours, n
<1> QED
  BY <1>7 DEF p

\* The first tspi_regularize_template of a model does not abort, and makes the
\* template a tour.
LEMMA FirstRegularized ==
  ASSUME NEW s \in (0 .. num_nodes - 1) \cup {ID_NONE},
         NEW e \in (0 .. num_nodes - 1) \cup {ID_NONE},
         num_nodes \in Nat, num_nodes > 2, 0 .. num_nodes - 1 \subseteq Nodes,
         template = Numbered(num_nodes)
  PROVE  /\ ~RegularizeAborts(s, e)
         /\ Regularized(s, e) \in Tours(s, e, (0 .. num_nodes - 1) \ {s, e})
         /\ s # e => /\ Lists(Regularized(s, e), num_nodes, 0 .. num_nodes - 1)
                     /\ e # ID_NONE => Regularized(s, e)[num_nodes] = e
<1> DEFINE n == num_nodes
           W == 0 .. n - 1
           p == WithStart(s)
<1>1. /\ n \in Nat /\ n > 2 /\ Lists(template, n, W)
      /\ \A k \in 1 .. n : template[k] = k - 1
      /\ ID_NONE \notin W /\ W \subseteq Nodes
      /\ s \in W \cup {ID_NONE} /\ e \in W \cup {ID_NONE}
      /\ Fixed(s) + Fixed(e) <= n /\ Fixed(s) + Fixed(ID_NONE) <= n
  BY NumberedList, NodeFacts DEF Numbered, Fixed
<1>2. /\ Lists(p, n, W)
      /\ s # ID_NONE => p[1] = s /\ p[s + 1] = 0
      /\ \A k \in 1 .. n : k # 1 /\ k # s + 1 => p[k] = k - 1
      /\ s = ID_NONE => \A k \in 1 .. n : p[k] = k - 1
  <2>1. CASE s = ID_NONE
    <3>1. p = template
      BY <2>1 DEF WithStart
    <3> QED
      BY <1>1, <2>1, <3>1
  <2>2. CASE s # ID_NONE
    <3>1. p = SwapNodes(template, 0, s) /\ s \in 0 .. n - 1 /\ 0 \in 0 .. n - 1
      BY <1>1, <2>2 DEF WithStart
    <3> DEFINE z == 0
    <3>2. z \in 0 .. n - 1 /\ p = SwapNodes(template, z, s)
      BY <3>1
    <3> HIDE DEF p, n, W, z
    <3>4. Lists(template, n, W) /\ n \in Nat /\ s \in 0 .. n - 1
      BY <1>1, <3>1
    <3>5. /\ Lists(p, n, W) /\ p[s + 1] = template[z + 1] /\ p[z + 1] = template[s + 1]
          /\ \A k \in 1 .. n : k # z + 1 /\ k # s + 1 => p[k] = template[k]
      <4>1. IsSwapped(SwapNodes(template, z, s), template, n, W, z, s)
        BY ONLY <3>2, <3>4, SwappedList
      <4> QED
        BY ONLY <3>2, <4>1 DEF IsSwapped
    <3>3. 0 + 1 = 1 /\ 1 \in 1 .. n /\ s + 1 \in 1 .. n /\ (s + 1) - 1 = s
      BY <1>1, <3>1
    <3> QED
      BY <1>1, <2>2, <3>3, <3>5 DEF z
  <2> QED
    BY <2>1, <2>2
<1>3. CASE e = ID_NONE
  <2>1. p \in Tours(s, e, W \ {s, e})
    <3>1. (s # ID_NONE => p[1] = s) /\ (s = e => s = ID_NONE) /\ Lists(p, n, W)
      BY <1>2, <1>3
    <3> HIDE DEF p, W, n
    <3> QED
      BY <1>1, <1>3, <3>1, ListedTour
  <2> QED
    BY <1>2, <1>3, <2>1 DEF Regularized, RegularizeAborts
<1>4. CASE e # ID_NONE /\ s = e
  <2>1. p \in Tours(s, ID_NONE, W \ {s})
    <3>1. p \in Tours(s, ID_NONE, W \ {s, ID_NONE})
      <4> DEFINE none == ID_NONE
      <4>1. none \in W \cup {ID_NONE} /\ (s = none => s = ID_NONE)
            /\ (none # ID_NONE => p[n] = none) /\ Fixed(s) + Fixed(none) <= n
        BY <1>1
      <4>2. (s # ID_NONE => p[1] = s) /\ Lists(p, n, W)
        BY <1>2
      <4> HIDE DEF p, none, W, n
      <4>3. p \in Tours(s, none, W \ {s, none})
        BY <1>1, <4>1, <4>2, ListedTour
      <4> QED
        BY <4>3 DEF none
    <3>2. W \ {s, ID_NONE} = W \ {s}
      BY <1>1
    <3> QED
      BY <3>1, <3>2
  <2>2. Append(p, e) \in Tours(s, e, W \ {s, e})
    <3>1. s \in Nodes /\ W \ {s} = W \ {s, e} /\ W \ {s} \subseteq Nodes
      BY <1>1, <1>4
    <3> HIDE DEF p, W
    <3> QED
      BY <1>4, <2>1, <3>1, RoundTour
  <2> QED
    BY <1>4, <2>2 DEF Regularized, RegularizeAborts
<1>5. CASE e # ID_NONE /\ s # e
  <2> DEFINE x == EndPosition(s, e)
             q == SwapNodes(p, x, n - 1)
  <2>1. x \in 0 .. n - 1 /\ p[x + 1] = e /\ (s # ID_NONE => x # 0)
    <3>1. CASE e = 0 /\ s # ID_NONE
      BY <1>2, <1>5, <3>1 DEF EndPosition
    <3>2. CASE ~(e = 0 /\ s # ID_NONE)
      <4>1. x = e /\ e \in 0 .. n - 1 /\ (s # ID_NONE => e # 0)
        BY <1>5, <3>2 DEF EndPosition
      <4>2. e + 1 \in 1 .. n /\ (e + 1) - 1 = e /\ (s # ID_NONE => e + 1 # s + 1)
        BY <1>1, <1>5, <4>1
      <4>3. s # ID_NONE => e + 1 # 1
        BY <4>1
      <4> QED
        BY <1>1, <1>2, <4>1, <4>2, <4>3
    <3> QED
      BY <3>1, <3>2
  <2>2. ~RegularizeAborts(s, e)
    BY <2>1 DEF RegularizeAborts, At
  <2> HIDE DEF p, x, W, n
  <2>3. /\ Lists(q, n, W) /\ q[(n - 1) + 1] = p[x + 1]
        /\ \A k \in 1 .. n : k # x + 1 /\ k # (n - 1) + 1 => q[k] = p[k]
    <3> DEFINE y == n - 1
    <3>1. y \in 0 .. n - 1 /\ n \in Nat /\ Lists(p, n, W)
      BY <1>1, <1>2
    <3>2. q = SwapNodes(p, x, y)
      OBVIOUS
    <3> HIDE DEF y, q
    <3>3. /\ Lists(q, n, W) /\ q[y + 1] = p[x + 1]
          /\ \A k \in 1 .. n : k # x + 1 /\ k # y + 1 => q[k] = p[k]
      <4>1. IsSwapped(SwapNodes(p, x, y), p, n, W, x, y)
        BY ONLY <2>1, <3>1, SwappedList
      <4> QED
        BY ONLY <3>2, <4>1 DEF IsSwapped
    <3> QED
      BY <3>3 DEF y
  <2>4. (n - 1) + 1 = n /\ n # 1 /\ 1 \in 1 .. n /\ (s # ID_NONE => x + 1 # 1)
    BY <1>1, <2>1
  <2>5. q[n] = e /\ (s # ID_NONE => q[1] = s)
    BY <1>2, <2>1, <2>3, <2>4
  <2> HIDE DEF q
  <2>7. q \in Tours(s, e, W \ {s, e})
    BY <1>1, <1>5, <2>3, <2>5, ListedTour
  <2> QED
    BY <1>5, <2>2, <2>3, <2>5, <2>7 DEF Regularized, p, q, x, n, W
<1> QED
  BY <1>3, <1>4, <1>5

\* What tspi_regularize_template makes of a template in general.
LEMMA RegularizedType ==
  ASSUME NEW s \in (0 .. num_nodes - 1) \cup {ID_NONE},
         NEW e \in (0 .. num_nodes - 1) \cup {ID_NONE},
         num_nodes \in Nat, num_nodes > 2, 0 .. num_nodes - 1 \subseteq Nodes,
         template \in Seq(Nodes), Len(template) >= num_nodes
  PROVE  Regularized(s, e) \in Seq(Nodes) /\ Len(Regularized(s, e)) >= num_nodes
<1> DEFINE n == num_nodes
           p == WithStart(s)
<1>1. n \in Nat /\ n > 2 /\ template \in Seq(Nodes) /\ Len(template) >= n
      /\ 0 .. n - 1 \subseteq Nodes
  OBVIOUS
<1>2. ASSUME NEW r \in Seq(Nodes), Len(r) >= n, NEW i \in 0 .. n - 1, NEW j \in 0 .. n - 1
      PROVE  SwapNodes(r, i, j) \in Seq(Nodes) /\ Len(SwapNodes(r, i, j)) = Len(r)
  <2>1. i + 1 \in 1 .. Len(r) /\ j + 1 \in 1 .. Len(r)
    BY <1>1, <1>2
  <2>2. r[i + 1] \in Nodes /\ r[j + 1] \in Nodes
    BY <2>1
  <2> QED
    BY <2>1, <2>2 DEF SwapNodes, At
<1>3. p \in Seq(Nodes) /\ Len(p) >= n
  <2>1. 0 \in 0 .. n - 1
    BY <1>1
  <2>2. s # ID_NONE => s \in 0 .. n - 1
    OBVIOUS
  <2> QED
    BY <1>1, <1>2, <2>1, <2>2 DEF WithStart
<1> HIDE DEF p
<1>4. CASE e = ID_NONE
  BY <1>3, <1>4 DEF Regularized, p
<1>5. CASE e # ID_NONE /\ s = e
  <2>1. e \in Nodes /\ Regularized(s, e) = Append(p, e)
    BY <1>1, <1>5 DEF Regularized, p
  <2> QED
    BY <1>1, <1>3, <2>1
<1>6. CASE e # ID_NONE /\ s # e
  <2>1. EndPosition(s, e) \in 0 .. n - 1 /\ n - 1 \in 0 .. n - 1
    BY <1>1, <1>6 DEF EndPosition
  <2>2. Regularized(s, e) = SwapNodes(p, EndPosition(s, e), n - 1)
    BY <1>6 DEF Regularized, p
  <2> QED
    BY <1>2, <1>3, <2>1, <2>2
<1> QED
  BY <1>4, <1>5, <1>6

\* The template when the end has always been last and the start is swapped with
\* node 0 once more by every call.
Turned(s, n, k) == IF k % 2 = 1 THEN SwapNodes(Numbered(n), 0, s) ELSE Numbered(n)

\* The template t after k calls of tspi_solve: that of a round trip grows, that
\* of a one-way trip still lists all nodes, and its end is last.
IsResolved(t, s, e, n, k) ==
  /\ s = e /\ s # ID_NONE => Len(t) = n + k
  /\ s # e => Lists(t, n, 0 .. n - 1) /\ (e # ID_NONE => t[n] = e)
  /\ s # e /\ s # ID_NONE /\ e = n - 1 => t = Turned(s, n, k)

\* Swapping two nodes twice, or a node with itself, changes nothing.
LEMMA SwapUndone ==
  ASSUME NEW n \in Nat, NEW W, NEW f \in [1 .. n -> W],
         NEW i \in 0 .. n - 1, NEW j \in 0 .. n - 1
  PROVE  /\ SwapNodes(SwapNodes(f, i, j), i, j) = f
         /\ SwapNodes(f, i, i) = f
<1> DEFINE g == SwapNodes(f, i, j)
           h == SwapNodes(g, i, j)
           q == SwapNodes(f, i, i)
<1>1. i + 1 \in 1 .. n /\ j + 1 \in 1 .. n
  OBVIOUS
<1>2. /\ g \in [1 .. n -> W] /\ g[j + 1] = f[i + 1] /\ g[i + 1] = f[j + 1]
      /\ \A k \in 1 .. n : k # i + 1 /\ k # j + 1 => g[k] = f[k]
  BY <1>1 DEF SwapNodes, At
<1> HIDE DEF g
<1>3. /\ h \in [1 .. n -> W] /\ h[j + 1] = g[i + 1] /\ h[i + 1] = g[j + 1]
      /\ \A k \in 1 .. n : k # i + 1 /\ k # j + 1 => h[k] = g[k]
  BY <1>1, <1>2 DEF SwapNodes, At
<1> HIDE DEF h
<1>4. h = f
  <2>1. \A k \in 1 .. n : h[k] = f[k]
    BY <1>1, <1>2, <1>3
  <2> QED
    BY <1>3, <2>1
<1>5. q = f
  <2>1. q \in [1 .. n -> W] /\ \A k \in 1 .. n : q[k] = f[k]
    BY <1>1 DEF SwapNodes, At
  <2> QED
    BY <2>1
<1> QED
  BY <1>4, <1>5 DEF g, h

\* The first call leaves such a template.
LEMMA FirstResolved ==
  ASSUME NEW s \in (0 .. num_nodes - 1) \cup {ID_NONE},
         NEW e \in (0 .. num_nodes - 1) \cup {ID_NONE},
         num_nodes \in Nat, num_nodes > 2, 0 .. num_nodes - 1 \subseteq Nodes,
         template = Numbered(num_nodes)
  PROVE  IsResolved(Regularized(s, e), s, e, num_nodes, 1)
<1> DEFINE n == num_nodes
           W == 0 .. n - 1
           p == WithStart(s)
           one == 1
<1>0. n \in Nat /\ n > 2 /\ template = Numbered(n) /\ Lists(template, n, W)
  BY NumberedList
<1>1. /\ n \in Nat /\ n > 2 /\ template \in [1 .. n -> W] /\ template = Numbered(n)
      /\ ID_NONE \notin W /\ n - 1 \in 0 .. n - 1 /\ 0 \in 0 .. n - 1
  BY <1>0, NodeFacts DEF Lists
<1>2. s # ID_NONE => p = SwapNodes(Numbered(n), 0, s) /\ p \in [1 .. n -> W]
  <2> SUFFICES ASSUME s # ID_NONE
               PROVE  p = SwapNodes(Numbered(n), 0, s) /\ p \in [1 .. n -> W]
    OBVIOUS
  <2>1. p = SwapNodes(template, 0, s) /\ s + 1 \in 1 .. n /\ 0 + 1 \in 1 .. n
    BY <1>1 DEF WithStart
  <2> HIDE DEF p
  <2> QED
    BY <1>1, <2>1 DEF SwapNodes, At
<1>3. s = e /\ s # ID_NONE => Len(Regularized(s, e)) = n + 1
  <2> SUFFICES ASSUME s = e, s # ID_NONE PROVE Len(Regularized(s, e)) = n + 1
    OBVIOUS
  <2>1. Regularized(s, e) = Append(p, e)
    BY DEF Regularized
  <2>2. p \in Seq(W) /\ Len(p) = n
    <3> HIDE DEF p, W
    <3> QED
      BY <1>1, <1>2
  <2> HIDE DEF p, W
  <2> QED
    BY <1>1, <2>1, <2>2
<1>4. s # e => /\ Lists(Regularized(s, e), n, W)
               /\ e # ID_NONE => Regularized(s, e)[n] = e
  BY <1>1, FirstRegularized
<1>5. s # e /\ s # ID_NONE /\ e = n - 1 => Regularized(s, e) = Turned(s, n, one)
  <2> SUFFICES ASSUME s # e, s # ID_NONE, e = n - 1
               PROVE  Regularized(s, e) = Turned(s, n, one)
    OBVIOUS
  <2>1. e # ID_NONE /\ e # 0
    BY <1>1
  <2>2. Regularized(s, e) = SwapNodes(p, n - 1, n - 1)
    BY <2>1 DEF Regularized, EndPosition
  <2>3. SwapNodes(p, n - 1, n - 1) = p
    <3> DEFINE y == n - 1
    <3>1. y \in 0 .. n - 1 /\ n \in Nat /\ p \in [1 .. n -> W]
      BY <1>1, <1>2
    <3> HIDE DEF y, p, W, n
    <3>2. SwapNodes(p, y, y) = p
      BY ONLY <3>1, SwapUndone
    <3> QED
      BY <3>2 DEF y, n
  <2>4. Turned(s, n, one) = SwapNodes(Numbered(n), 0, s)
    BY DEF Turned
  <2> QED
    BY <1>2, <2>2, <2>3, <2>4
<1> QED
  BY <1>3, <1>4, <1>5 DEF IsResolved

\* The calls after it find the end where it is looked for only if it is the last
\* node of all.
LEMMA AgainRegularized ==
  ASSUME NEW s \in 0 .. num_nodes - 1, NEW e \in 0 .. num_nodes - 1, NEW k \in Nat,
         num_nodes \in Nat, num_nodes > 2, 0 .. num_nodes - 1 \subseteq Nodes,
         template \in Seq(Nodes), IsResolved(template, s, e, num_nodes, k)
  PROVE  /\ RegularizeAborts(s, e) <=> s # e /\ e # num_nodes - 1
         /\ ~RegularizeAborts(s, e) =>
              IsResolved(Regularized(s, e), s, e, num_nodes, k + 1)
<1> DEFINE n == num_nodes
           W == 0 .. n - 1
           p == SwapNodes(template, 0, s)
           x == EndPosition(s, e)
<1>1. /\ n \in Nat /\ n > 2 /\ ID_NONE \notin W /\ s # ID_NONE /\ e # ID_NONE
      /\ WithStart(s) = p /\ s \in W /\ e \in W
  BY NodeFacts DEF WithStart
<1>2. CASE s = e
  <2>1. ~RegularizeAborts(s, e) /\ Regularized(s, e) = Append(p, e)
    BY <1>1, <1>2 DEF RegularizeAborts, Regularized
  <2>2. Len(template) = n + k
    BY <1>1, <1>2 DEF IsResolved
  <2>3. p \in Seq(Nodes) /\ Len(p) = n + k
    <3>1. 0 + 1 \in 1 .. Len(template) /\ s + 1 \in 1 .. Len(template)
      BY <1>1, <2>2
    <3>2. template[0 + 1] \in Nodes /\ template[s + 1] \in Nodes
      BY <3>1
    <3> QED
      BY <2>2, <3>1, <3>2 DEF SwapNodes, At
  <2> HIDE DEF p
  <2>4. Len(Append(p, e)) = n + (k + 1)
    BY <1>1, <2>3
  <2>5. \A t : Len(t) = n + (k + 1) => IsResolved(t, s, e, n, k + 1)
    BY <1>2 DEF IsResolved
  <2> QED
    BY <1>2, <2>1, <2>4, <2>5
<1>3. CASE s # e
  <2>1. /\ Lists(template, n, W) /\ template[n] = e
        /\ e = n - 1 => template = Turned(s, n, k)
    BY <1>1, <1>3 DEF IsResolved
  <2>2. /\ Lists(p, n, W) /\ p[s + 1] = template[1] /\ p[1] = template[s + 1]
        /\ \A y \in 1 .. n : y # 1 /\ y # s + 1 => p[y] = template[y]
    <3> DEFINE z == 0
    <3>1. z \in 0 .. n - 1 /\ s \in 0 .. n - 1 /\ z + 1 = 1 /\ p = SwapNodes(template, z, s)
      BY <1>1
    <3> HIDE DEF z, p, W, n
    <3>2. IsSwapped(p, template, n, W, z, s)
      BY ONLY <1>1, <2>1, <3>1, SwappedList
    <3> QED
      BY ONLY <3>1, <3>2 DEF IsSwapped
  <2>3. /\ \A y, z \in 1 .. n : p[y] = p[z] => y = z
        /\ x \in 0 .. n - 1 /\ x + 1 \in 1 .. n
        /\ x = IF e = 0 THEN s ELSE e
    BY <1>1, <2>2 DEF Lists, EndPosition
  <2>4. RegularizeAborts(s, e) <=> p[x + 1] # e
    BY <1>1, <1>3 DEF RegularizeAborts, At
  <2> HIDE DEF p, x, W, n
  <2>5. p[x + 1] = e <=> e = n - 1
    <3>1. CASE s = n - 1
      <4>1. s + 1 = n /\ p[1] = e /\ 1 \in 1 .. n /\ x + 1 # 1
        BY <1>1, <1>3, <2>1, <2>2, <2>3, <3>1
      <4> QED
        BY <1>3, <2>3, <3>1, <4>1
    <3>2. CASE s # n - 1
      <4>1. n \in 1 .. n /\ n # 1 /\ n # s + 1
        BY <1>1, <3>2 DEF W
      <4>2. p[n] = e
        BY <2>1, <2>2, <4>1
      <4>3. p[x + 1] = e <=> x + 1 = n
        BY <2>3, <4>1, <4>2
      <4>4. x + 1 = n <=> e = n - 1
        BY <1>1, <1>3, <2>3, <3>2 DEF W
      <4> QED
        BY <4>3, <4>4
    <3> QED
      BY <3>1, <3>2
  <2>6. e = n - 1 => IsResolved(Regularized(s, e), s, e, n, k + 1)
    <3> SUFFICES ASSUME e = n - 1 PROVE IsResolved(Regularized(s, e), s, e, n, k + 1)
      OBVIOUS
    <3>1. e # 0 /\ p \in [1 .. n -> W] /\ n - 1 \in 0 .. n - 1 /\ 0 \in 0 .. n - 1
          /\ s \in 0 .. n - 1 /\ n \in 1 .. n /\ n # 1 /\ n # s + 1
      <4>1. p \in [1 .. n -> W]
        BY <2>2 DEF Lists
      <4>2. s \in 0 .. n - 1 /\ s # n - 1
        BY <1>1, <1>3 DEF W
      <4>3. e = n - 1
        OBVIOUS
      <4> QED
        BY ONLY <1>1, <4>1, <4>2, <4>3
    <3>2. Regularized(s, e) = SwapNodes(p, n - 1, n - 1)
      BY <1>1, <1>3, <3>1 DEF Regularized, EndPosition, n
    <3>3. SwapNodes(p, n - 1, n - 1) = p
      <4> DEFINE y == n - 1
      <4>1. y \in 0 .. n - 1 /\ n \in Nat /\ p \in [1 .. n -> W]
        BY <1>1, <3>1
      <4> HIDE DEF y
      <4>2. SwapNodes(p, y, y) = p
        BY ONLY <4>1, SwapUndone
      <4> QED
        BY <4>2 DEF y
    <3>4. p[n] = e
      BY <2>1, <2>2, <3>1
    <3>5. p = Turned(s, n, k + 1)
      <4>1. template = Turned(s, n, k) /\ p = SwapNodes(template, 0, s)
        BY <2>1 DEF p
      <4>2. SwapNodes(SwapNodes(Numbered(n), 0, s), 0, s) = Numbered(n)
        <5> DEFINE z == 0
                   q == Numbered(n)
        <5>1. z \in 0 .. n - 1 /\ n \in Nat /\ q \in [1 .. n -> W] /\ s \in 0 .. n - 1
          <6>1. Lists(q, n, W)
            BY <1>1, NumberedList DEF W
          <6> QED
            BY <1>1, <3>1, <6>1 DEF Lists
        <5> HIDE DEF z, q, n, W
        <5>2. SwapNodes(SwapNodes(q, z, s), z, s) = q
          <6>1. SwapNodes(SwapNodes(q, z, s), z, s) = q /\ SwapNodes(q, z, z) = q
            BY ONLY <5>1, SwapUndone
          <6> QED
            BY <6>1
        <5> QED
          BY <5>2 DEF z, q
      <4>3. (k + 1) % 2 = 1 <=> ~(k % 2 = 1)
        OBVIOUS
      <4> QED
        BY <4>1, <4>2, <4>3 DEF Turned
    <3> QED
      BY <1>3, <2>2, <3>2, <3>3, <3>4, <3>5 DEF IsResolved, W
  <2> QED
    BY <1>3, <2>4, <2>5, <2>6 DEF n
<1> QED
  BY <1>2, <1>3

\* Which of these templates is a tour.
LEMMA ResolvedTour ==
  ASSUME NEW s \in 0 .. num_nodes - 1, NEW e \in 0 .. num_nodes - 1,
         NEW k \in Nat, k > 1, s = e \/ e = num_nodes - 1,
         num_nodes \in Nat, num_nodes > 2, 0 .. num_nodes - 1 \subseteq Nodes,
         template \in Seq(Nodes), IsResolved(template, s, e, num_nodes, k)
  PROVE  template \in Tours(s, e, (0 .. num_nodes - 1) \ {s, e})
           <=> s # e /\ (s = 0 \/ k % 2 = 1)
<1> DEFINE n == num_nodes
           W == 0 .. n - 1
<1>1. /\ n \in Nat /\ n > 2 /\ ID_NONE \notin W /\ s # ID_NONE /\ e # ID_NONE
      /\ s \in W /\ e \in W /\ Fixed(s) = 1 /\ Fixed(e) = 1 /\ W \subseteq Nodes
  BY NodeFacts DEF Fixed
<1>2. CASE s = e
  <2>1. Len(template) = n + k
    BY <1>1, <1>2 DEF IsResolved
  <2> DEFINE c == Cardinality(W \ {s, e})
  <2>2. c = n - 1
    <3>1. IsFiniteSet(W) /\ Cardinality(W) = n
      BY <1>1, FS_Interval
    <3> HIDE DEF W
    <3>2. Cardinality(W \ {s}) = Cardinality(W) - 1
      BY <1>1, <3>1, FS_RemoveElement
    <3>3. W \ {s, e} = W \ {s}
      BY <1>2
    <3> QED
      BY <3>1, <3>2, <3>3
  <2>3. template \in Tours(s, e, W \ {s, e}) => Len(template) = (Fixed(s) + c) + Fixed(e)
    BY DEF Tours
  <2> HIDE DEF c, W
  <2>4. Len(template) # (Fixed(s) + c) + Fixed(e)
    BY <1>1, <2>1, <2>2
  <2> QED
    BY <1>2, <2>3, <2>4 DEF W
<1>3. CASE s # e
  <2>1. /\ Lists(template, n, W) /\ template[n] = e /\ template = Turned(s, n, k)
    BY <1>1, <1>3 DEF IsResolved
  <2>2. template[1] = s <=> s = 0 \/ k % 2 = 1
    <3>1. Numbered(n)[1] = 0 /\ Numbered(n) \in [1 .. n -> W] /\ 1 \in 1 .. n
          /\ s + 1 \in 1 .. n /\ Numbered(n)[s + 1] = s
      BY <1>1, NumberedList DEF Numbered, Lists
    <3>2. SwapNodes(Numbered(n), 0, s)[1] = s
      <4> DEFINE q == Numbered(n)
      <4> HIDE DEF q
      <4>1. q[0 + 1] = 0 /\ q \in [1 .. n -> W] /\ 0 + 1 \in 1 .. n
            /\ s + 1 \in 1 .. n /\ q[s + 1] = s /\ 0 + 1 = 1
        BY <3>1 DEF q
      <4>2. SwapNodes(q, 0, s)[0 + 1] = s
        BY <4>1 DEF SwapNodes, At
      <4> QED
        BY <4>1, <4>2 DEF q
    <3>3. template = IF k % 2 = 1 THEN SwapNodes(Numbered(n), 0, s) ELSE Numbered(n)
      BY <2>1 DEF Turned
    <3> QED
      BY <3>1, <3>2, <3>3
  <2>3. template[1] = s => template \in Tours(s, e, W \ {s, e})
    <3> SUFFICES ASSUME template[1] = s PROVE template \in Tours(s, e, W \ {s, e})
      OBVIOUS
    <3>1. Fixed(s) + Fixed(e) <= n /\ s \in W \cup {ID_NONE} /\ e \in W \cup {ID_NONE}
      BY <1>1
    <3> HIDE DEF W, n
    <3> QED
      BY <1>1, <1>3, <2>1, <3>1, ListedTour
  <2>4. template \in Tours(s, e, W \ {s, e}) => template[1] = s
    BY <1>1 DEF Tours
  <2> QED
    BY <1>3, <2>2, <2>3, <2>4
<1> QED
  BY <1>2, <1>3

-----------------------------------------------------------------------------
(***************************************************************************)
(* The template of a generic model                                         *)
(***************************************************************************)

\* The start and the nodes of the first k requests, as Listed adds them.
ListedOf(start, list) ==
  LET added[k \in 0 .. Len(list)] ==
        IF k = 0 THEN Given(start) ELSE AddedOnce(added[k - 1], VisitOf(list[k]))
  IN  added

\* Listed answers with all of them.
LEMMA ListedIsLast == \A s, list : Listed(s, list) = ListedOf(s, list)[Len(list)]
BY DEF Listed, ListedOf

\* A list of requests whose nodes exist.
IsAsked(list) ==
  /\ Len(list) \in Nat /\ DOMAIN list = 1 .. Len(list)
  /\ \A k \in 1 .. Len(list) : VisitOf(list[k]) \in Nodes

\* The loop of Listed.
IsListing(g, s, list) ==
  /\ g[0] = Given(s)
  /\ \A k \in 1 .. Len(list) : g[k] = AddedOnce(g[k - 1], VisitOf(list[k]))

\* It starts with the start and adds one node after the other.
LEMMA ListingStep ==
  ASSUME NEW s \in MaybeNode, NEW list, IsAsked(list)
  PROVE  IsListing(ListedOf(s, list), s, list)
<1> DEFINE n == Len(list)
           T == Seq(Nodes)
           v(k) == VisitOf(list[k])
           a == Given(s)
           Def(g) == g = [k \in 0 .. n |-> IF k = 0 THEN a ELSE AddedOnce(g[k - 1], v(k))]
           step == [k \in 1 .. n |-> [t \in T |-> AddedOnce(t, v(k))]]
<1>1. n \in Nat /\ \A k \in 1 .. n : v(k) \in Nodes
  BY DEF IsAsked
<1>2. a \in T
  BY GivenFacts
<1> HIDE DEF v, a, n
<1>3. \A k \in 1 .. n : \A t \in T : AddedOnce(t, v(k)) \in T
  BY <1>1 DEF AddedOnce
<1>4. \E f \in [0 .. n -> T] : Iterates(f, n, a, step)
  <2>1. step \in [1 .. n -> [T -> T]]
    BY <1>3
  <2> HIDE DEF step, T
  <2> QED
    BY ONLY <1>1, <1>2, <2>1, Iteration
<1>5. PICK f \in [0 .. n -> T] : Def(f)
  <2>1. PICK f \in [0 .. n -> T] :
           f[0] = a /\ \A k \in 1 .. n : f[k] = step[k][f[k - 1]]
    BY <1>4 DEF Iterates
  <2>2. ASSUME NEW k \in 1 .. n PROVE f[k] = AddedOnce(f[k - 1], v(k))
    <3>1. k - 1 \in 0 .. n
      BY <1>1
    <3> HIDE DEF T
    <3>2. f[k - 1] \in T
      BY <2>1, <3>1
    <3> QED
      BY <2>1, <3>2
  <2>3. \A k \in 0 .. n : k = 0 \/ k \in 1 .. n
    BY <1>1
  <2>4. f[0] = a
    BY <2>1
  <2> HIDE DEF T, step
  <2>5. Def(f)
    BY <2>2, <2>3, <2>4
  <2> QED
    BY <2>5
<1>6. Def(ListedOf(s, list))
  BY <1>5 DEF ListedOf, n, a, v
<1> DEFINE g == ListedOf(s, list)
<1> HIDE DEF g
<1>7. g[0] = a /\ \A k \in 1 .. n : g[k] = AddedOnce(g[k - 1], v(k))
  <2>1. Def(g)
    BY <1>6 DEF g
  <2>2. 0 \in 0 .. n /\ \A k \in 1 .. n : k \in 0 .. n /\ k # 0
    BY <1>1
  <2> QED
    BY <2>1, <2>2
<1> QED
  BY <1>7 DEF IsListing, g, a, n, v

\* Among the first k requests one names the end, and a later one a node that is
\* not an end and has not been named before.
NamedLater(s, e, list, k) ==
  \E i, j \in 1 .. k :
    /\ i < j
    /\ VisitOf(list[i]) = e /\ VisitOf(list[j]) \notin {s, e}
    /\ \A m \in 1 .. j - 1 : VisitOf(list[m]) # VisitOf(list[j])

\* The list t names each node of the set V once, a given start first.
Names(t, s, V) ==
  /\ t \in Seq(Nodes) /\ IsInjective(t)
  /\ \A x \in Nodes : Contains(t, x) <=> x \in V
  /\ s # ID_NONE => Len(t) > 0 /\ t[1] = s

\* The nodes of the first k requests and the start.
Asked(s, list, k) == {VisitOf(list[m]) : m \in 1 .. k} \cup ({s} \ {ID_NONE})

\* What adding a node once does.
LEMMA AddedNames ==
  ASSUME NEW t, NEW s \in MaybeNode, NEW V, Names(t, s, V), NEW x \in Nodes
  PROVE  /\ x \in V => AddedOnce(t, x) = t
         /\ x \notin V => AddedOnce(t, x) = Append(t, x)
         /\ Names(AddedOnce(t, x), s, V \cup {x})
         /\ x \notin V => AddedOnce(t, x)[Len(AddedOnce(t, x))] = x
<1>1. /\ t \in Seq(Nodes) /\ IsInjective(t) /\ x # ID_NONE
      /\ \A y \in Nodes : Contains(t, y) <=> y \in V
      /\ s # ID_NONE => Len(t) > 0 /\ t[1] = s
  BY NodeFacts DEF Names
<1>2. CASE x \in V
  <2>1. AddedOnce(t, x) = t
    BY <1>1, <1>2 DEF AddedOnce
  <2> QED
    BY <1>1, <1>2, <2>1 DEF Names
<1>3. CASE x \notin V
  <2> DEFINE u == Append(t, x)
  <2>1. AddedOnce(t, x) = u /\ ~Contains(t, x)
    BY <1>1, <1>3 DEF AddedOnce
  <2>2. IsInjective(u)
    BY <1>1, <2>1, InjectiveAppend
  <2>3. \A y \in Nodes : Contains(u, y) <=> y \in V \/ y = x
    BY <1>1, ContainsAppend
  <2>4. /\ u \in Seq(Nodes) /\ Len(u) = Len(t) + 1 /\ Len(t) \in Nat /\ u[Len(t) + 1] = x
        /\ \A k \in 1 .. Len(t) : u[k] = t[k]
    BY <1>1
  <2> HIDE DEF u
  <2>5. u[Len(u)] = x
    BY <2>4
  <2>6. s # ID_NONE => Len(u) > 0 /\ u[1] = s
    <3>1. s # ID_NONE => Len(u) > 0 /\ 1 \in 1 .. Len(t)
      BY <1>1, <2>4
    <3> QED
      BY <1>1, <2>4, <3>1
  <2>7. \A y \in Nodes : Contains(u, y) <=> y \in V \cup {x}
    BY <2>3
  <2>8. Names(u, s, V \cup {x})
    BY <2>2, <2>4, <2>6, <2>7 DEF Names
  <2> QED
    BY <1>3, <2>1, <2>5, <2>8 DEF u
<1> QED
  BY <1>2, <1>3

\* The listed nodes, and whether the end is among them but not the last one.
LEMMA ListedNames ==
  ASSUME NEW s \in MaybeNode, NEW e \in MaybeNode, NEW list, IsAsked(list)
  PROVE  LET t == Listed(s, list) IN
         /\ Names(t, s, Asked(s, list, Len(list)))
         /\ e # ID_NONE /\ e # s =>
              (e \in Asked(s, list, Len(list)) /\ t[Len(t)] # e
                <=> NamedLater(s, e, list, Len(list)))
<1> DEFINE n == Len(list)
           v(k) == VisitOf(list[k])
           g == ListedOf(s, list)
           V(k) == Asked(s, list, k)
           Hidden(k) == e # ID_NONE /\ e # s =>
                          (e \in V(k) /\ g[k][Len(g[k])] # e <=> NamedLater(s, e, list, k))
           P == {k \in 0 .. n : Names(g[k], s, V(k)) /\ Hidden(k)}
<1>1. n \in Nat /\ \A k \in 1 .. n : v(k) \in Nodes
  BY DEF IsAsked
<1>2. g[0] = Given(s) /\ \A k \in 1 .. n : g[k] = AddedOnce(g[k - 1], v(k))
  BY ListingStep DEF IsListing
<1>3. ID_NONE \notin Nodes
  BY NodeFacts
<1> HIDE DEF g
<1>4. 0 \in P
  <2>1. /\ Given(s) \in Seq(Nodes) /\ Len(Given(s)) = Fixed(s)
        /\ s # ID_NONE => Given(s)[1] = s /\ Fixed(s) = 1
        /\ s = ID_NONE => Fixed(s) = 0
    BY GivenFacts DEF Fixed
  <2>2. V(0) = {s} \ {ID_NONE}
    BY DEF Asked
  <2>3. \A x \in Nodes : Contains(Given(s), x) <=> x \in V(0)
    BY <1>3, <2>1, <2>2 DEF Contains
  <2>4. IsInjective(Given(s))
    BY <2>1 DEF IsInjective
  <2>5. Names(g[0], s, V(0))
    BY <1>2, <2>1, <2>3, <2>4 DEF Names
  <2>6. Hidden(0)
    BY <2>2 DEF NamedLater
  <2> QED
    BY <1>1, <2>5, <2>6
<1>5. ASSUME NEW k \in 0 .. n - 1, k \in P PROVE k + 1 \in P
  <2> DEFINE l == k + 1
             x == v(k + 1)
             t == g[k]
             u == g[k + 1]
  <2>1. l \in 1 .. n /\ l - 1 = k /\ l \in 0 .. n /\ k \in 0 .. n /\ k \in Nat /\ l = k + 1
    BY <1>1
  <2>2. x \in Nodes /\ u = AddedOnce(t, x) /\ Names(t, s, V(k)) /\ Hidden(k)
    BY <1>1, <1>2, <1>5, <2>1
  <2>3. V(l) = V(k) \cup {x}
    <3>1. 1 .. l = (1 .. k) \cup {l}
      BY <2>1
    <3> QED
      BY <3>1 DEF Asked
  <2> HIDE DEF V, x, t, u, l
  <2>4. /\ x \in V(k) => u = t
        /\ x \notin V(k) => u = Append(t, x)
        /\ Names(u, s, V(k) \cup {x})
        /\ x \notin V(k) => u[Len(u)] = x
    BY <2>2, AddedNames
  <2>5. ASSUME e # ID_NONE, e # s
        PROVE  e \in V(l) /\ u[Len(u)] # e <=> NamedLater(s, e, list, l)
    <3>1. e \in V(k) /\ t[Len(t)] # e <=> NamedLater(s, e, list, k)
      BY <2>2, <2>5 DEF t
    <3>2. NamedLater(s, e, list, k) => NamedLater(s, e, list, l)
      <4>1. \A i \in 1 .. k : i \in 1 .. l
        BY <2>1
      <4> QED
        BY <4>1 DEF NamedLater
    <3>3. \A y \in Nodes : y \in V(k) <=> y = s \/ \E m \in 1 .. k : v(m) = y
      BY <1>3 DEF V, Asked
    <3>4. ASSUME NamedLater(s, e, list, l), x \in V(k) PROVE NamedLater(s, e, list, k)
      <4>1. PICK i \in 1 .. l, j \in 1 .. l :
              /\ i < j /\ v(i) = e /\ v(j) \notin {s, e}
              /\ \A m \in 1 .. j - 1 : v(m) # v(j)
        BY <3>4 DEF NamedLater
      <4>2. CASE j = l
        <5>1. v(j) = x /\ j - 1 = k
          BY <2>1, <4>2 DEF x, l
        <5>2. x # s /\ \A m \in 1 .. k : v(m) # x
          BY <4>1, <5>1
        <5> QED
          BY <2>2, <3>3, <3>4, <5>2
      <4>3. CASE j # l
        <5>1. i \in 1 .. k /\ j \in 1 .. k
          BY <2>1, <4>1, <4>3
        <5> QED
          BY <4>1, <5>1 DEF NamedLater
      <4> QED
        BY <4>2, <4>3
    <3>5. CASE x \in V(k)
      <4>1. V(l) = V(k) /\ u = t
        BY <2>3, <2>4, <3>5
      <4> QED
        BY <3>1, <3>2, <3>4, <3>5, <4>1
    <3>6. CASE x \notin V(k) /\ e \in V(k)
      <4>1. e \in V(l) /\ u[Len(u)] # e /\ x # e
        BY <2>3, <2>4, <3>6
      <4>2. e \in Nodes
        BY <2>5 DEF MaybeNode
      <4>3. PICK i \in 1 .. k : v(i) = e
        BY <2>5, <3>3, <3>6, <4>2
      <4>4. x # s /\ \A m \in 1 .. k : v(m) # x
        BY <2>2, <3>3, <3>6
      <4>5. i \in 1 .. l /\ l \in 1 .. l /\ i < l /\ v(l) = x
        BY <2>1 DEF l, x
      <4>6. v(l) \notin {s, e} /\ \A m \in 1 .. l - 1 : v(m) # v(l)
        BY <2>1, <4>1, <4>4, <4>5
      <4>7. NamedLater(s, e, list, l)
        BY <4>3, <4>5, <4>6 DEF NamedLater
      <4> QED
        BY <4>1, <4>7
    <3>7. CASE x \notin V(k) /\ e \notin V(k)
      <4>1. ~(e \in V(l) /\ u[Len(u)] # e)
        BY <2>3, <2>4, <3>7
      <4>2. e \in Nodes
        BY <2>5 DEF MaybeNode
      <4>3. \A i \in 1 .. k : v(i) # e
        BY <3>3, <3>7, <4>2
      <4>4. ~NamedLater(s, e, list, l)
        <5> SUFFICES ASSUME NEW i \in 1 .. l, NEW j \in 1 .. l, i < j, v(i) = e
                     PROVE  FALSE
          BY DEF NamedLater
        <5>1. i \in 1 .. k
          BY <2>1
        <5> QED
          BY <4>3, <5>1
      <4> QED
        BY <4>1, <4>4
    <3> QED
      BY <3>5, <3>6, <3>7
  <2>6. Names(g[l], s, V(l)) /\ Hidden(l)
    BY <2>3, <2>4, <2>5 DEF u, l
  <2> QED
    BY <2>1, <2>6 DEF l
<1>6. n \in P
  <2> HIDE DEF P, n
  <2>1. 0 .. n \subseteq P
    BY ONLY <1>1, <1>4, <1>5, IntervalInduction
  <2>2. n \in 0 .. n
    BY <1>1
  <2> QED
    BY <2>1, <2>2
<1>7. Listed(s, list) = g[n]
  BY ListedIsLast DEF g
<1> QED
  BY <1>6, <1>7

\* The end is to be visited, and a node is named later for the first time; or it
\* is the start.
EndMissed(s, e, list) ==
  e # ID_NONE /\ (e = s \/ NamedLater(s, e, list, Len(list)))

\* All nodes of a generic model.
NodesAsked(s, e, list) ==
  ({VisitOf(list[m]) : m \in 1 .. Len(list)} \cup {s, e}) \ {ID_NONE}

\* What tsp_new_from_generic makes: a list of all nodes, each once.  It is a tour
\* unless its end is missed.
IsTemplate(t, s, e, list) ==
  /\ t \in Seq(Nodes)
  /\ Lists(t, Len(t), NodesAsked(s, e, list))
  /\ t \in Tours(s, e, NodesAsked(s, e, list) \ {s, e}) <=> ~EndMissed(s, e, list)

\* tsp_new_from_generic adds the nodes one after the other and so makes that list.
LEMMA TspTemplate ==
  ASSUME NEW s \in MaybeNode, NEW e \in MaybeNode, NEW list, IsAsked(list)
  PROVE  IsTemplate(AddedOnce(Listed(s, list), e), s, e, list)
<1> DEFINE n == Len(list)
           u == Listed(s, list)
           t == AddedOnce(u, e)
           V == Asked(s, list, n)
           W == NodesAsked(s, e, list)
           l == Len(t)
<1>1. /\ n \in Nat /\ V \subseteq Nodes /\ W \subseteq Nodes /\ ID_NONE \notin W
      /\ W = IF e = ID_NONE THEN V ELSE V \cup {e}
      /\ (s # ID_NONE => s \in W) /\ (e # ID_NONE => e \in W)
  BY NodeFacts DEF IsAsked, Asked, NodesAsked, MaybeNode
<1>2. /\ Names(u, s, V)
      /\ e # ID_NONE /\ e # s =>
           (e \in V /\ u[Len(u)] # e <=> NamedLater(s, e, list, n))
  BY ListedNames
<1> HIDE DEF u, V
<1>3. /\ Names(t, s, W)
      /\ e # ID_NONE /\ e # s => (t[l] = e <=> ~NamedLater(s, e, list, n))
  <2>1. CASE e = ID_NONE
    <3>1. t = u
      BY <2>1 DEF AddedOnce
    <3> QED
      BY <1>1, <1>2, <2>1, <3>1
  <2>2. CASE e # ID_NONE
    <3>1. e \in Nodes
      BY <2>2 DEF MaybeNode
    <3>2. /\ e \in V => t = u
          /\ Names(t, s, V \cup {e})
          /\ e \notin V => t[Len(t)] = e
      BY <1>2, <3>1, AddedNames
    <3> QED
      BY <1>1, <1>2, <2>2, <3>2
  <2> QED
    BY <2>1, <2>2
<1> HIDE DEF t, W
<1>4. /\ t \in Seq(Nodes) /\ l \in Nat /\ t \in [1 .. l -> Nodes] /\ IsInjective(t)
      /\ \A x \in Nodes : Contains(t, x) <=> x \in W
      /\ s # ID_NONE => l > 0 /\ t[1] = s
  BY <1>3 DEF Names
<1>5. \A x \in Nodes : x \in W <=> \E k \in 1 .. l : t[k] = x
  BY <1>4 DEF Contains
<1>6. Lists(t, l, W)
  <2>1. \A k \in 1 .. l : t[k] \in W
    BY <1>4, <1>5
  <2>2. t \in [1 .. l -> W]
    BY <1>4, <2>1
  <2>3. \A x, y \in 1 .. l : t[x] = t[y] => x = y
    BY <1>4 DEF IsInjective
  <2>4. \A x \in W : \E k \in 1 .. l : t[k] = x
    BY <1>1, <1>5
  <2> QED
    BY <2>2, <2>3, <2>4 DEF Lists
<1>7. s \in W \cup {ID_NONE} /\ e \in W \cup {ID_NONE}
  BY <1>1
<1>8. CASE e = ID_NONE
  <2>1. Fixed(s) + Fixed(e) <= l
    BY <1>4, <1>8 DEF Fixed
  <2>2. t \in Tours(s, e, W \ {s, e})
    <3> HIDE DEF l
    <3> QED
      BY <1>1, <1>4, <1>6, <1>7, <1>8, <2>1, ListedTour
  <2> QED
    BY <1>4, <1>6, <1>8, <2>2 DEF IsTemplate, EndMissed, t, u, W
<1>9. CASE e # ID_NONE /\ e # s
  <2>1. Fixed(s) + Fixed(e) <= l
    <3>1. PICK k \in 1 .. l : t[k] = e
      BY <1>1, <1>5, <1>9
    <3>2. s # ID_NONE => k # 1
      BY <1>4, <1>9, <3>1
    <3> QED
      BY <1>4, <3>2 DEF Fixed
  <2>2. t[l] = e => t \in Tours(s, e, W \ {s, e})
    <3> HIDE DEF l
    <3> QED
      BY <1>1, <1>4, <1>6, <1>7, <1>9, <2>1, ListedTour
  <2>3. t \in Tours(s, e, W \ {s, e}) => t[l] = e
    BY <1>9 DEF Tours
  <2>4. EndMissed(s, e, list) <=> NamedLater(s, e, list, n)
    BY <1>9 DEF EndMissed
  <2> QED
    BY <1>3, <1>4, <1>6, <1>9, <2>2, <2>3, <2>4 DEF IsTemplate, t, u, W
<1>10. CASE e # ID_NONE /\ e = s
  <2> DEFINE none == ID_NONE
             X == W \ {s}
             m == Cardinality(X)
  <2>1. /\ X = W \ {s, none} /\ X = W \ {s, e}
        /\ none \in W \cup {ID_NONE} /\ (s = none => s = ID_NONE)
        /\ (none # ID_NONE => t[l] = none) /\ Fixed(none) = 0
        /\ Fixed(s) = 1 /\ Fixed(e) = 1
        /\ Fixed(s) + Fixed(none) <= l
    BY <1>1, <1>4, <1>10 DEF Fixed
  <2> HIDE DEF none, l
  <2>2. t \in Tours(s, none, W \ {s, none})
    BY <1>1, <1>4, <1>6, <1>7, <2>1, ListedTour
  <2>3. Len(t) = (1 + m) + 0
    BY <2>1, <2>2 DEF Tours
  <2>4. t \in Tours(s, e, X) => Len(t) = (1 + m) + 1
    BY <2>1 DEF Tours
  <2>5. m \in Nat
    <3>1. X \subseteq Nodes
      BY <1>1
    <3> QED
      BY <3>1, SetOfNodes
  <2> HIDE DEF X, m
  <2>6. t \notin Tours(s, e, X)
    BY <2>3, <2>4, <2>5
  <2>7. EndMissed(s, e, list)
    BY <1>10 DEF EndMissed
  <2> QED
    BY <1>4, <1>6, <2>1, <2>6, <2>7 DEF IsTemplate, t, u, W, l
<1> QED
  BY <1>8, <1>9, <1>10

-----------------------------------------------------------------------------
(***************************************************************************)
(* The inductive invariant                                                 *)
(***************************************************************************)

\* The tours of the model at hand.
ToursAsked == Tours(start_node, end_node, Others)

\* A round trip that is solved again has a template that is too long, and the
\* routes that are swept have not.
Mixed ==
  solver = "tspi" /\ solves > 1 /\ start_node = end_node /\ coords # "none"

\* What every route of a population is: a tour if the template is one, and of
\* the template's length unless lengths are mixed.
Good(r) ==
  /\ r \in Seq(Nodes)
  /\ ~Mixed => Len(r) = Len(template)
  /\ template \in ToursAsked => r \in ToursAsked

TypeInv ==
  /\ solver \in {"tsp", "tspi"}
  /\ start_node \in MaybeNode /\ end_node \in MaybeNode
  /\ template \in Seq(Nodes) /\ genomes \subseteq Seq(Nodes)
  /\ original \in Seq(Nodes) /\ route \in Seq(Nodes)
  /\ solves \in Nat

\* Nothing to reorder behind a fixed start.
Nothing ==
  /\ start_node # ID_NONE
  /\ Cardinality(NodesAsked(start_node, end_node, requests)) = 1 + Fixed(end_node)

\* tsp_t: the template and its window once they are made.
TspInv ==
  solver = "tsp" =>
    /\ IsAsked(requests)
    /\ pc = "build" => solves = 0
    /\ pc # "build" =>
         /\ IsTemplate(template, start_node, end_node, requests)
         /\ unfixed_begin = Fixed(start_node)
         /\ unfixed_end = Minus(Len(template), 1 + Fixed(end_node))
         /\ pc = "aborted" <=> Nothing
    /\ pc \in {"evolve", "2_opt"} => unfixed_end = LastIdx(template) - Fixed(end_node)

\* tspi_t: its nodes, and the template before and after it is first solved.
TspiInv ==
  solver = "tspi" =>
    /\ num_nodes \in Nat /\ 0 .. num_nodes - 1 \subseteq Nodes
    /\ start_node \in (0 .. num_nodes - 1) \cup {ID_NONE}
    /\ end_node \in (0 .. num_nodes - 1) \cup {ID_NONE}
    /\ pc = "build" => solves = 0 /\ num_nodes = 0
    /\ pc # "build" => num_nodes > 2 /\ Len(template) >= num_nodes
    /\ solves = 0 =>
         /\ pc \in {"build", "ready", "failed"}
         /\ pc # "build" => template = Numbered(num_nodes)
    /\ solves = 1 => template \in ToursAsked

\* What an assertion of tspi_t may fail for.
Broken ==
  \/ ID_NONE \in {start_node, end_node}
  \/ \E r \in genomes : NotAssessable(r)
  \/ solves > 1 /\ start_node # end_node /\ end_node # num_nodes - 1
  \/ Mixed

\* tspi_t: a model that can be solved again has two fixed ends, and what each
\* call has made of the template of the call before.
SolvedInv ==
  solver = "tspi" =>
    /\ solves > 1 => ID_NONE \notin {start_node, end_node}
    /\ pc = "aborted" => Broken
    /\ solves > 0 /\ pc # "aborted" =>
         /\ IsResolved(template, start_node, end_node, num_nodes, solves)
         /\ pc \in {"ready", "done", "failed"} => ID_NONE \notin {start_node, end_node}
         /\ solves > 1 => start_node = end_node \/ end_node = num_nodes - 1

\* The population.
GenomesInv ==
  /\ pc \notin {"evolve", "aborted"} => genomes = {}
  /\ pc = "evolve" => Len(template) > 2 /\ \A r \in genomes : ~NotAssessable(r)
  /\ \A r \in genomes : Good(r)

\* 2-opt.
TwoOptInv ==
  /\ pc = "2_opt" => Good(route)
  /\ pc = "done" => route = <<>> \/ Good(route)
  /\ pc \in {"2_opt", "done"} => ~NotAssessable(original)
  /\ SavingsAddUp
  /\ improved \/ cursor = <<0, 0>>
  /\ LocalOptimum

TourInv == TypeInv /\ TspInv /\ TspiInv /\ SolvedInv /\ GenomesInv /\ TwoOptInv


\* The nodes between the ends exist; those of a generic model are the rest of all
\* its nodes.
LEMMA OthersFacts ==
  ASSUME TypeInv, TspInv, TspiInv
  PROVE  /\ Others \subseteq Nodes
         /\ solver = "tsp" =>
              Others = NodesAsked(start_node, end_node, requests) \ {start_node, end_node}
<1>1. CASE solver = "tsp"
  <2>1. IsAsked(requests)
    BY <1>1 DEF TspInv
  <2>2. Visits = {VisitOf(requests[m]) : m \in 1 .. Len(requests)} /\ Visits \subseteq Nodes
    BY <2>1 DEF Visits, IsAsked
  <2>3. Others = Visits \ {start_node, end_node}
    BY <1>1 DEF Others
  <2> HIDE DEF Visits
  <2>4. ID_NONE \notin Visits
    BY <2>2, NodeFacts
  <2>5. NodesAsked(start_node, end_node, requests)
          = (Visits \cup {start_node, end_node}) \ {ID_NONE}
    BY <2>2 DEF NodesAsked
  <2> QED
    BY <2>2, <2>3, <2>4, <2>5
<1>2. CASE solver = "tspi"
  BY <1>2 DEF TspiInv, Others
<1> QED
  BY <1>1, <1>2 DEF TypeInv

\* What IsTour says of a route, by its positions.
LEMMA TourAsked ==
  ASSUME TypeInv, TspInv, TspiInv, NEW r \in Seq(Nodes)
  PROVE  IsTour(r) <=> r \in ToursAsked
<1>1. start_node \in MaybeNode /\ end_node \in MaybeNode /\ Others \subseteq Nodes
  BY OthersFacts DEF TypeInv
<1>2. IsTour(r) <=> IsTourOf(r, start_node, end_node, Others)
  BY DEF IsTour, IsTourOf
<1> QED
  BY <1>1, <1>2, TourShape DEF ToursAsked

\* The window of a route that has the template's length, or is a stand-alone
\* model's, is all that lies between the ends.
LEMMA Windows ==
  ASSUME TypeInv, TspInv, TspiInv, pc \in {"evolve", "2_opt"},
         NEW r, Good(r)
  PROVE  /\ Begin = Fixed(start_node)
         /\ End(r) = LastIdx(r) - Fixed(end_node)
<1>1. /\ Len(Given(start_node)) = Fixed(start_node)
      /\ Len(Given(end_node)) = Fixed(end_node)
  BY GivenFacts DEF TypeInv
<1>2. CASE solver = "tsp"
  BY <1>2 DEF TspInv, Good, Mixed, Begin, End, LastIdx
<1>3. CASE solver # "tsp"
  BY <1>1, <1>3 DEF Begin, End
<1> QED
  BY <1>2, <1>3

\* The template is one of the good routes.
LEMMA TemplateGood ==
  ASSUME TypeInv
  PROVE  Good(template)
BY DEF TypeInv, Good

\* What goodness depends on.
LEMMA SameGood ==
  ASSUME UNCHANGED <<solver, start_node, end_node, template, solves, requests, num_nodes,
                   coords>>
  PROVE  /\ ToursAsked' = ToursAsked /\ Mixed' = Mixed
         /\ \A r : Good(r)' <=> Good(r)
         /\ Others' = Others
<1>1. Others' = Others
  BY DEF Others, Visits
<1>2. ToursAsked' = ToursAsked
  BY <1>1 DEF ToursAsked
<1>3. ASSUME NEW r PROVE Good(r)' <=> Good(r)
  BY <1>2 DEF Good, Mixed
<1>4. Mixed' = Mixed
  BY DEF Mixed
<1> QED
  BY <1>1, <1>2, <1>3, <1>4

-----------------------------------------------------------------------------
(* The steps of the evolution *)

\* Good routes in, good routes out.
LEMMA KeptGood ==
  ASSUME TypeInv, TspInv, TspiInv, NEW r, Good(r), NEW q,
         Keeps(q, r, start_node, end_node, Others)
  PROVE  Good(q)
BY DEF Good, Keeps, ToursAsked

\* A step that only puts good routes into the population keeps the invariant.
LEMMA PopulationKeeps ==
  ASSUME TourInv, pc = "evolve", NEW new, Population(new), \A r \in new : Good(r),
         UNCHANGED <<requests, settings>>
  PROVE  TourInv'
<1>1. /\ UNCHANGED <<solver, start_node, end_node, template, unfixed_begin, unfixed_end,
                     original, route, cursor, improved, saving, solves,
                     requests, num_nodes, coords>>
      /\ genomes' = new
      /\ pc' = IF \E r \in new : NotAssessable(r) THEN "aborted" ELSE pc
  BY DEF Population, ends, window, search, settings
<1>2. ToursAsked' = ToursAsked /\ Others' = Others /\ \A r : Good(r)' <=> Good(r)
  BY <1>1, SameGood
<1>3. TypeInv /\ TspInv /\ TspiInv /\ SolvedInv /\ GenomesInv /\ TwoOptInv
  BY DEF TourInv
<1>4. TypeInv'
  BY <1>1, <1>3 DEF TypeInv, Good
<1>5. TspInv'
  BY <1>1, <1>3 DEF TspInv, Nothing, NotAssessable
<1>6. TspiInv'
  BY <1>1, <1>2, <1>3 DEF TspiInv
<1>7. SolvedInv'
  <2>1. pc' = "aborted" => \E r \in genomes' : NotAssessable(r)'
    BY <1>1, <1>3 DEF NotAssessable
  <2> QED
    BY <1>1, <1>2, <1>3, <2>1 DEF SolvedInv, Broken
<1>8. GenomesInv'
  BY <1>1, <1>2, <1>3 DEF GenomesInv, NotAssessable
<1>9. TwoOptInv'
  BY <1>1, <1>2, <1>3 DEF TwoOptInv, SavingsAddUp, LocalOptimum
<1> QED
  BY <1>4, <1>5, <1>6, <1>7, <1>8, <1>9 DEF TourInv

\* What is known of a state in which the evolution runs.
LEMMA WhileEvolving ==
  ASSUME TourInv, pc = "evolve"
  PROVE  /\ TypeInv /\ TspInv /\ TspiInv /\ SolvedInv
         /\ start_node \in MaybeNode /\ end_node \in MaybeNode
         /\ Others \subseteq Nodes
         /\ Good(template) /\ template \in Seq(Nodes) /\ Len(template) > 2
         /\ \A r : r \in genomes => Good(r) /\ r \in Seq(Nodes)
         /\ Begin = Fixed(start_node)
         /\ \A r : Good(r) => End(r) = LastIdx(r) - Fixed(end_node)
<1>1. TypeInv /\ TspInv /\ TspiInv /\ SolvedInv /\ GenomesInv
  BY DEF TourInv
<1>2. Good(template)
  BY <1>1, TemplateGood
<1>3. \A r : Good(r) => End(r) = LastIdx(r) - Fixed(end_node)
  BY <1>1, Windows
<1>4. Begin = Fixed(start_node)
  BY <1>1, <1>2, Windows
<1> QED
  BY <1>1, <1>2, <1>3, <1>4, OthersFacts DEF TypeInv, GenomesInv

\* Random permutations of the template are good.
LEMMA RandomPermutationKeeps ==
  ASSUME TourInv, RandomPermutation, UNCHANGED <<requests, settings>>
  PROVE  TourInv'
<1>1. PICK q \in RandomRoutes : Population(genomes \cup {q})
  BY DEF RandomPermutation, Join
<1>2. pc = "evolve"
  BY DEF RandomPermutation, Evolving
<1>3. Good(q)
  <2>1. q \in Shuffles(template, Fixed(start_node), LastIdx(template) - Fixed(end_node))
    BY <1>2, WhileEvolving DEF RandomRoutes
  <2>2. Keeps(q, template, start_node, end_node, Others)
    BY <1>2, <2>1, WhileEvolving, ShuffledRoute
  <2> QED
    BY <1>2, <2>2, WhileEvolving, KeptGood
<1> DEFINE new == genomes \cup {q}
<1>4. \A r \in new : Good(r)
  BY <1>2, <1>3, WhileEvolving
<1>5. Population(new)
  BY <1>1
<1> HIDE DEF new
<1> QED
  BY <1>2, <1>4, <1>5, PopulationKeeps

\* So are the children of two routes.
LEMMA CrossoverKeeps ==
  ASSUME TourInv, Crossover, UNCHANGED <<requests, settings>>
  PROVE  TourInv'
<1>1. pc = "evolve"
  BY DEF Crossover, Evolving
<1>2. PICK r1 \in genomes, r2 \in genomes :
        /\ Len(r1) = Len(r2)
        /\ \E j \in 0 .. End(r1) - Begin : \E i \in 0 .. j :
             Population((genomes \ {r1, r2}) \cup ToSet(Ox(r1, r2, Begin, End(r1), i, j)))
  BY DEF Crossover
<1>3. PICK j \in 0 .. End(r1) - Begin :
        \E i \in 0 .. j :
          Population((genomes \ {r1, r2}) \cup ToSet(Ox(r1, r2, Begin, End(r1), i, j)))
  BY <1>2
<1>4. PICK i \in 0 .. j :
        Population((genomes \ {r1, r2}) \cup ToSet(Ox(r1, r2, Begin, End(r1), i, j)))
  BY <1>3
<1> DEFINE c == ToSet(Ox(r1, r2, Begin, End(r1), i, j))
           new == (genomes \ {r1, r2}) \cup c
<1>5. /\ Good(r1) /\ Good(r2) /\ r1 \in Seq(Nodes) /\ r2 \in Seq(Nodes)
      /\ Begin = Fixed(start_node) /\ End(r1) = LastIdx(r1) - Fixed(end_node)
      /\ start_node \in MaybeNode /\ end_node \in MaybeNode /\ Others \subseteq Nodes
  BY <1>1, WhileEvolving
<1>6. ASSUME NEW q \in c PROVE Good(q)
  <2>1. /\ q \in ToSet(Ox(r1, r2, Fixed(start_node), LastIdx(r1) - Fixed(end_node), i, j))
        /\ j \in 0 .. (LastIdx(r1) - Fixed(end_node)) - Fixed(start_node)
        /\ i \in 0 .. j /\ Len(r2) = Len(r1)
    BY <1>2, <1>3, <1>4, <1>5
  <2> HIDE DEF c
  <2>2. /\ q \in Seq(Nodes) /\ Len(q) = Len(r1)
        /\ r1 \in ToursAsked /\ r2 \in ToursAsked => q \in ToursAsked
    BY <1>5, <2>1, CrossedRoutes DEF ToursAsked
  <2> QED
    BY <1>5, <2>2 DEF Good
<1>7. \A r \in new : Good(r)
  BY <1>1, <1>6, WhileEvolving
<1>8. Population(new)
  BY <1>4
<1> HIDE DEF new
<1> QED
  BY <1>1, <1>7, <1>8, PopulationKeeps

\* tsp_sweep
LEMMA TspSweepKeeps ==
  ASSUME TourInv, TspSweep, UNCHANGED settings
  PROVE  TourInv'
<1>1. pc = "evolve" /\ solver = "tsp"
  BY DEF TspSweep, Evolving
<1>2. PICK sorted \in SortedBy(Slice(template, unfixed_begin, unfixed_end), Angle) :
        Population(genomes \cup {Given(start_node) \o sorted \o Given(end_node)})
  BY DEF TspSweep, Join
<1> DEFINE q == Given(start_node) \o sorted \o Given(end_node)
           new == genomes \cup {q}
<1>3. Good(q)
  <2>1. /\ template \in Seq(Nodes) /\ Len(template) > 2 /\ Len(template) \in Nat
        /\ Fixed(start_node) + Fixed(end_node) <= 2
    BY <1>1, WhileEvolving DEF Fixed
  <2>2. Fixed(start_node) + Fixed(end_node) <= Len(template)
    <3>1. Fixed(start_node) \in Nat /\ Fixed(end_node) \in Nat
      BY DEF Fixed
    <3> QED
      BY ONLY <2>1, <3>1
  <2>3. sorted \in SortedBy(Slice(template, Fixed(start_node),
                                  LastIdx(template) - Fixed(end_node)), Angle)
    <3>1. Begin = unfixed_begin /\ End(template) = unfixed_end
      BY <1>1 DEF Begin, End
    <3> QED
      BY <1>1, <3>1, WhileEvolving
  <2>4. Keeps(q, template, start_node, end_node, Others)
    BY <1>1, <2>2, <2>3, WhileEvolving, SweptRoute
  <2> HIDE DEF q
  <2> QED
    BY <1>1, <2>4, WhileEvolving, KeptGood
<1> HIDE DEF q
<1>4. \A r \in new : Good(r)
  BY <1>1, <1>3, WhileEvolving
<1>5. Population(new) /\ UNCHANGED requests
  BY <1>2 DEF q, TspSweep
<1> HIDE DEF new
<1> QED
  BY <1>1, <1>4, <1>5, PopulationKeeps

\* The slices of 2-opt lie between the ends.
LEMMA SliceBetween ==
  ASSUME NEW r \in Seq(Nodes), start_node \in MaybeNode, end_node \in MaybeNode,
         Begin = Fixed(start_node), End(r) = LastIdx(r) - Fixed(end_node),
         NEW m \in Slices(r)
  PROVE  /\ m[1] \in Int /\ m[2] \in Int /\ Fixed(start_node) <= m[1] /\ m[1] < m[2]
         /\ m[2] <= LastIdx(r) - Fixed(end_node)
         /\ m[1] \in Indices(r) /\ m[2] \in Indices(r)
<1> DEFINE b == Fixed(start_node)
           f == LastIdx(r) - Fixed(end_node)
           x == m[1]
           y == m[2]
<1>1. /\ b \in 0 .. 1 /\ f \in Int /\ LastIdx(r) \in Int /\ f <= LastIdx(r)
  BY GivenFacts DEF LastIdx
<1>2. m \in (b .. f - 1) \X (b .. f) /\ m[1] < m[2]
  BY DEF Slices
<1>3. x \in b .. f - 1 /\ y \in b .. f /\ x < y
  BY <1>2
<1> HIDE DEF b, f, x, y
<1>4. x \in Int /\ y \in Int /\ b <= x /\ x < y /\ y <= f
      /\ x \in 0 .. LastIdx(r) /\ y \in 0 .. LastIdx(r)
  BY ONLY <1>1, <1>3
<1> QED
  BY <1>4 DEF b, f, x, y, Indices

\* tsp_t's educator
LEMMA TspEducateKeeps ==
  ASSUME TourInv, TspEducate, UNCHANGED settings
  PROVE  TourInv'
<1>1. pc = "evolve" /\ solver = "tsp" /\ UNCHANGED requests
  BY DEF TspEducate, Evolving
<1>2. PICK r \in genomes : \E m \in First({m \in Slices(r) : Improves(r, m)}) :
        Population((genomes \ {r}) \cup {ReverseSlice(r, m[1], m[2])})
  BY DEF TspEducate
<1>3. PICK m \in Slices(r) :
        Population((genomes \ {r}) \cup {ReverseSlice(r, m[1], m[2])})
  BY <1>2 DEF First
<1> DEFINE q == ReverseSlice(r, m[1], m[2])
           new == (genomes \ {r}) \cup {q}
<1>4. Good(q)
  <2>1. /\ Good(r) /\ r \in Seq(Nodes) /\ start_node \in MaybeNode /\ end_node \in MaybeNode
        /\ Begin = Fixed(start_node) /\ End(r) = LastIdx(r) - Fixed(end_node)
        /\ Others \subseteq Nodes
    BY <1>1, WhileEvolving
  <2>2. /\ m[1] \in Int /\ m[2] \in Int /\ Fixed(start_node) <= m[1] /\ m[1] < m[2]
        /\ m[2] <= LastIdx(r) - Fixed(end_node)
    BY <2>1, SliceBetween
  <2>3. Keeps(q, r, start_node, end_node, Others)
    BY <2>1, <2>2, ReversedRoute
  <2> HIDE DEF q
  <2> QED
    BY <1>1, <2>1, <2>3, WhileEvolving, KeptGood
<1> HIDE DEF q
<1>5. \A s \in new : Good(s)
  BY <1>1, <1>4, WhileEvolving
<1>6. Population(new)
  BY <1>3 DEF q
<1> HIDE DEF new
<1> QED
  BY <1>1, <1>5, <1>6, PopulationKeeps

\* All nodes but two.
LEMMA WithoutTwo ==
  ASSUME NEW n \in Nat, NEW s \in 0 .. n - 1, NEW e \in 0 .. n - 1, s # e
  PROVE  Cardinality((0 .. n - 1) \ {s, e}) = n - 2
<1> DEFINE W == 0 .. n - 1
<1>1. IsFiniteSet(W) /\ Cardinality(W) = n /\ s \in W /\ e \in W
  <2>1. 0 \in Int /\ n - 1 \in Int /\ n >= 1
    OBVIOUS
  <2> QED
    BY <2>1, FS_Interval
<1> HIDE DEF W
<1>2. IsFiniteSet(W \ {s}) /\ Cardinality(W \ {s}) = n - 1
  BY <1>1, FS_RemoveElement
<1>3. e \in W \ {s} /\ W \ {s, e} = (W \ {s}) \ {e}
  BY <1>1
<1>4. Cardinality((W \ {s}) \ {e}) = (n - 1) - 1
  BY <1>2, <1>3, FS_RemoveElement
<1>5. Cardinality(W \ {s, e}) = n - 2
  BY <1>3, <1>4
<1> QED
  BY <1>5 DEF W

\* tspi_sweep
LEMMA TspiSweepKeeps ==
  ASSUME TourInv, TspiSweep, UNCHANGED requests
  PROVE  TourInv'
<1>1. pc = "evolve" /\ solver = "tspi" /\ UNCHANGED settings
  BY DEF TspiSweep, Evolving
<1>2. PICK sorted \in SortedBy(Numbered(num_nodes), Angle) :
        Population(genomes \cup {Given(start_node) \o Without(end_node, Without(start_node, sorted))
                                   \o Given(end_node)})
  BY DEF TspiSweep, Join, Numbered
<1> DEFINE q == Given(start_node) \o Without(end_node, Without(start_node, sorted))
                  \o Given(end_node)
           new == genomes \cup {q}
<1>3. Good(q)
  <2>1. /\ num_nodes \in Nat /\ 0 .. num_nodes - 1 \subseteq Nodes
        /\ Others = (0 .. num_nodes - 1) \ {start_node, end_node}
    BY <1>1, WhileEvolving DEF TspiInv, Others
  <2>2. q \in ToursAsked
    BY <1>1, <2>1, WhileEvolving, SweptTour DEF ToursAsked
  <2> HIDE DEF q
  <2>3. ~Mixed => Len(q) = Len(template)
    <3>1. \A r \in ToursAsked :
            Len(r) = (Fixed(start_node) + Cardinality(Others)) + Fixed(end_node)
      BY DEF ToursAsked, Tours
    <3>2. solves = 1 => template \in ToursAsked
      BY <1>1, WhileEvolving DEF TspiInv
    <3>3. ASSUME solves > 1, start_node # end_node
          PROVE  Len(template) = (Fixed(start_node) + Cardinality(Others)) + Fixed(end_node)
      <4>1. /\ Lists(template, num_nodes, 0 .. num_nodes - 1)
            /\ start_node \in 0 .. num_nodes - 1 /\ end_node \in 0 .. num_nodes - 1
            /\ start_node # ID_NONE /\ end_node # ID_NONE
        BY <1>1, <3>3, WhileEvolving DEF TypeInv, TspiInv, SolvedInv, IsResolved
      <4>2. Len(template) = num_nodes
        BY <2>1, <4>1, WhileEvolving DEF Lists
      <4>3. Cardinality(Others) = num_nodes - 2
        BY <2>1, <3>3, <4>1, WithoutTwo
      <4> QED
        BY <2>1, <4>1, <4>2, <4>3 DEF Fixed
    <3>4. solves \in Nat /\ solves # 0 /\ coords # "none"
      BY <1>1, WhileEvolving DEF TypeInv, TspiInv, TspiSweep
    <3> QED
      BY <1>1, <2>2, <3>1, <3>2, <3>3, <3>4 DEF Mixed
  <2>4. q \in Seq(Nodes)
    BY <2>2 DEF ToursAsked, Tours
  <2> QED
    BY <1>1, <2>2, <2>3, <2>4 DEF Good
<1> HIDE DEF q
<1>4. \A r \in new : Good(r)
  BY <1>1, <1>3, WhileEvolving
<1>5. Population(new)
  BY <1>2 DEF q
<1> HIDE DEF new
<1> QED
  BY <1>1, <1>4, <1>5, PopulationKeeps

\* A population with routes of different lengths can only be that of a
\* stand-alone model that is solved again.
LEMMA CrossoverAbortsKeeps ==
  ASSUME TourInv, CrossoverAborts, UNCHANGED <<requests, settings>>
  PROVE  TourInv'
<1>1. /\ UNCHANGED <<solver, start_node, end_node, template, unfixed_begin, unfixed_end,
                     genomes, original, route, cursor, improved, saving, solves,
                     requests, num_nodes, coords>>
      /\ pc = "evolve" /\ pc' = "aborted"
  BY DEF CrossoverAborts, Evolving, ends, window, search, settings
<1>2. ToursAsked' = ToursAsked /\ Mixed' = Mixed /\ Others' = Others /\ \A r : Good(r)' <=> Good(r)
  BY <1>1, SameGood
<1>3. TypeInv /\ TspInv /\ TspiInv /\ SolvedInv /\ GenomesInv /\ TwoOptInv
  BY DEF TourInv
<1>4. solver = "tspi" /\ solves # 1 /\ solves # 0 /\ Mixed
  <2>1. PICK r1 \in genomes, r2 \in genomes : Len(r1) # Len(r2)
    BY DEF CrossoverAborts
  <2>2. Good(r1) /\ Good(r2)
    BY <1>1, <2>1, WhileEvolving
  <2>3. Mixed
    BY <2>1, <2>2 DEF Good
  <2> QED
    BY <2>3 DEF Mixed
<1>5. TypeInv'
  BY <1>1, <1>3 DEF TypeInv
<1>6. TspInv'
  BY <1>1, <1>4 DEF TspInv
<1>7. TspiInv'
  BY <1>1, <1>2, <1>3, <1>4 DEF TspiInv
<1>8. SolvedInv'
  BY <1>1, <1>2, <1>3, <1>4 DEF SolvedInv, Broken
<1>9. GenomesInv'
  BY <1>1, <1>2, <1>3 DEF GenomesInv
<1>10. TwoOptInv'
  BY <1>1, <1>2, <1>3 DEF TwoOptInv, SavingsAddUp, LocalOptimum
<1> QED
  BY <1>5, <1>6, <1>7, <1>8, <1>9, <1>10 DEF TourInv

-----------------------------------------------------------------------------
(* The steps of 2-opt *)

\* 2-opt begins with nothing saved.
LEMMA NothingSaved ==
  ASSUME NEW r \in Seq(Nodes), TwoOptOf(r)
  PROVE  SavingsAddUp' /\ cursor' = <<0, 0>>
<1>1. TotalDistance(r) \in Nat
  BY LegsType
<1> QED
  BY <1>1 DEF TwoOptOf, SavingsAddUp

\* The route that 2-opt is given is one of the population.
LEMMA EvolEndsKeeps ==
  ASSUME TourInv, EvolEnds, UNCHANGED <<requests, settings>>
  PROVE  TourInv'
<1>1. /\ UNCHANGED <<solver, start_node, end_node, template, unfixed_begin, unfixed_end,
                     solves, requests, num_nodes, coords>>
      /\ pc = "evolve" /\ pc' = "2_opt" /\ genomes' = {}
  BY DEF EvolEnds, Evolving, ends, window, settings
<1>2. ToursAsked' = ToursAsked /\ Others' = Others /\ \A r : Good(r)' <=> Good(r)
  BY <1>1, SameGood
<1>3. TypeInv /\ TspInv /\ TspiInv /\ SolvedInv /\ GenomesInv /\ TwoOptInv
  BY DEF TourInv
<1>4. PICK r \in genomes : TwoOptOf(r)
  BY DEF EvolEnds, Fittest
<1>5. Good(r) /\ r \in Seq(Nodes) /\ ~NotAssessable(r)
  BY <1>1, <1>3, WhileEvolving DEF GenomesInv
<1>6. original' = r /\ route' = r
  BY <1>4 DEF TwoOptOf
<1>7. TypeInv'
  BY <1>1, <1>3, <1>5, <1>6 DEF TypeInv
<1>8. TspInv'
  BY <1>1, <1>3 DEF TspInv, Nothing
<1>9. TspiInv'
  BY <1>1, <1>2, <1>3 DEF TspiInv
<1>10. SolvedInv'
  BY <1>1, <1>3 DEF SolvedInv
<1>11. GenomesInv'
  BY <1>1 DEF GenomesInv
<1>12. TwoOptInv'
  <2>1. Good(route)'
    BY <1>1, <1>5, <1>6, <1>3 DEF Good, Mixed, ToursAsked, Others, Visits
  <2>2. SavingsAddUp' /\ cursor' = <<0, 0>>
    BY <1>4, <1>5, NothingSaved
  <2>3. ~NotAssessable(original)'
    BY <1>1, <1>5, <1>6 DEF NotAssessable
  <2> QED
    BY <1>1, <2>1, <2>2, <2>3 DEF TwoOptInv, LocalOptimum
<1> QED
  BY <1>7, <1>8, <1>9, <1>10, <1>11, <1>12 DEF TourInv

\* What is known of a state in which 2-opt runs.
LEMMA WhileSearching ==
  ASSUME TourInv, pc = "2_opt"
  PROVE  /\ TypeInv /\ TspInv /\ TspiInv /\ SolvedInv /\ GenomesInv /\ TwoOptInv
         /\ start_node \in MaybeNode /\ end_node \in MaybeNode
         /\ Others \subseteq Nodes
         /\ Good(route) /\ route \in Seq(Nodes)
         /\ Begin = Fixed(start_node)
         /\ End(route) = LastIdx(route) - Fixed(end_node)
<1>1. TypeInv /\ TspInv /\ TspiInv /\ SolvedInv /\ GenomesInv /\ TwoOptInv
  BY DEF TourInv
<1>2. Good(route) /\ route \in Seq(Nodes)
  BY <1>1 DEF TwoOptInv, TypeInv
<1>3. /\ Begin = Fixed(start_node)
      /\ \A r : r = route => End(r) = LastIdx(r) - Fixed(end_node)
  <2>1. ASSUME NEW r, r = route
        PROVE  Begin = Fixed(start_node) /\ End(r) = LastIdx(r) - Fixed(end_node)
    BY <1>1, <1>2, <2>1, Windows
  <2> QED
    BY <2>1
<1> QED
  BY <1>1, <1>2, <1>3, OthersFacts DEF TypeInv

\* A reversal of a slice of the route, which its delta foretells.
LEMMA ReversalOfRoute ==
  ASSUME TourInv, pc = "2_opt", NEW m \in Slices(route)
  PROVE  /\ Good(ReverseSlice(route, m[1], m[2]))
         /\ ReverseDelta(route, m[1], m[2]) \in Int
         /\ TotalDistance(route) \in Nat
         /\ TotalDistance(ReverseSlice(route, m[1], m[2]))
              = TotalDistance(route) + ReverseDelta(route, m[1], m[2])
<1>1. PICK r : r = route
  OBVIOUS
<1>2. /\ TypeInv /\ TspInv /\ TspiInv
      /\ start_node \in MaybeNode /\ end_node \in MaybeNode /\ Others \subseteq Nodes
      /\ Good(r) /\ r \in Seq(Nodes)
      /\ Begin = Fixed(start_node) /\ End(r) = LastIdx(r) - Fixed(end_node)
      /\ m \in Slices(r)
  BY <1>1, WhileSearching
<1>3. /\ m[1] \in Int /\ m[2] \in Int /\ Fixed(start_node) <= m[1] /\ m[1] < m[2]
      /\ m[2] <= LastIdx(r) - Fixed(end_node)
      /\ m[1] \in Indices(r) /\ m[2] \in Indices(r)
  BY <1>2, SliceBetween
<1>4. Keeps(ReverseSlice(r, m[1], m[2]), r, start_node, end_node, Others)
  BY <1>2, <1>3, ReversedRoute
<1>5. Good(ReverseSlice(r, m[1], m[2]))
  BY <1>2, <1>4, KeptGood
<1>6. /\ TotalDistance(ReverseSlice(r, m[1], m[2]))
           = TotalDistance(r) + ReverseDelta(r, m[1], m[2])
      /\ ReverseDelta(r, m[1], m[2]) \in Int
  BY <1>2, <1>3, ReverseSliceExact
<1>7. TotalDistance(r) \in Nat
  BY <1>2, LegsType
<1> QED
  BY <1>1, <1>5, <1>6, <1>7

\* An improving reversal.
LEMMA ReverseImprovingKeeps ==
  ASSUME TourInv, ReverseImproving, UNCHANGED <<requests, settings>>
  PROVE  TourInv'
<1>1. /\ UNCHANGED <<solver, start_node, end_node, template, unfixed_begin, unfixed_end,
                     genomes, original, solves, pc, requests, num_nodes, coords>>
      /\ pc = "2_opt"
  BY DEF ReverseImproving, ends, window, settings
<1>2. ToursAsked' = ToursAsked /\ Others' = Others /\ \A r : Good(r)' <=> Good(r)
  BY <1>1, SameGood
<1>3. TypeInv /\ TspInv /\ TspiInv /\ SolvedInv /\ GenomesInv /\ TwoOptInv
  BY DEF TourInv
<1>4. PICK m \in Slices(route) :
        /\ route' = ReverseSlice(route, m[1], m[2])
        /\ saving' = saving - ReverseDelta(route, m[1], m[2])
        /\ cursor' = IF solver = "tsp" THEN <<0, 0>> ELSE m
        /\ improved' = (solver = "tspi")
  BY DEF ReverseImproving, First, Hits
<1> DEFINE q == ReverseSlice(route, m[1], m[2])
           d == ReverseDelta(route, m[1], m[2])
<1>5. /\ Good(q) /\ d \in Int /\ TotalDistance(route) \in Nat
      /\ TotalDistance(q) = TotalDistance(route) + d
      /\ route' = q /\ saving' = saving - d
  BY <1>1, <1>4, ReversalOfRoute
<1> HIDE DEF q, d
<1>6. q \in Seq(Nodes)
  BY <1>5 DEF Good
<1>7. TypeInv'
  BY <1>1, <1>3, <1>5, <1>6 DEF TypeInv
<1>8. TspInv'
  BY <1>1, <1>3 DEF TspInv, Nothing
<1>9. TspiInv'
  BY <1>1, <1>2, <1>3 DEF TspiInv
<1>10. SolvedInv'
  BY <1>1, <1>3 DEF SolvedInv
<1>11. GenomesInv'
  BY <1>1, <1>2, <1>3 DEF GenomesInv
<1>12. TwoOptInv'
  <2>1. Good(route)'
    BY <1>1, <1>5 DEF Good, Mixed, ToursAsked, Others, Visits
  <2>2. SavingsAddUp'
    <3>1. saving = TotalDistance(original) - TotalDistance(route)
      BY <1>3 DEF TwoOptInv, SavingsAddUp
    <3>2. TotalDistance(original) \in Nat
      BY <1>3, LegsType DEF TypeInv
    <3>3. saving' = TotalDistance(original) - TotalDistance(q)
      BY ONLY <1>5, <3>1, <3>2
    <3> QED
      BY <1>1, <1>5, <3>3 DEF SavingsAddUp
  <2>3. improved' \/ cursor' = <<0, 0>>
    BY <1>3, <1>4 DEF TypeInv
  <2>4. ~NotAssessable(original)'
    BY <1>1, <1>3 DEF TwoOptInv, NotAssessable
  <2> QED
    BY <1>1, <2>1, <2>2, <2>3, <2>4 DEF TwoOptInv, LocalOptimum
<1> QED
  BY <1>7, <1>8, <1>9, <1>10, <1>11, <1>12 DEF TourInv

\* Reading beyond the ends of the route takes an end that is open.
LEMMA ReverseAbortsKeeps ==
  ASSUME TourInv, ReverseAborts, UNCHANGED <<requests, settings>>
  PROVE  TourInv'
<1>1. /\ UNCHANGED <<solver, start_node, end_node, template, unfixed_begin, unfixed_end,
                     genomes, original, route, cursor, improved, saving, solves,
                     requests, num_nodes, coords>>
      /\ pc = "2_opt" /\ pc' = "aborted"
  BY DEF ReverseAborts, ends, window, search, settings
<1>2. ToursAsked' = ToursAsked /\ Mixed' = Mixed /\ Others' = Others /\ \A r : Good(r)' <=> Good(r)
  BY <1>1, SameGood
<1>3. TypeInv /\ TspInv /\ TspiInv /\ SolvedInv /\ GenomesInv /\ TwoOptInv
  BY DEF TourInv
<1>4. PICK m \in Slices(route) : ReadsBeyond(m)
  BY DEF ReverseAborts, First, Hits
<1>5. solver = "tspi" /\ (m[1] = 0 \/ m[2] = LastIdx(route))
  BY <1>4 DEF ReadsBeyond
<1>6. ID_NONE \in {start_node, end_node}
  <2>1. PICK r : r = route
    OBVIOUS
  <2>2. /\ Fixed(start_node) <= m[1] /\ m[2] <= LastIdx(r) - Fixed(end_node)
        /\ LastIdx(r) \in Int
    <3>1. /\ start_node \in MaybeNode /\ end_node \in MaybeNode /\ r \in Seq(Nodes)
          /\ Begin = Fixed(start_node) /\ End(r) = LastIdx(r) - Fixed(end_node)
          /\ m \in Slices(r)
      BY <1>1, <2>1, WhileSearching
    <3> QED
      BY <3>1, SliceBetween DEF LastIdx
  <2>3. CASE m[1] = 0
    BY <2>2, <2>3 DEF Fixed
  <2>4. CASE m[2] = LastIdx(route)
    BY <2>1, <2>2, <2>4 DEF Fixed
  <2> QED
    BY <1>5, <2>3, <2>4
<1>7. TypeInv'
  BY <1>1, <1>3 DEF TypeInv
<1>8. TspInv'
  BY <1>1, <1>5 DEF TspInv
<1>9. TspiInv'
  <2>1. solves # 0
    BY <1>1, <1>3, <1>5 DEF TspiInv
  <2> QED
    BY <1>1, <1>2, <1>3, <1>5, <1>6, <2>1 DEF TspiInv
<1>10. SolvedInv'
  BY <1>1, <1>3, <1>6 DEF SolvedInv, Broken
<1>11. GenomesInv'
  BY <1>1, <1>2, <1>3 DEF GenomesInv
<1>12. TwoOptInv'
  BY <1>1, <1>2, <1>3 DEF TwoOptInv, SavingsAddUp, LocalOptimum
<1> QED
  BY <1>7, <1>8, <1>9, <1>10, <1>11, <1>12 DEF TourInv

\* When a whole scan of the route stops nowhere, no slice of it is improving, and
\* none is read beyond.
LEMMA ScanComplete ==
  ASSUME TourInv, pc = "2_opt", Hits = {}, ~improved, NEW m \in Slices(route)
  PROVE  ~ReadsBeyond(m) /\ ~Improves(route, m)
<1>1. cursor = <<0, 0>>
  BY WhileSearching DEF TwoOptInv
<1>2. PICK r : r = route
  OBVIOUS
<1>3. m[1] \in Int /\ m[2] \in Int /\ 0 <= m[1] /\ m[1] < m[2]
  <2>1. /\ start_node \in MaybeNode /\ end_node \in MaybeNode /\ r \in Seq(Nodes)
        /\ Begin = Fixed(start_node) /\ End(r) = LastIdx(r) - Fixed(end_node)
        /\ m \in Slices(r)
    BY <1>2, WhileSearching
  <2>2. /\ m[1] \in Int /\ m[2] \in Int /\ Fixed(start_node) <= m[1] /\ m[1] < m[2]
        /\ Fixed(start_node) \in 0 .. 1
    BY <2>1, SliceBetween, GivenFacts
  <2> QED
    BY <2>2
<1>4. Before(<<0, 0>>, m)
  <2> DEFINE z == <<0, 0>>
  <2>1. DOMAIN z = 1 .. 2 /\ z[1] = 0 /\ z[2] = 0
    OBVIOUS
  <2> HIDE DEF z
  <2>2. CASE m[1] > 0
    <3>1. 1 \in DOMAIN z /\ z[1] < m[1] /\ \A l \in 1 .. 1 - 1 : m[l] = z[l]
      BY <1>3, <2>1, <2>2
    <3> QED
      BY <3>1 DEF Before, z
  <2>3. CASE m[1] = 0
    <3>1. 2 \in DOMAIN z /\ z[2] < m[2] /\ \A l \in 1 .. 2 - 1 : z[l] = m[l]
      BY <1>3, <2>1, <2>3
    <3> QED
      BY <3>1 DEF Before, z
  <2> QED
    BY <1>3, <2>2, <2>3
<1> QED
  BY <1>1, <1>4 DEF Hits

\* A scan that has improved nothing leaves a local optimum, and reads all of the
\* route only if both ends are fixed.
LEMMA EndScanKeeps ==
  ASSUME TourInv, EndScan, UNCHANGED <<requests, settings>>
  PROVE  TourInv'
<1>1. /\ UNCHANGED <<solver, start_node, end_node, template, unfixed_begin, unfixed_end,
                     genomes, original, route, saving, solves, requests, num_nodes, coords>>
      /\ pc = "2_opt" /\ pc' = IF improved THEN "2_opt" ELSE "done"
      /\ cursor' = <<0, 0>> /\ Hits = {}
  BY DEF EndScan, ends, window, settings
<1>2. ToursAsked' = ToursAsked /\ Others' = Others /\ \A r : Good(r)' <=> Good(r)
  BY <1>1, SameGood
<1>3. TypeInv /\ TspInv /\ TspiInv /\ SolvedInv /\ GenomesInv /\ TwoOptInv
  BY DEF TourInv
<1>4. /\ start_node \in MaybeNode /\ end_node \in MaybeNode
      /\ Begin = Fixed(start_node) /\ End(route) = LastIdx(route) - Fixed(end_node)
      /\ Good(route) /\ route \in Seq(Nodes)
  BY <1>1, WhileSearching
<1>5. /\ Fixed(start_node) \in 0 .. 1 /\ Fixed(end_node) \in 0 .. 1
      /\ Len(Given(start_node)) = Fixed(start_node)
      /\ Len(Given(end_node)) = Fixed(end_node)
  BY <1>4, GivenFacts
<1>6. LastIdx(route) \in Int /\ Len(route) = LastIdx(route) + 1
  BY <1>4 DEF LastIdx
<1>7. ASSUME NEW i \in Int, NEW j \in Int, Fixed(start_node) <= i, i < j,
             j <= LastIdx(route) - Fixed(end_node)
      PROVE  <<i, j>> \in Slices(route)
  <2> DEFINE b == Fixed(start_node)
             f == LastIdx(route) - Fixed(end_node)
  <2>1. b \in Int /\ f \in Int /\ b <= i /\ i < j /\ j <= f
    BY <1>5, <1>6, <1>7
  <2> HIDE DEF b, f
  <2>2. i \in b .. f - 1 /\ j \in b .. f
    BY ONLY <2>1, i \in Int, j \in Int
  <2>3. <<i, j>> \in (b .. f - 1) \X (b .. f) /\ <<i, j>>[1] < <<i, j>>[2]
    BY <2>2, <2>1
  <2> QED
    BY <1>4, <2>3 DEF Slices, b, f
<1>8. ASSUME ~improved PROVE LocalOptimum'
  <2> SUFFICES ASSUME NEW i \in Len(Given(start_node)) .. LastIdx(route) - Len(Given(end_node)),
                      NEW j \in Len(Given(start_node)) .. LastIdx(route) - Len(Given(end_node)),
                      i < j
               PROVE  TotalDistance(ReverseSlice(route, i, j)) >= TotalDistance(route)
    BY <1>1 DEF LocalOptimum
  <2>1. /\ i \in Int /\ j \in Int /\ Fixed(start_node) <= i
        /\ j <= LastIdx(route) - Fixed(end_node)
    BY <1>5, <1>6
  <2> DEFINE m == <<i, j>>
  <2>2. m \in Slices(route) /\ m[1] = i /\ m[2] = j
    BY <1>7, <2>1
  <2> HIDE DEF m
  <2>3. ~(ReverseDelta(route, m[1], m[2]) < 0)
    BY <1>1, <1>8, <2>2, ScanComplete DEF Improves
  <2>4. /\ ReverseDelta(route, m[1], m[2]) \in Int
        /\ TotalDistance(route) \in Nat
        /\ TotalDistance(ReverseSlice(route, m[1], m[2]))
             = TotalDistance(route) + ReverseDelta(route, m[1], m[2])
    BY <1>1, <2>2, ReversalOfRoute
  <2> QED
    BY <2>2, <2>3, <2>4
<1>9. ASSUME ~improved, solver = "tspi"
      PROVE  ID_NONE \notin {start_node, end_node}
  <2> SUFFICES ASSUME solves = 1 PROVE start_node # ID_NONE /\ end_node # ID_NONE
    <3>1. solves \in Nat /\ solves # 0 /\ (solves > 1 => ID_NONE \notin {start_node, end_node})
      BY <1>1, <1>3, <1>9 DEF TypeInv, TspiInv, SolvedInv
    <3> QED
      BY <3>1
  <2>1. LastIdx(route) > 1
    <3>1. Len(template) >= num_nodes /\ num_nodes > 2 /\ num_nodes \in Nat
      BY <1>1, <1>3, <1>9 DEF TspiInv
    <3>2. Len(route) = Len(template)
      BY <1>4 DEF Good, Mixed
    <3> QED
      BY <1>6, <3>1, <3>2
  <2>2. ASSUME start_node = ID_NONE PROVE FALSE
    <3> DEFINE m == <<0, 1>>
    <3>1. Fixed(start_node) = 0
      BY <2>2 DEF Fixed
    <3>2. 0 \in Int /\ 1 \in Int /\ Fixed(start_node) <= 0 /\ 0 < 1
          /\ 1 <= LastIdx(route) - Fixed(end_node)
      BY <1>5, <1>6, <2>1, <3>1
    <3>3. m \in Slices(route) /\ m[1] = 0
      BY <1>7, <3>2
    <3> HIDE DEF m
    <3>4. ReadsBeyond(m)
      BY <1>9, <3>3 DEF ReadsBeyond
    <3> QED
      BY <1>1, <1>9, <3>3, <3>4, ScanComplete
  <2>3. ASSUME end_node = ID_NONE PROVE FALSE
    <3> DEFINE b == Fixed(start_node)
               l == LastIdx(route)
               m == <<b, l>>
    <3>1. Fixed(end_node) = 0
      BY <2>3 DEF Fixed
    <3>2. b \in Int /\ l \in Int /\ Fixed(start_node) <= b /\ b < l
          /\ l <= LastIdx(route) - Fixed(end_node)
      BY <1>5, <1>6, <2>1, <3>1
    <3> HIDE DEF b, l
    <3>3. m \in Slices(route) /\ m[2] = l
      BY <1>7, <3>2
    <3> HIDE DEF m
    <3>4. ReadsBeyond(m)
      BY <1>9, <3>3 DEF ReadsBeyond, l
    <3> QED
      BY <1>1, <1>9, <3>3, <3>4, ScanComplete
  <2> QED
    BY <2>2, <2>3
<1>10. TypeInv'
  BY <1>1, <1>3 DEF TypeInv
<1>11. TspInv'
  BY <1>1, <1>3 DEF TspInv, Nothing
<1>12. TspiInv'
  BY <1>1, <1>2, <1>3, <1>9 DEF TspiInv
<1>13. SolvedInv'
  BY <1>1, <1>3, <1>9 DEF SolvedInv
<1>14. GenomesInv'
  BY <1>1, <1>2, <1>3 DEF GenomesInv
<1>15. TwoOptInv'
  <2>1. Good(route)'
    BY <1>1, <1>4 DEF Good, Mixed, ToursAsked, Others, Visits
  <2>2. SavingsAddUp'
    BY <1>1, <1>3 DEF TwoOptInv, SavingsAddUp
  <2>3. LocalOptimum'
    BY <1>1, <1>8 DEF LocalOptimum
  <2>4. ~NotAssessable(original)'
    BY <1>1, <1>3 DEF TwoOptInv, NotAssessable
  <2> QED
    BY <1>1, <2>1, <2>2, <2>3, <2>4 DEF TwoOptInv
<1> QED
  BY <1>10, <1>11, <1>12, <1>13, <1>14, <1>15 DEF TourInv

-----------------------------------------------------------------------------
(* The steps of tsp_t *)

\* A difference of size_t is the difference, or wraps around once.
LEMMA MinusValue ==
  ASSUME NEW a \in 0 .. SIZE_NONE, NEW d \in 1 .. 2, a > 0 \/ d = 1
  PROVE  Minus(a, d) = IF a >= d THEN a - d ELSE SIZE_NONE
<1> DEFINE n == SIZE_NONE + 1
           x == a - d
<1>1. n \in Nat /\ n >= 1 /\ x \in Int /\ x < n /\ x >= -1 /\ n >= 1
      /\ (a >= d <=> x >= 0) /\ (x < 0 => x = -1)
  BY SIZE_NONEAssumption
<1> HIDE DEF n, x
<1>2. x % n \in 0 .. n - 1 /\ x = n * (x \div n) + (x % n)
  BY ONLY <1>1
<1>3. x % n = IF x >= 0 THEN x ELSE n - 1
  <2>1. CASE x >= 0
    <3>1. x % n = IF x < n THEN x ELSE x - n
      <4>1. x \in Nat /\ x < 2 * n
        BY ONLY <1>1, <2>1
      <4> QED
        BY ONLY <1>1, <4>1, Remainder
    <3> QED
      BY ONLY <1>1, <2>1, <3>1
  <2>2. CASE x < 0
    <3> DEFINE q == x \div n
               y == x % n
    <3>1. q \in Int /\ y \in 0 .. n - 1 /\ -1 = n * q + y
      BY ONLY <1>1, <1>2, <2>2
    <3> HIDE DEF q, y
    <3>2. y = n - 1
      BY ONLY <1>1, <3>1
    <3> QED
      BY <2>2, <3>2, <1>1 DEF y
  <2> QED
    BY <1>1, <2>1, <2>2
<1>4. Minus(a, d) = x % n
  BY DEF Minus, x, n
<1> QED
  BY <1>1, <1>3, <1>4, SIZE_NONEAssumption DEF x, n

\* A template names no more nodes than there are, and the fixed ends at least.
LEMMA TemplateLength ==
  ASSUME NEW s \in MaybeNode, NEW e \in MaybeNode, NEW list, IsAsked(list),
         NEW t, IsTemplate(t, s, e, list)
  PROVE  /\ t \in Seq(Nodes) /\ Len(t) \in 0 .. SIZE_NONE
         /\ Cardinality(NodesAsked(s, e, list)) = Len(t)
         /\ s # ID_NONE \/ e # ID_NONE => Len(t) > 0
         /\ s # ID_NONE /\ e # ID_NONE /\ s # e => Len(t) > 1
<1> DEFINE W == NodesAsked(s, e, list)
           n == Len(t)
<1>1. t \in Seq(Nodes) /\ n \in Nat /\ Lists(t, n, W)
  BY DEF IsTemplate
<1>2. W \in SUBSET Nodes /\ (s # ID_NONE => s \in W) /\ (e # ID_NONE => e \in W)
  BY NodeFacts DEF NodesAsked, IsAsked, MaybeNode
<1> HIDE DEF W, n
<1>3. IsFiniteSet(W) /\ Cardinality(W) = n
  BY <1>1, ListCounts
<1>4. n <= SIZE_NONE
  <2>1. Cardinality(W) <= Cardinality(Nodes) /\ Cardinality(Nodes) \in Nat
    BY <1>2, NodeFacts, FS_Subset, FS_CardinalityType
  <2> QED
    BY <1>1, <1>3, <2>1, NodeFacts, SIZE_NONEAssumption
<1>5. \A x \in W : \E k \in 1 .. n : t[k] = x
  BY <1>1 DEF Lists
<1>6. s # ID_NONE \/ e # ID_NONE => n > 0
  <2>1. s # ID_NONE \/ e # ID_NONE => \E k \in 1 .. n : TRUE
    BY <1>2, <1>5
  <2> QED
    BY <1>1, <2>1
<1>7. s # ID_NONE /\ e # ID_NONE /\ s # e => n > 1
  <2> SUFFICES ASSUME s # ID_NONE, e # ID_NONE, s # e PROVE n > 1
    OBVIOUS
  <2>1. PICK k \in 1 .. n : t[k] = s
    BY <1>2, <1>5
  <2>2. PICK l \in 1 .. n : t[l] = e
    BY <1>2, <1>5
  <2>3. k # l
    BY <2>1, <2>2
  <2> QED
    BY <1>1, <2>3
<1> QED
  BY <1>1, <1>3, <1>4, <1>6, <1>7, SIZE_NONEAssumption DEF W, n

\* tsp_new_from_generic asserts that its window begins before it ends; it does
\* not exactly if there is nothing behind the fixed start.
LEMMA TspNewKeeps ==
  ASSUME TourInv, TspNew, UNCHANGED settings
  PROVE  TourInv'
<1>1. /\ UNCHANGED <<solver, start_node, end_node, genomes, original, route, cursor,
                     improved, saving, solves, requests, num_nodes, coords>>
      /\ solver = "tsp" /\ pc = "build"
      /\ template' = AddedOnce(Listed(start_node, requests), end_node)
      /\ unfixed_begin' = Fixed(start_node)
      /\ unfixed_end' = Minus(Len(template'), 1 + Fixed(end_node))
      /\ pc' = IF unfixed_begin' <= unfixed_end' THEN "ready" ELSE "aborted"
  BY DEF TspNew, UnfixedEnd, Fixed, ends, search, settings
<1>2. TypeInv /\ TspInv /\ TspiInv /\ SolvedInv /\ GenomesInv /\ TwoOptInv
  BY DEF TourInv
<1>3. start_node \in MaybeNode /\ end_node \in MaybeNode /\ IsAsked(requests)
  BY <1>1, <1>2 DEF TypeInv, TspInv
<1>4. IsTemplate(template', start_node, end_node, requests)
  BY <1>1, <1>3, TspTemplate
<1> DEFINE l == Len(template')
           b == Fixed(start_node)
           f == Fixed(end_node)
           u == unfixed_end'
<1>5. /\ template' \in Seq(Nodes) /\ l \in 0 .. SIZE_NONE
      /\ Cardinality(NodesAsked(start_node, end_node, requests)) = l
      /\ (b = 1 \/ f = 1 => l > 0)
      /\ b \in 0 .. 1 /\ f \in 0 .. 1 /\ (b = 1 <=> start_node # ID_NONE)
  <2>1. /\ template' \in Seq(Nodes) /\ l \in 0 .. SIZE_NONE
        /\ Cardinality(NodesAsked(start_node, end_node, requests)) = l
        /\ start_node # ID_NONE \/ end_node # ID_NONE => l > 0
    BY <1>3, <1>4, TemplateLength
  <2> QED
    BY <2>1 DEF Fixed
<1>6. u = IF l >= 1 + f THEN l - (1 + f) ELSE SIZE_NONE
  <2>1. 1 + f \in 1 .. 2 /\ (l > 0 \/ 1 + f = 1)
    BY <1>5
  <2> DEFINE d == 1 + f
  <2> HIDE DEF d, l
  <2>2. Minus(l, d) = IF l >= d THEN l - d ELSE SIZE_NONE
    BY <1>5, <2>1, MinusValue DEF d
  <2> QED
    BY <1>1, <2>2 DEF d, l
<1>7. pc' = "aborted" <=> Nothing
  <2>1. pc' = "aborted" <=> ~(b <= u)
    BY <1>1
  <2>2. Nothing <=> b = 1 /\ l = 1 + f
    BY <1>5 DEF Nothing
  <2> HIDE DEF b, u, l, f
  <2>3. ~(b <= u) <=> b = 1 /\ l = 1 + f
    BY ONLY <1>5, <1>6, SIZE_NONEAssumption
  <2> QED
    BY <2>1, <2>2, <2>3
<1>8. TypeInv'
  BY <1>1, <1>2, <1>5 DEF TypeInv
<1>9. TspInv'
  <2>1. Nothing' <=> Nothing
    BY <1>1 DEF Nothing
  <2>2. pc' \in {"ready", "aborted"}
    BY <1>1
  <2> QED
    BY <1>1, <1>3, <1>4, <1>7, <2>1, <2>2 DEF TspInv
<1>10. TspiInv'
  BY <1>1 DEF TspiInv
<1>11. SolvedInv'
  BY <1>1 DEF SolvedInv
<1>12. GenomesInv'
  BY <1>1, <1>2 DEF GenomesInv, NotAssessable
<1>13. TwoOptInv'
  BY <1>1, <1>2 DEF TwoOptInv, NotAssessable, SavingsAddUp, LocalOptimum
<1> QED
  BY <1>8, <1>9, <1>10, <1>11, <1>12, <1>13 DEF TourInv

\* What is known before tsp_solve.
LEMMA BeforeSolve ==
  ASSUME TourInv, solver = "tsp", pc = "ready"
  PROVE  /\ TypeInv /\ TspInv /\ TspiInv /\ SolvedInv /\ GenomesInv /\ TwoOptInv
         /\ start_node \in MaybeNode /\ end_node \in MaybeNode /\ ~Nothing
         /\ template \in Seq(Nodes) /\ Len(template) \in 0 .. SIZE_NONE
         /\ IsTemplate(template, start_node, end_node, requests)
         /\ Fixed(start_node) \in 0 .. 1 /\ Fixed(end_node) \in 0 .. 1
         /\ unfixed_end = Minus(Len(template), 1 + Fixed(end_node))
         /\ NumNodes = Len(template) - (IF IsRoundTrip THEN 1 ELSE 0)
         /\ IsRoundTrip => Fixed(start_node) = 1 /\ Fixed(end_node) = 1
         /\ (start_node # ID_NONE \/ end_node # ID_NONE)
               <=> Fixed(start_node) + Fixed(end_node) > 0
<1>1. TypeInv /\ TspInv /\ TspiInv /\ SolvedInv /\ GenomesInv /\ TwoOptInv
  BY DEF TourInv
<1>2. /\ start_node \in MaybeNode /\ end_node \in MaybeNode /\ ~Nothing
      /\ IsAsked(requests) /\ IsTemplate(template, start_node, end_node, requests)
      /\ unfixed_end = Minus(Len(template), 1 + Fixed(end_node))
  BY <1>1 DEF TypeInv, TspInv
<1>3. PICK t : t = template
  OBVIOUS
<1>4. t \in Seq(Nodes) /\ Len(t) \in 0 .. SIZE_NONE
  <2>1. PICK s, e, list : s = start_node /\ e = end_node /\ list = requests
    OBVIOUS
  <2> QED
    BY <1>2, <1>3, <2>1, TemplateLength
<1>5. /\ Fixed(start_node) \in 0 .. 1 /\ Fixed(end_node) \in 0 .. 1
      /\ IsRoundTrip => Fixed(start_node) = 1 /\ Fixed(end_node) = 1
      /\ (start_node # ID_NONE \/ end_node # ID_NONE)
               <=> Fixed(start_node) + Fixed(end_node) > 0
  BY DEF Fixed, IsRoundTrip
<1> QED
  BY <1>1, <1>2, <1>3, <1>4, <1>5 DEF NumNodes

\* With two nodes or fewer there is no slice to reverse.
LEMMA TspSolveTrivialKeeps ==
  ASSUME TourInv, TspSolveTrivial, UNCHANGED settings
  PROVE  TourInv'
<1>1. /\ UNCHANGED <<solver, start_node, end_node, template, unfixed_begin, unfixed_end,
                     genomes, requests, num_nodes, coords>>
      /\ solver = "tsp" /\ pc = "ready" /\ solves' = solves + 1 /\ pc' = "done"
      /\ TwoOptOf(IF NumNodes = 0 THEN <<>> ELSE template)
      /\ IsTrivial
  BY DEF TspSolveTrivial, SolvesBy, ends, window, settings
<1> DEFINE q == IF NumNodes = 0 THEN <<>> ELSE template
<1>2. /\ TypeInv /\ TspInv /\ TspiInv /\ SolvedInv /\ GenomesInv /\ TwoOptInv
      /\ start_node \in MaybeNode /\ end_node \in MaybeNode
      /\ template \in Seq(Nodes) /\ ~Nothing
  BY <1>1, BeforeSolve
<1>3. q \in Seq(Nodes) /\ q \in {<<>>, template}
  BY <1>2
<1>4. original' = q /\ route' = q /\ TwoOptOf(q)
  BY <1>1 DEF TwoOptOf
<1> HIDE DEF q
<1>5. Good(template)' 
  BY <1>1, <1>2 DEF Good, Mixed
<1>6. route' = <<>> \/ Good(route)'
  BY <1>1, <1>2, <1>3, <1>4 DEF Good, Mixed, ToursAsked, Others, Visits
<1>7. LastIdx(q) - Fixed(end_node) <= Fixed(start_node) /\ LastIdx(q) \in Int
  <2> DEFINE n == Len(template)
             b == Fixed(start_node)
             f == Fixed(end_node)
  <2>1. /\ n \in Nat /\ b \in 0 .. 1 /\ f \in 0 .. 1
        /\ NumNodes = n - (IF IsRoundTrip THEN 1 ELSE 0)
        /\ IsRoundTrip => b = 1 /\ f = 1
        /\ NumNodes <= 1 \/ (NumNodes = 2 /\ b + f > 0)
    BY <1>1, BeforeSolve DEF IsTrivial
  <2>2. q = <<>> => LastIdx(q) = -1
    BY DEF LastIdx
  <2>3. q = template => LastIdx(q) = n - 1
    BY DEF LastIdx
  <2> HIDE DEF n, b, f
  <2>4. n - 1 - f <= b
    BY ONLY <2>1
  <2>5. -1 - f <= b /\ n - 1 \in Int
    BY ONLY <2>1
  <2> QED
    BY <1>3, <2>2, <2>3, <2>4, <2>5 DEF b, f
<1>8. LocalOptimum'
  <2>1. /\ Len(Given(start_node)) = Fixed(start_node)
        /\ Len(Given(end_node)) = Fixed(end_node)
        /\ Fixed(start_node) \in 0 .. 1 /\ Fixed(end_node) \in 0 .. 1
    BY <1>2, GivenFacts
  <2> DEFINE I == Len(Given(start_node)) .. LastIdx(q) - Len(Given(end_node))
  <2>2. \A i, j \in I : ~(i < j)
    <3> DEFINE b == Fixed(start_node)
               f == LastIdx(q) - Fixed(end_node)
    <3>1. I = b .. f /\ b \in Int /\ f \in Int /\ f <= b
      BY <1>7, <2>1
    <3> HIDE DEF I, b, f
    <3> QED
      BY ONLY <3>1
  <2>3. (Len(Given(start_node)) .. LastIdx(route) - Len(Given(end_node)))' = I
    BY <1>1, <1>4
  <2> HIDE DEF I
  <2> QED
    BY <2>2, <2>3 DEF LocalOptimum
<1>9. TypeInv'
  BY <1>1, <1>2, <1>3, <1>4 DEF TypeInv
<1>10. TspInv'
  BY <1>1, <1>2 DEF TspInv, Nothing
<1>11. TspiInv'
  BY <1>1 DEF TspiInv
<1>12. SolvedInv'
  BY <1>1 DEF SolvedInv
<1>13. GenomesInv'
  BY <1>1, <1>2 DEF GenomesInv, NotAssessable
<1>14. TwoOptInv'
  <2>1. SavingsAddUp' /\ cursor' = <<0, 0>>
    BY <1>3, <1>4, NothingSaved
  <2> QED
    BY <1>1, <1>6, <1>8, <2>1 DEF TwoOptInv, NotAssessable
<1> QED
  BY <1>9, <1>10, <1>11, <1>12, <1>13, <1>14 DEF TourInv

\* With something to reorder, the window of a generic model does not wrap around.
LEMMA TspWindow ==
  ASSUME TourInv, solver = "tsp", pc = "ready", ~IsTrivial
  PROVE  unfixed_end = LastIdx(template) - Fixed(end_node)
<1> DEFINE n == Len(template)
           b == Fixed(start_node)
           f == Fixed(end_node)
           d == 1 + f
<1>1. /\ n \in 0 .. SIZE_NONE /\ f \in 0 .. 1 /\ b \in 0 .. 1
      /\ unfixed_end = Minus(n, d)
      /\ NumNodes = n - (IF IsRoundTrip THEN 1 ELSE 0)
      /\ ~(NumNodes <= 1)
  BY BeforeSolve DEF IsTrivial
<1>2. d \in 1 .. 2 /\ n \in Nat /\ n >= d
  <2> HIDE DEF n, f
  <2> QED
    BY <1>1, SIZE_NONEAssumption
<1>3. Minus(n, d) = n - d
  <2> HIDE DEF n, d
  <2>1. n > 0 \/ d = 1
    BY <1>2
  <2>2. Minus(n, d) = IF n >= d THEN n - d ELSE SIZE_NONE
    BY <1>1, <1>2, <2>1, MinusValue
  <2> QED
    BY <1>2, <2>2
<1>4. n - d = LastIdx(template) - f
  <2>1. LastIdx(template) = n - 1
    BY DEF LastIdx
  <2> HIDE DEF n, f
  <2> QED
    BY <1>1, <1>2, <2>1
<1> QED
  BY <1>1, <1>3, <1>4

\* tsp_solve_small_model hands the template to 2-opt as it is.
LEMMA TspSolveSmallKeeps ==
  ASSUME TourInv, TspSolveSmall, UNCHANGED settings
  PROVE  TourInv'
<1>1. /\ UNCHANGED <<solver, start_node, end_node, template, unfixed_begin, unfixed_end,
                     genomes, requests, num_nodes, coords>>
      /\ solver = "tsp" /\ pc = "ready" /\ solves' = solves + 1 /\ pc' = "2_opt"
      /\ TwoOptOf(template) /\ ~IsTrivial
      /\ original' = template /\ route' = template
  BY DEF TspSolveSmall, SolvesBy, TwoOptOf, ends, window, settings
<1>2. /\ TypeInv /\ TspInv /\ TspiInv /\ SolvedInv /\ GenomesInv /\ TwoOptInv
      /\ template \in Seq(Nodes) /\ ~Nothing
  BY <1>1, BeforeSolve
<1>3. unfixed_end = LastIdx(template) - Fixed(end_node)
  BY <1>1, TspWindow
<1>4. TypeInv'
  BY <1>1, <1>2 DEF TypeInv
<1>5. TspInv'
  BY <1>1, <1>2, <1>3 DEF TspInv, Nothing
<1>6. TspiInv'
  BY <1>1 DEF TspiInv
<1>7. SolvedInv'
  BY <1>1 DEF SolvedInv
<1>8. GenomesInv'
  BY <1>1, <1>2 DEF GenomesInv, NotAssessable
<1>9. TwoOptInv'
  <2>1. SavingsAddUp' /\ cursor' = <<0, 0>>
    BY <1>1, <1>2, NothingSaved
  <2>2. Good(route)'
    BY <1>1, <1>2 DEF Good, Mixed
  <2>3. LocalOptimum'
    BY <1>1 DEF LocalOptimum
  <2> QED
    BY <1>1, <2>1, <2>2, <2>3 DEF TwoOptInv, NotAssessable
<1> QED
  BY <1>4, <1>5, <1>6, <1>7, <1>8, <1>9 DEF TourInv

\* tsp_solve starts an evolution only with more than two nodes.
LEMMA TspSolveKeeps ==
  ASSUME TourInv, TspSolve, UNCHANGED settings
  PROVE  TourInv'
<1>1. /\ UNCHANGED <<solver, start_node, end_node, template, unfixed_begin, unfixed_end,
                     genomes, requests, num_nodes, coords, original, route,
                     cursor, improved, saving>>
      /\ solver = "tsp" /\ pc = "ready" /\ solves' = solves + 1 /\ pc' = "evolve"
      /\ NumNodes > SMALL_NUM_NODES
  BY DEF TspSolve, SolvesBy, ends, window, search, settings
<1>2. /\ TypeInv /\ TspInv /\ TspiInv /\ SolvedInv /\ GenomesInv /\ TwoOptInv
      /\ template \in Seq(Nodes) /\ ~Nothing
  BY <1>1, BeforeSolve
<1>3. ~IsTrivial /\ Len(template) > 2
  <2> DEFINE n == Len(template)
             x == NumNodes
  <2>1. n \in 0 .. SIZE_NONE /\ x = n - (IF IsRoundTrip THEN 1 ELSE 0)
    BY <1>1, BeforeSolve
  <2> HIDE DEF n, x
  <2>2. x \in Int /\ x > 2 /\ n > 2
    BY <1>1, <2>1, SIZE_NONEAssumption, SMALL_NUM_NODESAssumption DEF x
  <2>3. ~(x <= 1) /\ x # 2
    BY <2>2
  <2> QED
    BY <2>2, <2>3 DEF IsTrivial, n, x
<1>4. unfixed_end = LastIdx(template) - Fixed(end_node)
  BY <1>1, <1>3, TspWindow
<1>5. TypeInv'
  BY <1>1, <1>2 DEF TypeInv
<1>6. TspInv'
  BY <1>1, <1>2, <1>4 DEF TspInv, Nothing
<1>7. TspiInv'
  BY <1>1 DEF TspiInv
<1>8. SolvedInv'
  BY <1>1 DEF SolvedInv
<1>9. GenomesInv'
  BY <1>1, <1>2, <1>3 DEF GenomesInv, NotAssessable
<1>10. TwoOptInv'
  BY <1>1, <1>2 DEF TwoOptInv, NotAssessable, SavingsAddUp, LocalOptimum
<1> QED
  BY <1>5, <1>6, <1>7, <1>8, <1>9, <1>10 DEF TourInv

-----------------------------------------------------------------------------
(* The steps of tspi_t *)

\* tspi_new numbers the nodes.
LEMMA TspiNewKeeps ==
  ASSUME TourInv, TspiNew, UNCHANGED requests
  PROVE  TourInv'
<1>1. /\ UNCHANGED <<solver, start_node, end_node, unfixed_begin, unfixed_end, genomes,
                     original, route, cursor, improved, saving, solves, requests>>
      /\ solver = "tspi" /\ pc = "build" /\ pc' = "ready"
      /\ num_nodes' \in NumsOfNodes /\ template' = Numbered(num_nodes')
  BY DEF TspiNew, Numbered, ends, window, search
<1>2. TypeInv /\ TspInv /\ TspiInv /\ SolvedInv /\ GenomesInv /\ TwoOptInv
  BY DEF TourInv
<1>3. PICK n \in NumsOfNodes : n = num_nodes'
  BY <1>1
<1>4. n \in Nat /\ n > 2 /\ 0 .. n - 1 \subseteq Nodes
  BY NumsOfNodesAssumption
<1>5. Numbered(n) \in Seq(Nodes) /\ Len(Numbered(n)) = n
  <2>1. \A k \in 1 .. n : k - 1 \in 0 .. n - 1
    BY <1>4
  <2> QED
    BY <1>4, <2>1 DEF Numbered
<1>6. /\ solves = 0 /\ num_nodes = 0
      /\ start_node \in (0 .. num_nodes - 1) \cup {ID_NONE}
      /\ end_node \in (0 .. num_nodes - 1) \cup {ID_NONE}
  BY <1>1, <1>2 DEF TspiInv
<1>7. start_node = ID_NONE /\ end_node = ID_NONE
  BY <1>6
<1>8. template' = Numbered(n) /\ template' \in Seq(Nodes) /\ Len(template') = n
  BY <1>1, <1>3, <1>5
<1>9. TypeInv'
  BY <1>1, <1>2, <1>8 DEF TypeInv
<1>10. TspInv'
  BY <1>1 DEF TspInv
<1>11. TspiInv'
  <2>1. num_nodes' = n
    BY <1>3
  <2>2. num_nodes' \in Nat /\ 0 .. num_nodes' - 1 \subseteq Nodes /\ num_nodes' > 2
    BY <1>4, <2>1
  <2>3. Len(template') >= num_nodes'
    BY <1>4, <1>8, <2>1
  <2>4. start_node' = ID_NONE /\ end_node' = ID_NONE /\ solves' = 0
    BY <1>1, <1>6, <1>7
  <2>5. (template = Numbered(num_nodes))'
    BY <1>1
  <2>6. solves' # 1 /\ pc' = "ready" /\ solver' = "tspi"
    BY <1>1, <2>4
  <2>7. /\ start_node' \in (0 .. num_nodes' - 1) \cup {ID_NONE}
        /\ end_node' \in (0 .. num_nodes' - 1) \cup {ID_NONE}
    BY <2>4
  <2> QED
    BY <2>2, <2>3, <2>5, <2>6, <2>7 DEF TspiInv
<1>12. SolvedInv'
  BY <1>1, <1>6 DEF SolvedInv
<1>13. GenomesInv'
  BY <1>1, <1>2 DEF GenomesInv
<1>14. TwoOptInv'
  BY <1>1, <1>2 DEF TwoOptInv, SavingsAddUp, LocalOptimum
<1> QED
  BY <1>9, <1>10, <1>11, <1>12, <1>13, <1>14 DEF TourInv

\* The setters can only give ends to a stand-alone model that was not solved yet.
LEMMA TspiSetKeeps ==
  ASSUME TourInv, TspiSet, UNCHANGED requests
  PROVE  TourInv'
<1>1. /\ UNCHANGED <<solver, template, unfixed_begin, unfixed_end, genomes, original,
                     route, cursor, improved, saving, solves, pc, requests, num_nodes>>
      /\ solver = "tspi" /\ pc \in {"ready", "failed"} /\ solves = 0
      /\ start_node' \in {start_node} \cup 0 .. num_nodes - 1
      /\ end_node' \in {end_node} \cup 0 .. num_nodes - 1
  <2>1. Setting /\ UNCHANGED unset
        /\ start_node' \in {start_node} \cup 0 .. num_nodes - 1
        /\ end_node' \in {end_node} \cup 0 .. num_nodes - 1
    <3>1. CASE SetEnds
      BY <3>1 DEF SetEnds, unset
    <3>2. CASE SetRoundTrip
      BY <3>2 DEF SetRoundTrip, unset, ends
    <3>3. CASE SetCoordSystem
      BY <3>3 DEF SetCoordSystem, unset, ends
    <3>4. CASE SetNodeCoord
      BY <3>4 DEF SetNodeCoord, unset, ends
    <3>5. CASE SetCost
      BY <3>5 DEF SetCost, unset, ends
    <3>6. CASE GenerateBeeline
      BY <3>6 DEF GenerateBeeline, unset, ends
    <3> QED
      BY <3>1, <3>2, <3>3, <3>4, <3>5, <3>6 DEF TspiSet
  <2> QED
    BY <2>1 DEF Setting, Idle, unset, window, search
<1>2. TypeInv /\ TspInv /\ TspiInv /\ SolvedInv /\ GenomesInv /\ TwoOptInv
  BY DEF TourInv
<1>3. TspiInv'
  BY <1>1, <1>2 DEF TspiInv
<1>4. SolvedInv'
  BY <1>1, <1>2 DEF SolvedInv, TspiInv
<1>5. TypeInv'
  <2>1. 0 .. num_nodes - 1 \subseteq Nodes
    BY <1>1, <1>2 DEF TspiInv
  <2> QED
    BY <1>1, <1>2, <2>1 DEF TypeInv, MaybeNode
<1>6. TspInv'
  BY <1>1 DEF TspInv
<1>7. GenomesInv'
  <2>1. genomes' = {}
    BY <1>1, <1>2 DEF GenomesInv
  <2> QED
    BY <1>1, <2>1 DEF GenomesInv
<1>8. TwoOptInv'
  BY <1>1, <1>2 DEF TwoOptInv, SavingsAddUp, LocalOptimum
<1> QED
  BY <1>3, <1>4, <1>5, <1>6, <1>7, <1>8 DEF TourInv

\* What a call of tspi_solve finds and what it leaves of the call before.
LEMMA BeforeTspiSolve ==
  ASSUME TourInv, Callable, AfterCall, UNCHANGED requests
  PROVE  /\ UNCHANGED <<solver, genomes, num_nodes, coords, requests>>
         /\ solver = "tspi" /\ pc \in {"ready", "failed", "done"} /\ genomes = {}
         /\ original' = <<>> /\ route' = <<>> /\ improved' = FALSE
         /\ cursor' = <<0, 0>> /\ SavingsAddUp'
         /\ TypeInv /\ TspInv /\ TspiInv /\ SolvedInv /\ GenomesInv /\ TwoOptInv
         /\ num_nodes \in Nat /\ num_nodes > 2 /\ 0 .. num_nodes - 1 \subseteq Nodes
         /\ template \in Seq(Nodes) /\ Len(template) >= num_nodes /\ solves \in Nat
         /\ Ends.start \in (0 .. num_nodes - 1) \cup {ID_NONE}
         /\ Ends.end \in (0 .. num_nodes - 1) \cup {ID_NONE}
<1>1. TypeInv /\ TspInv /\ TspiInv /\ SolvedInv /\ GenomesInv /\ TwoOptInv
  BY DEF TourInv
<1>2. /\ UNCHANGED <<solver, genomes, num_nodes, coords, requests>>
      /\ solver = "tspi" /\ pc \in {"ready", "failed", "done"}
      /\ TwoOptOf(<<>>)
  BY DEF Callable, AfterCall, Idle
<1>3. genomes = {}
  BY <1>1, <1>2 DEF GenomesInv
<1>4. original' = <<>> /\ route' = <<>> /\ improved' = FALSE /\ cursor' = <<0, 0>>
  BY <1>2 DEF TwoOptOf
<1>5. SavingsAddUp'
  <2>1. PICK r : r = <<>>
    OBVIOUS
  <2>2. r \in Seq(Nodes) /\ TwoOptOf(r)
    BY <1>2, <2>1
  <2> QED
    BY <2>2, NothingSaved
<1>6. /\ num_nodes \in Nat /\ num_nodes > 2 /\ 0 .. num_nodes - 1 \subseteq Nodes
      /\ Len(template) >= num_nodes
      /\ start_node \in (0 .. num_nodes - 1) \cup {ID_NONE}
      /\ end_node \in (0 .. num_nodes - 1) \cup {ID_NONE}
  BY <1>1, <1>2 DEF TspiInv
<1>7. template \in Seq(Nodes) /\ solves \in Nat
  BY <1>1 DEF TypeInv
<1>8. /\ Ends.start \in (0 .. num_nodes - 1) \cup {ID_NONE}
      /\ Ends.end \in (0 .. num_nodes - 1) \cup {ID_NONE}
  BY <1>6 DEF Ends
<1> QED
  BY <1>1, <1>2, <1>3, <1>4, <1>5, <1>6, <1>7, <1>8

\* A call that comes after another finds both ends fixed and takes them as they are.
LEMMA EndsStand ==
  ASSUME TourInv, Callable, solves > 0, NEW valid, Accepted(valid)
  PROVE  /\ Ends.start = start_node /\ Ends.end = end_node
         /\ start_node \in 0 .. num_nodes - 1 /\ end_node \in 0 .. num_nodes - 1
         /\ ID_NONE \notin {start_node, end_node}
         /\ IsResolved(template, start_node, end_node, num_nodes, solves)
<1>1. TypeInv /\ TspiInv /\ SolvedInv
  BY DEF TourInv
<1>2. solver = "tspi" /\ pc \in {"ready", "done", "failed"}
  BY DEF Callable, Idle
<1>3. /\ ID_NONE \notin {start_node, end_node}
      /\ IsResolved(template, start_node, end_node, num_nodes, solves)
  BY <1>1, <1>2 DEF SolvedInv
<1>4. start_node \in 0 .. num_nodes - 1 /\ end_node \in 0 .. num_nodes - 1
  BY <1>1, <1>2, <1>3 DEF TspiInv
<1>5. Ends.start = start_node /\ Ends.end = end_node
  BY <1>3 DEF Ends, Accepted, DifferentEnds
<1> QED
  BY <1>3, <1>4, <1>5

\* A call that is refused only forgets the solution before it.
LEMMA TspiSolveFailsKeeps ==
  ASSUME TourInv, TspiSolveFails, UNCHANGED requests
  PROVE  TourInv'
<1>1. Callable /\ AfterCall
  BY DEF TspiSolveFails
<1>2. /\ UNCHANGED <<solver, start_node, end_node, template, genomes, num_nodes, coords,
                     requests, solves>>
      /\ pc' = "failed"
  BY DEF TspiSolveFails, StopsAs, AfterCall, ends
<1>3. /\ solver = "tspi" /\ pc \in {"ready", "failed", "done"} /\ genomes = {}
      /\ original' = <<>> /\ route' = <<>> /\ improved' = FALSE
      /\ cursor' = <<0, 0>> /\ SavingsAddUp'
      /\ TypeInv /\ TspiInv /\ SolvedInv
  BY <1>1, BeforeTspiSolve
<1>4. TypeInv'
  BY <1>2, <1>3 DEF TypeInv
<1>5. TspInv'
  BY <1>2, <1>3 DEF TspInv
<1>6. TspiInv'
  <2>1. ToursAsked' = ToursAsked
    BY <1>2, SameGood
  <2> QED
    BY <1>2, <1>3, <2>1 DEF TspiInv
<1>7. SolvedInv'
  <2>1. solves > 0 => ID_NONE \notin {start_node, end_node}
    BY <1>1, BeforeTspiSolve DEF SolvedInv
  <2> QED
    BY <1>2, <1>3, <2>1 DEF SolvedInv
<1>8. GenomesInv'
  BY <1>2, <1>3 DEF GenomesInv
<1>9. TwoOptInv'
  BY <1>2, <1>3 DEF TwoOptInv, LocalOptimum
<1> QED
  BY <1>4, <1>5, <1>6, <1>7, <1>8, <1>9 DEF TourInv

\* The first call finds the nodes where tspi_new put them, and its assertion holds.
LEMMA TspiSolveAbortsKeeps ==
  ASSUME TourInv, TspiSolveAborts, UNCHANGED requests
  PROVE  TourInv'
<1> DEFINE s == Ends.start
           e == Ends.end
<1>1. Callable /\ AfterCall /\ RegularizeAborts(s, e)
  BY DEF TspiSolveAborts
<1>2. /\ UNCHANGED <<solver, start_node, end_node, template, genomes, num_nodes, coords,
                     requests>>
      /\ pc' = "aborted" /\ solves' = solves + 1
  BY DEF TspiSolveAborts, StopsAs, AfterCall, ends
<1>3. /\ solver = "tspi" /\ genomes = {}
      /\ original' = <<>> /\ route' = <<>> /\ improved' = FALSE
      /\ cursor' = <<0, 0>> /\ SavingsAddUp'
      /\ TypeInv /\ TspiInv /\ SolvedInv
      /\ num_nodes \in Nat /\ num_nodes > 2 /\ 0 .. num_nodes - 1 \subseteq Nodes
      /\ template \in Seq(Nodes) /\ Len(template) >= num_nodes /\ solves \in Nat
      /\ s \in (0 .. num_nodes - 1) \cup {ID_NONE}
      /\ e \in (0 .. num_nodes - 1) \cup {ID_NONE}
      /\ pc # "build"
  BY <1>1, BeforeTspiSolve
<1> HIDE DEF s, e
<1>4. solves # 0
  <2> SUFFICES ASSUME solves = 0 PROVE FALSE
    OBVIOUS
  <2>1. template = Numbered(num_nodes)
    BY <1>3 DEF TspiInv
  <2> QED
    BY <1>1, <1>3, <2>1, FirstRegularized
<1>5. solves' \in Nat /\ solves' > 1
  BY <1>2, <1>3, <1>4
<1>6. TypeInv'
  BY <1>2, <1>3, <1>5 DEF TypeInv
<1>7. TspInv'
  BY <1>2, <1>3 DEF TspInv
<1>8. TspiInv'
  BY <1>2, <1>3, <1>5 DEF TspiInv
<1>9. SolvedInv'
  <2>1. PICK valid : Accepted(valid)
    BY DEF TspiSolveAborts
  <2>2. solves > 0
    BY <1>3, <1>4
  <2>3. /\ s = start_node /\ e = end_node
        /\ s \in 0 .. num_nodes - 1 /\ e \in 0 .. num_nodes - 1
        /\ ID_NONE \notin {start_node, end_node}
        /\ IsResolved(template, s, e, num_nodes, solves)
    BY <1>1, <2>1, <2>2, EndsStand DEF s, e
  <2>4. s # e /\ e # num_nodes - 1
    BY <1>1, <1>3, <2>3, AgainRegularized
  <2>5. Broken'
    BY <1>2, <1>5, <2>3, <2>4 DEF Broken
  <2> QED
    BY <1>2, <2>3, <2>5 DEF SolvedInv
<1>10. GenomesInv'
  BY <1>2, <1>3 DEF GenomesInv
<1>11. TwoOptInv'
  BY <1>2, <1>3 DEF TwoOptInv, LocalOptimum
<1> QED
  BY <1>6, <1>7, <1>8, <1>9, <1>10, <1>11 DEF TourInv

\* The first call makes a tour of the template; a later one at least keeps all of it.
LEMMA TspiSolveKeeps ==
  ASSUME TourInv, TspiSolve, UNCHANGED requests
  PROVE  TourInv'
<1>1. Callable /\ AfterCall
  BY DEF TspiSolve
<1> DEFINE s == Ends.start
           e == Ends.end
<1>2. /\ UNCHANGED <<solver, genomes, num_nodes, coords, requests>>
      /\ start_node' = s /\ end_node' = e /\ template' = Regularized(s, e)
      /\ pc' = "evolve" /\ solves' = solves + 1
  BY DEF TspiSolve, AfterCall
<1>3. /\ solver = "tspi" /\ genomes = {}
      /\ original' = <<>> /\ route' = <<>> /\ improved' = FALSE
      /\ cursor' = <<0, 0>> /\ SavingsAddUp'
      /\ TypeInv /\ TspiInv /\ SolvedInv
      /\ num_nodes \in Nat /\ num_nodes > 2 /\ 0 .. num_nodes - 1 \subseteq Nodes
      /\ template \in Seq(Nodes) /\ Len(template) >= num_nodes /\ solves \in Nat
      /\ s \in (0 .. num_nodes - 1) \cup {ID_NONE}
      /\ e \in (0 .. num_nodes - 1) \cup {ID_NONE}
  BY <1>1, BeforeTspiSolve
<1> HIDE DEF s, e
<1>4. template' \in Seq(Nodes) /\ Len(template') >= num_nodes
  BY <1>2, <1>3, RegularizedType
<1>5. solves' \in Nat /\ solves' # 0 /\ (solves' = 1 => solves = 0)
  BY <1>2, <1>3
<1>6. solves' = 1 => (template \in ToursAsked)'
  <2> SUFFICES ASSUME solves' = 1 PROVE (template \in ToursAsked)'
    OBVIOUS
  <2>1. template = Numbered(num_nodes)
    BY <1>3, <1>5 DEF TspiInv
  <2>2. Regularized(s, e) \in Tours(s, e, (0 .. num_nodes - 1) \ {s, e})
    BY <1>3, <2>1, FirstRegularized
  <2>3. Others' = (0 .. num_nodes - 1) \ {s, e}
    BY <1>2, <1>3 DEF Others
  <2>4. ToursAsked' = Tours(s, e, Others')
    BY <1>2 DEF ToursAsked
  <2> QED
    BY <1>2, <2>2, <2>3, <2>4
<1>7. TypeInv'
  <2>1. s \in MaybeNode /\ e \in MaybeNode
    BY <1>3 DEF MaybeNode
  <2> QED
    BY <1>2, <1>3, <1>4, <1>5, <2>1 DEF TypeInv
<1>8. TspInv'
  BY <1>2, <1>3 DEF TspInv
<1>9. TspiInv'
  BY <1>2, <1>3, <1>4, <1>5, <1>6 DEF TspiInv
<1>10. SolvedInv'
  <2>1. PICK valid : Accepted(valid) /\ ~RegularizeAborts(s, e)
    BY DEF TspiSolve, s, e
  <2>2. CASE solves = 0
    <3>1. template = Numbered(num_nodes)
      BY <1>1, <1>3, <2>2, BeforeTspiSolve DEF TspiInv
    <3>2. IsResolved(Regularized(s, e), s, e, num_nodes, 1)
      BY <1>3, <3>1, FirstResolved
    <3> QED
      BY <1>2, <1>3, <2>2, <3>2 DEF SolvedInv
  <2>3. CASE solves # 0
    <3>1. solves > 0
      BY <1>3, <2>3
    <3>2. /\ s = start_node /\ e = end_node
          /\ s \in 0 .. num_nodes - 1 /\ e \in 0 .. num_nodes - 1
          /\ ID_NONE \notin {start_node, end_node}
          /\ IsResolved(template, s, e, num_nodes, solves)
      BY <1>1, <2>1, <3>1, EndsStand DEF s, e
    <3>3. /\ s = e \/ e = num_nodes - 1
          /\ IsResolved(Regularized(s, e), s, e, num_nodes, solves + 1)
      BY <1>3, <2>1, <3>2, AgainRegularized
    <3> QED
      BY <1>2, <1>3, <3>2, <3>3 DEF SolvedInv
  <2> QED
    BY <2>2, <2>3
<1>11. GenomesInv'
  <2>1. (Len(template) > 2)'
    BY <1>3, <1>4
  <2> QED
    BY <1>2, <1>3, <2>1 DEF GenomesInv
<1>12. TwoOptInv'
  BY <1>2, <1>3 DEF TwoOptInv, LocalOptimum
<1> QED
  BY <1>7, <1>8, <1>9, <1>10, <1>11, <1>12 DEF TourInv

-----------------------------------------------------------------------------
(* The invariant *)

\* It holds before anything is built.
LEMMA InitKeeps == Init => TourInv
<1> SUFFICES ASSUME Init PROVE TourInv
  OBVIOUS
<1>1. /\ solver \in {"tsp", "tspi"} /\ pc = "build" /\ solves = 0 /\ genomes = {}
      /\ template = <<>> /\ original = <<>> /\ route = <<>> /\ cursor = <<0, 0>>
      /\ saving = 0 /\ num_nodes = 0
      /\ solver = "tspi" => start_node = ID_NONE /\ end_node = ID_NONE
  BY DEF Init, InitSearch, InitSettings, TspInit, TspiInit
<1>2. start_node \in MaybeNode /\ end_node \in MaybeNode
  <2>1. CASE solver = "tspi"
    BY <1>1, <2>1 DEF MaybeNode
  <2>2. CASE solver = "tsp"
    <3>1. PICK vehicle \in Fleet : start_node = vehicle[1] /\ end_node = vehicle[2]
      BY <2>2 DEF Init, TspInit, TspiInit
    <3> QED
      BY <3>1, FleetAssumption DEF MaybeNode
  <2> QED
    BY <1>1, <2>1, <2>2
<1>3. solver = "tsp" => IsAsked(requests)
  <2> SUFFICES ASSUME solver = "tsp" PROVE IsAsked(requests)
    OBVIOUS
  <2>1. requests \in RequestLists
    BY DEF Init, TspInit, TspiInit
  <2> DEFINE M == Nodes \cup {ID_NONE}
             Pairs == M \X M
  <2>2. /\ requests \in Seq(Pairs)
        /\ \A k \in DOMAIN requests : requests[k] # <<ID_NONE, ID_NONE>>
    BY <2>1, RequestListsAssumption
  <2>3. ASSUME NEW k \in 1 .. Len(requests) PROVE VisitOf(requests[k]) \in Nodes
    <3>1. PICK x : x = requests[k]
      OBVIOUS
    <3>2. x \in Pairs /\ x # <<ID_NONE, ID_NONE>>
      <4> DEFINE none == <<ID_NONE, ID_NONE>>
      <4> HIDE DEF Pairs, none
      <4>1. requests \in Seq(Pairs) /\ \A l \in DOMAIN requests : requests[l] # none
        BY <2>2 DEF none
      <4>2. k \in DOMAIN requests
        BY <4>1
      <4>3. x \in Pairs /\ x # none
        BY <3>1, <4>1, <4>2
      <4> QED
        BY <4>3 DEF none
    <3>3. x[1] \in M /\ x[2] \in M /\ x = <<x[1], x[2]>>
      BY <3>2
    <3> QED
      BY <3>1, <3>2, <3>3 DEF VisitOf
  <2>4. Len(requests) \in Nat /\ DOMAIN requests = 1 .. Len(requests)
    <3> HIDE DEF Pairs
    <3> QED
      BY <2>2
  <2> QED
    BY <2>3, <2>4 DEF IsAsked
<1>4. TypeInv
  BY <1>1, <1>2 DEF TypeInv
<1>5. TspInv
  BY <1>1, <1>3 DEF TspInv
<1>6. TspiInv
  BY <1>1 DEF TspiInv
<1>7. SolvedInv /\ GenomesInv
  BY <1>1 DEF SolvedInv, GenomesInv
<1>8. SavingsAddUp
  <2>1. PICK r : r = route
    OBVIOUS
  <2>2. r \in Seq(Nodes)
    BY <1>1, <2>1
  <2>3. TotalDistance(r) \in Nat
    BY <2>2, LegsType
  <2> QED
    BY <1>1, <2>1, <2>3 DEF SavingsAddUp
<1>9. TwoOptInv
  BY <1>1, <1>8 DEF TwoOptInv, LocalOptimum
<1> QED
  BY <1>4, <1>5, <1>6, <1>7, <1>9 DEF TourInv

\* Every step keeps it.
LEMMA StepKeeps == TourInv /\ [Next]_vars => TourInv'
<1> SUFFICES ASSUME TourInv, [Next]_vars PROVE TourInv'
  OBVIOUS
<1>1. CASE TspStep /\ UNCHANGED settings
  BY <1>1, TspNewKeeps, TspSolveTrivialKeeps, TspSolveSmallKeeps, TspSolveKeeps,
     TspSweepKeeps, TspEducateKeeps DEF TspStep
<1>2. CASE TspiStep /\ UNCHANGED requests
  BY <1>2, TspiNewKeeps, TspiSetKeeps, TspiSolveKeeps, TspiSolveFailsKeeps,
     TspiSolveAbortsKeeps, TspiSweepKeeps DEF TspiStep
<1>3. CASE (\/ RandomPermutation \/ Crossover \/ CrossoverAborts \/ EvolEnds
            \/ TwoOptStep) /\ UNCHANGED <<requests, settings>>
  BY <1>3, RandomPermutationKeeps, CrossoverKeeps, CrossoverAbortsKeeps, EvolEndsKeeps,
     ReverseImprovingKeeps, ReverseAbortsKeeps, EndScanKeeps DEF TwoOptStep
<1>4. CASE UNCHANGED vars
  <2>1. /\ UNCHANGED <<solver, start_node, end_node, template, unfixed_begin, unfixed_end,
                       genomes, original, route, cursor, improved, saving, solves, pc,
                       requests, num_nodes, coords>>
    BY <1>4 DEF vars, ends, window, search, settings
  <2>2. TypeInv /\ TspInv /\ TspiInv /\ SolvedInv /\ GenomesInv /\ TwoOptInv
    BY DEF TourInv
  <2>3. ToursAsked' = ToursAsked /\ Mixed' = Mixed /\ \A r : Good(r)' <=> Good(r)
    BY <2>1, SameGood
  <2>4. TypeInv'
    BY <2>1, <2>2 DEF TypeInv
  <2>5. TspInv'
    BY <2>1, <2>2 DEF TspInv, Nothing
  <2>6. TspiInv'
    BY <2>1, <2>2, <2>3 DEF TspiInv
  <2>7. SolvedInv' /\ GenomesInv'
    BY <2>1, <2>2, <2>3 DEF SolvedInv, Broken, GenomesInv, NotAssessable
  <2>8. (Good(route))' <=> Good(route)
    BY <2>1, <2>2 DEF Good, Mixed, ToursAsked, Others, Visits
  <2>9. TwoOptInv'
    BY <2>1, <2>2, <2>8 DEF TwoOptInv, NotAssessable, SavingsAddUp, LocalOptimum
  <2> QED
    BY <2>4, <2>5, <2>6, <2>7, <2>9 DEF TourInv
<1> QED
  BY <1>1, <1>2, <1>3, <1>4 DEF Next

-----------------------------------------------------------------------------
(***************************************************************************)
(* The theorems                                                            *)
(***************************************************************************)

\* The inductive invariant holds in every run of the two solvers.
THEOREM ToursInvariant == Spec => []TourInv
<1>1. Init => TourInv
  BY InitKeeps
<1>2. TourInv /\ [Next]_vars => TourInv'
  BY StepKeeps
<1> QED
  BY <1>1, <1>2, PTL DEF Spec

\* Whatever the solvers do, the saving 2-opt has added up (cost of tsp.c and
\* tspi.c) is the difference of the two distances.
THEOREM SavingsAreExact == Spec => []SavingsAddUp
<1>1. TourInv => SavingsAddUp
  BY DEF TourInv, TwoOptInv
<1> QED
  BY <1>1, ToursInvariant, PTL

\* A finished 2-opt leaves no improving reversal between the fixed ends, although
\* tspi_2_opt goes on behind an improvement and tsp_2_opt starts again.
THEOREM TwoOptIsLocalOptimum == Spec => []LocalOptimum
<1>1. TourInv => LocalOptimum
  BY DEF TourInv, TwoOptInv
<1> QED
  BY <1>1, ToursInvariant, PTL

\* If the template is a tour, then every genome and every result is.
LEMMA GoodToursSound ==
  ASSUME TourInv
  PROVE  ToursSound
<1>1. TypeInv /\ TspInv /\ TspiInv /\ SolvedInv /\ GenomesInv /\ TwoOptInv
  BY DEF TourInv
<1>2. template \in Seq(Nodes)
  BY <1>1 DEF TypeInv
<1> SUFFICES ASSUME IsTour(template)
             PROVE  /\ \A r \in genomes : IsTour(r)
                    /\ pc \in {"2_opt", "done"} /\ route # <<>> => IsTour(route)
  BY DEF ToursSound
<1>3. template \in ToursAsked
  BY <1>1, <1>2, TourAsked
<1>4. ASSUME NEW r, Good(r) PROVE IsTour(r)
  <2>1. r \in Seq(Nodes) /\ r \in ToursAsked
    BY <1>3, <1>4 DEF Good
  <2> QED
    BY <1>1, <2>1, TourAsked
<1>5. \A r \in genomes : IsTour(r)
  BY <1>1, <1>4 DEF GenomesInv
<1>6. pc \in {"2_opt", "done"} /\ route # <<>> => IsTour(route)
  <2>1. pc \in {"2_opt", "done"} /\ route # <<>> => Good(route)
    BY <1>1 DEF TwoOptInv
  <2> QED
    BY <1>4, <2>1
<1> QED
  BY <1>5, <1>6

\* No callback of the evolution and no reversal loses a node or moves a fixed end,
\* for any set of nodes, in either solver, however often it is called.
THEOREM ToursStayTours == Spec => []ToursSound
<1>1. TourInv => ToursSound
  BY GoodToursSound
<1> QED
  BY <1>1, ToursInvariant, PTL

\* The requests of a generic model by their numbers.
LEMMA AskedVisits ==
  ASSUME IsAsked(requests)
  PROVE  /\ (Visits \cup {start_node, end_node}) \ {ID_NONE}
              = NodesAsked(start_node, end_node, requests)
         /\ (\E k, l \in DOMAIN requests :
               /\ k < l
               /\ VisitOf(requests[k]) = end_node
               /\ VisitOf(requests[l]) \notin {start_node, end_node}
               /\ \A m \in 1 .. l - 1 : VisitOf(requests[m]) # VisitOf(requests[l]))
              <=> NamedLater(start_node, end_node, requests, Len(requests))
<1>1. DOMAIN requests = 1 .. Len(requests)
  BY DEF IsAsked
<1>2. Visits = {VisitOf(requests[m]) : m \in 1 .. Len(requests)}
  BY <1>1 DEF Visits
<1> QED
  BY <1>1, <1>2 DEF NodesAsked, NamedLater

\* What the invariant says of the assertions.
LEMMA AbortsAsStated ==
  ASSUME TourInv
  PROVE  AbortsExactly
<1>1. TypeInv /\ TspInv /\ TspiInv /\ SolvedInv /\ GenomesInv /\ TwoOptInv
  BY DEF TourInv
<1> DEFINE nodes == (Visits \cup {start_node, end_node}) \ {ID_NONE}
           nothing == /\ start_node # ID_NONE
                      /\ Cardinality(nodes) = (IF end_node = ID_NONE THEN 1 ELSE 2)
           moved == start_node # end_node /\ end_node # num_nodes - 1
           mixed == start_node = end_node /\ coords # "none"
<1>2. solver = "tsp" => (nothing <=> Nothing)
  <2> SUFFICES ASSUME solver = "tsp" PROVE nothing <=> Nothing
    OBVIOUS
  <2>1. nodes = NodesAsked(start_node, end_node, requests)
    BY <1>1, AskedVisits DEF TspInv
  <2>2. 1 + Fixed(end_node) = IF end_node = ID_NONE THEN 1 ELSE 2
    BY DEF Fixed
  <2> QED
    BY <2>1, <2>2 DEF Nothing
<1> HIDE DEF nothing
<1>3. solver = "tsp" /\ pc \in {"done", "aborted"} => (pc = "aborted" <=> nothing)
  BY <1>1, <1>2 DEF TspInv
<1>4. ASSUME solver = "tspi", pc = "done"
      PROVE  /\ ID_NONE \notin {start_node, end_node} /\ TotalDistance(original) > 0
             /\ ~(solves > 1 /\ moved)
  <2>1. solves \in Nat /\ solves > 0
    BY <1>1, <1>4 DEF TypeInv, TspiInv
  <2>2. ID_NONE \notin {start_node, end_node} /\ ~(solves > 1 /\ moved)
    BY <1>1, <1>4, <2>1 DEF SolvedInv
  <2>3. TotalDistance(original) # 0
    BY <1>1, <1>4 DEF TwoOptInv, NotAssessable
  <2>4. TotalDistance(original) \in Nat
    BY <1>1, LegsType DEF TypeInv
  <2> QED
    BY <2>2, <2>3, <2>4
<1>5. ASSUME solver = "tspi", pc = "aborted"
      PROVE  \/ ID_NONE \in {start_node, end_node}
             \/ \E r \in genomes : TotalDistance(r) = 0
             \/ solves > 1 /\ (moved \/ mixed)
  <2>1. Broken
    BY <1>1, <1>5 DEF SolvedInv
  <2>2. \A r : NotAssessable(r) => TotalDistance(r) = 0
    BY DEF NotAssessable
  <2> QED
    BY <2>1, <2>2 DEF Broken, Mixed
<1> HIDE DEF moved, mixed
<1> QED
  BY <1>3, <1>4, <1>5 DEF AbortsExactly, nothing, moved, mixed

\* The assertion of tsp_new_from_generic fails for exactly the models described.
\* Those of tspi_t, the cost of 0 of tspi_fitness included, fail for nothing else
\* than what is listed, in whatever call, and no model with an open end, and none
\* whose end has moved, is ever solved.
THEOREM AbortsAreExact == Spec => []AbortsExactly
<1>1. TourInv => AbortsExactly
  BY AbortsAsStated
<1> QED
  BY <1>1, ToursInvariant, PTL

\* What the invariant says of the template.
LEMMA TemplatesAsStated ==
  ASSUME TourInv
  PROVE  RegularExactly
<1>1. TypeInv /\ TspInv /\ TspiInv /\ SolvedInv
  BY DEF TourInv
<1> DEFINE node(k) == VisitOf(requests[k])
           named == \E k, l \in DOMAIN requests :
                      /\ k < l
                      /\ node(k) = end_node /\ node(l) \notin {start_node, end_node}
                      /\ \A m \in 1 .. l - 1 : node(m) # node(l)
           broken == end_node # ID_NONE /\ (end_node = start_node \/ named)
           intact == \/ solves = 1
                     \/ start_node # end_node /\ (start_node = 0 \/ solves % 2 = 1)
<1>2. IsTour(template) <=> template \in ToursAsked
  BY <1>1, TourAsked DEF TypeInv
<1>3. solver = "tsp" /\ Constructed => (template \in ToursAsked <=> ~broken)
  <2> SUFFICES ASSUME solver = "tsp", Constructed
               PROVE  template \in ToursAsked <=> ~broken
    OBVIOUS
  <2>1. IsAsked(requests) /\ IsTemplate(template, start_node, end_node, requests)
    BY <1>1 DEF TspInv, Constructed
  <2>2. broken <=> EndMissed(start_node, end_node, requests)
    BY <2>1, AskedVisits DEF EndMissed
  <2>3. Others = NodesAsked(start_node, end_node, requests) \ {start_node, end_node}
    BY <1>1, OthersFacts
  <2> QED
    BY <2>1, <2>2, <2>3 DEF IsTemplate, ToursAsked
<1>4. ASSUME solver = "tspi", Constructed, solves > 0
      PROVE  template \in ToursAsked <=> intact
  <2>1. CASE solves = 1
    BY <1>1, <1>4, <2>1 DEF TspiInv
  <2>2. CASE solves # 1
    <3> DEFINE n == num_nodes
               s == start_node
               e == end_node
    <3>1. solves \in Nat /\ solves > 1 /\ pc \notin {"build", "aborted"}
      BY <1>1, <1>4, <2>2 DEF TypeInv, Constructed
    <3>2. /\ n \in Nat /\ n > 2 /\ 0 .. n - 1 \subseteq Nodes /\ template \in Seq(Nodes)
          /\ s \in 0 .. n - 1 /\ e \in 0 .. n - 1
          /\ s = e \/ e = n - 1
          /\ IsResolved(template, s, e, n, solves)
      BY <1>1, <1>4, <3>1 DEF TypeInv, TspiInv, SolvedInv
    <3>3. template \in Tours(s, e, (0 .. n - 1) \ {s, e})
            <=> s # e /\ (s = 0 \/ solves % 2 = 1)
      <4>1. PICK x, y : x = s /\ y = e
        OBVIOUS
      <4>2. template \in Tours(x, y, (0 .. num_nodes - 1) \ {x, y})
              <=> x # y /\ (x = 0 \/ solves % 2 = 1)
        BY <3>1, <3>2, <4>1, ResolvedTour
      <4> QED
        BY <4>1, <4>2
    <3>4. Others = (0 .. n - 1) \ {s, e}
      BY <1>4 DEF Others
    <3> QED
      BY <2>2, <3>3, <3>4 DEF ToursAsked
  <2> QED
    BY <2>1, <2>2
<1>5. solver = "tsp" \/ solver = "tspi"
  BY <1>1 DEF TypeInv
<1> HIDE DEF broken, intact
<1>6. Constructed /\ solves > 0 =>
        (IsTour(template) <=> IF solver = "tsp" THEN ~broken ELSE intact)
  BY <1>2, <1>3, <1>4, <1>5
<1> QED
  BY <1>6 DEF RegularExactly, broken, intact

\* The comment of tsp_new_from_generic holds for exactly the requests described,
\* and that of tspi_regularize_template for exactly the calls described.
THEOREM TemplatesAreExact == Spec => []RegularExactly
<1>1. TourInv => RegularExactly
  BY TemplatesAsStated
<1> QED
  BY <1>1, ToursInvariant, PTL
==============================================================================
