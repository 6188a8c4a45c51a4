--------------------------- MODULE SequenceFacts ---------------------------
(***************************************************************************)
(* Facts about the sequence operators of the community modules that the    *)
(* proofs about the models need: the C code's lists are sequences here.    *)
(* The second half is about sums along a list and the induction over the   *)
(* positions of a list that they rest on.  The library's induction theorem *)
(* has an operator for a parameter; the one here speaks of sets instead    *)
(* and follows from the well-foundedness of < on the natural numbers.      *)
(* The last part is about the routes that a savings heuristic keeps in two *)
(* arrays.                                                                 *)
(***************************************************************************)
EXTENDS Sums, ImplicitRoutes, SequencesExt, SequenceTheorems,
        FiniteSetTheorems, WellFoundedInduction, TLAPS

\* Inserting into a list makes it one longer, puts the new element at the asked
\* position and shifts those from there on.
LEMMA InsertAtProperties ==
  ASSUME NEW S, NEW s \in Seq(S), NEW p \in 1 .. Len(s) + 1, NEW x \in S
  PROVE  /\ InsertAt(s, p, x) \in Seq(S)
         /\ Len(InsertAt(s, p, x)) = Len(s) + 1
         /\ \A i \in 1 .. Len(s) + 1 :
              InsertAt(s, p, x)[i] =
                IF i < p THEN s[i] ELSE IF i = p THEN x ELSE s[i - 1]
<1> DEFINE front == SubSeq(s, 1, p - 1)
           back  == SubSeq(s, p, Len(s))
           most  == front \o <<x>>
<1>1. Len(s) \in Nat /\ p \in Int /\ p >= 1 /\ p <= Len(s) + 1
  OBVIOUS
<1>2. /\ front \in Seq(S) /\ Len(front) = p - 1
      /\ \A i \in 1 .. p - 1 : front[i] = s[i]
  BY <1>1
<1>3. /\ back \in Seq(S) /\ Len(back) = Len(s) - p + 1
      /\ \A i \in 1 .. Len(s) - p + 1 : back[i] = s[i + p - 1]
  BY <1>1
<1>4. InsertAt(s, p, x) = most \o back
  BY DEF InsertAt
<1>5. /\ most \in Seq(S) /\ Len(most) = p
      /\ \A i \in 1 .. p : most[i] = IF i < p THEN s[i] ELSE x
  BY <1>1, <1>2
<1> HIDE DEF back, most
<1>6. /\ most \o back \in Seq(S) /\ Len(most \o back) = Len(s) + 1
      /\ \A i \in 1 .. Len(s) + 1 :
           (most \o back)[i] = IF i <= p THEN most[i] ELSE back[i - p]
  <2>1. /\ most \o back \in Seq(S) /\ Len(most \o back) = Len(most) + Len(back)
        /\ \A i \in 1 .. Len(most) + Len(back) :
             (most \o back)[i] =
               IF i <= Len(most) THEN most[i] ELSE back[i - Len(most)]
    BY <1>3, <1>5, ConcatProperties
  <2> QED
    BY <1>1, <1>3, <1>5, <2>1
<1> QED
  BY <1>1, <1>3, <1>4, <1>5, <1>6

\* Removing from a list makes it one shorter and moves up those behind.
LEMMA RemoveAtProperties ==
  ASSUME NEW S, NEW s \in Seq(S), NEW p \in 1 .. Len(s)
  PROVE  /\ RemoveAt(s, p) \in Seq(S)
         /\ Len(RemoveAt(s, p)) = Len(s) - 1
         /\ \A i \in 1 .. Len(s) - 1 :
              RemoveAt(s, p)[i] = IF i < p THEN s[i] ELSE s[i + 1]
<1> DEFINE front == SubSeq(s, 1, p - 1)
           back  == SubSeq(s, p + 1, Len(s))
<1>1. Len(s) \in Nat /\ p \in Int /\ p >= 1 /\ p <= Len(s)
  OBVIOUS
<1>2. /\ front \in Seq(S) /\ Len(front) = p - 1
      /\ \A i \in 1 .. p - 1 : front[i] = s[i]
  BY <1>1
<1>3. /\ back \in Seq(S) /\ Len(back) = Len(s) - p
      /\ \A i \in 1 .. Len(s) - p : back[i] = s[i + p]
  BY <1>1
<1>4. RemoveAt(s, p) = front \o back
  BY DEF RemoveAt
<1> HIDE DEF front, back
<1>5. /\ front \o back \in Seq(S) /\ Len(front \o back) = Len(s) - 1
      /\ \A i \in 1 .. Len(s) - 1 :
           (front \o back)[i] = IF i <= p - 1 THEN front[i] ELSE back[i - (p - 1)]
  <2>1. /\ front \o back \in Seq(S)
        /\ Len(front \o back) = Len(front) + Len(back)
        /\ \A i \in 1 .. Len(front) + Len(back) :
             (front \o back)[i] =
               IF i <= Len(front) THEN front[i] ELSE back[i - Len(front)]
    BY <1>2, <1>3, ConcatProperties
  <2> QED
    BY <1>1, <1>2, <1>3, <2>1
<1>6. ASSUME NEW i \in 1 .. Len(s) - 1
      PROVE  (front \o back)[i] = IF i < p THEN s[i] ELSE s[i + 1]
  <2>1. CASE i < p
    BY <2>1, <1>1, <1>2, <1>5
  <2>2. CASE i >= p
    <3>1. /\ i - (p - 1) \in 1 .. Len(s) - p /\ ~(i <= p - 1)
          /\ i - (p - 1) + p = i + 1
      BY <2>2, <1>1
    <3> QED
      BY <2>2, <3>1, <1>1, <1>3, <1>5
  <2>3. i < p \/ i >= p
    BY <1>1
  <2> QED
    BY <2>1, <2>2, <2>3
<1> QED
  BY <1>1, <1>4, <1>5, <1>6

\* Removing what was just inserted gives back the list.
LEMMA RemoveInserted ==
  ASSUME NEW S, NEW s \in Seq(S), NEW p \in 1 .. Len(s) + 1, NEW x \in S
  PROVE  RemoveAt(InsertAt(s, p, x), p) = s
<1> DEFINE t == InsertAt(s, p, x)
<1>1. /\ t \in Seq(S) /\ Len(t) = Len(s) + 1 /\ Len(s) \in Nat
      /\ \A i \in 1 .. Len(s) + 1 :
           t[i] = IF i < p THEN s[i] ELSE IF i = p THEN x ELSE s[i - 1]
  BY InsertAtProperties
<1> HIDE DEF t
<1>2. /\ RemoveAt(t, p) \in Seq(S) /\ Len(RemoveAt(t, p)) = Len(s)
      /\ \A i \in 1 .. Len(s) :
           RemoveAt(t, p)[i] = IF i < p THEN t[i] ELSE t[i + 1]
  <2>1. p \in 1 .. Len(t) /\ Len(t) - 1 = Len(s)
    BY <1>1
  <2> QED
    BY <1>1, <2>1, RemoveAtProperties
<1>3. ASSUME NEW i \in 1 .. Len(s)
      PROVE  RemoveAt(t, p)[i] = s[i]
  <2>1. i \in 1 .. Len(s) + 1 /\ i + 1 \in 1 .. Len(s) + 1 /\ i + 1 - 1 = i
    BY <1>1
  <2>2. CASE i < p
    BY <2>1, <2>2, <1>1, <1>2
  <2>3. CASE i >= p
    BY <2>1, <2>3, <1>1, <1>2
  <2> QED
    BY <2>1, <2>2, <2>3, <1>1
<1> QED
  BY <1>2, <1>3, SeqEqual DEF t

\* A list with one more element at its end contains that element and what it
\* contained before.
LEMMA ContainsAppend ==
  ASSUME NEW S, NEW s \in Seq(S), NEW x \in S, NEW y
  PROVE  Contains(Append(s, x), y) <=> Contains(s, y) \/ y = x
<1> DEFINE t == Append(s, x)
           n == Len(s)
<1>1. n \in Nat /\ Len(t) = n + 1 /\ t[n + 1] = x
      /\ \A i \in 1 .. n : t[i] = s[i]
  OBVIOUS
<1>2. 1 .. n + 1 = (1 .. n) \cup {n + 1}
  BY <1>1
<1> HIDE DEF t, n
<1>3. (\E i \in 1 .. n + 1 : t[i] = y) <=> (\E i \in 1 .. n : s[i] = y) \/ y = x
  BY <1>1, <1>2
<1> QED
  BY <1>1, <1>3 DEF Contains, t, n

\* The elements of two sequences one after the other.
LEMMA ConcatElements ==
  ASSUME NEW S, NEW r \in Seq(S), NEW s \in Seq(S)
  PROVE  /\ r \o s \in Seq(S) /\ Len(r \o s) = Len(r) + Len(s)
         /\ \A k \in 1 .. Len(r) : (r \o s)[k] = r[k]
         /\ \A k \in 1 .. Len(s) : (r \o s)[Len(r) + k] = s[k]
         /\ \A k \in 1 .. Len(r) + Len(s) :
              k \in 1 .. Len(r) \/ \E m \in 1 .. Len(s) : k = Len(r) + m
<1>1. Len(r) \in Nat /\ Len(s) \in Nat
  OBVIOUS
<1>2. r \o s \in Seq(S) /\ Len(r \o s) = Len(r) + Len(s)
  OBVIOUS
<1>3. \A k \in 1 .. Len(r) : (r \o s)[k] = r[k]
  OBVIOUS
<1>4. \A k \in 1 .. Len(s) : (r \o s)[Len(r) + k] = s[k]
  OBVIOUS
<1>5. ASSUME NEW k \in 1 .. Len(r) + Len(s), k \notin 1 .. Len(r)
      PROVE  \E m \in 1 .. Len(s) : k = Len(r) + m
  <2>1. k - Len(r) \in 1 .. Len(s) /\ k = Len(r) + (k - Len(r))
    BY <1>1, <1>5
  <2> QED
    BY <2>1
<1> QED
  BY <1>2, <1>3, <1>4, <1>5

\* A list with an element before its first one.
LEMMA ConsElements ==
  ASSUME NEW S, NEW s \in Seq(S), NEW x \in S
  PROVE  /\ <<x>> \o s \in Seq(S) /\ Len(<<x>> \o s) = Len(s) + 1
         /\ (<<x>> \o s)[1] = x
         /\ \A k \in 1 .. Len(s) : (<<x>> \o s)[k + 1] = s[k]
<1> DEFINE d == <<x>>
<1>1. Len(d) = 1 /\ d[1] = x /\ Len(s) \in Nat
  OBVIOUS
<1>5. d \in Seq(S)
  OBVIOUS
<1> HIDE DEF d
<1>2. /\ d \o s \in Seq(S) /\ Len(d \o s) = Len(d) + Len(s)
      /\ \A k \in 1 .. Len(d) : (d \o s)[k] = d[k]
      /\ \A k \in 1 .. Len(s) : (d \o s)[Len(d) + k] = s[k]
  BY ONLY <1>5, s \in Seq(S), ConcatElements
<1>3. ASSUME NEW k \in 1 .. Len(s) PROVE (d \o s)[k + 1] = s[k]
  <2>1. Len(d) + k = k + 1
    BY <1>1
  <2> QED
    BY <1>2, <2>1
<1>4. (d \o s)[1] = x /\ Len(d \o s) = Len(s) + 1
  BY <1>1, <1>2
<1> QED
  BY <1>2, <1>3, <1>4 DEF d

\* Appending an element a duplicate-free list does not contain keeps it
\* duplicate-free.
LEMMA InjectiveAppend ==
  ASSUME NEW S, NEW s \in Seq(S), NEW x \in S, IsInjective(s), ~Contains(s, x)
  PROVE  IsInjective(Append(s, x))
BY DEF Contains, IsInjective

-----------------------------------------------------------------------------
(***************************************************************************)
(* Induction                                                               *)
(***************************************************************************)

\* A non-empty set of natural numbers has a smallest member.
LEMMA LeastMember ==
  ASSUME NEW S, S \subseteq Nat, S # {}
  PROVE  \E x \in S : \A y \in S : x <= y
<1> DEFINE R == OpToRel(<, Nat)
<1>1. \A x, y \in Nat : <<x, y>> \in R <=> x < y
  BY DEF OpToRel
<1>2. IsWellFoundedOn(R, Nat)
  BY NatLessThanWellFounded
<1> HIDE DEF R
<1>3. \E x \in S : \A y \in S : ~(<<y, x>> \in R)
  BY <1>2, WFMin
<1>4. PICK x \in S : \A y \in S : ~(<<y, x>> \in R)
  BY <1>3
<1>5. ASSUME NEW y \in S PROVE x <= y
  <2>1. x \in Nat /\ y \in Nat /\ ~(<<y, x>> \in R)
    BY <1>4
  <2>2. ~(y < x)
    BY <1>1, <2>1
  <2> QED
    BY ONLY <2>1, <2>2
<1> QED
  BY <1>5

\* A set of natural numbers with 0 and the successor of each of its members is
\* the set of all natural numbers.
LEMMA SetInduction ==
  ASSUME NEW S, S \subseteq Nat, 0 \in S, \A n \in S : n + 1 \in S
  PROVE  S = Nat
<1> SUFFICES ASSUME Nat \ S # {} PROVE FALSE
  OBVIOUS
<1>4. PICK x \in Nat \ S : \A y \in Nat \ S : x <= y
  <2> DEFINE T == Nat \ S
  <2>1. T \subseteq Nat /\ T # {}
    OBVIOUS
  <2> HIDE DEF T
  <2>2. \E x \in T : \A y \in T : x <= y
    BY <2>1, LeastMember
  <2> QED
    BY <2>2 DEF T
<1>5. x - 1 \in Nat /\ x - 1 < x /\ x - 1 + 1 = x
  OBVIOUS
<1> QED
  BY <1>4, <1>5

\* The same for the members of an interval that starts at 0.
LEMMA IntervalInduction ==
  ASSUME NEW n \in Nat, NEW S, 0 \in S,
         \A k \in 0 .. n - 1 : k \in S => k + 1 \in S
  PROVE  0 .. n \subseteq S
<1> DEFINE T == {k \in Nat : k <= n => k \in S}
<1>1. 0 \in T
  OBVIOUS
<1>2. ASSUME NEW k \in T PROVE k + 1 \in T
  <2>1. k + 1 <= n => k \in 0 .. n - 1 /\ k \in S
    OBVIOUS
  <2> QED
    BY <2>1
<1>3. T = Nat
  <2>1. T \subseteq Nat
    OBVIOUS
  <2> HIDE DEF T
  <2> QED
    BY <1>1, <1>2, <2>1, SetInduction
<1> QED
  BY <1>3

\* The values of a variable that starts with a and is given a new value in each
\* of the n rounds of a loop.
Iterates(f, n, a, step) ==
  f[0] = a /\ \A k \in 1 .. n : f[k] = step[k][f[k - 1]]

\* Such a loop computes something.
LEMMA Iteration ==
  ASSUME NEW n \in Nat, NEW T, NEW a \in T, NEW step \in [1 .. n -> [T -> T]]
  PROVE  \E f \in [0 .. n -> T] : Iterates(f, n, a, step)
<1> DEFINE S == {m \in 0 .. n : \E f \in [0 .. m -> T] : Iterates(f, m, a, step)}
<1>1. 0 \in S
  <2> DEFINE g == [k \in 0 .. 0 |-> a]
  <2>1. g \in [0 .. 0 -> T]
    OBVIOUS
  <2>2. Iterates(g, 0, a, step)
    BY DEF Iterates
  <2>3. 0 \in 0 .. n
    OBVIOUS
  <2> HIDE DEF g
  <2> QED
    BY <2>1, <2>2, <2>3
<1>2. ASSUME NEW m \in 0 .. n - 1, m \in S PROVE m + 1 \in S
  <2>1. PICK f \in [0 .. m -> T] : Iterates(f, m, a, step)
    BY <1>2
  <2> DEFINE g == [k \in 0 .. m + 1 |-> IF k <= m THEN f[k] ELSE step[m + 1][f[m]]]
  <2>2. /\ m + 1 \in 1 .. n /\ f[m] \in T
        /\ \A k \in 0 .. m : f[k] \in T
    OBVIOUS
  <2>8. step[m + 1] \in [T -> T]
    BY <2>2
  <2>9. step[m + 1][f[m]] \in T
    BY <2>2, <2>8
  <2>3. g \in [0 .. m + 1 -> T]
    BY <2>2, <2>9
  <2>4. g[0] = a
    BY <2>1 DEF Iterates
  <2>5. ASSUME NEW k \in 1 .. m + 1 PROVE g[k] = step[k][g[k - 1]]
    <3>1. CASE k <= m
      <4>1. k \in 1 .. m /\ k - 1 \in 0 .. m /\ k - 1 \in 0 .. m + 1 /\ k - 1 <= m
        BY <3>1
      <4>2. g[k] = f[k] /\ g[k - 1] = f[k - 1]
        BY <3>1, <4>1
      <4>3. f[k] = step[k][f[k - 1]]
        BY <2>1, <4>1 DEF Iterates
      <4> QED
        BY <4>2, <4>3
    <3>2. CASE k = m + 1
      <4>1. k - 1 = m /\ m \in 0 .. m + 1 /\ ~(m + 1 <= m)
        BY <3>2
      <4>2. g[k] = step[m + 1][f[m]] /\ g[m] = f[m]
        BY <3>2, <4>1
      <4> QED
        BY <3>2, <4>1, <4>2
    <3> QED
      BY <3>1, <3>2
  <2>6. Iterates(g, m + 1, a, step)
    BY <2>4, <2>5 DEF Iterates
  <2>7. m + 1 \in 0 .. n
    BY <2>2
  <2> HIDE DEF g
  <2> QED
    BY <2>7, <2>3, <2>6
<1>3. n \in S
  <2> HIDE DEF S
  <2>1. 0 .. n \subseteq S
    BY <1>1, <1>2, IntervalInduction
  <2> QED
    BY <2>1
<1> QED
  BY <1>3

\* Two functions that begin with the same number and change alike are the same.
LEMMA SameChanges ==
  ASSUME NEW n \in Nat, NEW f, NEW g,
         \A k \in 0 .. n : f[k] \in Int /\ g[k] \in Int,
         f[0] = g[0],
         \A k \in 1 .. n : f[k] - f[k - 1] = g[k] - g[k - 1]
  PROVE  \A k \in 0 .. n : f[k] = g[k]
<1> DEFINE S == {k \in 0 .. n : f[k] = g[k]}
<1>1. 0 \in S
  OBVIOUS
<1>2. ASSUME NEW k \in 0 .. n - 1, k \in S PROVE k + 1 \in S
  <2>1. k + 1 \in 1 .. n /\ k + 1 - 1 = k /\ k \in 0 .. n /\ k + 1 \in 0 .. n
    OBVIOUS
  <2>2. f[k + 1] - f[k] = g[k + 1] - g[k]
    BY <2>1
  <2>3. f[k] = g[k]
    BY <1>2
  <2>4. f[k + 1] \in Int /\ g[k + 1] \in Int /\ f[k] \in Int
    BY <2>1
  <2>5. f[k + 1] = g[k + 1]
    BY <2>2, <2>3, <2>4
  <2> QED
    BY <2>1, <2>5
<1> HIDE DEF S
<1>3. 0 .. n \subseteq S
  BY <1>1, <1>2, IntervalInduction
<1> QED
  BY <1>3 DEF S

-----------------------------------------------------------------------------
(***************************************************************************)
(* Sums                                                                    *)
(***************************************************************************)

\* SumsOf(list)[k] is the sum of the first k elements.
SumsOf(list) ==
  LET sums[k \in 0 .. Len(list)] == IF k = 0 THEN 0 ELSE sums[k - 1] + list[k]
  IN  sums

\* The sum of a list is the last of them.
LEMMA SumOfLast == \A list : SumOf(list) = SumsOf(list)[Len(list)]
BY DEF SumOf, SumsOf

\* The prefix sums of a list start at 0 and grow by the next element.
LEMMA SumsOfStep ==
  ASSUME NEW list \in Seq(Int)
  PROVE  /\ SumsOf(list) \in [0 .. Len(list) -> Int]
         /\ SumsOf(list)[0] = 0
         /\ \A k \in 1 .. Len(list) : SumsOf(list)[k] = SumsOf(list)[k - 1] + list[k]
<1> DEFINE Def(g) == g = [k \in 0 .. Len(list) |->
                            IF k = 0 THEN 0 ELSE g[k - 1] + list[k]]
           step == [k \in 1 .. Len(list) |-> [x \in Int |-> x + list[k]]]
<1>0. Len(list) \in Nat /\ \A k \in 1 .. Len(list) : list[k] \in Int
  OBVIOUS
<1>1. \E f \in [0 .. Len(list) -> Int] : Iterates(f, Len(list), 0, step)
  <2>1. step \in [1 .. Len(list) -> [Int -> Int]]
    BY <1>0
  <2> HIDE DEF step
  <2> QED
    BY ONLY <1>0, <2>1, 0 \in Int, Iteration
<1>2. PICK f \in [0 .. Len(list) -> Int] :
           f[0] = 0 /\ \A k \in 1 .. Len(list) : f[k] = f[k - 1] + list[k]
  <2>1. PICK f \in [0 .. Len(list) -> Int] :
           f[0] = 0 /\ \A k \in 1 .. Len(list) : f[k] = step[k][f[k - 1]]
    BY <1>1 DEF Iterates
  <2>2. ASSUME NEW k \in 1 .. Len(list) PROVE f[k] = f[k - 1] + list[k]
    <3>1. k - 1 \in 0 .. Len(list)
      BY <1>0
    <3>2. f[k - 1] \in Int
      BY <3>1
    <3> QED
      BY <2>1, <3>2
  <2> QED
    BY <2>1, <2>2
<1>3. Def(f)
  BY <1>2
<1>4. Def(SumsOf(list))
  BY <1>3 DEF SumsOf
<1> DEFINE g == SumsOf(list)
<1>7. g = [k \in 0 .. Len(list) |-> g[k]]
  <2> HIDE DEF g
  <2>1. Def(g)
    BY <1>4 DEF g
  <2> QED
    BY <2>1
<1>5. /\ g[0] = 0
      /\ \A k \in 1 .. Len(list) : g[k] = g[k - 1] + list[k]
  <2> HIDE DEF g
  <2>1. Def(g)
    BY <1>4 DEF g
  <2>3. \A k \in 0 .. Len(list) : g[k] = IF k = 0 THEN 0 ELSE g[k - 1] + list[k]
    BY <2>1
  <2>4. 0 \in 0 .. Len(list)
    BY <1>0
  <2>5. \A k \in 1 .. Len(list) : k \in 0 .. Len(list) /\ k # 0
    BY <1>0
  <2> QED
    BY <2>3, <2>4, <2>5
<1> HIDE DEF g
<1>6. 0 .. Len(list) \subseteq {k \in 0 .. Len(list) : g[k] \in Int}
  <2> DEFINE S == {k \in 0 .. Len(list) : g[k] \in Int}
  <2>1. 0 \in S
    BY <1>0, <1>5
  <2>2. ASSUME NEW k \in 0 .. Len(list) - 1, k \in S PROVE k + 1 \in S
    <3>1. k + 1 \in 1 .. Len(list) /\ k + 1 - 1 = k
      BY <1>0
    <3>2. g[k + 1] = g[k] + list[k + 1]
      BY <1>5, <3>1
    <3>3. g[k] \in Int /\ list[k + 1] \in Int
      BY <2>2, <3>1
    <3> QED
      BY <3>1, <3>2, <3>3
  <2> HIDE DEF S
  <2>3. 0 .. Len(list) \subseteq S
    BY <1>0, <2>1, <2>2, IntervalInduction
  <2> QED
    BY <2>3 DEF S
<1> QED
  BY <1>5, <1>6, <1>7 DEF g

\* The sum of a list of integers is one.
LEMMA SumOfInt ==
  ASSUME NEW list \in Seq(Int)
  PROVE  SumOf(list) \in Int
BY SumsOfStep, SumOfLast

\* The sum of a list of natural numbers is none below 0.
LEMMA SumOfNat ==
  ASSUME NEW list \in Seq(Nat)
  PROVE  SumOf(list) \in Nat
<1> DEFINE g == SumsOf(list)
<1>1. /\ Len(list) \in Nat /\ g[0] = 0
      /\ \A k \in 1 .. Len(list) : list[k] \in Nat /\ g[k] = g[k - 1] + list[k]
  <2>1. list \in Seq(Int)
    OBVIOUS
  <2> QED
    BY <2>1, SumsOfStep
<1> DEFINE S == {k \in 0 .. Len(list) : g[k] \in Nat}
<1> HIDE DEF g
<1>2. 0 \in S
  BY <1>1
<1>3. ASSUME NEW k \in 0 .. Len(list) - 1, k \in S PROVE k + 1 \in S
  <2>1. k + 1 \in 1 .. Len(list) /\ k + 1 - 1 = k
    BY <1>1
  <2>2. g[k + 1] = g[k] + list[k + 1] /\ list[k + 1] \in Nat
    BY <1>1, <2>1
  <2>3. g[k] \in Nat
    BY <1>3
  <2> QED
    BY <2>1, <2>2, <2>3
<1> HIDE DEF S
<1>4. 0 .. Len(list) \subseteq S
  BY <1>1, <1>2, <1>3, IntervalInduction
<1>5. g[Len(list)] \in Nat
  BY <1>1, <1>4 DEF S
<1> QED
  BY <1>5, SumOfLast DEF g

\* The sum of one element.
LEMMA SumOfOne ==
  ASSUME NEW list \in Seq(Int), Len(list) = 1
  PROVE  SumOf(list) = list[1]
<1>1. /\ SumsOf(list)[0] = 0 /\ list[1] \in Int
      /\ SumsOf(list)[1] = SumsOf(list)[1 - 1] + list[1]
  BY SumsOfStep
<1>2. SumsOf(list)[1] = list[1]
  BY <1>1
<1> QED
  BY <1>2, SumOfLast

\* Prefix sums only depend on the prefix.
LEMMA SumsOfPrefix ==
  ASSUME NEW s \in Seq(Int), NEW t \in Seq(Int), NEW n \in Nat,
         n <= Len(s), n <= Len(t), \A k \in 1 .. n : s[k] = t[k]
  PROVE  \A k \in 0 .. n : SumsOf(s)[k] = SumsOf(t)[k]
<1> DEFINE f == SumsOf(s)
           g == SumsOf(t)
<1>1. /\ f \in [0 .. Len(s) -> Int] /\ f[0] = 0
      /\ \A k \in 1 .. Len(s) : f[k] = f[k - 1] + s[k]
  BY SumsOfStep
<1>2. /\ g \in [0 .. Len(t) -> Int] /\ g[0] = 0
      /\ \A k \in 1 .. Len(t) : g[k] = g[k - 1] + t[k]
  BY SumsOfStep
<1> HIDE DEF f, g
<1>3. \A k \in 0 .. n : f[k] \in Int /\ g[k] \in Int
  <2>1. Len(s) \in Nat /\ Len(t) \in Nat
    OBVIOUS
  <2>2. f \in [0 .. Len(s) -> Int] /\ g \in [0 .. Len(t) -> Int]
    BY <1>1, <1>2
  <2>3. \A k \in 0 .. n : k \in 0 .. Len(s) /\ k \in 0 .. Len(t)
    BY <2>1
  <2> QED
    BY ONLY <2>2, <2>3
<1>4. ASSUME NEW k \in 1 .. n PROVE f[k] - f[k - 1] = g[k] - g[k - 1]
  <2>1. /\ k \in 1 .. Len(s) /\ k \in 1 .. Len(t)
        /\ k \in 0 .. n /\ k - 1 \in 0 .. n
    OBVIOUS
  <2>2. f[k] = f[k - 1] + s[k] /\ g[k] = g[k - 1] + s[k] /\ s[k] \in Int
    BY <1>1, <1>2, <2>1
  <2> QED
    BY <1>3, <2>1, <2>2
<1>5. \A k \in 0 .. n : f[k] = g[k]
  <2>1. n \in Nat /\ f[0] = g[0]
    BY <1>1, <1>2
  <2> QED
    BY ONLY <1>3, <1>4, <2>1, SameChanges
<1> QED
  BY <1>5 DEF f, g

\* The sum of two lists one after the other.
LEMMA SumOfConcat ==
  ASSUME NEW s \in Seq(Int), NEW t \in Seq(Int)
  PROVE  SumOf(s \o t) = SumOf(s) + SumOf(t)
<1> DEFINE u == s \o t
           m == Len(s)
           n == Len(t)
           f == SumsOf(u)
           g == SumsOf(t)
<1>1. /\ m \in Nat /\ n \in Nat /\ u \in Seq(Int) /\ Len(u) = m + n
      /\ \A k \in 1 .. m : u[k] = s[k]
      /\ \A k \in 1 .. n : u[m + k] = t[k]
  OBVIOUS
<1> HIDE DEF u
<1>2. /\ f \in [0 .. m + n -> Int] /\ f[0] = 0
      /\ \A k \in 1 .. m + n : f[k] = f[k - 1] + u[k]
  BY <1>1, SumsOfStep
<1>3. /\ g \in [0 .. n -> Int] /\ g[0] = 0
      /\ \A k \in 1 .. n : g[k] = g[k - 1] + t[k]
  BY SumsOfStep
<1>4. f[m] = SumOf(s)
  <2>1. m <= Len(u) /\ m <= Len(s) /\ m \in 0 .. m
    BY <1>1
  <2>2. \A k \in 0 .. m : SumsOf(u)[k] = SumsOf(s)[k]
    BY <1>1, <2>1, SumsOfPrefix
  <2> QED
    BY <2>1, <2>2, SumOfLast
<1> DEFINE h == [k \in 0 .. n |-> f[m + k] - f[m]]
<1> HIDE DEF f, g
<1>5. f[m] \in Int /\ \A k \in 0 .. n : f[m + k] \in Int
  <2>1. f \in [0 .. m + n -> Int] /\ m \in Nat /\ n \in Nat
    BY <1>1, <1>2
  <2>2. m \in 0 .. m + n /\ \A k \in 0 .. n : m + k \in 0 .. m + n
    BY <2>1
  <2> QED
    BY <2>1, <2>2
<1>6. \A k \in 0 .. n : h[k] \in Int /\ g[k] \in Int
  <2>1. g \in [0 .. n -> Int]
    BY <1>3
  <2> QED
    BY <1>5, <2>1
<1>7. h[0] = g[0]
  BY <1>1, <1>3, <1>5
<1>8. ASSUME NEW k \in 1 .. n PROVE h[k] - h[k - 1] = g[k] - g[k - 1]
  <2>1. /\ k \in 0 .. n /\ k - 1 \in 0 .. n /\ m + k \in 1 .. m + n
        /\ m + (k - 1) = m + k - 1
    BY <1>1
  <2>7. u[m + k] = t[k]
    BY <1>1
  <2>2. f[m + k] = f[m + k - 1] + u[m + k]
    <3> DEFINE j == m + k
    <3>1. j \in 1 .. m + n
      BY <2>1
    <3> HIDE DEF j
    <3>2. f[j] = f[j - 1] + u[j]
      BY <1>2, <3>1
    <3> QED
      BY <3>2 DEF j
  <2>3. g[k] = g[k - 1] + t[k] /\ t[k] \in Int
    BY <1>3
  <2>4. h[k] = f[m + k] - f[m] /\ h[k - 1] = f[m + (k - 1)] - f[m]
    BY ONLY <2>1
  <2>5. f[m + k] \in Int /\ f[m + (k - 1)] \in Int /\ g[k - 1] \in Int
    BY <1>5, <1>6, <2>1
  <2>6. f[m + (k - 1)] = f[m + k - 1]
    BY <2>1
  <2> HIDE DEF h
  <2>8. h[k] - h[k - 1] = t[k]
    <3>1. f[m + k] = f[m + (k - 1)] + t[k]
      BY ONLY <2>2, <2>6, <2>7
    <3>2. f[m] \in Int /\ t[k] \in Int
      BY <1>5, <2>3
    <3> QED
      BY ONLY <3>1, <3>2, <2>4, <2>5
  <2> QED
    BY <2>3, <2>5, <2>8
<1>9. n \in 0 .. n /\ h[n] = f[m + n] - f[m]
  BY <1>1
<1> HIDE DEF h
<1>10. \A k \in 0 .. n : h[k] = g[k]
  <2>1. n \in Nat
    BY <1>1
  <2> HIDE DEF n
  <2> QED
    BY ONLY <1>6, <1>7, <1>8, <2>1, SameChanges
<1>11. g[n] = f[m + n] - f[m]
  BY <1>9, <1>10
<1>12. g[n] = SumOf(t) /\ f[m + n] = SumOf(u)
  BY <1>1, SumOfLast DEF f, g
<1>13. g[n] \in Int /\ f[m + n] \in Int
  BY <1>5, <1>6, <1>9
<1> QED
  BY <1>4, <1>5, <1>11, <1>12, <1>13 DEF u

(***************************************************************************)
(* The weight of a list: the sum of what each of its elements weighs.      *)
(***************************************************************************)
Weights(w, s) == [k \in DOMAIN s |-> w[s[k]]]

WeighsAs(weights, w, s) ==
  /\ weights \in Seq(Nat) /\ weights \in Seq(Int)
  /\ Len(weights) = Len(s)
  /\ \A k \in 1 .. Len(s) : weights[k] = w[s[k]]

\* The weights of a list are natural numbers if those of the elements are.
LEMMA WeightsType ==
  ASSUME NEW S, NEW w \in [S -> Nat], NEW s \in Seq(S)
  PROVE  WeighsAs(Weights(w, s), w, s)
<1>1. DOMAIN s = 1 .. Len(s) /\ Len(s) \in Nat /\ \A k \in 1 .. Len(s) : s[k] \in S
  OBVIOUS
<1>2. Weights(w, s) = [k \in 1 .. Len(s) |-> w[s[k]]]
  BY <1>1 DEF Weights
<1>3. Weights(w, s) \in [1 .. Len(s) -> Nat]
  BY <1>1, <1>2
<1>4. \A k \in 1 .. Len(s) : Weights(w, s)[k] = w[s[k]]
  BY <1>2
<1>5. Weights(w, s) \in Seq(Nat) /\ Weights(w, s) \in Seq(Int) /\ Len(Weights(w, s)) = Len(s)
  <2> DEFINE a == Weights(w, s)
             n == Len(s)
  <2>1. a \in [1 .. n -> Nat] /\ n \in Nat
    BY <1>1, <1>3
  <2> HIDE DEF a, n
  <2>2. a \in Seq(Nat) /\ Len(a) = n
    BY ONLY <2>1
  <2>3. a \in Seq(Int)
    BY ONLY <2>2
  <2> QED
    BY <2>2, <2>3 DEF a, n
<1> QED
  BY <1>4, <1>5 DEF WeighsAs

\* The weight of a list is a natural number.
LEMMA WeightNat ==
  ASSUME NEW S, NEW w \in [S -> Nat], NEW s \in Seq(S)
  PROVE  SumOf(Weights(w, s)) \in Nat
BY WeightsType, SumOfNat DEF WeighsAs

\* The weight of a list with one element.
LEMMA WeightOne ==
  ASSUME NEW S, NEW w \in [S -> Nat], NEW x \in S
  PROVE  SumOf(Weights(w, <<x>>)) = w[x]
<1> DEFINE s == <<x>>
<1>1. s \in Seq(S) /\ Len(s) = 1 /\ s[1] = x
  OBVIOUS
<1> HIDE DEF s
<1>2. /\ Weights(w, s) \in Seq(Nat) /\ Weights(w, s) \in Seq(Int)
      /\ Len(Weights(w, s)) = Len(s)
      /\ \A k \in 1 .. Len(s) : Weights(w, s)[k] = w[s[k]]
  BY <1>1, WeightsType DEF WeighsAs
<1>3. Len(Weights(w, s)) = 1 /\ Weights(w, s)[1] = w[x]
  BY <1>1, <1>2
<1> QED
  BY <1>2, <1>3, SumOfOne DEF s

\* The weight of two lists one after the other.
LEMMA WeightConcat ==
  ASSUME NEW S, NEW w \in [S -> Nat], NEW s \in Seq(S), NEW t \in Seq(S)
  PROVE  SumOf(Weights(w, s \o t)) = SumOf(Weights(w, s)) + SumOf(Weights(w, t))
<1> DEFINE u == s \o t
           a == Weights(w, s)
           b == Weights(w, t)
           c == Weights(w, u)
<1>1. /\ u \in Seq(S) /\ Len(u) = Len(s) + Len(t)
      /\ \A k \in 1 .. Len(s) : u[k] = s[k]
      /\ \A k \in 1 .. Len(t) : u[Len(s) + k] = t[k]
      /\ \A k \in 1 .. Len(s) + Len(t) :
           k \in 1 .. Len(s) \/ \E m \in 1 .. Len(t) : k = Len(s) + m
  BY ConcatElements
<1>10. u \in Seq(S)
  BY <1>1
<1> HIDE DEF u
<1>2. /\ a \in Seq(Nat) /\ a \in Seq(Int) /\ Len(a) = Len(s)
      /\ \A k \in 1 .. Len(s) : a[k] = w[s[k]]
  <2>1. WeighsAs(a, w, s)
    BY WeightsType
  <2> QED
    BY <2>1 DEF WeighsAs
<1>3. /\ b \in Seq(Nat) /\ b \in Seq(Int) /\ Len(b) = Len(t)
      /\ \A k \in 1 .. Len(t) : b[k] = w[t[k]]
  <2>1. WeighsAs(b, w, t)
    BY WeightsType
  <2> QED
    BY <2>1 DEF WeighsAs
<1>11. /\ c \in Seq(Nat) /\ c \in Seq(Int) /\ Len(c) = Len(u)
       /\ \A k \in 1 .. Len(u) : c[k] = w[u[k]]
  <2>1. WeighsAs(c, w, u)
    BY <1>10, WeightsType
  <2> QED
    BY <2>1 DEF WeighsAs
<1> HIDE DEF a, b, c
<1>4. /\ c \in Seq(Int) /\ Len(c) = Len(s) + Len(t)
      /\ \A k \in 1 .. Len(s) + Len(t) : c[k] = w[u[k]]
  BY <1>1, <1>11
<1>5. Len(s) \in Nat /\ Len(t) \in Nat
  OBVIOUS
<1>12. /\ a \o b \in Seq(Int) /\ Len(a \o b) = Len(a) + Len(b)
       /\ \A k \in 1 .. Len(a) : (a \o b)[k] = a[k]
       /\ \A k \in 1 .. Len(b) : (a \o b)[Len(a) + k] = b[k]
  <2>1. a \in Seq(Int) /\ b \in Seq(Int)
    BY <1>2, <1>3
  <2> QED
    BY <2>1
<1>6. /\ a \o b \in Seq(Int) /\ Len(a \o b) = Len(s) + Len(t)
      /\ \A k \in 1 .. Len(s) : (a \o b)[k] = a[k]
      /\ \A k \in 1 .. Len(t) : (a \o b)[Len(s) + k] = b[k]
  BY <1>2, <1>3, <1>12
<1>7. ASSUME NEW k \in 1 .. Len(s) + Len(t) PROVE c[k] = (a \o b)[k]
  <2>1. CASE k \in 1 .. Len(s)
    BY ONLY <2>1, <1>1, <1>2, <1>4, <1>6, k \in 1 .. Len(s) + Len(t)
  <2>2. ASSUME NEW m \in 1 .. Len(t), k = Len(s) + m PROVE c[k] = (a \o b)[k]
    <3>1. u[k] = t[m] /\ b[m] = w[t[m]]
      BY <1>1, <1>3, <2>2
    <3>2. c[k] = w[u[k]]
      BY <1>4
    <3>3. (a \o b)[k] = b[m]
      BY <1>6, <2>2
    <3> QED
      BY <3>1, <3>2, <3>3
  <2> QED
    BY <1>1, <2>1, <2>2
<1>8. c = a \o b
  BY <1>4, <1>6, <1>7, SeqEqual
<1>9. SumOf(a \o b) = SumOf(a) + SumOf(b)
  BY <1>2, <1>3, SumOfConcat
<1> QED
  BY <1>8, <1>9 DEF a, b, c, u

-----------------------------------------------------------------------------
(***************************************************************************)
(* Sums and weights of lists that are edited                               *)
(***************************************************************************)

\* A list with the element at a position replaced.
Replaced(s, p, x) == [s EXCEPT ![p] = x]

\* A list around one of its positions, and what replacing the element there
\* and what removing it make of the list.
SplitsAround(S, s, p, x) ==
  /\ SubSeq(s, 1, p - 1) \in Seq(S) /\ Len(SubSeq(s, 1, p - 1)) = p - 1
  /\ p > 1 => SubSeq(s, 1, p - 1)[p - 1] = s[p - 1]
  /\ SubSeq(s, p + 1, Len(s)) \in Seq(S)
  /\ Len(SubSeq(s, p + 1, Len(s))) = Len(s) - p
  /\ p < Len(s) => SubSeq(s, p + 1, Len(s))[1] = s[p + 1]
  /\ Replaced(s, p, x) \in Seq(S) /\ Len(Replaced(s, p, x)) = Len(s)
  /\ Replaced(s, p, x)
       = (SubSeq(s, 1, p - 1) \o <<x>>) \o SubSeq(s, p + 1, Len(s))
  /\ RemoveAt(s, p) = SubSeq(s, 1, p - 1) \o SubSeq(s, p + 1, Len(s))

\* Every list splits around each of its positions.
LEMMA SplitList ==
  ASSUME NEW S, NEW s \in Seq(S), NEW p \in 1 .. Len(s), NEW x \in S
  PROVE  SplitsAround(S, s, p, x)
<1> DEFINE a == SubSeq(s, 1, p - 1)
           b == SubSeq(s, p + 1, Len(s))
           n == Len(s)
           t == [s EXCEPT ![p] = x]
           u == (a \o <<x>>) \o b
<1>1. n \in Nat /\ s \in [1 .. n -> S] /\ p \in 1 .. n
  OBVIOUS
<1>2. /\ a \in Seq(S) /\ Len(a) = p - 1
      /\ \A k \in 1 .. p - 1 : a[k] = s[k]
  <2>1. 1 \in 1 .. n + 1 /\ p - 1 \in 0 .. n /\ (p - 1) - 1 + 1 = p - 1
    BY <1>1
  <2> QED
    BY <1>1, <2>1
<1>3. /\ b \in Seq(S) /\ Len(b) = n - p
      /\ \A k \in 1 .. n - p : b[k] = s[p + k]
  <2>1. /\ p + 1 \in 1 .. n + 1 /\ n \in p .. n /\ n - (p + 1) + 1 = n - p
        /\ \A k \in 1 .. n - p : (p + 1) + k - 1 = p + k /\ p + k \in 1 .. n
    BY <1>1
  <2>2. b \in Seq(S) /\ Len(b) = n - p
    <3>1. \A k \in p + 1 .. n : s[k] \in S
      BY <1>1
    <3>2. b \in Seq(S) /\ Len(b) = IF p + 1 <= n THEN n - (p + 1) + 1 ELSE 0
      BY <1>1, <3>1, SubSeqProperties
    <3> HIDE DEF b, n
    <3> QED
      BY <1>1, <3>2
  <2>3. \A k \in 1 .. n - p : b[k] = s[(p + 1) + k - 1]
    BY <1>1, <2>1
  <2> QED
    BY <2>1, <2>2, <2>3
<1>4. t \in [1 .. n -> S] /\ t \in Seq(S) /\ Len(t) = n
  BY <1>1
<1>5. \A k \in 1 .. n : t[k] = IF k = p THEN x ELSE s[k]
  BY <1>1
<1>6. /\ u \in Seq(S) /\ Len(u) = n
      /\ \A k \in 1 .. n : u[k] = IF k = p THEN x ELSE s[k]
  <2>1. /\ a \o <<x>> \in Seq(S) /\ Len(a \o <<x>>) = p
        /\ \A k \in 1 .. p : (a \o <<x>>)[k] = IF k < p THEN a[k] ELSE x
    BY <1>1, <1>2
  <2> DEFINE c == a \o <<x>>
  <2>2. /\ u \in Seq(S) /\ Len(u) = n
        /\ \A k \in 1 .. n : u[k] = IF k <= p THEN c[k] ELSE b[k - p]
    <3> HIDE DEF c
    <3>1. c \in Seq(S) /\ Len(c) = p /\ u = c \o b
      BY <2>1 DEF c
    <3>2. /\ c \o b \in Seq(S) /\ Len(c \o b) = p + (n - p)
          /\ \A k \in 1 .. p + (n - p) :
               (c \o b)[k] = IF k <= p THEN c[k] ELSE b[k - p]
      <4> HIDE DEF b, n
      <4> QED
        <5>1. /\ c \o b \in Seq(S) /\ Len(c \o b) = Len(c) + Len(b)
              /\ \A k \in 1 .. Len(c) + Len(b) :
                   (c \o b)[k] = IF k <= Len(c) THEN c[k] ELSE b[k - Len(c)]
          BY <1>3, <3>1, ConcatProperties
        <5> QED
          BY <1>3, <3>1, <5>1
    <3>3. p + (n - p) = n
      BY <1>1
    <3> QED
      BY <3>1, <3>2, <3>3
  <2>3. \A k \in 1 .. n : k <= p => k \in 1 .. p
    BY <1>1
  <2>4. \A k \in 1 .. n : ~(k <= p) => k - p \in 1 .. n - p /\ p + (k - p) = k
    BY <1>1
  <2>5. \A k \in 1 .. p : k < p => k \in 1 .. p - 1
    BY <1>1
  <2> HIDE DEF u
  <2>6. ASSUME NEW k \in 1 .. n PROVE u[k] = IF k = p THEN x ELSE s[k]
    <3>1. CASE k < p
      <4>1. k \in 1 .. p /\ k \in 1 .. p - 1 /\ k <= p /\ k # p
        BY <1>1, <3>1
      <4>2. u[k] = c[k] /\ c[k] = a[k] /\ a[k] = s[k]
        BY <1>2, <2>1, <2>2, <3>1, <4>1
      <4> QED
        BY <4>1, <4>2
    <3>2. CASE k = p
      BY <1>1, <2>1, <2>2, <2>3, <3>2
    <3>3. CASE k > p
      <4>1. ~(k <= p) /\ k # p /\ k - p \in 1 .. n - p /\ p + (k - p) = k
        BY <1>1, <3>3
      <4>2. u[k] = b[k - p] /\ b[k - p] = s[p + (k - p)]
        BY <1>3, <2>2, <4>1
      <4> QED
        BY <4>1, <4>2
    <3> QED
      BY <1>1, <3>1, <3>2, <3>3
  <2> QED
    BY <2>2, <2>6
<1> HIDE DEF t, u
<1>7. t = u
  BY <1>4, <1>5, <1>6, SeqEqual
<1>8. RemoveAt(s, p) = a \o b
  BY DEF RemoveAt
<1>9. /\ p > 1 => a[p - 1] = s[p - 1]
      /\ p < n => b[1] = s[p + 1]
  <2>1. /\ p > 1 => p - 1 \in 1 .. p - 1
        /\ p < n => 1 \in 1 .. n - p
    BY <1>1
  <2> QED
    BY <1>2, <1>3, <2>1
<1> QED
  BY <1>2, <1>3, <1>4, <1>7, <1>8, <1>9 DEF n, t, u, a, b, Replaced, SplitsAround

\* Replacing a number of a list changes its sum by the difference.
LEMMA SumOfReplaced ==
  ASSUME NEW s \in Seq(Int), NEW p \in 1 .. Len(s), NEW x \in Int
  PROVE  SumOf(Replaced(s, p, x)) = SumOf(s) - s[p] + x
<1> DEFINE a == SubSeq(s, 1, p - 1)
           b == SubSeq(s, p + 1, Len(s))
<1>1. s[p] \in Int /\ Replaced(s, p, s[p]) = s
  BY DEF Replaced
<1>2. a \in Seq(Int) /\ b \in Seq(Int)
  BY <1>1, SplitList DEF SplitsAround
<1>3. ASSUME NEW y \in Int
      PROVE  SumOf(Replaced(s, p, y)) = SumOf(a) + y + SumOf(b)
  <2>1. Replaced(s, p, y) = (a \o <<y>>) \o b
    <3>1. SplitsAround(Int, s, p, y)
      BY SplitList
    <3> QED
      BY <3>1 DEF SplitsAround
  <2> HIDE DEF a, b
  <2>2. <<y>> \in Seq(Int) /\ Len(<<y>>) = 1 /\ <<y>>[1] = y /\ a \o <<y>> \in Seq(Int)
    BY <1>2
  <2>3. SumOf(<<y>>) = y
    BY <2>2, SumOfOne
  <2>4. SumOf(a \o <<y>>) = SumOf(a) + y
    BY <1>2, <2>2, <2>3, SumOfConcat
  <2> QED
    BY <1>2, <2>1, <2>2, <2>4, SumOfConcat
<1>4. SumOf(a) \in Int /\ SumOf(b) \in Int
  BY <1>2, SumOfInt
<1> HIDE DEF a, b
<1>5. SumOf(s) = SumOf(a) + s[p] + SumOf(b)
  BY <1>1, <1>3
<1>6. SumOf(Replaced(s, p, x)) = SumOf(a) + x + SumOf(b)
  BY <1>3
<1> QED
  BY <1>1, <1>4, <1>5, <1>6

\* Replacing an element changes the weight of a list by the difference.
LEMMA WeightReplaced ==
  ASSUME NEW S, NEW w \in [S -> Nat], NEW s \in Seq(S), NEW p \in 1 .. Len(s),
         NEW x \in S
  PROVE  SumOf(Weights(w, Replaced(s, p, x)))
           = SumOf(Weights(w, s)) - w[s[p]] + w[x]
<1> DEFINE t == Replaced(s, p, x)
<1>1. s \in [1 .. Len(s) -> S] /\ t \in Seq(S) /\ Len(t) = Len(s)
      /\ \A k \in 1 .. Len(s) : t[k] = IF k = p THEN x ELSE s[k]
  BY DEF Replaced
<1>2. WeighsAs(Weights(w, s), w, s) /\ WeighsAs(Weights(w, t), w, t)
  BY <1>1, WeightsType
<1> HIDE DEF t
<1>3. w[x] \in Int /\ p \in 1 .. Len(Weights(w, s))
      /\ Weights(w, s) \in Seq(Int) /\ Weights(w, s)[p] = w[s[p]]
  BY <1>2 DEF WeighsAs
<1>4. Weights(w, t) = Replaced(Weights(w, s), p, w[x])
  <2>1. /\ Weights(w, t) \in Seq(Nat) /\ Len(Weights(w, t)) = Len(s)
        /\ \A k \in 1 .. Len(s) : Weights(w, t)[k] = w[t[k]]
    BY <1>1, <1>2 DEF WeighsAs
  <2>2. /\ Weights(w, s) \in Seq(Nat) /\ Len(Weights(w, s)) = Len(s)
        /\ \A k \in 1 .. Len(s) : Weights(w, s)[k] = w[s[k]]
    BY <1>2 DEF WeighsAs
  <2> DEFINE old == Weights(w, s)
             new == Weights(w, t)
  <2> HIDE DEF old, new
  <2>3. /\ old \in [1 .. Len(s) -> Nat] /\ new \in [1 .. Len(s) -> Nat]
        /\ w[x] \in Nat
    <3>1. /\ old \in Seq(Nat) /\ Len(old) = Len(s)
          /\ new \in Seq(Nat) /\ Len(new) = Len(s)
      BY <2>1, <2>2 DEF old, new
    <3> QED
      BY <3>1
  <2>4. \A k \in 1 .. Len(s) : new[k] = IF k = p THEN w[x] ELSE old[k]
    <3>1. /\ \A k \in 1 .. Len(s) : new[k] = w[t[k]]
          /\ \A k \in 1 .. Len(s) : old[k] = w[s[k]]
      BY <2>1, <2>2 DEF old, new
    <3>2. \A k \in 1 .. Len(s) : t[k] = IF k = p THEN x ELSE s[k]
      BY <1>1
    <3> QED
      BY ONLY <3>1, <3>2
  <2>5. new = Replaced(old, p, w[x])
    BY <2>3, <2>4 DEF Replaced
  <2> QED
    BY <2>5 DEF old, new
<1> QED
  BY <1>3, <1>4, SumOfReplaced DEF t

\* Removing an element takes its weight away.
LEMMA WeightRemoved ==
  ASSUME NEW S, NEW w \in [S -> Nat], NEW s \in Seq(S), NEW p \in 1 .. Len(s)
  PROVE  SumOf(Weights(w, RemoveAt(s, p))) = SumOf(Weights(w, s)) - w[s[p]]
<1> DEFINE a == SubSeq(s, 1, p - 1)
           b == SubSeq(s, p + 1, Len(s))
           x == s[p]
<1>1. x \in S /\ Replaced(s, p, x) = s /\ w[x] \in Nat
  BY DEF Replaced
<1> HIDE DEF x
<1>2. a \in Seq(S) /\ b \in Seq(S) /\ RemoveAt(s, p) = a \o b
      /\ s = (a \o <<x>>) \o b
  <2>1. SplitsAround(S, s, p, x)
    BY <1>1, SplitList
  <2>2. a \in Seq(S) /\ b \in Seq(S) /\ RemoveAt(s, p) = a \o b
        /\ Replaced(s, p, x) = (a \o <<x>>) \o b
    BY <2>1 DEF SplitsAround
  <2> QED
    BY <1>1, <2>2
<1> HIDE DEF a, b
<1>3. a \o <<x>> \in Seq(S) /\ <<x>> \in Seq(S)
  BY <1>1, <1>2
<1>4. SumOf(Weights(w, a \o b)) = SumOf(Weights(w, a)) + SumOf(Weights(w, b))
  BY <1>2, WeightConcat
<1>5. SumOf(Weights(w, s)) = SumOf(Weights(w, a \o <<x>>)) + SumOf(Weights(w, b))
  BY <1>2, <1>3, WeightConcat
<1>6. SumOf(Weights(w, a \o <<x>>)) = SumOf(Weights(w, a)) + w[x]
  <2>1. SumOf(Weights(w, <<x>>)) = w[x]
    BY <1>1, WeightOne
  <2>2. SumOf(Weights(w, a \o <<x>>)) = SumOf(Weights(w, a)) + SumOf(Weights(w, <<x>>))
    BY <1>2, <1>3, WeightConcat
  <2> QED
    BY <2>1, <2>2
<1>7. SumOf(Weights(w, a)) \in Nat /\ SumOf(Weights(w, b)) \in Nat
  BY <1>2, WeightNat
<1>8. SumOf(Weights(w, RemoveAt(s, p))) = SumOf(Weights(w, s)) - w[x]
  BY ONLY <1>1, <1>2, <1>4, <1>5, <1>6, <1>7
<1> QED
  BY <1>8 DEF x

\* A list cut behind one of its positions, or before the first one.
CutBehind(S, s, q) ==
  /\ SubSeq(s, 1, q) \in Seq(S) /\ Len(SubSeq(s, 1, q)) = q
  /\ \A k \in 1 .. q : SubSeq(s, 1, q)[k] = s[k]
  /\ SubSeq(s, q + 1, Len(s)) \in Seq(S)
  /\ Len(SubSeq(s, q + 1, Len(s))) = Len(s) - q
  /\ \A k \in 1 .. Len(s) - q : SubSeq(s, q + 1, Len(s))[k] = s[q + k]
  /\ s = SubSeq(s, 1, q) \o SubSeq(s, q + 1, Len(s))

\* Every list can be cut.
LEMMA CutList ==
  ASSUME NEW S, NEW s \in Seq(S), NEW q \in 0 .. Len(s)
  PROVE  CutBehind(S, s, q)
<1> DEFINE n == Len(s)
           a == SubSeq(s, 1, q)
           b == SubSeq(s, q + 1, n)
<1>1. n \in Nat /\ s \in [1 .. n -> S] /\ q \in 0 .. n
  OBVIOUS
<1>2. a \in Seq(S) /\ Len(a) = q /\ \A k \in 1 .. q : a[k] = s[k]
  <2>1. /\ \A k \in 1 .. q : s[k] \in S /\ 1 + k - 1 = k
        /\ q - 1 + 1 = q /\ q \in Int
    BY <1>1
  <2>2. /\ a \in Seq(S) /\ Len(a) = IF 1 <= q THEN q - 1 + 1 ELSE 0
        /\ \A k \in 1 .. q - 1 + 1 : a[k] = s[1 + k - 1]
    BY <2>1, SubSeqProperties
  <2> HIDE DEF a
  <2> QED
    BY <1>1, <2>1, <2>2
<1>3. b \in Seq(S) /\ Len(b) = n - q /\ \A k \in 1 .. n - q : b[k] = s[q + k]
  <2>1. /\ \A k \in q + 1 .. n : s[k] \in S
        /\ \A k \in 1 .. n - q : (q + 1) + k - 1 = q + k
        /\ n - (q + 1) + 1 = n - q /\ q + 1 \in Int /\ n \in Int
    BY <1>1
  <2>2. /\ b \in Seq(S) /\ Len(b) = IF q + 1 <= n THEN n - (q + 1) + 1 ELSE 0
        /\ \A k \in 1 .. n - (q + 1) + 1 : b[k] = s[(q + 1) + k - 1]
    BY <2>1, SubSeqProperties
  <2> HIDE DEF b, n
  <2> QED
    BY <1>1, <2>1, <2>2
<1>4. s = a \o b
  <2> HIDE DEF a, b
  <2>1. /\ a \o b \in Seq(S) /\ Len(a \o b) = Len(a) + Len(b)
        /\ (\A k \in 1 .. Len(a) : (a \o b)[k] = a[k])
        /\ (\A k \in 1 .. Len(b) : (a \o b)[Len(a) + k] = b[k])
    <3>1. a \in Seq(S) /\ b \in Seq(S)
      BY <1>2, <1>3
    <3> QED
      BY ONLY <3>1, ConcatElements
  <2> HIDE DEF n
  <2>2. Len(a \o b) = n
    BY <1>1, <1>2, <1>3, <2>1
  <2>3. ASSUME NEW k \in 1 .. n PROVE s[k] = (a \o b)[k]
    <3>1. CASE k <= q
      <4>1. k \in 1 .. q
        BY <1>1, <3>1
      <4> QED
        BY <1>2, <2>1, <4>1
    <3>2. CASE ~(k <= q)
      <4> DEFINE l == k - q
      <4>1. l \in 1 .. n - q /\ k = q + l
        BY <1>1, <3>2
      <4> HIDE DEF l
      <4>2. (a \o b)[q + l] = b[l] /\ b[l] = s[q + l]
        BY <1>2, <1>3, <2>1, <4>1
      <4> QED
        BY <4>1, <4>2
    <3> QED
      BY <3>1, <3>2
  <2> QED
    BY <1>1, <2>1, <2>2, <2>3, SeqEqual DEF n
<1> QED
  BY <1>2, <1>3, <1>4 DEF CutBehind

\* The reversal of a list read from its other end.
LEMMA ReverseStep ==
  ASSUME NEW S, NEW s \in Seq(S), NEW x \in S
  PROVE  /\ Reverse(s) \in Seq(S) /\ Len(Reverse(s)) = Len(s)
         /\ Reverse(s \o <<x>>) = <<x>> \o Reverse(s)
<1> DEFINE n == Len(s)
           t == s \o <<x>>
           u == <<x>> \o Reverse(s)
<1>1. n \in Nat /\ s \in [1 .. n -> S]
  OBVIOUS
<1>2. Reverse(s) \in Seq(S) /\ Len(Reverse(s)) = n
      /\ \A k \in 1 .. n : Reverse(s)[k] = s[(n - k) + 1]
  <2>1. \A k \in 1 .. n : (n - k) + 1 \in 1 .. n
    BY <1>1
  <2> QED
    BY <1>1, <2>1 DEF Reverse
<1>3. t \in Seq(S) /\ Len(t) = n + 1 /\ t[n + 1] = x
      /\ \A k \in 1 .. n : t[k] = s[k]
  OBVIOUS
<1>4. u \in Seq(S) /\ Len(u) = n + 1 /\ u[1] = x
      /\ \A k \in 1 .. n : u[1 + k] = Reverse(s)[k]
  <2> DEFINE r == Reverse(s)
  <2>1. r \in Seq(S) /\ <<x>> \in Seq(S) /\ Len(<<x>>) = 1 /\ <<x>>[1] = x /\ Len(r) = n
    BY <1>2
  <2> HIDE DEF r
  <2>2. /\ <<x>> \o r \in Seq(S) /\ Len(<<x>> \o r) = Len(<<x>>) + Len(r)
        /\ (\A k \in 1 .. Len(<<x>>) : (<<x>> \o r)[k] = <<x>>[k])
        /\ (\A k \in 1 .. Len(r) : (<<x>> \o r)[Len(<<x>>) + k] = r[k])
    BY <2>1, ConcatElements
  <2> HIDE DEF n
  <2>3. 1 \in 1 .. Len(<<x>>)
    BY <2>1
  <2>4. <<x>> \o r \in Seq(S) /\ Len(<<x>> \o r) = n + 1 /\ (<<x>> \o r)[1] = x
    BY <1>1, <2>1, <2>2, <2>3
  <2>5. \A k \in 1 .. n : (<<x>> \o r)[1 + k] = r[k]
    BY <2>1, <2>2
  <2> QED
    BY <2>4, <2>5 DEF r
<1>5. Reverse(t) \in Seq(S) /\ Len(Reverse(t)) = n + 1
      /\ \A k \in 1 .. n + 1 : Reverse(t)[k] = t[((n + 1) - k) + 1]
  <2> HIDE DEF t, n
  <2>1. t \in [1 .. n + 1 -> S]
    BY <1>1, <1>3
  <2>2. \A k \in 1 .. n + 1 : ((n + 1) - k) + 1 \in 1 .. n + 1
    BY <1>1
  <2> QED
    BY <1>1, <1>3, <2>1, <2>2 DEF Reverse
<1>6. ASSUME NEW k \in 1 .. n + 1 PROVE Reverse(t)[k] = u[k]
  <2> HIDE DEF t, u, n
  <2>1. CASE k = 1
    <3>1. ((n + 1) - 1) + 1 = n + 1 /\ 1 \in 1 .. n + 1
      BY <1>1
    <3> QED
      BY <1>3, <1>4, <1>5, <2>1, <3>1
  <2>2. CASE k # 1
    <3> DEFINE l == k - 1
    <3>1. l \in 1 .. n /\ k = 1 + l /\ ((n + 1) - k) + 1 = (n - l) + 1
          /\ (n - l) + 1 \in 1 .. n
      BY <1>1, <2>2
    <3> HIDE DEF l
    <3>2. Reverse(t)[k] = t[(n - l) + 1]
      BY <1>5, <3>1
    <3>3. t[(n - l) + 1] = s[(n - l) + 1]
      BY <1>3, <3>1
    <3>4. u[1 + l] = s[(n - l) + 1]
      BY <1>2, <1>4, <3>1
    <3> QED
      BY <3>1, <3>2, <3>3, <3>4
  <2> QED
    BY <2>1, <2>2
<1>7. Reverse(t) = u
  <2> HIDE DEF t, u, n
  <2> QED
    BY <1>1, <1>4, <1>5, <1>6, SeqEqual
<1> QED
  BY <1>2, <1>7 DEF n, t, u

\* A non-empty list is a list and a last element.
LEMMA LastElement ==
  ASSUME NEW S, NEW s \in Seq(S), NEW n \in Nat, Len(s) = n + 1
  PROVE  /\ SubSeq(s, 1, n) \in Seq(S) /\ Len(SubSeq(s, 1, n)) = n
         /\ s[n + 1] \in S
         /\ s = SubSeq(s, 1, n) \o <<s[n + 1]>>
<1>1. n \in 0 .. Len(s) /\ s[n + 1] \in S /\ Len(s) - n = 1
  OBVIOUS
<1>2. CutBehind(S, s, n)
  BY <1>1, CutList
<1> DEFINE b == SubSeq(s, n + 1, Len(s))
<1>3. b \in Seq(S) /\ Len(b) = 1 /\ b[1] = s[n + 1]
      /\ s = SubSeq(s, 1, n) \o b
      /\ SubSeq(s, 1, n) \in Seq(S) /\ Len(SubSeq(s, 1, n)) = n
  BY <1>1, <1>2 DEF CutBehind
<1> HIDE DEF b
<1>4. b = <<s[n + 1]>>
  BY <1>3
<1> QED
  BY <1>1, <1>3, <1>4

\* Reversing a list keeps its weight.
LEMMA WeightReversed ==
  ASSUME NEW S, NEW w \in [S -> Nat], NEW s \in Seq(S)
  PROVE  SumOf(Weights(w, Reverse(s))) = SumOf(Weights(w, s))
<1> DEFINE Same(t) == SumOf(Weights(w, Reverse(t))) = SumOf(Weights(w, t))
           P == {n \in Nat : \A t \in Seq(S) : Len(t) = n => Same(t)}
<1>1. 0 \in P
  <2>1. ASSUME NEW t \in Seq(S), Len(t) = 0 PROVE Same(t)
    <3>1. t = <<>> /\ Reverse(t) = <<>>
      BY <2>1 DEF Reverse
    <3> QED
      BY <3>1
  <2> QED
    BY <2>1
<1>2. ASSUME NEW n \in P PROVE n + 1 \in P
  <2>1. n \in Nat /\ \A t \in Seq(S) : Len(t) = n => Same(t)
    BY <1>2
  <2>2. ASSUME NEW t \in Seq(S), Len(t) = n + 1 PROVE Same(t)
    <3> DEFINE u == SubSeq(t, 1, n)
               x == t[n + 1]
    <3>1. u \in Seq(S) /\ Len(u) = n /\ x \in S /\ t = u \o <<x>>
      BY <2>1, <2>2, LastElement
    <3> HIDE DEF u, x
    <3>2. Reverse(u) \in Seq(S) /\ Reverse(u \o <<x>>) = <<x>> \o Reverse(u)
      BY <3>1, ReverseStep
    <3>3. <<x>> \in Seq(S)
      BY <3>1
    <3>4. SumOf(Weights(w, u \o <<x>>)) = SumOf(Weights(w, u)) + SumOf(Weights(w, <<x>>))
      BY <3>1, <3>3, WeightConcat
    <3>5. SumOf(Weights(w, <<x>> \o Reverse(u)))
            = SumOf(Weights(w, <<x>>)) + SumOf(Weights(w, Reverse(u)))
      BY <3>2, <3>3, WeightConcat
    <3>6. SumOf(Weights(w, Reverse(u))) = SumOf(Weights(w, u))
      BY <2>1, <3>1
    <3>7. SumOf(Weights(w, u)) \in Nat /\ SumOf(Weights(w, <<x>>)) \in Nat
      BY <3>1, <3>3, WeightNat
    <3> DEFINE wu == SumOf(Weights(w, u))
               wx == SumOf(Weights(w, <<x>>))
    <3>8. SumOf(Weights(w, Reverse(u \o <<x>>))) = wx + wu
      BY ONLY <3>2, <3>5, <3>6
    <3>9. wx + wu = wu + wx
      <4>1. wx \in Nat /\ wu \in Nat
        BY <3>7
      <4> HIDE DEF wx, wu
      <4> QED
        BY ONLY <4>1
    <3>10. SumOf(Weights(w, Reverse(u \o <<x>>))) = SumOf(Weights(w, u \o <<x>>))
      BY ONLY <3>4, <3>8, <3>9
    <3> QED
      BY <3>1, <3>10
  <2> QED
    BY <2>1, <2>2
<1> HIDE DEF P
<1>3. P \subseteq Nat
  BY DEF P
<1>4. P = Nat
  BY <1>1, <1>2, <1>3, SetInduction
<1>5. Len(s) \in P
  BY <1>4
<1> QED
  BY <1>5 DEF P

-----------------------------------------------------------------------------
(***************************************************************************)
(* Lists without an element, and lists put together                        *)
(***************************************************************************)
\* What the rounds of a loop keep is true of all its values.
LEMMA LoopType ==
  ASSUME NEW n \in Nat, NEW T, NEW g, g[0] \in T,
         \A k \in 1 .. n : g[k - 1] \in T => g[k] \in T
  PROVE  \A k \in 0 .. n : g[k] \in T
<1> DEFINE S == {k \in 0 .. n : g[k] \in T}
<1>1. 0 \in S
  OBVIOUS
<1>2. ASSUME NEW k \in 0 .. n - 1, k \in S PROVE k + 1 \in S
  <2>1. k + 1 \in 1 .. n /\ k + 1 - 1 = k /\ k + 1 \in 0 .. n
    OBVIOUS
  <2>2. g[k] \in T
    BY <1>2
  <2>3. g[k + 1] \in T
    BY <2>1, <2>2
  <2> QED
    BY <2>1, <2>3
<1>3. \A k \in 0 .. n - 1 : k \in S => k + 1 \in S
  BY <1>2
<1> HIDE DEF S
<1>4. 0 .. n \subseteq S
  BY ONLY <1>1, <1>3, n \in Nat, IntervalInduction
<1> QED
  BY <1>4 DEF S

\* Loops that start alike and change alike have the same values.
LEMMA SameLoops ==
  ASSUME NEW n \in Nat, NEW f, NEW g, f[0] = g[0],
         \A k \in 1 .. n : f[k - 1] = g[k - 1] => f[k] = g[k]
  PROVE  \A k \in 0 .. n : f[k] = g[k]
<1> DEFINE S == {k \in 0 .. n : f[k] = g[k]}
<1>1. 0 \in S
  OBVIOUS
<1>2. ASSUME NEW k \in 0 .. n - 1, k \in S PROVE k + 1 \in S
  <2>1. k + 1 \in 1 .. n /\ k + 1 - 1 = k /\ k + 1 \in 0 .. n
    OBVIOUS
  <2>2. f[k] = g[k]
    BY <1>2
  <2>3. f[k + 1] = g[k + 1]
    BY <2>1, <2>2
  <2> QED
    BY <2>1, <2>3
<1>3. \A k \in 0 .. n - 1 : k \in S => k + 1 \in S
  BY <1>2
<1> HIDE DEF S
<1>4. 0 .. n \subseteq S
  BY ONLY <1>1, <1>3, n \in Nat, IntervalInduction
<1> QED
  BY <1>4 DEF S

\* WithoutsOf(x, list)[k] are those of the first k elements that differ from x.
WithoutsOf(x, list) ==
  LET kept[k \in 0 .. Len(list)] ==
        IF k = 0 THEN <<>>
        ELSE IF list[k] = x THEN kept[k - 1] ELSE Append(kept[k - 1], list[k])
  IN  kept

\* Without is the last of them.
LEMMA WithoutIsLast == \A x, list : Without(x, list) = WithoutsOf(x, list)[Len(list)]
BY DEF Without, WithoutsOf

\* The loop of Without.
IsWithouts(g, S, x, list) ==
  /\ \A k \in 0 .. Len(list) : g[k] \in Seq(S \ {x})
  /\ g[0] = <<>>
  /\ \A k \in 1 .. Len(list) :
       g[k] = IF list[k] = x THEN g[k - 1] ELSE Append(g[k - 1], list[k])

\* It starts with nothing and appends what differs from x.
LEMMA WithoutsStep ==
  ASSUME NEW S, NEW x, NEW list \in Seq(S)
  PROVE  IsWithouts(WithoutsOf(x, list), S, x, list)
<1> DEFINE n == Len(list)
           T == Seq(S \ {x})
           Def(g) == g = [k \in 0 .. n |->
                            IF k = 0 THEN <<>>
                            ELSE IF list[k] = x THEN g[k - 1]
                                 ELSE Append(g[k - 1], list[k])]
           step == [k \in 1 .. n |->
                      [s \in T |-> IF list[k] = x THEN s ELSE Append(s, list[k])]]
<1>1. n \in Nat /\ \A k \in 1 .. n : list[k] \in S
  OBVIOUS
<1>2. \A k \in 1 .. n : \A s \in T :
        (IF list[k] = x THEN s ELSE Append(s, list[k])) \in T
  BY <1>1
<1>3. \E f \in [0 .. n -> T] : Iterates(f, n, <<>>, step)
  <2>1. step \in [1 .. n -> [T -> T]]
    BY <1>2
  <2>2. <<>> \in T
    OBVIOUS
  <2> HIDE DEF step, T, n
  <2> QED
    BY ONLY <1>1, <2>1, <2>2, Iteration
<1>4. PICK f \in [0 .. n -> T] : Def(f)
  <2>1. PICK f \in [0 .. n -> T] :
           f[0] = <<>> /\ \A k \in 1 .. n : f[k] = step[k][f[k - 1]]
    BY <1>3 DEF Iterates
  <2>2. ASSUME NEW k \in 1 .. n
        PROVE  f[k] = IF list[k] = x THEN f[k - 1] ELSE Append(f[k - 1], list[k])
    <3>1. k - 1 \in 0 .. n
      BY <1>1
    <3> HIDE DEF T
    <3>2. f[k - 1] \in T
      BY <2>1, <3>1
    <3> QED
      BY <2>1, <3>2
  <2>3. \A k \in 0 .. n : k = 0 \/ k \in 1 .. n
    BY <1>1
  <2>4. f[0] = <<>>
    BY <2>1
  <2> HIDE DEF T, n, step
  <2>5. Def(f)
    BY <2>2, <2>3, <2>4
  <2> QED
    BY <2>5
<1>5. Def(WithoutsOf(x, list))
  BY <1>4 DEF WithoutsOf
<1> DEFINE g == WithoutsOf(x, list)
<1> HIDE DEF g
<1>6. /\ g[0] = <<>>
      /\ \A k \in 1 .. n : g[k] = IF list[k] = x THEN g[k - 1]
                                  ELSE Append(g[k - 1], list[k])
  <2>1. Def(g)
    BY <1>5 DEF g
  <2>2. 0 \in 0 .. n /\ \A k \in 1 .. n : k \in 0 .. n /\ k # 0
    BY <1>1
  <2> HIDE DEF n
  <2> QED
    BY <2>1, <2>2
<1>7. \A k \in 0 .. n : g[k] \in T
  <2>1. g[0] \in T
    BY <1>6
  <2>2. \A k \in 1 .. n : g[k - 1] \in T => g[k] \in T
    BY <1>2, <1>6
  <2> HIDE DEF T, n
  <2> QED
    BY ONLY <1>1, <2>1, <2>2, LoopType
<1> QED
  BY <1>6, <1>7 DEF IsWithouts, g

\* Nothing comes of nothing, and elements that differ from x remain.
LEMMA WithoutFacts ==
  ASSUME NEW S, NEW x, NEW s \in Seq(S)
  PROVE  /\ Without(x, s) \in Seq(S \ {x})
         /\ Without(x, <<>>) = <<>>
<1>1. IsWithouts(WithoutsOf(x, s), S, x, s)
  BY WithoutsStep
<1>2. IsWithouts(WithoutsOf(x, <<>>), S, x, <<>>)
  <2>1. <<>> \in Seq(S)
    OBVIOUS
  <2> QED
    BY ONLY <2>1, WithoutsStep
<1>3. Len(s) \in 0 .. Len(s) /\ Len(<<>>) = 0
  OBVIOUS
<1> QED
  BY <1>1, <1>2, <1>3, WithoutIsLast DEF IsWithouts

\* What remains of a list with one more element.
RemainsOfAppended(x, s, y) ==
  /\ y = x => Without(x, Append(s, y)) = Without(x, s)
  /\ y # x => Without(x, Append(s, y)) = Append(Without(x, s), y)

\* One more element remains unless it is x.
LEMMA WithoutAppend ==
  ASSUME NEW S, NEW x, NEW s \in Seq(S), NEW y \in S
  PROVE  RemainsOfAppended(x, s, y)
<1> DEFINE t == Append(s, y)
           n == Len(s)
           f == WithoutsOf(x, s)
           g == WithoutsOf(x, t)
<1>1. /\ t \in Seq(S) /\ n \in Nat /\ Len(t) = n + 1 /\ t[n + 1] = y
      /\ \A k \in 1 .. n : t[k] = s[k]
  OBVIOUS
<1>2. IsWithouts(f, S, x, s)
  BY WithoutsStep
<1> HIDE DEF t
<1>3. IsWithouts(g, S, x, t)
  BY <1>1, WithoutsStep
<1> HIDE DEF f, g
<1>4. \A k \in 0 .. n : f[k] = g[k]
  <2>1. f[0] = g[0]
    BY <1>2, <1>3 DEF IsWithouts
  <2>2. \A k \in 1 .. n : f[k - 1] = g[k - 1] => f[k] = g[k]
    <3>1. \A k \in 1 .. n : k \in 1 .. Len(t)
      BY <1>1
    <3> QED
      BY <1>1, <1>2, <1>3, <3>1 DEF IsWithouts
  <2>3. n \in Nat
    BY <1>1
  <2> HIDE DEF n
  <2> QED
    BY ONLY <2>1, <2>2, <2>3, SameLoops
<1>5. n + 1 \in 1 .. Len(t) /\ n \in 0 .. n /\ n + 1 - 1 = n
  BY <1>1
<1>6. g[n + 1] = IF y = x THEN g[n] ELSE Append(g[n], y)
  BY <1>1, <1>3, <1>5 DEF IsWithouts
<1>7. Without(x, s) = f[n] /\ Without(x, t) = g[n + 1]
  BY <1>1, WithoutIsLast DEF f, g
<1> QED
  BY <1>4, <1>5, <1>6, <1>7 DEF t, RemainsOfAppended

\* What remains of two lists is what remains of each.
LEMMA WithoutConcat ==
  ASSUME NEW S, NEW x, NEW s \in Seq(S), NEW t \in Seq(S)
  PROVE  Without(x, s \o t) = Without(x, s) \o Without(x, t)
<1> DEFINE Same(u) == Without(x, s \o u) = Without(x, s) \o Without(x, u)
           P == {n \in Nat : \A u \in Seq(S) : Len(u) = n => Same(u)}
           R == Seq(S \ {x})
<1>0. Without(x, s) \in R
  BY WithoutFacts
<1>1. 0 \in P
  <2>1. ASSUME NEW u \in Seq(S), Len(u) = 0 PROVE Same(u)
    <3>1. u = <<>>
      BY <2>1
    <3>2. s \o <<>> = s /\ Without(x, <<>>) = <<>>
      BY ConcatEmptySeq, WithoutFacts
    <3>3. Without(x, s) \o <<>> = Without(x, s)
      BY <1>0, ConcatEmptySeq
    <3> QED
      BY <3>1, <3>2, <3>3
  <2> QED
    BY <2>1
<1>2. ASSUME NEW n \in P PROVE n + 1 \in P
  <2>1. n \in Nat /\ \A u \in Seq(S) : Len(u) = n => Same(u)
    BY <1>2
  <2>2. ASSUME NEW v \in Seq(S), Len(v) = n + 1 PROVE Same(v)
    <3> DEFINE u == SubSeq(v, 1, n)
               y == v[n + 1]
    <3>1. u \in Seq(S) /\ Len(u) = n /\ y \in S /\ v = u \o <<y>>
      BY <2>1, <2>2, LastElement
    <3> HIDE DEF u, y
    <3>2. Without(x, s \o u) = Without(x, s) \o Without(x, u)
      BY <2>1, <3>1
    <3>3. /\ s \o u \in Seq(S) /\ <<y>> \in Seq(S)
          /\ s \o (u \o <<y>>) = (s \o u) \o <<y>>
      BY <3>1, ConcatAssociative, ConcatProperties
    <3>4. /\ Append(u, y) = u \o <<y>>
          /\ Append(s \o u, y) = (s \o u) \o <<y>>
      BY <3>1, <3>3, AppendIsConcat
    <3>5. /\ y = x => Without(x, u \o <<y>>) = Without(x, u)
          /\ y # x => Without(x, u \o <<y>>) = Append(Without(x, u), y)
      <4>1. RemainsOfAppended(x, u, y)
        BY <3>1, WithoutAppend
      <4> QED
        BY <3>4, <4>1 DEF RemainsOfAppended
    <3>8. /\ y = x => Without(x, (s \o u) \o <<y>>) = Without(x, s \o u)
          /\ y # x => Without(x, (s \o u) \o <<y>>) = Append(Without(x, s \o u), y)
      <4> DEFINE su == s \o u
      <4>1. su \in Seq(S) /\ y \in S /\ Append(su, y) = su \o <<y>>
        BY <3>1, <3>3, <3>4
      <4> HIDE DEF su
      <4>2. /\ y = x => Without(x, su \o <<y>>) = Without(x, su)
            /\ y # x => Without(x, su \o <<y>>) = Append(Without(x, su), y)
        <5>1. RemainsOfAppended(x, su, y)
          BY <4>1, WithoutAppend
        <5> QED
          BY <4>1, <5>1 DEF RemainsOfAppended
      <4> QED
        BY <4>2 DEF su
    <3>6. CASE y = x
      <4>1. Without(x, u \o <<y>>) = Without(x, u)
        BY <3>5, <3>6
      <4>2. Without(x, (s \o u) \o <<y>>) = Without(x, s \o u)
        BY <3>8, <3>6
      <4> QED
        BY ONLY <3>1, <3>2, <3>3, <4>1, <4>2
    <3>7. CASE y # x
      <4>1. Without(x, u) \in R
        BY <3>1, WithoutFacts
      <4>2. y \in S \ {x} /\ <<y>> \in R
        BY <3>1, <3>7
      <4>3. Without(x, u \o <<y>>) = Without(x, u) \o <<y>>
        BY <3>5, <3>7, <4>1, <4>2, AppendIsConcat
      <4>4. Without(x, (s \o u) \o <<y>>) = (Without(x, s) \o Without(x, u)) \o <<y>>
        <5>1. Without(x, s) \o Without(x, u) \in R
          BY <1>0, <4>1, ConcatProperties
        <5>2. Append(Without(x, s) \o Without(x, u), y)
                = (Without(x, s) \o Without(x, u)) \o <<y>>
          BY <4>2, <5>1, AppendIsConcat
        <5> QED
          BY <3>2, <3>8, <3>7, <5>2
      <4>5. (Without(x, s) \o Without(x, u)) \o <<y>>
              = Without(x, s) \o (Without(x, u) \o <<y>>)
        BY <1>0, <4>1, <4>2, ConcatAssociative
      <4> QED
        BY ONLY <3>1, <3>3, <4>3, <4>4, <4>5
    <3> QED
      BY <3>6, <3>7
  <2> QED
    BY <2>1, <2>2
<1> HIDE DEF P
<1>3. P \subseteq Nat
  BY DEF P
<1>4. P = Nat
  BY <1>1, <1>2, <1>3, SetInduction
<1>5. Len(t) \in P
  BY <1>4
<1> QED
  BY <1>5 DEF P

\* What remains of a single element.
LEMMA WithoutOne ==
  ASSUME NEW S, NEW x, NEW y \in S
  PROVE  /\ y = x => Without(x, <<y>>) = <<>>
         /\ y # x => Without(x, <<y>>) = <<y>>
<1> DEFINE e == <<>>
<1>1. e \in Seq(S) /\ Append(e, y) = <<y>>
  OBVIOUS
<1>2. Without(x, e) = e
  BY <1>1, WithoutFacts
<1> HIDE DEF e
<1>3. /\ y = x => Without(x, Append(e, y)) = Without(x, e)
      /\ y # x => Without(x, Append(e, y)) = Append(Without(x, e), y)
  <2>1. RemainsOfAppended(x, e, y)
    BY <1>1, WithoutAppend
  <2> QED
    BY <2>1 DEF RemainsOfAppended
<1>4. /\ y = x => Without(x, <<y>>) = e
      /\ y # x => Without(x, <<y>>) = <<y>>
  BY <1>1, <1>2, <1>3
<1> QED
  BY <1>4 DEF e

\* A list without x remains whole.
LEMMA WithoutNone ==
  ASSUME NEW S, NEW x, x \notin S, NEW s \in Seq(S)
  PROVE  Without(x, s) = s
<1> DEFINE g == WithoutsOf(x, s)
           n == Len(s)
<1>1. IsWithouts(g, S, x, s) /\ n \in Nat
  BY WithoutsStep
<1>2. \A k \in 1 .. n : s[k] \in S /\ s[k] # x
  OBVIOUS
<1> HIDE DEF g
<1>3. /\ \A k \in 0 .. n : g[k] \in Seq(S \ {x})
      /\ g[0] = <<>>
      /\ \A k \in 1 .. n : g[k] = Append(g[k - 1], s[k])
  BY <1>1, <1>2 DEF IsWithouts
<1> DEFINE IsPrefixUpTo(k) == /\ Len(g[k]) = k
                              /\ \A m \in 1 .. k : g[k][m] = s[m]
           K == {k \in 0 .. n : IsPrefixUpTo(k)}
<1>4. 0 \in K
  BY <1>1, <1>3
<1>5. \A k \in 0 .. n - 1 : k \in K => k + 1 \in K
  <2> SUFFICES ASSUME NEW k \in 0 .. n - 1, k \in K PROVE k + 1 \in K
    OBVIOUS
  <2>1. k \in Nat /\ k \in 0 .. n /\ k + 1 \in 1 .. n /\ k + 1 \in 0 .. n
        /\ k + 1 - 1 = k
    BY <1>1
  <2>2. g[k] \in Seq(S \ {x}) /\ g[k + 1] = Append(g[k], s[k + 1])
    <3>1. g[k] \in Seq(S \ {x})
      BY <1>3, <2>1
    <3>2. g[k + 1] = Append(g[k + 1 - 1], s[k + 1])
      BY <1>3, <2>1
    <3> QED
      BY ONLY <2>1, <3>1, <3>2
  <2>3. Len(g[k]) = k /\ \A m \in 1 .. k : g[k][m] = s[m]
    OBVIOUS
  <2> DEFINE u == g[k]
             v == g[k + 1]
             y == s[k + 1]
  <2>4. y \in S \ {x} /\ u \in Seq(S \ {x}) /\ v = Append(u, y) /\ Len(u) = k
    BY <1>2, <2>1, <2>2, <2>3
  <2>5. \A m \in 1 .. k : u[m] = s[m]
    BY <2>3
  <2>6. Len(v) = k + 1 /\ \A m \in 1 .. k + 1 : v[m] = s[m]
    <3>0. y = s[k + 1]
      OBVIOUS
    <3> HIDE DEF u, v, y
    <3>1. /\ Len(v) = k + 1 /\ v[k + 1] = y
          /\ \A m \in 1 .. k : v[m] = u[m]
      BY ONLY <2>1, <2>4
    <3>2. \A m \in 1 .. k + 1 : m \in 1 .. k \/ m = k + 1
      BY <2>1
    <3> QED
      BY ONLY <2>5, <3>0, <3>1, <3>2
  <2> QED
    BY <2>1, <2>6
<1> HIDE DEF K
<1>6. 0 .. n \subseteq K
  <2>1. n \in Nat
    BY <1>1
  <2> HIDE DEF n
  <2> QED
    BY ONLY <1>4, <1>5, <2>1, IntervalInduction
<1>7. Len(g[n]) = n /\ \A m \in 1 .. n : g[n][m] = s[m]
  BY <1>1, <1>6 DEF K
<1>8. g[n] \in Seq(S)
  <2>1. n \in 0 .. n
    BY <1>1
  <2>2. g[n] \in Seq(S \ {x})
    BY <1>3, <2>1
  <2> HIDE DEF n
  <2> QED
    BY ONLY <2>2, SeqMonotonic
<1>9. Without(x, s) = g[n]
  BY WithoutIsLast DEF g
<1>10. g[n] = s
  <2> DEFINE u == g[n]
  <2>1. u \in Seq(S) /\ Len(u) = Len(s) /\ \A m \in 1 .. Len(u) : u[m] = s[m]
    BY <1>7, <1>8
  <2> HIDE DEF u
  <2>2. u = s
    BY <2>1, SeqEqual
  <2> QED
    BY <2>2 DEF u
<1> QED
  BY <1>9, <1>10

\* FlattenedOf(lists)[k] is the concatenation of the first k lists.
FlattenedOf(lists) ==
  LET flatten[i \in 1 .. Len(lists)] ==
        IF i = 1 THEN lists[i] ELSE flatten[i - 1] \o lists[i]
  IN  flatten

\* FlattenSeq is the last of them.
LEMMA FlattenSeqIsLast ==
  \A lists : FlattenSeq(lists) =
               IF Len(lists) = 0 THEN lists ELSE FlattenedOf(lists)[Len(lists)]
BY DEF FlattenSeq, FlattenedOf

\* The loop of FlattenSeq.
IsFlattened(g, S, lists) ==
  /\ \A k \in 1 .. Len(lists) : g[k] \in Seq(S)
  /\ \A k \in 1 .. Len(lists) :
       g[k] = IF k = 1 THEN lists[k] ELSE g[k - 1] \o lists[k]

\* It starts with the first list and appends the others.
LEMMA FlattenedStep ==
  ASSUME NEW S, NEW lists \in Seq(Seq(S))
  PROVE  IsFlattened(FlattenedOf(lists), S, lists)
<1> DEFINE n == Len(lists)
           T == Seq(S)
           Def(g) == g = [k \in 1 .. n |->
                            IF k = 1 THEN lists[k] ELSE g[k - 1] \o lists[k]]
           step == [k \in 1 .. n |-> [s \in T |-> s \o lists[k]]]
<1>1. n \in Nat /\ \A k \in 1 .. n : lists[k] \in T
  OBVIOUS
<1>2. \A k \in 1 .. n : \A s \in T : s \o lists[k] \in T
  BY <1>1, ConcatProperties
<1>3. \E f \in [0 .. n -> T] : Iterates(f, n, <<>>, step)
  <2>1. step \in [1 .. n -> [T -> T]]
    BY <1>2
  <2>2. <<>> \in T
    OBVIOUS
  <2> HIDE DEF step, T, n
  <2> QED
    BY ONLY <1>1, <2>1, <2>2, Iteration
<1>4. PICK f \in [0 .. n -> T] : f[0] = <<>> /\ \A k \in 1 .. n : f[k] = f[k - 1] \o lists[k]
  <2>1. PICK f \in [0 .. n -> T] :
           f[0] = <<>> /\ \A k \in 1 .. n : f[k] = step[k][f[k - 1]]
    BY <1>3 DEF Iterates
  <2>2. ASSUME NEW k \in 1 .. n PROVE f[k] = f[k - 1] \o lists[k]
    <3>1. k - 1 \in 0 .. n
      BY <1>1
    <3> HIDE DEF T
    <3>2. f[k - 1] \in T
      BY <2>1, <3>1
    <3> QED
      BY <2>1, <3>2
  <2> HIDE DEF T, n, step
  <2> QED
    BY <2>1, <2>2
<1> DEFINE h == [k \in 1 .. n |-> f[k]]
<1>5. Def(h)
  <2>1. ASSUME NEW k \in 1 .. n
        PROVE  f[k] = IF k = 1 THEN lists[k] ELSE h[k - 1] \o lists[k]
    <3>1. f[k] = f[k - 1] \o lists[k]
      BY <1>4
    <3>2. CASE k = 1
      <4>1. f[k - 1] = <<>>
        BY <1>4, <3>2
      <4>2. <<>> \o lists[k] = lists[k]
        BY <1>1, ConcatEmptySeq
      <4> QED
        BY <3>1, <3>2, <4>1, <4>2
    <3>3. CASE k # 1
      <4>1. k - 1 \in 1 .. n
        BY <1>1, <3>3
      <4>2. h[k - 1] = f[k - 1]
        BY <4>1
      <4> QED
        BY <3>1, <3>3, <4>2
    <3> QED
      BY <3>2, <3>3
  <2> QED
    BY <2>1
<1> HIDE DEF h
<1>6. Def(FlattenedOf(lists))
  BY <1>5 DEF FlattenedOf
<1> DEFINE g == FlattenedOf(lists)
<1> HIDE DEF g
<1>7. \A k \in 1 .. n : g[k] = IF k = 1 THEN lists[k] ELSE g[k - 1] \o lists[k]
  <2>1. Def(g)
    BY <1>6 DEF g
  <2> HIDE DEF n
  <2> QED
    BY <2>1
<1>a. \A j \in 1 .. n, k \in 1 .. n : k = j + 1 => g[k] = g[j] \o lists[k]
  <2> SUFFICES ASSUME NEW j \in 1 .. n, NEW k \in 1 .. n, k = j + 1
               PROVE  g[k] = g[j] \o lists[k]
    OBVIOUS
  <2>1. k - 1 = j /\ k # 1
    BY <1>1
  <2> QED
    BY <1>7, <2>1
<1>8. \A k \in 1 .. n : g[k] \in T
  <2> DEFINE K == {k \in 0 .. n : k = 0 \/ g[k] \in T}
  <2>1. 0 \in K
    BY <1>1
  <2>2. \A k \in 0 .. n - 1 : k \in K => k + 1 \in K
    <3> SUFFICES ASSUME NEW k \in 0 .. n - 1, k \in K PROVE k + 1 \in K
      OBVIOUS
    <3>1. k + 1 \in 1 .. n /\ k + 1 - 1 = k /\ k + 1 \in 0 .. n /\ (k = 0 <=> k + 1 = 1)
      BY <1>1
    <3>2. lists[k + 1] \in T
      BY <1>1, <3>1
    <3>3. CASE k = 0
      <4>1. g[k + 1] = lists[k + 1]
        BY <1>7, <3>1, <3>3
      <4> QED
        BY <3>1, <3>2, <4>1
    <3>4. CASE k # 0
      <4>1. g[k + 1] = g[k] \o lists[k + 1]
        <5>1. k + 1 \in 1 .. n /\ k \in 1 .. n
          BY <1>1, <3>1, <3>4
        <5> HIDE DEF n
        <5> QED
          BY ONLY <5>1, <1>a
      <4>2. g[k] \in T
        BY <3>4
      <4>3. g[k] \o lists[k + 1] \in T
        BY <1>2, <3>1, <4>2
      <4> QED
        BY ONLY <3>1, <4>1, <4>3
    <3> QED
      BY <3>3, <3>4
  <2> HIDE DEF K
  <2>3. 0 .. n \subseteq K
    <3>1. n \in Nat
      BY <1>1
    <3> HIDE DEF n
    <3> QED
      BY ONLY <2>1, <2>2, <3>1, IntervalInduction
  <2>4. \A k \in 1 .. n : k \in 0 .. n /\ k # 0
    BY <1>1
  <2> QED
    BY <2>3, <2>4 DEF K
<1> QED
  BY <1>7, <1>8 DEF IsFlattened, g

\* From the first list on, each turn appends the next one.
AppendsNext(g, lists, n) ==
  /\ \A k \in 1 .. n : k = 1 => g[k] = lists[k]
  /\ \A j \in 1 .. n, k \in 1 .. n : k = j + 1 => g[k] = g[j] \o lists[k]

\* The loop does so.
LEMMA FlattenedGrows ==
  ASSUME NEW S, NEW lists, NEW n \in Nat, n = Len(lists), NEW g, IsFlattened(g, S, lists)
  PROVE  AppendsNext(g, lists, n)
<1> SUFFICES ASSUME NEW j \in 1 .. n, NEW k \in 1 .. n, k = j + 1
             PROVE  g[k] = g[j] \o lists[k]
  BY DEF IsFlattened, AppendsNext
<1>1. k - 1 = j /\ k # 1
  OBVIOUS
<1> QED
  BY <1>1 DEF IsFlattened

\* Flattening lists gives a list of their elements.
LEMMA FlattenType ==
  ASSUME NEW S, NEW lists \in Seq(Seq(S))
  PROVE  FlattenSeq(lists) \in Seq(S)
<1>1. Len(lists) \in Nat
  OBVIOUS
<1>2. CASE Len(lists) = 0
  <2>1. lists = <<>>
    BY <1>2
  <2>2. <<>> \in Seq(S)
    OBVIOUS
  <2> QED
    BY <1>2, <2>1, <2>2, FlattenSeqIsLast
<1>3. CASE Len(lists) # 0
  <2>1. Len(lists) \in 1 .. Len(lists)
    BY <1>1, <1>3
  <2>2. IsFlattened(FlattenedOf(lists), S, lists)
    BY FlattenedStep
  <2>3. FlattenedOf(lists)[Len(lists)] \in Seq(S)
    BY <2>1, <2>2 DEF IsFlattened
  <2> QED
    BY <1>3, <2>3, FlattenSeqIsLast
<1> QED
  BY <1>2, <1>3

\* One more list is put at the end.
LEMMA FlattenAppend ==
  ASSUME NEW S, NEW lists \in Seq(Seq(S)), NEW s \in Seq(S)
  PROVE  FlattenSeq(Append(lists, s)) = FlattenSeq(lists) \o s
<1> DEFINE more == Append(lists, s)
           n == Len(lists)
           f == FlattenedOf(lists)
           g == FlattenedOf(more)
<1>1. /\ more \in Seq(Seq(S)) /\ n \in Nat /\ Len(more) = n + 1 /\ more[n + 1] = s
      /\ \A k \in 1 .. n : more[k] = lists[k]
  OBVIOUS
<1>2. IsFlattened(f, S, lists)
  BY FlattenedStep
<1> HIDE DEF more
<1>3. IsFlattened(g, S, more)
  BY <1>1, FlattenedStep
<1> HIDE DEF f, g
<1>4. /\ \A k \in 1 .. n : k = 1 => f[k] = lists[k]
      /\ \A j \in 1 .. n, k \in 1 .. n : k = j + 1 => f[k] = f[j] \o lists[k]
  <2>1. AppendsNext(f, lists, n)
    BY <1>1, <1>2, FlattenedGrows
  <2> QED
    BY ONLY <2>1 DEF AppendsNext
<1>5. /\ \A k \in 1 .. n + 1 : k = 1 => g[k] = more[k]
      /\ \A j \in 1 .. n + 1, k \in 1 .. n + 1 :
           k = j + 1 => g[k] = g[j] \o more[k]
  <2>1. n + 1 \in Nat /\ n + 1 = Len(more)
    BY <1>1
  <2>2. AppendsNext(g, more, n + 1)
    BY <1>3, <2>1, FlattenedGrows
  <2> QED
    BY ONLY <2>2 DEF AppendsNext
<1>6. n + 1 \in 1 .. Len(more) /\ Len(more) # 0
  BY <1>1
<1>7. FlattenSeq(more) = g[n + 1]
  BY <1>1, <1>6, FlattenSeqIsLast DEF g
<1>8. CASE n = 0
  <2>1. lists = <<>>
    BY <1>8
  <2>2. FlattenSeq(lists) = <<>>
    BY <1>8, <2>1, FlattenSeqIsLast
  <2>3. g[n + 1] = s
    BY <1>1, <1>3, <1>6, <1>8 DEF IsFlattened
  <2>4. <<>> \o s = s
    BY ConcatEmptySeq
  <2> QED
    BY <1>7, <2>2, <2>3, <2>4 DEF more
<1>9. CASE n # 0
  <2>1. FlattenSeq(lists) = f[n]
    BY <1>9, FlattenSeqIsLast DEF f
  <2> DEFINE K == {k \in 0 .. n : k = 0 \/ f[k] = g[k]}
  <2>2. 0 \in K
    BY <1>1
  <2>3. \A k \in 0 .. n - 1 : k \in K => k + 1 \in K
    <3> SUFFICES ASSUME NEW k \in 0 .. n - 1, k \in K PROVE k + 1 \in K
      OBVIOUS
    <3>1. /\ k + 1 \in 1 .. n /\ k + 1 - 1 = k /\ k + 1 \in 0 .. n
          /\ k + 1 \in 1 .. n + 1 /\ (k = 0 <=> k + 1 = 1)
      BY <1>1
    <3>2. more[k + 1] = lists[k + 1]
      BY <1>1, <3>1
    <3>3. CASE k = 0
      <4>1. f[k + 1] = lists[k + 1] /\ g[k + 1] = more[k + 1]
        BY <1>4, <1>5, <3>1, <3>3
      <4> QED
        BY <3>1, <3>2, <4>1
    <3>4. CASE k # 0
      <4>1. /\ f[k + 1] = f[k] \o lists[k + 1]
            /\ g[k + 1] = g[k] \o more[k + 1]
        <5>1. /\ k + 1 \in 1 .. n /\ k + 1 \in 1 .. n + 1
              /\ k \in 1 .. n /\ k \in 1 .. n + 1
          BY <1>1, <3>1, <3>4
        <5> HIDE DEF n
        <5> QED
          BY ONLY <5>1, <1>4, <1>5
      <4>2. f[k] = g[k]
        BY <3>4
      <4>3. f[k + 1] = g[k + 1]
        BY ONLY <3>1, <3>2, <4>1, <4>2
      <4> QED
        BY <3>1, <4>3
    <3> QED
      BY <3>3, <3>4
  <2> HIDE DEF K
  <2>4. 0 .. n \subseteq K
    <3>1. n \in Nat
      BY <1>1
    <3> HIDE DEF n
    <3> QED
      BY ONLY <2>2, <2>3, <3>1, IntervalInduction
  <2>5. f[n] = g[n]
    <3>1. n \in 0 .. n
      BY <1>1
    <3> QED
      BY <1>9, <2>4, <3>1 DEF K
  <2>6. g[n + 1] = g[n] \o s
    <3>1. n + 1 \in 1 .. n + 1 /\ n + 1 # 1 /\ n + 1 - 1 = n
      BY <1>1, <1>9
    <3>3. g[n + 1] = g[n] \o more[n + 1]
      <4>1. n + 1 \in 1 .. n + 1 /\ n \in 1 .. n + 1
        BY <1>1, <1>9
      <4> HIDE DEF n
      <4> QED
        BY ONLY <1>5, <4>1
    <3> QED
      BY ONLY <1>1, <3>1, <3>3
  <2> QED
    BY <1>7, <2>1, <2>5, <2>6 DEF more
<1> QED
  BY <1>8, <1>9

\* Every element other than x stays in the list.
LEMMA WithoutKeeps ==
  ASSUME NEW S, NEW x, NEW s \in Seq(S), NEW p \in 1 .. Len(s), s[p] # x
  PROVE  \E j \in 1 .. Len(Without(x, s)) : Without(x, s)[j] = s[p]
<1> DEFINE g == WithoutsOf(x, s)
           n == Len(s)
           Has(k) == \E j \in 1 .. Len(g[k]) : g[k][j] = s[p]
<1>1. IsWithouts(g, S, x, s) /\ n \in Nat /\ Without(x, s) = g[n]
  BY WithoutsStep, WithoutIsLast
<1> HIDE DEF g
<1>2. ASSUME NEW k \in 1 .. n
      PROVE  /\ g[k - 1] \in Seq(S \ {x}) /\ s[k] \in S
             /\ s[k] = x => g[k] = g[k - 1]
             /\ s[k] # x => g[k] = Append(g[k - 1], s[k]) /\ s[k] \in S \ {x}
  <2>1. k - 1 \in 0 .. n
    BY <1>1
  <2>2. g[k - 1] \in Seq(S \ {x})
    <3>1. \A j \in 0 .. n : g[j] \in Seq(S \ {x})
      BY <1>1 DEF IsWithouts
    <3> QED
      BY <2>1, <3>1
  <2>3. g[k] = IF s[k] = x THEN g[k - 1] ELSE Append(g[k - 1], s[k])
    BY <1>1 DEF IsWithouts
  <2>4. s[k] \in S
    OBVIOUS
  <2> HIDE DEF n
  <2> QED
    BY ONLY <2>2, <2>3, <2>4
<1>3. ASSUME NEW k \in 1 .. n, k = p PROVE Has(k)
  <2> DEFINE h == g[k - 1]
  <2>1. h \in Seq(S \ {x}) /\ g[k] = Append(h, s[p]) /\ s[p] \in S \ {x}
    BY <1>2, <1>3
  <2> HIDE DEF h
  <2>2. Len(h) \in Nat /\ Len(g[k]) = Len(h) + 1 /\ g[k][Len(h) + 1] = s[p]
    BY <2>1
  <2>3. Len(h) + 1 \in 1 .. Len(g[k])
    BY <2>2
  <2> QED
    BY <2>2, <2>3
<1>4. ASSUME NEW k \in 1 .. n, Has(k - 1) PROVE Has(k)
  <2> DEFINE h == g[k - 1]
  <2>1. PICK j \in 1 .. Len(h) : h[j] = s[p]
    BY <1>4
  <2>2. h \in Seq(S \ {x})
    BY <1>2
  <2> HIDE DEF h
  <2>3. CASE s[k] = x
    <3>1. g[k] = h
      BY <1>2, <2>3 DEF h
    <3> QED
      BY <2>1, <3>1
  <2>4. CASE s[k] # x
    <3>1. g[k] = Append(h, s[k]) /\ s[k] \in S \ {x}
      BY <1>2, <2>4 DEF h
    <3>2. j \in 1 .. Len(g[k]) /\ g[k][j] = h[j]
      BY <2>1, <2>2, <3>1
    <3> QED
      BY <2>1, <3>2
  <2> QED
    BY <2>3, <2>4
<1> HIDE DEF Has
<1> DEFINE K == {k \in 0 .. n : k >= p => Has(k)}
<1>5. 0 \in K
  BY <1>1
<1>6. ASSUME NEW k \in 0 .. n - 1, k \in K PROVE k + 1 \in K
  <2>1. k + 1 \in 1 .. n /\ k + 1 - 1 = k /\ k + 1 \in 0 .. n
    BY <1>1
  <2>2. CASE k + 1 = p
    BY <1>3, <2>1, <2>2
  <2>3. CASE k + 1 # p
    <3>1. k + 1 >= p => k >= p
      BY <1>1, <2>3
    <3>2. Has(k) => Has(k + 1)
      <4>1. Has(k + 1 - 1) => Has(k + 1)
        BY <1>4, <2>1
      <4> QED
        BY <2>1, <4>1
    <3> QED
      BY <1>6, <2>1, <3>1, <3>2
  <2> QED
    BY <2>2, <2>3
<1> HIDE DEF K
<1>7. 0 .. n \subseteq K
  <2> HIDE DEF n
  <2> QED
    BY ONLY <1>1, <1>5, <1>6, IntervalInduction
<1>8. n \in 0 .. n /\ n >= p
  BY <1>1
<1> QED
  BY <1>1, <1>7, <1>8 DEF K, Has

\* What a concatenation contains.
LEMMA ContainsConcat ==
  ASSUME NEW S, NEW r \in Seq(S), NEW s \in Seq(S), NEW x
  PROVE  Contains(r \o s, x) <=> Contains(r, x) \/ Contains(s, x)
<1> DEFINE u == r \o s
           m == Len(r)
           n == Len(s)
<1>1. /\ m \in Nat /\ n \in Nat /\ Len(u) = m + n
      /\ \A k \in 1 .. m : u[k] = r[k]
      /\ \A k \in 1 .. n : u[m + k] = s[k]
      /\ \A k \in 1 .. m + n : k \in 1 .. m \/ \E j \in 1 .. n : k = m + j
  BY ConcatElements
<1> HIDE DEF u
<1>2. ASSUME NEW k \in 1 .. m PROVE k \in 1 .. m + n
  BY <1>1
<1>3. ASSUME NEW k \in 1 .. n PROVE m + k \in 1 .. m + n
  BY <1>1
<1>4. ASSUME Contains(u, x) PROVE Contains(r, x) \/ Contains(s, x)
  <2>1. PICK k \in 1 .. m + n : u[k] = x
    BY <1>1, <1>4 DEF Contains
  <2>2. CASE k \in 1 .. m
    BY <1>1, <2>1, <2>2 DEF Contains
  <2>3. CASE \E j \in 1 .. n : k = m + j
    <3>1. PICK j \in 1 .. n : k = m + j
      BY <2>3
    <3>2. s[j] = x
      BY <1>1, <2>1, <3>1
    <3> QED
      BY <3>2 DEF Contains
  <2> QED
    BY <1>1, <2>2, <2>3
<1>5. ASSUME Contains(r, x) PROVE Contains(u, x)
  <2>1. PICK k \in 1 .. m : r[k] = x
    BY <1>5 DEF Contains
  <2>2. k \in 1 .. Len(u) /\ u[k] = x
    BY <1>1, <1>2, <2>1
  <2> QED
    BY <2>2 DEF Contains
<1>6. ASSUME Contains(s, x) PROVE Contains(u, x)
  <2>1. PICK k \in 1 .. n : s[k] = x
    BY <1>6 DEF Contains
  <2>2. m + k \in 1 .. Len(u) /\ u[m + k] = x
    BY <1>1, <1>3, <2>1
  <2> QED
    BY <2>2 DEF Contains
<1> QED
  BY <1>4, <1>5, <1>6 DEF u

\* An element comes twice in a list.
Twice(s, x) == \E i, j \in 1 .. Len(s) : i # j /\ s[i] = x /\ s[j] = x

\* What comes twice in a concatenation.
LEMMA TwiceConcat ==
  ASSUME NEW S, NEW r \in Seq(S), NEW s \in Seq(S), NEW x,
         Twice(r, x) \/ Twice(s, x) \/ (Contains(r, x) /\ Contains(s, x))
  PROVE  Twice(r \o s, x)
<1> DEFINE u == r \o s
           m == Len(r)
           n == Len(s)
<1>1. /\ m \in Nat /\ n \in Nat /\ Len(u) = m + n
      /\ \A k \in 1 .. m : u[k] = r[k]
      /\ \A k \in 1 .. n : u[m + k] = s[k]
  BY ConcatElements
<1> HIDE DEF u
<1>2. ASSUME NEW k \in 1 .. m PROVE k \in 1 .. Len(u) /\ u[k] = r[k]
  BY <1>1
<1>3. ASSUME NEW k \in 1 .. n PROVE m + k \in 1 .. Len(u) /\ u[m + k] = s[k]
  BY <1>1
<1>4. CASE Twice(r, x)
  <2>1. PICK i \in 1 .. m, j \in 1 .. m : i # j /\ r[i] = x /\ r[j] = x
    BY <1>4 DEF Twice
  <2>2. /\ i \in 1 .. Len(u) /\ j \in 1 .. Len(u) /\ i # j /\ u[i] = x /\ u[j] = x
    BY <1>2, <2>1
  <2>3. Twice(u, x)
    BY <2>2 DEF Twice
  <2> QED
    BY <2>3 DEF u
<1>5. CASE Twice(s, x)
  <2>1. PICK i \in 1 .. n, j \in 1 .. n : i # j /\ s[i] = x /\ s[j] = x
    BY <1>5 DEF Twice
  <2>2. /\ m + i \in 1 .. Len(u) /\ m + j \in 1 .. Len(u) /\ m + i # m + j
        /\ u[m + i] = x /\ u[m + j] = x
    BY <1>1, <1>3, <2>1
  <2>3. Twice(u, x)
    BY <2>2 DEF Twice
  <2> QED
    BY <2>3 DEF u
<1>6. CASE Contains(r, x) /\ Contains(s, x)
  <2>1. PICK i \in 1 .. m, j \in 1 .. n : r[i] = x /\ s[j] = x
    BY <1>6 DEF Contains
  <2>2. /\ i \in 1 .. Len(u) /\ m + j \in 1 .. Len(u) /\ i # m + j
        /\ u[i] = x /\ u[m + j] = x
    BY <1>1, <1>2, <1>3, <2>1
  <2>3. Twice(u, x)
    BY <2>2 DEF Twice
  <2> QED
    BY <2>3 DEF u
<1> QED
  BY <1>4, <1>5, <1>6

\* A concatenation of lists without repetition or common elements has none.
LEMMA InjectiveConcat ==
  ASSUME NEW S, NEW r \in Seq(S), NEW s \in Seq(S), IsInjective(r), IsInjective(s),
         \A x : ~(Contains(r, x) /\ Contains(s, x))
  PROVE  IsInjective(r \o s)
<1> DEFINE u == r \o s
           m == Len(r)
           n == Len(s)
<1>1. /\ m \in Nat /\ n \in Nat /\ Len(u) = m + n /\ u \in Seq(S)
      /\ \A k \in 1 .. m : u[k] = r[k]
      /\ \A k \in 1 .. n : u[m + k] = s[k]
      /\ \A k \in 1 .. m + n : k \in 1 .. m \/ \E j \in 1 .. n : k = m + j
  BY ConcatElements
<1>2. DOMAIN r = 1 .. m /\ DOMAIN s = 1 .. n
  OBVIOUS
<1> HIDE DEF u
<1>3. DOMAIN u = 1 .. m + n
  BY <1>1
<1>4. ASSUME NEW i \in 1 .. m, NEW j \in 1 .. n PROVE r[i] # s[j]
  <2>1. Contains(r, r[i])
    BY DEF Contains
  <2>2. r[i] = s[j] => Contains(s, r[i])
    BY DEF Contains
  <2> QED
    BY <2>1, <2>2
<1>5. ASSUME NEW a \in 1 .. m + n, NEW b \in 1 .. m + n, u[a] = u[b] PROVE a = b
  <2>1. CASE a \in 1 .. m /\ b \in 1 .. m
    BY <1>1, <1>2, <1>5, <2>1 DEF IsInjective
  <2>2. CASE a \in 1 .. m /\ \E j \in 1 .. n : b = m + j
    BY <1>1, <1>4, <1>5, <2>2
  <2>3. CASE b \in 1 .. m /\ \E j \in 1 .. n : a = m + j
    BY <1>1, <1>4, <1>5, <2>3
  <2>4. CASE (\E j \in 1 .. n : a = m + j) /\ \E j \in 1 .. n : b = m + j
    <3>1. PICK i \in 1 .. n : a = m + i
      BY <2>4
    <3>2. PICK j \in 1 .. n : b = m + j
      BY <2>4
    <3>3. s[i] = s[j]
      BY <1>1, <1>5, <3>1, <3>2
    <3>4. i = j
      BY <1>2, <3>3 DEF IsInjective
    <3> QED
      BY <3>1, <3>2, <3>4
  <2> QED
    BY <1>1, <2>1, <2>2, <2>3, <2>4
<1>6. IsInjective(u)
  BY <1>3, <1>5 DEF IsInjective
<1> QED
  BY <1>6 DEF u

\* The list t between two elements x.
IsFramed(u, S, x, t) ==
  /\ u \in Seq(S) /\ Len(u) = Len(t) + 2
  /\ u[1] = x /\ u[Len(t) + 2] = x
  /\ \A k \in 1 .. Len(t) : u[k + 1] = t[k]

\* What such a list is.
LEMMA FramedList ==
  ASSUME NEW S, NEW t \in Seq(S), NEW x \in S
  PROVE  IsFramed((<<x>> \o t) \o <<x>>, S, x, t)
<1> DEFINE e == <<x>>
           n == Len(t)
           c == e \o t
           u == c \o e
<1>1. e \in Seq(S) /\ Len(e) = 1 /\ e[1] = x /\ n \in Nat
  OBVIOUS
<1>2. /\ c \in Seq(S) /\ Len(c) = n + 1 /\ c[1] = x
      /\ \A k \in 1 .. n : c[k + 1] = t[k]
  BY ConsElements
<1> HIDE DEF e, c, n
<1>3. /\ u \in Seq(S) /\ Len(u) = Len(c) + Len(e)
      /\ \A k \in 1 .. Len(c) : u[k] = c[k]
      /\ \A k \in 1 .. Len(e) : u[Len(c) + k] = e[k]
  <2>1. c \in Seq(S) /\ e \in Seq(S)
    BY <1>1, <1>2
  <2> QED
    BY ONLY <2>1, ConcatElements
<1> HIDE DEF u
<1>4. Len(u) = n + 2 /\ 1 \in 1 .. Len(c) /\ 1 \in 1 .. Len(e) /\ Len(c) + 1 = n + 2
  BY <1>1, <1>2, <1>3
<1>5. u[1] = x /\ u[n + 2] = x
  <2>1. u[1] = c[1] /\ u[Len(c) + 1] = e[1]
    BY <1>3, <1>4
  <2> QED
    BY <1>1, <1>2, <1>4, <2>1
<1>6. ASSUME NEW k \in 1 .. n PROVE u[k + 1] = t[k]
  <2>1. k + 1 \in 1 .. Len(c)
    BY <1>1, <1>2
  <2>2. u[k + 1] = c[k + 1] /\ c[k + 1] = t[k]
    BY <1>2, <1>3, <2>1
  <2> QED
    BY <2>2
<1>7. IsFramed(u, S, x, t)
  BY <1>3, <1>4, <1>5, <1>6 DEF IsFramed, n
<1> QED
  BY <1>7 DEF u, c, e

-----------------------------------------------------------------------------
(***************************************************************************)
(* Lists in two arrays of neighbours, for every number of customers and    *)
(* all arrays that are inverse to each other and free of cycles.           *)
(***************************************************************************)

\* Every set of customers has a member whose successor is outside of it.
NoCycle(next, n) ==
  \A S \in SUBSET (1 .. n) : S # {} => \E c \in S : next[c] \notin S

\* What the arrays of a savings heuristic always satisfy.
Linked(next, prev, n) ==
  /\ n \in Nat
  /\ next \in [1 .. n -> 0 .. n] /\ prev \in [1 .. n -> 0 .. n]
  /\ \A a, b \in 1 .. n : next[a] = b <=> prev[b] = a
  /\ NoCycle(next, n)

\* A sequence of customers that follows next to its end.
IsWalk(next, n, t) ==
  /\ t \in Seq(1 .. n) /\ Len(t) >= 1
  /\ \A k \in 1 .. Len(t) - 1 : next[t[k]] = t[k + 1]
  /\ next[t[Len(t)]] = 0

\* A whole route: the walk from a customer no one precedes.
IsChain(next, prev, n, t) == IsWalk(next, n, t) /\ prev[t[1]] = 0

\* The places a walk from c comes to.
IsPlaces(f, next, n, c) ==
  /\ f \in [0 .. n -> 0 .. n]
  /\ f[0] = c
  /\ \A k \in 1 .. n : f[k] = IF f[k - 1] = 0 THEN 0 ELSE next[f[k - 1]]

\* The places of a walk: each follows from the one before, and no customer
\* comes after the depot.
LEMMA PlacesStep ==
  ASSUME NEW n \in Nat, NEW next \in [1 .. n -> 0 .. n], NEW c \in 1 .. n
  PROVE  IsPlaces(Places(next, n, c), next, n, c)
<1> DEFINE Def(g) == g = [k \in 0 .. n |->
                            IF k = 0 THEN c
                            ELSE IF g[k - 1] = 0 THEN 0 ELSE next[g[k - 1]]]
           step == [k \in 1 .. n |->
                      [x \in 0 .. n |-> IF x = 0 THEN 0 ELSE next[x]]]
<1>1. \E f \in [0 .. n -> 0 .. n] : Iterates(f, n, c, step)
  <2>1. step \in [1 .. n -> [0 .. n -> 0 .. n]]
    <3>1. \A x \in 0 .. n : (IF x = 0 THEN 0 ELSE next[x]) \in 0 .. n
      OBVIOUS
    <3> QED
      BY <3>1
  <2>2. c \in 0 .. n
    OBVIOUS
  <2> HIDE DEF step
  <2> QED
    BY ONLY <2>1, <2>2, n \in Nat, Iteration
<1>2. PICK f \in [0 .. n -> 0 .. n] :
        f[0] = c /\ \A k \in 1 .. n : f[k] = step[k][f[k - 1]]
  BY <1>1 DEF Iterates
<1>3. ASSUME NEW k \in 1 .. n
      PROVE  f[k] = IF f[k - 1] = 0 THEN 0 ELSE next[f[k - 1]]
  <2>1. k - 1 \in 0 .. n
    OBVIOUS
  <2>2. f[k - 1] \in 0 .. n
    BY <2>1
  <2> QED
    BY <1>2, <2>2
<1>4. Def(f)
  <2>1. f = [k \in 0 .. n |-> f[k]]
    OBVIOUS
  <2>2. \A k \in 0 .. n : k = 0 \/ k \in 1 .. n
    OBVIOUS
  <2>3. \A k \in 0 .. n :
          f[k] = IF k = 0 THEN c ELSE IF f[k - 1] = 0 THEN 0 ELSE next[f[k - 1]]
    BY <1>2, <1>3, <2>2
  <2> HIDE DEF step
  <2> QED
    BY <2>1, <2>3
<1>5. Def(Places(next, n, c))
  BY <1>4 DEF Places
<1> DEFINE g == Places(next, n, c)
<1> HIDE DEF g, step
<1>6. g = [k \in 0 .. n |-> g[k]]
  <2>1. Def(g)
    BY <1>5 DEF g
  <2> QED
    BY <2>1
<1>7. /\ g[0] = c
      /\ \A k \in 1 .. n : g[k] = IF g[k - 1] = 0 THEN 0 ELSE next[g[k - 1]]
  <2>1. Def(g)
    BY <1>5 DEF g
  <2>2. \A k \in 0 .. n :
          g[k] = IF k = 0 THEN c ELSE IF g[k - 1] = 0 THEN 0 ELSE next[g[k - 1]]
    BY <2>1
  <2>3. 0 \in 0 .. n /\ \A k \in 1 .. n : k \in 0 .. n /\ k # 0
    OBVIOUS
  <2> QED
    BY <2>2, <2>3
<1>8. \A k \in 0 .. n : g[k] \in 0 .. n
  <2> DEFINE S == {k \in 0 .. n : g[k] \in 0 .. n}
  <2>1. 0 \in S
    <3>1. g[0] = c /\ 0 \in 0 .. n /\ c \in 0 .. n
      BY <1>7
    <3>2. g[0] \in 0 .. n
      BY ONLY <3>1
    <3> QED
      BY <3>1, <3>2
  <2>2. ASSUME NEW k \in 0 .. n - 1, k \in S PROVE k + 1 \in S
    <3>1. k + 1 \in 1 .. n /\ k + 1 - 1 = k
      OBVIOUS
    <3>2. g[k + 1] = IF g[k] = 0 THEN 0 ELSE next[g[k]]
      BY <1>7, <3>1
    <3>3. g[k] \in 0 .. n
      BY <2>2
    <3>4. g[k + 1] \in 0 .. n
      <4>1. CASE g[k] = 0
        BY <3>2, <3>3, <4>1
      <4>2. CASE g[k] # 0
        <5>1. g[k] \in 1 .. n
          BY <3>3, <4>2
        <5>2. next[g[k]] \in 0 .. n
          BY <5>1
        <5> QED
          BY <3>2, <4>2, <5>2
      <4> QED
        BY <4>1, <4>2
    <3> QED
      BY <3>1, <3>4
  <2> HIDE DEF S
  <2>3. 0 .. n \subseteq S
    BY <2>1, <2>2, IntervalInduction
  <2> QED
    BY <2>3 DEF S
<1> QED
  BY <1>6, <1>7, <1>8 DEF g, IsPlaces

\* Sooner or later the walk comes to the depot, for otherwise it would come to
\* some customer twice, and those in between would be a cycle.
LEMMA WalkEndsAtDepot ==
  ASSUME NEW n \in Nat, NEW next \in [1 .. n -> 0 .. n],
         NoCycle(next, n), NEW c, NEW f, IsPlaces(f, next, n, c)
  PROVE  \E k \in 0 .. n : f[k] = 0
<1> SUFFICES ASSUME \A k \in 0 .. n : f[k] # 0 PROVE FALSE
  OBVIOUS
<1>1. f \in [0 .. n -> 1 .. n]
  <2>1. f \in [0 .. n -> 0 .. n]
    BY DEF IsPlaces
  <2> QED
    BY <2>1
<1>2. IsFiniteSet(0 .. n) /\ Cardinality(0 .. n) = n + 1
  BY FS_Interval
<1>3. IsFiniteSet(1 .. n) /\ Cardinality(1 .. n) = n
  BY FS_Interval
<1>4. \E x, y \in 0 .. n : x # y /\ f[x] = f[y]
  <2>1. Cardinality(1 .. n) < Cardinality(0 .. n)
    BY <1>2, <1>3
  <2> QED
    BY ONLY <1>1, <1>2, <1>3, <2>1, FS_PigeonHole
<1>5. PICK i \in 0 .. n, j \in 0 .. n : i < j /\ f[i] = f[j]
  <2>1. PICK x \in 0 .. n, y \in 0 .. n : x # y /\ f[x] = f[y]
    BY <1>4
  <2> QED
    BY <2>1
<1> DEFINE S == {f[k] : k \in i .. j - 1}
<1>6. S \in SUBSET (1 .. n) /\ S # {}
  <2>1. i \in i .. j - 1 /\ \A k \in i .. j - 1 : k \in 0 .. n
    BY <1>5
  <2> QED
    BY <1>1, <2>1
<1>7. ASSUME NEW k \in i .. j - 1 PROVE next[f[k]] \in S
  <2>1. k + 1 \in 1 .. n /\ k + 1 - 1 = k /\ k \in 0 .. n
    BY <1>5
  <2>2. f[k + 1] = next[f[k]]
    <3>1. \A m \in 1 .. n : f[m] = IF f[m - 1] = 0 THEN 0 ELSE next[f[m - 1]]
      BY DEF IsPlaces
    <3>2. f[k] # 0
      BY <2>1
    <3>3. f[k + 1] = IF f[k + 1 - 1] = 0 THEN 0 ELSE next[f[k + 1 - 1]]
      BY ONLY <2>1, <3>1
    <3> QED
      BY ONLY <2>1, <3>2, <3>3
  <2>3. CASE k + 1 = j
    BY <1>5, <2>2, <2>3
  <2>4. CASE k + 1 < j
    BY <2>2, <2>4
  <2> QED
    BY <1>5, <2>3, <2>4
<1>8. \A x \in S : next[x] \in S
  BY <1>7
<1> HIDE DEF S
<1> QED
  BY <1>6, <1>8 DEF NoCycle

\* The steps before the walk comes to the depot.
Earlier(f, n) == {k \in 0 .. n : f[k] # 0}

\* Up to there it comes to customers only, and stays at the depot afterwards.
LEMMA PlacesUntilDepot ==
  ASSUME NEW n \in Nat, NEW next \in [1 .. n -> 0 .. n], NoCycle(next, n),
         NEW c \in 1 .. n, NEW f, IsPlaces(f, next, n, c)
  PROVE  \E m \in 1 .. n : Earlier(f, n) = 0 .. m - 1
<1> DEFINE K == {k \in 0 .. n : f[k] # 0}
<1>1. PICK z \in 0 .. n : f[z] = 0
  BY WalkEndsAtDepot
<1>2. 0 \in K
  BY DEF IsPlaces
<1>3. \A k \in 1 .. n : f[k] = IF f[k - 1] = 0 THEN 0 ELSE next[f[k - 1]]
  BY DEF IsPlaces
<1>4. PICK m \in 1 .. n : m - 1 \in K /\ m \notin K
  <2> HIDE DEF K
  <2>1. SUFFICES ASSUME \A m \in 1 .. n : ~(m - 1 \in K /\ m \notin K) PROVE FALSE
    OBVIOUS
  <2>2. ASSUME NEW k \in 0 .. n - 1, k \in K PROVE k + 1 \in K
    <3>1. k + 1 \in 1 .. n /\ k + 1 - 1 = k
      OBVIOUS
    <3> QED
      BY <2>1, <2>2, <3>1
  <2>3. 0 .. n \subseteq K
    BY ONLY <1>2, <2>2, n \in Nat, IntervalInduction
  <2>4. z \in K
    BY <2>3
  <2> QED
    BY <1>1, <2>4 DEF K
<1>5. 0 .. m - 1 \subseteq K
  <2> DEFINE S == {k \in 0 .. m - 1 : m - 1 - k \in K}
  <2>1. 0 \in S
    <3>1. m - 1 - 0 = m - 1 /\ 0 \in 0 .. m - 1
      OBVIOUS
    <3> HIDE DEF K
    <3> QED
      BY <1>4, <3>1
  <2>2. ASSUME NEW k \in 0 .. m - 1 - 1, k \in S PROVE k + 1 \in S
    <3> DEFINE j == m - 1 - k
    <3>1. /\ j \in 1 .. n /\ j - 1 = m - 1 - (k + 1) /\ k + 1 \in 0 .. m - 1
          /\ j - 1 \in 0 .. n
      OBVIOUS
    <3>2. f[j] # 0
      BY <2>2
    <3> HIDE DEF j
    <3>3. f[j - 1] # 0
      BY ONLY <1>3, <3>1, <3>2
    <3> QED
      BY <3>1, <3>3
  <2>3. 0 .. m - 1 \subseteq S
    <3> HIDE DEF S
    <3>1. m - 1 \in Nat
      OBVIOUS
    <3> QED
      BY ONLY <2>1, <2>2, <3>1, IntervalInduction
  <2>4. ASSUME NEW k \in 0 .. m - 1 PROVE k \in K
    <3>1. m - 1 - k \in 0 .. m - 1 /\ m - 1 - (m - 1 - k) = k
      OBVIOUS
    <3>2. m - 1 - (m - 1 - k) \in K
      <4> HIDE DEF K
      <4> QED
        BY <2>3, <3>1
    <3> QED
      BY <3>1, <3>2
  <2> QED
    BY <2>4
<1>6. \A k \in m .. n : f[k] = 0
  <2> DEFINE S == {k \in 0 .. n - m : f[m + k] = 0}
  <2>1. 0 \in S
    <3>1. m + 0 = m /\ 0 \in 0 .. n - m
      OBVIOUS
    <3>2. f[m] = 0
      BY <1>4
    <3> QED
      BY <3>1, <3>2
  <2>2. ASSUME NEW k \in 0 .. n - m - 1, k \in S PROVE k + 1 \in S
    <3> DEFINE j == m + k + 1
    <3>1. j \in 1 .. n /\ j - 1 = m + k /\ j = m + (k + 1) /\ k + 1 \in 0 .. n - m
      OBVIOUS
    <3>2. f[m + k] = 0
      BY <2>2
    <3> HIDE DEF j
    <3>3. f[j] = 0
      BY ONLY <1>3, <3>1, <3>2
    <3> QED
      BY <3>1, <3>3
  <2>3. 0 .. n - m \subseteq S
    <3> HIDE DEF S
    <3>1. n - m \in Nat
      OBVIOUS
    <3> QED
      BY ONLY <2>1, <2>2, <3>1, IntervalInduction
  <2>4. ASSUME NEW k \in m .. n PROVE f[k] = 0
    <3>1. k - m \in 0 .. n - m /\ m + (k - m) = k
      OBVIOUS
    <3>2. f[m + (k - m)] = 0
      BY <2>3, <3>1
    <3> QED
      BY <3>1, <3>2
  <2> QED
    BY <2>4
<1>7. K = 0 .. m - 1
  <2>1. ASSUME NEW k \in K PROVE k \in 0 .. m - 1
    <3>1. k \in 0 .. n /\ f[k] # 0
      OBVIOUS
    <3>2. k \notin m .. n
      BY <1>6, <3>1
    <3> QED
      BY <3>1, <3>2
  <2> QED
    BY <1>5, <2>1
<1> QED
  BY <1>7 DEF Earlier

\* ChainAlong follows the array from c to the end.
LEMMA ChainAlongWalks ==
  ASSUME NEW n \in Nat, NEW next \in [1 .. n -> 0 .. n], NoCycle(next, n),
         NEW c \in 1 .. n
  PROVE  /\ IsWalk(next, n, ChainAlong(next, n, c))
         /\ ChainAlong(next, n, c)[1] = c
        /\ Len(ChainAlong(next, n, c)) \in 1 .. n
<1> DEFINE f == Places(next, n, c)
           t == ChainAlong(next, n, c)
<1>1. IsPlaces(f, next, n, c)
  BY PlacesStep
<1> HIDE DEF f
<1>2. PICK m \in 1 .. n : Earlier(f, n) = 0 .. m - 1
  BY <1>1, PlacesUntilDepot
<1>3. Cardinality(0 .. m - 1) = m
  <2>1. 0 \in Int /\ m - 1 \in Int /\ ~(0 > m - 1) /\ m - 1 - 0 + 1 = m
    OBVIOUS
  <2> QED
    BY <2>1, FS_Interval
<1>4. t = [k \in 1 .. m |-> f[k - 1]]
  BY <1>2, <1>3 DEF f, Earlier, ChainAlong
<1> HIDE DEF t
<1>5. f[0] = c /\ \A k \in 1 .. n : f[k] = IF f[k - 1] = 0 THEN 0 ELSE next[f[k - 1]]
  BY <1>1 DEF IsPlaces
<1>6. f \in [0 .. n -> 0 .. n]
  BY <1>1 DEF IsPlaces
<1>7. ASSUME NEW k \in 0 .. m - 1 PROVE f[k] \in 1 .. n
  <2>1. k \in {i \in 0 .. n : f[i] # 0}
    BY <1>2 DEF Earlier
  <2>2. f[k] # 0 /\ k \in 0 .. n
    BY <2>1
  <2>3. f[k] \in 0 .. n
    BY <1>6, <2>2
  <2> QED
    BY <2>2, <2>3
<1>8. t \in [1 .. m -> 1 .. n]
  <2>1. \A k \in 1 .. m : k - 1 \in 0 .. m - 1
    OBVIOUS
  <2> QED
    BY <1>4, <1>7, <2>1
<1>9. t \in Seq(1 .. n) /\ Len(t) = m
  BY <1>8
<1>10. t[1] = c
  BY <1>4, <1>5
<1>11. ASSUME NEW k \in 1 .. m - 1 PROVE next[t[k]] = t[k + 1]
  <2>1. k \in 1 .. m /\ k + 1 \in 1 .. m /\ k + 1 - 1 = k /\ k \in 1 .. n /\ k - 1 \in 0 .. m - 1
    OBVIOUS
  <2>2. t[k] = f[k - 1] /\ t[k + 1] = f[k]
    BY <1>4, <2>1
  <2>3. f[k - 1] # 0
    BY <1>7, <2>1
  <2>4. f[k] = next[f[k - 1]]
    BY ONLY <1>5, <2>1, <2>3
  <2> QED
    BY <2>2, <2>4
<1>12. next[t[m]] = 0
  <2>1. m \in 0 .. n /\ m \notin 0 .. m - 1 /\ m - 1 \in 0 .. m - 1
    OBVIOUS
  <2>2. f[m] = 0
    BY <1>2, <2>1 DEF Earlier
  <2>3. f[m - 1] # 0
    BY <1>7, <2>1
  <2>4. f[m] = next[f[m - 1]]
    BY ONLY <1>5, <2>3, m \in 1 .. n
  <2> QED
    BY <1>4, <2>2, <2>4
<1> QED
  BY <1>9, <1>10, <1>11, <1>12 DEF IsWalk, t

\* There is only one walk from each customer.
LEMMA SameWalk ==
  ASSUME NEW n \in Nat, NEW next \in [1 .. n -> 0 .. n],
         NEW t, IsWalk(next, n, t), NEW u, IsWalk(next, n, u), t[1] = u[1]
  PROVE  t = u
<1>1. /\ t \in Seq(1 .. n) /\ Len(t) >= 1
      /\ \A k \in 1 .. Len(t) - 1 : next[t[k]] = t[k + 1]
      /\ next[t[Len(t)]] = 0
  BY DEF IsWalk
<1>10. Len(t) \in Nat /\ \A k \in 1 .. Len(t) : t[k] \in 1 .. n /\ t[k] # 0
  BY <1>1
<1>2. /\ u \in Seq(1 .. n) /\ Len(u) >= 1
      /\ \A k \in 1 .. Len(u) - 1 : next[u[k]] = u[k + 1]
      /\ next[u[Len(u)]] = 0
  BY DEF IsWalk
<1>11. Len(u) \in Nat /\ \A k \in 1 .. Len(u) : u[k] \in 1 .. n /\ u[k] # 0
  BY <1>2
<1> DEFINE S == {k \in 0 .. Len(t) - 1 : k + 1 <= Len(u) /\ u[k + 1] = t[k + 1]}
<1>3. 0 \in S
  BY <1>1, <1>2
<1>4. ASSUME NEW k \in 0 .. Len(t) - 1 - 1, k \in S PROVE k + 1 \in S
  <2>1. /\ k + 1 <= Len(u) /\ u[k + 1] = t[k + 1]
        /\ k + 1 \in 1 .. Len(t) - 1 /\ k + 1 \in 0 .. Len(t) - 1
        /\ k + 1 + 1 \in 1 .. Len(t)
    BY <1>1, <1>4
  <2>2. next[t[k + 1]] = t[k + 1 + 1] /\ t[k + 1 + 1] # 0
    BY ONLY <1>1, <1>10, <2>1
  <2>3. k + 1 # Len(u)
    BY <1>2, <2>1, <2>2
  <2>4. k + 1 \in 1 .. Len(u) - 1 /\ k + 1 + 1 <= Len(u)
    BY <1>2, <2>1, <2>3
  <2>5. next[u[k + 1]] = u[k + 1 + 1]
    BY <1>2, <2>4
  <2> QED
    BY <2>1, <2>2, <2>4, <2>5
<1>5. 0 .. Len(t) - 1 \subseteq S
  <2>1. Len(t) - 1 \in Nat
    BY <1>1
  <2> HIDE DEF S
  <2> QED
    BY ONLY <1>3, <1>4, <2>1, IntervalInduction
<1>6. \A k \in 1 .. Len(t) : k <= Len(u) /\ u[k] = t[k]
  <2>1. ASSUME NEW k \in 1 .. Len(t) PROVE k <= Len(u) /\ u[k] = t[k]
    <3>1. k - 1 \in 0 .. Len(t) - 1 /\ k - 1 + 1 = k
      BY <1>1
    <3>2. k - 1 \in S
      BY <1>5, <3>1
    <3> QED
      BY <3>1, <3>2
  <2> QED
    BY <2>1
<1> HIDE DEF S
<1>7. Len(t) <= Len(u) /\ u[Len(t)] = t[Len(t)]
  BY <1>1, <1>6
<1>8. Len(t) = Len(u)
  <2>1. SUFFICES ASSUME Len(t) < Len(u) PROVE FALSE
    BY <1>1, <1>2, <1>7
  <2>2. Len(t) \in 1 .. Len(u) - 1 /\ Len(t) + 1 \in 1 .. Len(u)
    BY <1>10, <1>11, <1>1, <2>1
  <2>3. next[u[Len(t)]] = u[Len(t) + 1] /\ u[Len(t) + 1] # 0
    BY ONLY <1>2, <1>11, <2>2
  <2> QED
    BY <1>1, <1>7, <2>3
<1>9. \A k \in 1 .. Len(t) : t[k] = u[k]
  BY <1>6
<1> QED
  BY ONLY <1>1, <1>2, <1>8, <1>9, SeqEqual

\* What a chain is, spelt out.
LEMMA ChainParts ==
  ASSUME NEW n, NEW next, NEW prev, Linked(next, prev, n),
         NEW t, IsChain(next, prev, n, t)
  PROVE  /\ t \in Seq(1 .. n) /\ Len(t) \in 1 .. n /\ n \in Nat /\ Len(t) \in Nat
         /\ \A k \in 1 .. Len(t) : t[k] \in 1 .. n /\ t[k] # 0
         /\ \A k \in 1 .. Len(t) - 1 : next[t[k]] = t[k + 1]
         /\ \A k \in 1 .. Len(t) - 1 : prev[t[k + 1]] = t[k]
         /\ prev[t[1]] = 0 /\ next[t[Len(t)]] = 0
         /\ t[1] \in 1 .. n /\ t[Len(t)] \in 1 .. n
<1>0. /\ n \in Nat /\ t \in Seq(1 .. n) /\ Len(t) >= 1
      /\ \A k \in 1 .. Len(t) - 1 : next[t[k]] = t[k + 1]
      /\ prev[t[1]] = 0 /\ next[t[Len(t)]] = 0
  BY DEF Linked, IsChain, IsWalk
<1>5. Len(t) \in 1 .. n
  <2> DEFINE u == ChainAlong(next, n, t[1])
  <2>1. t[1] \in 1 .. n
    BY <1>0
  <2>2. next \in [1 .. n -> 0 .. n] /\ NoCycle(next, n) /\ IsWalk(next, n, t)
    BY DEF Linked, IsChain
  <2>3. IsWalk(next, n, u) /\ u[1] = t[1] /\ Len(u) \in 1 .. n
    BY <1>0, <2>1, <2>2, ChainAlongWalks
  <2>4. u = t
    BY <1>0, <2>2, <2>3, SameWalk
  <2> QED
    BY <2>3, <2>4
<1>1. /\ n \in Nat /\ t \in Seq(1 .. n) /\ Len(t) \in 1 .. n
      /\ \A k \in 1 .. Len(t) - 1 : next[t[k]] = t[k + 1]
      /\ prev[t[1]] = 0 /\ next[t[Len(t)]] = 0
  BY <1>0, <1>5
<1>2. Len(t) \in Nat /\ \A k \in 1 .. Len(t) : t[k] \in 1 .. n /\ t[k] # 0
  BY <1>1
<1>3. t[1] \in 1 .. n /\ t[Len(t)] \in 1 .. n
  BY <1>1, <1>2
<1>4. ASSUME NEW k \in 1 .. Len(t) - 1 PROVE prev[t[k + 1]] = t[k]
  <2>1. k \in 1 .. Len(t) /\ k + 1 \in 1 .. Len(t)
    BY <1>2
  <2>2. t[k] \in 1 .. n /\ t[k + 1] \in 1 .. n /\ next[t[k]] = t[k + 1]
    BY <1>1, <1>2, <2>1
  <2> QED
    BY <2>2 DEF Linked
<1> QED
  BY <1>1, <1>2, <1>3, <1>4

\* The chains of the arrays are the walks from the customers no one precedes.
LEMMA ChainsOfArrays ==
  ASSUME NEW n, NEW next, NEW prev, Linked(next, prev, n)
  PROVE  \A t : t \in ChainsOf(next, prev, n) <=> IsChain(next, prev, n, t)
<1>1. n \in Nat /\ next \in [1 .. n -> 0 .. n] /\ NoCycle(next, n)
  BY DEF Linked
<1>2. ASSUME NEW t, t \in ChainsOf(next, prev, n)
      PROVE  IsChain(next, prev, n, t)
  <2>1. PICK c \in 1 .. n : prev[c] = 0 /\ t = ChainAlong(next, n, c)
    BY <1>2 DEF ChainsOf
  <2>2. IsWalk(next, n, t) /\ t[1] = c
    BY <1>1, <2>1, ChainAlongWalks
  <2> QED
    BY <2>1, <2>2 DEF IsChain
<1>3. ASSUME NEW t, IsChain(next, prev, n, t)
      PROVE  t \in ChainsOf(next, prev, n)
  <2>1. t[1] \in 1 .. n /\ prev[t[1]] = 0 /\ IsWalk(next, n, t)
    BY <1>3, ChainParts DEF IsChain
  <2>2. /\ IsWalk(next, n, ChainAlong(next, n, t[1]))
        /\ ChainAlong(next, n, t[1])[1] = t[1]
    BY <1>1, <2>1, ChainAlongWalks
  <2>3. ChainAlong(next, n, t[1]) = t
    BY <1>1, <2>1, <2>2, SameWalk
  <2> QED
    BY <2>1, <2>3 DEF ChainsOf
<1> QED
  BY <1>2, <1>3

\* Two chains that share a customer, at positions in this order, are the same.
LEMMA SharedCustomerInOrder ==
  ASSUME NEW n, NEW next, NEW prev, Linked(next, prev, n),
         NEW t, IsChain(next, prev, n, t), NEW u, IsChain(next, prev, n, u),
         NEW i \in 1 .. Len(t), NEW j \in 1 .. Len(u), i <= j, t[i] = u[j]
  PROVE  t = u /\ i = j
<1>1. /\ Len(t) \in Nat /\ \A k \in 1 .. Len(t) - 1 : prev[t[k + 1]] = t[k]
      /\ prev[t[1]] = 0
  BY ChainParts
<1>2. /\ Len(u) \in Nat /\ \A k \in 1 .. Len(u) - 1 : prev[u[k + 1]] = u[k]
  BY ChainParts
<1>3. \A k \in 1 .. Len(u) : u[k] # 0
  BY ChainParts
<1> DEFINE S == {d \in 0 .. i - 1 : t[i - d] = u[j - d]}
<1>4. 0 \in S
  BY <1>1, <1>2
<1>5. ASSUME NEW d \in 0 .. i - 1 - 1, d \in S PROVE d + 1 \in S
  <2> DEFINE k == i - d - 1
             m == j - d - 1
  <2>1. /\ k \in 1 .. Len(t) - 1 /\ k + 1 = i - d /\ k = i - (d + 1)
        /\ m \in 1 .. Len(u) - 1 /\ m + 1 = j - d /\ m = j - (d + 1)
        /\ d + 1 \in 0 .. i - 1
    BY <1>1, <1>2
  <2> HIDE DEF k, m
  <2>2. t[k + 1] = u[m + 1]
    BY <1>5, <2>1
  <2>3. t[k] = u[m]
    BY ONLY <1>1, <1>2, <2>1, <2>2
  <2> QED
    BY <2>1, <2>3
<1>6. 0 .. i - 1 \subseteq S
  <2>1. i - 1 \in Nat
    OBVIOUS
  <2> HIDE DEF S
  <2> QED
    BY ONLY <1>4, <1>5, <2>1, IntervalInduction
<1>7. t[1] = u[j - i + 1]
  <2>1. i - 1 \in S
    BY <1>6
  <2>2. t[i - (i - 1)] = u[j - (i - 1)]
    BY <2>1
  <2>3. i - (i - 1) = 1 /\ j - (i - 1) = j - i + 1
    OBVIOUS
  <2> QED
    BY <2>2, <2>3
<1> HIDE DEF S
<1>8. i = j
  <2>1. SUFFICES ASSUME i < j PROVE FALSE
    OBVIOUS
  <2> DEFINE k == j - i
  <2>2. k \in 1 .. Len(u) - 1 /\ k \in 1 .. Len(u) /\ k + 1 = j - i + 1
    BY <1>2, <2>1
  <2> HIDE DEF k
  <2>3. prev[u[k + 1]] = u[k] /\ u[k] # 0
    BY <1>2, <1>3, <2>2
  <2> QED
    BY <1>1, <1>7, <2>2, <2>3
<1>9. t[1] = u[1]
  BY <1>7, <1>8
<1>10. IsWalk(next, n, t) /\ IsWalk(next, n, u)
  BY DEF IsChain
<1>11. n \in Nat /\ next \in [1 .. n -> 0 .. n]
  BY DEF Linked
<1>12. t = u
  BY <1>9, <1>10, <1>11, SameWalk
<1> QED
  BY <1>8, <1>12

\* No customer is on two routes, nor twice on the same one.
LEMMA SharedCustomer ==
  ASSUME NEW n, NEW next, NEW prev, Linked(next, prev, n),
         NEW t, IsChain(next, prev, n, t), NEW u, IsChain(next, prev, n, u),
         NEW i \in 1 .. Len(t), NEW j \in 1 .. Len(u), t[i] = u[j]
  PROVE  t = u /\ i = j
<1>1. CASE i <= j
  BY <1>1, SharedCustomerInOrder
<1>2. CASE j <= i
  BY <1>2, SharedCustomerInOrder
<1> QED
  BY <1>1, <1>2

\* Putting a customer before a walk that starts with its successor makes a walk.
LEMMA WalkBefore ==
  ASSUME NEW n \in Nat, NEW next \in [1 .. n -> 0 .. n], NoCycle(next, n),
         NEW x \in 1 .. n, NEW y \in 1 .. n, next[x] = y
  PROVE  Len(ChainAlong(next, n, x)) = Len(ChainAlong(next, n, y)) + 1
<1> DEFINE t == ChainAlong(next, n, x)
           u == ChainAlong(next, n, y)
<1>1. IsWalk(next, n, t) /\ t[1] = x /\ Len(t) \in 1 .. n
  BY ChainAlongWalks
<1>2. IsWalk(next, n, u) /\ u[1] = y
  BY ChainAlongWalks
<1> HIDE DEF t, u
<1>3. /\ t \in Seq(1 .. n) /\ Len(t) \in 1 .. n
      /\ \A k \in 1 .. Len(t) - 1 : next[t[k]] = t[k + 1]
      /\ next[t[Len(t)]] = 0
  BY <1>1 DEF IsWalk
<1>4. Len(t) > 1
  BY <1>1, <1>3
<1> DEFINE v == [k \in 1 .. Len(t) - 1 |-> t[k + 1]]
<1>5. v \in Seq(1 .. n) /\ Len(v) = Len(t) - 1 /\ Len(v) \in 1 .. n
  <2>1. Len(t) - 1 \in Nat /\ \A k \in 1 .. Len(t) - 1 : t[k + 1] \in 1 .. n
    BY <1>3, <1>4
  <2> QED
    BY <1>3, <1>4, <2>1
<1>6. \A k \in 1 .. Len(v) : v[k] = t[k + 1]
  BY <1>5
<1> HIDE DEF v
<1>7. ASSUME NEW k \in 1 .. Len(v) - 1 PROVE next[v[k]] = v[k + 1]
  <2>1. /\ k \in 1 .. Len(v) /\ k + 1 \in 1 .. Len(v) /\ k + 1 \in 1 .. Len(t) - 1
    BY <1>3, <1>5
  <2>2. v[k] = t[k + 1] /\ v[k + 1] = t[k + 1 + 1]
    BY <1>6, <2>1
  <2> QED
    BY <1>3, <2>1, <2>2
<1>8. next[v[Len(v)]] = 0
  <2>1. Len(v) \in 1 .. Len(v) /\ Len(v) + 1 = Len(t)
    BY <1>3, <1>4, <1>5
  <2>2. v[Len(v)] = t[Len(v) + 1]
    BY <1>6, <2>1
  <2> QED
    BY <1>3, <2>1, <2>2
<1>9. v[1] = y
  <2>1. 1 \in 1 .. Len(v) /\ 1 \in 1 .. Len(t) - 1
    BY <1>3, <1>4, <1>5
  <2> QED
    BY <1>1, <1>3, <1>6, <2>1
<1>10. IsWalk(next, n, v)
  BY <1>5, <1>7, <1>8 DEF IsWalk
<1>11. u = v
  BY <1>2, <1>9, <1>10, SameWalk
<1> QED
  BY <1>3, <1>5, <1>11 DEF t, u

\* Every customer is on a route.
LEMMA EveryCustomerOnChain ==
  ASSUME NEW n, NEW next, NEW prev, Linked(next, prev, n), NEW x \in 1 .. n
  PROVE  \E t : IsChain(next, prev, n, t) /\ \E k \in 1 .. Len(t) : t[k] = x
<1> DEFINE On(c) == \E t : IsChain(next, prev, n, t) /\ \E k \in 1 .. Len(t) : t[k] = c
           Length(c) == Len(ChainAlong(next, n, c))
           U == {c \in 1 .. n : ~On(c)}
           D == {d \in Nat : \E c \in U : d = n - Length(c)}
<1>1. /\ n \in Nat /\ next \in [1 .. n -> 0 .. n] /\ prev \in [1 .. n -> 0 .. n]
      /\ NoCycle(next, n)
      /\ \A a, b \in 1 .. n : next[a] = b <=> prev[b] = a
  BY DEF Linked
<1>2. ASSUME NEW c \in 1 .. n
      PROVE  IsWalk(next, n, ChainAlong(next, n, c)) /\ ChainAlong(next, n, c)[1] = c
  BY <1>1, ChainAlongWalks
<1>3. \A c \in 1 .. n : Length(c) \in 1 .. n
  BY <1>1, ChainAlongWalks
<1>4. ASSUME NEW c \in U PROVE \E b \in U : next[b] = c
  <2>1. prev[c] # 0
    <3>1. SUFFICES ASSUME prev[c] = 0 PROVE FALSE
      OBVIOUS
    <3> DEFINE t == ChainAlong(next, n, c)
    <3>2. IsWalk(next, n, t) /\ t[1] = c
      BY <1>2
    <3> HIDE DEF t
    <3>3. IsChain(next, prev, n, t)
      BY <3>1, <3>2 DEF IsChain
    <3>4. 1 \in 1 .. Len(t)
      BY <1>1, <3>2 DEF IsWalk
    <3>5. On(c)
      BY <3>2, <3>3, <3>4
    <3> QED
      BY <3>5
  <2>2. prev[c] \in 1 .. n /\ next[prev[c]] = c
    <3>1. prev[c] \in 1 .. n
      BY <1>1, <2>1
    <3> QED
      BY <1>1, <3>1
  <2>3. ~On(prev[c])
    <3>1. SUFFICES ASSUME NEW t, IsChain(next, prev, n, t),
                          NEW k \in 1 .. Len(t), t[k] = prev[c]
                   PROVE  FALSE
      OBVIOUS
    <3>2. /\ Len(t) \in Nat /\ next[t[Len(t)]] = 0
          /\ \A m \in 1 .. Len(t) - 1 : next[t[m]] = t[m + 1]
      BY <3>1, ChainParts
    <3>3. k # Len(t)
      BY <2>2, <3>1, <3>2
    <3>4. k \in 1 .. Len(t) - 1 /\ k + 1 \in 1 .. Len(t)
      BY <3>2, <3>3
    <3>5. t[k + 1] = c
      BY <2>2, <3>1, <3>2, <3>4
    <3>6. On(c)
      BY <3>1, <3>4, <3>5
    <3> QED
      BY <3>6
  <2> HIDE DEF On
  <2> QED
    BY <2>2, <2>3
<1> HIDE DEF On
<1>5. U = {}
  <2>1. SUFFICES ASSUME U # {} PROVE FALSE
    OBVIOUS
  <2>2. D # {} /\ D \subseteq Nat
    <3>1. PICK c \in U : TRUE
      BY <2>1
    <3>2. n - Length(c) \in Nat
      BY <1>1, <1>3
    <3> HIDE DEF Length
    <3> QED
      BY <3>1, <3>2
  <2>3. PICK d \in D : \A e \in D : d <= e
    <3> HIDE DEF D
    <3> QED
      BY <2>2, LeastMember
  <2>4. PICK c \in U : d = n - Length(c)
    OBVIOUS
  <2>5. PICK b \in U : next[b] = c
    BY <1>4
  <2>6. Length(b) = Length(c) + 1
    <3>1. b \in 1 .. n /\ c \in 1 .. n
      OBVIOUS
    <3>2. /\ n \in Nat /\ next \in [1 .. n -> 0 .. n] /\ NoCycle(next, n)
          /\ next[b] = c
      BY <1>1, <2>5
    <3>3. Len(ChainAlong(next, n, b)) = Len(ChainAlong(next, n, c)) + 1
      BY ONLY <3>1, <3>2, WalkBefore
    <3> QED
      BY ONLY <3>3
  <2>7. n - Length(b) \in D
    <3>1. n - Length(b) \in Nat
      BY <1>1, <1>3
    <3> HIDE DEF Length
    <3> QED
      BY <3>1
  <2>8. d <= n - Length(b)
    BY <2>3, <2>7
  <2>9. Length(b) \in Nat /\ Length(c) \in Nat
    <3>1. b \in 1 .. n /\ c \in 1 .. n
      OBVIOUS
    <3>2. Length(b) \in 1 .. n /\ Length(c) \in 1 .. n
      BY <1>3, <3>1
    <3> HIDE DEF Length
    <3> QED
      BY <1>1, <3>2
  <2> HIDE DEF Length
  <2> QED
    BY <1>1, <2>4, <2>6, <2>8, <2>9
<1>6. On(x)
  BY <1>5
<1> QED
  BY <1>6 DEF On

\* Without any link every customer is a chain of its own.
LEMMA UnlinkedChains ==
  ASSUME NEW n \in Nat, NEW f, f = [c \in 1 .. n |-> 0]
  PROVE  /\ Linked(f, f, n)
         /\ ChainsOf(f, f, n) = {<<c>> : c \in 1 .. n}
<1>1. Linked(f, f, n)
  <2>1. f \in [1 .. n -> 0 .. n] /\ \A c \in 1 .. n : f[c] = 0 /\ c # 0
    OBVIOUS
  <2>2. NoCycle(f, n)
    BY <2>1 DEF NoCycle
  <2> QED
    BY <2>1, <2>2 DEF Linked
<1>2. ASSUME NEW c \in 1 .. n PROVE IsChain(f, f, n, <<c>>)
  <2> DEFINE t == <<c>>
  <2>1. t \in Seq(1 .. n) /\ Len(t) = 1 /\ t[1] = c
    OBVIOUS
  <2> HIDE DEF t
  <2>2. f[c] = 0
    OBVIOUS
  <2>3. IsChain(f, f, n, t)
    BY <2>1, <2>2 DEF IsChain, IsWalk
  <2> QED
    BY <2>3 DEF t
<1>3. ASSUME NEW t, IsChain(f, f, n, t) PROVE t \in {<<c>> : c \in 1 .. n}
  <2>1. /\ t \in Seq(1 .. n) /\ Len(t) \in Nat /\ Len(t) \in 1 .. n
        /\ t[1] \in 1 .. n
        /\ \A k \in 1 .. Len(t) : t[k] \in 1 .. n /\ t[k] # 0
        /\ \A k \in 1 .. Len(t) - 1 : f[t[k]] = t[k + 1]
    BY <1>1, <1>3, ChainParts
  <2>2. Len(t) = 1
    <3>1. SUFFICES ASSUME Len(t) # 1 PROVE FALSE
      OBVIOUS
    <3>2. Len(t) \in Nat /\ Len(t) >= 1
      BY <2>1
    <3>3. \A m \in Nat : m >= 1 /\ m # 1 => 1 \in 1 .. m - 1 /\ 2 \in 1 .. m /\ 1 + 1 = 2
      OBVIOUS
    <3>4. 1 \in 1 .. Len(t) - 1 /\ 2 \in 1 .. Len(t) /\ 1 + 1 = 2
      BY <3>1, <3>2, <3>3
    <3>5. f[t[1]] = t[2] /\ t[2] # 0
      BY <2>1, <3>4
    <3> QED
      BY <2>1, <3>5
  <2>3. t = <<t[1]>>
    BY <2>1, <2>2
  <2> QED
    BY <2>1, <2>3
<1>4. \A t : t \in ChainsOf(f, f, n) <=> IsChain(f, f, n, t)
  BY <1>1, ChainsOfArrays
<1> QED
  BY <1>1, <1>2, <1>3, <1>4

\* Every customer is on a chain; the one without successor is its last one, the
\* one without predecessor its first one.
LEMMA ChainOf ==
  ASSUME NEW n, NEW next, NEW prev, Linked(next, prev, n), NEW c \in 1 .. n
  PROVE  \E t : /\ IsChain(next, prev, n, t)
                /\ \E k \in 1 .. Len(t) : t[k] = c
                /\ next[c] = 0 => t[Len(t)] = c
                /\ prev[c] = 0 => t[1] = c
<1>1. PICK t : /\ IsChain(next, prev, n, t)
               /\ \E k \in 1 .. Len(t) : t[k] = c
  BY EveryCustomerOnChain
<1>2. PICK k \in 1 .. Len(t) : t[k] = c
  BY <1>1
<1>3. /\ Len(t) \in Nat /\ \A m \in 1 .. Len(t) : t[m] # 0
      /\ \A m \in 1 .. Len(t) - 1 : next[t[m]] = t[m + 1]
      /\ \A m \in 1 .. Len(t) - 1 : prev[t[m + 1]] = t[m]
  BY <1>1, ChainParts
<1>4. ASSUME next[c] = 0 PROVE k = Len(t)
  <2>1. SUFFICES ASSUME k # Len(t) PROVE FALSE
    OBVIOUS
  <2>2. k \in 1 .. Len(t) - 1 /\ k + 1 \in 1 .. Len(t)
    BY <1>3, <2>1
  <2> QED
    BY <1>2, <1>3, <1>4, <2>2
<1>5. ASSUME prev[c] = 0 PROVE k = 1
  <2>1. SUFFICES ASSUME k # 1 PROVE FALSE
    OBVIOUS
  <2>2. k - 1 \in 1 .. Len(t) - 1 /\ k - 1 + 1 = k /\ k - 1 \in 1 .. Len(t)
    BY <1>3, <2>1
  <2>3. prev[t[k - 1 + 1]] = t[k - 1] /\ t[k - 1] # 0
    BY <1>3, <2>2
  <2> QED
    BY <1>2, <1>5, <2>2, <2>3
<1> QED
  BY <1>1, <1>2, <1>4, <1>5

-----------------------------------------------------------------------------
(***************************************************************************)
(* Joining two chains r and s: the last customer of r gets the first one   *)
(* of s for its successor.                                                 *)
(***************************************************************************)
IsLink(next, prev, next2, prev2, r, s) ==
  /\ next2 = [next EXCEPT ![r[Len(r)]] = s[1]]
  /\ prev2 = [prev EXCEPT ![s[1]] = r[Len(r)]]

\* Neither end of another chain is touched, so it is one afterwards, too.
LEMMA OtherChainsStay ==
  ASSUME NEW n, NEW next, NEW prev, Linked(next, prev, n),
         NEW next2, NEW prev2,
         NEW r, IsChain(next, prev, n, r), NEW s, IsChain(next, prev, n, s),
         IsLink(next, prev, next2, prev2, r, s),
         NEW t, IsChain(next, prev, n, t), t # r, t # s
  PROVE  IsChain(next2, prev2, n, t)
<1>1. /\ t \in Seq(1 .. n) /\ Len(t) \in 1 .. n /\ n \in Nat
      /\ \A k \in 1 .. Len(t) : t[k] \in 1 .. n
      /\ \A k \in 1 .. Len(t) - 1 : next[t[k]] = t[k + 1]
      /\ prev[t[1]] = 0 /\ next[t[Len(t)]] = 0
  BY ChainParts
<1>2. Len(r) \in 1 .. Len(r) /\ 1 \in 1 .. Len(s) /\ Len(t) \in 1 .. Len(t) /\ 1 \in 1 .. Len(t)
  <2>1. Len(r) \in 1 .. n /\ Len(s) \in 1 .. n /\ n \in Nat
    BY ChainParts
  <2> QED
    BY <1>1, <2>1
<1>3. \A k \in 1 .. Len(t) : t[k] # r[Len(r)]
  BY <1>2, SharedCustomer
<1>4. \A k \in 1 .. Len(t) : t[k] # s[1]
  BY <1>2, SharedCustomer
<1>5. next \in [1 .. n -> 0 .. n] /\ prev \in [1 .. n -> 0 .. n]
  BY DEF Linked
<1>6. \A k \in 1 .. Len(t) : next2[t[k]] = next[t[k]]
  BY <1>1, <1>3, <1>5 DEF IsLink
<1>7. prev2[t[1]] = prev[t[1]]
  BY <1>1, <1>2, <1>4, <1>5 DEF IsLink
<1>8. \A k \in 1 .. Len(t) - 1 : next2[t[k]] = t[k + 1]
  <2>1. \A k \in 1 .. Len(t) - 1 : k \in 1 .. Len(t)
    BY <1>1
  <2> QED
    BY <1>1, <1>6, <2>1
<1>9. next2[t[Len(t)]] = 0 /\ prev2[t[1]] = 0 /\ Len(t) >= 1
  BY <1>1, <1>2, <1>6, <1>7
<1> QED
  BY <1>1, <1>8, <1>9 DEF IsChain, IsWalk

\* The two joined sequences are a chain of the new arrays.
LEMMA JoinedIsChain ==
  ASSUME NEW n, NEW next, NEW prev, Linked(next, prev, n),
         NEW next2, NEW prev2,
         NEW r, IsChain(next, prev, n, r), NEW s, IsChain(next, prev, n, s), r # s,
         IsLink(next, prev, next2, prev2, r, s)
  PROVE  IsChain(next2, prev2, n, r \o s)
<1>1. /\ r \in Seq(1 .. n) /\ Len(r) \in 1 .. n /\ n \in Nat /\ Len(r) \in Nat
      /\ \A k \in 1 .. Len(r) : r[k] \in 1 .. n
      /\ \A k \in 1 .. Len(r) - 1 : next[r[k]] = r[k + 1]
      /\ prev[r[1]] = 0 /\ next[r[Len(r)]] = 0
  BY ChainParts
<1>2. /\ s \in Seq(1 .. n) /\ Len(s) \in 1 .. n /\ Len(s) \in Nat
      /\ \A k \in 1 .. Len(s) : s[k] \in 1 .. n
      /\ \A k \in 1 .. Len(s) - 1 : next[s[k]] = s[k + 1]
      /\ prev[s[1]] = 0 /\ next[s[Len(s)]] = 0
  BY ChainParts
<1> DEFINE t == r \o s
<1>3. /\ t \in Seq(1 .. n) /\ Len(t) = Len(r) + Len(s)
      /\ \A k \in 1 .. Len(r) : t[k] = r[k]
      /\ \A k \in 1 .. Len(s) : t[Len(r) + k] = s[k]
  BY <1>1, <1>2, ConcatElements
<1> HIDE DEF t
<1>4. Len(r) \in 1 .. Len(r) /\ 1 \in 1 .. Len(s) /\ Len(s) \in 1 .. Len(s) /\ 1 \in 1 .. Len(r)
  BY <1>1, <1>2
<1>5. next \in [1 .. n -> 0 .. n] /\ prev \in [1 .. n -> 0 .. n]
  BY DEF Linked
<1>6. ASSUME NEW k \in 1 .. Len(r) - 1 PROVE next2[r[k]] = r[k + 1]
  <2>1. k \in 1 .. Len(r) /\ k # Len(r)
    BY <1>1
  <2>2. r[k] # r[Len(r)]
    BY <1>4, <2>1, SharedCustomer
  <2> QED
    BY <1>1, <1>5, <2>1, <2>2 DEF IsLink
<1>7. ASSUME NEW k \in 1 .. Len(s) PROVE next2[s[k]] = next[s[k]]
  <2>1. s[k] # r[Len(r)]
    BY <1>4, SharedCustomer
  <2> QED
    BY <1>2, <1>5, <2>1 DEF IsLink
<1>8. next2[r[Len(r)]] = s[1]
  BY <1>1, <1>4, <1>5 DEF IsLink
<1>9. prev2[r[1]] = 0
  <2>1. r[1] # s[1]
    BY <1>4, SharedCustomer
  <2> QED
    BY <1>1, <1>4, <1>5, <2>1 DEF IsLink
<1>10. ASSUME NEW k \in 1 .. Len(t) - 1 PROVE next2[t[k]] = t[k + 1]
  <2>1. CASE k \in 1 .. Len(r) - 1
    <3>1. k \in 1 .. Len(r) /\ k + 1 \in 1 .. Len(r)
      BY <1>1, <2>1
    <3> QED
      BY <1>3, <1>6, <2>1, <3>1
  <2>2. CASE k = Len(r)
    <3>1. t[k] = r[Len(r)] /\ t[Len(r) + 1] = s[1]
      BY <1>3, <1>4, <2>2
    <3> QED
      BY <1>8, <2>2, <3>1
  <2>3. CASE k - Len(r) \in 1 .. Len(s) - 1
    <3> DEFINE m == k - Len(r)
    <3>1. /\ m \in 1 .. Len(s) - 1 /\ m \in 1 .. Len(s) /\ m + 1 \in 1 .. Len(s)
          /\ k = Len(r) + m /\ k + 1 = Len(r) + (m + 1)
      BY <1>1, <1>2, <2>3
    <3> HIDE DEF m
    <3>2. t[k] = s[m] /\ t[k + 1] = s[m + 1]
      BY <1>3, <3>1
    <3> QED
      BY <1>2, <1>7, <3>1, <3>2
  <2> QED
    BY <1>1, <1>2, <1>3, <2>1, <2>2, <2>3
<1>11. next2[t[Len(t)]] = 0
  <2>1. t[Len(t)] = s[Len(s)]
    BY <1>3, <1>4
  <2> QED
    BY <1>2, <1>4, <1>7, <2>1
<1>12. prev2[t[1]] = 0 /\ Len(t) >= 1
  BY <1>1, <1>2, <1>3, <1>4, <1>9
<1> QED
  BY <1>3, <1>10, <1>11, <1>12 DEF IsChain, IsWalk, t

\* Joining two chains closes no cycle: a cycle would lie outside of r, where
\* nothing has changed, or contain all of r and s.
LEMMA JoinKeepsLinked ==
  ASSUME NEW n, NEW next, NEW prev, Linked(next, prev, n),
         NEW next2, NEW prev2,
         NEW r, IsChain(next, prev, n, r), NEW s, IsChain(next, prev, n, s), r # s,
         IsLink(next, prev, next2, prev2, r, s)
  PROVE  Linked(next2, prev2, n)
<1> DEFINE a == r[Len(r)]
           b == s[1]
           T == {x \in 1 .. n : \E k \in 1 .. Len(r) : r[k] = x}
<1>1. /\ n \in Nat
      /\ next \in [1 .. n -> 0 .. n] /\ prev \in [1 .. n -> 0 .. n]
      /\ \A x, y \in 1 .. n : next[x] = y <=> prev[y] = x
      /\ NoCycle(next, n)
  BY DEF Linked
<1>2. /\ Len(r) \in 1 .. n /\ Len(r) \in Nat
      /\ \A k \in 1 .. Len(r) : r[k] \in 1 .. n /\ r[k] # 0
      /\ \A k \in 1 .. Len(r) - 1 : prev[r[k + 1]] = r[k]
      /\ prev[r[1]] = 0 /\ next[a] = 0 /\ a \in 1 .. n
  BY ChainParts
<1>3. /\ Len(s) \in 1 .. n /\ prev[b] = 0 /\ b \in 1 .. n
  BY ChainParts
<1>4. next2 = [next EXCEPT ![a] = b] /\ prev2 = [prev EXCEPT ![b] = a]
  BY DEF IsLink
<1>5. a \in T
  BY <1>2
<1>6. b \notin T
  <2>1. SUFFICES ASSUME NEW k \in 1 .. Len(r), r[k] = b PROVE FALSE
    OBVIOUS
  <2>2. 1 \in 1 .. Len(s)
    BY <1>1, <1>3
  <2> QED
    BY <2>1, <2>2, SharedCustomer
<1>7. \A x \in T : prev[x] \in T \cup {0}
  <2>1. SUFFICES ASSUME NEW k \in 1 .. Len(r) PROVE prev[r[k]] \in T \cup {0}
    OBVIOUS
  <2>2. CASE k = 1
    BY <1>2, <2>2
  <2>3. CASE k # 1
    <3>1. k - 1 \in 1 .. Len(r) - 1 /\ k - 1 + 1 = k /\ k - 1 \in 1 .. Len(r)
      BY <1>2, <2>3
    <3>2. prev[r[k]] = r[k - 1]
      BY <1>2, <3>1
    <3> QED
      BY <1>2, <3>1, <3>2
  <2> QED
    BY <2>2, <2>3
<1>8. T \in SUBSET (1 .. n)
  OBVIOUS
<1> HIDE DEF a, b, T
<1>9. next2 \in [1 .. n -> 0 .. n] /\ prev2 \in [1 .. n -> 0 .. n]
  BY <1>1, <1>2, <1>3, <1>4
<1>10. \A x, y \in 1 .. n : next2[x] = y <=> prev2[y] = x
  <2> TAKE x, y \in 1 .. n
  <2>1. x # 0 /\ y # 0 /\ next[x] = y <=> prev[y] = x
    BY <1>1
  <2> QED
    BY <1>1, <1>2, <1>3, <1>4, <2>1
<1>11. NoCycle(next2, n)
  <2>1. SUFFICES ASSUME NEW S \in SUBSET (1 .. n), S # {},
                        \A c \in S : next2[c] \in S
                 PROVE  FALSE
    BY DEF NoCycle
  <2> DEFINE U == S \ T
  <2>2. ASSUME NEW c \in U PROVE next[c] \in U
    <3>1. next2[c] = next[c] /\ next[c] \in S
      BY <1>1, <1>4, <1>5, <2>1
    <3>2. prev[next[c]] = c /\ c # 0
      BY <1>1, <3>1
    <3> QED
      BY <1>7, <3>1, <3>2
  <2>3. U = {}
    BY <1>1, <2>2 DEF NoCycle
  <2>4. a \notin S
    BY <1>1, <1>2, <1>4, <1>6, <2>1, <2>3
  <2>5. \A c \in S : next2[c] = next[c]
    BY <1>1, <1>4, <2>4
  <2> QED
    BY <1>1, <2>1, <2>5 DEF NoCycle
<1> QED
  BY <1>1, <1>9, <1>10, <1>11 DEF Linked

\* Joining two chains replaces them by one, and nothing else changes.
LEMMA JoinChains ==
  ASSUME NEW n, NEW next, NEW prev, Linked(next, prev, n),
         NEW next2, NEW prev2, Linked(next2, prev2, n),
         NEW r, IsChain(next, prev, n, r), NEW s, IsChain(next, prev, n, s), r # s,
         IsLink(next, prev, next2, prev2, r, s)
  PROVE  ChainsOf(next2, prev2, n) = (ChainsOf(next, prev, n) \ {r, s}) \cup {r \o s}
<1>1. \A t : t \in ChainsOf(next, prev, n) <=> IsChain(next, prev, n, t)
  BY ChainsOfArrays
<1>2. \A t : t \in ChainsOf(next2, prev2, n) <=> IsChain(next2, prev2, n, t)
  BY ChainsOfArrays
<1>3. IsChain(next2, prev2, n, r \o s)
  BY JoinedIsChain
<1>4. ASSUME NEW t, IsChain(next, prev, n, t), t # r, t # s
      PROVE  IsChain(next2, prev2, n, t)
  BY <1>4, OtherChainsStay
<1>5. ASSUME NEW t, IsChain(next2, prev2, n, t)
      PROVE  t = r \o s \/ (IsChain(next, prev, n, t) /\ t # r /\ t # s)
  <2>1. t[1] \in 1 .. n /\ prev2[t[1]] = 0 /\ 1 \in 1 .. Len(t)
    <3>1. t[1] \in 1 .. n /\ prev2[t[1]] = 0 /\ Len(t) \in 1 .. n /\ n \in Nat
      BY <1>5, ChainParts
    <3> QED
      BY <3>1
  <2>2. /\ r[1] \in 1 .. n /\ 1 \in 1 .. Len(r) /\ r \in Seq(1 .. n)
        /\ r[Len(r)] \in 1 .. n /\ r[Len(r)] # 0 /\ n \in Nat
    <3>1. /\ r[1] \in 1 .. n /\ Len(r) \in 1 .. n /\ n \in Nat /\ r \in Seq(1 .. n)
          /\ r[Len(r)] \in 1 .. n
      BY ChainParts
    <3> QED
      BY <3>1
  <2>3. s[1] \in 1 .. n /\ s \in Seq(1 .. n)
    BY ChainParts
  <2>4. prev \in [1 .. n -> 0 .. n]
    BY DEF Linked
  <2>5. t[1] # s[1] /\ prev[t[1]] = 0
    BY <2>1, <2>2, <2>3, <2>4 DEF IsLink
  <2>6. CASE t[1] = r[1]
    <3>1. (r \o s)[1] = r[1] /\ 1 \in 1 .. Len(r \o s)
      <4>1. /\ Len(r \o s) = Len(r) + Len(s) /\ Len(r) \in Nat /\ Len(s) \in Nat
            /\ \A k \in 1 .. Len(r) : (r \o s)[k] = r[k]
        BY <2>2, <2>3, ConcatElements
      <4> QED
        BY <2>2, <4>1
    <3> DEFINE u == r \o s
    <3>2. IsChain(next2, prev2, n, u) /\ u[1] = t[1] /\ 1 \in 1 .. Len(u)
      BY <1>3, <2>6, <3>1
    <3> HIDE DEF u
    <3>3. t = u
      BY <1>5, <2>1, <3>2, SharedCustomer
    <3> QED
      BY <3>3 DEF u
  <2>7. CASE t[1] # r[1]
    <3> DEFINE u == ChainAlong(next, n, t[1])
    <3>1. u \in ChainsOf(next, prev, n)
      BY <2>1, <2>5 DEF ChainsOf
    <3>2. u[1] = t[1]
      <4>1. n \in Nat /\ next \in [1 .. n -> 0 .. n] /\ NoCycle(next, n)
        BY DEF Linked
      <4> QED
        BY <2>1, <4>1, ChainAlongWalks
    <3> HIDE DEF u
    <3>3. IsChain(next, prev, n, u) /\ u # r /\ u # s
      BY <1>1, <2>5, <2>7, <3>1, <3>2
    <3>4. IsChain(next2, prev2, n, u)
      BY <1>4, <3>3
    <3>5. 1 \in 1 .. Len(u)
      <4>1. Len(u) \in 1 .. n /\ n \in Nat
        BY <3>3, ChainParts
      <4> QED
        BY <4>1
    <3>6. t = u
      BY <1>5, <2>1, <3>2, <3>4, <3>5, SharedCustomer
    <3> QED
      BY <3>3, <3>6
  <2> QED
    BY <2>6, <2>7
<1> QED
  BY <1>1, <1>2, <1>3, <1>4, <1>5
=============================================================================
