------------------------- MODULE ClarkeWrightProofs -------------------------
(***************************************************************************)
(* Proofs about ClarkeWright, for every number of customers, every demand, *)
(* every capacity and every distance matrix.                               *)
(***************************************************************************)
EXTENDS ClarkeWright, SequenceFacts

\* The indices are the customers and the depot.
LEMMA DepotIsNoCustomer == Index = Customers \cup {0} /\ 0 \notin Customers
BY NAssumption DEF Index, Customers

\* A pair of the savings array joins two distinct customers.
LEMMA PairEnds ==
  \A p \in Pairs : p[1] \in Customers /\ p[2] \in Customers /\ p[1] # p[2]
BY DEF Pairs

\* The state of cvrp_clark_wright keeps its types.
THEOREM TypeCorrect == Spec => []TypeOK
<1> USE NAssumption, DemandAssumption, LambdaAssumption, DepotIsNoCustomer
    DEF TypeOK, PCs, Fresh
<1>1. Init => TypeOK
  BY DEF Init
<1>2. TypeOK /\ [Next]_vars => TypeOK'
  <2> SUFFICES ASSUME TypeOK, [Next]_vars PROVE TypeOK'
    OBVIOUS
  <2>1. ASSUME NEW p \in Pairs, SkipSaving(p) PROVE TypeOK'
    BY <2>1 DEF SkipSaving, arrays, walkers
  <2>2. ASSUME NEW p \in Pairs, TakeSaving(p) PROVE TypeOK'
    <3>1. p[1] \in Customers /\ p[2] \in Customers
      BY PairEnds
    <3> QED
      BY <2>2, <3>1 DEF TakeSaving, arrays
  <2>3. CASE WalkBack
    BY <2>3 DEF WalkBack, arrays
  <2>4. CASE Reject
    BY <2>4 DEF Reject, EndIteration, arrays
  <2>5. CASE Merge
    BY <2>5 DEF Merge, SameRoute
  <2>6. CASE WalkForward
    BY <2>6 DEF WalkForward, arrays
  <2>7. CASE RecordDemand
    BY <2>7 DEF RecordDemand, EndIteration, NewDemand
  <2>8. CASE StartBuild
    BY <2>8 DEF StartBuild, arrays, walkers
  <2>9. CASE BuildRoute
    BY <2>9 DEF BuildRoute, arrays, walkers
  <2>10. CASE NextLambda
    BY <2>10 DEF NextLambda, walkers
  <2>11. CASE Finish
    BY <2>11 DEF Finish, arrays, walkers
  <2>12. CASE UNCHANGED vars
    BY <2>12 DEF vars, arrays, walkers
  <2> QED
    BY <2>1, <2>2, <2>3, <2>4, <2>5, <2>6, <2>7, <2>8, <2>9, <2>10, <2>11,
       <2>12 DEF Next
<1> QED
  BY <1>1, <1>2, PTL DEF Spec

-----------------------------------------------------------------------------
(***************************************************************************)
(* The chains.  A merge links c1 to c2; the set T of the customers passed  *)
(* by the walk is then closed under both arrays and does not contain c2,   *)
(* so a set closed under the new successors would contain, outside of T, a *)
(* non-empty set closed under the old ones.                                *)
(***************************************************************************)

\* At the end of the walk, when c2 was not met, the customers passed over are
\* the whole route of c1, and c2 is on another one.
LEMMA WalkEnds ==
  ASSUME TypeOK, predecessors[first_visit] = 0, first_visit # c2,
         NEW T \in SUBSET Customers, WalkedOver(T)
  PROVE  /\ c1 \in T /\ c2 \notin T
         /\ \A x \in T : x # first_visit => predecessors[x] \in T
         /\ \A x \in T : predecessors[x] \in T \cup {0}
BY DEF WalkedOver

\* Linking the last customer of one chain to the first one of another chain
\* keeps the chains free of cycles.
LEMMA LinkKeepsAcyclic ==
  ASSUME TypeOK, LinksInverse, Acyclic,
         NEW T \in SUBSET Customers,
         NEW a \in T, NEW b \in Customers \ T,
         \A x \in T : predecessors[x] \in T \cup {0},
         successors' = [successors EXCEPT ![a] = b]
  PROVE  Acyclic'
<1> SUFFICES ASSUME NEW S \in SUBSET Customers, S # {},
                    \A c \in S : successors'[c] \in S
             PROVE  FALSE
  BY DEF Acyclic
<1> DEFINE U == S \ T
<1>1. \A c \in Customers \ T : successors'[c] = successors[c]
  BY DEF TypeOK
<1>2. successors'[a] = b
  BY DEF TypeOK
<1>3. ASSUME NEW c \in U PROVE successors[c] \in U
  <2>1. successors[c] \in S /\ successors[c] \in Customers
    BY <1>1
  <2>2. predecessors[successors[c]] = c
    BY <2>1 DEF LinksInverse
  <2>3. successors[c] \notin T
    BY <2>2, DepotIsNoCustomer
  <2> QED
    BY <2>1, <2>3
<1>4. U = {}
  BY <1>3 DEF Acyclic
<1>5. a \notin S
  BY <1>2, <1>4
<1>6. \A c \in S : successors'[c] = successors[c]
  BY <1>5 DEF TypeOK
<1> QED
  BY <1>6 DEF Acyclic

\* The step of the walk keeps what is known of the customers passed over.
LEMMA WalkStep ==
  ASSUME ChainInv, WalkBack
  PROVE  WalkConsistent'
<1>1. PICK T \in SUBSET Customers : WalkedOver(T)
  BY DEF ChainInv, WalkBack, WalkConsistent
<1>2. PICK new \in Customers : new = predecessors[first_visit]
  BY DepotIsNoCustomer DEF ChainInv, TypeOK, WalkBack
<1>3. successors[new] = first_visit /\ first_visit' = new
  BY <1>2, DepotIsNoCustomer DEF ChainInv, TypeOK, LinksInverse, WalkBack
<1>4. c2 \notin T
  BY <1>1 DEF ChainInv, WalkConsistent, WalkedOver, WalkBack
<1>5. WalkedOver(T \cup {new})'
  BY <1>1, <1>2, <1>3, <1>4 DEF WalkedOver, WalkBack, arrays
<1>6. T \cup {new} \in SUBSET Customers
  BY <1>2
<1> QED
  BY <1>5, <1>6 DEF ChainInv, WalkConsistent, WalkBack, arrays

\* At the start no customer has a neighbour.
LEMMA InitChains == Init => ChainInv
<1> SUFFICES ASSUME Init PROVE ChainInv
  OBVIOUS
<1>1. TypeOK
  BY NAssumption, DemandAssumption, LambdaAssumption, DepotIsNoCustomer
     DEF Init, TypeOK, PCs, Fresh
<1>2. LinksInverse /\ Acyclic
  BY DepotIsNoCustomer DEF Init, Fresh, LinksInverse, Acyclic
<1>3. WalkConsistent
  BY DEF Init, WalkConsistent
<1> QED
  BY <1>1, <1>2, <1>3 DEF ChainInv

\* ChainInv is inductive, so the chains of the two arrays are consistent and
\* free of cycles in every state of the heuristic.
THEOREM ChainsSound == Spec => []ChainInv
<1>1. Init => ChainInv
  BY InitChains
<1>2. ChainInv /\ TypeOK' /\ [Next]_vars => ChainInv'
  <2> SUFFICES ASSUME ChainInv, TypeOK', [Next]_vars PROVE ChainInv'
    OBVIOUS
  <2> USE DEF ChainInv
  <2>1. ASSUME UNCHANGED <<predecessors, successors>>, pc' # "walk_back"
        PROVE ChainInv'
    BY <2>1 DEF LinksInverse, Acyclic, WalkConsistent
  <2>2. ASSUME NEW p \in Pairs, SkipSaving(p) PROVE ChainInv'
    BY <2>2, <2>1 DEF SkipSaving, arrays
  <2>3. ASSUME NEW p \in Pairs, TakeSaving(p) PROVE ChainInv'
    <3>1. p[1] \in Customers /\ p[2] \in Customers /\ p[1] # p[2]
      BY PairEnds
    <3>2. LinksInverse' /\ Acyclic'
      BY <2>3 DEF TakeSaving, arrays, LinksInverse, Acyclic
    <3>3. WalkedOver({p[1]})'
      BY <2>3, <3>1 DEF TakeSaving, CanLink, arrays, WalkedOver
    <3>4. WalkConsistent'
      BY <2>3, <3>1, <3>3 DEF TakeSaving, CanLink, arrays, WalkConsistent
    <3> QED
      BY <3>2, <3>4
  <2>4. CASE WalkBack
    <3>1. LinksInverse' /\ Acyclic'
      BY <2>4 DEF WalkBack, arrays, LinksInverse, Acyclic
    <3> QED
      BY <2>4, <3>1, WalkStep
  <2>5. CASE Reject
    BY <2>5, <2>1 DEF Reject, EndIteration, arrays
  <2>6. CASE Merge
    <3>1. PICK T \in SUBSET Customers : WalkedOver(T)
      BY <2>6 DEF Merge, WalkConsistent
    <3>2. c1 \in T /\ c2 \in Customers \ T
          /\ \A x \in T : predecessors[x] \in T \cup {0}
      BY <2>6, <3>1, WalkEnds, DepotIsNoCustomer DEF Merge, SameRoute, TypeOK
    <3>3. Acyclic'
      BY <2>6, <3>2, LinkKeepsAcyclic DEF Merge
    <3>4. LinksInverse'
      BY <2>6, <3>2, DepotIsNoCustomer
         DEF Merge, LinksInverse, WalkConsistent, TypeOK
    <3>5. WalkConsistent'
      BY <2>6 DEF Merge, WalkConsistent
    <3> QED
      BY <3>3, <3>4, <3>5
  <2>7. CASE WalkForward
    BY <2>7, <2>1 DEF WalkForward, arrays
  <2>8. CASE RecordDemand
    BY <2>8, <2>1 DEF RecordDemand, EndIteration
  <2>9. CASE StartBuild
    BY <2>9, <2>1 DEF StartBuild, arrays
  <2>10. CASE BuildRoute
    BY <2>10, <2>1 DEF BuildRoute, arrays
  <2>11. CASE NextLambda
    BY <2>11, DepotIsNoCustomer
       DEF NextLambda, Fresh, LinksInverse, Acyclic, WalkConsistent
  <2>12. CASE Finish
    BY <2>12, <2>1 DEF Finish, arrays
  <2>13. CASE UNCHANGED vars
    BY <2>13 DEF vars, arrays, walkers, LinksInverse, Acyclic, WalkConsistent,
                 WalkedOver
  <2> QED
    BY <2>2, <2>3, <2>4, <2>5, <2>6, <2>7, <2>8, <2>9, <2>10, <2>11, <2>12,
       <2>13 DEF Next
<1> QED
  BY <1>1, <1>2, TypeCorrect, PTL DEF Spec

\* The chains stay free of cycles, for any number of customers and any order
\* of the savings.
THEOREM NoCycles == Spec => []Acyclic
<1>1. ChainInv => Acyclic
  BY DEF ChainInv
<1> QED
  BY <1>1, ChainsSound, PTL

-----------------------------------------------------------------------------
(***************************************************************************)
(* The routes.  What the two walks find out about the chains, what the     *)
(* route demands at the ends of the chains say, which pairs of chains are  *)
(* still to be tried, and which chains are already in the solution.        *)
(***************************************************************************)

\* Both ends of the chain know its demand.
EndsExact(t) ==
  route_demands[t[1]] = Load(t) /\ route_demands[t[Len(t)]] = Load(t)

IsOn(c, t) == \E k \in 1 .. Len(t) : t[k] = c

\* The walk back is on the chain that ends with c1, and c2 begins one.
WalkInv ==
  pc = "walk_back" =>
    /\ \E t \in Chains : t[Len(t)] = c1 /\ IsOn(first_visit, t)
    /\ \E t \in Chains : t[1] = c2

\* Demands are stale at the ends of the chain just merged only, and the walk
\* forward is on it.
DemandInv ==
  /\ pc \in {"scan", "walk_back"} => \A t \in Chains : EndsExact(t)
  /\ pc = "walk_forward" =>
       \E t \in Chains :
         /\ t[1] = first_visit /\ IsOn(last_visit, t)
         /\ IsOn(c1, t) /\ IsOn(c2, t)
         /\ NewDemand = Load(t)
         /\ \A u \in Chains : u # t => EndsExact(u)

\* Two chains that would fit one vehicle are still to be tried.
ToBeTried(r, s) ==
  \/ <<r[Len(r)], s[1]>> \in savings
  \/ pc = "walk_back" /\ c1 = r[Len(r)] /\ c2 = s[1]

MergingInv ==
  /\ \A r, s \in Chains :
       r # s => ToBeTried(r, s) \/ Load(r) + Load(s) > Capacity
  /\ pc \in {"build", "done"} => savings = {}

\* The solution consists of the chains whose first customers have been met.
SolutionInv ==
  /\ sol \in Seq(Chains)
  /\ pc \notin {"build", "done"} => idx = 1 /\ sol = <<>>
  /\ pc = "done" => idx = N + 1
  /\ \A k \in 1 .. Len(sol) : sol[k][1] < idx
  /\ \A j, k \in 1 .. Len(sol) : sol[j] = sol[k] => j = k
  /\ \A t \in Chains : t[1] < idx => \E k \in 1 .. Len(sol) : sol[k] = t

RouteInv == ChainInv /\ WalkInv /\ DemandInv /\ MergingInv /\ SolutionInv

\* The arrays are what the facts about implicit routes speak of.
LEMMA ArraysLinked ==
  /\ ChainInv => Linked(successors, predecessors, N)
  /\ ChainInv' => Linked(successors', predecessors', N)
BY NAssumption DEF ChainInv, TypeOK, LinksInverse, Acyclic, Linked, NoCycle,
                   Customers, Index

\* The routes are the chains of the arrays.
LEMMA RoutesAreChains ==
  /\ ChainInv =>
       \A t : t \in Chains <=> IsChain(successors, predecessors, N, t)
  /\ ChainInv' =>
       \A t : t \in Chains' <=> IsChain(successors', predecessors', N, t)
<1>1. ASSUME ChainInv
      PROVE  \A t : t \in Chains <=> IsChain(successors, predecessors, N, t)
  BY <1>1, ArraysLinked, ChainsOfArrays DEF Chains
<1>2. ASSUME ChainInv'
      PROVE  \A t : t \in Chains' <=> IsChain(successors', predecessors', N, t)
  BY <1>2, ArraysLinked, ChainsOfArrays DEF Chains
<1> QED
  BY <1>1, <1>2

\* What a route consists of.
LEMMA RouteParts ==
  ASSUME ChainInv, NEW t \in Chains
  PROVE  /\ t \in Seq(Customers) /\ Len(t) \in Nat /\ Len(t) \in 1 .. N
         /\ 1 \in 1 .. Len(t) /\ Len(t) \in 1 .. Len(t)
         /\ \A k \in 1 .. Len(t) : t[k] \in Customers /\ t[k] # 0
         /\ \A k \in 1 .. Len(t) - 1 : successors[t[k]] = t[k + 1]
         /\ \A k \in 1 .. Len(t) - 1 : predecessors[t[k + 1]] = t[k]
         /\ predecessors[t[1]] = 0 /\ successors[t[Len(t)]] = 0
         /\ t[1] \in Customers /\ t[Len(t)] \in Customers
<1>1. Linked(successors, predecessors, N) /\ IsChain(successors, predecessors, N, t)
  BY ArraysLinked, RoutesAreChains
<1>2. /\ t \in Seq(Customers) /\ Len(t) \in 1 .. N /\ N \in Nat /\ Len(t) \in Nat
      /\ \A k \in 1 .. Len(t) : t[k] \in Customers /\ t[k] # 0
      /\ \A k \in 1 .. Len(t) - 1 : successors[t[k]] = t[k + 1]
      /\ \A k \in 1 .. Len(t) - 1 : predecessors[t[k + 1]] = t[k]
      /\ predecessors[t[1]] = 0 /\ successors[t[Len(t)]] = 0
      /\ t[1] \in Customers /\ t[Len(t)] \in Customers
  BY <1>1, ChainParts DEF Customers
<1>3. 1 \in 1 .. Len(t) /\ Len(t) \in 1 .. Len(t)
  BY <1>2
<1> QED
  BY <1>2, <1>3

\* No customer is on two routes.
LEMMA RoutesDisjoint ==
  ASSUME ChainInv, NEW t \in Chains, NEW u \in Chains,
         NEW i \in 1 .. Len(t), NEW j \in 1 .. Len(u), t[i] = u[j]
  PROVE  t = u /\ i = j
<1>1. /\ Linked(successors, predecessors, N)
      /\ IsChain(successors, predecessors, N, t)
      /\ IsChain(successors, predecessors, N, u)
  BY ArraysLinked, RoutesAreChains
<1> QED
  BY <1>1, SharedCustomer

\* Every customer is on a route; the one without successor is its last one, the
\* one without predecessor its first one.
LEMMA RouteOf ==
  ASSUME ChainInv, NEW c \in Customers
  PROVE  \E t \in Chains :
           /\ IsOn(c, t)
           /\ successors[c] = 0 => t[Len(t)] = c
           /\ predecessors[c] = 0 => t[1] = c
<1>1. PICK t : /\ IsChain(successors, predecessors, N, t)
               /\ \E k \in 1 .. Len(t) : t[k] = c
               /\ successors[c] = 0 => t[Len(t)] = c
               /\ predecessors[c] = 0 => t[1] = c
  BY ArraysLinked, ChainOf DEF Customers
<1> QED
  BY <1>1, RoutesAreChains DEF IsOn

\* The demand of a route.
LEMMA LoadFacts ==
  /\ \A r \in Seq(Customers) : Load(r) \in Nat
  /\ \A r, s \in Seq(Customers) : Load(r \o s) = Load(r) + Load(s)
  /\ \A c \in Customers : Load(<<c>>) = Demand[c]
<1>1. \A r : Load(r) = SumOf(Weights(Demand, r))
  BY DEF Load, Weights
<1>2. Demand \in [Customers -> Nat]
  BY DemandAssumption
<1>3. \A r \in Seq(Customers) : Load(r) \in Nat
  BY <1>1, <1>2, WeightNat
<1>4. \A r, s \in Seq(Customers) : Load(r \o s) = Load(r) + Load(s)
  BY <1>1, <1>2, WeightConcat
<1>5. \A c \in Customers : Load(<<c>>) = Demand[c]
  BY <1>1, <1>2, WeightOne
<1> QED
  BY <1>3, <1>4, <1>5

\* With fresh arrays every customer is on a route of its own.
LEMMA FreshRoutes ==
  /\ Linked(Fresh, Fresh, N)
  /\ ChainsOf(Fresh, Fresh, N) = {<<c>> : c \in Customers}
BY NAssumption, UnlinkedChains DEF Fresh, Customers

\* A taken saving is about the last customer of one route and the first customer
\* of another one.
LEMMA TakeSavingEnds ==
  ASSUME RouteInv, NEW p \in Pairs, TakeSaving(p)
  PROVE  WalkInv' /\ MergingInv'
<1>1. p[1] \in Customers /\ p[2] \in Customers
  BY PairEnds
<1>2. Chains' = Chains
  BY DEF TakeSaving, arrays, Chains
<1>3. ChainInv /\ successors[p[1]] = 0 /\ predecessors[p[2]] = 0
  BY DEF RouteInv, TakeSaving, CanLink
<1>4. PICK t \in Chains : IsOn(p[1], t) /\ t[Len(t)] = p[1]
  BY <1>1, <1>3, RouteOf
<1>5. PICK u \in Chains : u[1] = p[2]
  BY <1>1, <1>3, RouteOf
<1>6. c1' = p[1] /\ c2' = p[2] /\ first_visit' = p[1] /\ pc' = "walk_back"
      /\ savings' = savings \ {p} /\ p = <<p[1], p[2]>>
  BY DEF TakeSaving, Pairs
<1>7. WalkInv'
  BY <1>2, <1>4, <1>5, <1>6 DEF WalkInv, IsOn
<1>8. ASSUME NEW r \in Chains, NEW s \in Chains, ToBeTried(r, s)
      PROVE  ToBeTried(r, s)'
  <2>1. pc = "scan"
    BY DEF TakeSaving
  <2>2. <<r[Len(r)], s[1]>> \in savings
    BY <1>8, <2>1 DEF ToBeTried
  <2>3. CASE <<r[Len(r)], s[1]>> = p
    <3>1. p[1] = r[Len(r)] /\ p[2] = s[1]
      BY <2>3
    <3> QED
      BY <1>6, <3>1 DEF ToBeTried
  <2>4. CASE <<r[Len(r)], s[1]>> # p
    BY <1>6, <2>2, <2>4 DEF ToBeTried
  <2> QED
    BY <2>3, <2>4
<1>9. MergingInv'
  BY <1>2, <1>6, <1>8 DEF RouteInv, MergingInv
<1> QED
  BY <1>7, <1>9

\* What is known when a merge or its rejection is decided: c1 ends the route r
\* that first_visit begins, c2 begins a route s, and NewDemand is their demand.
LEMMA DecisionState ==
  ASSUME RouteInv, pc = "walk_back", predecessors[first_visit] = 0
  PROVE  \E r, s \in Chains :
           /\ r[Len(r)] = c1 /\ r[1] = first_visit /\ s[1] = c2
           /\ r # s <=> ~SameRoute
           /\ NewDemand = Load(r) + Load(s)
<1>1. ChainInv /\ WalkInv /\ DemandInv
  BY DEF RouteInv
<1>2. PICK r \in Chains : r[Len(r)] = c1 /\ IsOn(first_visit, r)
  BY <1>1 DEF WalkInv
<1>3. PICK s \in Chains : s[1] = c2
  BY <1>1 DEF WalkInv
<1>4. PICK k \in 1 .. Len(r) : r[k] = first_visit
  BY <1>2 DEF IsOn
<1>5. r[1] = first_visit
  <2>1. /\ Len(r) \in Nat /\ \A m \in 1 .. Len(r) : r[m] # 0
        /\ \A m \in 1 .. Len(r) - 1 : predecessors[r[m + 1]] = r[m]
    BY <1>1, RouteParts
  <2>2. k = 1
    <3>1. SUFFICES ASSUME k # 1 PROVE FALSE
      OBVIOUS
    <3>2. k - 1 \in 1 .. Len(r) - 1 /\ k - 1 + 1 = k /\ k - 1 \in 1 .. Len(r)
      BY <2>1, <3>1
    <3>3. predecessors[r[k - 1 + 1]] = r[k - 1] /\ r[k - 1] # 0
      BY <2>1, <3>2
    <3> QED
      BY <1>4, <3>2, <3>3
  <2> QED
    BY <1>4, <2>2
<1>6. 1 \in 1 .. Len(r) /\ 1 \in 1 .. Len(s)
  BY <1>1, RouteParts
<1>7. r # s <=> ~SameRoute
  <2>1. ASSUME r[1] = s[1] PROVE r = s
    BY <1>1, <1>6, <2>1, RoutesDisjoint
  <2> QED
    BY <1>3, <1>5, <2>1 DEF SameRoute
<1>8. NewDemand = Load(r) + Load(s)
  BY <1>1, <1>2, <1>3 DEF DemandInv, EndsExact, NewDemand
<1> QED
  BY <1>2, <1>3, <1>5, <1>7, <1>8

\* A merge joins the two routes.
LEMMA MergeJoins ==
  ASSUME RouteInv, ChainInv', Merge
  PROVE  \E r, s \in Chains :
           /\ r # s /\ r[Len(r)] = c1 /\ r[1] = first_visit /\ s[1] = c2
           /\ NewDemand = Load(r) + Load(s)
           /\ Chains' = (Chains \ {r, s}) \cup {r \o s}
<1>1. PICK r \in Chains, s \in Chains :
        /\ r[Len(r)] = c1 /\ r[1] = first_visit /\ s[1] = c2
        /\ r # s /\ NewDemand = Load(r) + Load(s)
  BY DecisionState DEF Merge
<1>2. ChainInv
  BY DEF RouteInv
<1>3. /\ Linked(successors, predecessors, N)
      /\ Linked(successors', predecessors', N)
  BY <1>2, ArraysLinked
<1>4. /\ IsChain(successors, predecessors, N, r)
      /\ IsChain(successors, predecessors, N, s)
  BY <1>2, RoutesAreChains
<1>5. IsLink(successors, predecessors, successors', predecessors', r, s)
  BY <1>1 DEF Merge, IsLink
<1>6. ChainsOf(successors', predecessors', N) =
        (ChainsOf(successors, predecessors, N) \ {r, s}) \cup {r \o s}
  BY <1>1, <1>3, <1>4, <1>5, JoinChains
<1>7. Chains' = (Chains \ {r, s}) \cup {r \o s}
  BY <1>6 DEF Chains
<1> QED
  BY <1>1, <1>7

\* A rejected pair is on one route or its routes do not fit one vehicle.
LEMMA RejectMerging ==
  ASSUME RouteInv, Reject
  PROVE  MergingInv'
<1>1. ChainInv /\ MergingInv /\ pc = "walk_back" /\ predecessors[first_visit] = 0
  BY DEF RouteInv, Reject
<1>2. PICK r \in Chains, s \in Chains :
        /\ r[Len(r)] = c1 /\ s[1] = c2
        /\ r # s <=> ~SameRoute
        /\ NewDemand = Load(r) + Load(s)
  BY <1>1, DecisionState
<1>3. Chains' = Chains /\ savings' = savings /\ pc' = "scan"
  BY DEF Reject, EndIteration, arrays, Chains
<1>4. ASSUME NEW t \in Chains, NEW u \in Chains, t # u,
             ~(Load(t) + Load(u) > Capacity)
      PROVE  ToBeTried(t, u)'
  <2>1. ToBeTried(t, u)
    BY <1>1, <1>4 DEF MergingInv
  <2>2. ASSUME c1 = t[Len(t)], c2 = u[1] PROVE FALSE
    <3>1. /\ Len(t) \in 1 .. Len(t) /\ Len(r) \in 1 .. Len(r)
          /\ 1 \in 1 .. Len(u) /\ 1 \in 1 .. Len(s)
      BY <1>1, RouteParts
    <3>2. t = r /\ u = s
      BY <1>1, <1>2, <2>2, <3>1, RoutesDisjoint
    <3> QED
      BY <1>2, <1>4, <3>2 DEF Reject
  <2>3. <<t[Len(t)], u[1]>> \in savings
    BY <2>1, <2>2 DEF ToBeTried
  <2> QED
    BY <1>3, <2>3 DEF ToBeTried
<1> QED
  BY <1>1, <1>3, <1>4 DEF MergingInv

\* The joined route is known to be one, and all others are as before.
LEMMA MergeKeepsRoutes ==
  ASSUME RouteInv, ChainInv', Merge
  PROVE  WalkInv' /\ DemandInv' /\ MergingInv' /\ SolutionInv'
<1>1. ChainInv /\ DemandInv /\ MergingInv /\ SolutionInv /\ pc = "walk_back"
  BY DEF RouteInv, Merge
<1>2. PICK r \in Chains, s \in Chains :
        /\ r # s /\ r[Len(r)] = c1 /\ r[1] = first_visit /\ s[1] = c2
        /\ NewDemand = Load(r) + Load(s)
        /\ Chains' = (Chains \ {r, s}) \cup {r \o s}
  BY MergeJoins
<1>3. /\ r \in Seq(Customers) /\ s \in Seq(Customers)
      /\ 1 \in 1 .. Len(r) /\ 1 \in 1 .. Len(s)
      /\ Len(r) \in 1 .. Len(r) /\ Len(s) \in 1 .. Len(s)
      /\ Len(r) \in Nat /\ Len(s) \in Nat
  BY <1>1, <1>2, RouteParts
<1>4. /\ Len(r \o s) = Len(r) + Len(s)
      /\ \A k \in 1 .. Len(r) : (r \o s)[k] = r[k]
      /\ \A k \in 1 .. Len(s) : (r \o s)[Len(r) + k] = s[k]
  BY <1>3, ConcatElements
<1>5. /\ (r \o s)[1] = first_visit
      /\ (r \o s)[Len(r \o s)] = s[Len(s)]
      /\ (r \o s)[Len(r)] = c1 /\ (r \o s)[Len(r) + 1] = c2
      /\ Len(r) \in 1 .. Len(r \o s) /\ Len(r) + 1 \in 1 .. Len(r \o s)
  BY <1>2, <1>3, <1>4
<1>6. /\ pc' = "walk_forward" /\ last_visit' = c2 /\ first_visit' = first_visit
      /\ c1' = c1 /\ c2' = c2 /\ route_demands' = route_demands
      /\ savings' = savings /\ idx' = idx /\ sol' = sol
  BY DEF Merge
<1>7. WalkInv'
  BY <1>6 DEF WalkInv
<1>8. DemandInv'
  <2> DEFINE t == r \o s
  <2>1. t \in Chains' /\ t[1] = first_visit'
    BY <1>2, <1>5, <1>6
  <2>2. IsOn(last_visit', t) /\ IsOn(c1', t) /\ IsOn(c2', t)
    BY <1>5, <1>6 DEF IsOn
  <2>3. NewDemand' = Load(t)
    <3>1. NewDemand' = NewDemand
      BY <1>6 DEF NewDemand
    <3> QED
      BY <1>2, <1>3, <3>1, LoadFacts
  <2>4. ASSUME NEW u \in Chains', u # t PROVE EndsExact(u)'
    <3>1. u \in Chains
      BY <1>2, <2>4
    <3>2. EndsExact(u)
      BY <1>1, <3>1 DEF DemandInv
    <3> QED
      BY <1>6, <3>2 DEF EndsExact
  <2> HIDE DEF t
  <2> QED
    BY <1>6, <2>1, <2>2, <2>3, <2>4 DEF DemandInv, IsOn
<1>9. MergingInv'
  <2>1. ASSUME NEW t \in Chains, NEW u \in Chains, t # u
        PROVE  <<t[Len(t)], u[1]>> \in savings \/ Load(t) + Load(u) > Capacity
               \/ (t = r /\ u = s)
    <3>1. ToBeTried(t, u) \/ Load(t) + Load(u) > Capacity
      BY <1>1, <2>1 DEF MergingInv
    <3>2. ASSUME c1 = t[Len(t)], c2 = u[1] PROVE t = r /\ u = s
      <4>1. Len(t) \in 1 .. Len(t) /\ 1 \in 1 .. Len(u)
        BY <1>1, RouteParts
      <4> QED
        BY <1>1, <1>2, <1>3, <3>2, <4>1, RoutesDisjoint
    <3> QED
      BY <3>1, <3>2 DEF ToBeTried
  <2>2. ASSUME NEW t \in Chains PROVE t \in Seq(Customers) /\ Load(t) \in Nat
    BY <1>1, RouteParts, LoadFacts
  <2>3. Load(r \o s) = Load(r) + Load(s) /\ Load(r) \in Nat /\ Load(s) \in Nat
    BY <1>3, LoadFacts
  <2>4. ASSUME NEW t \in Chains', NEW u \in Chains', t # u
        PROVE  <<t[Len(t)], u[1]>> \in savings \/ Load(t) + Load(u) > Capacity
    <3>1. CASE t = r \o s
      <4>1. u \in Chains /\ u # r /\ u # s
        BY <1>2, <2>4, <3>1
      <4>2. <<s[Len(s)], u[1]>> \in savings \/ Load(s) + Load(u) > Capacity
        BY <1>2, <2>1, <4>1
      <4>3. t[Len(t)] = s[Len(s)] /\ Load(t) = Load(r) + Load(s)
        BY <1>5, <2>3, <3>1
      <4> QED
        BY <2>2, <2>3, <4>1, <4>2, <4>3, CapacityAssumption
    <3>2. CASE u = r \o s
      <4>1. t \in Chains /\ t # r /\ t # s
        BY <1>2, <2>4, <3>2
      <4>2. <<t[Len(t)], r[1]>> \in savings \/ Load(t) + Load(r) > Capacity
        BY <1>2, <2>1, <4>1
      <4>3. u[1] = r[1] /\ Load(u) = Load(r) + Load(s)
        BY <1>2, <1>5, <2>3, <3>2
      <4> QED
        BY <2>2, <2>3, <4>1, <4>2, <4>3, CapacityAssumption
    <3>3. CASE t # r \o s /\ u # r \o s
      <4>1. t \in Chains /\ t # r /\ u \in Chains
        BY <1>2, <3>3
      <4> QED
        BY <2>1, <2>4, <4>1
    <3> QED
      BY <3>1, <3>2, <3>3
  <2>5. pc' \notin {"build", "done"}
    BY <1>6
  <2> QED
    BY <1>6, <2>4, <2>5 DEF MergingInv, ToBeTried
<1>10. SolutionInv'
  <2>1. idx' = 1 /\ sol' = <<>>
    BY <1>1, <1>6 DEF SolutionInv
  <2>2. sol' \in Seq(Chains') /\ Len(sol') = 0
    BY <2>1
  <2>3. \A t \in Chains' : ~(t[1] < idx')
    <3>1. ASSUME NEW t \in Chains' PROVE t[1] \in Customers
      <4>1. t \in Chains \/ t = r \o s
        BY <1>2
      <4>2. first_visit \in Customers
        BY <1>1, <1>2, RouteParts
      <4> QED
        BY <1>1, <1>5, <4>1, <4>2, RouteParts
    <3>2. \A c \in Customers : ~(c < 1)
      BY NAssumption DEF Customers
    <3> QED
      BY <2>1, <3>1, <3>2
  <2> QED
    BY <1>6, <2>1, <2>2, <2>3 DEF SolutionInv
<1> QED
  BY <1>7, <1>8, <1>9, <1>10

\* At the end of the walk forward the demand is recorded at both ends.
LEMMA RecordDemandExact ==
  ASSUME RouteInv, RecordDemand
  PROVE  DemandInv'
<1>1. ChainInv /\ DemandInv /\ pc = "walk_forward" /\ successors[last_visit] = 0
  BY DEF RouteInv, RecordDemand
<1>2. PICK t \in Chains :
        /\ t[1] = first_visit /\ IsOn(last_visit, t)
        /\ NewDemand = Load(t)
        /\ \A u \in Chains : u # t => EndsExact(u)
  BY <1>1 DEF DemandInv
<1>3. PICK k \in 1 .. Len(t) : t[k] = last_visit
  BY <1>2 DEF IsOn
<1>4. t[Len(t)] = last_visit
  <2>1. /\ Len(t) \in Nat /\ \A m \in 1 .. Len(t) : t[m] # 0
        /\ \A m \in 1 .. Len(t) - 1 : successors[t[m]] = t[m + 1]
    BY <1>1, RouteParts
  <2>2. k = Len(t)
    <3>1. SUFFICES ASSUME k # Len(t) PROVE FALSE
      OBVIOUS
    <3>2. k \in 1 .. Len(t) - 1 /\ k + 1 \in 1 .. Len(t)
      BY <2>1, <3>1
    <3> QED
      BY <1>1, <1>3, <2>1, <3>2
  <2> QED
    BY <1>3, <2>2
<1>5. Chains' = Chains /\ pc' = "scan"
      /\ route_demands' = [route_demands EXCEPT ![first_visit] = NewDemand,
                                                ![last_visit] = NewDemand]
  BY DEF RecordDemand, EndIteration, Chains
<1>6. route_demands \in [Customers -> Nat]
  BY <1>1 DEF ChainInv, TypeOK
<1>7. /\ t[1] \in Customers /\ t[Len(t)] \in Customers
      /\ 1 \in 1 .. Len(t) /\ Len(t) \in 1 .. Len(t)
  BY <1>1, RouteParts
<1>8. ASSUME NEW u \in Chains PROVE EndsExact(u)'
  <2>1. /\ u[1] \in Customers /\ u[Len(u)] \in Customers
        /\ 1 \in 1 .. Len(u) /\ Len(u) \in 1 .. Len(u)
    BY <1>1, RouteParts
  <2>2. CASE u = t
    <3>1. route_demands'[t[1]] = NewDemand /\ route_demands'[t[Len(t)]] = NewDemand
      BY <1>2, <1>4, <1>5, <1>6, <1>7
    <3> QED
      BY <1>2, <2>2, <3>1 DEF EndsExact
  <2>3. CASE u # t
    <3>1. /\ u[1] # first_visit /\ u[1] # last_visit
          /\ u[Len(u)] # first_visit /\ u[Len(u)] # last_visit
      BY <1>1, <1>2, <1>4, <1>7, <2>1, <2>3, RoutesDisjoint
    <3>2. /\ route_demands'[u[1]] = route_demands[u[1]]
          /\ route_demands'[u[Len(u)]] = route_demands[u[Len(u)]]
      BY <1>5, <1>6, <2>1, <3>1
    <3> QED
      BY <1>2, <2>3, <3>2 DEF EndsExact
  <2> QED
    BY <2>2, <2>3
<1> QED
  BY <1>5, <1>8 DEF DemandInv

\* The walk back stays on its route.
LEMMA WalkBackOnRoute ==
  ASSUME RouteInv, WalkBack
  PROVE  WalkInv'
<1>1. ChainInv /\ WalkInv /\ pc = "walk_back" /\ predecessors[first_visit] # 0
  BY DEF RouteInv, WalkBack
<1>2. PICK t \in Chains : t[Len(t)] = c1 /\ IsOn(first_visit, t)
  BY <1>1 DEF WalkInv
<1>3. PICK k \in 1 .. Len(t) : t[k] = first_visit
  BY <1>2 DEF IsOn
<1>4. /\ Len(t) \in Nat /\ predecessors[t[1]] = 0
      /\ \A m \in 1 .. Len(t) - 1 : predecessors[t[m + 1]] = t[m]
  BY <1>1, RouteParts
<1>5. k # 1
  BY <1>1, <1>3, <1>4
<1>6. k - 1 \in 1 .. Len(t) - 1 /\ k - 1 \in 1 .. Len(t) /\ k - 1 + 1 = k
  BY <1>4, <1>5
<1>7. t[k - 1] = predecessors[first_visit]
  BY <1>3, <1>4, <1>6
<1>8. /\ Chains' = Chains /\ c1' = c1 /\ c2' = c2
      /\ first_visit' = predecessors[first_visit]
  BY DEF WalkBack, arrays, Chains
<1>9. IsOn(first_visit', t)
  BY <1>6, <1>7, <1>8 DEF IsOn
<1> QED
  BY <1>1, <1>2, <1>8, <1>9 DEF WalkInv, IsOn

\* The walk forward stays on its route.
LEMMA WalkForwardOnRoute ==
  ASSUME RouteInv, WalkForward
  PROVE  DemandInv'
<1>1. ChainInv /\ DemandInv /\ pc = "walk_forward" /\ successors[last_visit] # 0
  BY DEF RouteInv, WalkForward
<1>2. PICK t \in Chains :
        /\ t[1] = first_visit /\ IsOn(last_visit, t)
        /\ IsOn(c1, t) /\ IsOn(c2, t)
        /\ NewDemand = Load(t)
        /\ \A u \in Chains : u # t => EndsExact(u)
  BY <1>1 DEF DemandInv
<1>3. PICK k \in 1 .. Len(t) : t[k] = last_visit
  BY <1>2 DEF IsOn
<1>4. /\ Len(t) \in Nat /\ successors[t[Len(t)]] = 0
      /\ \A m \in 1 .. Len(t) - 1 : successors[t[m]] = t[m + 1]
  BY <1>1, RouteParts
<1>5. k # Len(t)
  BY <1>1, <1>3, <1>4
<1>6. k \in 1 .. Len(t) - 1 /\ k + 1 \in 1 .. Len(t)
  BY <1>4, <1>5
<1>7. t[k + 1] = successors[last_visit]
  BY <1>3, <1>4, <1>6
<1>8. /\ Chains' = Chains /\ c1' = c1 /\ c2' = c2 /\ first_visit' = first_visit
      /\ route_demands' = route_demands /\ pc' = "walk_forward"
      /\ last_visit' = successors[last_visit]
  BY <1>1 DEF WalkForward, arrays, Chains
<1>9. IsOn(last_visit', t)
  BY <1>6, <1>7, <1>8 DEF IsOn
<1>10. NewDemand' = Load(t) /\ IsOn(c1', t) /\ IsOn(c2', t)
  BY <1>2, <1>8 DEF NewDemand
<1>11. \A u \in Chains : u # t => EndsExact(u)'
  BY <1>2, <1>8 DEF EndsExact
<1> QED
  BY <1>2, <1>8, <1>9, <1>10, <1>11 DEF DemandInv, IsOn

\* The loop over the customers appends the route that starts with the customer,
\* if there is one.
LEMMA BuildRouteExact ==
  ASSUME RouteInv, BuildRoute
  PROVE  SolutionInv'
<1>1. ChainInv /\ SolutionInv /\ pc = "build" /\ idx \in Customers
  BY NAssumption DEF RouteInv, BuildRoute, ChainInv, TypeOK, Customers
<1>2. Chains' = Chains /\ pc' = "build" /\ idx' = idx + 1 /\ idx \in Nat
  BY <1>1 DEF BuildRoute, arrays, Chains, Customers
<1>3. /\ sol \in Seq(Chains) /\ Len(sol) \in Nat
      /\ \A k \in 1 .. Len(sol) : sol[k] \in Chains
      /\ \A k \in 1 .. Len(sol) : sol[k][1] < idx
      /\ \A j, k \in 1 .. Len(sol) : sol[j] = sol[k] => j = k
      /\ \A t \in Chains : t[1] < idx => \E k \in 1 .. Len(sol) : sol[k] = t
  BY <1>1 DEF SolutionInv
<1>4. ASSUME NEW t \in Chains
      PROVE  t[1] \in Nat /\ predecessors[t[1]] = 0 /\ 1 \in 1 .. Len(t)
  <2>1. t[1] \in Customers /\ predecessors[t[1]] = 0 /\ 1 \in 1 .. Len(t)
    BY <1>1, RouteParts
  <2> QED
    BY <2>1 DEF Customers
<1>5. CASE ~IsFirst(idx)
  <2>1. sol' = sol
    BY <1>5 DEF BuildRoute
  <2>2. \A t \in Chains : t[1] # idx
    BY <1>4, <1>5 DEF IsFirst
  <2>3. \A t \in Chains : t[1] < idx + 1 => t[1] < idx
    BY <1>2, <1>4, <2>2
  <2>4. \A k \in 1 .. Len(sol) : sol[k][1] < idx + 1
    BY <1>2, <1>3, <1>4
  <2> QED
    BY <1>2, <1>3, <2>1, <2>3, <2>4 DEF SolutionInv
<1>6. CASE IsFirst(idx)
  <2> DEFINE u == ChainFrom(idx)
  <2>1. sol' = Append(sol, u)
    BY <1>6 DEF BuildRoute
  <2>2. u \in Chains
    BY <1>1, <1>6 DEF IsFirst, ChainFrom, Chains, ChainsOf, Customers
  <2>3. u[1] = idx
    <3>1. N \in Nat /\ successors \in [1 .. N -> 0 .. N] /\ NoCycle(successors, N)
          /\ idx \in 1 .. N
      BY <1>1, ArraysLinked DEF Linked, Customers
    <3> QED
      BY <3>1, ChainAlongWalks DEF ChainFrom
  <2> HIDE DEF u
  <2>4. /\ sol' \in Seq(Chains) /\ Len(sol') = Len(sol) + 1
        /\ \A k \in 1 .. Len(sol) : sol'[k] = sol[k]
        /\ sol'[Len(sol) + 1] = u
        /\ \A k \in 1 .. Len(sol') : k \in 1 .. Len(sol) \/ k = Len(sol) + 1
    BY <1>3, <2>1, <2>2
  <2>5. \A k \in 1 .. Len(sol') : sol'[k][1] < idx'
    <3>1. \A k \in 1 .. Len(sol) : sol[k][1] \in Nat
      BY <1>3, <1>4
    <3> QED
      BY <1>2, <1>3, <2>3, <2>4, <3>1
  <2>6. \A k \in 1 .. Len(sol) : sol[k] # u
    BY <1>2, <1>3, <2>3
  <2>7. \A j, k \in 1 .. Len(sol') : sol'[j] = sol'[k] => j = k
    BY <1>3, <2>4, <2>6
  <2>8. ASSUME NEW t \in Chains, t[1] < idx + 1
        PROVE  \E k \in 1 .. Len(sol') : sol'[k] = t
    <3>1. CASE t[1] = idx
      <4>1. t = u
        BY <1>1, <1>4, <2>2, <2>3, <3>1, RoutesDisjoint
      <4>2. Len(sol) + 1 \in 1 .. Len(sol')
        BY <1>3, <2>4
      <4> QED
        BY <2>4, <4>1, <4>2
    <3>2. CASE t[1] # idx
      <4>1. t[1] < idx
        BY <1>2, <1>4, <2>8, <3>2
      <4>2. PICK k \in 1 .. Len(sol) : sol[k] = t
        BY <1>3, <4>1
      <4>3. k \in 1 .. Len(sol')
        BY <1>3, <2>4
      <4> QED
        BY <2>4, <4>2, <4>3
    <3> QED
      BY <3>1, <3>2
  <2> QED
    BY <1>2, <2>4, <2>5, <2>7, <2>8 DEF SolutionInv
<1> QED
  BY <1>5, <1>6

\* A route of one customer starts and ends with that customer.
LEMMA SingleRoute ==
  ASSUME NEW c \in Customers
  PROVE  /\ Len(<<c>>) = 1 /\ <<c>>[1] = c /\ <<c>>[Len(<<c>>)] = c
         /\ ~(c < 1)
BY NAssumption DEF Customers

\* RouteInv is true at the start.
LEMMA InitRoutes == Init => RouteInv
<1> SUFFICES ASSUME Init PROVE RouteInv
  OBVIOUS
<1>1. Chains = {<<c>> : c \in Customers}
  BY FreshRoutes DEF Init, Chains
<1>2. /\ pc = "scan" /\ savings = Pairs /\ route_demands = Demand
      /\ idx = 1 /\ sol = <<>>
  BY DEF Init
<1>3. WalkInv
  BY <1>2 DEF WalkInv
<1>4. DemandInv
  BY <1>1, <1>2, SingleRoute, LoadFacts DEF DemandInv, EndsExact
<1>5. MergingInv
  <2>1. ASSUME NEW a \in Customers, NEW b \in Customers, <<a>> # <<b>>
        PROVE  <<a, b>> \in Pairs
    BY <2>1 DEF Pairs
  <2>2. \A r, s \in Chains : r # s => <<r[Len(r)], s[1]>> \in savings
    BY <1>1, <1>2, <2>1, SingleRoute
  <2> QED
    BY <1>2, <2>2 DEF MergingInv, ToBeTried
<1>6. SolutionInv
  <2>1. sol \in Seq(Chains) /\ Len(sol) = 0
    BY <1>2
  <2>2. \A t \in Chains : ~(t[1] < idx)
    BY <1>1, <1>2, SingleRoute
  <2> QED
    BY <1>2, <2>1, <2>2 DEF SolutionInv
<1>7. ChainInv
  BY InitChains
<1> QED
  BY <1>3, <1>4, <1>5, <1>6, <1>7 DEF RouteInv

\* The next lambda starts with fresh arrays.
LEMMA NextLambdaRoutes ==
  ASSUME NextLambda
  PROVE  WalkInv' /\ DemandInv' /\ MergingInv' /\ SolutionInv'
<1>1. Chains' = {<<c>> : c \in Customers}
  BY FreshRoutes DEF NextLambda, Chains
<1>2. /\ pc' = "scan" /\ savings' = Pairs /\ route_demands' = Demand
      /\ idx' = 1 /\ sol' = <<>>
  BY DEF NextLambda
<1>3. WalkInv'
  BY <1>2 DEF WalkInv
<1>4. DemandInv'
  BY <1>1, <1>2, SingleRoute, LoadFacts DEF DemandInv, EndsExact
<1>5. MergingInv'
  <2>1. ASSUME NEW a \in Customers, NEW b \in Customers, <<a>> # <<b>>
        PROVE  <<a, b>> \in Pairs
    BY <2>1 DEF Pairs
  <2>2. \A r, s \in Chains' : r # s => <<r[Len(r)], s[1]>> \in savings'
    BY <1>1, <1>2, <2>1, SingleRoute
  <2> QED
    BY <1>2, <2>2 DEF MergingInv, ToBeTried
<1>6. SolutionInv'
  <2>1. sol' \in Seq(Chains') /\ Len(sol') = 0
    BY <1>2
  <2>2. \A t \in Chains' : ~(t[1] < idx')
    BY <1>1, <1>2, SingleRoute
  <2> QED
    BY <1>2, <2>1, <2>2 DEF SolutionInv
<1> QED
  BY <1>3, <1>4, <1>5, <1>6

\* A skipped saving is not about the ends of two routes.
LEMMA SkipSavingMerging ==
  ASSUME RouteInv, NEW p \in Pairs, SkipSaving(p)
  PROVE  MergingInv'
<1>1. ChainInv /\ MergingInv /\ pc = "scan" /\ ~CanLink(p)
  BY DEF RouteInv, SkipSaving
<1>2. Chains' = Chains /\ savings' = savings \ {p} /\ pc' = "scan"
  BY <1>1 DEF SkipSaving, arrays, Chains
<1>3. ASSUME NEW r \in Chains, NEW s \in Chains, ToBeTried(r, s)
      PROVE  ToBeTried(r, s)'
  <2>1. <<r[Len(r)], s[1]>> \in savings
    BY <1>1, <1>3 DEF ToBeTried
  <2>2. successors[r[Len(r)]] = 0 /\ predecessors[s[1]] = 0
    BY <1>1, RouteParts
  <2>3. <<r[Len(r)], s[1]>> # p
    BY <1>1, <2>2 DEF CanLink
  <2> QED
    BY <1>2, <2>1, <2>3 DEF ToBeTried
<1> QED
  BY <1>1, <1>2, <1>3 DEF MergingInv

\* RouteInv is inductive: the heuristic keeps track of its routes, their demands
\* and the pairs still to be tried, for any number of customers and any order of
\* the savings.
THEOREM RoutesSound == Spec => []RouteInv
<1>1. RouteInv /\ ChainInv' /\ [Next]_vars => RouteInv'
  <2> SUFFICES ASSUME RouteInv, ChainInv', [Next]_vars PROVE RouteInv'
    OBVIOUS
  <2> USE DEF RouteInv
  <2>0. ASSUME UNCHANGED <<arrays, sol, idx>>
        PROVE  Chains' = Chains
    BY <2>0 DEF Chains, arrays
  <2>1. ASSUME NEW p \in Pairs, SkipSaving(p) PROVE RouteInv'
    <3>1. UNCHANGED <<pc, arrays, walkers, sol, idx>> /\ pc = "scan"
      BY <2>1 DEF SkipSaving
    <3>2. Chains' = Chains
      BY <2>0, <3>1
    <3>3. WalkInv' /\ DemandInv' /\ SolutionInv'
      BY <3>1, <3>2 DEF WalkInv, DemandInv, SolutionInv, EndsExact, arrays
    <3> QED
      BY <2>1, <3>3, SkipSavingMerging
  <2>2. ASSUME NEW p \in Pairs, TakeSaving(p) PROVE RouteInv'
    <3>1. /\ UNCHANGED <<arrays, sol, idx>> /\ pc = "scan" /\ pc' = "walk_back"
      BY <2>2 DEF TakeSaving
    <3>2. Chains' = Chains
      BY <2>0, <3>1
    <3>3. DemandInv' /\ SolutionInv'
      BY <3>1, <3>2 DEF DemandInv, SolutionInv, EndsExact, arrays
    <3> QED
      BY <2>2, <3>3, TakeSavingEnds
  <2>3. CASE WalkBack
    <3>1. /\ UNCHANGED <<pc, savings, arrays, sol, idx, c1, c2>> /\ pc = "walk_back"
      BY <2>3 DEF WalkBack
    <3>2. Chains' = Chains
      BY <2>0, <3>1
    <3>3. DemandInv' /\ MergingInv' /\ SolutionInv'
      BY <3>1, <3>2
         DEF DemandInv, MergingInv, SolutionInv, EndsExact, ToBeTried, arrays
    <3> QED
      BY <2>3, <3>3, WalkBackOnRoute
  <2>4. CASE Reject
    <3>1. /\ UNCHANGED <<arrays, sol, idx>> /\ pc = "walk_back" /\ pc' = "scan"
      BY <2>4 DEF Reject, EndIteration
    <3>2. Chains' = Chains
      BY <2>0, <3>1
    <3>3. WalkInv' /\ DemandInv' /\ SolutionInv'
      BY <3>1, <3>2 DEF WalkInv, DemandInv, SolutionInv, EndsExact, arrays
    <3> QED
      BY <2>4, <3>3, RejectMerging
  <2>5. CASE Merge
    BY <2>5, MergeKeepsRoutes
  <2>6. CASE WalkForward
    <3>1. /\ UNCHANGED <<pc, savings, arrays, sol, idx, c1, c2>> /\ pc = "walk_forward"
      BY <2>6 DEF WalkForward
    <3>2. Chains' = Chains
      BY <2>0, <3>1
    <3>3. WalkInv' /\ MergingInv' /\ SolutionInv'
      BY <3>1, <3>2 DEF WalkInv, MergingInv, SolutionInv, ToBeTried
    <3> QED
      BY <2>6, <3>3, WalkForwardOnRoute
  <2>7. CASE RecordDemand
    <3>1. /\ UNCHANGED <<savings, predecessors, successors, sol, idx>>
          /\ pc = "walk_forward" /\ pc' = "scan"
      BY <2>7 DEF RecordDemand, EndIteration
    <3>2. Chains' = Chains
      BY <3>1 DEF Chains
    <3>3. WalkInv' /\ MergingInv' /\ SolutionInv'
      BY <3>1, <3>2 DEF WalkInv, MergingInv, SolutionInv, ToBeTried
    <3> QED
      BY <2>7, <3>3, RecordDemandExact
  <2>8. CASE StartBuild
    <3>1. /\ UNCHANGED <<savings, arrays, sol, idx>> /\ savings = {}
          /\ pc = "scan" /\ pc' = "build"
      BY <2>8 DEF StartBuild
    <3>2. Chains' = Chains
      BY <2>0, <3>1
    <3>3. WalkInv' /\ DemandInv' /\ MergingInv' /\ SolutionInv'
      BY <3>1, <3>2 DEF WalkInv, DemandInv, MergingInv, SolutionInv, ToBeTried
    <3> QED
      BY <3>3
  <2>9. CASE BuildRoute
    <3>1. UNCHANGED <<pc, savings, arrays>> /\ pc = "build"
      BY <2>9 DEF BuildRoute
    <3>2. Chains' = Chains
      BY <3>1 DEF Chains, arrays
    <3>3. WalkInv' /\ DemandInv' /\ MergingInv'
      BY <3>1, <3>2 DEF WalkInv, DemandInv, MergingInv, ToBeTried
    <3> QED
      BY <2>9, <3>3, BuildRouteExact
  <2>10. CASE NextLambda
    BY <2>10, NextLambdaRoutes
  <2>11. CASE Finish
    <3>1. /\ UNCHANGED <<savings, arrays, sol, idx>> /\ ~(idx <= N)
          /\ pc = "build" /\ pc' = "done"
      BY <2>11, NAssumption DEF Finish, ChainInv, TypeOK
    <3>2. Chains' = Chains
      BY <2>0, <3>1
    <3>3. idx' = N + 1
      <4>1. idx \in 1 .. N + 1
        BY DEF ChainInv, TypeOK
      <4> QED
        BY <3>1, <4>1, NAssumption
    <3>4. WalkInv' /\ DemandInv' /\ MergingInv' /\ SolutionInv'
      BY <3>1, <3>2, <3>3 DEF WalkInv, DemandInv, MergingInv, SolutionInv, ToBeTried
    <3> QED
      BY <3>4
  <2>12. CASE UNCHANGED vars
    <3>1. UNCHANGED <<pc, savings, arrays, walkers, sol, idx>>
      BY <2>12 DEF vars
    <3>2. Chains' = Chains
      BY <2>0, <3>1
    <3>3. WalkInv' /\ MergingInv' /\ SolutionInv'
      BY <3>1, <3>2 DEF walkers, WalkInv, MergingInv, SolutionInv, ToBeTried
    <3>4. DemandInv'
      BY <3>1, <3>2 DEF arrays, walkers, DemandInv, EndsExact, NewDemand
    <3> QED
      BY <3>3, <3>4
  <2> QED
    BY <2>1, <2>2, <2>3, <2>4, <2>5, <2>6, <2>7, <2>8, <2>9, <2>10, <2>11,
       <2>12 DEF Next
<1> QED
  BY <1>1, InitRoutes, ChainsSound, PTL DEF Spec

\* Whenever the next saving is read, the demand of a route is recorded at both
\* of its ends.
THEOREM EndDemandsStayExact == Spec => []EndDemandsExact
<1>1. RouteInv => EndDemandsExact
  BY DEF RouteInv, DemandInv, EndsExact, EndDemandsExact
<1> QED
  BY <1>1, RoutesSound, PTL

\* After one pass over the savings no two routes fit one vehicle.
THEOREM OnePassSuffices == Spec => []MaximalMerging
<1>1. RouteInv => MaximalMerging
  BY DEF RouteInv, MergingInv, ToBeTried, MaximalMerging
<1> QED
  BY <1>1, RoutesSound, PTL

\* The solution serves every customer exactly once.
THEOREM EveryCustomerServed == Spec => []SolutionServesAll
<1>1. RouteInv => SolutionServesAll
  <2> SUFFICES ASSUME RouteInv, (pc = "build" /\ idx = N + 1) \/ pc = "done",
                      NEW c \in Customers
               PROVE  Cardinality({v \in (1 .. Len(sol)) \X (1 .. N) :
                                     v[2] <= Len(sol[v[1]]) /\ sol[v[1]][v[2]] = c}) = 1
    BY DEF SolutionServesAll
  <2> DEFINE Serves(v) == v[2] <= Len(sol[v[1]]) /\ sol[v[1]][v[2]] = c
             V == {v \in (1 .. Len(sol)) \X (1 .. N) : Serves(v)}
  <2>1. ChainInv /\ SolutionInv /\ idx = N + 1
    BY DEF RouteInv, SolutionInv
  <2>2. PICK t \in Chains : IsOn(c, t)
    BY <2>1, RouteOf
  <2>3. t[1] < N + 1
    <3>1. t[1] \in Customers
      BY <2>1, RouteParts
    <3> QED
      BY <3>1, NAssumption DEF Customers
  <2>4. PICK i \in 1 .. Len(sol) : sol[i] = t
    BY <2>1, <2>3 DEF SolutionInv
  <2>5. PICK j \in 1 .. Len(t) : t[j] = c
    BY <2>2 DEF IsOn
  <2>6. ASSUME NEW k \in 1 .. Len(sol)
        PROVE  sol[k] \in Chains /\ Len(sol[k]) \in 1 .. N
    <3>1. sol[k] \in Chains
      BY <2>1 DEF SolutionInv
    <3> QED
      BY <2>1, <3>1, RouteParts
  <2>7. j \in 1 .. N /\ j <= Len(sol[i]) /\ sol[i][j] = c
    BY <2>4, <2>5, <2>6, NAssumption
  <2>8. ASSUME NEW k \in 1 .. Len(sol), NEW m \in 1 .. N,
               m <= Len(sol[k]), sol[k][m] = c
        PROVE  k = i /\ m = j
    <3>1. sol[k] \in Chains /\ m \in 1 .. Len(sol[k])
      BY <2>6, <2>8, NAssumption
    <3>2. sol[k] = t /\ m = j
      BY <2>1, <2>5, <2>8, <3>1, RoutesDisjoint
    <3> QED
      BY <2>1, <2>4, <3>2 DEF SolutionInv
  <2>9. V = {<<i, j>>}
    <3>1. <<i, j>> \in V
      BY <2>7
    <3>2. ASSUME NEW v \in V PROVE v = <<i, j>>
      <4>1. PICK k \in 1 .. Len(sol), m \in 1 .. N : v = <<k, m>>
        OBVIOUS
      <4>2. m <= Len(sol[k]) /\ sol[k][m] = c
        BY <4>1
      <4> QED
        BY <2>8, <4>1, <4>2
    <3> HIDE DEF V
    <3> QED
      BY <3>1, <3>2
  <2> HIDE DEF V
  <2>10. Cardinality(V) = 1
    BY <2>9, FS_Singleton
  <2> QED
    BY <2>10 DEF V
<1> QED
  BY <1>1, RoutesSound, PTL

-----------------------------------------------------------------------------
(***************************************************************************)
(* The refinement: a merge joins two whole routes, the next lambda starts  *)
(* anew, and no other step changes the routes.                             *)
(***************************************************************************)

\* The abstract heuristic adds up the demands of a route in the same way.
LEMMA SameLoad == \A t : Merging!LoadOf(t) = Load(t)
BY DEF Merging!LoadOf, Merging!SumOf, Load, SumOf

\* Every change of the arrays of cvrp_clark_wright is the joining of two whole
\* routes whose true joint demand fits a vehicle, or a new start.
THEOREM ImplementsRouteMerging == Spec => ImplementsMerging
<1>1. Init => Merging!Init
  BY FreshRoutes DEF Init, Chains, Merging!Init, Merging!Singles
<1>2. RouteInv /\ ChainInv' /\ [Next]_vars => [Merging!Next]_Chains
  <2> SUFFICES ASSUME RouteInv, ChainInv', [Next]_vars
               PROVE  Merging!Next \/ Chains' = Chains
    OBVIOUS
  <2>1. CASE Merge
    <3>1. PICK r \in Chains, s \in Chains :
            /\ r # s /\ NewDemand = Load(r) + Load(s)
            /\ Chains' = (Chains \ {r, s}) \cup {r \o s}
      BY <2>1, MergeJoins
    <3>2. NewDemand <= Capacity
      BY <2>1 DEF Merge
    <3>3. Merging!Join(r, s)
      BY <3>1, <3>2, SameLoad DEF Merging!Join
    <3> QED
      BY <3>3 DEF Merging!Next
  <2>2. CASE NextLambda
    <3>1. Chains' = {<<c>> : c \in Customers}
      BY <2>2, FreshRoutes DEF NextLambda, Chains
    <3> QED
      BY <3>1 DEF Merging!Next, Merging!StartAnew, Merging!Singles
  <2>3. CASE ~Merge /\ ~NextLambda
    <3>1. UNCHANGED <<predecessors, successors>>
      BY <2>3 DEF Next, SkipSaving, TakeSaving, WalkBack, Reject, WalkForward,
                  RecordDemand, StartBuild, BuildRoute, Finish, arrays, vars
    <3> QED
      BY <3>1 DEF Chains
  <2> QED
    BY <2>1, <2>2, <2>3
<1> QED
  BY <1>1, <1>2, RoutesSound, ChainsSound, PTL
     DEF Spec, ImplementsMerging, Merging!Spec
=============================================================================
