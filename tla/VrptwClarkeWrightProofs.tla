---------------------- MODULE VrptwClarkeWrightProofs ----------------------
(***************************************************************************)
(* Proofs about VrptwClarkeWright, for every number of customers, every    *)
(* demand, capacity, distance and duration matrix and all sets of models   *)
(* that meet its assumptions.                                              *)
(***************************************************************************)
EXTENDS VrptwClarkeWright, SequenceFacts

\* The indices are the customers and the depot.
LEMMA DepotIsNoCustomer == Index = Customers \cup {0} /\ 0 \notin Customers
BY NAssumption DEF Index, Customers

\* A pair of the savings array joins two distinct customers.
LEMMA PairEnds ==
  \A p \in Pairs : p[1] \in Customers /\ p[2] \in Customers /\ p[1] # p[2]
BY DEF Pairs

\* The demand of a list of nodes.
LEMMA LoadFacts ==
  /\ \A r \in Seq(Index) : Load(r) \in Nat
  /\ \A r, s \in Seq(Index) : Load(r \o s) = Load(r) + Load(s)
  /\ \A n \in Index : Load(<<n>>) = Demand[n]
  /\ Seq(Customers) \subseteq Seq(Index)
<1>1. \A r : Load(r) = SumOf(Weights(Demand, r))
  BY DEF Load, Weights
<1>2. Demand \in [Index -> Nat]
  BY DemandAssumption
<1>3. \A r \in Seq(Index) : Load(r) \in Nat
  BY <1>1, <1>2, WeightNat
<1>4. \A r, s \in Seq(Index) : Load(r \o s) = Load(r) + Load(s)
  BY <1>1, <1>2, WeightConcat
<1>5. \A n \in Index : Load(<<n>>) = Demand[n]
  BY <1>1, <1>2, WeightOne
<1>6. Customers \subseteq Index
  BY DepotIsNoCustomer
<1>7. Seq(Customers) \subseteq Seq(Index)
  BY ONLY <1>6, SeqMonotonic
<1> QED
  BY <1>3, <1>4, <1>5, <1>7

-----------------------------------------------------------------------------
(***************************************************************************)
(* The invariant of the chains and the demands                             *)
(***************************************************************************)
IsOn(c, t) == \E k \in 1 .. Len(t) : t[k] = c

\* The arrays are inverse to each other and free of cycles, and no walk is at
\* the depot.
ChainInv ==
  /\ pc \in PCs
  /\ \E m \in Models : tws = m.tws /\ ids = m.ids
  /\ Linked(successors, predecessors, N)
  /\ route_demands \in [Customers -> Nat]
  /\ new_demand \in Nat
  /\ idx \in 1 .. N + 1
  /\ pc \in {"walk_back", "departures", "windows"} =>
       /\ last_visit \in Customers /\ first_visit \in Customers
       /\ node \in Customers

\* What a merge has come to: the joined route t, with last_visit at position a,
\* and the customer at position m, whose record is the next to be renewed.
IsMerged(t, a, m) ==
  /\ a \in 1 .. Len(t) - 1 /\ m \in 1 .. Len(t)
  /\ t[a] = last_visit /\ t[a + 1] = first_visit /\ t[m] = node
  /\ new_demand = Load(t)

DemandKnown(t, k) == route_demands[t[k]] = Load(t)
OthersKnown(t) ==
  \A u \in Chains : u # t => \A k \in 1 .. Len(u) : DemandKnown(u, k)

\* The walk back is on the route that ends with last_visit, and first_visit
\* begins one.
WalkInv ==
  pc = "walk_back" =>
    /\ \E t \in Chains : t[Len(t)] = last_visit /\ IsOn(node, t)
    /\ \E t \in Chains : t[1] = first_visit

DepartureWalkInv ==
  pc = "departures" =>
    \E t \in Chains : \E a, m \in 1 .. Len(t) :
      /\ IsMerged(t, a, m) /\ a < m
      /\ \A k \in a + 1 .. m - 1 : DemandKnown(t, k)
      /\ OthersKnown(t)

WindowWalkInv ==
  pc = "windows" =>
    \E t \in Chains : \E a, m \in 1 .. Len(t) :
      /\ IsMerged(t, a, m) /\ m <= a
      /\ \A k \in m + 1 .. Len(t) : DemandKnown(t, k)
      /\ OthersKnown(t)

DemandInv ==
  pc \in {"scan", "walk_back"} =>
    \A t \in Chains : \A k \in 1 .. Len(t) : DemandKnown(t, k)


LoadInv ==
  (\A c \in Customers : Demand[c] <= Capacity) =>
    \A t \in Chains : Load(t) <= Capacity

RouteInv ==
  /\ ChainInv /\ WalkInv /\ DepartureWalkInv /\ WindowWalkInv
  /\ DemandInv /\ LoadInv

\* The routes are the chains of the arrays.
LEMMA RoutesAreChains ==
  ASSUME ChainInv
  PROVE  \A t : t \in Chains <=> IsChain(successors, predecessors, N, t)
BY ChainsOfArrays DEF ChainInv, Chains

\* What a route consists of.
LEMMA RouteParts ==
  ASSUME ChainInv, NEW t \in Chains
  PROVE  /\ t \in Seq(Customers) /\ Len(t) \in Nat /\ Len(t) \in 1 .. N
         /\ 1 \in 1 .. Len(t) /\ Len(t) \in 1 .. Len(t)
         /\ \A k \in 1 .. Len(t) : t[k] \in Customers /\ t[k] # 0
         /\ \A k \in 1 .. Len(t) - 1 : successors[t[k]] = t[k + 1]
         /\ \A k \in 1 .. Len(t) - 1 : predecessors[t[k + 1]] = t[k]
         /\ predecessors[t[1]] = 0 /\ successors[t[Len(t)]] = 0
         /\ t[1] \in Customers /\ t[Len(t)] \in Customers
<1>1. Linked(successors, predecessors, N) /\ IsChain(successors, predecessors, N, t)
  BY RoutesAreChains DEF ChainInv
<1>2. /\ t \in Seq(Customers) /\ Len(t) \in 1 .. N /\ N \in Nat /\ Len(t) \in Nat
      /\ \A k \in 1 .. Len(t) : t[k] \in Customers /\ t[k] # 0
      /\ \A k \in 1 .. Len(t) - 1 : successors[t[k]] = t[k + 1]
      /\ \A k \in 1 .. Len(t) - 1 : predecessors[t[k + 1]] = t[k]
      /\ predecessors[t[1]] = 0 /\ successors[t[Len(t)]] = 0
      /\ t[1] \in Customers /\ t[Len(t)] \in Customers
  BY <1>1, ChainParts DEF Customers
<1>3. 1 \in 1 .. Len(t) /\ Len(t) \in 1 .. Len(t)
  BY <1>2
<1> QED
  BY <1>2, <1>3

\* No customer is on two routes.
LEMMA RoutesDisjoint ==
  ASSUME ChainInv, NEW t \in Chains, NEW u \in Chains,
         NEW i \in 1 .. Len(t), NEW j \in 1 .. Len(u), t[i] = u[j]
  PROVE  t = u /\ i = j
<1>1. /\ Linked(successors, predecessors, N)
      /\ IsChain(successors, predecessors, N, t)
      /\ IsChain(successors, predecessors, N, u)
  BY RoutesAreChains DEF ChainInv
<1> QED
  BY <1>1, SharedCustomer

\* Every customer is on a route; the one without successor is its last one, the
\* one without predecessor its first one.
LEMMA RouteOf ==
  ASSUME ChainInv, NEW c \in Customers
  PROVE  \E t \in Chains :
           /\ IsOn(c, t)
           /\ successors[c] = 0 => t[Len(t)] = c
           /\ predecessors[c] = 0 => t[1] = c
<1>0. Linked(successors, predecessors, N) /\ c \in 1 .. N
  BY DEF ChainInv, Customers
<1>1. PICK t : /\ IsChain(successors, predecessors, N, t)
               /\ \E k \in 1 .. Len(t) : t[k] = c
               /\ successors[c] = 0 => t[Len(t)] = c
               /\ predecessors[c] = 0 => t[1] = c
  BY <1>0, ChainOf
<1> QED
  BY <1>1, RoutesAreChains DEF IsOn

\* The neighbours of a customer.
LEMMA Neighbours ==
  ASSUME ChainInv
  PROVE  /\ successors \in [Customers -> Index]
         /\ predecessors \in [Customers -> Index]
         /\ \A a, b \in Customers : successors[a] = b <=> predecessors[b] = a
         /\ \A c \in Customers : successors[c] # c /\ predecessors[c] # c
<1>1. /\ successors \in [Customers -> Index]
      /\ predecessors \in [Customers -> Index]
      /\ \A a, b \in Customers : successors[a] = b <=> predecessors[b] = a
      /\ NoCycle(successors, N)
  BY DEF ChainInv, Linked, Customers, Index
<1>2. \A c \in Customers : successors[c] # c
  <2> SUFFICES ASSUME NEW c \in Customers PROVE successors[c] # c
    OBVIOUS
  <2>1. {c} \in SUBSET (1 .. N) /\ {c} # {}
    BY DEF Customers
  <2>2. \E x \in {c} : successors[x] \notin {c}
    BY ONLY <1>1, <2>1 DEF NoCycle
  <2> QED
    BY <2>2
<1> QED
  BY <1>1, <1>2

\* With unlinked arrays every customer is on a route of its own.
LEMMA UnlinkedRoutes ==
  /\ Linked(Unlinked, Unlinked, N)
  /\ ChainsOf(Unlinked, Unlinked, N) = {<<c>> : c \in Customers}
BY NAssumption, UnlinkedChains DEF Unlinked, Customers

\* What is known when a merge or its rejection is decided: last_visit ends the
\* route r that node begins, first_visit begins a route s, and NewDemand is
\* their demand.
LEMMA DecisionState ==
  ASSUME RouteInv, pc = "walk_back", predecessors[node] = 0
  PROVE  \E r, s \in Chains :
           /\ r[Len(r)] = last_visit /\ r[1] = node /\ s[1] = first_visit
           /\ r # s <=> node # first_visit
           /\ NewDemand = Load(r) + Load(s)
<1>1. ChainInv /\ WalkInv /\ DemandInv
  BY DEF RouteInv
<1>2. PICK r \in Chains : r[Len(r)] = last_visit /\ IsOn(node, r)
  BY <1>1 DEF WalkInv
<1>3. PICK s \in Chains : s[1] = first_visit
  BY <1>1 DEF WalkInv
<1>4. PICK k \in 1 .. Len(r) : r[k] = node
  BY <1>2 DEF IsOn
<1>5. r[1] = node
  <2>1. /\ Len(r) \in Nat /\ \A m \in 1 .. Len(r) : r[m] # 0
        /\ \A m \in 1 .. Len(r) - 1 : predecessors[r[m + 1]] = r[m]
    BY <1>1, RouteParts
  <2>2. k = 1
    <3>1. SUFFICES ASSUME k # 1 PROVE FALSE
      OBVIOUS
    <3>2. k - 1 \in 1 .. Len(r) - 1 /\ k - 1 + 1 = k /\ k - 1 \in 1 .. Len(r)
      BY <2>1, <3>1
    <3>3. predecessors[r[k - 1 + 1]] = r[k - 1] /\ r[k - 1] # 0
      BY <2>1, <3>2
    <3> QED
      BY <1>4, <3>2, <3>3
  <2> QED
    BY <1>4, <2>2
<1>6. /\ 1 \in 1 .. Len(r) /\ 1 \in 1 .. Len(s)
      /\ Len(r) \in 1 .. Len(r)
  BY <1>1, RouteParts
<1>7. r # s <=> node # first_visit
  <2>1. ASSUME r[1] = s[1] PROVE r = s
    BY <1>1, <1>6, <2>1, RoutesDisjoint
  <2> QED
    BY <1>3, <1>5, <2>1
<1>8. NewDemand = Load(r) + Load(s)
  <2>1. route_demands[r[Len(r)]] = Load(r) /\ route_demands[s[1]] = Load(s)
    BY <1>1, <1>6 DEF DemandInv, DemandKnown
  <2> QED
    BY <1>2, <1>3, <2>1 DEF NewDemand
<1> QED
  BY <1>2, <1>3, <1>5, <1>7, <1>8

\* A merge joins the two routes.
LEMMA MergeJoins ==
  ASSUME RouteInv, Merge
  PROVE  /\ Linked(successors', predecessors', N)
         /\ \E r, s \in Chains :
              /\ r # s /\ r[Len(r)] = last_visit /\ s[1] = first_visit
              /\ NewDemand = Load(r) + Load(s) /\ NewDemand <= Capacity
              /\ Chains' = (Chains \ {r, s}) \cup {r \o s}
<1>0. pc = "walk_back" /\ predecessors[node] = 0 /\ MayMerge
  BY DEF Merge
<1>1. PICK r \in Chains, s \in Chains :
        /\ r[Len(r)] = last_visit /\ r[1] = node /\ s[1] = first_visit
        /\ r # s <=> node # first_visit
        /\ NewDemand = Load(r) + Load(s)
  BY <1>0, DecisionState
<1>2. r # s /\ NewDemand <= Capacity
  BY <1>0, <1>1 DEF MayMerge
<1>3. ChainInv /\ Linked(successors, predecessors, N)
  BY DEF RouteInv, ChainInv
<1>4. /\ IsChain(successors, predecessors, N, r)
      /\ IsChain(successors, predecessors, N, s)
  BY <1>3, RoutesAreChains
<1>5. IsLink(successors, predecessors, successors', predecessors', r, s)
  BY <1>1 DEF Merge, IsLink
<1>6. Linked(successors', predecessors', N)
  BY <1>2, <1>3, <1>4, <1>5, JoinKeepsLinked
<1>7. ChainsOf(successors', predecessors', N) =
        (ChainsOf(successors, predecessors, N) \ {r, s}) \cup {r \o s}
  BY <1>2, <1>3, <1>4, <1>5, <1>6, JoinChains
<1>8. Chains' = (Chains \ {r, s}) \cup {r \o s}
  BY <1>7 DEF Chains
<1> QED
  BY <1>1, <1>2, <1>6, <1>8

\* At the start of every lambda each customer knows its own demand.
LEMMA StartLambdaRoutes ==
  ASSUME RouteInv, StartLambda
  PROVE  RouteInv'
<1>1. ChainInv
  BY DEF RouteInv
<1>2. /\ pc' \in {"aborted", "scan"} /\ idx' = 1 /\ UNCHANGED <<tws, ids, new_demand>>
      /\ predecessors' = Unlinked /\ successors' = Unlinked
      /\ route_demands' = [c \in Customers |-> Demand[c]]
  BY DEF StartLambda, model, locals
<1>3. Chains' = {<<c>> : c \in Customers} /\ Linked(successors', predecessors', N)
  BY <1>2, UnlinkedRoutes DEF Chains
<1>4. ASSUME NEW c \in Customers PROVE Demand[c] \in Nat /\ Load(<<c>>) = Demand[c]
  BY LoadFacts, DepotIsNoCustomer, DemandAssumption
<1>5. ChainInv'
  <2>1. \E m \in Models : tws' = m.tws /\ ids' = m.ids
    BY <1>1, <1>2 DEF ChainInv
  <2>2. idx' \in 1 .. N + 1 /\ new_demand' \in Nat
    BY <1>1, <1>2, NAssumption DEF ChainInv
  <2>3. route_demands' \in [Customers -> Nat]
    BY <1>2, <1>4
  <2> QED
    BY <1>2, <1>3, <2>1, <2>2, <2>3 DEF ChainInv, PCs
<1>6. WalkInv' /\ DepartureWalkInv' /\ WindowWalkInv'
  BY <1>2 DEF WalkInv, DepartureWalkInv, WindowWalkInv
<1>7. DemandInv'
  <2>1. ASSUME NEW t \in Chains', NEW k \in 1 .. Len(t) PROVE DemandKnown(t, k)'
    <3>1. PICK c \in Customers : t = <<c>>
      BY <1>3
    <3>2. t[k] = c
      BY <3>1
    <3> QED
      BY <1>2, <1>4, <3>1, <3>2 DEF DemandKnown
  <2> QED
    BY <2>1 DEF DemandInv
<1>8. LoadInv'
  BY <1>3, <1>4 DEF LoadInv
<1> QED
  BY <1>5, <1>6, <1>7, <1>8 DEF RouteInv

\* Steps that change neither the arrays nor the demands keep what is known of
\* the chains.
LEMMA SameChains ==
  ASSUME RouteInv, UNCHANGED <<tws, ids, predecessors, successors, route_demands>>
  PROVE  /\ Chains' = Chains
         /\ \A t \in Chains : \A k \in 1 .. Len(t) : DemandKnown(t, k)' <=> DemandKnown(t, k)
         /\ LoadInv'
         /\ Linked(successors', predecessors', N)
         /\ route_demands' \in [Customers -> Nat]
         /\ \E m \in Models : tws' = m.tws /\ ids' = m.ids
<1>1. Chains' = Chains
  BY DEF Chains
<1>2. LoadInv'
  BY <1>1 DEF RouteInv, LoadInv
<1>3. \A t \in Chains : \A k \in 1 .. Len(t) : DemandKnown(t, k)' <=> DemandKnown(t, k)
  BY DEF DemandKnown
<1> QED
  BY <1>1, <1>2, <1>3 DEF RouteInv, ChainInv

\* Outside of the walks only the demands matter.
LEMMA NoWalkSteps ==
  ASSUME RouteInv, UNCHANGED <<tws, ids, predecessors, successors, route_demands>>,
         new_demand' \in Nat, idx' \in 1 .. N + 1,
         pc' \in {"start", "scan", "build", "done", "aborted"},
         pc' = "scan" => pc \in {"scan", "walk_back"}
  PROVE  RouteInv'
<1>1. /\ Chains' = Chains /\ LoadInv'
      /\ \A t \in Chains : \A k \in 1 .. Len(t) : DemandKnown(t, k)' <=> DemandKnown(t, k)
  BY SameChains
<1>2. ChainInv'
  BY SameChains DEF ChainInv, PCs
<1>3. WalkInv' /\ DepartureWalkInv' /\ WindowWalkInv'
  BY DEF WalkInv, DepartureWalkInv, WindowWalkInv
<1>4. DemandInv'
  <2>1. ASSUME pc' \in {"scan", "walk_back"}
        PROVE  \A t \in Chains' : \A k \in 1 .. Len(t) : DemandKnown(t, k)'
    <3>1. DemandInv /\ pc \in {"scan", "walk_back"}
      BY <2>1 DEF RouteInv
    <3> QED
      BY <1>1, <3>1 DEF DemandInv
  <2> QED
    BY <2>1 DEF DemandInv
<1> QED
  BY <1>1, <1>2, <1>3, <1>4 DEF RouteInv

\* A taken saving is about the last customer of one route and the first customer
\* of one.
LEMMA TakeSavingRoutes ==
  ASSUME RouteInv, NEW p \in Pairs, TakeSaving(p)
  PROVE  RouteInv'
<1>1. /\ pc = "scan" /\ successors[p[1]] = 0 /\ predecessors[p[2]] = 0
      /\ last_visit' = p[1] /\ first_visit' = p[2] /\ node' = p[1]
      /\ pc' = "walk_back"
      /\ UNCHANGED <<tws, ids, predecessors, successors, route_demands, new_demand, idx>>
  BY DEF TakeSaving, CanLink, model, chains, result
<1>2. p[1] \in Customers /\ p[2] \in Customers
  BY PairEnds
<1>3. ChainInv /\ DemandInv
  BY DEF RouteInv
<1>4. PICK t \in Chains : IsOn(p[1], t) /\ t[Len(t)] = p[1]
  BY <1>1, <1>2, <1>3, RouteOf
<1>5. PICK u \in Chains : u[1] = p[2]
  BY <1>1, <1>2, <1>3, RouteOf
<1>6. /\ Chains' = Chains /\ LoadInv'
      /\ \A r \in Chains : \A k \in 1 .. Len(r) : DemandKnown(r, k)' <=> DemandKnown(r, k)
  BY <1>1, SameChains
<1>7. ChainInv'
  BY <1>1, <1>2, <1>3, SameChains DEF ChainInv, PCs
<1>8. WalkInv'
  BY <1>1, <1>4, <1>5, <1>6 DEF WalkInv, IsOn
<1>9. DepartureWalkInv' /\ WindowWalkInv'
  BY <1>1 DEF DepartureWalkInv, WindowWalkInv
<1>10. DemandInv'
  BY <1>1, <1>3, <1>6 DEF DemandInv
<1> QED
  BY <1>6, <1>7, <1>8, <1>9, <1>10 DEF RouteInv

\* The walk back stays on its route.
LEMMA WalkBackRoutes ==
  ASSUME RouteInv, WalkBack
  PROVE  RouteInv'
<1>1. /\ pc = "walk_back" /\ predecessors[node] # 0 /\ node' = predecessors[node]
      /\ pc' = "walk_back"
      /\ UNCHANGED <<tws, ids, predecessors, successors, route_demands, new_demand,
                     idx, last_visit, first_visit>>
  BY DEF WalkBack, model, chains, result
<1>2. ChainInv /\ DemandInv /\ WalkInv
  BY DEF RouteInv
<1>3. node' \in Customers
  <2>1. node \in Customers /\ predecessors \in [Customers -> Index]
    BY <1>1, <1>2, Neighbours DEF ChainInv
  <2> QED
    BY <1>1, <2>1, DepotIsNoCustomer
<1>4. PICK t \in Chains : t[Len(t)] = last_visit /\ IsOn(node, t)
  BY <1>1, <1>2 DEF WalkInv
<1>5. PICK k \in 1 .. Len(t) : t[k] = node
  BY <1>4 DEF IsOn
<1>6. k - 1 \in 1 .. Len(t) /\ t[k - 1] = node'
  <2>1. /\ Len(t) \in Nat /\ predecessors[t[1]] = 0
        /\ \A m \in 1 .. Len(t) - 1 : predecessors[t[m + 1]] = t[m]
    BY <1>2, RouteParts
  <2>2. k # 1
    BY <1>1, <1>5, <2>1
  <2>3. k - 1 \in 1 .. Len(t) - 1 /\ k - 1 + 1 = k /\ k - 1 \in 1 .. Len(t)
    BY <2>1, <2>2
  <2>4. predecessors[t[k - 1 + 1]] = t[k - 1]
    BY <2>1, <2>3
  <2> QED
    BY <1>1, <1>5, <2>3, <2>4
<1>7. /\ Chains' = Chains /\ LoadInv'
      /\ \A r \in Chains : \A m \in 1 .. Len(r) : DemandKnown(r, m)' <=> DemandKnown(r, m)
  BY <1>1, SameChains
<1>8. ChainInv'
  BY <1>1, <1>2, <1>3, SameChains DEF ChainInv, PCs
<1>9. WalkInv'
  <2>1. \E r \in Chains : r[1] = first_visit
    BY <1>1, <1>2 DEF WalkInv
  <2> QED
    BY <1>1, <1>4, <1>6, <1>7, <2>1 DEF WalkInv, IsOn
<1>10. DepartureWalkInv' /\ WindowWalkInv'
  BY <1>1 DEF DepartureWalkInv, WindowWalkInv
<1>11. DemandInv'
  BY <1>1, <1>2, <1>7 DEF DemandInv
<1> QED
  BY <1>7, <1>8, <1>9, <1>10, <1>11 DEF RouteInv

\* After a merge the walk forward begins at the first customer of the second
\* route; what the customers of the joined route know is stale.
LEMMA MergeRoutes ==
  ASSUME RouteInv, Merge
  PROVE  RouteInv'
<1>1. /\ pc = "walk_back" /\ pc' = "departures"
      /\ node' = first_visit /\ new_demand' = NewDemand
      /\ UNCHANGED <<tws, ids, route_demands, last_visit, first_visit, idx>>
  BY DEF Merge, model, result
<1>2. ChainInv /\ DemandInv /\ LoadInv
  BY DEF RouteInv
<1>3. PICK r \in Chains, s \in Chains :
        /\ r # s /\ r[Len(r)] = last_visit /\ s[1] = first_visit
        /\ NewDemand = Load(r) + Load(s) /\ NewDemand <= Capacity
        /\ Chains' = (Chains \ {r, s}) \cup {r \o s}
  BY MergeJoins
<1>4. /\ r \in Seq(Customers) /\ s \in Seq(Customers)
      /\ Len(r) \in Nat /\ Len(s) \in Nat
      /\ Len(r) \in 1 .. Len(r) /\ 1 \in 1 .. Len(s)
  BY <1>2, RouteParts
<1> DEFINE t == r \o s
           a == Len(r)
<1>5. /\ Len(t) = Len(r) + Len(s)
      /\ \A k \in 1 .. Len(r) : t[k] = r[k]
      /\ \A k \in 1 .. Len(s) : t[Len(r) + k] = s[k]
  BY <1>4, ConcatElements
<1>6. /\ t[a] = last_visit /\ t[a + 1] = first_visit
      /\ a \in 1 .. Len(t) - 1 /\ a \in 1 .. Len(t) /\ a + 1 \in 1 .. Len(t)
  BY <1>3, <1>4, <1>5
<1>7. Load(t) = NewDemand
  <2>1. r \in Seq(Index) /\ s \in Seq(Index)
    BY <1>4, LoadFacts
  <2> QED
    BY <1>3, <2>1, LoadFacts
<1>8. t \in Chains' /\ \A u \in Chains' : u # t => u \in Chains
  BY <1>3
<1> HIDE DEF t, a
<1>9. ChainInv'
  <2>1. NewDemand \in Nat
    BY <1>1, <1>2 DEF ChainInv, NewDemand
  <2>2. Linked(successors', predecessors', N)
    BY MergeJoins
  <2>3. /\ route_demands' \in [Customers -> Nat] /\ idx' \in 1 .. N + 1
        /\ last_visit' \in Customers /\ first_visit' \in Customers /\ node' \in Customers
        /\ \E m \in Models : tws' = m.tws /\ ids' = m.ids
    BY <1>1, <1>2 DEF ChainInv
  <2> QED
    BY <1>1, <2>1, <2>2, <2>3 DEF ChainInv, PCs
<1>10. DepartureWalkInv'
  <2>1. IsMerged(t, a, a + 1)'
    BY <1>1, <1>6, <1>7 DEF IsMerged
  <2>2. OthersKnown(t)'
    <3>1. ASSUME NEW u \in Chains', u # t, NEW k \in 1 .. Len(u)
          PROVE  DemandKnown(u, k)'
      <4>1. u \in Chains
        BY <1>8, <3>1
      <4>2. DemandKnown(u, k)
        BY <1>1, <1>2, <4>1 DEF DemandInv
      <4> QED
        BY <1>1, <4>2 DEF DemandKnown
    <3> QED
      BY <3>1 DEF OthersKnown
  <2>3. a < a + 1 /\ a + 1 .. a + 1 - 1 = {}
    BY <1>4 DEF a
  <2> QED
    BY <1>6, <1>8, <2>1, <2>2, <2>3 DEF DepartureWalkInv
<1>11. WalkInv' /\ WindowWalkInv' /\ DemandInv'
  BY <1>1 DEF WalkInv, WindowWalkInv, DemandInv
<1>12. LoadInv'
  <2>1. \A u \in Chains' : u \in Chains \/ Load(u) <= Capacity
    BY <1>3, <1>7, <1>8
  <2> QED
    BY <1>2, <2>1 DEF LoadInv
<1> QED
  BY <1>9, <1>10, <1>11, <1>12 DEF RouteInv

\* Recording the new demand at one customer of the joined route.
LEMMA DemandHandedOn ==
  ASSUME ChainInv, NEW t \in Chains, NEW m \in 1 .. Len(t), node = t[m],
         new_demand = Load(t),
         route_demands' = [route_demands EXCEPT ![node] = new_demand]
  PROVE  /\ DemandKnown(t, m)'
         /\ \A k \in 1 .. Len(t) : DemandKnown(t, k) => DemandKnown(t, k)'
         /\ OthersKnown(t) /\ Chains' = Chains => OthersKnown(t)'
<1>1. t[m] \in Customers /\ \A k \in 1 .. Len(t) : t[k] \in Customers
  BY RouteParts
<1>2. DOMAIN route_demands = Customers
  BY DEF ChainInv
<1>3. DemandKnown(t, m)'
  BY <1>1, <1>2 DEF DemandKnown
<1>4. \A k \in 1 .. Len(t) : DemandKnown(t, k) => DemandKnown(t, k)'
  BY <1>1, <1>2 DEF DemandKnown
<1>5. ASSUME OthersKnown(t), Chains' = Chains,
             NEW u \in Chains', u # t, NEW k \in 1 .. Len(u)
      PROVE  DemandKnown(u, k)'
  <2>1. u[k] # t[m]
    BY <1>5, RoutesDisjoint
  <2>2. u[k] \in Customers
    BY <1>5, RouteParts
  <2>3. DemandKnown(u, k)
    BY <1>5 DEF OthersKnown
  <2> QED
    BY <1>2, <2>1, <2>2, <2>3 DEF DemandKnown
<1> QED
  BY <1>3, <1>4, <1>5 DEF OthersKnown

\* The walk forward renews the customers of the second route in their order.
LEMMA PassOnDepartureRoutes ==
  ASSUME RouteInv, PassOnDeparture
  PROVE  RouteInv'
<1>1. /\ pc = "departures"
      /\ route_demands' = [route_demands EXCEPT ![node] = new_demand]
      /\ \/ successors[node] # 0 /\ node' = successors[node] /\ pc' = "departures"
         \/ successors[node] = 0 /\ node' = last_visit /\ pc' = "windows"
      /\ UNCHANGED <<tws, ids, predecessors, successors, last_visit, first_visit,
                     new_demand, idx>>
  BY DEF PassOnDeparture, model, chains, result
<1>2. ChainInv /\ DepartureWalkInv /\ LoadInv
  BY DEF RouteInv
<1>3. PICK t \in Chains : \E a, m \in 1 .. Len(t) :
        /\ IsMerged(t, a, m) /\ a < m
        /\ \A k \in a + 1 .. m - 1 : DemandKnown(t, k)
        /\ OthersKnown(t)
  BY <1>1, <1>2 DEF DepartureWalkInv
<1>4. PICK a \in 1 .. Len(t), m \in 1 .. Len(t) :
        /\ IsMerged(t, a, m) /\ a < m
        /\ \A k \in a + 1 .. m - 1 : DemandKnown(t, k)
        /\ OthersKnown(t)
  BY <1>3
<1>5. /\ t[a] = last_visit /\ t[a + 1] = first_visit /\ node = t[m]
      /\ new_demand = Load(t) /\ a \in 1 .. Len(t) - 1
  BY <1>4 DEF IsMerged
<1>6. /\ Len(t) \in Nat /\ successors[t[Len(t)]] = 0
      /\ \A k \in 1 .. Len(t) : t[k] \in Customers /\ t[k] # 0
      /\ \A k \in 1 .. Len(t) - 1 : successors[t[k]] = t[k + 1]
  BY <1>2, RouteParts
<1>7. Chains' = Chains
  BY <1>1 DEF Chains
<1>8. /\ DemandKnown(t, m)'
      /\ \A k \in 1 .. Len(t) : DemandKnown(t, k) => DemandKnown(t, k)'
      /\ OthersKnown(t)'
  BY <1>1, <1>2, <1>4, <1>5, <1>7, DemandHandedOn
<1>9. \A k \in a + 1 .. m : DemandKnown(t, k)'
  <2>1. \A k \in a + 1 .. m : k \in 1 .. Len(t) /\ (k \in a + 1 .. m - 1 \/ k = m)
    BY <1>6
  <2> QED
    BY <1>4, <1>8, <2>1
<1>10. LoadInv'
  BY <1>2, <1>7 DEF LoadInv
<1>11. ChainInv'
  <2>1. node' \in Customers
    <3>1. successors[node] \in Index /\ last_visit \in Customers
      BY <1>1, <1>2, Neighbours DEF ChainInv
    <3> QED
      BY <1>1, <3>1, DepotIsNoCustomer
  <2>2. route_demands' \in [Customers -> Nat]
    BY <1>1, <1>2 DEF ChainInv
  <2> QED
    BY <1>1, <1>2, <2>1, <2>2 DEF ChainInv, PCs
<1>12. CASE successors[node] # 0
  <2>1. m # Len(t)
    BY <1>5, <1>6, <1>12
  <2>2. m \in 1 .. Len(t) - 1 /\ m + 1 \in 1 .. Len(t) /\ a < m + 1
    BY <1>4, <1>6, <2>1
  <2>3. node' = t[m + 1]
    BY <1>1, <1>5, <1>6, <1>12, <2>2
  <2>4. IsMerged(t, a, m + 1)'
    BY <1>1, <1>5, <2>2, <2>3 DEF IsMerged
  <2>5. \A k \in a + 1 .. m + 1 - 1 : DemandKnown(t, k)'
    <3>1. m + 1 - 1 = m
      BY <1>6
    <3> QED
      BY <1>9, <3>1
  <2>6. DepartureWalkInv'
    BY <1>7, <1>8, <2>2, <2>4, <2>5 DEF DepartureWalkInv
  <2>7. WalkInv' /\ WindowWalkInv' /\ DemandInv'
    BY <1>1, <1>12 DEF WalkInv, WindowWalkInv, DemandInv
  <2> QED
    BY <1>10, <1>11, <2>6, <2>7 DEF RouteInv
<1>13. CASE successors[node] = 0
  <2>1. m = Len(t)
    <3>1. ASSUME m # Len(t) PROVE FALSE
      <4>1. m \in 1 .. Len(t) - 1 /\ m + 1 \in 1 .. Len(t)
        BY <1>6, <3>1
      <4>2. successors[t[m]] = t[m + 1] /\ t[m + 1] # 0
        BY <1>6, <4>1
      <4> QED
        BY <1>5, <1>13, <4>2
    <3> QED
      BY <3>1
  <2>2. IsMerged(t, a, a)'
    BY <1>1, <1>5, <1>13 DEF IsMerged
  <2>3. \A k \in a + 1 .. Len(t) : DemandKnown(t, k)'
    BY <1>9, <2>1
  <2>4. a <= a
    OBVIOUS
  <2>5. WindowWalkInv'
    BY <1>7, <1>8, <2>2, <2>3, <2>4 DEF WindowWalkInv
  <2>6. WalkInv' /\ DepartureWalkInv' /\ DemandInv'
    BY <1>1, <1>13 DEF WalkInv, DepartureWalkInv, DemandInv
  <2> QED
    BY <1>10, <1>11, <2>5, <2>6 DEF RouteInv
<1> QED
  BY <1>12, <1>13

\* The walk back renews those of the first route; then all know the new demand.
LEMMA PassOnWindowsRoutes ==
  ASSUME RouteInv, PassOnWindows
  PROVE  RouteInv'
<1>1. /\ pc = "windows"
      /\ route_demands' = [route_demands EXCEPT ![node] = new_demand]
      /\ \/ /\ predecessors[node] # 0 /\ node' = predecessors[node] /\ pc' = "windows"
            /\ UNCHANGED <<last_visit, first_visit, new_demand>>
         \/ predecessors[node] = 0 /\ pc' = "scan" /\ new_demand' = 0
      /\ UNCHANGED <<tws, ids, predecessors, successors, idx>>
  BY DEF PassOnWindows, EndIteration, model, chains, result
<1>2. ChainInv /\ WindowWalkInv /\ LoadInv
  BY DEF RouteInv
<1>3. PICK t \in Chains : \E a, m \in 1 .. Len(t) :
        /\ IsMerged(t, a, m) /\ m <= a
        /\ \A k \in m + 1 .. Len(t) : DemandKnown(t, k)
        /\ OthersKnown(t)
  BY <1>1, <1>2 DEF WindowWalkInv
<1>4. PICK a \in 1 .. Len(t), m \in 1 .. Len(t) :
        /\ IsMerged(t, a, m) /\ m <= a
        /\ \A k \in m + 1 .. Len(t) : DemandKnown(t, k)
        /\ OthersKnown(t)
  BY <1>3
<1>5. /\ t[a] = last_visit /\ t[a + 1] = first_visit /\ node = t[m]
      /\ new_demand = Load(t) /\ a \in 1 .. Len(t) - 1
  BY <1>4 DEF IsMerged
<1>6. /\ Len(t) \in Nat /\ predecessors[t[1]] = 0
      /\ \A k \in 1 .. Len(t) : t[k] \in Customers /\ t[k] # 0
      /\ \A k \in 1 .. Len(t) - 1 : predecessors[t[k + 1]] = t[k]
  BY <1>2, RouteParts
<1>7. Chains' = Chains
  BY <1>1 DEF Chains
<1>8. /\ DemandKnown(t, m)'
      /\ \A k \in 1 .. Len(t) : DemandKnown(t, k) => DemandKnown(t, k)'
      /\ OthersKnown(t)'
  BY <1>1, <1>2, <1>4, <1>5, <1>7, DemandHandedOn
<1>9. \A k \in m .. Len(t) : DemandKnown(t, k)'
  <2>1. \A k \in m .. Len(t) : k \in 1 .. Len(t) /\ (k \in m + 1 .. Len(t) \/ k = m)
    BY <1>6
  <2> QED
    BY <1>4, <1>8, <2>1
<1>10. LoadInv'
  BY <1>2, <1>7 DEF LoadInv
<1>11. ChainInv'
  <2>1. pc' = "windows" => node' \in Customers
    <3>1. predecessors[node] \in Index
      BY <1>1, <1>2, Neighbours DEF ChainInv
    <3> QED
      BY <1>1, <3>1, DepotIsNoCustomer
  <2>2. route_demands' \in [Customers -> Nat] /\ new_demand' \in Nat
    BY <1>1, <1>2 DEF ChainInv
  <2> QED
    BY <1>1, <1>2, <2>1, <2>2 DEF ChainInv, PCs
<1>12. CASE predecessors[node] # 0
  <2>1. m # 1
    BY <1>5, <1>6, <1>12
  <2>2. m - 1 \in 1 .. Len(t) - 1 /\ m - 1 + 1 = m /\ m - 1 \in 1 .. Len(t) /\ m - 1 <= a
    BY <1>4, <1>6, <2>1
  <2>3. node' = t[m - 1]
    <3>1. predecessors[t[m - 1 + 1]] = t[m - 1]
      BY <1>6, <2>2
    <3> QED
      BY <1>1, <1>5, <1>12, <2>2, <3>1
  <2>4. IsMerged(t, a, m - 1)'
    BY <1>1, <1>5, <1>12, <2>2, <2>3 DEF IsMerged
  <2>5. \A k \in m - 1 + 1 .. Len(t) : DemandKnown(t, k)'
    BY <1>9, <2>2
  <2>6. WindowWalkInv'
    BY <1>7, <1>8, <2>2, <2>4, <2>5 DEF WindowWalkInv
  <2>7. WalkInv' /\ DepartureWalkInv' /\ DemandInv'
    BY <1>1, <1>12 DEF WalkInv, DepartureWalkInv, DemandInv
  <2> QED
    BY <1>10, <1>11, <2>6, <2>7 DEF RouteInv
<1>13. CASE predecessors[node] = 0
  <2>1. m = 1
    <3>1. ASSUME m # 1 PROVE FALSE
      <4>1. m - 1 \in 1 .. Len(t) - 1 /\ m - 1 + 1 = m /\ m - 1 \in 1 .. Len(t)
        BY <1>6, <3>1
      <4>2. predecessors[t[m - 1 + 1]] = t[m - 1] /\ t[m - 1] # 0
        BY <1>6, <4>1
      <4> QED
        BY <1>5, <1>13, <4>1, <4>2
    <3> QED
      BY <3>1
  <2>2. DemandInv'
    <3>1. ASSUME NEW u \in Chains', NEW k \in 1 .. Len(u) PROVE DemandKnown(u, k)'
      BY <1>7, <1>8, <1>9, <2>1, <3>1 DEF OthersKnown
    <3> QED
      BY <3>1 DEF DemandInv
  <2>3. WalkInv' /\ DepartureWalkInv' /\ WindowWalkInv'
    BY <1>1, <1>13 DEF WalkInv, DepartureWalkInv, WindowWalkInv
  <2> QED
    BY <1>10, <1>11, <2>2, <2>3 DEF RouteInv
<1> QED
  BY <1>12, <1>13

\* At the start no customer has a neighbour.
LEMMA InitRoutes == Init => RouteInv
<1> SUFFICES ASSUME Init PROVE RouteInv
  OBVIOUS
<1>1. Chains = {<<c>> : c \in Customers} /\ Linked(successors, predecessors, N)
  BY UnlinkedRoutes DEF Init, Chains
<1>2. pc = "start" /\ \E m \in Models : tws = m.tws /\ ids = m.ids
  BY DEF Init
<1>3. ChainInv
  <2>1. route_demands \in [Customers -> Nat] /\ new_demand \in Nat /\ idx \in 1 .. N + 1
    BY NAssumption DEF Init, Unlinked
  <2> QED
    BY <1>1, <1>2, <2>1 DEF ChainInv, PCs
<1>4. LoadInv
  <2>1. \A c \in Customers : Load(<<c>>) = Demand[c]
    BY LoadFacts, DepotIsNoCustomer
  <2> QED
    BY <1>1, <2>1 DEF LoadInv
<1>5. WalkInv /\ DepartureWalkInv /\ WindowWalkInv /\ DemandInv
  BY <1>2 DEF WalkInv, DepartureWalkInv, WindowWalkInv, DemandInv
<1> QED
  BY <1>3, <1>4, <1>5 DEF RouteInv

\* No step makes RouteInv false.
LEMMA RoutesStep == RouteInv /\ [Next]_vars => RouteInv'
<1> SUFFICES ASSUME RouteInv, [Next]_vars PROVE RouteInv'
  OBVIOUS
<1>0. new_demand \in Nat /\ idx \in 1 .. N + 1 /\ pc \in PCs
  BY DEF RouteInv, ChainInv
<1>1. CASE StartLambda
  BY <1>1, StartLambdaRoutes
<1>2. ASSUME NEW p \in Pairs, SkipSaving(p) PROVE RouteInv'
  BY <1>0, <1>2, NoWalkSteps DEF SkipSaving, model, chains, locals, result
<1>3. ASSUME NEW p \in Pairs, TakeSaving(p) PROVE RouteInv'
  BY <1>3, TakeSavingRoutes
<1>4. CASE WalkBack
  BY <1>4, WalkBackRoutes
<1>5. CASE Reject
  BY <1>0, <1>5, NoWalkSteps DEF Reject, EndIteration, model, chains, result
<1>6. CASE Merge
  BY <1>6, MergeRoutes
<1>7. CASE PassOnDeparture
  BY <1>7, PassOnDepartureRoutes
<1>8. CASE PassOnWindows
  BY <1>8, PassOnWindowsRoutes
<1>9. CASE PassOnWindowsAborts
  BY <1>0, <1>9, NoWalkSteps DEF PassOnWindowsAborts, model, chains, locals, result
<1>10. CASE StartBuild
  BY <1>0, <1>10, NoWalkSteps DEF StartBuild, model, chains, locals, result
<1>11. CASE BuildRoute
  <2>1. idx' \in 1 .. N + 1
    BY <1>0, <1>11, NAssumption DEF BuildRoute
  <2>2. pc = "build" /\ UNCHANGED <<tws, ids, pc, predecessors, successors,
                                    route_demands, new_demand>>
    BY <1>11 DEF BuildRoute, model, chains, locals
  <2> QED
    BY <1>0, <2>1, <2>2, NoWalkSteps
<1>12. CASE EndLambda
  <2>1. pc' \in {"aborted", "start", "done"}
    BY <1>12 DEF EndLambda
  <2>2. UNCHANGED <<tws, ids, predecessors, successors, route_demands, new_demand, idx>>
    BY <1>12 DEF EndLambda, model, chains, locals
  <2> QED
    BY <1>0, <2>1, <2>2, NoWalkSteps
<1>13. CASE UNCHANGED vars
  <2>1. UNCHANGED <<tws, ids, pc, predecessors, successors, route_demands,
                    last_visit, first_visit, node, new_demand, idx>>
    BY <1>13 DEF vars, model, chains, locals, result
  <2>2. /\ Chains' = Chains
        /\ \A t \in Chains : \A k \in 1 .. Len(t) : DemandKnown(t, k)' <=> DemandKnown(t, k)
        /\ LoadInv'
    BY <2>1, SameChains
  <2>3. ChainInv' /\ WalkInv'
    BY <2>1, <2>2 DEF RouteInv, ChainInv, WalkInv
  <2>4. DemandInv' /\ DepartureWalkInv' /\ WindowWalkInv'
    BY <2>1, <2>2 DEF RouteInv, DemandInv, DepartureWalkInv, WindowWalkInv, IsMerged,
                      OthersKnown, DemandKnown
  <2> QED
    BY <2>2, <2>3, <2>4 DEF RouteInv
<1> QED
  BY <1>1, <1>2, <1>3, <1>4, <1>5, <1>6, <1>7, <1>8, <1>9, <1>10, <1>11, <1>12,
     <1>13 DEF Next

\* RouteInv is inductive: in every state of vrptw_clark_wright the two arrays
\* are chains, the walks are on the route they are meant to be on, and only the
\* customers they have not come to are mistaken about the demand of their route.
THEOREM RoutesSound == Spec => []RouteInv
BY InitRoutes, RoutesStep, PTL DEF Spec

\* Whenever the next saving is read, all customers know the demand of their
\* route, and when each one fits a vehicle then so do the routes.
THEOREM DemandsExact ==
  Spec => [](/\ pc = "scan" =>
                  \A t \in Chains : \A k \in 1 .. Len(t) : route_demands[t[k]] = Load(t)
             /\ (\A c \in Customers : Demand[c] <= Capacity) =>
                  \A t \in Chains : Load(t) <= Capacity)
<1>1. RouteInv =>
        /\ pc = "scan" =>
             \A t \in Chains : \A k \in 1 .. Len(t) : route_demands[t[k]] = Load(t)
        /\ (\A c \in Customers : Demand[c] <= Capacity) =>
             \A t \in Chains : Load(t) <= Capacity
  BY DEF RouteInv, DemandInv, LoadInv, DemandKnown
<1> QED
  BY <1>1, RoutesSound, PTL

-----------------------------------------------------------------------------
(***************************************************************************)
(* The refinement                                                          *)
(***************************************************************************)

\* The abstract heuristic adds up the demands of a route in the same way.
LEMMA SameLoad == \A t : Merging!LoadOf(t) = Load(t)
BY DEF Merging!LoadOf, Merging!SumOf, Load, SumOf

\* Every change of the arrays of vrptw_clark_wright is the joining of two whole
\* routes whose true joint demand fits a vehicle, or a new start.
THEOREM ImplementsRouteMerging == Spec => ImplementsMerging
<1>1. Init => Merging!Init
  BY UnlinkedRoutes DEF Init, Chains, Merging!Init, Merging!Singles
<1>2. RouteInv /\ [Next]_vars => [Merging!Next]_Chains
  <2> SUFFICES ASSUME RouteInv, [Next]_vars
               PROVE  Merging!Next \/ Chains' = Chains
    OBVIOUS
  <2>1. CASE Merge
    <3>1. PICK r \in Chains, s \in Chains :
            /\ r # s /\ NewDemand = Load(r) + Load(s) /\ NewDemand <= Capacity
            /\ Chains' = (Chains \ {r, s}) \cup {r \o s}
      BY <2>1, MergeJoins
    <3>2. Merging!Join(r, s)
      BY <3>1, SameLoad DEF Merging!Join
    <3> QED
      BY <3>2 DEF Merging!Next
  <2>2. CASE StartLambda
    <3>1. Chains' = {<<c>> : c \in Customers}
      BY <2>2, UnlinkedRoutes DEF StartLambda, Chains
    <3> QED
      BY <3>1 DEF Merging!Next, Merging!StartAnew, Merging!Singles
  <2>3. CASE ~Merge /\ ~StartLambda
    <3>1. UNCHANGED <<predecessors, successors>>
      BY <2>3 DEF Next, SkipSaving, TakeSaving, WalkBack, Reject, PassOnDeparture,
                  PassOnWindows, PassOnWindowsAborts, StartBuild, BuildRoute,
                  EndLambda, chains, vars
    <3> QED
      BY <3>1 DEF Chains
  <2> QED
    BY <2>1, <2>2, <2>3
<1> QED
  BY <1>1, <1>2, RoutesSound, PTL DEF Spec, ImplementsMerging, Merging!Spec

-----------------------------------------------------------------------------
(***************************************************************************)
(* The schedule.  A merge makes the departure times of the second route    *)
(* and the sub-route windows of the first one stale; one walk renews the   *)
(* former from first_visit on, the other one the latter from last_visit    *)
(* back, and what is still stale is what the walk has come to.             *)
(***************************************************************************)
Active == {"scan", "walk_back", "departures", "windows", "build"}

DepartureKnown(c) ==
  departure[c] =
    DepartureTime(tws, c, predecessors[c], departure[predecessors[c]])
WindowsKnown(c) ==
  subroute_tws[c] =
    SubrouteTws(tws, c, successors[c], subroute_tws[successors[c]])

\* Who may be mistaken about its departure, and about its windows
DepartureStale(c) == pc = "departures" /\ c = node
WindowsStale(c) ==
  \/ pc = "departures" /\ c = last_visit
  \/ pc = "windows" /\ c = node

ScheduleInv ==
  /\ DOMAIN departure = Index /\ DOMAIN subroute_tws = Index
  /\ pc \in Active =>
       /\ departure[0] = DepotDeparture(tws) /\ subroute_tws[0] = tws[0]
       /\ \A c \in Customers : DepartureStale(c) \/ DepartureKnown(c)
       /\ \A c \in Customers : WindowsStale(c) \/ WindowsKnown(c)

\* Before the first saving every customer is served on its own.
LEMMA StartLambdaSchedule ==
  ASSUME StartLambda
  PROVE  ScheduleInv'
<1>1. /\ predecessors' = Unlinked /\ successors' = Unlinked /\ tws' = tws
      /\ departure' =
           [n \in Index |-> IF n = 0 THEN DepotDeparture(tws)
                            ELSE DepartureTime(tws, n, 0, DepotDeparture(tws))]
      /\ subroute_tws' =
           [n \in Index |-> IF n = 0 THEN tws[0] ELSE SubrouteTws(tws, n, 0, tws[0])]
  BY DEF StartLambda, model
<1>2. 0 \in Index /\ \A c \in Customers : c \in Index /\ c # 0
  BY DepotIsNoCustomer
<1>3. departure'[0] = DepotDeparture(tws') /\ subroute_tws'[0] = tws'[0]
  BY <1>1, <1>2
<1>4. ASSUME NEW c \in Customers PROVE DepartureKnown(c)' /\ WindowsKnown(c)'
  <2>1. predecessors'[c] = 0 /\ successors'[c] = 0
    BY <1>1 DEF Unlinked
  <2>2. departure'[c] = DepartureTime(tws, c, 0, DepotDeparture(tws))
    BY <1>1, <1>2
  <2>3. subroute_tws'[c] = SubrouteTws(tws, c, 0, tws[0])
    BY <1>1, <1>2
  <2> QED
    BY <1>1, <1>3, <2>1, <2>2, <2>3 DEF DepartureKnown, WindowsKnown
<1> QED
  BY <1>1, <1>3, <1>4 DEF ScheduleInv

\* A merge leaves stale what the walks are about to renew.
LEMMA MergeSchedule ==
  ASSUME RouteInv, ScheduleInv, Merge
  PROVE  ScheduleInv'
<1>1. /\ pc = "walk_back" /\ pc' = "departures"
      /\ predecessors' = [predecessors EXCEPT ![first_visit] = last_visit]
      /\ successors' = [successors EXCEPT ![last_visit] = first_visit]
      /\ node' = first_visit
      /\ UNCHANGED <<tws, departure, subroute_tws, last_visit>>
  BY DEF Merge, model, meta
<1>2. /\ successors \in [Customers -> Index] /\ predecessors \in [Customers -> Index]
  BY Neighbours DEF RouteInv
<1>3. ASSUME NEW c \in Customers PROVE DepartureStale(c)' \/ DepartureKnown(c)'
  <2>1. CASE c = first_visit
    BY <1>1, <2>1 DEF DepartureStale
  <2>2. CASE c # first_visit
    <3>1. DepartureKnown(c)
      BY <1>1 DEF ScheduleInv, Active, DepartureStale
    <3>2. predecessors'[c] = predecessors[c]
      BY <1>1, <1>2, <2>2
    <3> QED
      BY <1>1, <3>1, <3>2 DEF DepartureKnown
  <2> QED
    BY <2>1, <2>2
<1>4. ASSUME NEW c \in Customers PROVE WindowsStale(c)' \/ WindowsKnown(c)'
  <2>1. CASE c = last_visit
    BY <1>1, <2>1 DEF WindowsStale
  <2>2. CASE c # last_visit
    <3>1. WindowsKnown(c)
      BY <1>1 DEF ScheduleInv, Active, WindowsStale
    <3>2. successors'[c] = successors[c]
      BY <1>1, <1>2, <2>2
    <3> QED
      BY <1>1, <3>1, <3>2 DEF WindowsKnown
  <2> QED
    BY <2>1, <2>2
<1> QED
  BY <1>1, <1>3, <1>4 DEF ScheduleInv, Active

\* Renewing a departure makes the one of the successor stale, if there is one.
LEMMA PassOnDepartureSchedule ==
  ASSUME RouteInv, ScheduleInv, PassOnDeparture
  PROVE  ScheduleInv'
<1>1. /\ pc = "departures"
      /\ departure' = [departure EXCEPT ![node] =
           DepartureTime(tws, node, predecessors[node], departure[predecessors[node]])]
      /\ \/ successors[node] # 0 /\ node' = successors[node] /\ pc' = "departures"
         \/ successors[node] = 0 /\ node' = last_visit /\ pc' = "windows"
      /\ UNCHANGED <<tws, predecessors, successors, last_visit, subroute_tws>>
  BY DEF PassOnDeparture, model, chains
<1>2. /\ successors \in [Customers -> Index] /\ predecessors \in [Customers -> Index]
      /\ \A a, b \in Customers : successors[a] = b <=> predecessors[b] = a
      /\ \A c \in Customers : predecessors[c] # c
      /\ node \in Customers
  BY <1>1, Neighbours DEF RouteInv, ChainInv
<1>3. /\ \A c \in Customers : c \in Index /\ c # 0
      /\ 0 \in Index
  BY DepotIsNoCustomer
<1>4. /\ DOMAIN departure = Index /\ DOMAIN subroute_tws = Index
      /\ departure[0] = DepotDeparture(tws) /\ subroute_tws[0] = tws[0]
      /\ \A c \in Customers : DepartureStale(c) \/ DepartureKnown(c)
      /\ \A c \in Customers : WindowsStale(c) \/ WindowsKnown(c)
  BY <1>1 DEF ScheduleInv, Active
<1>5. \A n \in Index : n # node => departure'[n] = departure[n]
  BY <1>1, <1>4
<1>6. ASSUME NEW c \in Customers, c = node PROVE DepartureKnown(c)'
  <2>1. predecessors[c] \in Index /\ predecessors[c] # node
    BY <1>2, <1>6
  <2>2. departure'[predecessors[c]] = departure[predecessors[c]]
    BY <1>5, <2>1
  <2>3. departure'[c] =
          DepartureTime(tws, c, predecessors[c], departure[predecessors[c]])
    BY <1>1, <1>3, <1>4, <1>6
  <2>4. tws' = tws /\ predecessors' = predecessors
    BY <1>1
  <2> QED
    BY ONLY <2>2, <2>3, <2>4 DEF DepartureKnown
<1>7. ASSUME NEW c \in Customers, c # node PROVE DepartureStale(c)' \/ DepartureKnown(c)'
  <2>1. DepartureKnown(c) /\ c \in Index /\ predecessors[c] \in Index
    BY <1>2, <1>3, <1>4, <1>7 DEF DepartureStale
  <2>2. CASE predecessors[c] = node
    <3>1. successors[node] = c
      BY <1>2, <2>2
    <3> QED
      BY <1>1, <1>3, <3>1 DEF DepartureStale
  <2>3. CASE predecessors[c] # node
    BY <1>1, <1>5, <1>7, <2>1, <2>3 DEF DepartureKnown
  <2> QED
    BY <2>2, <2>3
<1>8. ASSUME NEW c \in Customers PROVE WindowsStale(c)' \/ WindowsKnown(c)'
  <2>1. WindowsKnown(c) => WindowsKnown(c)'
    BY <1>1 DEF WindowsKnown
  <2>2. WindowsStale(c) => WindowsStale(c)'
    BY <1>1 DEF WindowsStale
  <2> QED
    BY <1>4, <2>1, <2>2
<1>9. departure'[0] = DepotDeparture(tws') /\ subroute_tws'[0] = tws'[0]
  BY <1>1, <1>2, <1>3, <1>4, <1>5
<1>10. DOMAIN departure' = Index /\ DOMAIN subroute_tws' = Index
  BY <1>1, <1>4
<1>11. /\ \A c \in Customers : DepartureStale(c)' \/ DepartureKnown(c)'
       /\ \A c \in Customers : WindowsStale(c)' \/ WindowsKnown(c)'
  BY <1>6, <1>7, <1>8
<1> QED
  BY ONLY <1>9, <1>10, <1>11 DEF ScheduleInv

\* Renewing windows makes those of the predecessor stale, if there is one.
LEMMA PassOnWindowsSchedule ==
  ASSUME RouteInv, ScheduleInv, PassOnWindows
  PROVE  ScheduleInv'
<1>1. /\ pc = "windows"
      /\ subroute_tws' = [subroute_tws EXCEPT ![node] =
           SubrouteTws(tws, node, successors[node], subroute_tws[successors[node]])]
      /\ \/ predecessors[node] # 0 /\ node' = predecessors[node] /\ pc' = "windows"
         \/ predecessors[node] = 0 /\ pc' = "scan"
      /\ UNCHANGED <<tws, predecessors, successors, departure>>
  BY DEF PassOnWindows, EndIteration, NewWindows, model, chains
<1>2. /\ successors \in [Customers -> Index] /\ predecessors \in [Customers -> Index]
      /\ \A a, b \in Customers : successors[a] = b <=> predecessors[b] = a
      /\ \A c \in Customers : successors[c] # c
      /\ node \in Customers
  BY <1>1, Neighbours DEF RouteInv, ChainInv
<1>3. /\ \A c \in Customers : c \in Index /\ c # 0
      /\ 0 \in Index
  BY DepotIsNoCustomer
<1>4. /\ DOMAIN departure = Index /\ DOMAIN subroute_tws = Index
      /\ departure[0] = DepotDeparture(tws) /\ subroute_tws[0] = tws[0]
      /\ \A c \in Customers : DepartureStale(c) \/ DepartureKnown(c)
      /\ \A c \in Customers : WindowsStale(c) \/ WindowsKnown(c)
  BY <1>1 DEF ScheduleInv, Active
<1>5. \A n \in Index : n # node => subroute_tws'[n] = subroute_tws[n]
  BY <1>1, <1>4
<1>6. ASSUME NEW c \in Customers, c = node PROVE WindowsKnown(c)'
  <2>1. successors[c] \in Index /\ successors[c] # node
    BY <1>2, <1>6
  <2>2. subroute_tws'[successors[c]] = subroute_tws[successors[c]]
    BY <1>5, <2>1
  <2>3. subroute_tws'[c] =
          SubrouteTws(tws, c, successors[c], subroute_tws[successors[c]])
    BY <1>1, <1>3, <1>4, <1>6
  <2>4. tws' = tws /\ successors' = successors
    BY <1>1
  <2> QED
    BY ONLY <2>2, <2>3, <2>4 DEF WindowsKnown
<1>7. ASSUME NEW c \in Customers, c # node PROVE WindowsStale(c)' \/ WindowsKnown(c)'
  <2>1. WindowsKnown(c) /\ c \in Index /\ successors[c] \in Index
    BY <1>1, <1>2, <1>3, <1>4, <1>7 DEF WindowsStale
  <2>2. CASE successors[c] = node
    <3>1. predecessors[node] = c
      BY <1>2, <2>2
    <3> QED
      BY <1>1, <1>3, <3>1 DEF WindowsStale
  <2>3. CASE successors[c] # node
    BY <1>1, <1>5, <1>7, <2>1, <2>3 DEF WindowsKnown
  <2> QED
    BY <2>2, <2>3
<1>8. ASSUME NEW c \in Customers PROVE DepartureKnown(c)'
  <2>1. DepartureKnown(c)
    BY <1>1, <1>4 DEF DepartureStale
  <2> QED
    BY <1>1, <2>1 DEF DepartureKnown
<1>9. departure'[0] = DepotDeparture(tws') /\ subroute_tws'[0] = tws'[0]
  BY <1>1, <1>2, <1>3, <1>4, <1>5
<1>10. DOMAIN departure' = Index /\ DOMAIN subroute_tws' = Index
  BY <1>1, <1>4
<1>11. /\ \A c \in Customers : DepartureStale(c)' \/ DepartureKnown(c)'
       /\ \A c \in Customers : WindowsStale(c)' \/ WindowsKnown(c)'
  BY <1>6, <1>7, <1>8
<1> QED
  BY ONLY <1>9, <1>10, <1>11 DEF ScheduleInv

\* No step makes ScheduleInv false.
LEMMA ScheduleStep == RouteInv /\ ScheduleInv /\ [Next]_vars => ScheduleInv'
<1> SUFFICES ASSUME RouteInv, ScheduleInv, [Next]_vars PROVE ScheduleInv'
  OBVIOUS
<1>0. ASSUME UNCHANGED <<tws, predecessors, successors, departure, subroute_tws>>,
             pc' \in {"departures", "windows"} =>
               pc' = pc /\ node' = node /\ last_visit' = last_visit,
             pc' \in Active => pc \in Active \ {"departures", "windows"} \/ pc' = pc
      PROVE  ScheduleInv'
  <2>1. ASSUME pc' \in Active PROVE pc \in Active
    BY <1>0, <2>1
  <2>2. ASSUME NEW c \in Customers, pc' \in Active
        PROVE  /\ DepartureStale(c) => DepartureStale(c)'
               /\ WindowsStale(c) => WindowsStale(c)'
    BY <1>0, <2>2 DEF DepartureStale, WindowsStale, Active
  <2>3. ASSUME NEW c \in Customers
        PROVE  /\ DepartureKnown(c) => DepartureKnown(c)'
               /\ WindowsKnown(c) => WindowsKnown(c)'
    BY <1>0 DEF DepartureKnown, WindowsKnown
  <2> QED
    BY <1>0, <2>1, <2>2, <2>3 DEF ScheduleInv
<1>1. CASE StartLambda
  BY <1>1, StartLambdaSchedule
<1>2. ASSUME NEW p \in Pairs, SkipSaving(p) PROVE ScheduleInv'
  BY <1>0, <1>2 DEF SkipSaving, model, chains, meta, Active
<1>3. ASSUME NEW p \in Pairs, TakeSaving(p) PROVE ScheduleInv'
  BY <1>0, <1>3 DEF TakeSaving, model, chains, meta, Active
<1>4. CASE WalkBack
  BY <1>0, <1>4 DEF WalkBack, model, chains, meta, Active
<1>5. CASE Reject
  BY <1>0, <1>5 DEF Reject, EndIteration, model, chains, meta, Active
<1>6. CASE Merge
  BY <1>6, MergeSchedule
<1>7. CASE PassOnDeparture
  BY <1>7, PassOnDepartureSchedule
<1>8. CASE PassOnWindows
  BY <1>8, PassOnWindowsSchedule
<1>9. CASE PassOnWindowsAborts
  BY <1>0, <1>9 DEF PassOnWindowsAborts, model, chains, meta, Active
<1>10. CASE StartBuild
  BY <1>0, <1>10 DEF StartBuild, model, chains, meta, Active
<1>11. CASE BuildRoute
  BY <1>0, <1>11 DEF BuildRoute, model, chains, meta, Active
<1>12. CASE EndLambda
  BY <1>0, <1>12 DEF EndLambda, model, chains, meta, Active
<1>13. CASE UNCHANGED vars
  BY <1>0, <1>13 DEF vars, model, chains, meta, locals, Active
<1> QED
  BY <1>1, <1>2, <1>3, <1>4, <1>5, <1>6, <1>7, <1>8, <1>9, <1>10, <1>11, <1>12,
     <1>13 DEF Next

\* No customer is left with a stale departure time or stale windows: whenever
\* the next saving is read, each departure follows from the predecessor's one,
\* and the windows of each sub-route from those of the successor.
THEOREM NothingStale ==
  Spec => [](pc = "scan" =>
               \A c \in Customers : DepartureKnown(c) /\ WindowsKnown(c))
<1>1. Init => ScheduleInv
  BY DEF Init, ScheduleInv, Active
<1>2. ScheduleInv =>
        (pc = "scan" => \A c \in Customers : DepartureKnown(c) /\ WindowsKnown(c))
  BY DEF ScheduleInv, DepartureStale, WindowsStale, Active
<1> QED
  BY <1>1, <1>2, ScheduleStep, RoutesSound, PTL DEF Spec

-----------------------------------------------------------------------------
(***************************************************************************)
(* The arithmetic of time windows, for nodes with one window or two: the   *)
(* loop over the windows of a sub-route considers their first half only.   *)
(* TimesAssumption keeps the sums the heuristic takes below SIZE_NONE, so  *)
(* that none of them wraps and none reads as "none".                       *)
(***************************************************************************)
\* The least of a set of numbers is what Min chooses.
LEMMA LeastChosen ==
  ASSUME NEW S, S \subseteq Nat, S # {}
  PROVE  Min(S) \in S /\ \A x \in S : Min(S) <= x
BY LeastMember DEF Min

\* The bounds of a node that has windows.
LEMMA WindowFacts ==
  ASSUME NEW w, IsWindows(w), w # <<>>
  PROVE  /\ w \in Seq(Nat \X Nat) /\ Len(w) \in Nat \ {0}
         /\ \A k \in 1 .. Len(w) : w[k][1] \in Nat /\ w[k][2] \in Nat
         /\ \A k \in 1 .. Len(w) :
              /\ w[1][1] <= w[k][1] /\ w[k][1] <= w[k][2] /\ w[k][2] <= Latest(w)
         /\ \A j, k \in 1 .. Len(w) :
              j <= k => w[j][1] <= w[k][1] /\ w[j][2] <= w[k][2]
         /\ 1 \in 1 .. Len(w) /\ Len(w) \in 1 .. Len(w)
         /\ Earliest(w) = w[1][1] /\ Latest(w) = w[Len(w)][2] /\ Latest(w) \in Nat
<1> DEFINE n == Len(w)
           T == Nat \X Nat
<1>1. /\ w \in Seq(T)
      /\ \A k \in DOMAIN w : w[k][1] <= w[k][2]
      /\ \A k \in 1 .. n - 1 : w[k][2] <= w[k + 1][1]
  BY DEF IsWindows
<1>2. n \in Nat \ {0} /\ DOMAIN w = 1 .. n /\ \A k \in 1 .. n : w[k] \in T
  <2> HIDE DEF T
  <2> QED
    BY <1>1, EmptySeq
<1>3. /\ \A k \in 1 .. n : w[k][1] \in Nat /\ w[k][2] \in Nat /\ w[k][1] <= w[k][2]
      /\ \A k \in 1 .. n - 1 : w[k][2] <= w[k + 1][1]
  BY <1>1, <1>2
<1>4. Earliest(w) = w[1][1] /\ Latest(w) = w[n][2]
  BY DEF Earliest, Latest, Last
<1> HIDE DEF n
<1>5. 1 \in 1 .. n /\ n \in 1 .. n
  BY <1>2
\* The ends, from the first one on
<1>6. ASSUME NEW j \in 1 .. n, NEW k \in 1 .. n, j <= k PROVE w[j][2] <= w[k][2]
  <2> DEFINE m == n - j
             K == {i \in 0 .. m : w[j][2] <= w[j + i][2]}
  <2>1. m \in Nat
    BY <1>2
  <2>2. 0 \in K
    <3>1. j + 0 = j /\ w[j][2] \in Nat /\ 0 \in 0 .. m
      BY <1>3, <2>1
    <3>2. w[j][2] <= w[j][2]
      BY <3>1
    <3> QED
      BY <3>1, <3>2
  <2>3. ASSUME NEW i \in 0 .. m - 1, i \in K PROVE i + 1 \in K
    <3> DEFINE a == w[j][2]
               b == w[j + i][2]
               c == w[j + i + 1][1]
               d == w[j + i + 1][2]
    <3>1. j + i \in 1 .. n - 1 /\ j + i \in 1 .. n /\ j + i + 1 \in 1 .. n
          /\ i + 1 \in 0 .. m /\ j + (i + 1) = j + i + 1
      BY <1>2, <2>1
    <3>2. /\ a \in Nat /\ b \in Nat /\ c \in Nat /\ d \in Nat
          /\ b <= c /\ c <= d
      BY <1>3, <3>1
    <3>3. a <= b
      BY <2>3
    <3> HIDE DEF a, b, c, d
    <3>4. a <= d
      BY ONLY <3>2, <3>3
    <3> QED
      BY <3>1, <3>4 DEF a, d
  <2>4. \A i \in 0 .. m - 1 : i \in K => i + 1 \in K
    BY <2>3
  <2>5. k - j \in 0 .. m /\ j + (k - j) = k
    BY <1>2, <1>6
  <2> HIDE DEF K, m
  <2>6. 0 .. m \subseteq K
    BY ONLY <2>1, <2>2, <2>4, IntervalInduction
  <2> QED
    BY <2>5, <2>6 DEF K
\* and the beginnings
<1>7. ASSUME NEW j \in 1 .. n, NEW k \in 1 .. n, j <= k PROVE w[j][1] <= w[k][1]
  <2>1. CASE j = k
    BY <1>3, <2>1
  <2>2. CASE j # k
    <3> DEFINE a == w[j][1]
               b == w[j][2]
               c == w[k - 1][2]
               d == w[k][1]
    <3>1. k - 1 \in 1 .. n - 1 /\ k - 1 \in 1 .. n /\ j <= k - 1 /\ k - 1 + 1 = k
      BY <1>2, <1>7, <2>2
    <3>2. a \in Nat /\ b \in Nat /\ c \in Nat /\ d \in Nat /\ a <= b /\ c <= d
      BY <1>3, <3>1
    <3>3. b <= c
      BY <1>6, <3>1
    <3> HIDE DEF a, b, c, d
    <3>4. a <= d
      BY ONLY <3>2, <3>3
    <3> QED
      BY <3>4 DEF a, d
  <2> QED
    BY <2>1, <2>2
<1>8. \A k \in 1 .. n : 1 <= k /\ k <= n
  BY <1>2
<1>9. /\ \A k \in 1 .. n :
           /\ w[1][1] <= w[k][1] /\ w[k][1] <= w[k][2] /\ w[k][2] <= w[n][2]
      /\ w[n][2] \in Nat
  BY <1>3, <1>5, <1>6, <1>7, <1>8
<1> QED
  BY <1>1, <1>2, <1>3, <1>4, <1>5, <1>6, <1>7, <1>9 DEF n

\* A node reached before its last window is over is served as soon as one of its
\* windows is open.
LEMMA ServiceFacts ==
  ASSUME NEW w, IsWindows(w), w # <<>>,
         NEW arrival \in Nat, arrival <= Latest(w)
  PROVE  /\ ServiceTime(w, arrival) \in Nat
         /\ arrival <= ServiceTime(w, arrival)
         /\ Earliest(w) <= ServiceTime(w, arrival)
         /\ ServiceTime(w, arrival) <= Latest(w)
         /\ IsOpen(w, ServiceTime(w, arrival))
         /\ \A t \in Nat : IsOpen(w, t) /\ arrival <= t => ServiceTime(w, arrival) <= t
<1> DEFINE K == {k \in 1 .. Len(w) : arrival <= w[k][2]}
<1>1. /\ w \in Seq(Nat \X Nat) /\ Len(w) \in Nat
      /\ \A k \in 1 .. Len(w) : w[k][1] \in Nat /\ w[k][2] \in Nat
      /\ \A k \in 1 .. Len(w) :
           /\ w[1][1] <= w[k][1] /\ w[k][1] <= w[k][2] /\ w[k][2] <= Latest(w)
      /\ \A j, k \in 1 .. Len(w) : j <= k => w[j][1] <= w[k][1]
      /\ 1 \in 1 .. Len(w) /\ Len(w) \in 1 .. Len(w) /\ DOMAIN w = 1 .. Len(w)
      /\ Earliest(w) = w[1][1] /\ Latest(w) = w[Len(w)][2] /\ Latest(w) \in Nat
  BY WindowFacts
<1>2. Len(w) \in K
  BY <1>1
<1>3. K \subseteq Nat /\ K # {}
  BY <1>2
<1>4. ServiceTime(w, arrival) = Later(arrival, w[Min(K)][1])
  <2>1. SelectInSeq(w, LAMBDA tw : arrival <= tw[2]) = Min(K)
    BY <1>3 DEF SelectInSeq
  <2> HIDE DEF K
  <2> QED
    BY <1>1, <2>1 DEF ServiceTime
<1>5. Min(K) \in K /\ \A k \in K : Min(K) <= k
  <2> HIDE DEF K
  <2> QED
    BY <1>3, LeastChosen
<1>6. Min(K) \in 1 .. Len(w) /\ arrival <= w[Min(K)][2]
  BY <1>5
<1> DEFINE m == Min(K)
           a == w[m][1]
           b == w[m][2]
<1>8. /\ a \in Nat /\ b \in Nat /\ a <= b /\ w[1][1] <= a /\ b <= Latest(w)
      /\ arrival <= b /\ w[1][1] \in Nat
  BY <1>1, <1>6
<1>9. ServiceTime(w, arrival) = Later(arrival, a)
  BY <1>4
<1>11. ASSUME NEW t \in Nat, IsOpen(w, t), arrival <= t PROVE Later(arrival, a) <= t
  <2>1. PICK k \in DOMAIN w : t \in w[k][1] .. w[k][2]
    BY <1>1, <1>11 DEF IsOpen
  <2>2. k \in 1 .. Len(w) /\ w[k][1] \in Nat /\ w[k][2] \in Nat
        /\ w[k][1] <= t /\ t <= w[k][2]
    BY <1>1, <2>1
  <2>3. k \in K
    BY <1>11, <2>2
  <2>4. m <= k /\ m \in 1 .. Len(w)
    BY <1>5, <1>6, <2>3
  <2>5. a <= w[k][1]
    BY <1>1, <2>2, <2>4
  <2> HIDE DEF a
  <2>6. a <= t
    BY <1>8, <2>2, <2>5
  <2> QED
    BY <1>11, <2>6 DEF Later
<1> HIDE DEF K, m
<1>10. /\ Later(arrival, a) \in Nat /\ arrival <= Later(arrival, a)
       /\ a <= Later(arrival, a) /\ Later(arrival, a) <= b
  BY <1>8 DEF Later
<1>13. IsOpen(w, Later(arrival, a))
  <2>1. m \in DOMAIN w
    BY <1>1, <1>6 DEF m
  <2>2. Later(arrival, a) \in w[m][1] .. w[m][2]
    <3>1. Later(arrival, a) \in a .. b
      <4> HIDE DEF a, b
      <4> QED
        BY <1>8, <1>10
    <3> QED
      BY <3>1
  <2> HIDE DEF a, b
  <2> QED
    BY <2>1, <2>2 DEF IsOpen
<1> HIDE DEF a, b
<1>12. /\ Later(arrival, a) \in Nat
       /\ arrival <= Later(arrival, a)
       /\ w[1][1] <= Later(arrival, a)
       /\ Later(arrival, a) <= Latest(w)
  BY <1>1, <1>8, <1>10
<1> QED
  BY <1>1, <1>9, <1>11, <1>12, <1>13

\* The loop considers the first half of the windows: one of two.
LEMMA ConsideredFacts ==
  ASSUME NEW w, IsWindows(w), w # <<>>
  PROVE  /\ Considered(w) \in Seq(Nat \X Nat) /\ Considered(w) # <<>>
         /\ Len(Considered(w)) \in 1 .. Len(w)
         /\ \A k \in 1 .. Len(Considered(w)) : Considered(w)[k] = w[k]
         /\ Latest(Considered(w)) = w[Len(Considered(w))][2]
         /\ Latest(Considered(w)) \in Nat
         /\ Earliest(w) <= Latest(Considered(w)) /\ Latest(Considered(w)) <= Latest(w)
         /\ IsOpen(w, Latest(Considered(w)))
         /\ Len(w) <= 2 => Len(Considered(w)) = 1
         /\ Len(w) = 1 => Latest(Considered(w)) = Latest(w)
<1> DEFINE n == Len(w)
           h == (n + 1) \div 2
           c == Considered(w)
           T == Nat \X Nat
<1>1. /\ w \in Seq(T) /\ n \in Nat \ {0} /\ 1 \in 1 .. n /\ DOMAIN w = 1 .. n
      /\ \A k \in 1 .. n :
           /\ w[k][1] \in Nat /\ w[k][2] \in Nat
           /\ w[1][1] <= w[k][1] /\ w[k][1] <= w[k][2] /\ w[k][2] <= Latest(w)
      /\ Earliest(w) = w[1][1] /\ Latest(w) = w[n][2] /\ Latest(w) \in Nat
  BY WindowFacts
<1> HIDE DEF n
<1>2. h \in 1 .. n /\ (n <= 2 => h = 1)
  BY <1>1
<1> HIDE DEF h, T
<1>3. c = SubSeq(w, 1, h)
  BY DEF c, h, n, Considered
<1>4. /\ c \in Seq(T) /\ Len(c) = h
      /\ \A k \in 1 .. h : c[k] = w[k]
  BY <1>1, <1>2, <1>3
<1>5. c # <<>>
  BY <1>2, <1>4
<1>6. Latest(c) = c[h][2]
  BY <1>4, <1>5 DEF Latest, Last
<1>7. h \in 1 .. h /\ c[h] = w[h]
  BY <1>1, <1>2, <1>4
<1>8. /\ Latest(c) = w[h][2] /\ w[h][2] \in Nat /\ w[h][2] <= Latest(w)
      /\ w[h][1] <= w[h][2] /\ w[1][1] <= w[h][1] /\ w[h][1] \in Nat /\ w[1][1] \in Nat
  BY <1>1, <1>2, <1>6, <1>7
<1>9. w[1][1] <= w[h][2] /\ w[h][2] \in w[h][1] .. w[h][2]
  BY ONLY <1>8
<1>10. IsOpen(w, w[h][2])
  BY <1>1, <1>2, <1>9 DEF IsOpen
<1>11. n = 1 => h = n
  BY <1>2
<1>12. h \in 1 .. n /\ (n <= 2 => h = 1) /\ (n = 1 => h = n)
  BY <1>2
<1>13. /\ c \in Seq(T) /\ c # <<>> /\ Len(c) \in 1 .. n
       /\ \A k \in 1 .. Len(c) : c[k] = w[k]
       /\ Latest(c) = w[Len(c)][2]
       /\ n <= 2 => Len(c) = 1
  BY <1>4, <1>5, <1>8, <1>12
<1>14. /\ Latest(c) \in Nat /\ Earliest(w) <= Latest(c) /\ Latest(c) <= Latest(w)
       /\ IsOpen(w, Latest(c))
  BY <1>1, <1>8, <1>9, <1>10
<1>15. n = 1 => Latest(c) = Latest(w)
  BY <1>1, <1>8, <1>11
<1> QED
  BY ONLY <1>13, <1>14, <1>15 DEF c, n, T

\* The windows of the sub-route end with the last window considered or at the
\* latest service time, whichever is earlier, and the node is open then unless
\* the assertion fails.  It fails with one or two windows only when even the first
\* window begins too late.
LEMMA SubrouteFacts ==
  ASSUME NEW w, NEW n,
         IsWindows(w[n]), w[n] # <<>>,
         NEW follower, NEW later, Latest(later) # SIZE_NONE,
         NEW lst \in Nat, LatestService(n, follower, later) = lst
  PROVE  /\ SubrouteTws(w, n, follower, later) # <<>>
         /\ Latest(SubrouteTws(w, n, follower, later)) =
              IF Latest(Considered(w[n])) > lst THEN lst ELSE Latest(Considered(w[n]))
         /\ ~SubrouteTwsAborts(w, n, follower, later)
              => IsOpen(w[n], Latest(SubrouteTws(w, n, follower, later)))
         /\ Len(w[n]) <= 2 /\ SubrouteTwsAborts(w, n, follower, later)
              => w[n][1][1] > lst
<1> DEFINE v == w[n]
           c == Considered(v)
           h == Len(c)
           l == Latest(c)
           T == Nat \X Nat
           K == {k \in 1 .. h : c[k][2] > lst}
           cut == SelectInSeq(c, LAMBDA tw : tw[2] > lst)
           s == SubrouteTws(w, n, follower, later)
<1>1. /\ c \in Seq(T) /\ c # <<>> /\ h \in 1 .. Len(v)
      /\ \A k \in 1 .. h : c[k] = v[k]
      /\ l = v[h][2] /\ l \in Nat /\ IsOpen(v, l)
      /\ Len(v) <= 2 => h = 1
  BY ConsideredFacts
<1>2. /\ Len(v) \in Nat /\ DOMAIN v = 1 .. Len(v)
      /\ \A k \in 1 .. Len(v) : v[k][1] \in Nat /\ v[k][2] \in Nat
      /\ \A j, k \in 1 .. Len(v) : j <= k => v[j][2] <= v[k][2]
  BY WindowFacts
<1>3. s = IF cut = 0 THEN c ELSE Append(SubSeq(c, 1, cut - 1), <<c[cut][1], lst>>)
  BY DEF SubrouteTws
<1>4. SubrouteTwsAborts(w, n, follower, later) <=> cut > 0 /\ v[cut][1] > lst
  BY DEF SubrouteTwsAborts
<1>5. cut = IF K # {} THEN Min(K) ELSE 0
  BY DEF SelectInSeq
<1>6. h \in 1 .. h /\ h \in Nat
  BY <1>1, <1>2
<1> HIDE DEF v, c, l, T, s, cut
<1>7. CASE l > lst
  <2>1. h \in K
    BY <1>1, <1>6, <1>7
  <2>2. cut \in K
    <3>1. K \subseteq Nat /\ K # {}
      BY <2>1
    <3> HIDE DEF K
    <3> QED
      BY <1>5, <3>1, LeastChosen
  <2>3. cut \in 1 .. h /\ c[cut][2] > lst /\ cut \in 1 .. Len(v) /\ cut # 0 /\ cut > 0
    BY <1>1, <1>2, <1>6, <2>2
  <2> DEFINE front == SubSeq(c, 1, cut - 1)
             p == <<c[cut][1], lst>>
  <2>4. p[2] = lst /\ c[cut] \in T
    BY <1>1, <2>3
  <2>5. front \in Seq(T) /\ s = Append(front, p)
    BY <1>1, <1>3, <1>6, <2>3
  <2> HIDE DEF front, p
  <2>6. s # <<>> /\ Len(s) = Len(front) + 1 /\ s[Len(s)] = p
    BY <2>5
  <2>7. Latest(s) = lst
    BY <2>4, <2>6 DEF Latest, Last
  <2>8. ~(v[cut][1] > lst) => IsOpen(v, lst)
    <3> DEFINE a == v[cut][1]
               b == v[cut][2]
    <3>1. a \in Nat /\ b \in Nat /\ b > lst
      BY <1>1, <1>2, <2>3
    <3> HIDE DEF a, b
    <3>2. ~(a > lst) => lst \in a .. b
      BY <3>1
    <3> QED
      BY <1>2, <2>3, <3>2 DEF IsOpen, a, b
  <2>9. Len(v) <= 2 => cut = 1
    BY <1>1, <2>3
  <2> QED
    BY <1>4, <1>7, <2>3, <2>6, <2>7, <2>8, <2>9 DEF s, v, l, c
<1>8. CASE ~(l > lst)
  <2>1. K = {}
    <3> SUFFICES ASSUME NEW k \in 1 .. h PROVE ~(c[k][2] > lst)
      OBVIOUS
    <3>1. k \in 1 .. Len(v) /\ h \in 1 .. Len(v) /\ k <= h
      BY <1>1, <1>2
    <3> DEFINE a == v[k][2]
               b == v[h][2]
    <3>2. a \in Nat /\ b \in Nat /\ a <= b /\ b = l /\ c[k] = v[k]
      BY <1>1, <1>2, <3>1
    <3> HIDE DEF a, b
    <3>3. ~(a > lst)
      BY <1>8, <3>2
    <3> QED
      BY <3>2, <3>3 DEF a
  <2>2. cut = 0 /\ s = c
    BY <1>3, <1>5, <2>1
  <2>3. s # <<>> /\ Latest(s) = l /\ IsOpen(v, Latest(s))
    BY <1>1, <2>2 DEF l
  <2> QED
    BY <1>4, <1>8, <2>2, <2>3 DEF s, v, l, c
<1> QED
  BY <1>7, <1>8

\* A sum that stays within a size_t is exact,
LEMMA PlusExact ==
  \A a, b \in Nat : a + b <= SIZE_NONE => Plus(a, b) = a + b
<1>1. \A a, n \in Nat : a < n => a % n = a
  OBVIOUS
<1> QED
  BY <1>1, SIZE_NONEAssumption DEF Plus

\* and so is a difference that is not below 0.
LEMMA MinusExact ==
  \A a, b \in Nat : b <= a /\ a <= SIZE_NONE => Minus(a, b) = a - b
<1>1. \A a, n \in Nat : a < n => a % n = a
  OBVIOUS
<1> QED
  BY <1>1, SIZE_NONEAssumption DEF Minus

\* Travel times are natural numbers.
LEMMA TravelNat == \A a, b \in Index : Travel(a, b) \in Nat
<1>1. \A a, b \in Index : Travel(a, b) \in 0 .. SIZE_NONE
  BY DurationAssumption DEF Travel
<1>2. 0 .. SIZE_NONE \subseteq Nat
  BY SIZE_NONEAssumption
<1> QED
  BY <1>1, <1>2

\* The models whose schedule is sound: every customer can be served on its own,
\* and every node has windows.
Workable == AllServable /\ AllWindowed

\* A window or two for every node
FewWindows == \A n \in Index : Len(tws[n]) <= 2

\* The end of the last window of a node that the loop considers
ConsideredEnd(n) == Latest(Considered(tws[n]))

\* What is known of the nodes of such a model.
LEMMA NodeFacts ==
  ASSUME ChainInv, Workable, NEW n \in Index
  PROVE  /\ IsWindows(tws[n]) /\ tws[n] # <<>>
         /\ Earliest(tws[n]) \in Nat /\ ConsideredEnd(n) \in Nat /\ Latest(tws[n]) \in Nat
         /\ Earliest(tws[n]) = tws[n][1][1]
         /\ Earliest(tws[n]) <= ConsideredEnd(n) /\ ConsideredEnd(n) <= Latest(tws[n])
         /\ IsOpen(tws[n], Earliest(tws[n])) /\ IsOpen(tws[n], Latest(tws[n]))
         /\ \A t \in Nat :
              IsOpen(tws[n], t) => Earliest(tws[n]) <= t /\ t <= Latest(tws[n])
         /\ Service[n] \in Nat /\ SIZE_NONE \in Nat
         /\ Latest(tws[n]) + Service[n] < SIZE_NONE
         /\ \A b \in Index :
              /\ Travel(n, b) \in Nat
              /\ Latest(tws[n]) + Service[n] + Travel(n, b) < SIZE_NONE
<1>1. /\ IsWindows(tws[n]) /\ tws[n] # <<>>
      /\ \A b \in Index : Latest(tws[n]) + Service[n] + Travel(n, b) < SIZE_NONE
  <2>1. tws[n] # <<>>
    BY DEF Workable, AllWindowed
  <2>2. PICK m \in Models : tws = m.tws
    BY DEF ChainInv
  <2> QED
    BY <2>1, <2>2, TimesAssumption
<1>3. Service[n] \in Nat /\ SIZE_NONE \in Nat
  <2>1. Service[n] \in 0 .. SIZE_NONE
    BY ServiceAssumption
  <2> QED
    BY <2>1, SIZE_NONEAssumption
<1>4. \A b \in Index : Travel(n, b) \in Nat
  BY TravelNat
<1> DEFINE w == tws[n]
<1>5. /\ ConsideredEnd(n) \in Nat
      /\ Earliest(w) <= ConsideredEnd(n) /\ ConsideredEnd(n) <= Latest(w)
  BY <1>1, ConsideredFacts DEF ConsideredEnd
<1>6. /\ w[1][1] \in Nat /\ Latest(w) \in Nat /\ Earliest(w) = w[1][1]
      /\ Latest(w) = w[Len(w)][2]
      /\ DOMAIN w = 1 .. Len(w) /\ 1 \in 1 .. Len(w) /\ Len(w) \in 1 .. Len(w)
      /\ \A k \in 1 .. Len(w) :
           /\ w[k][1] \in Nat /\ w[k][2] \in Nat
           /\ w[1][1] <= w[k][1] /\ w[k][1] <= w[k][2] /\ w[k][2] <= Latest(w)
  BY <1>1, WindowFacts
<1>7. Latest(w) + Service[n] < SIZE_NONE
  <2>1. n \in Index /\ Travel(n, n) \in Nat /\ Latest(w) + Service[n] + Travel(n, n) < SIZE_NONE
    BY <1>1, <1>4
  <2>2. Service[n] \in Nat /\ SIZE_NONE \in Nat /\ Latest(w) \in Nat
    BY <1>3, <1>6
  <2> DEFINE x == Latest(w)
             tr == Travel(n, n)
  <2>3. tr \in Nat /\ x + Service[n] + tr < SIZE_NONE /\ x \in Nat
    BY <2>1, <2>2
  <2> HIDE DEF x, tr
  <2>4. x + Service[n] < SIZE_NONE
    BY <2>2, <2>3
  <2> QED
    BY <2>4 DEF x
<1> HIDE DEF w
<1>8. IsOpen(w, Earliest(w)) /\ IsOpen(w, Latest(w))
  BY <1>6 DEF IsOpen
<1>9. ASSUME NEW t \in Nat, IsOpen(w, t) PROVE Earliest(w) <= t /\ t <= Latest(w)
  <2>1. w # <<>>
    BY <1>1 DEF w
  <2>2. PICK k \in DOMAIN w : t \in w[k][1] .. w[k][2]
    BY <1>9, <2>1 DEF IsOpen
  <2> DEFINE a == w[k][1]
             b == w[k][2]
             c == w[1][1]
  <2>3. /\ a \in Nat /\ b \in Nat /\ c \in Nat /\ Latest(w) \in Nat
        /\ c <= a /\ b <= Latest(w) /\ Earliest(w) = c
    BY <1>6, <2>2
  <2>4. t \in a .. b
    BY <2>2
  <2> HIDE DEF a, b, c
  <2> QED
    BY ONLY t \in Nat, <2>3, <2>4
<1> QED
  BY <1>1, <1>3, <1>4, <1>5, <1>6, <1>7, <1>8, <1>9 DEF w

\* A node reached before its last window is over is left within its bounds.
LEMMA DepartsOnTime ==
  ASSUME ChainInv, Workable, NEW n \in Index, NEW p \in Index, NEW dep \in Nat,
         dep + Travel(p, n) <= Latest(tws[n])
  PROVE  /\ Plus(dep, Travel(p, n)) = dep + Travel(p, n)
         /\ \E service \in Nat :
              /\ DepartureTime(tws, n, p, dep) = service + Service[n]
              /\ ServiceTime(tws[n], dep + Travel(p, n)) = service
              /\ dep + Travel(p, n) <= service
              /\ Earliest(tws[n]) <= service /\ service <= Latest(tws[n])
              /\ IsOpen(tws[n], service)
              /\ \A t \in Nat :
                   IsOpen(tws[n], t) /\ dep + Travel(p, n) <= t => service <= t
<1> DEFINE arrival == dep + Travel(p, n)
           service == ServiceTime(tws[n], arrival)
<1>1. /\ IsWindows(tws[n]) /\ tws[n] # <<>>
      /\ Latest(tws[n]) \in Nat /\ Service[n] \in Nat /\ SIZE_NONE \in Nat
      /\ Latest(tws[n]) + Service[n] < SIZE_NONE
  BY NodeFacts
<1>2. Travel(p, n) \in Nat
  BY TravelNat
<1>3. arrival \in Nat /\ arrival <= Latest(tws[n]) /\ arrival <= SIZE_NONE
  BY <1>1, <1>2
<1>4. Plus(dep, Travel(p, n)) = arrival
  BY <1>2, <1>3, PlusExact
<1> HIDE DEF arrival
<1>5. /\ service \in Nat /\ arrival <= service
      /\ Earliest(tws[n]) <= service /\ service <= Latest(tws[n])
      /\ IsOpen(tws[n], service)
      /\ \A t \in Nat : IsOpen(tws[n], t) /\ arrival <= t => service <= t
  BY <1>1, <1>3, ServiceFacts
<1>6. DepartureTime(tws, n, p, dep) =
        IF service = SIZE_NONE THEN SIZE_NONE ELSE Plus(service, Service[n])
  BY <1>4 DEF DepartureTime
<1> HIDE DEF service
<1>7. service # SIZE_NONE /\ service + Service[n] <= SIZE_NONE
  BY <1>1, <1>5
<1>8. DepartureTime(tws, n, p, dep) = service + Service[n]
  BY <1>1, <1>5, <1>6, <1>7, PlusExact
<1> QED
  BY <1>1, <1>4, <1>5, <1>8 DEF arrival, service

\* When a customer can be left, after its service, in time for the sub-route of
\* its successor, the windows of its own sub-route end with the last time to
\* serve it, of those up to the last end considered, that is early enough for
\* the successor.
LEMMA WindowsInTime ==
  ASSUME ChainInv, Workable, NEW n \in Index, NEW s \in Index, NEW later,
         Latest(later) \in Nat, Latest(later) < SIZE_NONE,
         NEW dep \in Nat, Earliest(tws[n]) + Service[n] <= dep,
         dep + Travel(n, s) <= Latest(later)
  PROVE  /\ FewWindows => ~SubrouteTwsAborts(tws, n, s, later)
         /\ SubrouteTws(tws, n, s, later) # <<>>
         /\ Latest(SubrouteTws(tws, n, s, later)) \in Nat
         /\ Latest(SubrouteTws(tws, n, s, later)) <= ConsideredEnd(n)
         /\ ~SubrouteTwsAborts(tws, n, s, later)
              => IsOpen(tws[n], Latest(SubrouteTws(tws, n, s, later)))
         /\ Latest(SubrouteTws(tws, n, s, later)) + Service[n] + Travel(n, s)
              <= Latest(later)
         /\ \A x \in Nat :
              x <= ConsideredEnd(n) /\ x + Service[n] + Travel(n, s) <= Latest(later)
                => x <= Latest(SubrouteTws(tws, n, s, later))
<1> DEFINE e == Earliest(tws[n])
           l == ConsideredEnd(n)
           sv == Service[n]
           tr == Travel(n, s)
           end == Latest(later)
           lst == (end - tr) - sv
           new == SubrouteTws(tws, n, s, later)
<1>1. IsWindows(tws[n]) /\ tws[n] # <<>> /\ e = tws[n][1][1]
  BY NodeFacts
<1>2. /\ e \in Nat /\ l \in Nat /\ e <= l /\ sv \in Nat /\ tr \in Nat
      /\ SIZE_NONE \in Nat /\ end \in Nat /\ end < SIZE_NONE
      /\ e + sv <= dep /\ dep + tr <= end /\ dep \in Nat
  BY NodeFacts
<1> HIDE DEF e, l, sv, tr, end
<1>3. /\ lst \in Nat /\ e <= lst /\ lst + sv + tr = end
      /\ tr <= end /\ end <= SIZE_NONE /\ end - tr \in Nat
      /\ sv <= end - tr /\ end - tr <= SIZE_NONE
      /\ \A x \in Nat : x + sv + tr <= end => x <= lst
  BY ONLY <1>2
<1>4. LatestService(n, s, later) = lst
  <2>1. Minus(end, tr) = end - tr
    BY <1>2, <1>3, MinusExact
  <2>2. Minus(end - tr, sv) = lst
    BY <1>2, <1>3, MinusExact
  <2> QED
    BY <2>1, <2>2 DEF LatestService, end, tr, sv
<1> HIDE DEF lst
<1>5. /\ new # <<>>
      /\ Latest(new) = IF l > lst THEN lst ELSE l
      /\ ~SubrouteTwsAborts(tws, n, s, later) => IsOpen(tws[n], Latest(new))
      /\ Len(tws[n]) <= 2 /\ SubrouteTwsAborts(tws, n, s, later) => e > lst
  <2>1. Latest(later) # SIZE_NONE
    BY <1>2 DEF end
  <2> QED
    BY <1>1, <1>3, <1>4, <2>1, SubrouteFacts DEF l, ConsideredEnd
<1>6. FewWindows => ~SubrouteTwsAborts(tws, n, s, later)
  BY <1>2, <1>3, <1>5 DEF FewWindows
<1> HIDE DEF new
<1> DEFINE until == Latest(new)
<1>7. until = IF l > lst THEN lst ELSE l
  BY <1>5
<1> HIDE DEF until
<1>8. /\ until \in Nat /\ until <= l
      /\ until + sv + tr <= end
      /\ \A x \in Nat : x <= l /\ x + sv + tr <= end => x <= until
  BY ONLY <1>2, <1>3, <1>7
<1> QED
  BY <1>5, <1>6, <1>8 DEF until, new, e, l, sv, tr, end

-----------------------------------------------------------------------------
(***************************************************************************)
(* No customer is left too late for the sub-route of its successor.        *)
(***************************************************************************)
Until(c) == Latest(subroute_tws[c])

OnTime(c) == departure[c] + Travel(c, successors[c]) <= Until(successors[c])

DepartureBounds(c) ==
  /\ departure[c] \in Nat
  /\ Earliest(tws[c]) + Service[c] <= departure[c]
  /\ departure[c] <= Latest(tws[c]) + Service[c]

\* The sub-route windows end within the windows considered, while the customer
\* can be served and the depot has not closed,
WindowBounds(c) ==
  /\ subroute_tws[c] # <<>> /\ Until(c) \in Nat
  /\ Until(c) <= ConsideredEnd(c) /\ IsOpen(tws[c], Until(c))
  /\ Until(c) <= Latest(tws[0])

\* and early enough for the windows of the next sub-route.
InTimeFor(c) ==
  Until(c) + Service[c] + Travel(c, successors[c]) <= Until(successors[c])

OnTimeInv ==
  Workable /\ pc \in Active =>
    \A c \in Customers :
      /\ OnTime(c) /\ DepartureBounds(c) /\ WindowBounds(c)
      /\ WindowsStale(c) \/ InTimeFor(c)

\* What makes a customer servable alone makes its first data sound.
LEMMA ServedAlone ==
  ASSUME ChainInv, Workable, NEW c \in Customers,
         NEW d, d = DepartureTime(tws, c, 0, DepotDeparture(tws)),
         NEW w, w = SubrouteTws(tws, c, 0, tws[0])
  PROVE  /\ FewWindows => ~SubrouteTwsAborts(tws, c, 0, tws[0])
         /\ d \in Nat /\ d + Travel(c, 0) <= Latest(tws[0])
         /\ Earliest(tws[c]) + Service[c] <= d
         /\ d <= Latest(tws[c]) + Service[c]
         /\ w # <<>> /\ Latest(w) \in Nat
         /\ Latest(w) <= ConsideredEnd(c)
         /\ ~SubrouteTwsAborts(tws, c, 0, tws[0]) => IsOpen(tws[c], Latest(w))
         /\ Latest(w) + Service[c] + Travel(c, 0) <= Latest(tws[0])
         /\ DepotDeparture(tws) \in Nat
         /\ Plus(DepotDeparture(tws), Travel(0, c)) = DepotDeparture(tws) + Travel(0, c)
         /\ DepotDeparture(tws) + Travel(0, c) <= Latest(tws[c])
<1> DEFINE dd == DepotDeparture(tws)
           there == Travel(0, c)
           back == Travel(c, 0)
           sv == Service[c]
           e == Earliest(tws[c])
           end == Latest(tws[c])
           depot == Latest(tws[0])
<1>0. c \in Index /\ 0 \in Index
  BY DepotIsNoCustomer
<1>1. /\ there \in Nat /\ back \in Nat /\ sv \in Nat /\ e \in Nat /\ end \in Nat
      /\ depot \in Nat /\ depot < SIZE_NONE
      /\ end + sv < SIZE_NONE /\ end + sv + back < SIZE_NONE
      /\ Service[0] \in Nat /\ Earliest(tws[0]) \in Nat /\ SIZE_NONE \in Nat
      /\ Earliest(tws[0]) <= depot /\ depot + Service[0] + there < SIZE_NONE
  <2>1. /\ sv \in Nat /\ e \in Nat /\ end \in Nat /\ SIZE_NONE \in Nat
        /\ end + sv < SIZE_NONE
        /\ back \in Nat /\ end + sv + back < SIZE_NONE
    BY <1>0, NodeFacts
  <2>2. /\ depot \in Nat /\ Service[0] \in Nat /\ Earliest(tws[0]) \in Nat
        /\ Earliest(tws[0]) <= ConsideredEnd(0) /\ ConsideredEnd(0) <= depot
        /\ ConsideredEnd(0) \in Nat
        /\ depot + Service[0] < SIZE_NONE
        /\ there \in Nat /\ depot + Service[0] + there < SIZE_NONE
    BY <1>0, NodeFacts
  <2> HIDE DEF there, back, sv, e, end, depot
  <2> QED
    BY ONLY <2>1, <2>2
<1>2. dd = Earliest(tws[0]) + Service[0]
  <2>1. Earliest(tws[0]) + Service[0] <= SIZE_NONE
    <3> HIDE DEF there, depot
    <3> QED
      BY <1>1
  <2> QED
    BY <1>1, <2>1, PlusExact DEF DepotDeparture
<1>3. dd \in Nat /\ dd + there <= SIZE_NONE
  <2> HIDE DEF dd, there, depot
  <2> QED
    BY ONLY <1>1, <1>2
<1>4. Plus(dd, there) = dd + there
  BY <1>1, <1>3, PlusExact
<1>5. /\ dd + there <= end
      /\ Plus(Plus(ServiceTime(tws[c], dd + there), sv), back) <= depot
  <2>1. ServableAlone(tws, c)
    BY DEF Workable, AllServable
  <2> QED
    BY <1>4, <2>1 DEF ServableAlone
<1> HIDE DEF dd, there, back, sv, e, end, depot
<1>6. PICK service \in Nat :
        /\ d = service + sv
        /\ ServiceTime(tws[c], dd + there) = service
        /\ e <= service /\ service <= end
  BY <1>0, <1>3, <1>5, DepartsOnTime DEF dd, there, sv, e, end
<1>7. service + sv <= SIZE_NONE /\ service + sv + back <= SIZE_NONE
  BY <1>1, <1>6
<1>8. Plus(Plus(service, sv), back) = service + sv + back
  <2>1. service + sv \in Nat
    BY <1>1, <1>6
  <2> QED
    BY <1>1, <1>6, <1>7, <2>1, PlusExact
<1>9. d \in Nat /\ d + back <= depot /\ e + sv <= d /\ d <= end + sv
  BY <1>1, <1>5, <1>6, <1>8
<1>10. /\ FewWindows => ~SubrouteTwsAborts(tws, c, 0, tws[0])
       /\ w # <<>> /\ Latest(w) \in Nat
       /\ Latest(w) <= ConsideredEnd(c)
       /\ ~SubrouteTwsAborts(tws, c, 0, tws[0]) => IsOpen(tws[c], Latest(w))
       /\ Latest(w) + sv + back <= depot
  BY <1>0, <1>1, <1>9, WindowsInTime DEF e, sv, back, depot
<1> QED
  BY <1>3, <1>4, <1>5, <1>9, <1>10 DEF dd, there, back, sv, e, end, depot

\* The model never changes.
LEMMA SameModel ==
  ASSUME tws' = tws
  PROVE  Workable' <=> Workable
BY DEF Workable, AllServable, AllWindowed

\* Nor do the facts about its windows.
LEMMA SameWindows ==
  ASSUME tws' = tws
  PROVE  \A n : ConsideredEnd(n)' = ConsideredEnd(n)
BY DEF ConsideredEnd

\* The first data of the customers are sound, unless an assertion is met.
LEMMA StartLambdaOnTime ==
  ASSUME RouteInv, StartLambda, Workable
  PROVE  OnTimeInv' /\ (FewWindows => pc' = "scan")
<1>0. ChainInv
  BY DEF RouteInv
<1>1. /\ predecessors' = Unlinked /\ successors' = Unlinked /\ tws' = tws
      /\ departure' =
           [n \in Index |-> IF n = 0 THEN DepotDeparture(tws)
                            ELSE DepartureTime(tws, n, 0, DepotDeparture(tws))]
      /\ subroute_tws' =
           [n \in Index |-> IF n = 0 THEN tws[0] ELSE SubrouteTws(tws, n, 0, tws[0])]
  BY DEF StartLambda, model
<1>2. 0 \in Index /\ \A c \in Customers : c \in Index /\ c # 0
  BY DepotIsNoCustomer
<1>3. FewWindows => pc' = "scan"
  <2>1. FewWindows => \A c \in Customers : ~SubrouteTwsAborts(tws, c, 0, tws[0])
    BY <1>0, ServedAlone
  <2> QED
    BY <2>1 DEF StartLambda
<1>4. ASSUME NEW c \in Customers, pc' \in Active
      PROVE  /\ OnTime(c)' /\ DepartureBounds(c)' /\ WindowBounds(c)' /\ InTimeFor(c)'
  <2> DEFINE d == DepartureTime(tws, c, 0, DepotDeparture(tws))
             w == SubrouteTws(tws, c, 0, tws[0])
  <2>1. /\ d \in Nat /\ d + Travel(c, 0) <= Latest(tws[0])
        /\ Earliest(tws[c]) + Service[c] <= d
        /\ d <= Latest(tws[c]) + Service[c]
        /\ w # <<>> /\ Latest(w) \in Nat
        /\ Latest(w) <= ConsideredEnd(c) /\ IsOpen(tws[c], Latest(w))
        /\ Latest(w) + Service[c] + Travel(c, 0) <= Latest(tws[0])
    <3>1. ~SubrouteTwsAborts(tws, c, 0, tws[0])
      BY <1>4 DEF StartLambda, Active
    <3> QED
      BY <1>0, <3>1, ServedAlone
  <2>2. departure'[c] = d /\ subroute_tws'[c] = w /\ subroute_tws'[0] = tws[0]
        /\ successors'[c] = 0
    BY <1>1, <1>2 DEF Unlinked
  <2> HIDE DEF d, w
  <2>3. Until(c)' = Latest(w) /\ Until(successors[c])' = Latest(tws[0])
    BY <2>2 DEF Until
  <2>4. Latest(w) <= Latest(tws[0])
    <3>1. Service[c] \in Nat /\ Travel(c, 0) \in Nat /\ Latest(tws[0]) \in Nat
      BY <1>0, <1>2, NodeFacts
    <3> QED
      BY <2>1, <3>1
  <2> QED
    BY <1>1, <2>1, <2>2, <2>3, <2>4, SameWindows
       DEF OnTime, DepartureBounds, WindowBounds, InTimeFor
<1> QED
  BY <1>3, <1>4 DEF OnTimeInv

\* The deadlines of the nodes lie within their windows.
LEMMA DeadlineFacts ==
  ASSUME ChainInv, ScheduleInv, OnTimeInv, Workable, pc \in Active, NEW n \in Index
  PROVE  /\ Until(n) \in Nat /\ Until(n) <= Latest(tws[n])
         /\ Until(n) <= Latest(tws[0]) /\ IsOpen(tws[n], Until(n))
         /\ Until(n) < SIZE_NONE
<1>1. /\ ConsideredEnd(n) \in Nat /\ ConsideredEnd(n) <= Latest(tws[n]) /\ Latest(tws[n]) \in Nat
      /\ Service[n] \in Nat /\ SIZE_NONE \in Nat /\ Latest(tws[n]) + Service[n] < SIZE_NONE
  BY NodeFacts
<1>2. CASE n = 0
  <2>1. Until(n) = Latest(tws[n])
    BY <1>2 DEF Until, ScheduleInv
  <2>2. IsOpen(tws[n], Until(n))
    BY <2>1, NodeFacts
  <2> QED
    BY <1>1, <1>2, <2>1, <2>2
<1>3. CASE n # 0
  <2>1. n \in Customers
    BY <1>3, DepotIsNoCustomer
  <2>2. /\ Until(n) \in Nat /\ Until(n) <= ConsideredEnd(n)
        /\ Until(n) <= Latest(tws[0]) /\ IsOpen(tws[n], Until(n))
    BY <2>1 DEF OnTimeInv, WindowBounds
  <2> QED
    BY <1>1, <2>2
<1> QED
  BY <1>2, <1>3

\* A merge is made when the first customer of the second route is reached in
\* time for its sub-route.
LEMMA MergeOnTime ==
  ASSUME RouteInv, ScheduleInv, OnTimeInv, Merge
  PROVE  OnTimeInv'
<1> SUFFICES ASSUME Workable PROVE OnTimeInv'
  <2>1. tws' = tws
    BY DEF Merge, model
  <2> QED
    BY <2>1, SameModel DEF OnTimeInv
<1>1. /\ pc = "walk_back" /\ pc' = "departures" /\ InWindow
      /\ successors' = [successors EXCEPT ![last_visit] = first_visit]
      /\ UNCHANGED <<tws, departure, subroute_tws, last_visit>>
  BY DEF Merge, MayMerge, model, meta
<1>2. /\ successors \in [Customers -> Index] /\ ChainInv
      /\ last_visit \in Customers /\ first_visit \in Customers
      /\ first_visit \in Index /\ last_visit \in Index
  BY <1>1, Neighbours, DepotIsNoCustomer DEF RouteInv, ChainInv
<1>3. ASSUME NEW c \in Customers
      PROVE  OnTime(c) /\ DepartureBounds(c) /\ WindowBounds(c) /\ InTimeFor(c)
  BY <1>1 DEF OnTimeInv, Active, WindowsStale
<1>4. \A n : Until(n)' = Until(n)
  BY <1>1 DEF Until
<1>5. departure[last_visit] + Travel(last_visit, first_visit) <= Until(first_visit)
  <2> DEFINE d == departure[last_visit]
             tr == Travel(last_visit, first_visit)
             end == Latest(tws[last_visit])
             sv == Service[last_visit]
  <2>1. d \in Nat /\ d <= end + sv
    BY <1>2, <1>3 DEF DepartureBounds
  <2>2. end \in Nat /\ sv \in Nat /\ tr \in Nat /\ end + sv + tr < SIZE_NONE
        /\ SIZE_NONE \in Nat
    BY <1>2, NodeFacts
  <2>3. Plus(d, tr) <= Until(first_visit)
    BY <1>1 DEF InWindow, Arrival, Until
  <2> HIDE DEF d, tr, end, sv
  <2>4. d + tr <= SIZE_NONE
    BY ONLY <2>1, <2>2
  <2>5. Plus(d, tr) = d + tr
    BY <2>1, <2>2, <2>4, PlusExact
  <2> QED
    BY <2>3, <2>5 DEF d, tr
<1>6. ASSUME NEW c \in Customers
      PROVE  /\ OnTime(c)' /\ DepartureBounds(c)' /\ WindowBounds(c)'
             /\ WindowsStale(c)' \/ InTimeFor(c)'
  <2>1. DepartureBounds(c)' /\ WindowBounds(c)'
    BY <1>1, <1>3, SameWindows DEF DepartureBounds, WindowBounds, Until
  <2>2. CASE c = last_visit
    <3>1. successors'[c] = first_visit
      BY <1>1, <1>2, <2>2
    <3>2. OnTime(c)'
      BY <1>1, <1>5, <2>2, <3>1 DEF OnTime, Until
    <3>3. WindowsStale(c)'
      BY <1>1, <2>2 DEF WindowsStale
    <3> QED
      BY <2>1, <3>2, <3>3
  <2>3. CASE c # last_visit
    <3>1. successors'[c] = successors[c]
      BY <1>1, <1>2, <2>3
    <3>2. OnTime(c)' /\ InTimeFor(c)'
      BY <1>1, <1>3, <3>1 DEF OnTime, InTimeFor, Until
    <3> QED
      BY <2>1, <3>2
  <2> QED
    BY <2>2, <2>3
<1> QED
  BY <1>6 DEF OnTimeInv

\* The walk over the departures is behind the merged pair.
LEMMA BehindMerge ==
  ASSUME RouteInv, pc = "departures"
  PROVE  /\ node \in Customers /\ node # last_visit
         /\ predecessors[node] \in Customers
<1>1. ChainInv /\ DepartureWalkInv
  BY DEF RouteInv
<1>2. PICK t \in Chains : \E a, m \in 1 .. Len(t) : IsMerged(t, a, m) /\ a < m
  BY <1>1 DEF DepartureWalkInv
<1>3. PICK a \in 1 .. Len(t), m \in 1 .. Len(t) : IsMerged(t, a, m) /\ a < m
  BY <1>2
<1>4. t[a] = last_visit /\ t[m] = node
  BY <1>3 DEF IsMerged
<1>5. t[a] # t[m]
  <2>1. t[a] = t[m] => a = m
    BY <1>1, RoutesDisjoint
  <2>2. a # m
    BY <1>3
  <2> QED
    BY <2>1, <2>2
<1>6. /\ Len(t) \in Nat /\ \A k \in 1 .. Len(t) : t[k] \in Customers
      /\ \A k \in 1 .. Len(t) - 1 : predecessors[t[k + 1]] = t[k]
  BY <1>1, RouteParts
<1>7. m - 1 \in 1 .. Len(t) - 1 /\ m - 1 + 1 = m /\ m - 1 \in 1 .. Len(t)
  BY <1>3, <1>6
<1>8. predecessors[t[m - 1 + 1]] = t[m - 1] /\ t[m - 1] \in Customers
  BY <1>6, <1>7
<1> QED
  BY <1>4, <1>5, <1>6, <1>7, <1>8

\* A customer reached in time for its sub-route is left in time for the next.
LEMMA PassOnDepartureOnTime ==
  ASSUME RouteInv, ScheduleInv, OnTimeInv, PassOnDeparture
  PROVE  OnTimeInv'
<1> SUFFICES ASSUME Workable PROVE OnTimeInv'
  <2>1. tws' = tws
    BY DEF PassOnDeparture, model
  <2> QED
    BY <2>1, SameModel DEF OnTimeInv
<1>1. /\ pc = "departures"
      /\ departure' = [departure EXCEPT ![node] =
           DepartureTime(tws, node, predecessors[node], departure[predecessors[node]])]
      /\ pc' = "departures" \/ (pc' = "windows" /\ node' = last_visit)
      /\ UNCHANGED <<tws, successors, last_visit, subroute_tws>>
  BY DEF PassOnDeparture, model, chains
<1>2. /\ ChainInv /\ DOMAIN departure = Index
      /\ node \in Customers /\ node # last_visit /\ predecessors[node] \in Customers
      /\ \A a, b \in Customers : successors[a] = b <=> predecessors[b] = a
      /\ successors \in [Customers -> Index]
      /\ \A c \in Customers : c \in Index
  BY <1>1, BehindMerge, Neighbours, DepotIsNoCustomer DEF RouteInv, ScheduleInv
<1>3. ASSUME NEW c \in Customers
      PROVE  /\ OnTime(c) /\ DepartureBounds(c) /\ WindowBounds(c)
             /\ c # last_visit => InTimeFor(c)
             /\ WindowsStale(c) \/ InTimeFor(c)
  BY <1>1 DEF OnTimeInv, Active, WindowsStale
<1>4. \A n : Until(n)' = Until(n)
  BY <1>1 DEF Until
<1> DEFINE p == predecessors[node]
           s == successors[node]
           new == DepartureTime(tws, node, p, departure[p])
<1>5. /\ new \in Nat /\ new + Travel(node, s) <= Until(s)
      /\ Earliest(tws[node]) + Service[node] <= new
      /\ new <= Latest(tws[node]) + Service[node]
  <2> DEFINE arrival == departure[p] + Travel(p, node)
             e == Earliest(tws[node])
             sv == Service[node]
             tr == Travel(node, s)
             end == Latest(tws[node])
             un == Until(node)
             us == Until(s)
  <2>1. successors[p] = node /\ p \in Index /\ node \in Index /\ s \in Index
    BY <1>2
  <2>2. arrival <= un /\ departure[p] \in Nat
    BY <1>2, <1>3, <2>1 DEF OnTime, DepartureBounds
  <2>3. un \in Nat /\ IsOpen(tws[node], un) /\ un + sv + tr <= us
    BY <1>2, <1>3 DEF WindowBounds, InTimeFor
  <2>4. us \in Nat /\ un <= end
    BY <1>1, <1>2, <2>1, DeadlineFacts DEF Active
  <2>5. e \in Nat /\ sv \in Nat /\ tr \in Nat /\ end \in Nat
    BY <1>2, <2>1, NodeFacts
  <2>6. Travel(p, node) \in Nat /\ arrival \in Nat
    <3>1. Travel(p, node) \in Nat
      BY <2>1, TravelNat
    <3> QED
      BY <2>2, <3>1
  <2>7. arrival <= end
    <3> HIDE DEF arrival, e, sv, tr, end, un, us
    <3> QED
      BY ONLY <2>2, <2>3, <2>4, <2>5, <2>6
  <2>8. PICK service \in Nat :
          /\ new = service + sv
          /\ arrival <= service /\ e <= service /\ service <= end
          /\ \A t \in Nat : IsOpen(tws[node], t) /\ arrival <= t => service <= t
    BY <1>2, <2>1, <2>2, <2>7, DepartsOnTime
  <2> HIDE DEF arrival, e, sv, tr, end, un, us, new
  <2>9. service <= un
    BY <2>2, <2>3, <2>8
  <2>10. /\ new \in Nat /\ new + tr <= us
         /\ e + sv <= new /\ new <= end + sv
    BY ONLY <2>3, <2>4, <2>5, <2>8, <2>9
  <2> QED
    BY <2>10 DEF tr, us, e, sv, end
<1>6. departure'[node] = new /\ \A c \in Customers : c # node => departure'[c] = departure[c]
  BY <1>1, <1>2
<1> HIDE DEF new
<1>7. ASSUME NEW c \in Customers
      PROVE  /\ OnTime(c)' /\ DepartureBounds(c)' /\ WindowBounds(c)'
             /\ WindowsStale(c)' \/ InTimeFor(c)'
  <2>1. WindowBounds(c)'
    BY <1>1, <1>3, SameWindows DEF WindowBounds, Until
  <2>2. WindowsStale(c)' \/ InTimeFor(c)'
    <3>1. InTimeFor(c) => InTimeFor(c)'
      BY <1>1 DEF InTimeFor, Until
    <3>2. WindowsStale(c) => WindowsStale(c)'
      BY <1>1 DEF WindowsStale
    <3> QED
      BY <1>3, <3>1, <3>2
  <2>3. CASE c = node
    <3>1. OnTime(c)' /\ DepartureBounds(c)'
      BY <1>1, <1>5, <1>6, <2>3 DEF OnTime, DepartureBounds, Until
    <3> QED
      BY <2>1, <2>2, <3>1
  <2>4. CASE c # node
    <3>1. OnTime(c)' /\ DepartureBounds(c)'
      BY <1>1, <1>3, <1>6, <2>4 DEF OnTime, DepartureBounds, Until
    <3> QED
      BY <2>1, <2>2, <3>1
  <2> QED
    BY <2>3, <2>4
<1>8. Workable' /\ pc' \in Active => \A c \in Customers :
      /\ OnTime(c)' /\ DepartureBounds(c)' /\ WindowBounds(c)'
      /\ WindowsStale(c)' \/ InTimeFor(c)'
  BY <1>7
<1> QED
  BY ONLY <1>8 DEF OnTimeInv

\* The customer the second walk has come to can be left in time for its
\* successor, so its new windows do not abort, if there are one or two; and
\* its predecessor still reaches it within them.
LEMMA PassOnWindowsOnTime ==
  ASSUME RouteInv, ScheduleInv, OnTimeInv, Workable, pc = "windows"
  PROVE  (FewWindows => ~NewWindowsAbort) /\ (PassOnWindows => OnTimeInv')
<1>2. /\ ChainInv /\ DOMAIN subroute_tws = Index
      /\ node \in Customers /\ node \in Index
      /\ successors \in [Customers -> Index]
      /\ predecessors \in [Customers -> Index]
      /\ \A a, b \in Customers : successors[a] = b <=> predecessors[b] = a
      /\ \A c \in Customers : successors[c] # c /\ c \in Index /\ c # 0
  BY Neighbours, DepotIsNoCustomer DEF RouteInv, ChainInv, ScheduleInv
<1>3. ASSUME NEW c \in Customers
      PROVE  /\ OnTime(c) /\ DepartureBounds(c) /\ WindowBounds(c)
             /\ c # node => InTimeFor(c)
             /\ DepartureKnown(c)
  BY DEF OnTimeInv, Active, WindowsStale, DepartureStale, ScheduleInv
<1> DEFINE s == successors[node]
           new == SubrouteTws(tws, node, s, subroute_tws[s])
           d == departure[node]
<1>4. /\ s \in Index /\ d \in Nat
      /\ Latest(subroute_tws[s]) \in Nat /\ Latest(subroute_tws[s]) < SIZE_NONE
      /\ Earliest(tws[node]) + Service[node] <= d
      /\ d + Travel(node, s) <= Latest(subroute_tws[s])
  <2>1. s \in Index
    BY <1>2
  <2>2. Until(s) \in Nat /\ Until(s) < SIZE_NONE
    BY <1>2, <2>1, DeadlineFacts DEF Active
  <2>3. OnTime(node) /\ DepartureBounds(node)
    BY <1>2, <1>3
  <2> QED
    BY <2>1, <2>2, <2>3 DEF OnTime, DepartureBounds, Until
<1>5. /\ FewWindows => ~SubrouteTwsAborts(tws, node, s, subroute_tws[s])
      /\ new # <<>> /\ Latest(new) \in Nat
      /\ Latest(new) <= ConsideredEnd(node)
      /\ ~SubrouteTwsAborts(tws, node, s, subroute_tws[s]) => IsOpen(tws[node], Latest(new))
      /\ Latest(new) + Service[node] + Travel(node, s) <= Latest(subroute_tws[s])
      /\ \A x \in Nat :
           x <= ConsideredEnd(node) /\ x + Service[node] + Travel(node, s) <= Latest(subroute_tws[s])
             => x <= Latest(new)
  BY <1>2, <1>4, WindowsInTime
<1>6. FewWindows => ~NewWindowsAbort
  BY <1>5 DEF NewWindowsAbort
<1>8. Latest(new) <= Latest(tws[0])
  <2>1. /\ Until(s) \in Nat /\ Until(s) <= Latest(tws[0]) /\ Latest(tws[0]) \in Nat
        /\ Service[node] \in Nat /\ Travel(node, s) \in Nat
    <3>1. 0 \in Index
      BY DepotIsNoCustomer
    <3> QED
      BY <1>2, <1>4, <3>1, DeadlineFacts, NodeFacts DEF Active
  <2> DEFINE x == Latest(new)
             y == Until(s)
             z == Latest(tws[0])
             sv == Service[node]
             tr == Travel(node, s)
  <2>2. x \in Nat /\ x + sv + tr <= y
    BY <1>5 DEF Until
  <2> HIDE DEF x, y, z, sv, tr
  <2>3. x <= z
    BY <2>1, <2>2 DEF y, z, sv, tr
  <2> QED
    BY <2>3 DEF x, z
<1>7. ASSUME PassOnWindows PROVE OnTimeInv'
  <2>1. /\ subroute_tws' = [subroute_tws EXCEPT ![node] = new]
        /\ \/ predecessors[node] # 0 /\ node' = predecessors[node] /\ pc' = "windows"
           \/ predecessors[node] = 0 /\ pc' = "scan"
        /\ UNCHANGED <<tws, successors, departure>>
        /\ ~SubrouteTwsAborts(tws, node, s, subroute_tws[s])
    BY <1>7 DEF PassOnWindows, EndIteration, NewWindows, NewWindowsAbort, model, chains
  <2> HIDE DEF new
  <2>2. subroute_tws'[node] = new /\ \A n \in Index : n # node => subroute_tws'[n] = subroute_tws[n]
    BY <1>2, <2>1
  <2>3. ASSUME NEW c \in Customers, c = node
        PROVE  /\ OnTime(c)' /\ DepartureBounds(c)' /\ WindowBounds(c)' /\ InTimeFor(c)'
    <3>1. Until(c)' = Latest(new)
      BY <2>2, <2>3 DEF Until
    <3>2. s # node
      BY <1>2
    <3>3. OnTime(c) /\ DepartureBounds(c)
      BY <1>3
    <3>4. successors'[c] = s /\ departure' = departure /\ tws' = tws /\ subroute_tws'[c] = new
          /\ successors[c] = s /\ subroute_tws'[s] = subroute_tws[s]
      BY <1>4, <2>1, <2>2, <2>3, <3>2
    <3> HIDE DEF s
    <3>5. OnTime(c)'
      BY <3>3, <3>4 DEF OnTime, Until
    <3>6. DepartureBounds(c)'
      BY <3>3, <3>4 DEF DepartureBounds
    <3>7. WindowBounds(c)'
      BY <1>5, <1>8, <2>1, <2>3, <3>4, SameWindows DEF WindowBounds, Until
    <3>8. InTimeFor(c)'
      BY <1>5, <2>3, <3>4 DEF InTimeFor, Until
    <3> QED
      BY <3>5, <3>6, <3>7, <3>8
  <2>4. ASSUME NEW c \in Customers, c # node, successors[c] = node
        PROVE  /\ OnTime(c)' /\ DepartureBounds(c)' /\ WindowBounds(c)'
               /\ WindowsStale(c)'
    <3>1. predecessors[node] = c /\ c # 0
      BY <1>2, <2>4
    <3>2. WindowsStale(c)'
      BY <2>1, <3>1 DEF WindowsStale
    <3>3. OnTime(c) /\ DepartureBounds(c) /\ WindowBounds(c)
      BY <1>3
    <3> DEFINE arrival == departure[c] + Travel(c, node)
    <3>4. arrival <= Latest(new)
      <4>1. /\ departure[c] \in Nat /\ Travel(c, node) \in Nat /\ arrival \in Nat
            /\ arrival <= Until(node)
        <5>1. departure[c] \in Nat /\ Travel(c, node) \in Nat
          BY <1>2, <3>3, TravelNat DEF DepartureBounds
        <5> QED
          BY <2>4, <3>3, <5>1 DEF OnTime
      <4>2. Until(node) \in Nat /\ Until(node) <= Latest(tws[node])
        BY <1>2, DeadlineFacts DEF Active
      <4>3. Until(node) <= ConsideredEnd(node)
        BY <1>2, <1>3 DEF WindowBounds
      <4>4. /\ Latest(tws[node]) \in Nat /\ ConsideredEnd(node) \in Nat
            /\ Service[node] \in Nat /\ Travel(node, s) \in Nat
        BY <1>2, <1>4, NodeFacts
      <4> DEFINE end == Latest(tws[node])
                 l == ConsideredEnd(node)
                 un == Until(node)
                 sv == Service[node]
                 tr == Travel(node, s)
                 us == Latest(subroute_tws[s])
      <4>5. arrival <= end /\ arrival <= l
        <5>1. /\ arrival \in Nat /\ un \in Nat /\ end \in Nat /\ l \in Nat
              /\ arrival <= un /\ un <= end /\ un <= l
          BY <4>1, <4>2, <4>3, <4>4
        <5> HIDE DEF arrival, un, end, l
        <5> QED
          BY ONLY <5>1
      <4>6. departure[node] = DepartureTime(tws, node, c, departure[c])
        BY <1>2, <1>3, <3>1 DEF DepartureKnown
      <4>7. PICK service \in Nat : d = service + sv /\ arrival <= service
        BY <1>2, <4>1, <4>5, <4>6, DepartsOnTime
      <4>8. arrival + sv + tr <= us
        <5>1. sv \in Nat /\ arrival \in Nat /\ tr \in Nat /\ us \in Nat /\ d + tr <= us
          BY <1>4, <4>1, <4>4
        <5> HIDE DEF arrival, sv, d, tr, us
        <5> QED
          BY ONLY <4>7, <5>1
      <4> QED
        BY <1>5, <4>1, <4>5, <4>8
    <3>5. OnTime(c)'
      <4>1. successors'[c] = node /\ departure' = departure /\ subroute_tws'[node] = new
        BY <2>1, <2>2, <2>4
      <4> QED
        BY <3>4, <4>1 DEF OnTime, Until
    <3>6. DepartureBounds(c)' /\ WindowBounds(c)'
      <4>1. subroute_tws'[c] = subroute_tws[c] /\ departure' = departure /\ tws' = tws
        BY <1>2, <2>1, <2>2, <2>4
      <4> QED
        BY <3>3, <4>1, SameWindows DEF DepartureBounds, WindowBounds, Until
    <3> QED
      BY <3>2, <3>5, <3>6
  <2>5. ASSUME NEW c \in Customers, c # node, successors[c] # node
        PROVE  /\ OnTime(c)' /\ DepartureBounds(c)' /\ WindowBounds(c)' /\ InTimeFor(c)'
    <3>1. OnTime(c) /\ DepartureBounds(c) /\ WindowBounds(c) /\ InTimeFor(c)
      BY <1>3, <2>5
    <3>2. /\ subroute_tws'[c] = subroute_tws[c]
          /\ subroute_tws'[successors[c]] = subroute_tws[successors[c]]
          /\ departure' = departure /\ tws' = tws /\ successors' = successors
      BY <1>2, <2>1, <2>2, <2>5
    <3> QED
      BY <3>1, <3>2, SameWindows DEF OnTime, DepartureBounds, WindowBounds, InTimeFor, Until
  <2>6. \A c \in Customers :
          /\ OnTime(c)' /\ DepartureBounds(c)' /\ WindowBounds(c)'
          /\ WindowsStale(c)' \/ InTimeFor(c)'
    BY <2>3, <2>4, <2>5
  <2> QED
    BY ONLY <2>6 DEF OnTimeInv
<1> QED
  BY <1>6, <1>7

\* No step makes OnTimeInv false.
LEMMA OnTimeStep ==
  RouteInv /\ ScheduleInv /\ OnTimeInv /\ [Next]_vars => OnTimeInv'
<1> SUFFICES ASSUME RouteInv, ScheduleInv, OnTimeInv, [Next]_vars PROVE OnTimeInv'
  OBVIOUS
<1>0. ASSUME UNCHANGED <<tws, predecessors, successors, departure, subroute_tws>>,
             pc' \in {"departures", "windows"} =>
               pc' = pc /\ node' = node /\ last_visit' = last_visit,
             pc' \in Active => pc \in Active \ {"departures", "windows"} \/ pc' = pc
      PROVE  OnTimeInv'
  <2> SUFFICES ASSUME Workable, pc' \in Active, NEW c \in Customers
               PROVE  /\ OnTime(c)' /\ DepartureBounds(c)' /\ WindowBounds(c)'
                      /\ WindowsStale(c)' \/ InTimeFor(c)'
    BY <1>0, SameModel DEF OnTimeInv
  <2>1. pc \in Active
    BY <1>0
  <2>2. /\ OnTime(c) /\ DepartureBounds(c) /\ WindowBounds(c)
        /\ WindowsStale(c) \/ InTimeFor(c)
    BY <2>1 DEF OnTimeInv
  <2>3. WindowsStale(c) => WindowsStale(c)'
    BY <1>0 DEF WindowsStale, Active
  <2> QED
    BY <1>0, <2>2, <2>3, SameWindows
       DEF OnTime, DepartureBounds, WindowBounds, InTimeFor, Until
<1>1. CASE StartLambda
  <2>1. CASE Workable
    BY <1>1, <2>1, StartLambdaOnTime
  <2>2. CASE ~Workable
    <3>1. tws' = tws
      BY <1>1 DEF StartLambda, model
    <3> QED
      BY <2>2, <3>1, SameModel DEF OnTimeInv
  <2> QED
    BY <2>1, <2>2
<1>2. ASSUME NEW p \in Pairs, SkipSaving(p) PROVE OnTimeInv'
  BY <1>0, <1>2 DEF SkipSaving, model, chains, meta, Active
<1>3. ASSUME NEW p \in Pairs, TakeSaving(p) PROVE OnTimeInv'
  BY <1>0, <1>3 DEF TakeSaving, model, chains, meta, Active
<1>4. CASE WalkBack
  BY <1>0, <1>4 DEF WalkBack, model, chains, meta, Active
<1>5. CASE Reject
  BY <1>0, <1>5 DEF Reject, EndIteration, model, chains, meta, Active
<1>6. CASE Merge
  BY <1>6, MergeOnTime
<1>7. CASE PassOnDeparture
  BY <1>7, PassOnDepartureOnTime
<1>8. CASE PassOnWindows
  <2>1. CASE Workable
    <3>1. pc = "windows"
      BY <1>8 DEF PassOnWindows
    <3> QED
      BY <1>8, <2>1, <3>1, PassOnWindowsOnTime
  <2>2. CASE ~Workable
    <3>1. tws' = tws
      BY <1>8 DEF PassOnWindows, model
    <3> QED
      BY <2>2, <3>1, SameModel DEF OnTimeInv
  <2> QED
    BY <2>1, <2>2
<1>9. CASE PassOnWindowsAborts
  BY <1>0, <1>9 DEF PassOnWindowsAborts, model, chains, meta, Active
<1>10. CASE StartBuild
  BY <1>0, <1>10 DEF StartBuild, model, chains, meta, Active
<1>11. CASE BuildRoute
  BY <1>0, <1>11 DEF BuildRoute, model, chains, meta, Active
<1>12. CASE EndLambda
  BY <1>0, <1>12 DEF EndLambda, model, chains, meta, Active
<1>13. CASE UNCHANGED vars
  BY <1>0, <1>13 DEF vars, model, chains, meta, locals, Active
<1> QED
  BY <1>1, <1>2, <1>3, <1>4, <1>5, <1>6, <1>7, <1>8, <1>9, <1>10, <1>11, <1>12,
     <1>13 DEF Next

-----------------------------------------------------------------------------
(***************************************************************************)
(* The giant tour: which IDs a route adds to it                            *)
(***************************************************************************)
\* A route of the solution: the IDs of its customers between those of the depot.
IdsOf(t) == [k \in 1 .. Len(t) |-> ids[t[k]]]

\* What the models provide.
LEMMA IdsFacts ==
  ASSUME ChainInv
  PROVE  /\ ids \in [Index -> Index] /\ IsInjective(ids)
         /\ ids \in Surjection(Index, Index)
<1>1. ids \in [Index -> Index] /\ IsInjective(ids)
  BY ModelsAssumption DEF ChainInv
<1>2. IsFiniteSet(Index)
  <2>1. 0 \in Int /\ N \in Int
    BY NAssumption
  <2> QED
    BY <2>1, FS_Interval DEF Index
<1>3. ids \in Injection(Index, Index)
  BY <1>1 DEF Injection
<1>4. ids \in Surjection(Index, Index)
  BY <1>2, <1>3, FS_Injection
<1> QED
  BY <1>1, <1>4

\* How a route of the solution is made up.
LEMMA RouteThroughIs ==
  ASSUME ChainInv, NEW t \in Seq(Customers)
  PROVE  /\ RouteThrough(t) = (<<ids[0]>> \o IdsOf(t)) \o <<ids[0]>>
         /\ IdsOf(t) \in Seq(Index) /\ ids[0] \in Index
         /\ RouteThrough(t) \in Seq(Index)
         /\ \A k \in 1 .. Len(t) : Contains(IdsOf(t), ids[t[k]])
<1> DEFINE v == (<<0>> \o t) \o <<0>>
           m == IdsOf(t)
           x == ids[0]
           u == (<<x>> \o m) \o <<x>>
           n == Len(t)
           r == [k \in 1 .. n + 2 |-> ids[v[k]]]
<1>1. ids \in [Index -> Index] /\ 0 \in Index /\ x \in Index
  BY IdsFacts, DepotIsNoCustomer
<1>2. t \in Seq(Index) /\ n \in Nat
  BY LoadFacts
<1>3. m \in Seq(Index) /\ Len(m) = n /\ \A k \in 1 .. n : m[k] = ids[t[k]]
  <2>1. \A k \in 1 .. n : t[k] \in Index
    BY <1>2
  <2>2. \A k \in 1 .. n : ids[t[k]] \in Index
    BY <1>1, <2>1
  <2>3. m \in [1 .. n -> Index] /\ \A k \in 1 .. n : m[k] = ids[t[k]]
    BY <2>2 DEF IdsOf
  <2> HIDE DEF m, n
  <2> QED
    BY <1>2, <2>3
<1>4. \A k \in 1 .. n : Contains(m, ids[t[k]])
  BY <1>3 DEF Contains
<1>5. IsFramed(v, Index, 0, t)
  BY <1>1, <1>2, FramedList
<1> HIDE DEF m, x
<1>6. IsFramed(u, Index, x, m)
  BY <1>1, <1>3, FramedList
<1>7. RouteThrough(t) = r
  <2>1. DOMAIN v = 1 .. n + 2
    <3> HIDE DEF v, n
    <3>1. v \in Seq(Index) /\ Len(v) = n + 2
      BY <1>5 DEF IsFramed, n
    <3> QED
      BY <3>1
  <2>2. RouteThrough(t) = [k \in DOMAIN v |-> ids[v[k]]]
    BY DEF RouteThrough
  <2> HIDE DEF v, n
  <2> QED
    BY <2>1, <2>2
<1> HIDE DEF v, u
<1>8. /\ v \in Seq(Index) /\ Len(v) = n + 2 /\ v[1] = 0 /\ v[n + 2] = 0
      /\ \A k \in 1 .. n : v[k + 1] = t[k]
  BY <1>5 DEF IsFramed
<1>9. /\ u \in Seq(Index) /\ Len(u) = n + 2 /\ u[1] = x /\ u[n + 2] = x
      /\ \A k \in 1 .. n : u[k + 1] = m[k]
  BY <1>3, <1>6 DEF IsFramed
<1> HIDE DEF n
<1>10. r \in Seq(Index) /\ Len(r) = n + 2 /\ \A k \in 1 .. n + 2 : r[k] = ids[v[k]]
  <2>1. n + 2 \in Nat /\ \A k \in 1 .. n + 2 : v[k] \in Index
    BY <1>2, <1>8
  <2>2. \A k \in 1 .. n + 2 : ids[v[k]] \in Index
    BY <1>1, <2>1
  <2>3. r \in [1 .. n + 2 -> Index] /\ \A k \in 1 .. n + 2 : r[k] = ids[v[k]]
    BY <2>2
  <2> HIDE DEF r
  <2> QED
    BY <2>1, <2>3
<1> HIDE DEF r
<1>11. ASSUME NEW k \in 1 .. n + 2 PROVE r[k] = u[k]
  <2>1. CASE k = 1 \/ k = n + 2
    <3>1. v[k] = 0 /\ u[k] = x
      BY <1>8, <1>9, <2>1
    <3> QED
      BY <1>10, <3>1 DEF x
  <2>2. CASE k # 1 /\ k # n + 2
    <3> DEFINE j == k - 1
    <3>1. j \in 1 .. n /\ k = j + 1
      BY <1>2, <2>2
    <3> HIDE DEF j
    <3>2. v[k] = t[j] /\ u[k] = m[j] /\ m[j] = ids[t[j]]
      BY <1>3, <1>8, <1>9, <3>1
    <3> QED
      BY <1>10, <3>2
  <2> QED
    BY <2>1, <2>2
<1>12. r = u
  BY <1>9, <1>10, <1>11, SeqEqual
<1>13. RouteThrough(t) = u /\ RouteThrough(t) \in Seq(Index)
  BY ONLY <1>7, <1>9, <1>12
<1>14. m \in Seq(Index) /\ x \in Index
  BY ONLY <1>1, <1>3
<1> QED
  BY ONLY <1>4, <1>13, <1>14, Zenon DEF u, m, x, n

\* What a route adds to the giant tour: the IDs of its customers, and that of the
\* depot twice, but for 0.
LEMMA AddedToTour ==
  ASSUME ChainInv, NEW t \in Seq(Customers),
         NEW w, w = Without(0, RouteThrough(t))
  PROVE  /\ w \in Seq(Customers)
         /\ \A k \in 1 .. Len(t) : ids[t[k]] # 0 => Contains(w, ids[t[k]])
         /\ ids[0] # 0 => Twice(w, ids[0])
         /\ IdsAreIndices => w = t
<1> DEFINE e == <<ids[0]>>
           m == IdsOf(t)
           a == Without(0, e)
           b == Without(0, m)
<1>1. /\ RouteThrough(t) = (e \o m) \o e
      /\ m \in Seq(Index) /\ ids[0] \in Index /\ e \in Seq(Index)
      /\ \A k \in 1 .. Len(t) : Contains(m, ids[t[k]])
  <2>1. /\ RouteThrough(t) = (e \o m) \o e
        /\ m \in Seq(Index) /\ ids[0] \in Index
        /\ \A k \in 1 .. Len(t) : Contains(m, ids[t[k]])
    BY RouteThroughIs, Zenon
  <2>2. e \in Seq(Index)
    BY <2>1
  <2> QED
    BY <2>1, <2>2
<1>2. Index \ {0} = Customers /\ 0 \notin Customers
  BY DepotIsNoCustomer
<1>3. a \in Seq(Customers) /\ b \in Seq(Customers)
  <2>1. a \in Seq(Index \ {0}) /\ b \in Seq(Index \ {0})
    BY <1>1, WithoutFacts
  <2> QED
    BY <1>2, <2>1
<1>4. /\ ids[0] = 0 => a = <<>>
      /\ ids[0] # 0 => a = e
  BY <1>1, WithoutOne
<1> HIDE DEF m, e
<1>5. w = (a \o b) \o a
  <2>0. e \in Seq(Index) /\ m \in Seq(Index)
    BY ONLY <1>1
  <2>1. e \o m \in Seq(Index)
    BY ONLY <2>0, ConcatElements
  <2>2. Without(0, (e \o m) \o e) = Without(0, e \o m) \o a
    <3> DEFINE c == e \o m
    <3>1. c \in Seq(Index) /\ e \in Seq(Index)
      BY ONLY <2>0, <2>1
    <3> HIDE DEF c
    <3>2. Without(0, c \o e) = Without(0, c) \o Without(0, e)
      BY ONLY <3>1, WithoutConcat
    <3> QED
      BY <3>2 DEF c
  <2>3. Without(0, e \o m) = a \o b
    BY ONLY <2>0, WithoutConcat
  <2> QED
    BY <1>1, <2>2, <2>3
<1> HIDE DEF a, b
<1>6. a \o b \in Seq(Customers) /\ w \in Seq(Customers)
  <2>1. a \o b \in Seq(Customers)
    BY ONLY <1>3, ConcatElements
  <2> QED
    BY ONLY <1>3, <1>5, <2>1, ConcatElements
<1>7. ASSUME NEW k \in 1 .. Len(t), ids[t[k]] # 0
      PROVE  Contains(w, ids[t[k]])
  <2> DEFINE y == ids[t[k]]
  <2>1. Contains(m, y)
    BY <1>1
  <2> HIDE DEF y
  <2>2. PICK p \in 1 .. Len(m) : m[p] = y
    BY <2>1 DEF Contains
  <2>3. y # 0
    BY <1>7 DEF y
  <2>4. \E j \in 1 .. Len(b) : b[j] = y
    <3>1. m \in Seq(Index) /\ m[p] # 0
      BY <1>1, <2>2, <2>3
    <3>2. \E j \in 1 .. Len(Without(0, m)) : Without(0, m)[j] = m[p]
      BY ONLY <3>1, p \in 1 .. Len(m), WithoutKeeps
    <3> QED
      BY <2>2, <3>2 DEF b
  <2>5. Contains(b, y)
    BY <2>4 DEF Contains
  <2>6. Contains(a \o b, y)
    BY <1>3, <2>5, ContainsConcat
  <2>7. Contains((a \o b) \o a, y)
    BY <1>3, <1>6, <2>6, ContainsConcat
  <2> QED
    BY <1>5, <2>7 DEF y
<1>8. ASSUME ids[0] # 0 PROVE Twice(w, ids[0])
  <2> DEFINE x == ids[0]
  <2>1. a = e
    BY <1>4, <1>8
  <2>2. Len(e) = 1 /\ e[1] = x
    BY DEF e
  <2>3. Contains(a, x)
    BY <2>1, <2>2 DEF Contains
  <2> HIDE DEF x
  <2>4. Contains(a \o b, x)
    BY <1>3, <2>3, ContainsConcat
  <2>5. Twice((a \o b) \o a, x)
    BY <1>3, <1>6, <2>3, <2>4, TwiceConcat
  <2> QED
    BY <1>5, <2>5 DEF x
<1>9. ASSUME IdsAreIndices PROVE w = t
  <2>1. \A n \in Index : ids[n] = n
    BY <1>9 DEF IdsAreIndices
  <2>2. ids[0] = 0 /\ \A k \in 1 .. Len(t) : ids[t[k]] = t[k]
    <3>1. 0 \in Index /\ \A k \in 1 .. Len(t) : t[k] \in Index
      BY DepotIsNoCustomer
    <3> QED
      BY <2>1, <3>1
  <2>3. m = t
    <3>1. Len(t) \in Nat /\ t = [k \in 1 .. Len(t) |-> t[k]]
      OBVIOUS
    <3>2. m = [k \in 1 .. Len(t) |-> t[k]]
      BY <2>2 DEF m, IdsOf
    <3> QED
      BY <3>1, <3>2
  <2>4. b = t
    BY <1>2, <2>3, WithoutNone DEF b
  <2>5. a = <<>>
    BY <1>4, <2>2
  <2>6. (<<>> \o t) \o <<>> = t
    BY ConcatEmptySeq
  <2> QED
    BY <1>5, <2>4, <2>5, <2>6
<1> QED
  BY <1>6, <1>7, <1>8, <1>9

-----------------------------------------------------------------------------
(***************************************************************************)
(* The giant tour under construction                                       *)
(***************************************************************************)
\* The chains whose first customer the construction loop has passed
Built == {t \in Chains : t[1] < idx}

SolutionInv ==
  /\ pc \in {"scan", "walk_back", "departures", "windows"} => idx = 1 /\ sol = <<>>
  /\ pc = "build" =>
       /\ sol \in Seq(Seq(Index))
       /\ \A k \in 1 .. Len(sol) : \E t \in Chains : sol[k] = RouteThrough(t)

\* Every ID but 0 of a built chain is in the tour, that of the depot twice; and
\* with indices as IDs nothing else is.
TourInv ==
  pc = "build" =>
    /\ GTour \in Seq(Customers)
    /\ \A t \in Built : \A k \in 1 .. Len(t) :
         ids[t[k]] # 0 => Contains(GTour, ids[t[k]])
    /\ \A t \in Built : ids[0] # 0 => Twice(GTour, ids[0])
    /\ IdsAreIndices =>
         /\ IsInjective(GTour)
         /\ \A x : Contains(GTour, x) => \E t \in Built : IsOn(x, t)

\* The loop comes to the first customer of a route: the route is appended.
LEMMA BuildRouteStep ==
  ASSUME RouteInv, SolutionInv, TourInv, BuildRoute
  PROVE  SolutionInv' /\ TourInv'
<1>1. /\ pc = "build" /\ idx \in Customers /\ idx' = idx + 1 /\ pc' = "build"
      /\ idx \in Int
      /\ UNCHANGED <<ids, predecessors, successors>>
      /\ Chains' = Chains
  <2>1. /\ pc = "build" /\ idx <= N /\ idx' = idx + 1 /\ pc' = pc
        /\ UNCHANGED <<ids, predecessors, successors>>
    BY DEF BuildRoute, model, chains
  <2>2. idx \in 1 .. N + 1 /\ N \in Nat
    BY NAssumption DEF RouteInv, ChainInv
  <2> QED
    BY <2>1, <2>2 DEF Customers, Chains
<1>2. /\ ChainInv /\ sol \in Seq(Seq(Index))
      /\ \A k \in 1 .. Len(sol) : \E t \in Chains : sol[k] = RouteThrough(t)
      /\ GTour \in Seq(Customers)
      /\ \A t \in Built : \A k \in 1 .. Len(t) :
           ids[t[k]] # 0 => Contains(GTour, ids[t[k]])
      /\ \A t \in Built : ids[0] # 0 => Twice(GTour, ids[0])
      /\ IdsAreIndices => IsInjective(GTour)
      /\ IdsAreIndices => \A x : Contains(GTour, x) => \E t \in Built : IsOn(x, t)
  BY <1>1 DEF SolutionInv, TourInv, RouteInv
<1>3. /\ \A t : RouteThrough(t)' = RouteThrough(t)
      /\ IdsAreIndices' <=> IdsAreIndices
      /\ ids' = ids
  BY <1>1 DEF RouteThrough, IdsAreIndices
<1>4. \A t \in Chains : t[1] \in Customers /\ t[1] \in Int
  BY <1>2, RouteParts DEF Customers
<1>5. \A t \in Chains : t \in Built' <=> t \in Built \/ t[1] = idx
  BY <1>1, <1>4 DEF Built
<1>6. Built' \subseteq Chains
  BY <1>1 DEF Built
<1>7. CASE predecessors[idx] # 0
  <2>1. sol' = sol
    BY <1>7 DEF BuildRoute
  <2>2. \A t \in Chains : t[1] # idx
    BY <1>2, <1>7, RouteParts
  <2>3. Built' = Built
    BY <1>5, <1>6, <2>2 DEF Built
  <2>4. GTour' = GTour
    BY <2>1 DEF GTour
  <2>5. SolutionInv'
    BY <1>1, <1>2, <1>3, <2>1 DEF SolutionInv
  <2>6. TourInv'
    BY <1>1, <1>2, <1>3, <2>3, <2>4 DEF TourInv
  <2> QED
    BY <2>5, <2>6
<1>8. CASE predecessors[idx] = 0
  <2> DEFINE t == ChainFrom(idx)
             r == RouteThrough(t)
             w == Without(0, r)
  <2>1. t \in Chains /\ t[1] = idx
    <3>1. Linked(successors, predecessors, N) /\ idx \in 1 .. N
      BY <1>1, <1>2 DEF ChainInv, Customers
    <3>2. /\ N \in Nat /\ successors \in [1 .. N -> 0 .. N] /\ NoCycle(successors, N)
      BY <3>1 DEF Linked
    <3>3. ChainAlong(successors, N, idx)[1] = idx
      BY <3>1, <3>2, ChainAlongWalks
    <3>4. ChainAlong(successors, N, idx) \in ChainsOf(successors, predecessors, N)
      BY <1>8, <3>1 DEF ChainsOf
    <3> QED
      BY <3>3, <3>4 DEF ChainFrom, Chains
  <2>2. sol' = Append(sol, r)
    BY <1>8 DEF BuildRoute
  <2> HIDE DEF t
  <2>3. t \in Seq(Customers)
    BY <1>2, <2>1, RouteParts
  <2>4. r \in Seq(Index)
    BY <1>2, <2>3, RouteThroughIs
  <2>5. /\ w \in Seq(Customers)
        /\ \A k \in 1 .. Len(t) : ids[t[k]] # 0 => Contains(w, ids[t[k]])
        /\ ids[0] # 0 => Twice(w, ids[0])
        /\ IdsAreIndices => w = t
    BY <1>2, <2>3, AddedToTour
  <2>6. SolutionInv'
    <3>1. sol' \in Seq(Seq(Index)) /\ Len(sol) \in Nat /\ Len(sol') = Len(sol) + 1
          /\ sol'[Len(sol) + 1] = r /\ \A k \in 1 .. Len(sol) : sol'[k] = sol[k]
      <4> HIDE DEF r
      <4> QED
        BY <1>2, <2>2, <2>4
    <3>2. ASSUME NEW k \in 1 .. Len(sol') PROVE \E u \in Chains : sol'[k] = RouteThrough(u)
      <4>1. CASE k = Len(sol) + 1
        BY <2>1, <3>1, <4>1
      <4>2. CASE k # Len(sol) + 1
        <5>1. k \in 1 .. Len(sol)
          BY <3>1, <4>2
        <5> QED
          BY <1>2, <3>1, <5>1
      <4> QED
        BY <4>1, <4>2
    <3> QED
      BY <1>1, <1>3, <3>1, <3>2 DEF SolutionInv
  <2>7. GTour' = GTour \o w
    <3>1. FlattenSeq(sol') = FlattenSeq(sol) \o r
      <4> HIDE DEF r
      <4> QED
        BY <1>2, <2>2, <2>4, FlattenAppend
    <3>2. FlattenSeq(sol) \in Seq(Index)
      BY <1>2, FlattenType
    <3> DEFINE f == FlattenSeq(sol)
    <3> HIDE DEF f, r
    <3>3. Without(0, f \o r) = Without(0, f) \o Without(0, r)
      <4>1. f \in Seq(Index) /\ r \in Seq(Index)
        BY <2>4, <3>2 DEF f
      <4> QED
        BY ONLY <4>1, WithoutConcat
    <3> QED
      BY <3>1, <3>3 DEF f, GTour
  <2> HIDE DEF w, r
  <2>8. GTour' \in Seq(Customers)
    <3> DEFINE g == GTour
    <3>1. g \in Seq(Customers) /\ w \in Seq(Customers)
      BY <1>2, <2>5
    <3> HIDE DEF g
    <3>2. g \o w \in Seq(Customers)
      BY ONLY <3>1, ConcatElements
    <3> QED
      BY <2>7, <3>2 DEF g
  <2>9. \A x : Contains(GTour', x) <=> Contains(GTour, x) \/ Contains(w, x)
    <3> DEFINE g == GTour
    <3>1. g \in Seq(Customers) /\ w \in Seq(Customers)
      BY <1>2, <2>5
    <3> HIDE DEF g
    <3>2. \A x : Contains(g \o w, x) <=> Contains(g, x) \/ Contains(w, x)
      BY ONLY <3>1, ContainsConcat
    <3> QED
      BY <2>7, <3>2 DEF g
  <2>10. ASSUME NEW u \in Built', NEW k \in 1 .. Len(u), ids[u[k]] # 0
         PROVE  Contains(GTour', ids[u[k]])
    <3>1. u \in Built \/ u[1] = idx
      BY <1>5, <1>6
    <3>2. CASE u \in Built
      BY <1>2, <2>9, <2>10, <3>2
    <3>3. CASE u[1] = idx
      <4>1. u = t
        <5>1. u \in Chains /\ 1 \in 1 .. Len(u) /\ 1 \in 1 .. Len(t)
          BY <1>2, <1>6, <2>1, RouteParts
        <5> QED
          BY <1>2, <2>1, <3>3, <5>1, RoutesDisjoint
      <4> QED
        BY <2>5, <2>9, <2>10, <4>1
    <3> QED
      BY <3>1, <3>2, <3>3
  <2>11. ASSUME ids[0] # 0 PROVE Twice(GTour', ids[0])
    <3> DEFINE g == GTour
               x == ids[0]
    <3>1. g \in Seq(Customers) /\ w \in Seq(Customers) /\ Twice(w, x)
      BY <1>2, <2>5, <2>11
    <3> HIDE DEF g, x
    <3>2. Twice(g \o w, x)
      BY ONLY <3>1, TwiceConcat
    <3> QED
      BY <2>7, <3>2 DEF g, x
  <2>12. ASSUME IdsAreIndices
         PROVE  /\ IsInjective(GTour')
                /\ \A x : Contains(GTour', x) => \E u \in Built' : IsOn(x, u)
    <3>1. w = t
      BY <2>5, <2>12
    <3>2. \A x : Contains(t, x) <=> IsOn(x, t)
      BY DEF Contains, IsOn
    <3>3. t \in Built'
      BY <1>5, <2>1
    <3>4. \A x : Contains(GTour', x) => \E u \in Built' : IsOn(x, u)
      <4>1. Built \subseteq Built'
        <5>1. Built \subseteq Chains
          BY DEF Built
        <5> QED
          BY <1>5, <5>1
      <4> QED
        BY <1>2, <2>9, <2>12, <3>1, <3>2, <3>3, <4>1
    <3>5. IsInjective(t)
      <4>1. DOMAIN t = 1 .. Len(t)
        BY <2>3
      <4>2. \A a, b \in 1 .. Len(t) : t[a] = t[b] => a = b
        BY <1>2, <2>1, RoutesDisjoint
      <4> QED
        BY <4>1, <4>2 DEF IsInjective
    <3>6. \A x : ~(Contains(GTour, x) /\ Contains(t, x))
      <4> SUFFICES ASSUME NEW x, Contains(GTour, x), Contains(t, x) PROVE FALSE
        OBVIOUS
      <4>1. PICK u \in Built : IsOn(x, u)
        BY <1>2, <2>12
      <4>2. PICK i \in 1 .. Len(u) : u[i] = x
        BY <4>1 DEF IsOn
      <4>3. PICK j \in 1 .. Len(t) : t[j] = x
        BY DEF Contains
      <4>4. u \in Chains /\ u[1] < idx
        BY DEF Built
      <4>5. u = t
        BY <1>2, <2>1, <4>2, <4>3, <4>4, RoutesDisjoint
      <4> QED
        BY <1>1, <2>1, <4>4, <4>5
    <3>7. IsInjective(GTour \o t)
      <4> DEFINE g == GTour
      <4>1. /\ g \in Seq(Customers) /\ t \in Seq(Customers)
            /\ IsInjective(g) /\ IsInjective(t)
            /\ \A x : ~(Contains(g, x) /\ Contains(t, x))
        BY <1>2, <2>3, <2>12, <3>5, <3>6
      <4> HIDE DEF g
      <4>2. IsInjective(g \o t)
        BY ONLY <4>1, InjectiveConcat
      <4> QED
        BY <4>2 DEF g
    <3> QED
      BY <2>7, <3>1, <3>4, <3>7
  <2>13. TourInv'
    BY <1>3, <2>8, <2>10, <2>11, <2>12 DEF TourInv
  <2> QED
    BY <2>6, <2>13
<1> QED
  BY <1>7, <1>8

\* When the loop has passed the last customer, the tour holds every customer; it
\* is too long when the depot is among them, and has the right length when IDs
\* are indices.
LEMMA TourComplete ==
  ASSUME RouteInv, TourInv, pc = "build", idx > N
  PROVE  /\ GTour \in Seq(Customers) /\ Len(GTour) \in Nat
         /\ ToSet(GTour) = Customers
         /\ ids[0] # 0 => Len(GTour) # N
         /\ IdsAreIndices => Len(GTour) = N
<1> DEFINE g == GTour
<1>1. /\ ChainInv /\ g \in Seq(Customers)
      /\ \A t \in Built : \A k \in 1 .. Len(t) :
           ids[t[k]] # 0 => Contains(g, ids[t[k]])
      /\ \A t \in Built : ids[0] # 0 => Twice(g, ids[0])
      /\ IdsAreIndices => IsInjective(g)
  BY DEF TourInv, RouteInv
<1>2. N \in Nat \ {0} /\ 1 \in Customers
  BY NAssumption DEF Customers
<1>3. Built = Chains
  <2>1. idx \in Int /\ N \in Int
    BY <1>1, <1>2 DEF ChainInv
  <2>2. ASSUME NEW t \in Chains PROVE t[1] < idx
    <3>1. t[1] \in 1 .. N
      BY <1>1, RouteParts DEF Customers
    <3> QED
      BY <2>1, <3>1
  <2> QED
    BY <2>2 DEF Built
<1>4. ids[0] # 0 => Twice(g, ids[0])
  <2>1. \E t \in Chains : TRUE
    BY <1>1, <1>2, RouteOf
  <2> QED
    BY <1>1, <1>3, <2>1
<1>5. ASSUME NEW c \in Customers PROVE Contains(g, c)
  <2>1. c \in Index /\ c # 0
    BY DepotIsNoCustomer
  <2>2. PICK x \in Index : ids[x] = c
    BY <1>1, <2>1, IdsFacts DEF Surjection
  <2>3. CASE x = 0
    <3>1. Twice(g, c)
      BY <1>4, <2>1, <2>2, <2>3
    <3> QED
      BY <3>1 DEF Twice, Contains
  <2>4. CASE x # 0
    <3>1. x \in Customers
      BY <2>4, DepotIsNoCustomer
    <3>2. PICK t \in Chains : IsOn(x, t)
      BY <1>1, <3>1, RouteOf
    <3>3. PICK k \in 1 .. Len(t) : t[k] = x
      BY <3>2 DEF IsOn
    <3> QED
      BY <1>1, <1>3, <2>1, <2>2, <3>3
  <2> QED
    BY <2>3, <2>4
<1> HIDE DEF g
<1> DEFINE n == Len(g)
<1>6. n \in Nat /\ DOMAIN g = 1 .. n /\ g \in [1 .. n -> Customers]
  BY <1>1
<1>7. \A c \in Customers : \E k \in 1 .. n : g[k] = c
  BY <1>5 DEF Contains
<1> HIDE DEF n
<1>8. g \in Surjection(1 .. n, Customers)
  BY <1>6, <1>7 DEF Surjection
<1>9. /\ IsFiniteSet(1 .. n) /\ Cardinality(1 .. n) = n
      /\ IsFiniteSet(Customers) /\ Cardinality(Customers) = N
  <2>1. 1 \in Int /\ n \in Int /\ N \in Int
    BY <1>2, <1>6
  <2>2. Cardinality(1 .. n) = n /\ Cardinality(1 .. N) = N
    BY <1>2, <1>6, <2>1, FS_Interval
  <2>3. IsFiniteSet(1 .. n) /\ IsFiniteSet(1 .. N)
    BY <2>1, FS_Interval
  <2> QED
    BY <2>2, <2>3 DEF Customers
<1>10. N = n <=> g \in Injection(1 .. n, Customers)
  <2>1. Cardinality(Customers) = Cardinality(1 .. n) <=> g \in Injection(1 .. n, Customers)
    BY <1>8, <1>9, FS_Surjection
  <2> QED
    BY <1>9, <2>1
<1>11. ToSet(g) = Customers
  BY <1>6, <1>7 DEF ToSet
<1>12. ids[0] # 0 => n # N
  <2> SUFFICES ASSUME ids[0] # 0, n = N PROVE FALSE
    OBVIOUS
  <2>1. IsInjective(g)
    BY <1>10 DEF Injection
  <2>2. PICK i \in 1 .. n, j \in 1 .. n : i # j /\ g[i] = ids[0] /\ g[j] = ids[0]
    BY <1>4 DEF Twice, n
  <2> QED
    BY <1>6, <2>1, <2>2 DEF IsInjective
<1>13. IdsAreIndices => n = N
  BY <1>1, <1>6, <1>10 DEF Injection
<1> QED
  BY <1>1, <1>6, <1>11, <1>12, <1>13 DEF n, g

\* No step makes SolutionInv or TourInv false.
LEMMA TourStep ==
  RouteInv /\ SolutionInv /\ TourInv /\ [Next]_vars => SolutionInv' /\ TourInv'
<1> SUFFICES ASSUME RouteInv, SolutionInv, TourInv, [Next]_vars
             PROVE  SolutionInv' /\ TourInv'
  OBVIOUS
<1> DEFINE Merges == {"scan", "walk_back", "departures", "windows"}
<1>0. ASSUME pc' # "build", pc' \in Merges => pc \in Merges, UNCHANGED result
      PROVE  SolutionInv' /\ TourInv'
  BY <1>0 DEF SolutionInv, TourInv, result
<1>1. CASE StartLambda
  BY <1>1 DEF StartLambda, SolutionInv, TourInv
<1>2. ASSUME NEW p \in Pairs, SkipSaving(p) PROVE SolutionInv' /\ TourInv'
  BY <1>0, <1>2 DEF SkipSaving
<1>3. ASSUME NEW p \in Pairs, TakeSaving(p) PROVE SolutionInv' /\ TourInv'
  BY <1>0, <1>3 DEF TakeSaving
<1>4. CASE WalkBack
  BY <1>0, <1>4 DEF WalkBack
<1>5. CASE Reject
  BY <1>0, <1>5 DEF Reject, EndIteration
<1>6. CASE Merge
  BY <1>0, <1>6 DEF Merge
<1>7. CASE PassOnDeparture
  BY <1>0, <1>7 DEF PassOnDeparture
<1>8. CASE PassOnWindows
  BY <1>0, <1>8 DEF PassOnWindows, EndIteration
<1>9. CASE PassOnWindowsAborts
  BY <1>0, <1>9 DEF PassOnWindowsAborts
<1>10. CASE StartBuild
  <2>1. /\ idx = 1 /\ sol = <<>> /\ idx' = 1 /\ sol' = <<>> /\ pc' = "build"
        /\ UNCHANGED chains
    BY <1>10 DEF StartBuild, SolutionInv, result
  <2>2. sol' \in Seq(Seq(Index)) /\ Len(sol') = 0
    BY <2>1
  <2>3. SolutionInv'
    BY <2>1, <2>2 DEF SolutionInv
  <2>4. GTour' = <<>>
    <3>1. FlattenSeq(sol') = <<>>
      BY <2>1, <2>2, FlattenSeqIsLast
    <3>2. <<>> \in Seq(Index)
      OBVIOUS
    <3>3. Without(0, <<>>) = <<>>
      BY <3>2, WithoutFacts
    <3> QED
      BY <3>1, <3>3 DEF GTour
  <2>5. Built' = {}
    <3>1. Chains' = Chains /\ ChainInv
      BY <2>1 DEF Chains, chains, RouteInv
    <3>2. \A t \in Chains : t[1] \in 1 .. N
      BY <3>1, RouteParts DEF Customers
    <3>3. \A t \in Chains : ~(t[1] < 1)
      BY <3>2, NAssumption
    <3> QED
      BY <2>1, <3>1, <3>3 DEF Built
  <2>6. TourInv'
    <3>1. <<>> \in Seq(Customers) /\ Len(<<>>) = 0 /\ DOMAIN <<>> = {}
      OBVIOUS
    <3>2. IsInjective(<<>>) /\ \A x : ~Contains(<<>>, x)
      BY <3>1 DEF IsInjective, Contains
    <3> QED
      BY <2>4, <2>5, <3>1, <3>2 DEF TourInv
  <2> QED
    BY <2>3, <2>6
<1>11. CASE BuildRoute
  BY <1>11, BuildRouteStep
<1>12. CASE EndLambda
  <2>1. pc' \notin Merges /\ pc' # "build"
    BY <1>12 DEF EndLambda
  <2> QED
    BY <2>1 DEF SolutionInv, TourInv
<1>13. CASE UNCHANGED vars
  <2>1. UNCHANGED <<pc, idx, sol, ids, predecessors, successors>>
    BY <1>13 DEF vars, model, chains, result
  <2>2. Chains' = Chains /\ Built' = Built /\ GTour' = GTour
        /\ (IdsAreIndices' <=> IdsAreIndices)
    BY <2>1 DEF Chains, Built, GTour, IdsAreIndices
  <2>3. \A t : RouteThrough(t)' = RouteThrough(t)
    BY <2>1 DEF RouteThrough
  <2>4. SolutionInv'
    BY <2>1, <2>2, <2>3 DEF SolutionInv
  <2>5. TourInv'
    BY <2>1, <2>2 DEF TourInv
  <2> QED
    BY <2>4, <2>5
<1> QED
  BY <1>1, <1>2, <1>3, <1>4, <1>5, <1>6, <1>7, <1>8, <1>9, <1>10, <1>11, <1>12,
     <1>13 DEF Next

\* Genomes are made of giant tours only.
GenomeInv == genomes \in Seq(Seq(Customers)) /\ ToursOfCustomers

\* No step makes GenomeInv false.
LEMMA GenomeStep ==
  RouteInv /\ TourInv /\ GenomeInv /\ [Next]_vars => GenomeInv'
<1> SUFFICES ASSUME RouteInv, TourInv, GenomeInv, [Next]_vars PROVE GenomeInv'
  OBVIOUS
<1>0. ASSUME pc' # "done" \/ pc' = pc, UNCHANGED <<genomes, ids>> PROVE GenomeInv'
  BY <1>0 DEF GenomeInv, ToursOfCustomers
<1>1. CASE EndLambda
  <2>1. pc = "build" /\ idx > N /\ UNCHANGED <<ids, sol>>
    BY <1>1 DEF EndLambda, model
  <2>2. /\ GTour \in Seq(Customers) /\ ToSet(GTour) = Customers
        /\ ids[0] # 0 => Len(GTour) # N
    BY <2>1, TourComplete
  <2>3. CASE pc' = "aborted"
    <3>1. UNCHANGED genomes
      BY <1>1, <2>3 DEF EndLambda
    <3> QED
      BY <1>0, <2>1, <2>3, <3>1
  <2>4. CASE pc' # "aborted"
    <3>1. Len(GTour) = N /\ genomes' = Kept
      BY <1>1, <2>4 DEF EndLambda
    <3>2. ids[0] = 0
      BY <2>2, <3>1
    <3>3. \/ genomes' = genomes
          \/ genomes' = Append(genomes, GTour)
      BY <3>1 DEF Kept
    <3> DEFINE g == GTour
    <3>4. CASE genomes' = genomes
      BY <2>1, <3>2, <3>4 DEF GenomeInv, ToursOfCustomers
    <3>5. CASE genomes' = Append(genomes, g)
      <4>1. /\ genomes \in Seq(Seq(Customers)) /\ g \in Seq(Customers)
            /\ \A k \in DOMAIN genomes :
                 Len(genomes[k]) = N /\ ToSet(genomes[k]) = Customers
        BY <2>2 DEF GenomeInv, ToursOfCustomers
      <4> HIDE DEF g
      <4>2. /\ genomes' \in Seq(Seq(Customers)) /\ Len(genomes) \in Nat
            /\ DOMAIN genomes = 1 .. Len(genomes)
            /\ DOMAIN genomes' = 1 .. Len(genomes) + 1
            /\ genomes'[Len(genomes) + 1] = g
            /\ \A k \in 1 .. Len(genomes) : genomes'[k] = genomes[k]
        BY <3>5, <4>1
      <4>3. Len(g) = N /\ ToSet(g) = Customers
        BY <2>2, <3>1 DEF g
      <4>4. ASSUME NEW k \in DOMAIN genomes'
            PROVE  Len(genomes'[k]) = N /\ ToSet(genomes'[k]) = Customers
        <5>1. k \in DOMAIN genomes \/ k = Len(genomes) + 1
          BY <4>2
        <5> QED
          BY <4>1, <4>2, <4>3, <5>1
      <4> QED
        BY <2>1, <3>2, <4>2, <4>4 DEF GenomeInv, ToursOfCustomers
    <3> QED
      BY <3>3, <3>4, <3>5
  <2> QED
    BY <2>3, <2>4
<1>2. CASE StartLambda
  BY <1>0, <1>2 DEF StartLambda, model
<1>3. ASSUME NEW p \in Pairs, SkipSaving(p) \/ TakeSaving(p) PROVE GenomeInv'
  BY <1>0, <1>3 DEF SkipSaving, TakeSaving, model, result
<1>4. CASE WalkBack \/ Reject \/ Merge
  BY <1>0, <1>4 DEF WalkBack, Reject, Merge, EndIteration, model, result
<1>5. CASE PassOnDeparture \/ PassOnWindows \/ PassOnWindowsAborts
  BY <1>0, <1>5 DEF PassOnDeparture, PassOnWindows, PassOnWindowsAborts,
                    EndIteration, model, result
<1>6. CASE StartBuild
  BY <1>0, <1>6 DEF StartBuild, model, result
<1>7. CASE BuildRoute
  BY <1>0, <1>7 DEF BuildRoute, model
<1>8. CASE UNCHANGED vars
  BY <1>0, <1>8 DEF vars, model, result
<1> QED
  BY <1>1, <1>2, <1>3, <1>4, <1>5, <1>6, <1>7, <1>8 DEF Next

\* Before the first lambda there is nothing.
LEMMA InitTours == Init => SolutionInv /\ TourInv /\ GenomeInv
<1> SUFFICES ASSUME Init PROVE SolutionInv /\ TourInv /\ GenomeInv
  OBVIOUS
<1>1. pc = "start" /\ genomes = <<>>
  BY DEF Init
<1>2. genomes \in Seq(Seq(Customers)) /\ DOMAIN genomes = {}
  BY <1>1
<1> QED
  BY <1>1, <1>2 DEF SolutionInv, TourInv, GenomeInv, ToursOfCustomers

\* Every giant tour kept is one of all customers, and a depot whose ID is not its
\* index never gets as far as the end.
THEOREM ToursSound == Spec => []ToursOfCustomers
<1>1. GenomeInv => ToursOfCustomers
  BY DEF GenomeInv
<1> QED
  BY <1>1, InitTours, TourStep, GenomeStep, RoutesSound, PTL DEF Spec

-----------------------------------------------------------------------------
(***************************************************************************)
(* The solution is feasible                                                *)
(***************************************************************************)
\* The walk of vrptw_solution_is_feasible along a route r, where h[k] is the
\* departure from its position k.
IsDepartures(h, r) ==
  /\ h[0] = Earliest(tws[0])
  /\ \A k \in 1 .. Len(r) :
       h[k] = DepartureTime(tws, r[k], r[IF k - 1 = 0 THEN 1 ELSE k - 1], h[k - 1])

\* There is only one such walk.
LEMMA DeparturesAre ==
  ASSUME NEW r, Len(r) \in Nat, NEW h, IsDepartures(h, r)
  PROVE  \A k \in 0 .. Len(r) : Departures(tws, r)[k] = h[k]
<1> DEFINE n == Len(r)
           At(k) == r[IF k = 0 THEN 1 ELSE k]
           Def(g) == g = [k \in 0 .. n |->
                            IF k = 0 THEN Earliest(tws[0])
                            ELSE DepartureTime(tws, At(k), At(k - 1), g[k - 1])]
           f == [k \in 0 .. n |-> h[k]]
           g == Departures(tws, r)
<1>1. n \in Nat
  OBVIOUS
<1>2. Def(f)
  <2>1. ASSUME NEW k \in 0 .. n
        PROVE  f[k] = IF k = 0 THEN Earliest(tws[0])
                      ELSE DepartureTime(tws, At(k), At(k - 1), f[k - 1])
    <3>1. CASE k = 0
      BY <3>1 DEF IsDepartures
    <3>2. CASE k # 0
      <4>1. k \in 1 .. n /\ k - 1 \in 0 .. n
        BY <1>1, <3>2
      <4>2. h[k] = DepartureTime(tws, r[k], r[IF k - 1 = 0 THEN 1 ELSE k - 1], h[k - 1])
        BY <4>1 DEF IsDepartures
      <4>3. f[k] = h[k] /\ f[k - 1] = h[k - 1]
        BY <4>1
      <4>4. At(k) = r[k] /\ At(k - 1) = r[IF k - 1 = 0 THEN 1 ELSE k - 1]
        BY <3>2
      <4> HIDE DEF f, At
      <4> QED
        BY <3>2, <4>2, <4>3, <4>4
    <3> QED
      BY <3>1, <3>2
  <2>2. f = [k \in 0 .. n |->
               IF k = 0 THEN Earliest(tws[0])
               ELSE DepartureTime(tws, At(k), At(k - 1), f[k - 1])]
    <3> HIDE DEF At
    <3> QED
      BY <2>1
  <2> QED
    BY <2>2
<1> HIDE DEF f
<1>3. Def(g)
  <2>1. g = CHOOSE d : Def(d)
    BY DEF Departures
  <2> HIDE DEF g, Def
  <2> QED
    BY <1>2, <2>1
<1>4. f[0] = g[0] /\ \A k \in 1 .. n : f[k - 1] = g[k - 1] => f[k] = g[k]
  <2> HIDE DEF g
  <2>1. 0 \in 0 .. n /\ \A k \in 1 .. n : k \in 0 .. n /\ k # 0
    BY <1>1
  <2> HIDE DEF At, n
  <2> QED
    BY <1>2, <1>3, <2>1
<1>5. \A k \in 0 .. n : f[k] = g[k]
  <2> HIDE DEF g, n
  <2> QED
    BY ONLY <1>1, <1>4, SameLoops
<1> QED
  BY <1>5 DEF f

\* A vehicle that leaves a customer of the schedule is in time for the next stop.
LEMMA NextInTime ==
  ASSUME ChainInv, ScheduleInv, OnTimeInv, Workable, pc = "build",
         NEW c \in Customers, NEW s \in Index, s = successors[c]
  PROVE  Plus(departure[c], Travel(c, s)) <= Latest(tws[s])
<1> DEFINE d == departure[c]
           tr == Travel(c, s)
           u == Until(s)
           l == Latest(tws[s])
<1>1. OnTime(c) /\ DepartureBounds(c)
  BY DEF OnTimeInv, Active
<1>2. u \in Nat /\ u <= l /\ u < SIZE_NONE
  BY DeadlineFacts DEF Active
<1>3. d \in Nat /\ d + tr <= u
  BY <1>1 DEF OnTime, DepartureBounds
<1>4. tr \in Nat /\ l \in Nat /\ SIZE_NONE \in Nat
  <2>1. c \in Index
    BY DepotIsNoCustomer
  <2> QED
    BY <2>1, TravelNat, NodeFacts
<1> HIDE DEF d, tr, u, l
<1>5. d + tr <= SIZE_NONE /\ d + tr <= l
  BY <1>2, <1>3, <1>4
<1>6. Plus(d, tr) = d + tr
  BY <1>3, <1>4, <1>5, PlusExact
<1> QED
  BY <1>5, <1>6 DEF d, tr, l

\* The first departure is that of the depot: its first window is open.
LEMMA FirstDeparture ==
  ASSUME ChainInv, Workable
  PROVE  /\ DepartureTime(tws, 0, 0, Earliest(tws[0])) = DepotDeparture(tws)
         /\ Plus(Earliest(tws[0]), Travel(0, 0)) <= Latest(tws[0])
<1> DEFINE e == Earliest(tws[0])
           l == Latest(tws[0])
           sv == Service[0]
<1>1. /\ e \in Nat /\ l \in Nat /\ sv \in Nat /\ SIZE_NONE \in Nat
      /\ e <= l /\ IsOpen(tws[0], e) /\ l + sv < SIZE_NONE /\ 0 \in Index
  <2>1. 0 \in Index
    BY DepotIsNoCustomer
  <2> QED
    BY <2>1, NodeFacts
<1>2. e + Travel(0, 0) = e
  BY <1>1, DepotAssumption
<1>3. e + Travel(0, 0) <= l
  BY <1>1, <1>2
<1>4. PICK service \in Nat :
        /\ Plus(e, Travel(0, 0)) = e + Travel(0, 0)
        /\ DepartureTime(tws, 0, 0, e) = service + sv
        /\ e + Travel(0, 0) <= service
        /\ \A x \in Nat : IsOpen(tws[0], x) /\ e + Travel(0, 0) <= x => service <= x
  BY <1>1, <1>3, DepartsOnTime
<1>5. service = e
  <2>1. e <= service /\ service <= e
    BY <1>1, <1>2, <1>4
  <2> QED
    BY <1>1, <2>1
<1>6. Plus(e, sv) = e + sv
  <2>1. e + sv <= SIZE_NONE
    <3> HIDE DEF e, l, sv
    <3> QED
      BY <1>1
  <2> QED
    BY <1>1, <2>1, PlusExact
<1>7. DepotDeparture(tws) = e + sv
  BY <1>6 DEF DepotDeparture
<1> QED
  BY <1>2, <1>3, <1>4, <1>5, <1>7

\* What precedes and follows a stop of a chain t put between two stops at the depot.
LEMMA Stops ==
  ASSUME ChainInv, NEW t \in Chains, NEW r, IsFramed(r, Index, 0, t),
         NEW k \in 2 .. Len(t) + 1
  PROVE  /\ r[k] \in Customers /\ predecessors[r[k]] = r[k - 1]
         /\ successors[r[k]] = r[k + 1]
<1> DEFINE n == Len(t)
           j == k - 1
<1>1. /\ n \in Nat /\ \A i \in 1 .. n : t[i] \in Customers
      /\ \A i \in 1 .. n - 1 : successors[t[i]] = t[i + 1]
      /\ \A i \in 1 .. n - 1 : predecessors[t[i + 1]] = t[i]
      /\ predecessors[t[1]] = 0 /\ successors[t[n]] = 0
  BY RouteParts
<1>2. /\ r[1] = 0 /\ r[n + 2] = 0
      /\ \A i \in 1 .. n : r[i + 1] = t[i]
  BY DEF IsFramed
<1>3. j \in 1 .. n /\ k = j + 1 /\ k - 1 = j
  BY <1>1
<1> HIDE DEF j, n
<1>4. r[k] = t[j] /\ r[k] \in Customers
  BY <1>1, <1>2, <1>3
<1>5. predecessors[r[k]] = r[k - 1]
  <2>1. CASE j = 1
    BY <1>1, <1>2, <1>3, <1>4, <2>1
  <2>2. CASE j # 1
    <3> DEFINE i == j - 1
    <3>1. i \in 1 .. n /\ i \in 1 .. n - 1 /\ i + 1 = j
      BY <1>1, <1>3, <2>2
    <3> HIDE DEF i
    <3>2. predecessors[t[j]] = t[i] /\ r[j] = t[i]
      BY <1>1, <1>2, <3>1
    <3> QED
      BY <1>3, <1>4, <3>2
  <2> QED
    BY <2>1, <2>2
<1>6. successors[r[k]] = r[k + 1]
  <2>1. CASE j = n
    <3>1. k + 1 = n + 2
      BY <1>1, <1>3, <2>1
    <3> QED
      BY <1>1, <1>2, <1>4, <2>1, <3>1
  <2>2. CASE j # n
    <3> DEFINE i == j + 1
    <3>1. i \in 1 .. n /\ j \in 1 .. n - 1 /\ k + 1 = i + 1
      BY <1>1, <1>3, <2>2
    <3>2. successors[t[j]] = t[i]
      BY <1>1, <3>1
    <3> HIDE DEF i
    <3>3. r[k + 1] = t[i]
      BY <1>2, <3>1
    <3> QED
      BY <1>4, <3>2, <3>3
  <2> QED
    BY <2>1, <2>2
<1> QED
  BY <1>4, <1>5, <1>6

\* A route of the schedule passes the check of its times.
LEMMA RouteInTime ==
  ASSUME ChainInv, ScheduleInv, OnTimeInv, Workable, pc = "build",
         NEW t \in Chains, NEW r, IsFramed(r, Index, 0, t)
  PROVE  InTime(tws, r)
<1> DEFINE n == Len(t)
           dep == Departures(tws, r)
           Prior(k) == IF k - 1 = 0 THEN 1 ELSE k - 1
           last == DepartureTime(tws, r[n + 2], r[n + 1], departure[r[n + 1]])
           h == [k \in 0 .. n + 2 |->
                   IF k = 0 THEN Earliest(tws[0])
                   ELSE IF k = n + 2 THEN last ELSE departure[r[k]]]
<1>1. /\ n \in Nat /\ n >= 1 /\ Len(r) = n + 2 /\ r \in Seq(Index) /\ r[1] = 0
      /\ DOMAIN r = 1 .. n + 2
  BY RouteParts DEF IsFramed
<1>2. /\ departure[0] = DepotDeparture(tws)
      /\ \A c \in Customers : DepartureKnown(c)
  BY DEF ScheduleInv, Active, DepartureStale
<1>3. /\ \A k \in 2 .. n + 1 : r[k] \in Customers
      /\ \A k \in 2 .. n + 1 : predecessors[r[k]] = r[k - 1]
      /\ \A k \in 2 .. n + 1 : successors[r[k]] = r[k + 1]
  BY Stops
<1> HIDE DEF n
<1>4. IsDepartures(h, r)
  <2>1. h[0] = Earliest(tws[0])
    BY <1>1
  <2>2. ASSUME NEW k \in 1 .. n + 2
        PROVE  h[k] = DepartureTime(tws, r[k], r[Prior(k)], h[k - 1])
    <3>1. CASE k = 1
      <4>1. Prior(k) = 1 /\ k - 1 = 0 /\ h[1] = departure[r[1]]
        BY <1>1, <3>1
      <4>2. DepartureTime(tws, 0, 0, Earliest(tws[0])) = DepotDeparture(tws)
        BY FirstDeparture
      <4> HIDE DEF h, Prior
      <4> QED
        BY <1>1, <1>2, <2>1, <3>1, <4>1, <4>2
    <3>2. CASE k \in 2 .. n + 1
      <4>1. /\ Prior(k) = k - 1 /\ h[k] = departure[r[k]]
            /\ h[k - 1] = departure[r[k - 1]]
        BY <1>1, <3>2
      <4>2. DepartureKnown(r[k]) /\ predecessors[r[k]] = r[k - 1]
        BY <1>2, <1>3, <3>2
      <4> HIDE DEF h, Prior
      <4> QED
        BY <4>1, <4>2 DEF DepartureKnown
    <3>3. CASE k = n + 2
      <4>1. /\ Prior(k) = n + 1 /\ h[k] = last /\ k - 1 = n + 1
            /\ h[n + 1] = departure[r[n + 1]]
        BY <1>1, <3>3
      <4> HIDE DEF h, Prior
      <4> QED
        BY <3>3, <4>1
    <3> QED
      BY <1>1, <3>1, <3>2, <3>3
  <2> HIDE DEF h
  <2> QED
    BY <1>1, <2>1, <2>2 DEF IsDepartures
<1>5. \A k \in 0 .. n + 2 : dep[k] = h[k]
  <2>1. Len(r) \in Nat /\ Len(r) = n + 2
    BY <1>1
  <2>2. \A k \in 0 .. Len(r) : dep[k] = h[k]
    <3> HIDE DEF h
    <3> QED
      BY <1>4, <2>1, DeparturesAre
  <2> HIDE DEF h, dep
  <2> QED
    BY <2>1, <2>2
<1> HIDE DEF dep
<1>6. ASSUME NEW k \in 1 .. n + 2
      PROVE  Plus(dep[k - 1], Travel(r[Prior(k)], r[k])) <= Latest(tws[r[k]])
  <2>1. CASE k = 1
    <3>1. dep[0] = Earliest(tws[0]) /\ Prior(k) = 1 /\ k - 1 = 0
      BY <1>1, <1>5, <2>1
    <3>2. Plus(Earliest(tws[0]), Travel(0, 0)) <= Latest(tws[0])
      BY FirstDeparture
    <3> HIDE DEF Prior
    <3> QED
      BY <1>1, <2>1, <3>1, <3>2
  <2>2. CASE k # 1
    <3>1. /\ Prior(k) = k - 1 /\ dep[k - 1] = departure[r[k - 1]]
          /\ k - 1 + 1 = k /\ k - 1 \in 1 .. n + 1
      <4>1. k - 1 \in 0 .. n + 2 /\ k - 1 # 0 /\ k - 1 # n + 2 /\ k - 1 \in 1 .. n + 1
        BY <1>1, <2>2
      <4>2. h[k - 1] = departure[r[k - 1]]
        BY <4>1
      <4> QED
        BY <1>5, <4>1, <4>2
    <3> HIDE DEF Prior, h
    <3>2. CASE k = 2
      <4>1. r[k] \in Customers /\ k - 1 = 1
        BY <1>1, <1>3, <3>2
      <4> DEFINE c == r[k]
                 d == DepartureTime(tws, c, 0, DepotDeparture(tws))
                 w == SubrouteTws(tws, c, 0, tws[0])
      <4>2. /\ Plus(DepotDeparture(tws), Travel(0, c)) = DepotDeparture(tws) + Travel(0, c)
            /\ DepotDeparture(tws) + Travel(0, c) <= Latest(tws[c])
        BY <4>1, ServedAlone
      <4> QED
        BY <1>1, <1>2, <3>1, <4>1, <4>2
    <3>3. CASE k # 2
      <4>1. k - 1 \in 2 .. n + 1
        BY <1>1, <3>1, <3>3
      <4>2. r[k - 1] \in Customers /\ successors[r[k - 1]] = r[k]
        <5>1. r[k - 1] \in Customers /\ successors[r[k - 1]] = r[k - 1 + 1]
          BY <1>3, <4>1
        <5> QED
          BY <3>1, <5>1
      <4>3. r[k] \in Index
        BY <1>1
      <4>4. Plus(departure[r[k - 1]], Travel(r[k - 1], r[k])) <= Latest(tws[r[k]])
        BY <4>2, <4>3, NextInTime
      <4> QED
        BY <3>1, <4>4
    <3> QED
      BY <3>2, <3>3
  <2> QED
    BY <2>1, <2>2
<1>7. ASSUME NEW k \in DOMAIN r
      PROVE  Plus(Departures(tws, r)[k - 1],
                  Travel(r[IF k - 1 = 0 THEN 1 ELSE k - 1], r[IF k = 0 THEN 1 ELSE k]))
               <= Latest(tws[r[IF k = 0 THEN 1 ELSE k]])
  <2>1. k \in 1 .. n + 2 /\ k # 0
    BY <1>1
  <2> QED
    BY <1>6, <2>1 DEF dep
<1> QED
  BY ONLY <1>7, Zenon DEF InTime

\* With indices as IDs all routes built pass the feasibility check.
LEMMA RoutesFeasible ==
  ASSUME RouteInv, ScheduleInv, OnTimeInv, SolutionInv, Workable, IdsAreIndices,
         pc = "build"
  PROVE  SolutionIsFeasible(tws, sol)
<1>1. ChainInv /\ LoadInv
  BY DEF RouteInv
<1>2. sol \in Seq(Seq(Index)) /\ \A k \in 1 .. Len(sol) : \E t \in Chains : sol[k] = RouteThrough(t)
  BY DEF SolutionInv
<1>3. ASSUME NEW t \in Chains
      PROVE  Load(RouteThrough(t)) <= Capacity /\ InTime(tws, RouteThrough(t))
  <2> DEFINE d == <<0>>
             r == (d \o t) \o d
  <2>1. t \in Seq(Customers) /\ t \in Seq(Index) /\ 0 \in Index
    BY <1>1, RouteParts, LoadFacts, DepotIsNoCustomer
  <2>2. RouteThrough(t) = r
    <3>1. ids[0] = 0
      BY <2>1 DEF IdsAreIndices
    <3>2. IdsOf(t) = t
      <4>1. Len(t) \in Nat /\ t = [k \in 1 .. Len(t) |-> t[k]]
        BY <2>1
      <4>2. \A k \in 1 .. Len(t) : ids[t[k]] = t[k]
        <5>1. \A k \in 1 .. Len(t) : t[k] \in Index
          BY <2>1
        <5> QED
          BY <5>1 DEF IdsAreIndices
      <4>3. IdsOf(t) = [k \in 1 .. Len(t) |-> t[k]]
        BY <4>2 DEF IdsOf
      <4> QED
        BY <4>1, <4>3
    <3>3. RouteThrough(t) = (<<ids[0]>> \o IdsOf(t)) \o <<ids[0]>>
      BY <1>1, <2>1, RouteThroughIs
    <3> QED
      BY <3>1, <3>2, <3>3
  <2>3. Load(r) <= Capacity
    <3>1. Load(t) <= Capacity
      <4>1. \A c \in Customers : Demand[c] <= Capacity
        BY DEF Workable, AllServable, ServableAlone
      <4> QED
        BY <1>1, <4>1 DEF LoadInv
    <3>2. d \in Seq(Index) /\ Load(d) = 0
      BY <2>1, LoadFacts, DemandAssumption
    <3> HIDE DEF d
    <3>3. d \o t \in Seq(Index)
      BY ONLY <2>1, <3>2, ConcatElements
    <3>4. Load(d \o t) = Load(d) + Load(t)
      BY <2>1, <3>2, LoadFacts
    <3>5. Load((d \o t) \o d) = Load(d \o t) + Load(d)
      BY <3>2, <3>3, LoadFacts
    <3>6. Load(t) \in Nat
      BY <2>1, LoadFacts
    <3> QED
      BY <3>1, <3>2, <3>4, <3>5, <3>6
  <2>4. InTime(tws, r)
    <3>1. IsFramed(r, Index, 0, t)
      BY <2>1, FramedList
    <3> HIDE DEF r
    <3> QED
      BY <1>1, <3>1, RouteInTime
  <2> QED
    BY <2>2, <2>3, <2>4
<1>4. DOMAIN sol = 1 .. Len(sol)
  BY <1>2
<1> QED
  BY <1>2, <1>3, <1>4 DEF SolutionIsFeasible

\* No step makes NeverAborts false.
LEMMA NeverAbortsStep ==
  RouteInv /\ ScheduleInv /\ OnTimeInv /\ SolutionInv /\ TourInv
    /\ NeverAborts /\ [Next]_vars => NeverAborts'
<1> SUFFICES ASSUME RouteInv, ScheduleInv, OnTimeInv, SolutionInv, TourInv,
                    NeverAborts, [Next]_vars,
                    (AllServable /\ AllWindowed /\ IdsAreIndices
                       /\ \A n \in Index : Len(tws[n]) <= 2)'
             PROVE  pc' # "aborted"
  BY DEF NeverAborts
<1>1. UNCHANGED <<tws, ids>>
  BY DEF Next, StartLambda, SkipSaving, TakeSaving, WalkBack, Reject, Merge,
         PassOnDeparture, PassOnWindows, PassOnWindowsAborts, StartBuild,
         BuildRoute, EndLambda, model, vars
<1>2. Workable /\ FewWindows /\ IdsAreIndices /\ pc # "aborted"
  BY <1>1 DEF Workable, FewWindows, AllServable, AllWindowed, IdsAreIndices, NeverAborts
<1>3. CASE StartLambda
  BY <1>2, <1>3, StartLambdaOnTime
<1>4. CASE PassOnWindowsAborts
  BY <1>2, <1>4, PassOnWindowsOnTime DEF PassOnWindowsAborts
<1>5. CASE EndLambda
  <2>1. pc = "build" /\ idx > N
    BY <1>5 DEF EndLambda
  <2>2. SolutionIsFeasible(tws, sol)
    BY <1>2, <2>1, RoutesFeasible
  <2>3. Len(GTour) = N
    BY <1>2, <2>1, TourComplete
  <2> QED
    BY <1>5, <2>2, <2>3 DEF EndLambda
<1>6. CASE WalkBack \/ Reject \/ Merge \/ StartBuild \/ BuildRoute
  BY <1>2, <1>6 DEF WalkBack, Reject, Merge, StartBuild, BuildRoute, EndIteration
<1>7. CASE PassOnDeparture \/ PassOnWindows
  BY <1>2, <1>7 DEF PassOnDeparture, PassOnWindows, EndIteration
<1>8. ASSUME NEW p \in Pairs, SkipSaving(p) \/ TakeSaving(p) PROVE pc' # "aborted"
  BY <1>2, <1>8 DEF SkipSaving, TakeSaving
<1>9. CASE UNCHANGED vars
  BY <1>2, <1>9 DEF vars
<1> QED
  BY <1>3, <1>4, <1>5, <1>6, <1>7, <1>8, <1>9 DEF Next

\* With indices as IDs, a window or two for every node, and customers who can be
\* served alone, no assertion of vrptw_clark_wright is met, so every solution it
\* keeps is feasible.
THEOREM AssertionsHold == Spec => []NeverAborts
<1>1. Init => ScheduleInv /\ OnTimeInv /\ NeverAborts
  BY DEF Init, ScheduleInv, OnTimeInv, NeverAborts, Active
<1> QED
  BY <1>1, InitTours, ScheduleStep, OnTimeStep, TourStep, NeverAbortsStep,
     RoutesSound, PTL DEF Spec

\* The walk from the depot leaves it when vrptw_clark_wright says, whatever its
\* windows are.
LEMMA DepotFirst ==
  ASSUME ChainInv
  PROVE  DepartureTime(tws, 0, 0, Earliest(tws[0])) = DepotDeparture(tws)
<1> DEFINE w == tws[0]
           e == Earliest(w)
           n == Len(w)
           T == Nat \X Nat
<1>1. /\ SIZE_NONE \in Nat \ {0} /\ 0 \in Index /\ Service[0] \in Nat
  <2>1. 0 \in Index
    BY DepotIsNoCustomer
  <2>2. Service[0] \in 0 .. SIZE_NONE
    BY <2>1, ServiceAssumption
  <2> QED
    BY <2>1, <2>2, SIZE_NONEAssumption, NAssumption
<1>2. /\ IsWindows(w)
      /\ w # <<>> => Latest(w) + Service[0] + Travel(0, 0) < SIZE_NONE
  <2>1. PICK m \in Models : tws = m.tws
    BY DEF ChainInv
  <2> QED
    BY <1>1, <2>1, TimesAssumption
<1>3. CASE w = <<>>
  <2>1. e = 0
    BY <1>3 DEF Earliest
  <2>2. Plus(0, Travel(0, 0)) = 0
    BY <1>1, DepotAssumption, PlusExact
  <2>3. ServiceTime(w, 0) = 0
    BY <1>3 DEF ServiceTime
  <2> QED
    BY <1>1, <2>1, <2>2, <2>3 DEF DepartureTime, DepotDeparture
<1>4. CASE w # <<>>
  <2>1. /\ w \in Seq(T)
        /\ \A k \in DOMAIN w : w[k][1] <= w[k][2]
        /\ \A k \in 1 .. Len(w) - 1 : w[k][2] <= w[k + 1][1]
    BY <1>2 DEF IsWindows
  <2>2. n \in Nat \ {0} /\ DOMAIN w = 1 .. n /\ \A k \in 1 .. n : w[k] \in T
    <3> HIDE DEF w, T
    <3> QED
      BY <1>4, <2>1, EmptySeq
  <2>3. /\ \A k \in 1 .. n : w[k][1] \in Nat /\ w[k][2] \in Nat /\ w[k][1] <= w[k][2]
        /\ \A k \in 1 .. n - 1 : w[k][2] <= w[k + 1][1]
    BY <2>1, <2>2
  <2>4. e = w[1][1] /\ Latest(w) = w[n][2]
    BY <1>4 DEF Earliest, Latest, Last
  <2> HIDE DEF w, n, e
  <2>5. 1 \in 1 .. n /\ n \in 1 .. n
    BY <2>2
  <2>6. e \in Nat /\ Latest(w) \in Nat /\ e <= Latest(w)
    <3> DEFINE K == {k \in 0 .. n - 1 : w[1][1] <= w[k + 1][2]}
    <3>1. 0 \in K
      BY <2>2, <2>3, <2>5
    <3>2. ASSUME NEW k \in 0 .. n - 2, k \in K PROVE k + 1 \in K
      <4>1. k + 1 \in 1 .. n - 1 /\ k + 1 \in 1 .. n /\ k + 1 + 1 \in 1 .. n
            /\ k + 1 \in 0 .. n - 1
        BY <2>2
      <4>2. /\ w[k + 1][2] <= w[k + 1 + 1][1] /\ w[k + 1 + 1][1] <= w[k + 1 + 1][2]
            /\ w[k + 1][2] \in Nat /\ w[k + 1 + 1][1] \in Nat /\ w[k + 1 + 1][2] \in Nat
            /\ w[1][1] \in Nat /\ w[1][1] <= w[k + 1][2]
        BY <2>3, <2>5, <3>2, <4>1
      <4>3. w[1][1] <= w[k + 1 + 1][2]
        <5> DEFINE a == w[1][1]
                   b == w[k + 1][2]
                   c == w[k + 1 + 1][1]
                   d == w[k + 1 + 1][2]
        <5>1. a \in Nat /\ b \in Nat /\ c \in Nat /\ d \in Nat /\ a <= b /\ b <= c /\ c <= d
          BY <4>2
        <5> HIDE DEF a, b, c, d
        <5>2. a <= d
          BY ONLY <5>1
        <5> QED
          BY <5>2 DEF a, d
      <4> QED
        BY <4>1, <4>3
    <3> HIDE DEF K
    <3>3. 0 .. n - 1 \subseteq K
      <4> DEFINE m == n - 1
      <4>1. m \in Nat /\ \A k \in 0 .. m - 1 : k \in K => k + 1 \in K
        BY <2>2, <3>2
      <4> HIDE DEF m
      <4>2. 0 .. m \subseteq K
        BY ONLY <3>1, <4>1, IntervalInduction
      <4> QED
        BY <4>2 DEF m
    <3>4. n - 1 \in 0 .. n - 1 /\ n - 1 + 1 = n
      BY <2>2
    <3>5. w[1][1] <= w[n][2]
      BY <3>3, <3>4 DEF K
    <3> QED
      BY <2>3, <2>4, <2>5, <3>5
  <2>7. e < SIZE_NONE
    <3>1. Latest(w) + Service[0] + 0 < SIZE_NONE
      BY <1>2, <1>4, DepotAssumption
    <3> QED
      BY <1>1, <2>6, <3>1
  <2>8. Plus(e, Travel(0, 0)) = e
    BY <1>1, <2>6, <2>7, DepotAssumption, PlusExact
  <2>9. ServiceTime(w, e) = e
    <3> DEFINE K == {k \in 1 .. n : e <= w[k][2]}
    <3>1. 1 \in K
      BY <2>3, <2>4, <2>5
    <3>2. K \subseteq Nat /\ K # {}
      BY <3>1, <2>2
    <3>3. SelectInSeq(w, LAMBDA tw : e <= tw[2]) = Min(K)
      BY <3>2 DEF SelectInSeq, n
    <3>4. Min(K) = 1
      <4>1. Min(K) \in K /\ \A x \in K : Min(K) <= x
        <5> HIDE DEF K
        <5> QED
          BY <3>2, LeastChosen
      <4>2. Min(K) \in 1 .. n /\ Min(K) <= 1
        BY <3>1, <4>1
      <4> QED
        BY <2>2, <4>2
    <3>5. ~(e > Latest(w))
      BY <2>6
    <3> HIDE DEF K
    <3>6. ServiceTime(w, e) = Later(e, w[1][1])
      BY <1>4, <3>3, <3>4, <3>5 DEF ServiceTime
    <3> QED
      BY <2>4, <2>6, <3>6 DEF Later
  <2>10. e # SIZE_NONE
    BY <1>1, <2>6, <2>7
  <2>11. DepartureTime(tws, 0, 0, e) = Plus(e, Service[0])
    BY <2>8, <2>9, <2>10 DEF DepartureTime, w
  <2> QED
    BY <2>11 DEF DepotDeparture, e, w
<1> QED
  BY <1>3, <1>4

\* The departures kept with a chain are those of the walk along it.
LEMMA ScheduleOfChain ==
  ASSUME ChainInv, ScheduleInv, pc = "scan", NEW t \in Chains, NEW k \in 1 .. Len(t)
  PROVE  departure[t[k]] = Departures(tws, <<0>> \o t)[k + 1]
<1> DEFINE n == Len(t)
           r == <<0>> \o t
           h == [i \in 0 .. n + 1 |-> IF i = 0 THEN Earliest(tws[0]) ELSE departure[r[i]]]
<1>1. /\ n \in Nat /\ t \in Seq(Index) /\ 0 \in Index
      /\ \A i \in 1 .. n : t[i] \in Customers
      /\ \A i \in 1 .. n - 1 : predecessors[t[i + 1]] = t[i]
      /\ predecessors[t[1]] = 0
  BY RouteParts, LoadFacts, DepotIsNoCustomer
<1>2. /\ Len(r) = n + 1 /\ r[1] = 0
      /\ \A i \in 1 .. n : r[i + 1] = t[i]
  BY <1>1, ConsElements
<1>3. /\ departure[0] = DepotDeparture(tws)
      /\ \A c \in Customers : DepartureKnown(c)
  BY DEF ScheduleInv, Active, DepartureStale
<1> HIDE DEF r, n
<1>4. IsDepartures(h, r)
  <2>1. h[0] = Earliest(tws[0])
    BY <1>1
  <2>2. ASSUME NEW i \in 1 .. n + 1
        PROVE  h[i] = DepartureTime(tws, r[i], r[IF i - 1 = 0 THEN 1 ELSE i - 1], h[i - 1])
    <3>0. h[i] = departure[r[i]]
      BY <1>1
    <3>1. CASE i = 1
      <4>1. h[i - 1] = Earliest(tws[0])
        BY <2>1, <3>1
      <4> HIDE DEF h
      <4> QED
        BY <1>2, <1>3, <3>0, <3>1, <4>1, DepotFirst
    <3>2. CASE i # 1
      <4> DEFINE j == i - 1
      <4>1. j \in 1 .. n /\ i = j + 1 /\ i - 1 = j /\ j \in 1 .. n + 1 /\ j # 0 /\ j \in 0 .. n + 1
        BY <1>1, <3>2
      <4> HIDE DEF j
      <4>2. r[i] = t[j] /\ t[j] \in Customers
        BY <1>1, <1>2, <4>1
      <4>3. predecessors[t[j]] = r[j]
        <5>1. CASE j = 1
          BY <1>1, <1>2, <5>1
        <5>2. CASE j # 1
          <6> DEFINE m == j - 1
          <6>1. m \in 1 .. n - 1 /\ m \in 1 .. n /\ m + 1 = j
            BY <1>1, <4>1, <5>2
          <6> HIDE DEF m
          <6> QED
            BY <1>1, <1>2, <6>1
        <5> QED
          BY <5>1, <5>2
      <4>4. h[j] = departure[r[j]]
        BY <4>1
      <4> HIDE DEF h
      <4>5. DepartureKnown(t[j])
        BY <1>3, <4>2
      <4> QED
        BY <3>0, <4>1, <4>2, <4>3, <4>4, <4>5 DEF DepartureKnown
    <3> QED
      BY <3>1, <3>2
  <2> HIDE DEF h
  <2> QED
    BY <1>2, <2>1, <2>2 DEF IsDepartures
<1>5. Len(r) \in Nat
  BY <1>1, <1>2
<1> HIDE DEF h
<1>6. \A i \in 0 .. Len(r) : Departures(tws, r)[i] = h[i]
  BY <1>4, <1>5, DeparturesAre
<1>7. k + 1 \in 0 .. Len(r) /\ k \in 1 .. n /\ k + 1 \in 0 .. n + 1 /\ k + 1 # 0
  BY <1>1, <1>2 DEF n
<1>8. h[k + 1] = departure[r[k + 1]] /\ r[k + 1] = t[k]
  BY <1>2, <1>7 DEF h
<1> QED
  BY <1>6, <1>7, <1>8 DEF r

\* The demands and departure times the next merge reads are those of the routes
\* as vrptw_solution_is_feasible computes them.
THEOREM ScheduleSound == Spec => []ScheduleExact
<1>1. RouteInv /\ ScheduleInv => ScheduleExact
  <2> SUFFICES ASSUME RouteInv, ScheduleInv, pc = "scan", NEW t \in Chains,
                      NEW k \in DOMAIN t
               PROVE  /\ route_demands[t[k]] = Load(t)
                      /\ departure[t[k]] = Departures(tws, <<0>> \o t)[k + 1]
    BY DEF ScheduleExact
  <2>1. ChainInv /\ DemandInv
    BY DEF RouteInv
  <2>2. k \in 1 .. Len(t)
    BY <2>1, RouteParts
  <2>3. DemandKnown(t, k)
    BY <2>1, <2>2 DEF DemandInv
  <2> QED
    BY <2>1, <2>2, <2>3, ScheduleOfChain DEF DemandKnown
<1>2. Init => ScheduleInv
  BY DEF Init, ScheduleInv, Active
<1> QED
  BY <1>1, <1>2, ScheduleStep, RoutesSound, PTL DEF Spec
-----------------------------------------------------------------------------
(***************************************************************************)
(* The reference: which routes can be served                               *)
(***************************************************************************)
\* What the times at the next stop t of a route are, by those at a stop c.
TimesBehind(c, t, times, h) ==
  {y \in 0 .. h :
     /\ IsOpen(tws[t], y)
     /\ \E u \in times : y >= u + (Service[c] + Travel(c, t))}

TimesFrom(c, start, h) == {y \in 0 .. h : IsOpen(tws[c], y) /\ y >= start}

\* The sets of the times at which the stops of a route r can be served.
AreTimes(f, r, start, h) ==
  /\ f[1] = TimesFrom(r[1], start, h)
  /\ \A k \in 1 .. Len(r) - 1 : f[k + 1] = TimesBehind(r[k], r[k + 1], f[k], h)

\* CanServe asks whether there are times at the last stop.
LEMMA TimesExist ==
  ASSUME NEW r, Len(r) \in Nat \ {0}, NEW start, NEW h \in Nat
  PROVE  \E f : /\ AreTimes(f, r, start, h)
                /\ CanServe(tws, r, start, h) <=> f[Len(r)] # {}
<1> DEFINE n == Len(r)
           T == SUBSET (0 .. h)
           Def(g) == g = [k \in 1 .. n |->
                            {t \in 0 .. h :
                               /\ IsOpen(tws[r[k]], t)
                               /\ IF k = 1 THEN t >= start
                                  ELSE \E u \in g[k - 1] :
                                         t >= u + (Service[r[k - 1]] + Travel(r[k - 1], r[k]))}]
           a == TimesFrom(r[1], start, h)
           m == n - 1
           step == [k \in 1 .. m |-> [s \in T |-> TimesBehind(r[k], r[k + 1], s, h)]]
           times == CHOOSE g : Def(g)
<1>1. n \in Nat \ {0} /\ m \in Nat
  OBVIOUS
<1> HIDE DEF n
<1>2. a \in T /\ \A k \in 1 .. m : \A s \in T : TimesBehind(r[k], r[k + 1], s, h) \in T
  BY DEF TimesFrom, TimesBehind
<1>3. step \in [1 .. m -> [T -> T]]
  BY <1>2
<1>4. \E g \in [0 .. m -> T] : Iterates(g, m, a, step)
  <2> HIDE DEF T, a, m, step
  <2> QED
    BY ONLY <1>1, <1>2, <1>3, Iteration
<1>5. PICK g \in [0 .. m -> T] : Iterates(g, m, a, step)
  BY <1>4
<1> DEFINE f == [k \in 1 .. n |-> g[k - 1]]
<1>6. Def(f)
  <2>1. ASSUME NEW k \in 1 .. n
        PROVE  f[k] = {t \in 0 .. h :
                         /\ IsOpen(tws[r[k]], t)
                         /\ IF k = 1 THEN t >= start
                            ELSE \E u \in f[k - 1] :
                                   t >= u + (Service[r[k - 1]] + Travel(r[k - 1], r[k]))}
    <3>1. CASE k = 1
      <4>1. f[k] = a
        BY <1>1, <1>5, <3>1 DEF Iterates
      <4> HIDE DEF f
      <4> QED
        BY <3>1, <4>1 DEF TimesFrom
    <3>2. CASE k # 1
      <4> DEFINE j == k - 1
      <4>1. j \in 1 .. m /\ j \in 1 .. n /\ j - 1 \in 0 .. m /\ k = j + 1
        BY <1>1, <3>2
      <4>2. f[k] = g[j] /\ f[j] = g[j - 1] /\ g[j - 1] \in T
        BY <1>5, <4>1
      <4>3. g[j] = step[j][g[j - 1]]
        BY <1>5, <4>1 DEF Iterates
      <4>4. f[k] = TimesBehind(r[j], r[j + 1], f[j], h)
        BY <4>1, <4>2, <4>3
      <4> HIDE DEF f
      <4> QED
        BY <3>2, <4>1, <4>4 DEF TimesBehind
    <3> QED
      BY <3>1, <3>2
  <2> HIDE DEF f
  <2>2. f = [k \in 1 .. n |-> f[k]]
    BY DEF f
  <2> QED
    BY <2>1, <2>2
<1>7. Def(times)
  <2> HIDE DEF Def, f
  <2> QED
    BY <1>6
<1>8. CanServe(tws, r, start, h) <=> times[Len(r)] # {}
  BY DEF CanServe, n
<1> HIDE DEF times
<1>9. times[1] = TimesFrom(r[1], start, h)
  <2>1. 1 \in 1 .. n
    BY <1>1
  <2> QED
    BY <1>7, <2>1 DEF TimesFrom
<1>10. ASSUME NEW k \in 1 .. n - 1
       PROVE  times[k + 1] = TimesBehind(r[k], r[k + 1], times[k], h)
  <2>1. PICK j \in 1 .. n : j = k + 1 /\ j # 1 /\ j - 1 = k
    BY <1>1
  <2>2. times[j] = {t \in 0 .. h :
                      /\ IsOpen(tws[r[j]], t)
                      /\ IF j = 1 THEN t >= start
                         ELSE \E u \in times[j - 1] :
                                t >= u + (Service[r[j - 1]] + Travel(r[j - 1], r[j]))}
    BY ONLY <1>7, <2>1
  <2>3. times[j] = {t \in 0 .. h :
                      /\ IsOpen(tws[r[j]], t)
                      /\ \E u \in times[k] : t >= u + (Service[r[k]] + Travel(r[k], r[j]))}
    BY ONLY <2>1, <2>2
  <2>4. times[j] = TimesBehind(r[k], r[j], times[k], h)
    BY ONLY <2>3 DEF TimesBehind
  <2> QED
    BY ONLY <2>1, <2>4
<1>11. AreTimes(times, r, start, h)
  BY <1>9, <1>10 DEF AreTimes, n
<1> QED
  BY <1>8, <1>11

\* A schedule serves a route.
LEMMA ScheduleServes ==
  ASSUME NEW r, Len(r) \in Nat \ {0}, NEW start, NEW h \in Nat, NEW x,
         \A k \in 1 .. Len(r) : x[k] \in 0 .. h /\ IsOpen(tws[r[k]], x[k]),
         x[1] >= start,
         \A k \in 1 .. Len(r) - 1 : x[k + 1] >= x[k] + (Service[r[k]] + Travel(r[k], r[k + 1]))
  PROVE  CanServe(tws, r, start, h)
<1> DEFINE n == Len(r)
           m == n - 1
<1>1. PICK f : /\ AreTimes(f, r, start, h)
               /\ CanServe(tws, r, start, h) <=> f[n] # {}
  BY TimesExist
<1> DEFINE K == {k \in 0 .. m : x[k + 1] \in f[k + 1]}
<1>2. m \in Nat /\ n = m + 1
  OBVIOUS
<1>3. 0 \in K
  <2>1. 0 + 1 = 1 /\ 1 \in 1 .. n /\ 0 \in 0 .. m
    BY <1>2
  <2>2. x[1] \in TimesFrom(r[1], start, h)
    BY <2>1 DEF TimesFrom
  <2> QED
    BY <1>1, <2>1, <2>2 DEF AreTimes
<1>4. ASSUME NEW k \in 0 .. m - 1, k \in K PROVE k + 1 \in K
  <2> DEFINE j == k + 1
  <2>1. j \in 1 .. n - 1 /\ j + 1 \in 1 .. n /\ j \in 0 .. m
    BY <1>2
  <2>2. x[j] \in f[j]
    BY <1>4
  <2> HIDE DEF j
  <2>3. x[j + 1] \in TimesBehind(r[j], r[j + 1], f[j], h)
    BY <2>1, <2>2 DEF TimesBehind
  <2>4. x[j + 1] \in f[j + 1]
    BY <1>1, <2>1, <2>3 DEF AreTimes
  <2>5. j \in K
    BY <2>1, <2>4
  <2> QED
    BY <2>5 DEF j
<1>5. \A k \in 0 .. m - 1 : k \in K => k + 1 \in K
  BY <1>4
<1> HIDE DEF K, n, m
<1>6. 0 .. m \subseteq K
  BY ONLY <1>2, <1>3, <1>5, IntervalInduction
<1>7. x[n] \in f[n]
  BY <1>2, <1>6 DEF K
<1> QED
  BY <1>1, <1>7

\* What every time at the first stop has, and every stop passes on to the next
\* one, some time at the last stop of a route that can be served has.
LEMMA ServedWithin ==
  ASSUME NEW r, Len(r) \in Nat \ {0}, NEW start, NEW h \in Nat,
         CanServe(tws, r, start, h), NEW B,
         \A y \in Nat : IsOpen(tws[r[1]], y) /\ y >= start => y \in B[1],
         \A k \in 1 .. Len(r) - 1 : \A y \in Nat : \A u \in B[k] :
           IsOpen(tws[r[k + 1]], y) /\ y >= u + (Service[r[k]] + Travel(r[k], r[k + 1]))
             => y \in B[k + 1]
  PROVE  B[Len(r)] # {}
<1> DEFINE n == Len(r)
           m == n - 1
<1>1. PICK f : /\ AreTimes(f, r, start, h)
               /\ CanServe(tws, r, start, h) <=> f[n] # {}
  BY TimesExist
<1> DEFINE K == {k \in 0 .. m : f[k + 1] \subseteq B[k + 1]}
<1>2. m \in Nat /\ n = m + 1
  OBVIOUS
<1>3. 0 \in K
  <2>1. 0 + 1 = 1 /\ 0 \in 0 .. m
    BY <1>2
  <2>2. TimesFrom(r[1], start, h) \subseteq B[1]
    BY DEF TimesFrom
  <2> QED
    BY <1>1, <2>1, <2>2 DEF AreTimes
<1>4. ASSUME NEW k \in 0 .. m - 1, k \in K PROVE k + 1 \in K
  <2> DEFINE j == k + 1
  <2>1. j \in 1 .. n - 1 /\ j \in 0 .. m
    BY <1>2
  <2>2. f[j] \subseteq B[j]
    BY <1>4
  <2> HIDE DEF j
  <2>3. TimesBehind(r[j], r[j + 1], f[j], h) \subseteq B[j + 1]
    BY <2>1, <2>2 DEF TimesBehind
  <2>4. f[j + 1] \subseteq B[j + 1]
    BY <1>1, <2>1, <2>3 DEF AreTimes
  <2>5. j \in K
    BY <2>1, <2>4
  <2> QED
    BY <2>5 DEF j
<1>5. \A k \in 0 .. m - 1 : k \in K => k + 1 \in K
  BY <1>4
<1> HIDE DEF K, n, m
<1>6. 0 .. m \subseteq K
  BY ONLY <1>2, <1>3, <1>5, IntervalInduction
<1>7. f[n] \subseteq B[n]
  BY <1>2, <1>6 DEF K
<1> QED
  BY <1>1, <1>7 DEF n

-----------------------------------------------------------------------------
(***************************************************************************)
(* The deadlines are exact                                                 *)
(***************************************************************************)
\* With one window for every node, a customer served after its deadline is left
\* too late for its successor.
LEMMA TooLate ==
  ASSUME ChainInv, ScheduleInv, OnTimeInv, Workable, OneWindowEach,
         pc \in {"scan", "build"}, NEW c \in Customers,
         NEW u \in Nat, IsOpen(tws[c], u), u > Until(c)
  PROVE  u + (Service[c] + Travel(c, successors[c])) > Until(successors[c])
<1> DEFINE s == successors[c]
           sv == Service[c]
           tr == Travel(c, s)
           us == Until(s)
           new == SubrouteTws(tws, c, s, subroute_tws[s])
<1>1. /\ OnTime(c) /\ DepartureBounds(c) /\ WindowsKnown(c)
  BY DEF OnTimeInv, ScheduleInv, Active, WindowsStale
<1>2. c \in Index /\ s \in Index
  BY Neighbours, DepotIsNoCustomer
<1>3. us \in Nat /\ us < SIZE_NONE /\ sv \in Nat /\ tr \in Nat /\ Until(c) \in Nat
  BY <1>2, DeadlineFacts, NodeFacts DEF Active
<1>4. /\ departure[c] \in Nat /\ Earliest(tws[c]) + sv <= departure[c]
      /\ departure[c] + tr <= us
  BY <1>1 DEF OnTime, DepartureBounds
<1>5. Until(c) = Latest(new)
  BY <1>1 DEF WindowsKnown, Until
<1>6. \A x \in Nat : x <= ConsideredEnd(c) /\ x + sv + tr <= us => x <= Latest(new)
  BY <1>2, <1>3, <1>4, WindowsInTime DEF Until
<1>7. u <= ConsideredEnd(c)
  <2>1. Len(tws[c]) = 1 /\ IsWindows(tws[c]) /\ tws[c] # <<>> /\ u <= Latest(tws[c])
    BY <1>2, NodeFacts DEF OneWindowEach
  <2> QED
    BY <2>1, ConsideredFacts DEF ConsideredEnd
<1>8. ~(u <= Latest(new))
  BY <1>3, <1>5
<1> HIDE DEF new
<1>9. ~(u + sv + tr <= us)
  BY <1>6, <1>7, <1>8
<1> HIDE DEF s, sv, tr, us
<1>10. u + (sv + tr) > us
  BY ONLY <1>3, <1>9, u \in Nat
<1> QED
  BY <1>10 DEF s, sv, tr, us

\* The rest of a chain, from its position k on, and the depot.
LEMMA SuffixStops ==
  ASSUME ChainInv, NEW t \in Chains, NEW k \in 1 .. Len(t),
         NEW r, r = Suffix(t, k)
  PROVE  /\ Len(r) \in Nat \ {0} /\ Len(r) > 1 /\ r[1] = t[k] /\ r[Len(r)] = 0
         /\ \A i \in 1 .. Len(r) - 1 : r[i] \in Customers /\ successors[r[i]] = r[i + 1]
<1> DEFINE n == Len(t)
           u == SubSeq(t, k, n)
           z == <<0>>
           m == n - k + 1
<1>1. /\ n \in Nat /\ t \in Seq(Customers) /\ k \in 1 .. n
      /\ \A i \in 1 .. n : t[i] \in Customers
      /\ \A i \in 1 .. n - 1 : successors[t[i]] = t[i + 1]
      /\ successors[t[n]] = 0
  BY RouteParts
<1>2. u \in Seq(Customers) /\ Len(u) = m /\ \A i \in 1 .. m : u[i] = t[k + i - 1]
  BY <1>1
<1>3. z \in Seq({0}) /\ Len(z) = 1 /\ z[1] = 0
  OBVIOUS
<1> HIDE DEF n, u, z
<1>4. r = u \o z
  BY DEF Suffix, u, n, z
<1>5. m \in Nat \ {0}
  BY <1>1
<1>6. /\ Len(r) = m + 1 /\ r[m + 1] = 0
      /\ \A i \in 1 .. m : r[i] = t[k + i - 1]
  <2>1. /\ Len(u \o z) = m + 1
        /\ \A i \in 1 .. m + 1 : (u \o z)[i] = IF i <= m THEN u[i] ELSE z[i - m]
    <3> HIDE DEF m
    <3>1. u \in Seq(Index) /\ z \in Seq(Index)
      BY <1>2, <1>3, DepotIsNoCustomer
    <3>2. /\ Len(u \o z) = Len(u) + Len(z)
          /\ \A i \in 1 .. Len(u) + Len(z) :
               (u \o z)[i] = IF i <= Len(u) THEN u[i] ELSE z[i - Len(u)]
      BY ONLY <3>1
    <3> QED
      BY ONLY <1>2, <1>3, <3>2
  <2>2. /\ m + 1 \in 1 .. m + 1 /\ ~(m + 1 <= m) /\ m + 1 - m = 1
        /\ \A i \in 1 .. m : i \in 1 .. m + 1 /\ i <= m
    BY <1>5
  <2> HIDE DEF m
  <2> QED
    BY <1>2, <1>3, <1>4, <2>1, <2>2
<1>7. ASSUME NEW i \in 1 .. m PROVE r[i] \in Customers /\ successors[r[i]] = r[i + 1]
  <2> DEFINE j == k + i - 1
  <2>1. j \in 1 .. n /\ r[i] = t[j]
    BY <1>1, <1>6
  <2>2. CASE i = m
    <3>1. j = n
      BY <1>1, <2>2
    <3> QED
      BY <1>1, <1>6, <2>1, <2>2, <3>1
  <2>3. CASE i # m
    <3>1. i + 1 \in 1 .. m /\ k + (i + 1) - 1 = j + 1 /\ j \in 1 .. n - 1
      BY <1>1, <2>3
    <3>2. r[i + 1] = t[j + 1]
      BY <1>6, <3>1
    <3> QED
      BY <1>1, <2>1, <3>1, <3>2
  <2> QED
    BY <2>2, <2>3
<1>8. r[1] = t[k]
  <2>1. 1 \in 1 .. m /\ k + 1 - 1 = k
    BY <1>1
  <2> QED
    BY <1>6, <2>1
<1> QED
  BY <1>5, <1>6, <1>7, <1>8

\* From the deadline on, but with one window for every node not later, the rest
\* of a route can be served.
LEMMA DeadlineOfChain ==
  ASSUME ChainInv, ScheduleInv, OnTimeInv, Workable, pc = "scan",
         NEW t \in Chains, NEW k \in 1 .. Len(t), NEW x \in 0 .. Horizon
  PROVE  /\ x <= Until(t[k]) => CanServe(tws, Suffix(t, k), x, Horizon)
         /\ OneWindowEach /\ CanServe(tws, Suffix(t, k), x, Horizon) => x <= Until(t[k])
<1> DEFINE h == Horizon
<1>1. PICK r : r = Suffix(t, k)
  OBVIOUS
<1>2. /\ Len(r) \in Nat \ {0} /\ Len(r) > 1 /\ r[1] = t[k] /\ r[Len(r)] = 0
      /\ \A i \in 1 .. Len(r) - 1 : r[i] \in Customers /\ successors[r[i]] = r[i + 1]
  BY <1>1, SuffixStops
<1>3. 0 \in Index /\ \A c \in Customers : c \in Index
  BY DepotIsNoCustomer
<1>4. \A i \in 1 .. Len(r) : r[i] \in Index
  <2> SUFFICES ASSUME NEW i \in 1 .. Len(r) PROVE r[i] \in Index
    OBVIOUS
  <2>1. i \in 1 .. Len(r) - 1 \/ i = Len(r)
    BY <1>2
  <2> QED
    BY <1>2, <1>3, <2>1
<1>5. h \in Nat /\ h = Latest(tws[0]) /\ Until(0) = h
  <2>1. subroute_tws[0] = tws[0]
    BY DEF ScheduleInv, Active
  <2> QED
    BY <1>3, <2>1, NodeFacts DEF Until, Horizon
<1>6. \A n \in Index : Until(n) \in Nat /\ Until(n) <= h /\ IsOpen(tws[n], Until(n))
  BY <1>5, DeadlineFacts DEF Active
<1> HIDE DEF h
<1>7. ASSUME x <= Until(t[k]) PROVE CanServe(tws, r, x, h)
  <2> DEFINE y == [i \in 1 .. Len(r) |-> Until(r[i])]
  <2>1. \A i \in 1 .. Len(r) : y[i] \in 0 .. h /\ IsOpen(tws[r[i]], y[i])
    <3> SUFFICES ASSUME NEW i \in 1 .. Len(r)
                 PROVE  y[i] \in 0 .. h /\ IsOpen(tws[r[i]], y[i])
      OBVIOUS
    <3>1. y[i] = Until(r[i]) /\ r[i] \in Index
      BY <1>4
    <3> HIDE DEF y
    <3> QED
      BY <1>5, <1>6, <3>1
  <2>2. y[1] >= x
    <3>1. 1 \in 1 .. Len(r)
      BY <1>2
    <3>2. y[1] = Until(t[k]) /\ y[1] \in Nat
      BY <1>2, <1>4, <1>6, <3>1
    <3>3. x \in Nat
      BY <1>5 DEF h
    <3> HIDE DEF y
    <3> QED
      BY <1>7, <3>2, <3>3
  <2>3. ASSUME NEW i \in 1 .. Len(r) - 1
        PROVE  y[i + 1] >= y[i] + (Service[r[i]] + Travel(r[i], r[i + 1]))
    <3> DEFINE c == r[i]
               s == r[i + 1]
               sv == Service[c]
               tr == Travel(c, s)
               a == Until(c)
               b == Until(s)
    <3>1. i \in 1 .. Len(r) /\ i + 1 \in 1 .. Len(r)
      BY <1>2
    <3>2. y[i] = a /\ y[i + 1] = b
      BY <3>1
    <3>3. c \in Customers /\ successors[c] = s /\ c \in Index /\ s \in Index
      BY <1>2, <1>4, <3>1
    <3>4. InTimeFor(c)
      BY <3>3 DEF OnTimeInv, Active, WindowsStale
    <3>5. a \in Nat /\ b \in Nat /\ sv \in Nat /\ tr \in Nat /\ a + sv + tr <= b
      BY <1>6, <3>3, <3>4, NodeFacts DEF InTimeFor
    <3> HIDE DEF a, b, sv, tr, y
    <3>6. b >= a + (sv + tr)
      BY ONLY <3>5
    <3> QED
      BY <3>2, <3>6 DEF sv, tr
  <2> HIDE DEF y
  <2> QED
    BY <1>2, <1>5, <2>1, <2>2, <2>3, ScheduleServes
<1>8. ASSUME OneWindowEach, CanServe(tws, r, x, h) PROVE x <= Until(t[k])
  <2> SUFFICES ASSUME ~(x <= Until(t[k])) PROVE FALSE
    OBVIOUS
  <2> DEFINE B == [i \in 1 .. Len(r) |-> {y \in Nat : IsOpen(tws[r[i]], y) /\ y > Until(r[i])}]
  <2>1. \A y \in Nat : IsOpen(tws[r[1]], y) /\ y >= x => y \in B[1]
    <3> SUFFICES ASSUME NEW y \in Nat, IsOpen(tws[r[1]], y), y >= x PROVE y \in B[1]
      OBVIOUS
    <3>1. 1 \in 1 .. Len(r) /\ x \in Nat /\ Until(r[1]) \in Nat
      BY <1>2, <1>4, <1>5, <1>6 DEF h
    <3>2. y > Until(r[1])
      BY <1>2, <3>1
    <3> QED
      BY <3>1, <3>2
  <2>2. ASSUME NEW i \in 1 .. Len(r) - 1, NEW y \in Nat, NEW u \in B[i],
               IsOpen(tws[r[i + 1]], y), y >= u + (Service[r[i]] + Travel(r[i], r[i + 1]))
        PROVE  y \in B[i + 1]
    <3>1. i \in 1 .. Len(r) /\ i + 1 \in 1 .. Len(r)
      BY <1>2
    <3>2. u \in Nat /\ IsOpen(tws[r[i]], u) /\ u > Until(r[i])
      BY <3>1
    <3>3. r[i] \in Customers /\ successors[r[i]] = r[i + 1] /\ r[i + 1] \in Index /\ r[i] \in Index
      BY <1>2, <1>4, <3>1
    <3> DEFINE z == u + (Service[r[i]] + Travel(r[i], r[i + 1]))
    <3>4. z > Until(r[i + 1])
      BY <1>8, <3>2, <3>3, TooLate
    <3>5. z \in Nat /\ Until(r[i + 1]) \in Nat
      <4>1. Service[r[i]] \in Nat /\ Travel(r[i], r[i + 1]) \in Nat
        BY <3>3, NodeFacts
      <4>2. u + (Service[r[i]] + Travel(r[i], r[i + 1])) \in Nat
        BY ONLY <3>2, <4>1
      <4>3. Until(r[i + 1]) \in Nat
        BY ONLY <1>6, <3>3
      <4> QED
        BY <4>2, <4>3
    <3>6. y > Until(r[i + 1])
      <4>1. y >= z
        BY <2>2
      <4> HIDE DEF z
      <4> QED
        BY <3>4, <3>5, <4>1
    <3> QED
      BY <2>2, <3>1, <3>6
  <2>3. B[Len(r)] = {}
    <3>1. Len(r) \in 1 .. Len(r)
      BY <1>2
    <3>2. ASSUME NEW y \in Nat, IsOpen(tws[0], y) PROVE ~(y > Until(0))
      BY <1>3, <1>5, <3>2, NodeFacts
    <3> QED
      BY <1>2, <3>1, <3>2
  <2> HIDE DEF B
  <2> QED
    BY <1>2, <1>5, <1>8, <2>1, <2>2, <2>3, ServedWithin
<1> QED
  BY <1>1, <1>7, <1>8 DEF h

\* Whenever the next saving is read, the demands and departure times are those
\* of the routes as vrptw_solution_is_feasible computes them, and the deadlines
\* are those of the reference CanServe.
THEOREM MetaDataExact == Spec => []MetaExact
<1>1. RouteInv /\ ScheduleInv /\ OnTimeInv => DeadlineExact
  <2> SUFFICES ASSUME RouteInv, ScheduleInv, OnTimeInv, pc = "scan", AllServable,
                      AllWindowed, NEW t \in Chains, NEW k \in DOMAIN t, NEW x \in 0 .. Horizon
               PROVE  /\ x <= Latest(subroute_tws[t[k]]) => CanServe(tws, Suffix(t, k), x, Horizon)
                      /\ OneWindowEach /\ CanServe(tws, Suffix(t, k), x, Horizon)
                           => x <= Latest(subroute_tws[t[k]])
    BY DEF DeadlineExact
  <2>1. ChainInv /\ Workable
    BY DEF RouteInv, Workable
  <2>2. k \in 1 .. Len(t)
    BY <2>1, RouteParts
  <2> QED
    BY <2>1, <2>2, DeadlineOfChain DEF Until
<1>2. Init => ScheduleInv /\ OnTimeInv
  BY DEF Init, ScheduleInv, OnTimeInv, Active
<1>3. ScheduleExact /\ DeadlineExact => MetaExact
  BY DEF MetaExact
<1> QED
  BY <1>1, <1>2, <1>3, ScheduleStep, OnTimeStep, RoutesSound, ScheduleSound, PTL DEF Spec

-----------------------------------------------------------------------------
(***************************************************************************)
(* Merging is maximal.  Where no visit on the way saves time, a merge only *)
(* makes departures later, deadlines earlier and demands larger, so the    *)
(* reason for which two routes were not joined keeps them apart.           *)
(***************************************************************************)
\* The models for which this is so
Metric == Workable /\ NoShortcuts

\* A customer is not left later than its predecessor makes necessary, nor
\* sooner than from the depot.
LeftInTime(c) ==
  /\ \A x \in Nat :
       /\ IsOpen(tws[c], x)
       /\ departure[predecessors[c]] + Travel(predecessors[c], c) <= x
       => departure[c] <= x + Service[c]
  /\ DepotDeparture(tws) + Travel(0, c) + Service[c] <= departure[c]

\* Its deadline is not sooner than its successor makes necessary, nor too late
\* to return to the depot.
DueInTime(c) ==
  /\ \A x \in Nat :
       /\ x <= ConsideredEnd(c)
       /\ x + Service[c] + Travel(c, successors[c]) <= Until(successors[c])
       => x <= Until(c)
  /\ Until(c) + Service[c] + Travel(c, 0) <= Latest(tws[0])

LagInv ==
  Metric /\ pc \in Active => \A c \in Customers : LeftInTime(c) /\ DueInTime(c)

\* No customer takes the demand of its route for larger than it is.
DemandBoundInv ==
  pc \in Active =>
    \A t \in Chains : \A k \in 1 .. Len(t) : route_demands[t[k]] <= Load(t)

\* Why the routes that a ends and b begins are not joined
Blocked(a, b) ==
  \/ successors[a] # 0 \/ predecessors[b] # 0
  \/ \E t \in Chains : t[1] = b /\ t[Len(t)] = a
  \/ route_demands[a] + route_demands[b] > Capacity
  \/ departure[a] + Travel(a, b) > Until(b)

BlockedInv ==
  /\ pc = "build" => savings = {}
  /\ Metric /\ pc \in Active =>
       \A p \in Pairs \ savings :
         \/ Blocked(p[1], p[2])
         \/ pc = "walk_back" /\ p[1] = last_visit /\ p[2] = first_visit

\* The walk back decides about the end of one route and the beginning of one.
LEMMA EndsAtDecision ==
  ASSUME RouteInv, pc = "walk_back"
  PROVE  successors[last_visit] = 0 /\ predecessors[first_visit] = 0
<1>1. ChainInv /\ WalkInv
  BY DEF RouteInv
<1>2. PICK t \in Chains : t[Len(t)] = last_visit
  BY <1>1 DEF WalkInv
<1>3. PICK u \in Chains : u[1] = first_visit
  BY <1>1 DEF WalkInv
<1>4. successors[t[Len(t)]] = 0 /\ predecessors[u[1]] = 0
  BY <1>1, RouteParts
<1> QED
  BY <1>2, <1>3, <1>4

\* What is known of a customer of such a model.
LEMMA LagFacts ==
  ASSUME RouteInv, ScheduleInv, OnTimeInv, LagInv, Metric, pc \in Active,
         NEW c \in Customers
  PROVE  /\ ChainInv /\ Workable /\ c \in Index
         /\ LeftInTime(c) /\ DueInTime(c)
         /\ OnTime(c) /\ DepartureBounds(c) /\ WindowBounds(c)
         /\ departure[c] \in Nat /\ Until(c) \in Nat
         /\ DepotDeparture(tws) \in Nat /\ departure[0] = DepotDeparture(tws)
         /\ predecessors[c] \in Index /\ departure[predecessors[c]] \in Nat
         /\ successors[c] \in Index /\ Until(successors[c]) \in Nat
<1>1. ChainInv /\ Workable
  BY DEF RouteInv, Metric
<1>2. \A x \in Customers : OnTime(x) /\ DepartureBounds(x) /\ WindowBounds(x)
  BY <1>1 DEF OnTimeInv
<1>3. DepotDeparture(tws) \in Nat /\ departure[0] = DepotDeparture(tws)
  <2>1. departure[0] = DepotDeparture(tws)
    BY DEF ScheduleInv
  <2> QED
    BY <1>1, <2>1, ServedAlone
<1>4. \A n \in Index : departure[n] \in Nat /\ Until(n) \in Nat
  <2> SUFFICES ASSUME NEW n \in Index PROVE departure[n] \in Nat /\ Until(n) \in Nat
    OBVIOUS
  <2>1. n \in Customers \/ n = 0
    BY DepotIsNoCustomer
  <2>2. Until(n) \in Nat
    BY <1>1, DeadlineFacts
  <2>3. departure[n] \in Nat
    BY <1>2, <1>3, <2>1 DEF DepartureBounds
  <2> QED
    BY <2>2, <2>3
<1>5. predecessors[c] \in Index /\ successors[c] \in Index /\ c \in Index
  BY <1>1, Neighbours, DepotIsNoCustomer
<1>6. LeftInTime(c) /\ DueInTime(c)
  BY DEF LagInv
<1> QED
  BY <1>1, <1>2, <1>3, <1>4, <1>5, <1>6

\* With the first data, no customer leaves late or is due early.
LEMMA StartLambdaLags ==
  ASSUME RouteInv, StartLambda
  PROVE  LagInv'
<1> SUFFICES ASSUME Metric, pc' \in Active, NEW c \in Customers
             PROVE  LeftInTime(c)' /\ DueInTime(c)'
  <2>1. tws' = tws
    BY DEF StartLambda, model
  <2>2. Metric' <=> Metric
    BY <2>1, SameModel DEF Metric, NoShortcuts
  <2> QED
    BY <2>2 DEF LagInv
<1> DEFINE dd == DepotDeparture(tws)
           d == DepartureTime(tws, c, 0, dd)
           w == SubrouteTws(tws, c, 0, tws[0])
<1>1. /\ predecessors'[c] = 0 /\ successors'[c] = 0 /\ tws' = tws
      /\ departure'[c] = d /\ departure'[0] = dd
      /\ subroute_tws'[c] = w /\ subroute_tws'[0] = tws[0]
  <2>1. 0 \in Index /\ c \in Index /\ c # 0
    BY DepotIsNoCustomer
  <2> QED
    BY <2>1 DEF StartLambda, model, Unlinked
<1>2. ChainInv /\ Workable /\ c \in Index /\ 0 \in Index
  BY DepotIsNoCustomer DEF RouteInv, Metric
<1>3. /\ d \in Nat /\ d + Travel(c, 0) <= Latest(tws[0])
      /\ Earliest(tws[c]) + Service[c] <= d
      /\ Latest(w) \in Nat /\ Latest(w) + Service[c] + Travel(c, 0) <= Latest(tws[0])
      /\ dd \in Nat /\ dd + Travel(0, c) <= Latest(tws[c])
  BY <1>2, ServedAlone
<1>4. PICK service \in Nat :
        /\ d = service + Service[c] /\ dd + Travel(0, c) <= service
        /\ \A x \in Nat : IsOpen(tws[c], x) /\ dd + Travel(0, c) <= x => service <= x
  BY <1>2, <1>3, DepartsOnTime
<1>5. Service[c] \in Nat /\ Travel(0, c) \in Nat
  BY <1>2, NodeFacts
<1>6. \A x \in Nat : x <= ConsideredEnd(c) /\ x + Service[c] + Travel(c, 0) <= Latest(tws[0])
                       => x <= Latest(w)
  <2>1. Latest(tws[0]) \in Nat /\ Latest(tws[0]) < SIZE_NONE
    <3>1. /\ Latest(tws[0]) \in Nat /\ Service[0] \in Nat /\ SIZE_NONE \in Nat
          /\ Latest(tws[0]) + Service[0] < SIZE_NONE
      BY <1>2, NodeFacts
    <3> QED
      BY <3>1
  <2> HIDE DEF d
  <2> QED
    BY <1>2, <1>3, <2>1, WindowsInTime
<1> HIDE DEF dd, d, w
<1>7. /\ \A x \in Nat : IsOpen(tws[c], x) /\ dd + Travel(0, c) <= x => d <= x + Service[c]
      /\ dd + Travel(0, c) + Service[c] <= d
  BY <1>3, <1>4, <1>5
<1>8. LeftInTime(c)'
  BY <1>1, <1>7 DEF LeftInTime, dd
<1>9. DueInTime(c)'
  BY <1>1, <1>3, <1>6, SameWindows DEF DueInTime, Until
<1> QED
  BY <1>8, <1>9

\* A merge makes a detour of the way to the second route and of the way back
\* from the first one.
LEMMA MergeLags ==
  ASSUME RouteInv, ScheduleInv, OnTimeInv, LagInv, Merge
  PROVE  LagInv'
<1> SUFFICES ASSUME Metric, NEW c \in Customers
             PROVE  LeftInTime(c)' /\ DueInTime(c)'
  <2>1. tws' = tws
    BY DEF Merge, model
  <2>2. Metric' <=> Metric
    BY <2>1, SameModel DEF Metric, NoShortcuts
  <2> QED
    BY <2>2 DEF LagInv
<1> DEFINE a == last_visit
           b == first_visit
<1>1. /\ pc \in Active /\ a \in Customers /\ b \in Customers
      /\ predecessors' = [predecessors EXCEPT ![b] = a]
      /\ successors' = [successors EXCEPT ![a] = b]
      /\ tws' = tws /\ departure' = departure /\ subroute_tws' = subroute_tws
  BY DEF Merge, RouteInv, ChainInv, Active, model, meta
<1>2. DOMAIN predecessors = Customers /\ DOMAIN successors = Customers
  BY Neighbours DEF RouteInv
<1>3. predecessors[b] = 0 /\ successors[a] = 0
  BY EndsAtDecision DEF Merge
<1>4. /\ ChainInv /\ Workable /\ a \in Index /\ b \in Index /\ 0 \in Index
  BY <1>1, LagFacts, DepotIsNoCustomer
<1>5. /\ LeftInTime(c) /\ DueInTime(c)
      /\ DepotDeparture(tws) \in Nat /\ departure[0] = DepotDeparture(tws)
  BY <1>1, LagFacts
<1>6. /\ DepotDeparture(tws) + Travel(0, a) + Service[a] <= departure[a]
      /\ departure[a] \in Nat
  BY <1>1, LagFacts DEF LeftInTime
<1>7. Until(b) + Service[b] + Travel(b, 0) <= Latest(tws[0]) /\ Until(b) \in Nat
  BY <1>1, LagFacts DEF DueInTime
<1>8. /\ Travel(0, a) \in Nat /\ Travel(a, b) \in Nat /\ Travel(0, b) \in Nat
      /\ Travel(b, 0) \in Nat /\ Travel(a, 0) \in Nat
      /\ Travel(0, b) <= Travel(0, a) + Service[a] + Travel(a, b)
      /\ Travel(a, 0) <= Travel(a, b) + Service[b] + Travel(b, 0)
      /\ Service[b] \in Nat /\ Service[a] \in Nat /\ Latest(tws[0]) \in Nat
  <2>1. \A x, y \in Index, m \in Customers :
          Travel(x, y) <= Travel(x, m) + Service[m] + Travel(m, y)
    BY DEF Metric, NoShortcuts
  <2>2. /\ Travel(0, b) <= Travel(0, a) + Service[a] + Travel(a, b)
        /\ Travel(a, 0) <= Travel(a, b) + Service[b] + Travel(b, 0)
    BY <1>1, <1>4, <2>1
  <2>3. \A n \in Index : Service[n] \in Nat /\ Latest(tws[n]) \in Nat
    BY <1>4, NodeFacts
  <2> QED
    BY <1>4, <2>2, <2>3, TravelNat
<1>9. LeftInTime(c)'
  <2>1. CASE c = b
    <3>1. \A x \in Nat : departure[a] + Travel(a, b) <= x
                           => DepotDeparture(tws) + Travel(0, b) <= x
      <4> DEFINE dd == DepotDeparture(tws)
                 da == departure[a]
                 oa == Travel(0, a)
                 sa == Service[a]
                 ab == Travel(a, b)
                 ob == Travel(0, b)
      <4>1. /\ dd \in Nat /\ da \in Nat /\ oa \in Nat /\ ab \in Nat /\ ob \in Nat
            /\ sa \in Nat /\ dd + oa + sa <= da /\ ob <= oa + sa + ab
        BY <1>5, <1>6, <1>8
      <4> HIDE DEF dd, da, oa, sa, ab, ob
      <4>2. \A x \in Nat : da + ab <= x => dd + ob <= x
        BY ONLY <4>1
      <4> QED
        BY <4>2 DEF dd, da, ab, ob
    <3>2. predecessors'[b] = a
      BY <1>1, <1>2
    <3> HIDE DEF a, b
    <3>3. /\ \A x \in Nat : IsOpen(tws[b], x) /\ departure[0] + Travel(0, b) <= x
                              => departure[b] <= x + Service[b]
          /\ DepotDeparture(tws) + Travel(0, b) + Service[b] <= departure[b]
      BY <1>3, <1>5, <2>1 DEF LeftInTime
    <3>4. \A x \in Nat : IsOpen(tws[b], x) /\ departure[a] + Travel(a, b) <= x
                           => departure[b] <= x + Service[b]
      BY ONLY <1>5, <3>1, <3>3
    <3> QED
      BY <1>1, <2>1, <3>2, <3>3, <3>4 DEF LeftInTime
  <2>2. CASE c # b
    <3>1. predecessors'[c] = predecessors[c]
      BY <1>1, <1>2, <2>2
    <3> QED
      BY <1>1, <1>5, <3>1 DEF LeftInTime
  <2> QED
    BY <2>1, <2>2
<1>10. DueInTime(c)'
  <2>1. CASE c = a
    <3>1. \A x \in Nat : x + Service[a] + Travel(a, b) <= Until(b)
                           => x + Service[a] + Travel(a, 0) <= Latest(tws[0])
      <4> DEFINE ub == Until(b)
                 sa == Service[a]
                 sb == Service[b]
                 ab == Travel(a, b)
                 bo == Travel(b, 0)
                 ao == Travel(a, 0)
                 h == Latest(tws[0])
      <4>1. /\ ub \in Nat /\ sa \in Nat /\ sb \in Nat /\ ab \in Nat /\ bo \in Nat /\ ao \in Nat
            /\ h \in Nat /\ ub + sb + bo <= h /\ ao <= ab + sb + bo
        BY <1>7, <1>8
      <4> HIDE DEF ub, sa, sb, ab, bo, ao, h
      <4>2. \A x \in Nat : x + sa + ab <= ub => x + sa + ao <= h
        BY ONLY <4>1
      <4> QED
        BY <4>2 DEF ub, sa, ab, ao, h
    <3>2. successors'[a] = b
      BY <1>1, <1>2
    <3>3. Until(0) = Latest(tws[0])
      BY <1>1 DEF Until, ScheduleInv
    <3>4. ConsideredEnd(c)' = ConsideredEnd(c)
      BY <1>1, SameWindows
    <3> HIDE DEF a, b
    <3>5. /\ \A x \in Nat : /\ x <= ConsideredEnd(a)
                            /\ x + Service[a] + Travel(a, 0) <= Latest(tws[0])
                            => x <= Until(a)
          /\ Until(a) + Service[a] + Travel(a, 0) <= Latest(tws[0])
      BY <1>3, <1>5, <2>1, <3>3 DEF DueInTime
    <3>6. \A x \in Nat : x <= ConsideredEnd(a) /\ x + Service[a] + Travel(a, b) <= Until(b)
                           => x <= Until(a)
      BY ONLY <3>1, <3>5
    <3> QED
      BY <1>1, <2>1, <3>2, <3>4, <3>5, <3>6 DEF DueInTime, Until
  <2>2. CASE c # a
    <3>1. successors'[c] = successors[c]
      BY <1>1, <1>2, <2>2
    <3> QED
      BY <1>1, <1>5, <3>1, SameWindows DEF DueInTime, Until
  <2> QED
    BY <2>1, <2>2
<1> QED
  BY <1>9, <1>10

\* Renewing a departure puts it off, if anything.
LEMMA PassOnDepartureLags ==
  ASSUME RouteInv, ScheduleInv, OnTimeInv, LagInv, PassOnDeparture, Metric
  PROVE  /\ \A n \in Index : departure'[n] \in Nat /\ departure[n] <= departure'[n]
         /\ \A c \in Customers : LeftInTime(c)' /\ DueInTime(c)'
<1> DEFINE p == predecessors[node]
           new == DepartureTime(tws, node, p, departure[p])
<1>1. /\ pc = "departures" /\ pc \in Active
      /\ departure' = [departure EXCEPT ![node] = new]
      /\ UNCHANGED <<tws, predecessors, successors, subroute_tws>>
  BY DEF PassOnDeparture, Active, model, chains
<1>2. /\ node \in Customers /\ node \in Index /\ node # 0 /\ p \in Customers /\ p \in Index
      /\ DOMAIN departure = Index
      /\ \A c \in Customers : c \in Index
  BY <1>1, BehindMerge, DepotIsNoCustomer DEF ScheduleInv
<1>3. \A c \in Customers :
        /\ LeftInTime(c) /\ DueInTime(c) /\ OnTime(c)
        /\ departure[c] \in Nat /\ predecessors[c] \in Index
        /\ departure[predecessors[c]] \in Nat
  BY <1>1, LagFacts
<1>4. /\ ChainInv /\ Workable
      /\ departure[0] \in Nat /\ DepotDeparture(tws) \in Nat
  BY <1>1, <1>2, LagFacts
<1>5. successors[p] = node /\ p # node
  BY <1>2, <1>4, Neighbours
<1>6. /\ departure[p] \in Nat /\ departure[p] + Travel(p, node) <= Until(node)
      /\ Until(node) \in Nat /\ Until(node) <= Latest(tws[node])
      /\ Latest(tws[node]) \in Nat /\ Service[node] \in Nat
      /\ Travel(p, node) \in Nat /\ Travel(0, node) \in Nat
  <2>1. OnTime(p) /\ departure[p] \in Nat
    BY <1>2, <1>3
  <2>2. Until(node) \in Nat /\ Until(node) <= Latest(tws[node])
    BY <1>1, <1>2, <1>4, DeadlineFacts
  <2>3. 0 \in Index
    BY DepotIsNoCustomer
  <2>4. Latest(tws[node]) \in Nat /\ Service[node] \in Nat
    BY <1>2, <1>4, NodeFacts
  <2> QED
    BY <1>2, <1>5, <2>1, <2>2, <2>3, <2>4, TravelNat DEF OnTime
<1> HIDE DEF p
<1>7. PICK service \in Nat :
        /\ new = service + Service[node] /\ departure[p] + Travel(p, node) <= service
        /\ IsOpen(tws[node], service)
        /\ \A x \in Nat : IsOpen(tws[node], x) /\ departure[p] + Travel(p, node) <= x
                            => service <= x
  <2>1. departure[p] + Travel(p, node) <= Latest(tws[node])
    <3> DEFINE d == departure[p]
               tr == Travel(p, node)
               un == Until(node)
               l == Latest(tws[node])
    <3>1. d \in Nat /\ tr \in Nat /\ un \in Nat /\ l \in Nat /\ d + tr <= un /\ un <= l
      BY <1>6
    <3> HIDE DEF d, tr, un, l
    <3>2. d + tr <= l
      BY ONLY <3>1
    <3> QED
      BY <3>2 DEF d, tr, l
  <2> QED
    BY <1>2, <1>4, <1>6, <2>1, DepartsOnTime
<1> HIDE DEF new
<1>8. /\ departure[node] <= new /\ new \in Nat
      /\ DepotDeparture(tws) + Travel(0, node) + Service[node] <= departure[node]
  <2>1. LeftInTime(node)
    BY <1>2, <1>3
  <2>2. departure[node] <= service + Service[node]
    BY <1>7, <2>1 DEF LeftInTime, p
  <2> QED
    BY <1>6, <1>7, <2>1, <2>2 DEF LeftInTime
<1>9. departure'[node] = new /\ \A n \in Index : n # node => departure'[n] = departure[n]
  BY <1>1, <1>2
<1>10. ASSUME NEW n \in Index PROVE departure'[n] \in Nat /\ departure[n] <= departure'[n]
  <2>1. n = 0 \/ n \in Customers
    BY DepotIsNoCustomer
  <2>2. departure[n] \in Nat
    BY <1>3, <1>4, <2>1
  <2> QED
    BY <1>8, <1>9, <2>2
<1>11. ASSUME NEW c \in Customers PROVE DueInTime(c)'
  <2>1. DueInTime(c)
    BY <1>3
  <2> QED
    BY <1>1, <2>1, SameWindows DEF DueInTime, Until
<1>12. ASSUME NEW c \in Customers PROVE LeftInTime(c)'
  <2>1. CASE c = node
    <3>1. predecessors'[c] = p /\ departure'[p] = departure[p] /\ departure'[c] = new
      BY <1>1, <1>2, <1>5, <1>9, <2>1 DEF p
    <3>2. \A x \in Nat : IsOpen(tws[node], x) /\ departure[p] + Travel(p, node) <= x
                           => new <= x + Service[node]
      BY <1>6, <1>7
    <3>3. DepotDeparture(tws) + Travel(0, node) + Service[node] <= new
      <4> DEFINE dd == DepotDeparture(tws)
                 tr == Travel(0, node)
                 s == Service[node]
                 d == departure[node]
      <4>1. /\ dd \in Nat /\ tr \in Nat /\ s \in Nat /\ d \in Nat /\ new \in Nat
            /\ dd + tr + s <= d /\ d <= new
        BY <1>2, <1>3, <1>4, <1>6, <1>8
      <4> HIDE DEF dd, tr, s, d
      <4>2. dd + tr + s <= new
        BY ONLY <4>1
      <4> QED
        BY <4>2 DEF dd, tr, s
    <3> QED
      BY <1>1, <2>1, <3>1, <3>2, <3>3 DEF LeftInTime
  <2>2. CASE c # node
    <3> DEFINE q == predecessors[c]
    <3>1. q \in Index /\ LeftInTime(c) /\ Travel(q, c) \in Nat
      BY <1>2, <1>3, TravelNat
    <3>2. departure'[q] \in Nat /\ departure[q] \in Nat /\ departure[q] <= departure'[q]
      BY <1>3, <1>10, <3>1
    <3>3. departure'[c] = departure[c] /\ predecessors'[c] = q
      BY <1>1, <1>2, <1>9, <2>2
    <3>4. \A x \in Nat : departure'[q] + Travel(q, c) <= x => departure[q] + Travel(q, c) <= x
      <4> DEFINE d == departure[q]
                 e == departure'[q]
                 tr == Travel(q, c)
      <4>1. d \in Nat /\ e \in Nat /\ tr \in Nat /\ d <= e
        BY <3>1, <3>2
      <4> HIDE DEF d, e, tr
      <4>2. \A x \in Nat : e + tr <= x => d + tr <= x
        BY ONLY <4>1
      <4> QED
        BY <4>2 DEF d, e, tr
    <3>5. /\ \A x \in Nat : IsOpen(tws[c], x) /\ departure[q] + Travel(q, c) <= x
                              => departure[c] <= x + Service[c]
          /\ DepotDeparture(tws) + Travel(0, c) + Service[c] <= departure[c]
      BY <3>1 DEF LeftInTime
    <3> HIDE DEF q
    <3>6. \A x \in Nat : IsOpen(tws[c], x) /\ departure'[q] + Travel(q, c) <= x
                              => departure[c] <= x + Service[c]
      BY ONLY <3>4, <3>5
    <3> QED
      BY <1>1, <3>3, <3>5, <3>6 DEF LeftInTime
  <2> QED
    BY <2>1, <2>2
<1> QED
  BY <1>10, <1>11, <1>12

\* Renewing windows brings the deadline forward, if anything.
LEMMA PassOnWindowsLags ==
  ASSUME RouteInv, ScheduleInv, OnTimeInv, LagInv, PassOnWindows, Metric
  PROVE  /\ \A n \in Index : Until(n)' \in Nat /\ Until(n)' <= Until(n)
         /\ \A c \in Customers : LeftInTime(c)' /\ DueInTime(c)'
<1> DEFINE s == successors[node]
           new == SubrouteTws(tws, node, s, subroute_tws[s])
           until == Latest(new)
<1>1. /\ pc = "windows" /\ pc \in Active
      /\ subroute_tws' = [subroute_tws EXCEPT ![node] = new]
      /\ UNCHANGED <<tws, predecessors, successors, departure>>
  BY DEF PassOnWindows, NewWindows, Active, model, chains
<1>2. /\ node \in Customers /\ node \in Index /\ node # 0 /\ s \in Index
      /\ DOMAIN subroute_tws = Index
      /\ \A c \in Customers : c \in Index /\ successors[c] \in Index
  BY <1>1, Neighbours, DepotIsNoCustomer DEF RouteInv, ChainInv, ScheduleInv
<1>3. \A c \in Customers : LeftInTime(c) /\ DueInTime(c) /\ OnTime(c) /\ DepartureBounds(c)
  BY <1>1, LagFacts
<1>4. ChainInv /\ Workable
  BY <1>1, <1>2, LagFacts
<1>5. \A n \in Index : Until(n) \in Nat /\ Until(n) < SIZE_NONE
  BY <1>1, <1>4, DeadlineFacts
<1>6. s # node
  BY <1>2, <1>4, Neighbours
<1>7. /\ until \in Nat /\ until <= ConsideredEnd(node)
      /\ until + Service[node] + Travel(node, s) <= Until(s)
      /\ \A x \in Nat : x <= ConsideredEnd(node) /\ x + Service[node] + Travel(node, s) <= Until(s)
                          => x <= until
  <2>1. OnTime(node) /\ DepartureBounds(node)
    BY <1>2, <1>3
  <2>2. /\ departure[node] \in Nat /\ Earliest(tws[node]) + Service[node] <= departure[node]
        /\ departure[node] + Travel(node, s) <= Until(s)
    BY <2>1 DEF OnTime, DepartureBounds
  <2> HIDE DEF s
  <2> QED
    BY <1>2, <1>4, <1>5, <2>2, WindowsInTime DEF Until
<1>8. until <= Until(node)
  <2>1. DueInTime(node)
    BY <1>2, <1>3
  <2> QED
    BY <1>7, <2>1 DEF DueInTime
<1> HIDE DEF new
<1>9. /\ subroute_tws'[node] = new
      /\ \A n \in Index : n # node => subroute_tws'[n] = subroute_tws[n]
  BY <1>1, <1>2
<1>10. ASSUME NEW n \in Index
       PROVE  /\ Latest(subroute_tws'[n]) \in Nat /\ Latest(subroute_tws'[n]) <= Until(n)
  <2>1. CASE n = node
    BY <1>7, <1>8, <1>9, <2>1
  <2>2. CASE n # node
    <3>1. Latest(subroute_tws'[n]) = Until(n)
      BY <1>9, <2>2 DEF Until
    <3>2. Until(n) \in Nat
      BY <1>5
    <3> QED
      BY <3>1, <3>2
  <2> QED
    BY <2>1, <2>2
<1>11. ASSUME NEW c \in Customers PROVE LeftInTime(c)'
  BY <1>1, <1>3 DEF LeftInTime
<1>12. ASSUME NEW c \in Customers PROVE DueInTime(c)'
  <2> DEFINE t == successors[c]
             u == Latest(subroute_tws'[t])
  <2>1. /\ c \in Index /\ t \in Index /\ DueInTime(c)
        /\ Service[c] \in Nat /\ Travel(c, t) \in Nat /\ Travel(c, 0) \in Nat
        /\ Latest(tws[0]) \in Nat
    <3>1. 0 \in Index
      BY DepotIsNoCustomer
    <3> QED
      BY <1>2, <1>3, <1>4, <3>1, NodeFacts
  <2>2. u \in Nat /\ u <= Until(t) /\ Until(t) \in Nat /\ Until(c) \in Nat
    BY <1>5, <1>10, <2>1
  <2>3. Latest(subroute_tws'[c]) \in Nat /\ Latest(subroute_tws'[c]) <= Until(c)
    BY <1>10, <2>1
  <2>4. successors'[c] = t /\ ConsideredEnd(c)' = ConsideredEnd(c)
    BY <1>1, SameWindows
  <2>5. /\ \A x \in Nat : x <= ConsideredEnd(c) /\ x + Service[c] + Travel(c, t) <= Until(t)
                             => x <= Until(c)
        /\ Until(c) + Service[c] + Travel(c, 0) <= Latest(tws[0])
    BY <2>1 DEF DueInTime
  <2>6. Latest(subroute_tws'[c]) + Service[c] + Travel(c, 0) <= Latest(tws[0])
    <3> DEFINE a == Latest(subroute_tws'[c])
               b == Until(c)
               sv == Service[c]
               tr == Travel(c, 0)
               h == Latest(tws[0])
    <3>1. /\ a \in Nat /\ b \in Nat /\ sv \in Nat /\ tr \in Nat /\ h \in Nat
          /\ a <= b /\ b + sv + tr <= h
      BY <2>1, <2>2, <2>3, <2>5
    <3> HIDE DEF a, b, sv, tr, h
    <3>2. a + sv + tr <= h
      BY ONLY <3>1
    <3> QED
      BY <3>2 DEF a, sv, tr, h
  <2>7. \A x \in Nat : x <= ConsideredEnd(c) /\ x + Service[c] + Travel(c, t) <= u
                        => x <= Latest(subroute_tws'[c])
    <3>1. CASE c = node
      <4>1. t = s /\ subroute_tws'[t] = subroute_tws[t] /\ subroute_tws'[c] = new
        BY <1>2, <1>6, <1>9, <3>1
      <4> QED
        BY <1>7, <3>1, <4>1 DEF Until
    <3>2. CASE c # node
      <4>1. Latest(subroute_tws'[c]) = Until(c)
        BY <1>9, <2>1, <3>2 DEF Until
      <4>2. \A x \in Nat : x + Service[c] + Travel(c, t) <= u
                            => x + Service[c] + Travel(c, t) <= Until(t)
        <5> DEFINE sv == Service[c]
                   tr == Travel(c, t)
                   v == Until(t)
        <5>1. sv \in Nat /\ tr \in Nat /\ v \in Nat /\ u \in Nat /\ u <= v
          BY <2>1, <2>2
        <5> HIDE DEF sv, tr, v, u
        <5>2. \A x \in Nat : x + sv + tr <= u => x + sv + tr <= v
          BY ONLY <5>1
        <5> QED
          BY <5>2 DEF sv, tr, v
      <4> HIDE DEF u
      <4> QED
        BY ONLY <2>5, <4>1, <4>2
    <3> QED
      BY <3>1, <3>2
  <2> HIDE DEF t
  <2> QED
    BY <1>1, <2>4, <2>6, <2>7 DEF DueInTime, Until
<1>13. \A n \in Index : Until(n)' \in Nat /\ Until(n)' <= Until(n)
  BY <1>10 DEF Until
<1> QED
  BY <1>11, <1>12, <1>13

\* No step makes LagInv false.
LEMMA LagStep ==
  RouteInv /\ ScheduleInv /\ OnTimeInv /\ LagInv /\ [Next]_vars => LagInv'
<1> SUFFICES ASSUME RouteInv, ScheduleInv, OnTimeInv, LagInv, [Next]_vars PROVE LagInv'
  OBVIOUS
<1>0. tws' = tws
  BY DEF Next, StartLambda, SkipSaving, TakeSaving, WalkBack, Reject, Merge, PassOnDeparture,
         PassOnWindows, PassOnWindowsAborts, StartBuild, BuildRoute, EndLambda, model, vars
<1>1. Metric' <=> Metric
  BY <1>0, SameModel DEF Metric, NoShortcuts
<1>2. ASSUME UNCHANGED <<predecessors, successors, departure, subroute_tws>>,
             pc' \in Active => pc \in Active
      PROVE  LagInv'
  <2> SUFFICES ASSUME Metric, pc' \in Active, NEW c \in Customers
               PROVE  LeftInTime(c)' /\ DueInTime(c)'
    BY <1>1 DEF LagInv
  <2>1. LeftInTime(c) /\ DueInTime(c)
    BY <1>2 DEF LagInv
  <2> QED
    BY <1>0, <1>2, <2>1, SameWindows DEF LeftInTime, DueInTime, Until
<1>3. CASE StartLambda
  BY <1>3, StartLambdaLags
<1>4. CASE Merge
  BY <1>4, MergeLags
<1>5. CASE PassOnDeparture
  <2>1. Metric => LagInv'
    BY <1>5, PassOnDepartureLags DEF LagInv
  <2> QED
    BY <1>1, <2>1 DEF LagInv
<1>6. CASE PassOnWindows
  <2>1. Metric => LagInv'
    BY <1>6, PassOnWindowsLags DEF LagInv
  <2> QED
    BY <1>1, <2>1 DEF LagInv
<1>7. CASE ~(StartLambda \/ Merge \/ PassOnDeparture \/ PassOnWindows)
  <2>1. UNCHANGED <<predecessors, successors, departure, subroute_tws>>
    BY <1>7 DEF Next, SkipSaving, TakeSaving, WalkBack, Reject, PassOnWindowsAborts, StartBuild,
                BuildRoute, EndLambda, chains, meta, vars
  <2>2. pc' \in Active => pc \in Active
    BY <1>7 DEF Next, SkipSaving, TakeSaving, WalkBack, Reject, PassOnWindowsAborts, StartBuild,
                BuildRoute, EndLambda, vars, Active
  <2> QED
    BY <1>2, <2>1, <2>2
<1> QED
  BY <1>3, <1>4, <1>5, <1>6, <1>7

\* The walks raise the demands they hand on, never above that of the route.
LEMMA PassOnDemands ==
  ASSUME RouteInv, DemandBoundInv, PassOnDeparture \/ PassOnWindows
  PROVE  /\ Chains' = Chains
         /\ \A c \in Customers : route_demands[c] <= route_demands'[c]
         /\ \A t \in Chains : \A k \in 1 .. Len(t) : route_demands'[t[k]] <= Load(t)
<1>1. /\ pc \in {"departures", "windows"} /\ pc \in Active
      /\ route_demands' = [route_demands EXCEPT ![node] = new_demand]
      /\ UNCHANGED <<predecessors, successors>>
  BY DEF PassOnDeparture, PassOnWindows, Active, chains
<1>2. /\ ChainInv /\ DepartureWalkInv /\ WindowWalkInv
      /\ route_demands \in [Customers -> Nat]
  BY DEF RouteInv, ChainInv
<1>3. PICK t \in Chains : \E a, m \in 1 .. Len(t) : IsMerged(t, a, m)
  BY <1>1, <1>2 DEF DepartureWalkInv, WindowWalkInv
<1>4. PICK m \in 1 .. Len(t) : t[m] = node /\ new_demand = Load(t)
  BY <1>3 DEF IsMerged
<1>5. \A u \in Chains : \A k \in 1 .. Len(u) :
        /\ u[k] \in Customers /\ route_demands[u[k]] <= Load(u)
        /\ u[k] = node => Load(u) = new_demand
  <2> SUFFICES ASSUME NEW u \in Chains, NEW k \in 1 .. Len(u)
               PROVE  /\ u[k] \in Customers /\ route_demands[u[k]] <= Load(u)
                      /\ u[k] = node => Load(u) = new_demand
    OBVIOUS
  <2>1. u[k] \in Customers /\ route_demands[u[k]] <= Load(u)
    BY <1>1, <1>2, RouteParts DEF DemandBoundInv
  <2>2. u[k] = node => u = t
    BY <1>2, <1>4, RoutesDisjoint
  <2> QED
    BY <1>4, <2>1, <2>2
<1>6. Chains' = Chains
  BY <1>1 DEF Chains
<1>7. Load(t) \in Nat /\ node \in Customers /\ route_demands[node] <= new_demand
  <2>1. t \in Seq(Index)
    BY <1>2, RouteParts, LoadFacts
  <2> QED
    BY <1>4, <1>5, <2>1, LoadFacts
<1>8. ASSUME NEW c \in Customers PROVE route_demands[c] <= route_demands'[c]
  <2>1. route_demands[c] \in Nat
    BY <1>2
  <2>2. route_demands'[c] = IF c = node THEN new_demand ELSE route_demands[c]
    BY <1>1, <1>2
  <2> QED
    BY <1>7, <2>1, <2>2
<1>9. ASSUME NEW u \in Chains, NEW k \in 1 .. Len(u) PROVE route_demands'[u[k]] <= Load(u)
  <2>1. /\ u[k] \in Customers /\ route_demands[u[k]] <= Load(u)
        /\ u[k] = node => Load(u) = new_demand
    BY <1>5
  <2>2. route_demands'[u[k]] = IF u[k] = node THEN new_demand ELSE route_demands[u[k]]
    BY <1>1, <1>2, <2>1
  <2> QED
    BY <1>4, <1>7, <2>1, <2>2
<1> QED
  BY <1>6, <1>8, <1>9

\* No step makes DemandBoundInv false.
LEMMA DemandBoundStep == RouteInv /\ DemandBoundInv /\ [Next]_vars => DemandBoundInv'
<1> SUFFICES ASSUME RouteInv, DemandBoundInv, [Next]_vars, pc' \in Active,
                    NEW t \in Chains', NEW k \in 1 .. Len(t)
             PROVE  route_demands'[t[k]] <= Load(t)
  BY DEF DemandBoundInv
<1>0. RouteInv'
  BY RoutesStep
<1>1. \A u \in Seq(Customers) : u \in Seq(Index) /\ Load(u) \in Nat
  BY LoadFacts
<1>2. CASE pc' \in {"scan", "walk_back"}
  <2>1. route_demands'[t[k]] = Load(t)
    BY <1>0, <1>2 DEF RouteInv, DemandInv, DemandKnown
  <2>2. t \in Seq(Customers)
    <3>1. ChainInv'
      BY <1>0 DEF RouteInv
    <3>2. Linked(successors', predecessors', N)
      BY <3>1 DEF ChainInv
    <3>3. IsChain(successors', predecessors', N, t)
      BY <3>2, ChainsOfArrays DEF Chains
    <3> QED
      BY <3>2, <3>3, ChainParts DEF Customers
  <2> QED
    BY <1>1, <2>1, <2>2
<1>3. CASE Merge
  <2>1. ChainInv /\ DemandInv /\ pc = "walk_back" /\ route_demands' = route_demands
    BY <1>3 DEF Merge, RouteInv
  <2>2. PICK r \in Chains, s \in Chains : Chains' = (Chains \ {r, s}) \cup {r \o s}
    BY <1>3, MergeJoins
  <2>3. /\ r \in Seq(Customers) /\ s \in Seq(Customers)
        /\ Load(r) \in Nat /\ Load(s) \in Nat /\ Load(r \o s) = Load(r) + Load(s)
    <3>1. r \in Seq(Customers) /\ s \in Seq(Customers)
      BY <2>1, RouteParts
    <3> QED
      BY <1>1, <3>1, LoadFacts
  <2>4. \A u \in Chains : \A i \in 1 .. Len(u) : route_demands[u[i]] = Load(u)
    BY <2>1 DEF DemandInv, DemandKnown
  <2>5. CASE t \in Chains
    <3>1. t \in Seq(Customers)
      BY <2>1, <2>5, RouteParts
    <3> QED
      BY <1>1, <2>1, <2>4, <2>5, <3>1
  <2>6. CASE t = r \o s
    <3>1. /\ Len(t) = Len(r) + Len(s) /\ Len(r) \in Nat /\ Len(s) \in Nat
          /\ \A i \in 1 .. Len(r) : t[i] = r[i]
          /\ \A i \in 1 .. Len(s) : t[Len(r) + i] = s[i]
      BY <2>3, <2>6, ConcatElements
    <3>2. CASE k <= Len(r)
      <4>1. k \in 1 .. Len(r)
        BY <3>1, <3>2
      <4>2. route_demands'[t[k]] = Load(r)
        BY <2>1, <2>4, <3>1, <4>1
      <4> QED
        BY <2>3, <2>6, <4>2
    <3>3. CASE ~(k <= Len(r))
      <4>1. PICK i \in 1 .. Len(s) : Len(r) + i = k
        <5>1. k - Len(r) \in 1 .. Len(s) /\ Len(r) + (k - Len(r)) = k
          BY <3>1, <3>3
        <5> QED
          BY <5>1
      <4>2. route_demands'[t[k]] = Load(s)
        BY <2>1, <2>4, <3>1, <4>1
      <4> QED
        BY <2>3, <2>6, <4>2
    <3> QED
      BY <3>2, <3>3
  <2> QED
    BY <2>2, <2>5, <2>6
<1>4. CASE PassOnDeparture \/ PassOnWindows
  BY <1>4, PassOnDemands
<1>5. CASE /\ pc' \notin {"scan", "walk_back"}
           /\ ~(Merge \/ PassOnDeparture \/ PassOnWindows)
  <2>1. UNCHANGED <<predecessors, successors, route_demands>> /\ pc \in Active
    BY <1>5 DEF Next, StartLambda, SkipSaving, TakeSaving, WalkBack, Reject, EndIteration,
                PassOnWindowsAborts, StartBuild, BuildRoute, EndLambda, chains, vars, Active
  <2>2. Chains' = Chains
    BY <2>1 DEF Chains
  <2> QED
    BY <2>1, <2>2 DEF DemandBoundInv
<1> QED
  BY <1>2, <1>3, <1>4, <1>5

\* What becomes larger, later and earlier due stays blocked.
LEMMA StaysBlocked ==
  ASSUME NEW a \in Customers, NEW b \in Customers, Blocked(a, b),
         Chains' = Chains, UNCHANGED <<predecessors, successors>>,
         \A c \in Customers : /\ route_demands[c] \in Nat /\ route_demands'[c] \in Nat
                              /\ route_demands[c] <= route_demands'[c]
                              /\ departure[c] \in Nat /\ departure'[c] \in Nat
                              /\ departure[c] <= departure'[c]
                              /\ Until(c) \in Nat /\ Until(c)' \in Nat
                              /\ Until(c)' <= Until(c)
  PROVE  Blocked(a, b)'
<1>1. CASE route_demands[a] + route_demands[b] > Capacity
  <2> DEFINE x == route_demands[a]
             y == route_demands[b]
             u == route_demands'[a]
             v == route_demands'[b]
  <2>1. x \in Nat /\ y \in Nat /\ u \in Nat /\ v \in Nat /\ x <= u /\ y <= v /\ Capacity \in Nat
    BY CapacityAssumption
  <2>2. x + y > Capacity
    BY <1>1
  <2> HIDE DEF x, y, u, v
  <2>3. u + v > Capacity
    BY ONLY <2>1, <2>2
  <2> QED
    BY <2>3 DEF Blocked, u, v
<1>2. CASE departure[a] + Travel(a, b) > Until(b)
  <2> DEFINE x == departure[a]
             y == Until(b)
             u == departure'[a]
             v == Until(b)'
             tr == Travel(a, b)
  <2>1. x \in Nat /\ y \in Nat /\ u \in Nat /\ v \in Nat /\ tr \in Nat /\ x <= u /\ v <= y
    BY TravelNat, DepotIsNoCustomer
  <2>2. x + tr > y
    BY <1>2
  <2> HIDE DEF x, y, u, v, tr
  <2>3. u + tr > v
    BY ONLY <2>1, <2>2
  <2> QED
    BY <2>3 DEF Blocked, u, v, tr
<1>3. CASE ~(route_demands[a] + route_demands[b] > Capacity) /\ ~(departure[a] + Travel(a, b) > Until(b))
  BY <1>3 DEF Blocked
<1> QED
  BY <1>1, <1>2, <1>3

\* A decision against joining has its reason.
LEMMA RejectBlocks ==
  ASSUME RouteInv, ScheduleInv, OnTimeInv, LagInv, Metric, Reject
  PROVE  Blocked(last_visit, first_visit)
<1> DEFINE a == last_visit
           b == first_visit
<1>1. /\ pc = "walk_back" /\ predecessors[node] = 0 /\ ~MayMerge /\ pc \in Active
      /\ a \in Customers /\ b \in Customers
      /\ route_demands \in [Customers -> Nat] /\ Capacity \in Nat
  BY CapacityAssumption DEF Reject, RouteInv, ChainInv, Active
<1>2. PICK r \in Chains, s \in Chains :
        /\ r[Len(r)] = a /\ s[1] = b
        /\ r # s <=> node # b
        /\ NewDemand = Load(r) + Load(s)
  BY <1>1, DecisionState
<1>3. CASE node = b
  BY <1>2, <1>3 DEF Blocked
<1>4. CASE ~(NewDemand <= Capacity)
  <2>1. NewDemand \in Nat /\ NewDemand = route_demands[a] + route_demands[b]
    BY <1>1 DEF NewDemand
  <2> QED
    BY <1>1, <1>4, <2>1 DEF Blocked
<1>5. CASE ~InWindow
  <2> DEFINE d == departure[a]
             tr == Travel(a, b)
             u == Until(b)
  <2>1. d \in Nat /\ u \in Nat /\ tr \in Nat /\ SIZE_NONE \in Nat
    BY <1>1, LagFacts, TravelNat, DepotIsNoCustomer, SIZE_NONEAssumption
  <2>2. ~(Plus(d, tr) <= u)
    BY <1>5 DEF InWindow, Arrival, Until
  <2> HIDE DEF d, tr, u
  <2>3. d + tr > u
    <3>1. CASE d + tr <= SIZE_NONE
      <4>1. Plus(d, tr) = d + tr
        BY <2>1, <3>1, PlusExact
      <4> QED
        BY <2>1, <2>2, <4>1
    <3>2. CASE ~(d + tr <= SIZE_NONE)
      <4>1. u <= SIZE_NONE
        <5>1. ChainInv /\ Workable /\ b \in Index
          BY <1>1, LagFacts
        <5> QED
          BY <1>1, <2>1, <5>1, DeadlineFacts DEF u
      <4> QED
        BY <2>1, <3>2, <4>1
    <3> QED
      BY <3>1, <3>2
  <2> QED
    BY <2>3 DEF Blocked, d, tr, u
<1> QED
  BY <1>1, <1>3, <1>4, <1>5 DEF MayMerge

\* A merge occupies the end of one route and the beginning of the other; the
\* other routes stay as they are.
LEMMA MergeBlocks ==
  ASSUME RouteInv, Merge, NEW p \in Pairs,
         \/ Blocked(p[1], p[2])
         \/ p[1] = last_visit /\ p[2] = first_visit
  PROVE  Blocked(p[1], p[2])'
<1> DEFINE a == last_visit
           b == first_visit
<1>1. /\ a \in Customers /\ b \in Customers /\ a # 0 /\ b # 0
      /\ predecessors' = [predecessors EXCEPT ![b] = a]
      /\ successors' = [successors EXCEPT ![a] = b]
      /\ route_demands' = route_demands /\ departure' = departure
      /\ subroute_tws' = subroute_tws
  BY DepotIsNoCustomer DEF Merge, RouteInv, ChainInv, meta
<1>2. DOMAIN predecessors = Customers /\ DOMAIN successors = Customers
  BY Neighbours DEF RouteInv
<1>3. p[1] \in Customers /\ p[2] \in Customers
  BY PairEnds
<1>4. successors'[a] # 0 /\ predecessors'[b] # 0
  BY <1>1, <1>2
<1> HIDE DEF a, b
<1>5. CASE p[1] = a \/ p[2] = b
  BY <1>4, <1>5 DEF Blocked
<1>6. CASE p[1] # a /\ p[2] # b
  <2>1. Blocked(p[1], p[2])
    BY <1>6 DEF a, b
  <2>2. successors'[p[1]] = successors[p[1]] /\ predecessors'[p[2]] = predecessors[p[2]]
    BY <1>1, <1>2, <1>3, <1>6
  <2>3. ASSUME NEW t \in Chains, t[1] = p[2], t[Len(t)] = p[1] PROVE t \in Chains'
    <3>1. PICK r \in Chains, s \in Chains :
            /\ r[Len(r)] = a /\ s[1] = b
            /\ Chains' = (Chains \ {r, s}) \cup {r \o s}
      BY MergeJoins DEF a, b
    <3> QED
      BY <1>6, <2>3, <3>1
  <2> QED
    BY <1>1, <2>1, <2>2, <2>3 DEF Blocked, Until
<1> QED
  BY <1>5, <1>6

\* No step makes BlockedInv false.
LEMMA BlockedStep ==
  /\ RouteInv /\ ScheduleInv /\ OnTimeInv /\ LagInv /\ DemandBoundInv
  /\ BlockedInv /\ [Next]_vars
  => BlockedInv'
<1> SUFFICES ASSUME RouteInv, ScheduleInv, OnTimeInv, LagInv, DemandBoundInv, BlockedInv,
                    [Next]_vars
             PROVE  BlockedInv'
  OBVIOUS
<1> DEFINE Pending(p) == pc = "walk_back" /\ p[1] = last_visit /\ p[2] = first_visit
           Known(p) == Blocked(p[1], p[2]) \/ Pending(p)
<1>0. tws' = tws
  BY DEF Next, StartLambda, SkipSaving, TakeSaving, WalkBack, Reject, Merge, PassOnDeparture,
         PassOnWindows, PassOnWindowsAborts, StartBuild, BuildRoute, EndLambda, model, vars
<1>1. Metric' <=> Metric
  BY <1>0, SameModel DEF Metric, NoShortcuts
<1>2. pc' = "build" => savings' = {}
  BY DEF BlockedInv, Next, StartLambda, SkipSaving, TakeSaving, WalkBack, Reject, EndIteration,
         Merge, PassOnDeparture, PassOnWindows, PassOnWindowsAborts, StartBuild, BuildRoute,
         EndLambda, vars
<1>3. ASSUME Metric, pc' \in Active, NEW p \in Pairs, p \notin savings' PROVE Known(p)'
  <2>0. p[1] \in Customers /\ p[2] \in Customers
    BY PairEnds
  <2>1. CASE StartLambda
    BY <1>3, <2>1 DEF StartLambda
  <2>2. ASSUME UNCHANGED <<predecessors, successors, route_demands, departure, subroute_tws>>,
               Blocked(p[1], p[2])
        PROVE  Known(p)'
    BY <2>2 DEF Blocked, Chains, Until
  <2>3. ASSUME pc \in Active, p \notin savings PROVE Known(p)
    BY <1>3, <2>3 DEF BlockedInv
  <2>4. ASSUME NEW q \in Pairs, SkipSaving(q) PROVE Known(p)'
    <3>1. /\ pc = "scan" /\ ~CanLink(q) /\ savings' = savings \ {q}
          /\ UNCHANGED <<predecessors, successors, route_demands, departure, subroute_tws>>
      BY <2>4 DEF SkipSaving, chains, meta
    <3>2. Blocked(p[1], p[2])
      <4>1. CASE p = q
        BY <3>1, <4>1 DEF CanLink, Blocked
      <4>2. CASE p # q
        BY <1>3, <2>3, <3>1, <4>2 DEF Active
      <4> QED
        BY <4>1, <4>2
    <3> QED
      BY <2>2, <3>1, <3>2
  <2>5. ASSUME NEW q \in Pairs, TakeSaving(q) PROVE Known(p)'
    <3>1. /\ pc = "scan" /\ pc' = "walk_back" /\ savings' = savings \ {q}
          /\ last_visit' = q[1] /\ first_visit' = q[2]
          /\ UNCHANGED <<predecessors, successors, route_demands, departure, subroute_tws>>
      BY <2>5 DEF TakeSaving, chains, meta
    <3>2. CASE p = q
      BY <3>1, <3>2
    <3>3. CASE p # q
      <4>1. Blocked(p[1], p[2])
        BY <1>3, <2>3, <3>1, <3>3 DEF Active
      <4> QED
        BY <2>2, <3>1, <4>1
    <3> QED
      BY <3>2, <3>3
  <2>6. CASE WalkBack
    <3>1. /\ pc = "walk_back" /\ savings' = savings
          /\ UNCHANGED <<pc, last_visit, first_visit, predecessors, successors, route_demands,
                         departure, subroute_tws>>
      BY <2>6 DEF WalkBack, chains, meta
    <3>2. Known(p)
      BY <1>3, <2>3, <3>1 DEF Active
    <3>3. Pending(p) => Pending(p)'
      BY <3>1
    <3> QED
      BY <2>2, <3>1, <3>2, <3>3
  <2>7. CASE Reject
    <3>1. /\ pc = "walk_back" /\ savings' = savings
          /\ UNCHANGED <<predecessors, successors, route_demands, departure, subroute_tws>>
      BY <2>7 DEF Reject, chains, meta
    <3>2. Known(p)
      BY <1>3, <2>3, <3>1 DEF Active
    <3>3. Blocked(last_visit, first_visit)
      BY <1>3, <2>7, RejectBlocks
    <3>4. Blocked(p[1], p[2])
      BY <3>2, <3>3
    <3> QED
      BY <2>2, <3>1, <3>4
  <2>8. CASE Merge
    <3>1. pc = "walk_back" /\ savings' = savings
      BY <2>8 DEF Merge
    <3>2. Known(p)
      BY <1>3, <2>3, <3>1 DEF Active
    <3> QED
      BY <2>8, <3>2, MergeBlocks
  <2>9. CASE PassOnDeparture \/ PassOnWindows
    <3>1. /\ pc \in Active /\ pc # "walk_back" /\ savings' = savings
          /\ UNCHANGED <<predecessors, successors>>
      BY <2>9 DEF PassOnDeparture, PassOnWindows, Active, chains
    <3>2. Blocked(p[1], p[2])
      BY <1>3, <2>3, <3>1
    <3>3. /\ Chains' = Chains
          /\ \A c \in Customers : route_demands[c] <= route_demands'[c]
      BY <2>9, PassOnDemands
    <3>4. route_demands \in [Customers -> Nat] /\ route_demands' \in [Customers -> Nat]
      <4>1. RouteInv'
        BY RoutesStep
      <4> QED
        BY <4>1 DEF RouteInv, ChainInv
    <3>5. \A c \in Customers : c \in Index /\ departure[c] \in Nat /\ Until(c) \in Nat
      BY <1>3, <3>1, LagFacts
    <3>6. \A c \in Customers : departure'[c] \in Nat /\ departure[c] <= departure'[c]
      <4>1. CASE PassOnDeparture
        BY <1>3, <3>5, <4>1, PassOnDepartureLags
      <4>2. CASE PassOnWindows
        <5>1. departure' = departure
          BY <4>2 DEF PassOnWindows
        <5> QED
          BY <3>5, <5>1
      <4> QED
        BY <2>9, <4>1, <4>2
    <3>7. \A c \in Customers : Until(c)' \in Nat /\ Until(c)' <= Until(c)
      <4>1. CASE PassOnDeparture
        <5>1. \A c \in Customers : Until(c)' = Until(c)
          BY <4>1 DEF PassOnDeparture, Until
        <5> QED
          BY <3>5, <5>1
      <4>2. CASE PassOnWindows
        BY <1>3, <3>5, <4>2, PassOnWindowsLags
      <4> QED
        BY <2>9, <4>1, <4>2
    <3>8. \A c \in Customers : route_demands[c] \in Nat /\ route_demands'[c] \in Nat
      BY <3>4
    <3>9. Blocked(p[1], p[2])'
      BY <2>0, <3>1, <3>2, <3>3, <3>5, <3>6, <3>7, <3>8, StaysBlocked
    <3> QED
      BY <3>9
  <2>10. CASE StartBuild \/ BuildRoute
    <3>1. /\ pc \in Active /\ pc # "walk_back" /\ savings' = savings
          /\ UNCHANGED <<predecessors, successors, route_demands, departure, subroute_tws>>
      BY <2>10 DEF StartBuild, BuildRoute, Active, chains, meta
    <3>2. Blocked(p[1], p[2])
      BY <1>3, <2>3, <3>1
    <3> QED
      BY <2>2, <3>1, <3>2
  <2>11. CASE PassOnWindowsAborts \/ EndLambda
    BY <1>3, <2>11 DEF PassOnWindowsAborts, EndLambda, Active
  <2>12. CASE UNCHANGED vars
    <3>1. /\ pc \in Active /\ savings' = savings
          /\ UNCHANGED <<pc, last_visit, first_visit, predecessors, successors, route_demands,
                         departure, subroute_tws>>
      BY <1>3, <2>12 DEF vars, chains, meta, locals
    <3>2. Known(p)
      BY <1>3, <2>3, <3>1
    <3>3. Pending(p) => Pending(p)'
      BY <3>1
    <3> QED
      BY <2>2, <3>1, <3>2, <3>3
  <2> QED
    BY <2>1, <2>4, <2>5, <2>6, <2>7, <2>8, <2>9, <2>10, <2>11, <2>12 DEF Next
<1> QED
  BY <1>1, <1>2, <1>3 DEF BlockedInv

\* One list behind another.
LEMMA ListBehind ==
  ASSUME NEW S, NEW f \in Seq(S), NEW g \in Seq(S), NEW h, h = f \o g
  PROVE  /\ h \in Seq(S) /\ Len(h) = Len(f) + Len(g)
         /\ \A i \in 1 .. Len(f) : h[i] = f[i]
         /\ \A i \in 1 .. Len(g) : h[Len(f) + i] = g[i]
<1>1. h \in Seq(S) /\ Len(h) = Len(f) + Len(g)
  OBVIOUS
<1>2. \A i \in 1 .. Len(f) : h[i] = f[i]
  OBVIOUS
<1>3. \A i \in 1 .. Len(g) : h[Len(f) + i] = g[i]
  OBVIOUS
<1> QED
  BY <1>1, <1>2, <1>3

\* Two routes served one after the other.
Joined(r, s) == <<0>> \o r \o s \o <<0>>

\* Their stops: v has the depot, the customers of r, those of s and the depot.
StopsOfBoth(v, r, s) ==
  /\ Len(r) \in Nat /\ Len(s) \in Nat /\ Len(v) = Len(r) + Len(s) + 2
  /\ v[1] = 0 /\ v[Len(v)] = 0
  /\ v[Len(r) + 1] = r[Len(r)] /\ v[Len(r) + 2] = s[1]
  /\ \A i \in 1 .. Len(r) : v[i + 1] \in Customers /\ predecessors[v[i + 1]] = v[i]
  /\ \A i \in Len(r) + 2 .. Len(r) + Len(s) + 1 :
       v[i] \in Customers /\ successors[v[i]] = v[i + 1]

\* They follow the arrays, except where the one route gives way to the other.
LEMMA JoinedStops ==
  ASSUME ChainInv, NEW r \in Chains, NEW s \in Chains, NEW v, v = Joined(r, s)
  PROVE  StopsOfBoth(v, r, s)
<1> DEFINE n == Len(r)
           m == Len(s)
<1>1. PICK e : e = <<0>>
  OBVIOUS
<1>2. /\ r \in Seq(Customers) /\ n \in Nat /\ 1 \in 1 .. n /\ n \in 1 .. n
      /\ \A i \in 1 .. n : r[i] \in Customers
      /\ \A i \in 1 .. n - 1 : predecessors[r[i + 1]] = r[i]
      /\ predecessors[r[1]] = 0
  BY RouteParts
<1>3. /\ s \in Seq(Customers) /\ m \in Nat /\ 1 \in 1 .. m /\ m \in 1 .. m
      /\ \A i \in 1 .. m : s[i] \in Customers
      /\ \A i \in 1 .. m - 1 : successors[s[i]] = s[i + 1]
      /\ successors[s[m]] = 0
  BY RouteParts
<1>4. e \in Seq(Index) /\ Len(e) = 1 /\ e[1] = 0 /\ r \in Seq(Index) /\ s \in Seq(Index)
  BY <1>1, <1>2, <1>3, LoadFacts, DepotIsNoCustomer
<1>5. v = ((e \o r) \o s) \o e
  BY <1>1 DEF Joined
<1> HIDE DEF n, m
<1>6. PICK x : x = e \o r
  OBVIOUS
<1>7. PICK y : y = x \o s
  OBVIOUS
<1>8. v = y \o e
  BY <1>5, <1>6, <1>7
<1>9. e \in Seq(Index) /\ r \in Seq(Index)
  BY <1>4
<1>10. /\ x \in Seq(Index) /\ Len(x) = 1 + n
       /\ x[1] = 0 /\ \A i \in 1 .. n : x[1 + i] = r[i]
  <2>1. /\ x \in Seq(Index) /\ Len(x) = Len(e) + Len(r)
        /\ \A i \in 1 .. Len(e) : x[i] = e[i]
        /\ \A i \in 1 .. Len(r) : x[Len(e) + i] = r[i]
    BY ONLY <1>6, <1>9, ListBehind
  <2>2. 1 \in 1 .. Len(e)
    BY <1>4
  <2> QED
    BY <1>4, <2>1, <2>2 DEF n
<1>11. /\ y \in Seq(Index) /\ Len(y) = 1 + n + m
       /\ \A i \in 1 .. 1 + n : y[i] = x[i]
       /\ \A i \in 1 .. m : y[1 + n + i] = s[i]
  <2>1. /\ y \in Seq(Index) /\ Len(y) = Len(x) + Len(s)
        /\ \A i \in 1 .. Len(x) : y[i] = x[i]
        /\ \A i \in 1 .. Len(s) : y[Len(x) + i] = s[i]
    <3>1. x \in Seq(Index) /\ s \in Seq(Index)
      BY <1>4, <1>10
    <3> QED
      BY ONLY <1>7, <3>1, ListBehind
  <2> QED
    BY <1>10, <2>1 DEF m
<1>12. /\ Len(v) = 1 + n + m + 1
       /\ \A i \in 1 .. 1 + n + m : v[i] = y[i]
       /\ v[1 + n + m + 1] = 0
  <2>2. /\ Len(v) = Len(y) + Len(e)
        /\ \A i \in 1 .. Len(y) : v[i] = y[i]
        /\ \A i \in 1 .. Len(e) : v[Len(y) + i] = e[i]
    <3>1. y \in Seq(Index) /\ e \in Seq(Index)
      BY <1>11, <1>9
    <3> QED
      BY ONLY <1>8, <3>1, ListBehind
  <2>3. 1 \in 1 .. Len(e)
    BY <1>4
  <2> QED
    BY <1>4, <1>11, <2>2, <2>3
\* Where each stop is
<1>13. v[1] = 0 /\ \A i \in 1 .. n : v[i + 1] = r[i]
  <2>1. 1 \in 1 .. 1 + n + m /\ 1 \in 1 .. 1 + n
    BY <1>2, <1>3
  <2>2. ASSUME NEW i \in 1 .. n PROVE v[i + 1] = r[i]
    <3>1. 1 + i \in 1 .. 1 + n + m /\ 1 + i \in 1 .. 1 + n /\ i + 1 = 1 + i
      BY <1>2, <1>3
    <3> QED
      BY <1>10, <1>11, <1>12, <3>1
  <2> QED
    BY <1>10, <1>11, <1>12, <2>1, <2>2
<1>14. \A i \in 1 .. m : v[n + 1 + i] = s[i]
  <2> SUFFICES ASSUME NEW i \in 1 .. m PROVE v[n + 1 + i] = s[i]
    OBVIOUS
  <2>1. PICK k : k = 1 + n + i
    OBVIOUS
  <2>2. k \in 1 .. 1 + n + m /\ n + 1 + i = k
    BY <1>2, <1>3, <2>1
  <2>3. v[k] = y[k]
    BY <1>12, <2>2
  <2>4. y[k] = s[i]
    BY <1>11, <2>1
  <2> QED
    BY ONLY <2>2, <2>3, <2>4
<1>15. v[n + 1] = r[n] /\ v[n + 2] = s[1]
  <2>1. n + 2 = n + 1 + 1
    BY <1>2
  <2> QED
    BY <1>2, <1>3, <1>13, <1>14, <2>1
<1>16. Len(v) = n + m + 2 /\ v[Len(v)] = 0
  <2>1. Len(v) = n + m + 2 /\ 1 + n + m + 1 = Len(v)
    BY <1>2, <1>3, <1>12
  <2>2. v[1 + n + m + 1] = 0
    BY <1>12
  <2> QED
    BY ONLY <2>1, <2>2
<1>17. ASSUME NEW i \in 1 .. n
       PROVE  v[i + 1] \in Customers /\ predecessors[v[i + 1]] = v[i]
  <2>1. v[i + 1] = r[i] /\ r[i] \in Customers
    BY <1>2, <1>13
  <2>2. CASE i = 1
    BY <1>2, <1>13, <2>1, <2>2
  <2>3. CASE i # 1
    <3>1. PICK j \in 1 .. n - 1 : i = j + 1 /\ j \in 1 .. n
      <4>1. i - 1 \in 1 .. n - 1 /\ i = (i - 1) + 1 /\ i - 1 \in 1 .. n
        BY <1>2, <2>3
      <4> QED
        BY <4>1
    <3>2. v[i] = r[j] /\ predecessors[r[i]] = r[j]
      BY <1>2, <1>13, <3>1
    <3> QED
      BY <2>1, <3>2
  <2> QED
    BY <2>2, <2>3
<1>18. ASSUME NEW i \in n + 2 .. n + m + 1
       PROVE  v[i] \in Customers /\ successors[v[i]] = v[i + 1]
  <2>1. PICK j \in 1 .. m : n + 1 + j = i
    <3>1. i - n - 1 \in 1 .. m /\ n + 1 + (i - n - 1) = i
      BY <1>2, <1>3
    <3> QED
      BY <3>1
  <2>2. v[i] = s[j] /\ s[j] \in Customers
    BY <1>3, <1>14, <2>1
  <2>3. CASE j = m
    <3>1. i + 1 = 1 + n + m + 1
      BY <1>2, <1>3, <2>1, <2>3
    <3>2. v[1 + n + m + 1] = 0
      BY <1>12
    <3>3. v[i + 1] = 0
      BY ONLY <3>1, <3>2
    <3> QED
      BY <1>3, <2>2, <2>3, <3>3
  <2>4. CASE j # m
    <3>1. j \in 1 .. m - 1 /\ j + 1 \in 1 .. m /\ i + 1 = n + 1 + (j + 1)
      BY <1>2, <1>3, <2>1, <2>4
    <3>2. v[i + 1] = s[j + 1]
      BY <1>14, <3>1
    <3> QED
      BY <1>3, <2>2, <3>1, <3>2
  <2> QED
    BY <2>3, <2>4
<1> QED
  BY <1>2, <1>3, <1>13, <1>15, <1>16, <1>17, <1>18 DEF StopsOfBoth, n, m

\* A route is left too late for another one: no schedule serves both, one after
\* the other.  The times of its stops are not before those the departures allow,
\* the ones of the other route are behind the deadlines.
LEMMA CannotServeBoth ==
  ASSUME RouteInv, ScheduleInv, OnTimeInv, LagInv, Metric, OneWindowEach, pc = "build",
         NEW r \in Chains, NEW s \in Chains,
         departure[r[Len(r)]] + Travel(r[Len(r)], s[1]) > Until(s[1])
  PROVE  ~CanServe(tws, <<0>> \o r \o s \o <<0>>, 0, Horizon)
<1>1. PICK v : v = Joined(r, s)
  OBVIOUS
<1> DEFINE n == Len(r)
           l == Len(v)
           h == Horizon
           Reached(i, y) == IF i <= n + 1 THEN departure[v[i]] <= y + Service[v[i]]
                            ELSE y > Until(v[i])
           B == [i \in 1 .. l |-> {y \in Nat : IsOpen(tws[v[i]], y) /\ Reached(i, y)}]
<1>2. ChainInv /\ Workable /\ pc \in Active /\ pc # "departures" /\ pc # "windows"
  BY DEF RouteInv, Metric, Active
<1>3. /\ n \in Nat /\ l \in Nat \ {0} /\ n + 2 \in 1 .. l /\ n + 2 <= l
      /\ v[1] = 0 /\ v[l] = 0
      /\ v[n + 1] = r[n] /\ v[n + 2] = s[1]
      /\ \A i \in 1 .. n : v[i + 1] \in Customers /\ predecessors[v[i + 1]] = v[i]
      /\ \A i \in n + 2 .. l - 1 : v[i] \in Customers /\ successors[v[i]] = v[i + 1]
  <2>1. /\ Len(r) \in Nat /\ Len(s) \in Nat /\ l = Len(r) + Len(s) + 2
        /\ v[1] = 0 /\ v[l] = 0
        /\ v[Len(r) + 1] = r[Len(r)] /\ v[Len(r) + 2] = s[1]
        /\ \A i \in 1 .. Len(r) : v[i + 1] \in Customers /\ predecessors[v[i + 1]] = v[i]
        /\ \A i \in Len(r) + 2 .. Len(r) + Len(s) + 1 :
             v[i] \in Customers /\ successors[v[i]] = v[i + 1]
    <3>1. StopsOfBoth(v, r, s)
      BY <1>1, <1>2, JoinedStops
    <3> QED
      BY <3>1 DEF StopsOfBoth
  <2> HIDE DEF l
  <2>2. /\ l \in Nat \ {0} /\ n + 2 \in 1 .. l /\ n + 2 <= l
        /\ l - 1 = Len(r) + Len(s) + 1
    BY <2>1
  <2> QED
    BY <2>1, <2>2
<1>4. 0 \in Index /\ \A c \in Customers : c \in Index
  BY DepotIsNoCustomer
<1> HIDE DEF n, l
<1>5. h \in Nat /\ h = Latest(tws[0]) /\ Until(0) = h
  <2>1. subroute_tws[0] = tws[0]
    BY <1>2 DEF ScheduleInv
  <2> QED
    BY <1>2, <1>4, <2>1, NodeFacts DEF Until, Horizon
<1> HIDE DEF h
<1>6. /\ \A i \in 1 .. n + 1 : v[i] \in Index
      /\ \A i \in n + 2 .. l : v[i] \in Index
  <2>1. ASSUME NEW i \in 1 .. n + 1 PROVE v[i] \in Index
    <3>1. CASE i = 1
      BY <1>3, <1>4, <3>1
    <3>2. CASE i # 1
      <4>1. PICK j \in 1 .. n : i = j + 1
        <5>1. i - 1 \in 1 .. n /\ i = (i - 1) + 1
          BY <1>3, <3>2
        <5> QED
          BY <5>1
      <4> QED
        BY <1>3, <1>4, <4>1
    <3> QED
      BY <3>1, <3>2
  <2>2. ASSUME NEW i \in n + 2 .. l PROVE v[i] \in Index
    <3>1. i = l \/ i \in n + 2 .. l - 1
      BY <1>3
    <3> QED
      BY <1>3, <1>4, <3>1
  <2> QED
    BY <2>1, <2>2
<1>7. \A y \in Nat : IsOpen(tws[v[1]], y) /\ y >= 0 => y \in B[1]
  <2> SUFFICES ASSUME NEW y \in Nat, IsOpen(tws[0], y) PROVE y \in B[1]
    BY <1>3
  <2>1. 1 \in 1 .. l /\ 1 <= n + 1
    BY <1>3
  <2>2. departure[0] <= y + Service[0]
    <3>1. /\ Earliest(tws[0]) \in Nat /\ Earliest(tws[0]) <= y /\ Service[0] \in Nat
          /\ Latest(tws[0]) \in Nat /\ Earliest(tws[0]) <= Latest(tws[0])
          /\ Latest(tws[0]) + Service[0] < SIZE_NONE /\ SIZE_NONE \in Nat
      <4>1. /\ Earliest(tws[0]) \in Nat /\ Earliest(tws[0]) <= y /\ y <= Latest(tws[0])
            /\ Service[0] \in Nat /\ Latest(tws[0]) \in Nat /\ SIZE_NONE \in Nat
            /\ Latest(tws[0]) + Service[0] < SIZE_NONE
        BY <1>2, <1>4, NodeFacts
      <4> QED
        BY <4>1
    <3>2. Plus(Earliest(tws[0]), Service[0]) = Earliest(tws[0]) + Service[0]
      <4>1. Earliest(tws[0]) + Service[0] <= SIZE_NONE
        BY <3>1
      <4> QED
        BY <3>1, <4>1, PlusExact
    <3>3. departure[0] = Earliest(tws[0]) + Service[0]
      BY <1>2, <3>2 DEF ScheduleInv, DepotDeparture
    <3> QED
      BY <3>1, <3>3
  <2> QED
    BY <1>3, <2>1, <2>2
<1>8. ASSUME NEW i \in 1 .. l - 1, NEW y \in Nat, NEW u \in B[i],
             IsOpen(tws[v[i + 1]], y),
             y >= u + (Service[v[i]] + Travel(v[i], v[i + 1]))
      PROVE  y \in B[i + 1]
  <2> DEFINE c == v[i]
             d == v[i + 1]
             sv == Service[c]
             tr == Travel(c, d)
  <2>1. i \in 1 .. l /\ i + 1 \in 1 .. l /\ i \in Nat
    BY <1>3
  <2>2. u \in Nat /\ IsOpen(tws[c], u) /\ Reached(i, u)
    BY <2>1
  <2>3. c \in Index /\ d \in Index
    <3>1. /\ i \in 1 .. n + 1 \/ i \in n + 2 .. l
          /\ i + 1 \in 1 .. n + 1 \/ i + 1 \in n + 2 .. l
      BY <1>3, <2>1
    <3> QED
      BY <1>6, <3>1
  <2>4. sv \in Nat /\ tr \in Nat
    BY <1>2, <2>3, NodeFacts
  <2>5. y >= u + (sv + tr)
    BY <1>8
  <2> SUFFICES Reached(i + 1, y)
    BY <1>8, <2>1
  <2>6. CASE i <= n
    <3>1. /\ i \in 1 .. n /\ i <= n + 1 /\ i + 1 <= n + 1
      BY <1>3, <2>1, <2>6
    <3>2. d \in Customers /\ predecessors[d] = c
      BY <1>3, <3>1
    <3>3. LeftInTime(d) /\ departure[c] \in Nat
      BY <1>2, <3>2, LagFacts
    <3>4. departure[c] <= u + sv
      BY <2>2, <3>1
    <3>5. departure[c] + tr <= y
      <4> DEFINE dc == departure[c]
      <4>1. dc \in Nat /\ dc <= u + sv
        BY <3>3, <3>4
      <4> HIDE DEF dc, sv, tr
      <4>2. dc + tr <= y
        BY ONLY <2>2, <2>4, <2>5, <4>1, y \in Nat
      <4> QED
        BY <4>2 DEF dc
    <3>6. departure[d] <= y + Service[d]
      BY <1>8, <3>2, <3>3, <3>5 DEF LeftInTime
    <3> QED
      BY <3>1, <3>6
  <2>7. CASE i = n + 1
    <3>1. c = r[n] /\ d = s[1] /\ ~(i + 1 <= n + 1) /\ i <= n + 1
      <4>1. i + 1 = n + 2 /\ ~(i + 1 <= n + 1) /\ i <= n + 1
        BY <1>3, <2>7
      <4> QED
        BY <1>3, <2>7, <4>1
    <3>2. departure[c] <= u + sv /\ departure[c] + tr > Until(d)
      BY <2>2, <3>1 DEF n
    <3>3. departure[c] \in Nat /\ Until(d) \in Nat
      <4>1. c \in Customers
        BY <1>2, <3>1, RouteParts DEF n
      <4> QED
        BY <1>2, <2>3, <4>1, LagFacts, DeadlineFacts
    <3>4. y > Until(d)
      <4> DEFINE dc == departure[c]
                 ud == Until(d)
      <4>1. dc \in Nat /\ ud \in Nat /\ dc <= u + sv /\ dc + tr > ud
        BY <3>2, <3>3
      <4> HIDE DEF dc, ud, sv, tr
      <4>2. y > ud
        BY ONLY <2>2, <2>4, <2>5, <4>1, y \in Nat
      <4> QED
        BY <4>2 DEF ud
    <3> QED
      BY <3>1, <3>4
  <2>8. CASE i > n + 1
    <3>1. i \in n + 2 .. l - 1 /\ ~(i <= n + 1) /\ ~(i + 1 <= n + 1)
      BY <1>3, <2>1, <2>8
    <3>2. c \in Customers /\ successors[c] = d
      BY <1>3, <3>1
    <3>3. u > Until(c)
      BY <2>2, <3>1
    <3>4. DueInTime(c) /\ Until(c) \in Nat /\ Until(d) \in Nat
      BY <1>2, <2>3, <3>2, LagFacts, DeadlineFacts
    <3>5. u <= ConsideredEnd(c)
      <4>1. /\ Len(tws[c]) = 1 /\ IsWindows(tws[c]) /\ tws[c] # <<>>
            /\ u <= Latest(tws[c])
        BY <1>2, <2>2, <2>3, NodeFacts DEF OneWindowEach
      <4> QED
        BY <4>1, ConsideredFacts DEF ConsideredEnd
    <3>6. ~(u + sv + tr <= Until(d))
      <4>1. ~(u <= Until(c))
        BY <2>2, <3>3, <3>4
      <4> QED
        BY <2>2, <3>2, <3>4, <3>5, <4>1 DEF DueInTime
    <3>7. y > Until(d)
      <4> DEFINE ud == Until(d)
      <4>1. ud \in Nat /\ ~(u + sv + tr <= ud)
        BY <3>4, <3>6
      <4> HIDE DEF ud, sv, tr
      <4>2. y > ud
        BY ONLY <2>2, <2>4, <2>5, <4>1, y \in Nat
      <4> QED
        BY <4>2 DEF ud
    <3> QED
      BY <3>1, <3>7
  <2> QED
    BY <1>3, <2>1, <2>6, <2>7, <2>8
<1>9. B[l] = {}
  <2>1. l \in 1 .. l /\ ~(l <= n + 1)
    BY <1>3
  <2>2. ASSUME NEW y \in Nat, IsOpen(tws[0], y) PROVE ~(y > Until(0))
    BY <1>2, <1>4, <1>5, <2>2, NodeFacts
  <2> QED
    BY <1>3, <2>1, <2>2
<1> HIDE DEF B
<1>10. \A i \in 1 .. l - 1 : \A y \in Nat : \A u \in B[i] :
         IsOpen(tws[v[i + 1]], y) /\ y >= u + (Service[v[i]] + Travel(v[i], v[i + 1]))
           => y \in B[i + 1]
  BY <1>8
<1> SUFFICES ASSUME CanServe(tws, v, 0, h) PROVE FALSE
  BY <1>1 DEF h, Joined
<1>11. B[Len(v)] # {}
  BY <1>3, <1>5, <1>7, <1>10, ServedWithin DEF l
<1> QED
  BY <1>9, <1>11 DEF l

\* In the end no two routes can be joined: together they exceed the capacity,
\* or no schedule serves both, one after the other.
THEOREM MergesMaximal == Spec => []MergingMaximal
<1>1. RouteInv /\ ScheduleInv /\ OnTimeInv /\ LagInv /\ DemandBoundInv /\ BlockedInv
        => MergingMaximal
  <2> SUFFICES ASSUME RouteInv, ScheduleInv, OnTimeInv, LagInv, DemandBoundInv, BlockedInv,
                      pc = "build", AllServable, OneWindowEach, NoShortcuts,
                      NEW r \in Chains, NEW s \in Chains, r # s, ~(Load(r) + Load(s) > Capacity)
               PROVE  ~CanServe(tws, <<0>> \o r \o s \o <<0>>, 0, Horizon)
    BY DEF MergingMaximal
  <2> DEFINE a == r[Len(r)]
             b == s[1]
  <2>1. Metric /\ ChainInv /\ pc \in Active /\ pc # "walk_back"
    <3>1. AllWindowed
      BY DEF AllWindowed, OneWindowEach
    <3> QED
      BY <3>1 DEF Metric, Workable, RouteInv, Active
  <2>2. /\ a \in Customers /\ successors[a] = 0 /\ Len(r) \in 1 .. Len(r) /\ 1 \in 1 .. Len(r)
        /\ b \in Customers /\ predecessors[b] = 0 /\ 1 \in 1 .. Len(s) /\ Len(s) \in 1 .. Len(s)
        /\ \A t \in Chains : 1 \in 1 .. Len(t) /\ Len(t) \in 1 .. Len(t)
    BY <2>1, RouteParts
  <2>3. a # b
    BY <2>1, <2>2, RoutesDisjoint
  <2>4. ASSUME NEW t \in Chains, t[1] = b, t[Len(t)] = a PROVE FALSE
    <3>1. t = s
      BY <2>1, <2>2, <2>4, RoutesDisjoint
    <3>2. t = r
      BY <2>1, <2>2, <2>4, RoutesDisjoint
    <3> QED
      BY <3>1, <3>2
  <2>5. Blocked(a, b)
    <3>1. PICK p \in Pairs : p[1] = a /\ p[2] = b
      <4>1. <<a, b>> \in Pairs /\ <<a, b>>[1] = a /\ <<a, b>>[2] = b
        BY <2>2, <2>3 DEF Pairs
      <4> QED
        BY <4>1
    <3>2. savings = {}
      BY DEF BlockedInv
    <3> HIDE DEF a, b
    <3> QED
      BY <2>1, <3>1, <3>2 DEF BlockedInv
  <2>6. ~(route_demands[a] + route_demands[b] > Capacity)
    <3>1. /\ route_demands[a] \in Nat /\ route_demands[b] \in Nat
          /\ route_demands[a] <= Load(r) /\ route_demands[b] <= Load(s)
      BY <2>1, <2>2 DEF DemandBoundInv, ChainInv
    <3>2. Load(r) \in Nat /\ Load(s) \in Nat /\ Capacity \in Nat
      BY <2>1, RouteParts, LoadFacts, CapacityAssumption
    <3> DEFINE x == route_demands[a]
               y == route_demands[b]
    <3> HIDE DEF x, y
    <3>3. x \in Nat /\ y \in Nat /\ x <= Load(r) /\ y <= Load(s)
      BY <3>1 DEF x, y
    <3>4. ~(x + y > Capacity)
      BY <3>2, <3>3
    <3> QED
      BY <3>4 DEF x, y
  <2>7. departure[a] + Travel(a, b) > Until(b)
    BY <2>2, <2>4, <2>5, <2>6 DEF Blocked
  <2> QED
    BY <2>1, <2>7, CannotServeBoth
<1>2. Init => ScheduleInv /\ OnTimeInv /\ LagInv /\ DemandBoundInv /\ BlockedInv
  BY DEF Init, ScheduleInv, OnTimeInv, LagInv, DemandBoundInv, BlockedInv, Active
<1> QED
  BY <1>1, <1>2, ScheduleStep, OnTimeStep, LagStep, DemandBoundStep, BlockedStep, RoutesSound,
     PTL DEF Spec
=============================================================================
