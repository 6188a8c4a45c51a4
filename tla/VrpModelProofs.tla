--------------------------- MODULE VrpModelProofs ---------------------------
(***************************************************************************)
(* Proofs about VrpModel, for every set of external IDs and of instants    *)
(* and for models of any size: the tables keep their shape, the indexes    *)
(* agree with the request table, and time windows stay disjoint pairs that *)
(* a call can only add to.                                                 *)
(***************************************************************************)
EXTENDS VrpModel, SequenceFacts, FiniteSetTheorems

-----------------------------------------------------------------------------
(***************************************************************************)
(* The list of time windows of one role of a request                       *)
(***************************************************************************)

\* Where a bound may be inserted is a position of the list or the one after it.
LEMMA SlotsAreSlots ==
  ASSUME NEW S, NEW s \in Seq(S), NEW x, NEW p \in Slots(s, x)
  PROVE  p \in 1 .. Len(s) + 1
BY DEF Slots

\* When the two bounds do not fit, removing them again, the later insertion
\* first, gives back the list the call found.
LEMMA UndoneRestores ==
  ASSUME NEW tws \in Seq(Times),
         NEW e \in Times, NEW l \in Times,
         NEW posE \in 1 .. Len(tws) + 1,
         NEW posL \in 1 .. Len(InsertAt(tws, posE, e)) + 1
  PROVE  Undone(InsertAt(InsertAt(tws, posE, e), posL, l), posE, posL) = tws
<1> DEFINE withE == InsertAt(tws, posE, e)
<1>1. withE \in Seq(Times)
  BY InsertAtProperties
<1>2. RemoveAt(InsertAt(withE, posL, l), posL) = withE
  BY <1>1, RemoveInserted
<1>3. RemoveAt(withE, posE) = tws
  BY RemoveInserted
<1> QED
  BY <1>2, <1>3 DEF Undone

\* What the list is after two bounds that fit.
LEMMA FittedBounds ==
  ASSUME NEW tws \in Seq(Times), NEW e \in Times, NEW l \in Times,
         NEW posE \in Slots(tws, e),
         NEW posL \in Slots(InsertAt(tws, posE, e), l),
         Fits(posE, posL)
  PROVE  LET new == InsertAt(InsertAt(tws, posE, e), posL, l) IN
         /\ new \in Seq(Times)
         /\ Len(new) = Len(tws) + 2
         /\ posE \in 1 .. Len(tws) + 1 /\ (posE - 1) % 2 = 0
         /\ posE > 1 => tws[posE - 1] <= e
         /\ posE <= Len(tws) => l <= tws[posE]
         /\ \A i \in 1 .. Len(tws) + 2 :
              new[i] = IF i < posE THEN tws[i]
                       ELSE IF i = posE THEN e
                       ELSE IF i = posE + 1 THEN l ELSE tws[i - 2]
<1> DEFINE withE == InsertAt(tws, posE, e)
           new == InsertAt(withE, posL, l)
<1>1. Len(tws) \in Nat /\ posE \in 1 .. Len(tws) + 1
  BY SlotsAreSlots
<1>2. /\ withE \in Seq(Times) /\ Len(withE) = Len(tws) + 1
      /\ \A i \in 1 .. Len(tws) + 1 :
           withE[i] = IF i < posE THEN tws[i]
                      ELSE IF i = posE THEN e ELSE tws[i - 1]
  BY <1>1, InsertAtProperties
<1>3. posL = posE + 1 /\ (posE - 1) % 2 = 0
  BY DEF Fits
<1>4. /\ posE > 1 => tws[posE - 1] <= e
      /\ posL <= Len(withE) => l <= withE[posL]
  BY DEF Slots
<1> HIDE DEF withE
<1>5. /\ new \in Seq(Times) /\ Len(new) = Len(tws) + 2
      /\ \A i \in 1 .. Len(tws) + 2 :
           new[i] = IF i < posL THEN withE[i]
                    ELSE IF i = posL THEN l ELSE withE[i - 1]
  <2>1. posL \in 1 .. Len(withE) + 1 /\ Len(withE) + 1 = Len(tws) + 2
    BY <1>1, <1>2, <1>3
  <2>2. /\ new \in Seq(Times) /\ Len(new) = Len(withE) + 1
        /\ \A i \in 1 .. Len(withE) + 1 :
             new[i] = IF i < posL THEN withE[i]
                      ELSE IF i = posL THEN l ELSE withE[i - 1]
    <3>1. withE \in Seq(Times)
      BY <1>2
    <3> QED
      BY ONLY <3>1, <2>1, l \in Times, InsertAtProperties
  <2> QED
    BY <1>1, <2>1, <2>2
<1>6. posE <= Len(tws) => l <= tws[posE]
  <2>1. posE <= Len(tws) => /\ posL <= Len(withE)
                            /\ withE[posL] = tws[posE]
    BY <1>1, <1>2, <1>3
  <2> QED
    BY <2>1, <1>4
<1> HIDE DEF new
<1>7. ASSUME NEW i \in 1 .. Len(tws) + 2
      PROVE  new[i] = IF i < posE THEN tws[i]
                      ELSE IF i = posE THEN e
                      ELSE IF i = posE + 1 THEN l ELSE tws[i - 2]
  <2>1. i \in Int /\ i >= 1 /\ i <= Len(tws) + 2
    BY <1>1
  <2>2. CASE i <= posE
    BY <2>1, <2>2, <1>1, <1>2, <1>3, <1>5
  <2>3. CASE i = posE + 1
    BY <2>1, <2>3, <1>1, <1>3, <1>5
  <2>4. CASE i > posE + 1
    <3>1. /\ i - 1 \in 1 .. Len(tws) + 1 /\ i - 1 > posE /\ i - 1 - 1 = i - 2
      BY <2>1, <2>4, <1>1
    <3>2. withE[i - 1] = tws[i - 2]
      BY <3>1, <2>1, <1>1, <1>2
    <3> QED
      BY <2>1, <2>4, <3>2, <1>1, <1>3, <1>5
  <2> QED
    BY <2>1, <2>2, <2>3, <2>4, <1>1
<1> QED
  BY <1>1, <1>3, <1>4, <1>5, <1>6, <1>7 DEF withE, new

\* What a call of vrp_add_time_window that fits or not does to the lists.
LEMMA AddTimeWindowEffect ==
  ASSUME TypeOK, NEW id, NEW role \in Roles, NEW e \in Times, NEW l \in Times,
         AddTimeWindow(id, role, e, l)
  PROVE  /\ id \in RequestIds
         /\ e <= l
         /\ \/ windows' = windows /\ ret' = -1
            \/ \E posE \in Slots(windows[id + 1][role], e) :
               \E posL \in Slots(InsertAt(windows[id + 1][role], posE, e), l) :
                 /\ Fits(posE, posL)
                 /\ windows' = [windows EXCEPT ![id + 1][role] =
                      InsertAt(InsertAt(windows[id + 1][role], posE, e), posL, l)]
                 /\ ret' = 0
<1> DEFINE tws == windows[id + 1][role]
<1>1. id \in RequestIds /\ e <= l
  BY DEF AddTimeWindow
<1>2. id + 1 \in 1 .. Len(windows) /\ windows \in Seq([Roles -> Seq(Times)])
  BY <1>1 DEF TypeOK, RequestIds
<1>3. tws \in Seq(Times)
  BY <1>2
<1>4. PICK posE \in Slots(tws, e) : \E posL \in Slots(InsertAt(tws, posE, e), l) :
        \/ /\ Fits(posE, posL)
           /\ windows' = [windows EXCEPT ![id + 1][role] =
                            InsertAt(InsertAt(tws, posE, e), posL, l)]
           /\ ret' = 0
        \/ /\ ~Fits(posE, posL)
           /\ windows' = [windows EXCEPT ![id + 1][role] =
                Undone(InsertAt(InsertAt(tws, posE, e), posL, l), posE, posL)]
           /\ ret' = -1
  BY DEF AddTimeWindow
<1>5. PICK posL \in Slots(InsertAt(tws, posE, e), l) :
        \/ /\ Fits(posE, posL)
           /\ windows' = [windows EXCEPT ![id + 1][role] =
                            InsertAt(InsertAt(tws, posE, e), posL, l)]
           /\ ret' = 0
        \/ /\ ~Fits(posE, posL)
           /\ windows' = [windows EXCEPT ![id + 1][role] =
                Undone(InsertAt(InsertAt(tws, posE, e), posL, l), posE, posL)]
           /\ ret' = -1
  BY <1>4
<1>6. CASE Fits(posE, posL)
  BY <1>1, <1>5, <1>6
<1>7. CASE ~Fits(posE, posL)
  <2>1. posE \in 1 .. Len(tws) + 1
    BY <1>3, SlotsAreSlots
  <2>2. InsertAt(tws, posE, e) \in Seq(Times)
    BY <1>3, <2>1, InsertAtProperties
  <2>3. posL \in 1 .. Len(InsertAt(tws, posE, e)) + 1
    BY <2>2, SlotsAreSlots
  <2>4. Undone(InsertAt(InsertAt(tws, posE, e), posL, l), posE, posL) = tws
    BY <1>3, <2>1, <2>3, UndoneRestores
  <2>5. [windows EXCEPT ![id + 1][role] = tws] = windows
    <3>1. /\ windows \in [1 .. Len(windows) -> [Roles -> Seq(Times)]]
          /\ windows[id + 1] \in [Roles -> Seq(Times)]
      BY <1>2, LenProperties
    <3> QED
      BY <1>2, <3>1
  <2> QED
    BY <1>1, <1>5, <1>7, <2>4, <2>5
<1> QED
  BY <1>6, <1>7

-----------------------------------------------------------------------------
(***************************************************************************)
(* The tables                                                              *)
(***************************************************************************)


\* vrp_add_node either finds the external ID and changes nothing, or adds a node
\* that no request is pending at.
LEMMA AddNodeEffect ==
  ASSUME NEW ext, AddNode(ext)
  PROVE  /\ UNCHANGED <<requests, lost, senderIds, receiverIds, pendingIds,
                        windows, aborted>>
         /\ \/ /\ UNCHANGED <<nodes, nodePending>>
               /\ ret' = ID_NONE
            \/ /\ ~Contains(nodes, ext)
               /\ nodes' = Append(nodes, ext)
               /\ nodePending' = Append(nodePending, <<>>)
               /\ ret' = Len(nodes)
BY DEF AddNode

\* What vrp_associate_node_with_new_request leaves in the lists of the nodes.
LEMMA AssociatedProperties ==
  ASSUME NEW S, nodePending \in Seq(Seq(S)), NEW id \in S, NEW s, NEW r
  PROVE  /\ Associated(s, r, id) \in Seq(Seq(S))
         /\ Len(Associated(s, r, id)) = Len(nodePending)
         /\ \A n \in 0 .. Len(nodePending) - 1 :
              /\ n \in {s, r} => Associated(s, r, id)[n + 1]
                                   = Append(nodePending[n + 1], id)
              /\ n \notin {s, r} => Associated(s, r, id)[n + 1]
                                      = nodePending[n + 1]
<1>1. DOMAIN nodePending = 1 .. Len(nodePending) /\ Len(nodePending) \in Nat
  OBVIOUS
<1>2. \A i \in 1 .. Len(nodePending) : /\ nodePending[i] \in Seq(S)
                                      /\ Append(nodePending[i], id) \in Seq(S)
  BY AppendProperties
<1> DEFINE appended(i) == IF i - 1 \in {s, r} THEN Append(nodePending[i], id)
                                              ELSE nodePending[i]
<1>3. \A i \in 1 .. Len(nodePending) : appended(i) \in Seq(S)
  BY <1>2
<1>4. Associated(s, r, id) = [i \in 1 .. Len(nodePending) |-> appended(i)]
  BY <1>1 DEF Associated
<1> HIDE DEF appended
<1>5. /\ [i \in 1 .. Len(nodePending) |-> appended(i)] \in Seq(Seq(S))
      /\ Len([i \in 1 .. Len(nodePending) |-> appended(i)]) = Len(nodePending)
  BY <1>1, <1>3
<1>6. ASSUME NEW n \in 0 .. Len(nodePending) - 1
      PROVE  Associated(s, r, id)[n + 1] = appended(n + 1)
  <2>1. n + 1 \in 1 .. Len(nodePending)
    BY <1>1
  <2> QED
    BY <2>1, <1>4
<1>7. ASSUME NEW n \in 0 .. Len(nodePending) - 1
      PROVE  appended(n + 1) = IF n \in {s, r} THEN Append(nodePending[n + 1], id)
                                               ELSE nodePending[n + 1]
  <2>1. n + 1 - 1 = n
    OBVIOUS
  <2> QED
    BY <2>1 DEF appended
<1> QED
  BY <1>4, <1>5, <1>6, <1>7

\* What TypeOK says a request is.
Request == [ext : RequestExtIds, sender : Endpoint, receiver : Endpoint]

\* The type invariant TypeOK holds in every reachable state: the tables that
\* vrp_add_node, vrp_add_request and vrp_add_time_window fill keep their shape.
THEOREM TypeCorrect == Spec => []TypeOK
<1>1. Init => TypeOK
  <2> SUFFICES ASSUME Init PROVE TypeOK
    OBVIOUS
  <2>1. /\ nodes \in Seq(NodeExtIds)
        /\ requests \in Seq(Request)
        /\ nodePending \in Seq(Seq(RequestIds \cup {ID_NONE}))
        /\ windows \in Seq([Roles -> Seq(Times)])
    BY DEF Init
  <2>2. Len(nodePending) = Len(nodes) /\ Len(windows) = Len(requests)
    BY DEF Init
  <2>3. /\ lost \subseteq Request
        /\ senderIds \subseteq NodeIds /\ receiverIds \subseteq NodeIds
        /\ pendingIds \subseteq RequestIds \cup {ID_NONE}
    BY DEF Init
  <2>4. ret \in Int \cup {ID_NONE}
    BY DEF Init
  <2>5. aborted \in BOOLEAN
    BY DEF Init
  <2> QED
    BY <2>1, <2>2, <2>3, <2>4, <2>5 DEF TypeOK, Request
<1>2. TypeOK /\ [Next]_vars => TypeOK'
  <2> SUFFICES ASSUME TypeOK, [Next]_vars PROVE TypeOK'
    OBVIOUS
  <2> USE DEF NodeIds, RequestIds, Endpoint
  <2>1. ASSUME NEW ext \in NodeExtIds, AddNode(ext) PROVE TypeOK'
    <3>1. CASE UNCHANGED <<nodes, nodePending>>
      BY <2>1, <3>1 DEF AddNode, TypeOK
    <3>2. CASE /\ nodes' = Append(nodes, ext)
               /\ nodePending' = Append(nodePending, <<>>)
               /\ ret' = Len(nodes)
      <4>1. /\ nodes' \in Seq(NodeExtIds) /\ Len(nodes') = Len(nodes) + 1
            /\ Len(nodes) \in Nat
        BY <3>2 DEF TypeOK
      <4>2. nodePending' \in Seq(Seq((RequestIds \cup {ID_NONE})'))
            /\ Len(nodePending') = Len(nodes')
        BY <2>1, <3>2, AddNodeEffect DEF TypeOK
      <4>3. Endpoint \subseteq Endpoint' /\ NodeIds \subseteq NodeIds'
        BY <4>1
      <4>4. requests' \in Seq(Request') /\ lost' \subseteq Request'
        <5>1. Request \subseteq Request'
          BY <4>3 DEF Request
        <5>2. requests \in Seq(Request) /\ lost \subseteq Request
          BY DEF TypeOK, Request
        <5>3. requests' = requests /\ lost' = lost
          BY <2>1, AddNodeEffect
        <5> QED
          BY ONLY <5>1, <5>2, <5>3, SeqMonotonic
      <4>5. ret' \in Int
        BY <3>2, <4>1
      <4> QED
        BY <2>1, <4>1, <4>2, <4>3, <4>4, <4>5, AddNodeEffect DEF TypeOK, Request
    <3> QED
      BY <2>1, <3>1, <3>2, AddNodeEffect
  <2>2. ASSUME NEW ext \in RequestExtIds, NEW s \in Endpoint, NEW r \in Endpoint,
               AddRequest(ext, s, r)
        PROVE  TypeOK'
    <3> DEFINE id == NewRequestId(ext)
               request == [ext |-> ext, sender |-> s, receiver |-> r]
    <3>1. request \in Request
      BY DEF Request
    <3>2. /\ nodes' = nodes /\ aborted' = aborted
          /\ nodePending' = Associated(s, r, id)
          /\ senderIds' = senderIds \cup ({s} \ {ID_NONE})
          /\ receiverIds' = receiverIds \cup ({r} \ {ID_NONE})
          /\ pendingIds' = pendingIds \cup {id}
          /\ ret' = id
      BY <2>2 DEF AddRequest
    <3>3. \/ /\ id = ID_NONE
             /\ lost' = lost \cup {request}
             /\ UNCHANGED <<requests, windows>>
          \/ /\ id = Len(requests)
             /\ requests' = Append(requests, request)
             /\ windows' = Append(windows, [role \in Roles |-> <<>>])
             /\ lost' = lost
      BY <2>2 DEF AddRequest, NewRequestId
    <3>id. id = Len(requests) => id # ID_NONE
      BY IdNoneAssumption DEF TypeOK
    <3> HIDE DEF id, request
    <3>4. /\ requests' \in Seq(Request) /\ lost' \subseteq Request
          /\ Len(requests') \in Nat
      <4>1. /\ requests \in Seq(Request) /\ lost \subseteq Request
            /\ Len(requests) \in Nat
        BY DEF TypeOK, Request
      <4> QED
        <5>1. CASE /\ lost' = lost \cup {request}
                   /\ UNCHANGED <<requests, windows>>
          BY <5>1, <3>1, <4>1
        <5>2. CASE requests' = Append(requests, request) /\ lost' = lost
          BY <5>2, <3>1, <4>1
        <5> QED
          BY <5>1, <5>2, <3>3
    <3>5. windows' \in Seq([Roles -> Seq(Times)]) /\ Len(windows') = Len(requests')
      <4>1. [role \in Roles |-> <<>>] \in [Roles -> Seq(Times)]
        OBVIOUS
      <4>2. /\ windows \in Seq([Roles -> Seq(Times)])
            /\ Len(windows) = Len(requests)
        BY DEF TypeOK
      <4>3. id # ID_NONE => Len(requests') = Len(requests) + 1
        BY <3>1, <3>3 DEF TypeOK
      <4> QED
        <5>1. CASE UNCHANGED <<requests, windows>>
          BY <5>1, <4>2
        <5>2. CASE /\ windows' = Append(windows, [role \in Roles |-> <<>>])
                   /\ id # ID_NONE
          BY <5>2, <4>1, <4>2, <4>3
        <5> QED
          BY <5>1, <5>2, <3>3, <3>id
    <3>6. /\ RequestIds \cup {ID_NONE} \subseteq (RequestIds \cup {ID_NONE})'
          /\ id \in (RequestIds \cup {ID_NONE})'
      BY <3>1, <3>3 DEF TypeOK
    <3>7. nodePending' \in Seq(Seq((RequestIds \cup {ID_NONE})'))
          /\ Len(nodePending') = Len(nodes')
      <4> DEFINE S == (RequestIds \cup {ID_NONE})'
      <4>1. nodePending \in Seq(Seq(S))
        <5>1. Seq(RequestIds \cup {ID_NONE}) \subseteq Seq(S)
          BY <3>6, SeqMonotonic
        <5>2. nodePending \in Seq(Seq(RequestIds \cup {ID_NONE}))
          BY DEF TypeOK
        <5> HIDE DEF S
        <5> QED
          BY ONLY <5>1, <5>2, SeqMonotonic
      <4>2. id \in S
        BY <3>6
      <4>3. Len(nodePending) = Len(nodes)
        BY DEF TypeOK
      <4> HIDE DEF S
      <4>4. nodePending' \in Seq(Seq(S)) /\ Len(nodePending') = Len(nodePending)
        BY <4>1, <4>2, <3>2, AssociatedProperties
      <4> QED
        BY <4>3, <4>4, <3>2 DEF S
    <3>8. senderIds' \subseteq NodeIds /\ receiverIds' \subseteq NodeIds
      BY <3>2 DEF TypeOK
    <3>9. ret' \in Int \cup {ID_NONE} /\ pendingIds' \subseteq (RequestIds \cup {ID_NONE})'
      BY <3>2, <3>3, <3>6 DEF TypeOK
    <3> QED
      BY <3>2, <3>4, <3>5, <3>7, <3>8, <3>9 DEF TypeOK, Request
  <2>3. ASSUME NEW ext \in RequestExtIds, NEW s \in Endpoint, NEW r \in Endpoint,
               AddRequestAborts(ext, s, r)
        PROVE  TypeOK'
    BY <2>3 DEF AddRequestAborts, TypeOK, indexVars
  <2>4. ASSUME NEW id \in RequestIds, NEW role \in Roles,
               NEW e \in Times, NEW l \in Times, AddTimeWindow(id, role, e, l)
        PROVE  TypeOK'
    <3>1. UNCHANGED <<indexVars, aborted>>
      BY <2>4 DEF AddTimeWindow
    <3>2. ret' \in Int /\ windows' \in Seq([Roles -> Seq(Times)])
                       /\ Len(windows') = Len(windows)
      <4>1. CASE windows' = windows /\ ret' = -1
        BY <4>1 DEF TypeOK
      <4>2. ASSUME NEW posE \in Slots(windows[id + 1][role], e),
                   NEW posL \in Slots(InsertAt(windows[id + 1][role], posE, e), l),
                   Fits(posE, posL),
                   windows' = [windows EXCEPT ![id + 1][role] =
                     InsertAt(InsertAt(windows[id + 1][role], posE, e), posL, l)],
                   ret' = 0
            PROVE  ret' \in Int /\ windows' \in Seq([Roles -> Seq(Times)])
                                /\ Len(windows') = Len(windows)
        <5> DEFINE new == InsertAt(InsertAt(windows[id + 1][role], posE, e), posL, l)
                   w == [windows[id + 1] EXCEPT ![role] = new]
        <5>1. /\ windows \in Seq([Roles -> Seq(Times)])
              /\ id + 1 \in 1 .. Len(windows)
          BY DEF TypeOK
        <5>2. windows[id + 1] \in [Roles -> Seq(Times)]
          BY <5>1
        <5>3. new \in Seq(Times)
          BY <4>2, <5>2, FittedBounds
        <5> HIDE DEF new
        <5>4. w \in [Roles -> Seq(Times)]
          BY <5>2, <5>3
        <5>5. windows' = [windows EXCEPT ![id + 1] = w]
          BY <4>2 DEF new
        <5> HIDE DEF w
        <5> QED
          BY <4>2, <5>1, <5>4, <5>5
      <4> QED
        BY <2>4, <4>1, <4>2, AddTimeWindowEffect
    <3> QED
      BY <3>1, <3>2 DEF TypeOK, indexVars
  <2>5. CASE UNCHANGED vars
    BY <2>5 DEF vars, indexVars, TypeOK
  <2> QED
    BY <2>1, <2>2, <2>3, <2>4, <2>5 DEF Next
<1> QED
  BY <1>1, <1>2, PTL DEF Spec

-----------------------------------------------------------------------------
(***************************************************************************)
(* Time windows                                                            *)
(***************************************************************************)

\* A list of whole pairs in ascending order, what WindowsDisjoint asks of the
\* time windows of every role of every request.
OrderedPairs(tws) ==
  /\ Len(tws) % 2 = 0
  /\ \A k \in 1 .. Len(tws) - 1 : tws[k] <= tws[k + 1]

\* Two bounds that fit leave a list of ordered pairs.
LEMMA FittedPairs ==
  ASSUME NEW tws \in Seq(Times), OrderedPairs(tws),
         NEW e \in Times, NEW l \in Times, e <= l,
         NEW posE \in Slots(tws, e),
         NEW posL \in Slots(InsertAt(tws, posE, e), l),
         Fits(posE, posL)
  PROVE  OrderedPairs(InsertAt(InsertAt(tws, posE, e), posL, l))
<1> DEFINE new == InsertAt(InsertAt(tws, posE, e), posL, l)
<1>1. /\ Len(new) = Len(tws) + 2 /\ Len(tws) \in Nat
      /\ posE \in 1 .. Len(tws) + 1
      /\ posE > 1 => tws[posE - 1] <= e
      /\ posE <= Len(tws) => l <= tws[posE]
      /\ \A i \in 1 .. Len(tws) + 2 :
           new[i] = IF i < posE THEN tws[i]
                    ELSE IF i = posE THEN e
                    ELSE IF i = posE + 1 THEN l ELSE tws[i - 2]
  BY FittedBounds
<1> HIDE DEF new
<1>2. Len(new) % 2 = 0
  BY <1>1 DEF OrderedPairs
<1>3. ASSUME NEW k \in 1 .. Len(new) - 1
      PROVE  new[k] <= new[k + 1]
  <2>1. /\ k \in Int /\ k >= 1 /\ k <= Len(tws) + 1
        /\ k \in 1 .. Len(tws) + 2 /\ k + 1 \in 1 .. Len(tws) + 2
    BY <1>1
  <2>2. CASE k + 1 < posE
    <3>1. new[k] = tws[k] /\ new[k + 1] = tws[k + 1] /\ k \in 1 .. Len(tws) - 1
      BY <2>1, <2>2, <1>1
    <3> QED
      BY <3>1 DEF OrderedPairs
  <2>3. CASE k + 1 = posE
    <3>1. new[k] = tws[posE - 1] /\ new[k + 1] = e /\ posE > 1
      BY <2>1, <2>3, <1>1
    <3> QED
      BY <3>1, <1>1
  <2>4. CASE k = posE
    BY <2>1, <2>4, <1>1
  <2>5. CASE k = posE + 1
    <3>1. new[k] = l /\ new[k + 1] = tws[posE] /\ posE <= Len(tws)
      BY <2>1, <2>5, <1>1
    <3> QED
      BY <3>1, <1>1
  <2>6. CASE k > posE + 1
    <3>1. /\ new[k] = tws[k - 2] /\ new[k + 1] = tws[k - 1]
          /\ k - 2 \in 1 .. Len(tws) - 1 /\ k - 2 + 1 = k - 1
      BY <2>1, <2>6, <1>1
    <3> QED
      BY <3>1 DEF OrderedPairs
  <2> QED
    BY <2>1, <2>2, <2>3, <2>4, <2>5, <2>6, <1>1
<1> QED
  BY <1>2, <1>3 DEF OrderedPairs, new

\* WindowsDisjoint holds in every reachable state: whatever bounds
\* vrp_add_time_window is given, and wherever among equal ones
\* listu_insert_sorted puts them, the time windows of a request stay whole pairs
\* in ascending order.
THEOREM WindowsStayDisjoint == Spec => []WindowsDisjoint
<1> DEFINE Paired == \A id \in RequestIds, role \in Roles :
                       OrderedPairs(windows[id + 1][role])
<1>1. WindowsDisjoint <=> Paired
  BY DEF WindowsDisjoint, OrderedPairs
<1>2. Init => Paired
  BY DEF Init, RequestIds
<1>3. TypeOK /\ TypeOK' /\ Paired /\ [Next]_vars => Paired'
  <2> SUFFICES ASSUME TypeOK, TypeOK', Paired, [Next]_vars,
                      NEW i \in RequestIds', NEW role \in Roles
               PROVE  OrderedPairs(windows'[i + 1][role])
    BY DEF Paired
  <2>1. CASE UNCHANGED <<requests, windows>>
    BY <2>1 DEF RequestIds
  <2>2. ASSUME NEW ext \in RequestExtIds, NEW s \in Endpoint, NEW r \in Endpoint,
               AddRequest(ext, s, r)
        PROVE  OrderedPairs(windows'[i + 1][role])
    <3>1. CASE UNCHANGED <<requests, windows>>
      BY <3>1, <2>1
    <3>2. CASE /\ windows' = Append(windows, [x \in Roles |-> <<>>])
               /\ Len(requests') = Len(requests) + 1
      <4>1. /\ Len(windows) = Len(requests) /\ Len(requests) \in Nat
            /\ windows \in Seq([Roles -> Seq(Times)])
        BY DEF TypeOK
      <4>2. CASE i = Len(requests)
        <5>1. windows'[i + 1][role] = <<>>
          BY <3>2, <4>1, <4>2
        <5> QED
          BY <5>1 DEF OrderedPairs
      <4>3. CASE i \in RequestIds
        <5>1. windows'[i + 1] = windows[i + 1]
          BY <3>2, <4>1, <4>3 DEF RequestIds
        <5> QED
          BY <4>3, <5>1 DEF Paired
      <4> QED
        BY <3>2, <4>1, <4>2, <4>3 DEF RequestIds
    <3>3. requests' = Append(requests, [ext |-> ext, sender |-> s, receiver |-> r])
            => Len(requests') = Len(requests) + 1
      BY DEF TypeOK
    <3> QED
      BY <2>2, <3>1, <3>2, <3>3 DEF AddRequest
  <2>3. ASSUME NEW id \in RequestIds, NEW role1 \in Roles,
               NEW e \in Times, NEW l \in Times, AddTimeWindow(id, role1, e, l)
        PROVE  OrderedPairs(windows'[i + 1][role])
    <3>1. requests' = requests /\ e <= l
      BY <2>3 DEF AddTimeWindow, indexVars
    <3>2. ASSUME NEW posE \in Slots(windows[id + 1][role1], e),
                 NEW posL \in Slots(InsertAt(windows[id + 1][role1], posE, e), l),
                 Fits(posE, posL),
                 windows' = [windows EXCEPT ![id + 1][role1] =
                   InsertAt(InsertAt(windows[id + 1][role1], posE, e), posL, l)]
          PROVE  OrderedPairs(windows'[i + 1][role])
      <4> DEFINE new == InsertAt(InsertAt(windows[id + 1][role1], posE, e), posL, l)
      <4>1. /\ windows \in [1 .. Len(windows) -> [Roles -> Seq(Times)]]
            /\ Len(windows) = Len(requests)
            /\ id + 1 \in 1 .. Len(windows)
        BY DEF TypeOK, RequestIds
      <4>2. OrderedPairs(new)
        BY <3>1, <3>2, <4>1, FittedPairs DEF Paired
      <4> HIDE DEF new
      <4>3. i \in RequestIds
        BY <3>1 DEF RequestIds
      <4>4. CASE i = id /\ role = role1
        <5>1. windows'[i + 1][role] = new
          BY <3>2, <4>1, <4>4 DEF new
        <5> QED
          BY <4>2, <5>1
      <4>5. CASE ~(i = id /\ role = role1)
        <5>1. windows'[i + 1][role] = windows[i + 1][role]
          BY <3>2, <4>1, <4>3, <4>5 DEF RequestIds
        <5> QED
          BY <4>3, <5>1 DEF Paired
      <4> QED
        BY <4>4, <4>5
    <3> QED
      BY <2>1, <2>3, <3>1, <3>2, AddTimeWindowEffect
  <2> QED
    BY <2>1, <2>2, <2>3
       DEF Next, vars, indexVars, AddNode, AddRequestAborts
<1> QED
  BY <1>1, <1>2, <1>3, TypeCorrect, PTL DEF Spec

\* Two bounds that fit add one window to those of the list and change no other.
LEMMA FittedWindowSet ==
  ASSUME NEW tws \in Seq(Times), OrderedPairs(tws),
         NEW e \in Times, NEW l \in Times,
         NEW posE \in Slots(tws, e),
         NEW posL \in Slots(InsertAt(tws, posE, e), l),
         Fits(posE, posL)
  PROVE  WindowSet(InsertAt(InsertAt(tws, posE, e), posL, l))
           = WindowSet(tws) \cup {<<e, l>>}
<1> DEFINE new == InsertAt(InsertAt(tws, posE, e), posL, l)
           n == Len(tws) \div 2
           m == (posE - 1) \div 2
           window(list, k) == <<list[2 * k - 1], list[2 * k]>>
<1>1. /\ Len(new) = Len(tws) + 2 /\ Len(tws) \in Nat
      /\ posE \in 1 .. Len(tws) + 1 /\ (posE - 1) % 2 = 0
      /\ \A i \in 1 .. Len(tws) + 2 :
           new[i] = IF i < posE THEN tws[i]
                    ELSE IF i = posE THEN e
                    ELSE IF i = posE + 1 THEN l ELSE tws[i - 2]
  BY FittedBounds
<1> HIDE DEF new
<1>2. /\ n \in Nat /\ Len(tws) = 2 * n /\ Len(new) \div 2 = n + 1
      /\ m \in Nat /\ posE = 2 * m + 1 /\ m <= n
  <2>1. \A x \in Nat : x % 2 = 0 => /\ x \div 2 \in Nat /\ x = 2 * (x \div 2)
                                   /\ (x + 2) \div 2 = x \div 2 + 1
    OBVIOUS
  <2>2. /\ Len(tws) % 2 = 0 /\ (posE - 1) % 2 = 0
        /\ Len(tws) \in Nat /\ posE - 1 \in Nat
    BY <1>1 DEF OrderedPairs
  <2>3. /\ n \in Nat /\ Len(tws) = 2 * n /\ (Len(tws) + 2) \div 2 = n + 1
    BY <2>1, <2>2
  <2>4. m \in Nat /\ posE - 1 = 2 * m
    BY <2>1, <2>2
  <2> HIDE DEF n, m
  <2> QED
    BY <1>1, <2>3, <2>4
<1> HIDE DEF n, m
<1>3. ASSUME NEW k \in 1 .. n + 1
      PROVE  window(new, k) = IF k <= m THEN window(tws, k)
                              ELSE IF k = m + 1 THEN <<e, l>>
                              ELSE window(tws, k - 1)
  <2>1. /\ k \in Int /\ k >= 1 /\ k <= n + 1
        /\ 2 * k - 1 \in 1 .. Len(tws) + 2 /\ 2 * k \in 1 .. Len(tws) + 2
    BY <1>2
  <2>2. CASE k <= m
    BY <2>1, <2>2, <1>1, <1>2
  <2>3. CASE k = m + 1
    BY <2>1, <2>3, <1>1, <1>2
  <2>4. CASE k > m + 1
    <3>1. new[2 * k - 1] = tws[2 * k - 1 - 2] /\ new[2 * k] = tws[2 * k - 2]
      <4>1. \A i \in 1 .. Len(tws) + 2 : i > posE + 1 => new[i] = tws[i - 2]
        BY <1>1
      <4>2. 2 * k - 1 > posE + 1 /\ 2 * k > posE + 1
        BY <2>1, <2>4, <1>2
      <4> QED
        BY <2>1, <4>1, <4>2
    <3>2. 2 * k - 1 - 2 = 2 * (k - 1) - 1 /\ 2 * k - 2 = 2 * (k - 1)
      BY <2>1
    <3> QED
      BY <2>1, <2>4, <3>1, <3>2, <1>2
  <2> QED
    BY <2>1, <2>2, <2>3, <2>4, <1>2
<1>4. /\ WindowSet(new) = {window(new, k) : k \in 1 .. n + 1}
      /\ WindowSet(tws) = {window(tws, k) : k \in 1 .. n}
  BY <1>2 DEF WindowSet, n
<1> HIDE DEF window
<1>5. WindowSet(new) \subseteq WindowSet(tws) \cup {<<e, l>>}
  <2> SUFFICES ASSUME NEW k \in 1 .. n + 1
               PROVE  window(new, k) \in WindowSet(tws) \cup {<<e, l>>}
    BY <1>4
  <2>1. CASE k <= m
    BY <2>1, <1>2, <1>3, <1>4
  <2>2. CASE k = m + 1
    BY <2>2, <1>2, <1>3
  <2>3. CASE k > m + 1
    <3>1. k - 1 \in 1 .. n
      BY <2>3, <1>2
    <3> QED
      BY <2>3, <3>1, <1>2, <1>3, <1>4
  <2> QED
    BY <2>1, <2>2, <2>3, <1>2
<1>6. <<e, l>> \in WindowSet(new)
  <2>1. m + 1 \in 1 .. n + 1 /\ ~(m + 1 <= m)
    BY <1>2
  <2> QED
    BY <2>1, <1>3, <1>4
<1>7. WindowSet(tws) \subseteq WindowSet(new)
  <2> SUFFICES ASSUME NEW k \in 1 .. n PROVE window(tws, k) \in WindowSet(new)
    BY <1>4
  <2>1. CASE k <= m
    BY <2>1, <1>2, <1>3, <1>4
  <2>2. CASE k > m
    <3>1. k + 1 \in 1 .. n + 1 /\ ~(k + 1 <= m) /\ k + 1 # m + 1 /\ k + 1 - 1 = k
      BY <2>2, <1>2
    <3>2. window(new, k + 1) = window(tws, k)
      BY <3>1, <1>3
    <3> QED
      BY <3>1, <3>2, <1>4
  <2> QED
    BY <2>1, <2>2, <1>2
<1> QED
  BY <1>5, <1>6, <1>7 DEF new

\* What WindowsOnlyAdded says of one step: each list of time windows is as it
\* was, or has one window more and the call answered 0.
WindowsGrow ==
  \A id \in RequestIds, role \in Roles :
    LET old == windows[id + 1][role]
        new == windows'[id + 1][role]
    IN  \/ new = old
        \/ /\ ret' = 0
           /\ Len(new) = Len(old) + 2
           /\ \E e, l \in Times :
                WindowSet(new) = WindowSet(old) \cup {<<e, l>>}

\* No step of the specification does anything to the windows of a request but
\* add one: vrp_add_request gives a list to a new request only, and
\* vrp_add_time_window undoes what did not fit (WindowsOnlyAdded).
THEOREM WindowsAreOnlyAdded == Spec => WindowsOnlyAdded
<1>1. TypeOK /\ WindowsDisjoint /\ [Next]_vars => WindowsGrow
  <2> SUFFICES ASSUME TypeOK, WindowsDisjoint, [Next]_vars,
                      NEW i \in RequestIds, NEW role \in Roles
               PROVE  \/ windows'[i + 1][role] = windows[i + 1][role]
                      \/ /\ ret' = 0
                         /\ Len(windows'[i + 1][role])
                              = Len(windows[i + 1][role]) + 2
                         /\ \E e, l \in Times :
                              WindowSet(windows'[i + 1][role])
                                = WindowSet(windows[i + 1][role]) \cup {<<e, l>>}
    BY DEF WindowsGrow
  <2> DEFINE Grows == \/ windows'[i + 1][role] = windows[i + 1][role]
                      \/ /\ ret' = 0
                         /\ Len(windows'[i + 1][role])
                              = Len(windows[i + 1][role]) + 2
                         /\ \E e, l \in Times :
                              WindowSet(windows'[i + 1][role])
                                = WindowSet(windows[i + 1][role]) \cup {<<e, l>>}
  <2>1. CASE windows' = windows
    BY <2>1
  <2>2. ASSUME NEW ext \in RequestExtIds, NEW s \in Endpoint, NEW r \in Endpoint,
               AddRequest(ext, s, r)
        PROVE  Grows
    <3>1. CASE windows' = Append(windows, [x \in Roles |-> <<>>])
      BY <3>1 DEF TypeOK, RequestIds
    <3> QED
      BY <2>1, <2>2, <3>1 DEF AddRequest
  <2>3. ASSUME NEW id \in RequestIds, NEW role1 \in Roles,
               NEW e \in Times, NEW l \in Times, AddTimeWindow(id, role1, e, l)
        PROVE  Grows
    <3>1. ASSUME NEW posE \in Slots(windows[id + 1][role1], e),
                 NEW posL \in Slots(InsertAt(windows[id + 1][role1], posE, e), l),
                 Fits(posE, posL), ret' = 0,
                 windows' = [windows EXCEPT ![id + 1][role1] =
                   InsertAt(InsertAt(windows[id + 1][role1], posE, e), posL, l)]
          PROVE  Grows
      <4> DEFINE old == windows[id + 1][role1]
                 new == InsertAt(InsertAt(old, posE, e), posL, l)
      <4>1. /\ windows \in [1 .. Len(windows) -> [Roles -> Seq(Times)]]
            /\ Len(windows) = Len(requests)
            /\ id + 1 \in 1 .. Len(windows)
        BY DEF TypeOK, RequestIds
      <4>2. old \in Seq(Times) /\ OrderedPairs(old)
        BY <4>1 DEF WindowsDisjoint, OrderedPairs
      <4>3. Len(new) = Len(old) + 2
        BY <3>1, <4>2, FittedBounds
      <4>4. WindowSet(new) = WindowSet(old) \cup {<<e, l>>}
        BY <3>1, <4>2, FittedWindowSet
      <4> HIDE DEF new
      <4>5. CASE i = id /\ role = role1
        <5>1. windows'[i + 1][role] = new
          BY <3>1, <4>1, <4>5 DEF new
        <5> QED
          BY <3>1, <4>3, <4>4, <4>5, <5>1
      <4>6. CASE ~(i = id /\ role = role1)
        <5>1. windows'[i + 1][role] = windows[i + 1][role]
          BY <3>1, <4>1, <4>6 DEF RequestIds
        <5> QED
          BY <5>1
      <4> QED
        BY <4>5, <4>6
    <3> HIDE DEF Grows
    <3>2. CASE windows' = windows
      BY <3>2 DEF Grows
    <3>3. CASE \E posE \in Slots(windows[id + 1][role1], e) :
               \E posL \in Slots(InsertAt(windows[id + 1][role1], posE, e), l) :
                 /\ Fits(posE, posL)
                 /\ windows' = [windows EXCEPT ![id + 1][role1] =
                     InsertAt(InsertAt(windows[id + 1][role1], posE, e), posL, l)]
                 /\ ret' = 0
      BY <3>1, <3>3
    <3>4. \/ windows' = windows
          \/ \E posE \in Slots(windows[id + 1][role1], e) :
             \E posL \in Slots(InsertAt(windows[id + 1][role1], posE, e), l) :
               /\ Fits(posE, posL)
               /\ windows' = [windows EXCEPT ![id + 1][role1] =
                   InsertAt(InsertAt(windows[id + 1][role1], posE, e), posL, l)]
               /\ ret' = 0
      BY <2>3, AddTimeWindowEffect
    <3> QED
      BY <3>2, <3>3, <3>4
  <2> QED
    BY <2>1, <2>2, <2>3
       DEF Next, vars, indexVars, AddNode, AddRequestAborts
<1>2. WindowsOnlyAdded <=> [][WindowsGrow]_windows
  BY DEF WindowsOnlyAdded, WindowsGrow
<1> QED
  BY <1>1, <1>2, TypeCorrect, WindowsStayDisjoint, PTL DEF Spec

-----------------------------------------------------------------------------
(***************************************************************************)
(* The indexes.  IndexExact is inductive beside TypeOK: that pendingIds    *)
(* lists ID_NONE exactly when a request is lost is what makes the freshness *)
(* assertion stop a second refused request.                                *)
(***************************************************************************)

\* vrp_add_node keeps the indexes exact: no request has the new node as an end,
\* and its list is empty.
LEMMA AddNodeKeepsIndexes ==
  ASSUME TypeOK, IndexExact, NEW ext \in NodeExtIds, AddNode(ext)
  PROVE  IndexExact'
<1>1. /\ requests' = requests /\ lost' = lost /\ senderIds' = senderIds
      /\ receiverIds' = receiverIds /\ pendingIds' = pendingIds
  BY AddNodeEffect
<1>2. /\ nodes \in Seq(NodeExtIds) /\ Len(nodes) \in Nat
      /\ nodePending \in Seq(Seq(RequestIds \cup {ID_NONE}))
      /\ Len(nodePending) = Len(nodes)
  BY DEF TypeOK
<1>3. RoleIndexExact'
  BY <1>1 DEF IndexExact, RoleIndexExact, RequestIds
<1>4. CASE nodes' = nodes /\ nodePending' = nodePending
  BY <1>1, <1>3, <1>4
     DEF IndexExact, NodeIndexExact, ExtIdsIdentify, NodeIds, RequestIds
<1>5. CASE /\ ~Contains(nodes, ext)
           /\ nodes' = Append(nodes, ext)
           /\ nodePending' = Append(nodePending, <<>>)
  <2>1. ExtIdsIdentify'
    <3>1. IsInjective(nodes')
      BY <1>2, <1>5, InjectiveAppend DEF IndexExact, ExtIdsIdentify
    <3> QED
      BY <1>1, <3>1 DEF IndexExact, ExtIdsIdentify
  <2>2. ASSUME NEW n \in NodeIds'
        PROVE  /\ IsInjective(nodePending'[n + 1])
               /\ \A id \in RequestIds :
                    Contains(nodePending'[n + 1], id)
                      <=> n \in EndsOf(requests[id + 1])
               /\ Contains(nodePending'[n + 1], ID_NONE)
                    <=> \E request \in lost : n \in EndsOf(request)
    <3>1. CASE n \in NodeIds
      <4>1. nodePending'[n + 1] = nodePending[n + 1]
        BY <1>2, <1>5, <3>1 DEF NodeIds
      <4> QED
        BY <3>1, <4>1 DEF IndexExact, NodeIndexExact
    <3>2. CASE n = Len(nodes)
      <4>1. nodePending'[n + 1] = <<>>
        BY <1>2, <1>5, <3>2
      <4>2. n \notin Endpoint
        BY <1>2, <3>2, IdNoneAssumption DEF Endpoint, NodeIds
      <4>3. \A id \in RequestIds : n \notin EndsOf(requests[id + 1])
        <5>1. requests \in Seq(Request) /\ Len(requests) \in Nat
          BY DEF TypeOK, Request
        <5>2. \A id \in RequestIds : requests[id + 1] \in Request
          BY <5>1 DEF RequestIds
        <5>3. \A request \in Request : EndsOf(request) \subseteq Endpoint
          BY DEF Request, EndsOf
        <5> QED
          BY <4>2, <5>2, <5>3
      <4>4. \A request \in lost : n \notin EndsOf(request)
        BY <4>2 DEF TypeOK, EndsOf
      <4>5. IsInjective(<<>>) /\ \A x : ~Contains(<<>>, x)
        BY DEF IsInjective, Contains
      <4> QED
        BY <4>1, <4>3, <4>4, <4>5
    <3> QED
      BY <1>2, <1>5, <3>1, <3>2 DEF NodeIds
  <2> QED
    BY <1>1, <1>3, <2>1, <2>2 DEF IndexExact, NodeIndexExact, RequestIds
<1> QED
  BY <1>4, <1>5, AddNodeEffect

\* vrp_add_request keeps the indexes exact, for a request that is stored and for
\* the one request with a known external ID that is not.
LEMMA AddRequestKeepsIndexes ==
  ASSUME TypeOK, IndexExact, NEW ext \in RequestExtIds,
         NEW s \in Endpoint, NEW r \in Endpoint, AddRequest(ext, s, r)
  PROVE  IndexExact'
<1> DEFINE id == NewRequestId(ext)
           request == [ext |-> ext, sender |-> s, receiver |-> r]
<1>1. /\ nodes' = nodes
      /\ nodePending' = Associated(s, r, id)
      /\ senderIds' = senderIds \cup ({s} \ {ID_NONE})
      /\ receiverIds' = receiverIds \cup ({r} \ {ID_NONE})
      /\ pendingIds' = pendingIds \cup {id}
      /\ RequestIsFresh(s, r, id)
  BY DEF AddRequest
<1>2. \/ /\ id = ID_NONE
         /\ lost' = lost \cup {request}
         /\ requests' = requests
      \/ /\ id = Len(requests)
         /\ \A i \in DOMAIN requests : requests[i].ext # ext
         /\ requests' = Append(requests, request)
         /\ lost' = lost
  BY DEF AddRequest, NewRequestId
<1>3. request \in Request /\ EndsOf(request) = {s, r}
      /\ request.ext = ext /\ request.sender = s /\ request.receiver = r
  BY DEF Request, EndsOf
<1>4. /\ requests \in Seq(Request) /\ Len(requests) \in Nat
      /\ nodePending \in Seq(Seq(RequestIds \cup {ID_NONE}))
      /\ Len(nodePending) = Len(nodes) /\ Len(nodes) \in Nat
      /\ ID_NONE \notin RequestIds /\ ID_NONE \notin NodeIds
  BY IdNoneAssumption DEF TypeOK, Request, RequestIds, NodeIds
<1>5. id \in RequestIds \cup {ID_NONE} \cup {Len(requests)}
  BY <1>2
<1> HIDE DEF id, request
<1>6. ASSUME NEW n \in NodeIds
      PROVE  /\ IsInjective(nodePending'[n + 1])
             /\ \A y : Contains(nodePending'[n + 1], y)
                        <=> \/ Contains(nodePending[n + 1], y)
                            \/ y = id /\ n \in {s, r}
  <2> DEFINE S == RequestIds \cup {ID_NONE} \cup {Len(requests)}
             old == nodePending[n + 1]
  <2>1. nodePending \in Seq(Seq(S))
    <3>1. Seq(RequestIds \cup {ID_NONE}) \subseteq Seq(S)
      BY SeqMonotonic
    <3> HIDE DEF S
    <3> QED
      BY <1>4, <3>1, SeqMonotonic
  <2>2. id \in S
    BY <1>5
  <2> HIDE DEF S
  <2>3. /\ n + 1 \in 1 .. Len(nodePending) /\ n \in Int /\ n # ID_NONE
        /\ IsInjective(old)
    <3>1. IsInjective(old)
      BY DEF IndexExact, NodeIndexExact
    <3>2. n + 1 \in 1 .. Len(nodePending) /\ n \in Int /\ n # ID_NONE
      BY <1>4 DEF NodeIds
    <3> QED
      BY <3>1, <3>2
  <2>4. old \in Seq(S)
    BY <2>1, <2>3
  <2>5. nodePending'[n + 1] = IF n \in {s, r} THEN Append(old, id) ELSE old
    <3>1. n \in 0 .. Len(nodePending) - 1
      BY <1>4 DEF NodeIds
    <3>2. /\ n \in {s, r} => Associated(s, r, id)[n + 1]
                             = Append(nodePending[n + 1], id)
          /\ n \notin {s, r} => Associated(s, r, id)[n + 1]
                                = nodePending[n + 1]
      BY ONLY <2>1, <2>2, <3>1, AssociatedProperties
    <3>3. nodePending' = Associated(s, r, id)
      BY <1>1
    <3> QED
      BY ONLY <3>2, <3>3
  <2>6. CASE n \in {s, r}
    <3>1. ~Contains(old, id)
      BY <1>1, <2>3, <2>6 DEF RequestIsFresh
    <3> HIDE DEF old
    <3> QED
      BY <2>2, <2>3, <2>4, <2>5, <2>6, <3>1, ContainsAppend, InjectiveAppend
         DEF old
  <2>7. CASE n \notin {s, r}
    BY <2>3, <2>5, <2>7
  <2> QED
    BY <2>6, <2>7
\* The two cases, by what becomes of the request.
<1>7. CASE id = ID_NONE /\ lost' = lost \cup {request} /\ requests' = requests
  <2>1. lost = {}
    BY <1>1, <1>7 DEF IndexExact, RoleIndexExact, RequestIsFresh
  <2>2. ExtIdsIdentify'
    <3>1. Cardinality({request}) = 1
      BY FS_Singleton
    <3>2. lost' = {request}
      BY <2>1, <1>7
    <3>3. Cardinality(lost') <= 1
      BY <3>1, <3>2
    <3> QED
      BY <1>1, <1>7, <3>3 DEF IndexExact, ExtIdsIdentify
  <2>3. RoleIndexExact'
    <3>1. ToSet(requests') \cup lost' = (ToSet(requests) \cup lost) \cup {request}
      BY <2>1, <1>7
    <3> QED
      BY <1>1, <1>3, <1>7, <2>1, <3>1
         DEF IndexExact, RoleIndexExact, RequestIds
  <2>4. NodeIndexExact'
    <3>1. RequestIds' = RequestIds /\ NodeIds' = NodeIds /\ lost' = {request}
      BY <1>1, <1>7, <2>1 DEF RequestIds, NodeIds
    <3> SUFFICES ASSUME NEW n \in NodeIds
                 PROVE  /\ IsInjective(nodePending'[n + 1])
                        /\ \A i \in RequestIds :
                             Contains(nodePending'[n + 1], i)
                               <=> n \in EndsOf(requests[i + 1])
                        /\ Contains(nodePending'[n + 1], ID_NONE)
                             <=> \E q \in {request} : n \in EndsOf(q)
      BY <1>7, <3>1 DEF NodeIndexExact
    <3>2. \A i \in RequestIds : Contains(nodePending[n + 1], i)
                                 <=> n \in EndsOf(requests[i + 1])
      BY DEF IndexExact, NodeIndexExact
    <3>3. ~Contains(nodePending[n + 1], ID_NONE)
      BY <2>1 DEF IndexExact, NodeIndexExact
    <3>4. \A i \in RequestIds : i # ID_NONE
      BY <1>4
    <3> QED
      BY <1>3, <1>6, <1>7, <3>2, <3>3, <3>4
  <2> QED
    BY <2>2, <2>3, <2>4 DEF IndexExact
<1>8. CASE /\ id = Len(requests) /\ requests' = Append(requests, request)
           /\ \A i \in DOMAIN requests : requests[i].ext # ext
           /\ lost' = lost
  <2>1. /\ Len(requests') = Len(requests) + 1
        /\ \A i \in 1 .. Len(requests) : requests'[i] = requests[i]
        /\ requests'[Len(requests) + 1] = request
    BY <1>3, <1>4, <1>8
  <2>2. ExtIdsIdentify'
    <3>1. ASSUME NEW i \in 1 .. Len(requests) + 1, NEW j \in 1 .. Len(requests) + 1,
                 requests'[i].ext = requests'[j].ext
          PROVE  i = j
      <4>1. /\ DOMAIN requests = 1 .. Len(requests)
            /\ \A k \in 1 .. Len(requests) : requests'[k].ext = requests[k].ext
            /\ \A k \in 1 .. Len(requests) : requests[k].ext # ext
            /\ requests'[Len(requests) + 1].ext = ext
        BY <1>3, <1>4, <1>8, <2>1
      <4>2. CASE i \in 1 .. Len(requests) /\ j \in 1 .. Len(requests)
        BY <3>1, <4>1, <4>2 DEF IndexExact, ExtIdsIdentify
      <4>3. CASE i = Len(requests) + 1 /\ j \in 1 .. Len(requests)
        BY <3>1, <4>1, <4>3
      <4>4. CASE i \in 1 .. Len(requests) /\ j = Len(requests) + 1
        BY <3>1, <4>1, <4>4
      <4> QED
        BY <1>4, <4>2, <4>3, <4>4
    <3>2. DOMAIN requests' = 1 .. Len(requests) + 1
      BY <1>3, <1>4, <1>8
    <3> QED
      BY <1>1, <1>8, <3>1, <3>2 DEF IndexExact, ExtIdsIdentify
  <2>3. RoleIndexExact'
    <3>1. ToSet(requests') = ToSet(requests) \cup {request}
      BY <1>3, <1>4, <1>8 DEF ToSet
    <3>2. RequestIds' = RequestIds \cup {id}
      BY <1>4, <1>8, <2>1 DEF RequestIds
    <3> QED
      BY <1>1, <1>3, <1>8, <3>1, <3>2 DEF IndexExact, RoleIndexExact
  <2>4. NodeIndexExact'
    <3>1. NodeIds' = NodeIds /\ RequestIds' = RequestIds \cup {id}
      BY <1>1, <1>4, <1>8, <2>1 DEF RequestIds, NodeIds
    <3> SUFFICES ASSUME NEW n \in NodeIds
                 PROVE  /\ IsInjective(nodePending'[n + 1])
                        /\ \A i \in RequestIds \cup {id} :
                             Contains(nodePending'[n + 1], i)
                               <=> n \in EndsOf(requests'[i + 1])
                        /\ Contains(nodePending'[n + 1], ID_NONE)
                             <=> \E q \in lost : n \in EndsOf(q)
      BY <1>8, <3>1 DEF NodeIndexExact
    <3>2. /\ \A i \in RequestIds : Contains(nodePending[n + 1], i)
                                    <=> n \in EndsOf(requests[i + 1])
          /\ Contains(nodePending[n + 1], ID_NONE)
               <=> \E q \in lost : n \in EndsOf(q)
      BY DEF IndexExact, NodeIndexExact
    <3>3. id # ID_NONE /\ id \notin RequestIds
      BY <1>4, <1>8, IdNoneAssumption DEF RequestIds
    <3>4. ~Contains(nodePending[n + 1], id)
      <4>1. \A S : \A list \in Seq(S) : Contains(list, id) => id \in S
        BY DEF Contains
      <4>2. nodePending[n + 1] \in Seq(RequestIds \cup {ID_NONE})
        BY <1>4 DEF NodeIds
      <4> QED
        BY <3>3, <4>1, <4>2
    <3>5. /\ \A i \in RequestIds : requests'[i + 1] = requests[i + 1]
          /\ requests'[id + 1] = request
      BY <1>4, <1>8, <2>1 DEF RequestIds
    <3>6. Contains(nodePending'[n + 1], id) <=> n \in EndsOf(requests'[id + 1])
      BY <1>3, <1>6, <3>4, <3>5
    <3>7. \A i \in RequestIds : Contains(nodePending'[n + 1], i)
                                 <=> n \in EndsOf(requests'[i + 1])
      BY <1>6, <3>2, <3>3, <3>5
    <3>8. Contains(nodePending'[n + 1], ID_NONE)
            <=> \E q \in lost : n \in EndsOf(q)
      BY <1>6, <3>2, <3>3
    <3> QED
      BY <1>6, <3>6, <3>7, <3>8
  <2> QED
    BY <2>2, <2>3, <2>4 DEF IndexExact
<1> QED
  BY <1>2, <1>7, <1>8 DEF id, request

\* IndexExact holds in every reachable state: after any calls in any order, the
\* lists of pending requests of the nodes and the sender, receiver and request
\* lists of the model are what a scan of the request table would compute, with
\* at most one request that no table owns.
THEOREM IndexesStayExact == Spec => []IndexExact
<1>1. Init => IndexExact
  <2> SUFFICES ASSUME Init PROVE IndexExact
    OBVIOUS
  <2>1. NodeIds = {} /\ RequestIds = {} /\ ToSet(requests) = {} /\ lost = {}
    BY DEF Init, NodeIds, RequestIds, ToSet
  <2>2. Cardinality({}) = 0
    BY FS_EmptySet
  <2>3. NodeIndexExact
    BY <2>1 DEF NodeIndexExact
  <2>4. RoleIndexExact
    BY <2>1 DEF RoleIndexExact, Init
  <2>5. ExtIdsIdentify
    BY <2>1, <2>2 DEF ExtIdsIdentify, IsInjective, Init
  <2> QED
    BY <2>3, <2>4, <2>5 DEF IndexExact
<1>2. TypeOK /\ IndexExact /\ [Next]_vars => IndexExact'
  <2> SUFFICES ASSUME TypeOK, IndexExact, [Next]_vars PROVE IndexExact'
    OBVIOUS
  <2>1. CASE UNCHANGED indexVars
    BY <2>1 DEF indexVars, IndexExact, NodeIndexExact, RoleIndexExact,
                ExtIdsIdentify, NodeIds, RequestIds
  <2>2. ASSUME NEW ext \in NodeExtIds, AddNode(ext) PROVE IndexExact'
    BY <2>2, AddNodeKeepsIndexes
  <2>3. ASSUME NEW ext \in RequestExtIds, NEW s \in Endpoint, NEW r \in Endpoint,
               AddRequest(ext, s, r)
        PROVE  IndexExact'
    BY <2>3, AddRequestKeepsIndexes
  <2> QED
    BY <2>1, <2>2, <2>3 DEF Next, vars, AddRequestAborts, AddTimeWindow
<1> QED
  BY <1>1, <1>2, TypeCorrect, PTL DEF Spec
=============================================================================
