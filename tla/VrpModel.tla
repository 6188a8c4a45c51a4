------------------------------ MODULE VrpModel ------------------------------
(***************************************************************************)
(* The generic VRP model of src/src/vrp.c while a caller builds it: the    *)
(* nodes of the roadgraph, the transportation requests, and the redundant  *)
(* indexes the solvers read (the pending requests of each node, the        *)
(* senders, the receivers and the pending requests of the model), with the *)
(* time windows of the requests.  One action per call of the API.  A call  *)
(* whose own preconditions fail is a caller's mistake and is not modelled; *)
(* an assertion that fails later, inside a legal call, sets "aborted".     *)
(* Distances, durations, coordinates, quantities and the fleet are left    *)
(* out: none of them is related to the state kept here.                    *)
(***************************************************************************)
EXTENDS Integers, FiniteSets, SequencesExt

CONSTANTS
  NodeExtIds,     \* external IDs a caller may give to nodes
  RequestExtIds,  \* external IDs a caller may give to requests
  Times,          \* instants a time window may start or end at
  MaxEntries,     \* bound: number of nodes, requests and accepted time windows
  ID_NONE         \* the "no ID" value of the C code

ASSUME IdNoneAssumption == ID_NONE \notin Nat
ASSUME TimesAssumption == Times \subseteq Nat
ASSUME MaxEntriesAssumption == MaxEntries \in Nat

VARIABLES
  nodes,       \* external IDs of the nodes; node i is nodes[i + 1]
  nodePending, \* nodePending[i + 1] is pending_request_ids of node i
  requests,    \* requests in the arrayset; request i is requests[i + 1]
  lost,        \* request objects the arrayset refused, yet still indexed
  senderIds,   \* sender_ids (sorted and duplicate-free: a set)
  receiverIds, \* receiver_ids
  pendingIds,  \* pending_request_ids
  windows,     \* windows[i + 1][role]: bounds of time windows of request i
  ret,         \* value the last call returned
  aborted      \* an assertion has failed inside a call

indexVars == <<nodes, nodePending, requests, lost, senderIds, receiverIds,
               pendingIds>>
vars == <<indexVars, windows, ret, aborted>>

Roles == {"sender", "receiver"}
NodeIds == 0 .. Len(nodes) - 1
RequestIds == 0 .. Len(requests) - 1
Endpoint == NodeIds \cup {ID_NONE}

NumWindows ==
  LET entries(id, role) == Len(windows[id + 1][role])
  IN  MapThenSumSet(LAMBDA x : entries(x[1], x[2]), RequestIds \X Roles) \div 2

MayGrow == Len(nodes) + Len(requests) + NumWindows < MaxEntries

Init ==
  /\ nodes = <<>> /\ nodePending = <<>>
  /\ requests = <<>> /\ lost = {}
  /\ senderIds = {} /\ receiverIds = {} /\ pendingIds = {}
  /\ windows = <<>>
  /\ ret = 0
  /\ aborted = FALSE

(***************************************************************************)
(* vrp_add_node: arrayset_add refuses a known external ID and the node is  *)
(* freed again; otherwise the arrayset hands out the next ID.              *)
(***************************************************************************)
AddNode(ext) ==
  /\ ~aborted
  /\ \/ /\ Contains(nodes, ext)
        /\ ret' = ID_NONE
        /\ UNCHANGED <<nodes, nodePending>>
     \/ /\ ~Contains(nodes, ext)
        /\ MayGrow
        /\ ret' = Len(nodes)
        /\ nodes' = Append(nodes, ext)
        /\ nodePending' = Append(nodePending, <<>>)
  /\ UNCHANGED <<requests, lost, senderIds, receiverIds, pendingIds, windows,
                 aborted>>

(***************************************************************************)
(* vrp_add_request.  The ID that arrayset_add returns is used without a    *)
(* check, so a known external ID leaves a request with ID ID_NONE that no  *)
(* table owns but every index lists.                                       *)
(***************************************************************************)
\* Mutant: IDs start at one
NewRequestIdFromOne(ext) ==
  IF \E i \in DOMAIN requests : requests[i].ext = ext
  THEN ID_NONE ELSE Len(requests) + 1

NewRequestId(ext) ==
  IF \E i \in DOMAIN requests : requests[i].ext = ext
  THEN ID_NONE ELSE Len(requests)

\* Mutant: the sender is not told
AssociatedReceiver(sender, receiver, id) ==
  [i \in DOMAIN nodePending |->
     IF i - 1 = receiver THEN Append(nodePending[i], id) ELSE nodePending[i]]

\* vrp_associate_node_with_new_request for both ends of the request
Associated(sender, receiver, id) ==
  [i \in DOMAIN nodePending |->
     IF i - 1 \in {sender, receiver} THEN Append(nodePending[i], id)
                                     ELSE nodePending[i]]

\* assert (!listu_includes (...)) of lines 1020 and 1066
RequestIsFresh(sender, receiver, id) ==
  /\ id \notin pendingIds
  /\ \A n \in {sender, receiver} \ {ID_NONE} : ~Contains(nodePending[n + 1], id)

AddRequest(ext, sender, receiver) ==
  LET id == NewRequestId(ext)
      request == [ext |-> ext, sender |-> sender, receiver |-> receiver]
  IN
  /\ ~aborted
  /\ sender \in Endpoint /\ receiver \in Endpoint
  /\ sender # receiver
  /\ RequestIsFresh(sender, receiver, id)
  /\ MayGrow
  /\ nodePending' = Associated(sender, receiver, id)
  /\ senderIds' = senderIds \cup ({sender} \ {ID_NONE})
  /\ receiverIds' = receiverIds \cup ({receiver} \ {ID_NONE})
  /\ pendingIds' = pendingIds \cup {id}
  /\ IF id = ID_NONE
     THEN /\ lost' = lost \cup {request}
          /\ UNCHANGED <<requests, windows>>
     ELSE /\ requests' = Append(requests, request)
          /\ windows' = Append(windows, [role \in Roles |-> <<>>])
          /\ UNCHANGED lost
  /\ ret' = id
  /\ UNCHANGED <<nodes, aborted>>

\* The same call, stopped by one of its two assertions on the indexes
AddRequestAborts(ext, sender, receiver) ==
  /\ ~aborted
  /\ sender \in Endpoint /\ receiver \in Endpoint
  /\ sender # receiver
  /\ ~RequestIsFresh(sender, receiver, NewRequestId(ext))
  /\ aborted' = TRUE
  /\ UNCHANGED <<indexVars, windows, ret>>

(***************************************************************************)
(* vrp_add_time_window.  listu_insert_sorted may put a value anywhere      *)
(* among its equals; Slots are the positions it may choose.  The insertion *)
(* is undone unless both bounds landed next to each other on an even index *)
(* (positions here are 1-based: index = position - 1).                     *)
(***************************************************************************)
Slots(s, x) ==
  {p \in 1 .. Len(s) + 1 : /\ p > 1 => s[p - 1] <= x
                           /\ p <= Len(s) => x <= s[p]}

\* Mutant: a window may start inside another one
FitsAnywhere(posE, posL) == posE + 1 = posL

Fits(posE, posL) == (posE - 1) % 2 = 0 /\ posE + 1 = posL

\* Mutant: the lower bound is removed first, which shifts the upper one
UndoneInOrder(s, posE, posL) == RemoveAt(RemoveAt(s, posE), posL)

Undone(s, posE, posL) == RemoveAt(RemoveAt(s, posL), posE)

AddTimeWindow(id, role, earliest, latest) ==
  LET tws == windows[id + 1][role] IN
  /\ ~aborted
  /\ id \in RequestIds
  /\ earliest <= latest
  /\ MayGrow
  /\ \E posE \in Slots(tws, earliest) :
       LET withE == InsertAt(tws, posE, earliest) IN
       \E posL \in Slots(withE, latest) :
         LET withBoth == InsertAt(withE, posL, latest) IN
         \/ /\ Fits(posE, posL)
            /\ windows' = [windows EXCEPT ![id + 1][role] = withBoth]
            /\ ret' = 0
         \/ /\ ~Fits(posE, posL)
            /\ windows' = [windows EXCEPT ![id + 1][role] =
                             Undone(withBoth, posE, posL)]
            /\ ret' = -1
  /\ UNCHANGED <<indexVars, aborted>>

Next ==
  \/ \E ext \in NodeExtIds : AddNode(ext)
  \/ \E ext \in RequestExtIds, s, r \in Endpoint : AddRequest(ext, s, r)
  \/ \E ext \in RequestExtIds, s, r \in Endpoint : AddRequestAborts(ext, s, r)
  \/ \E id \in RequestIds, role \in Roles, e, l \in Times :
       AddTimeWindow(id, role, e, l)

Spec == Init /\ [][Next]_vars

-----------------------------------------------------------------------------
(***************************************************************************)
(* Properties                                                              *)
(***************************************************************************)

\* Type invariant: the shape of the tables of vrp_t.
TypeOK ==
  /\ nodes \in Seq(NodeExtIds)
  /\ requests \in Seq([ext : RequestExtIds, sender : Endpoint,
                       receiver : Endpoint])
  /\ lost \subseteq [ext : RequestExtIds, sender : Endpoint,
                     receiver : Endpoint]
  /\ nodePending \in Seq(Seq(RequestIds \cup {ID_NONE}))
  /\ Len(nodePending) = Len(nodes)
  /\ senderIds \subseteq NodeIds /\ receiverIds \subseteq NodeIds
  /\ pendingIds \subseteq RequestIds \cup {ID_NONE}
  /\ windows \in Seq([Roles -> Seq(Times)])
  /\ Len(windows) = Len(requests)
  /\ ret \in Int \cup {ID_NONE}
  /\ aborted \in BOOLEAN

EndsOf(request) == {request.sender, request.receiver}

\* A node lists a request exactly when it is one of its two ends, and lists
\* it once; the ID ID_NONE stands for the request the arrayset refused.
NodeIndexExact ==
  \A n \in NodeIds :
    LET listed == nodePending[n + 1] IN
    /\ IsInjective(listed)
    /\ \A id \in RequestIds :
         Contains(listed, id) <=> n \in EndsOf(requests[id + 1])
    /\ Contains(listed, ID_NONE) <=> \E request \in lost : n \in EndsOf(request)

\* senderIds, receiverIds and pendingIds of the model are exactly what a scan
\* of every request ever created would compute.
RoleIndexExact ==
  LET created == ToSet(requests) \cup lost IN
  /\ senderIds = {request.sender : request \in created} \ {ID_NONE}
  /\ receiverIds = {request.receiver : request \in created} \ {ID_NONE}
  /\ pendingIds = RequestIds \cup (IF lost = {} THEN {} ELSE {ID_NONE})

\* External IDs identify: no two nodes and no two stored requests share one, and
\* at most one refused request is ever indexed (a second one aborts).
ExtIdsIdentify ==
  /\ IsInjective(nodes)
  /\ \A i, j \in DOMAIN requests : requests[i].ext = requests[j].ext => i = j
  /\ Cardinality(lost) <= 1

\* The indexes that the sub-model constructors of vrp.c, cvrp.c and vrptw.c
\* read agree with the request table after every call, in any order of calls.
IndexExact == NodeIndexExact /\ RoleIndexExact /\ ExtIdsIdentify

\* Time windows of a request are whole pairs, each well-formed, in ascending
\* order and without overlap (vrp.h: "non-overlapping time intervals").
WindowsDisjoint ==
  \A id \in RequestIds, role \in Roles :
    LET tws == windows[id + 1][role] IN
    /\ Len(tws) % 2 = 0
    /\ \A k \in 1 .. Len(tws) - 1 : tws[k] <= tws[k + 1]

WindowSet(tws) ==
  {<<tws[2 * k - 1], tws[2 * k]>> : k \in 1 .. Len(tws) \div 2}

\* A call of vrp_add_time_window either answers 0 and adds one window to those
\* already there, splitting or merging none of them, or answers -1 and leaves
\* every window of every request as it was.
WindowsOnlyAdded ==
  [][ \A id \in RequestIds, role \in Roles :
        LET old == windows[id + 1][role]
            new == windows'[id + 1][role]
        IN  \/ new = old
            \/ /\ ret' = 0
               /\ Len(new) = Len(old) + 2
               /\ \E e, l \in Times :
                    WindowSet(new) = WindowSet(old) \cup {<<e, l>>}
    ]_windows
=============================================================================
