------------------------------- MODULE Route -------------------------------
(***************************************************************************)
(* Routes of src/src/route.c: a route is a sequence of node IDs.  For each *)
(* operation the code has a function that performs it and one that tells   *)
(* in advance by how much the total distance of the routes will change;    *)
(* the local searches trust the second without ever recomputing a total.   *)
(* The removal of two nodes and the swapping of slices, which no solver    *)
(* calls, are left out.                                                    *)
(* Indices are 0-based, as in the code; ranges of the indices are the      *)
(* callers' business, as are the assertions of the code on them.           *)
(***************************************************************************)
EXTENDS Integers, SequencesExt, Sums

CONSTANTS
  Nodes,  \* node IDs of the roadgraph
  Dist    \* Dist[a, b]: distance of the arc from a to b (vrp_arc_distance)

ASSUME DistAssumption == Dist \in [Nodes \X Nodes -> Nat]

Arc(a, b) == Dist[a, b]                        \* vrp_arc_distance
At(r, idx) == r[idx + 1]                       \* route_at
LastIdx(r) == Len(r) - 1
Indices(r) == 0 .. LastIdx(r)

\* listu_remove_at, listu_insert_at and a slice [i, j], 0-based
RemoveNode(r, idx) == RemoveAt(r, idx + 1)
InsertNode(r, idx, node) == InsertAt(r, idx + 1, node)
Slice(r, i, j) == SubSeq(r, i + 1, j + 1)

\* Distance of arc (a, b) where it exists, that is under a guard of the code
If(guard, distance) == IF guard THEN distance ELSE 0

\* The arcs that lead to the nodes of a route, but for its first one
TotalDistance(r) ==
  SumOf([k \in DOMAIN r |-> If(k > 1, Arc(r[k - 1], r[k]))])

-----------------------------------------------------------------------------
(* Reversal of the slice [i, j] *)

ReverseSlice(r, i, j) ==
  [k \in DOMAIN r |-> IF k - 1 \in i .. j THEN At(r, i + j - (k - 1)) ELSE r[k]]

\* Mutant: only the arcs into and out of the slice count
ReverseDeltaOfEnds(r, i, j) ==
  If(i # j,
     If(i > 0, Arc(At(r, i - 1), At(r, j)) - Arc(At(r, i - 1), At(r, i)))
     + If(j < LastIdx(r),
          Arc(At(r, i), At(r, j + 1)) - Arc(At(r, j), At(r, j + 1))))

ReverseDelta(r, i, j) ==
  If(i # j,
     If(i > 0, Arc(At(r, i - 1), At(r, j)) - Arc(At(r, i - 1), At(r, i)))
     + If(j < LastIdx(r),
          Arc(At(r, i), At(r, j + 1)) - Arc(At(r, j), At(r, j + 1)))
     + SumOf([k \in 1 .. j - i |->
                Arc(At(r, i + k), At(r, i + k - 1))
                - Arc(At(r, i + k - 1), At(r, i + k))]))

-----------------------------------------------------------------------------
(* Removal and insertion of a node *)

RemoveNodeDelta(r, idx) ==
  LET hasPred == idx > 0
      hasSucc == idx < LastIdx(r)
  IN  If(hasPred /\ hasSucc, Arc(At(r, idx - 1), At(r, idx + 1)))
      - If(hasPred, Arc(At(r, idx - 1), At(r, idx)))
      - If(hasSucc, Arc(At(r, idx), At(r, idx + 1)))

InsertNodeDelta(r, idx, node) ==
  LET hasPred == idx > 0
      hasSucc == idx < Len(r)
  IN  If(hasPred, Arc(At(r, idx - 1), node))
      + If(hasSucc, Arc(node, At(r, idx)))
      - If(hasPred /\ hasSucc, Arc(At(r, idx - 1), At(r, idx)))

-----------------------------------------------------------------------------
(* Operations on two routes: exchange of a node, exchange of tails *)

ReplaceNodeDelta(r, idx, new) ==
  LET old == At(r, idx)
      pred == At(r, idx - 1)
      succ == At(r, idx + 1)
  IN  If(new # old,
         If(idx > 0, Arc(pred, new) - Arc(pred, old))
         + If(idx < LastIdx(r), Arc(new, succ) - Arc(old, succ)))

ExchangeNodes(r, s, idx1, idx2) ==
  <<[r EXCEPT ![idx1 + 1] = At(s, idx2)], [s EXCEPT ![idx2 + 1] = At(r, idx1)]>>

ExchangeNodesDelta(r, s, idx1, idx2) ==
  ReplaceNodeDelta(r, idx1, At(s, idx2)) + ReplaceNodeDelta(s, idx2, At(r, idx1))

\* The common length of the tails is swapped node by node, then what remains
\* of the longer one moves to the other route.
ExchangeTails(r, s, idx1, idx2) ==
  <<Slice(r, 0, idx1) \o Slice(s, idx2 + 1, LastIdx(s)),
    Slice(s, 0, idx2) \o Slice(r, idx1 + 1, LastIdx(r))>>

ExchangeTailsDelta(r, s, idx1, idx2) ==
  If(idx1 < LastIdx(r),
     Arc(At(s, idx2), At(r, idx1 + 1)) - Arc(At(r, idx1), At(r, idx1 + 1)))
  + If(idx2 < LastIdx(s),
       Arc(At(r, idx1), At(s, idx2 + 1)) - Arc(At(s, idx2), At(s, idx2 + 1)))
-----------------------------------------------------------------------------
(* Operations of the evolution of tours *)

SwapNodes(r, idx1, idx2) ==
  [r EXCEPT ![idx1 + 1] = At(r, idx2), ![idx2 + 1] = At(r, idx1)]

\* Every order of the nodes that occupy the indices [begin, end]
Shuffles(r, begin, end) ==
  {[k \in DOMAIN r |-> IF k - 1 \in begin .. end THEN At(r, p[k - 1]) ELSE r[k]] :
     p \in Bijection(begin .. end, begin .. end)}

\* Every order that qsort by a rank, which may tie, may leave
SortedBy(nodes, rank) ==
  {s \in Shuffles(nodes, 0, LastIdx(nodes)) :
     \A k \in 1 .. Len(s) - 1 : rank[s[k]] <= rank[s[k + 1]]}

\* listu_rotate: the nodes move num places to the left, around the end
Rotated(r, num) ==
  [k \in DOMAIN r |-> r[((k - 1 + num) % Len(r)) + 1]]

\* Mutant: the first node of the fixed segment is not looked for
InSegmentPast(r, begin, i, j, node) == Contains(Slice(r, begin + i + 1, begin + j), node)

InSegment(r, begin, i, j, node) == Contains(Slice(r, begin + i, begin + j), node)

(***************************************************************************)
(* route_ox on the indices [begin, end]: both routes keep their segment    *)
(* [i, j] (relative to begin) and take the other nodes in the order of the *)
(* other route, from behind the segment on and around.  Each is written in *)
(* place while the other is read; the loop's early exit only skips turns   *)
(* that would change nothing.                                              *)
(***************************************************************************)
Ox(route1, route2, begin, end, i, j) ==
  LET n == end - begin + 1
      start(r) == [route |-> r, pos |-> (j + 1) % n]
      taken(child, node) ==
        IF child.pos = i \/ InSegment(child.route, begin, i, j, node) THEN child
        ELSE [route |-> [child.route EXCEPT ![begin + child.pos + 1] = node],
              pos |-> (child.pos + 1) % n]
      turn(children, cnt) ==
        LET at(c) == At(children[c].route, begin + ((j + cnt) % n))
        IN  <<taken(children[1], at(2)), taken(children[2], at(1))>>
      bred[cnt \in 0 .. n] ==
        IF cnt = 0 THEN <<start(route1), start(route2)>>
        ELSE turn(bred[cnt - 1], cnt)
  IN  <<bred[n][1].route, bred[n][2].route>>

-----------------------------------------------------------------------------
(* The nested loops of the searches: tuples of loop variables, in loop order *)

Before(m, n) ==
  \E k \in DOMAIN m : m[k] < n[k] /\ \A l \in 1 .. k - 1 : m[l] = n[l]

\* The first of the moves in the order of the scan, if there is one
First(moves) == {m \in moves : \A n \in moves \ {m} : Before(m, n)}
=============================================================================
