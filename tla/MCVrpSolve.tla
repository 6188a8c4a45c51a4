---------------------------- MODULE MCVrpSolve ----------------------------
(* Instances for VrpSolve *)
EXTENDS VrpSolve

Nobody == 99
ThreeNodes == 3

\* Between depot 0 or depot 1 and the other nodes, and visits; the windows are
\* those that the durations may or may not fit
R(sender, receiver, sent, received) ==
  [sender |-> sender, receiver |-> receiver, quantity |-> 0,
   sent |-> sent, received |-> received]

Lists ==
  {<<>>,
   <<R(Nobody, 0, 0, 0), R(Nobody, 1, 0, 0)>>,
   <<R(Nobody, 0, 0, 0), R(0, 1, 0, 0)>>,
   <<R(1, Nobody, 1, 0)>>,
   <<R(0, 1, 0, 0), R(0, 2, 0, 0)>>,
   <<R(0, 1, 0, 0), R(0, 1, 0, 0)>>,
   <<R(0, 1, 0, 0), R(1, 0, 0, 0), R(0, 2, 0, 0)>>,
   <<R(0, 1, 0, 0), R(0, 2, 1, 0)>>,
   <<R(0, 1, 1, 2), R(0, 2, 1, 2)>>,
   <<R(0, 1, 2, 2), R(0, 2, 0, 1)>>,
   <<R(0, 1, 0, 1), R(0, 2, 0, 0)>>,
   <<R(1, 0, 0, 2), R(1, 2, 0, 2), R(1, 0, 0, 1)>>}

FleetEnds == {<<Nobody, Nobody>>, <<0, 0>>, <<Nobody, 0>>, <<1, 0>>}

\* Every order of the blocks of a file of either type
Explicit == {"DIMENSION", "EXPLICIT", "LOWROW", "EDGE_WEIGHT_SECTION",
             "NODE_COORD_SECTION", "DEMAND_SECTION"}
Euclidean == {"DIMENSION", "EUC_2D", "NODE_COORD_SECTION", "DEMAND_SECTION"}
Unsupported == {"DIMENSION", "OTHER_TYPE", "OTHER_FORMAT"}

AllFiles ==
  {<<>>}
  \cup UNION {SetToSeqs(Explicit \ without) :
                without \in {{}, {"DEMAND_SECTION"},
                             {"NODE_COORD_SECTION"},
                             {"NODE_COORD_SECTION", "DEMAND_SECTION"}}}
  \cup UNION {SetToSeqs(Euclidean \ without) :
                without \in {{}, {"DEMAND_SECTION"}, {"NODE_COORD_SECTION"}}}
  \cup SetToSeqs(Unsupported)

Fleets == 0 .. 2
=============================================================================
