------------------------------ MODULE VrpFile ------------------------------
(***************************************************************************)
(* The reader of benchmark files of src/src/vrp.c (vrp_new_from_file).  A  *)
(* file is a sequence of blocks in the order it lists them: keywords of    *)
(* the specification part and sections with all their lines of data.  One  *)
(* action per block.  Lines that keep no state (NAME, COMMENT, CAPACITY,   *)
(* DEPOT_SECTION and its data, which no branch recognises) are left out.   *)
(* The distance of an arc is where it comes from: an entry of the weight   *)
(* section is named by its row and column.                                 *)
(***************************************************************************)
EXTENDS Integers, SequencesExt

CONSTANTS
  Files,     \* sequences of blocks; the empty one stands for no file
  Dimension, \* the number of nodes that the DIMENSION keyword gives
  FleetSizes \* numbers that strtol may read behind the last k of a file's name

ASSUME DimensionAssumption == Dimension \in Nat \ {0, 1}
ASSUME FleetSizesAssumption == FleetSizes \subseteq Nat
ASSUME FilesAssumption ==
  \A f \in Files : ToSet(f) \subseteq
    {"DIMENSION", "EUC_2D", "EXPLICIT", "OTHER_TYPE", "LOWROW", "OTHER_FORMAT",
     "EDGE_WEIGHT_SECTION", "NODE_COORD_SECTION", "DEMAND_SECTION"}

VARIABLES
  file,              \* the file
  position,          \* number of blocks read
  num_nodes,         \* what has been read of it; 0: not initialised
  edge_weight_type, edge_weight_format,
  costs,             \* costs[<<i, j>>], where set: a tuple that tells the source
  has_coords, has_demands,   \* the section was read
  ind1, ind2,        \* cursors of the data sections
  reading            \* "lines", "read", "refused" or "undefined"
fileVars == <<file, position, num_nodes, edge_weight_type, edge_weight_format,
              costs, has_coords, has_demands, ind1, ind2, reading>>

FileInit ==
  /\ file \in Files
  /\ position = 0
  /\ num_nodes = 0
  /\ edge_weight_type = "none" /\ edge_weight_format = "none"
  /\ costs = <<>>
  /\ has_coords = FALSE /\ has_demands = FALSE
  /\ ind1 = 0 /\ ind2 = 0
  /\ reading = "lines"

\* The next block is one of these
Reads(blocks) ==
  /\ reading = "lines" /\ position < Len(file)
  /\ file[position + 1] \in blocks
  /\ position' = position + 1
  /\ UNCHANGED file

ReadDimension ==
  /\ Reads({"DIMENSION"})
  /\ num_nodes' = Dimension
  /\ costs' = <<>>
  /\ UNCHANGED <<edge_weight_type, edge_weight_format, has_coords, has_demands,
                 ind1, ind2, reading>>

\* Any other type or format sets error_flag
ReadType ==
  /\ Reads({"EUC_2D", "EXPLICIT"})
  /\ edge_weight_type' = file[position']
  /\ UNCHANGED <<num_nodes, edge_weight_format, costs, has_coords, has_demands,
                 ind1, ind2, reading>>

ReadFormat ==
  /\ Reads({"LOWROW"})
  /\ edge_weight_format' = file[position']
  /\ UNCHANGED <<num_nodes, edge_weight_type, costs, has_coords, has_demands,
                 ind1, ind2, reading>>

ReadUnsupported ==
  /\ Reads({"OTHER_TYPE", "OTHER_FORMAT"})
  /\ reading' = "refused"
  /\ UNCHANGED <<num_nodes, edge_weight_type, edge_weight_format, costs, has_coords,
                 has_demands, ind1, ind2>>

\* Both sections number the nodes from one, in ind1
ReadNodes ==
  /\ Reads({"NODE_COORD_SECTION", "DEMAND_SECTION"})
  /\ \/ /\ num_nodes > 0
        /\ has_coords' = (has_coords \/ file[position'] = "NODE_COORD_SECTION")
        /\ has_demands' = (has_demands \/ file[position'] = "DEMAND_SECTION")
        /\ ind1' = num_nodes
        /\ UNCHANGED reading
     \* malloc of an uninitialised number of nodes
     \/ /\ num_nodes = 0
        /\ reading' = "undefined"
        /\ UNCHANGED <<has_coords, has_demands, ind1>>
  /\ UNCHANGED <<num_nodes, edge_weight_type, edge_weight_format, costs, ind2>>

\* The entries of the lower triangle, without the diagonal, row by row
Entries ==
  SetToSortSeq({<<i, j>> \in (1 .. Dimension - 1) \X (0 .. Dimension - 2) : j < i},
               LAMBDA a, b : a[1] < b[1] \/ (a[1] = b[1] /\ a[2] < b[2]))

Zero == <<"zero">>
Weight(i, j) == <<"weight", i, j>>
Euclid(i, j) == <<"euclid", i, j>>

SetCells(c, cells, value) == [a \in cells |-> value] @@ c

\* Mutant: the mirror image of an entry is not set
OneSided(i, j) == {<<i, j>>}

\* An entry goes to the cursor and its mirror image; a matrixd resizes silently
BothSides(i, j) == {<<i, j>>, <<j, i>>}

Placed(cursor, entry) ==
  LET i == cursor.i
      j == cursor.j
      with == SetCells(cursor.costs, BothSides(i, j), Weight(entry[1], entry[2]))
  IN  IF j + 1 = i
      THEN [i |-> i + 1, j |-> 0, costs |-> SetCells(with, {<<i, i>>}, Zero)]
      ELSE [i |-> i, j |-> j + 1, costs |-> with]

AtOrigin == ind1 = 0 /\ ind2 = 0

PlaceEntries ==
  LET begin == [i |-> IF AtOrigin THEN 1 ELSE ind1, j |-> ind2,
                costs |-> IF AtOrigin THEN SetCells(costs, {<<0, 0>>}, Zero) ELSE costs]
      end == FoldLeft(Placed, begin, Entries)
  IN  costs' = end.costs /\ ind1' = end.i /\ ind2' = end.j

\* The entries are skipped unless both keywords came before; without a dimension
\* costs is NULL
ReadWeights ==
  LET skipped == edge_weight_type # "EXPLICIT" \/ edge_weight_format # "LOWROW" IN
  /\ Reads({"EDGE_WEIGHT_SECTION"})
  /\ \/ ~skipped /\ num_nodes > 0 /\ PlaceEntries /\ UNCHANGED reading
     \/ ~skipped /\ num_nodes = 0 /\ reading' = "undefined"
          /\ UNCHANGED <<costs, ind1, ind2>>
     \/ skipped /\ UNCHANGED <<costs, ind1, ind2, reading>>
  /\ UNCHANGED <<num_nodes, edge_weight_type, edge_weight_format, has_coords,
                 has_demands>>

Cells == (0 .. Dimension - 1) \X (0 .. Dimension - 1)

\* Distances of the coordinates, for a file of that type
WithEuclid ==
  [a \in Cells |->
     IF a[1] = a[2] THEN Zero
     ELSE IF a[1] < a[2] THEN Euclid(a[1], a[2]) ELSE Euclid(a[2], a[1])]

\* Behind the last line.  The coordinates are read where they are NULL, and the
\* number of nodes is used if it never was initialised.
EndOfFile ==
  /\ reading = "lines" /\ position = Len(file)
  /\ \/ /\ num_nodes > 0 /\ (edge_weight_type = "EUC_2D" => has_coords)
        /\ reading' = "read"
        /\ costs' = IF edge_weight_type = "EUC_2D" THEN WithEuclid @@ costs ELSE costs
     \/ /\ num_nodes = 0 \/ (edge_weight_type = "EUC_2D" /\ ~has_coords)
        /\ reading' = "undefined"
        /\ UNCHANGED costs
  /\ UNCHANGED <<file, position, num_nodes, edge_weight_type, edge_weight_format,
                 has_coords, has_demands, ind1, ind2>>

FileStep ==
  \/ ReadDimension \/ ReadType \/ ReadFormat \/ ReadUnsupported
  \/ ReadNodes \/ ReadWeights \/ EndOfFile
=============================================================================
