# Verification of elastic-routing

TLA+ models of the C library *elastic-routing* (`src/`), checked with TLC and,
where a result should hold for every instance, proved with TLAPS.  The library
is sequential: there are no threads, messages or persistent state.  What is hard
in it is of another kind: redundant data that must agree after any order of
calls (indexes of requests, a distance kept as a ledger, the arrays of a savings
heuristic, a genome that is a tour and a solution at once), in-place edits of
lists by index while iterators are open, early returns and assertions that leave
half of a change behind, sections and calls in an order nobody expected, boundary
cases of index arithmetic in `size_t`, and loops whose termination rests on an
invariant.

## 1. The system

| component | state it keeps | operations | hard parts | what makes it correct |
|---|---|---|---|---|
| generic model (`vrp.c`) | nodes, requests; `sender_ids`, `receiver_ids`, `pending_request_ids`; per-node request lists; time windows | `vrp_add_node`, `vrp_add_request`, `vrp_add_time_window` | four indexes per request; a refused ID used all the same; insert-then-undo of windows | indexes equal a scan of the requests; a rejected window changes nothing; windows disjoint |
| roadgraph, fleet, dispatch (`vrp.c`) | coordinates, distance and duration matrices, vehicles | setters, generation of matrices, pickup and delivery, `vrp_validate`, `vrp_collect_attributes`, `vrp_solve` | decisions taken early in loops; attributes that nobody reads | a sub-model gets what it relies on; its choice does not depend on an order |
| file reader (`vrp.c`) | cursors and tables of one reading | `vrp_new_from_file` | sections share cursors, keywords may come late | distances are those of the file |
| route (`route.c`) | sequence of node IDs | reversal, insertion, removal, exchanges, each with a function that predicts the change of distance; shuffling, rotation, OX crossover | ends of routes, asymmetric distances, index versus ID | the prediction equals the change; no node lost |
| solution (`solution.c`) | list of routes, total distance | iteration over all nodes, removal of a route, ledger of the distance | edits under open iterators | ledger equals the true distance |
| CVRP (`cvrp.c`) | nodes of the sub-model; arrays of the heuristics; genomes | Clarke-Wright, sweep, random tours, split, four local searches, evolution, post optimisation | stale entries in arrays; uninitialised memory; loops driven by improvement | solutions serve everyone once within capacity; split optimal; searches end in a local optimum; the best is kept |
| VRPTW (`vrptw.c`) | as CVRP, with time windows per node and meta data per route | Clarke-Wright, split, sweep, small-model driver | order of updates in the split; windows of sub-routes; IDs read as indices | schedules feasible, deadlines true |
| TSP (`tsp.c`), TSPI (`tspi.c`) | route template with fixed ends | construction from the generic model or from setters, 2-opt, evolution | fixed ends, round trips, solving twice | ends stay fixed, every node once |
| coordinates (`coord2d.c`) | none | distances, polar angles | real arithmetic | out of scope |

**How they interact.** All calls are synchronous.  A caller (or the file reader)
builds the generic model; `vrp_solve` validates it, collects attributes and hands
it to the constructor of a sub-model, which reads the indexes of the generic model
and never writes to it.  Solvers build `route_t` and `solution_t` objects, trust
the delta functions of `route.c` and adjust the distance recorded in the solution
by them.  The evolution framework, lists and arraysets come from the external
library libcube, which calls back (heuristics, crossover, educator, fitness).
External functions are modelled from how the code uses them and marked as external
in `PROJECT.json`, which also lists all components and the hazards with the line
where each bites and the properties that watch it.

## 2. Modules

| module | code | kind |
|---|---|---|
| `VrpModel` | `vrp.c`: building the model | state machine, one action per API call |
| `VrpFile` | `vrp.c`: `vrp_new_from_file` | actions, one per block of a file |
| `VrpDispatch` | `vrp.c`: roadgraph, fleet, validation, attributes; constructors in `cvrp.c`, `vrptw.c` | actions, one per API call |
| `VrpSolve` | the two composed | state machine, from a file or from a caller to a sub-model |
| `Route` | `route.c` | operators: every edit and its delta |
| `Sums`, `ImplicitRoutes` | the loops of `cvrp.c` and `vrptw.c` over a list, and their routes in two arrays | operators, shared by the modules below |
| `Evol` | libcube's evolution, as its callers see it (external) | operators |
| `TourSearch` | what `tsp.c` and `tspi.c` share | actions: callbacks of the evolution, 2-opt |
| `Tsp`, `Tspi` | `tsp.c`, `tspi.c` | actions: construction, setters, solving |
| `TourSolvers` | the two composed with `TourSearch` | state machine |
| `RouteMerging` | what a savings heuristic promises | abstract specification |
| `ClarkeWright` | `cvrp.c`: `cvrp_clark_wright(_parallel)` | state machine, one action per branch of the loops; implements `RouteMerging` |
| `CvrpSplit` | `cvrp.c`: `cvrp_split` | state machine, one action per relaxed arc, per row, per route |
| `CvrpLocalSearch` | `cvrp.c`: `cvrp_post_optimize` and its four searches; `solution.c` | state machine, one action per call of a search; uses `Route` |
| `CvrpEvolution` | `cvrp.c`: `cvrp_solve`, small and large models | state machine, composed with `CvrpLocalSearch` |
| `VrptwTime` | `vrptw.c`: time windows, departure times, feasibility of solutions | operators, with an independent reference (`CanServe`) |
| `VrptwSplit` | `vrptw.c`: `vrptw_split` | state machine, as `CvrpSplit`; uses `VrptwTime` |
| `VrptwSolve` | `vrptw.c`: `vrptw_solve`, the sweep, genomes | state machine, composed with `VrptwSplit` |
| `VrptwClarkeWright` | `vrptw.c`: `vrptw_clark_wright(_parallel)` | state machine, one action per branch and per customer visited; uses `VrptwTime`, implements `RouteMerging` |
| `MC*` | | instances for TLC |
| `SequenceFacts`, `RouteFacts` | | proved facts about sequences, `Sums` and `ImplicitRoutes`, and about `Route` |
| `VrpModelProofs`, `ClarkeWrightProofs`, `CvrpSplitProofs`, `TourSolversProofs`, `VrptwClarkeWrightProofs` | | proofs about the modules they are named after |
| `CvrpSolveProofs` | | proofs about `CvrpLocalSearch` and `CvrpEvolution` |

Definitions marked *Mutant* stand before the definition they vary: each is a
plausible bug, used to see that a property would notice it.  They are not part
of the specifications.

### VrpModel
`nodes`, `requests` are the arraysets (positions are IDs), `nodePending` the
`pending_request_ids` of the nodes, `senderIds`, `receiverIds`, `pendingIds` the
sorted lists of the model, which hold no duplicates and are read as sets.
`lost` holds requests that `arrayset_add` refused: `vrp_add_request` uses the
returned `ID_NONE` without a check and enters it in every index.  A second such
request meets one of the code's assertions (`AddRequestAborts`, `aborted`).
`windows` is the flat list of bounds (`etw1, ltw1, ...`).  `listu_insert_sorted`
may put a value anywhere among its equals, so the position is a
nondeterministic choice (`Slots`), and the undo by index must cope with each.
Caller-side assertions (an existing node, `sender != receiver`) are guards.

### VrpFile, VrpDispatch, VrpSolve
A file is a sequence of blocks, read in order; the two cursors `ind1`, `ind2`
survive from one section to the next.  A distance is represented by its origin
(which entry of the weight section, or which pair of coordinates), so that a
misplaced entry is seen.  Memory used before a `DIMENSION` line has set its size
ends in the state "undefined".  Of coordinates, distances and durations that a
caller sets, only whether none, some or all are set is kept, since validation and
dispatch ask nothing else; a window is an instant (0: none), and arcs take 1.
`Attributes` folds over vehicles and requests as the loops of
`vrp_collect_attributes` do, early decisions included.  `pc` ends in the name of
the sub-model, in "unsupported", "invalid", "overrun" (the constructors' array of
nodes is sized by the receivers and filled by the requests), "aborted", or
"no_beeline": a caller had distances generated without a system of coordinates, or
before every node had its own (`BeelineAborts`).

### Route, Evol, TourSearch, Tsp, Tspi, TourSolvers
Routes are sequences, indices are 0-based as in the code (`At`).  Every delta is
translated with its guards for the first and last index.  `Evol` lets the
evolution call any callback on any genome at any time and then hand out one of
greatest fitness.  `TourSearch` has the callbacks and the 2-opt that both solvers
share; the variable `solver` tells which runs where their code differs (`tsp_2_opt`
starts a new scan after an improvement, `tspi_2_opt` goes on, and its delta reads
beyond the ends of an open route; `tsp.c` keeps the window of indices that may be
reordered from its constructor on, `tspi.c` finds it anew from each route's length:
`Begin`, `End`; a genome without cost fails an assertion of `tspi_fitness`, while
`tsp_fitness` gives it fitness 0: `NotAssessable`).  `Tspi` lets a caller set ends,
costs and coordinates in any order and solve again; what its properties say, they
say of every call.

### ClarkeWright, RouteMerging
The state is that of the C function: three arrays, the sorted savings (as the
set of pairs not yet reached; the next one is any of the largest, since `qsort`
leaves the order of equals open), the locals of one iteration, the solution
under construction and the giant tours kept by the outer loop over lambda.
The routes the arrays stand for are read off by `ImplicitRoutes`.
`lambda` is in tenths (0.4 to 1.0).  The two walking loops are one step per
customer, so their termination is a claim and not an assumption.  `RouteMerging`
knows only a set of routes and joins two of them when their true joint demand
fits; the refinement mapping reads the routes off `successors`.

### CvrpSplit
The dynamic programme over the giant tour, arc by arc, then the walk along
`predecessor`.  That array comes from `malloc`, so its initial content is a
nondeterministic choice (`Junk`).  The reference is `Plans`, all feasible ways to
cut the tour, and `TotalCost`.  The walk is bounded to N + 1 routes: with a demand
above the capacity it starts in uninitialised memory and may go round for ever.

### CvrpLocalSearch, CvrpEvolution
A move is a tuple of scan positions; a search performs the least improving
tuple in loop order (`First`), as the nested iterators do.  Empty routes are
dropped at the index the code uses.  `saving`, `total_saving` and the ledger
follow the code, which never recomputes the distance.  `CvrpEvolution` puts
`cvrp_solve` around it: for small models the best of Clarke-Wright and the sweep
(duplicates by hash dropped), for large ones a population of genomes under
crossover and education; the post optimisation then runs on a copy of the best.
The two heuristics checked on their own enter by what is checked of them: some
feasible solution, and a cheapest feasible cut of a tour.  There is no cut of a tour
that could be served for nothing (`Splits`): `cvrp_split` then fails its assertion on
the cost, and so the program takes no further step.

### VrptwTime, VrptwSplit, VrptwSolve, VrptwClarkeWright
Times are of type `size_t` with `SIZE_NONE` for "none": `Plus` and `Minus` wrap,
and an empty list of bounds answers `SIZE_NONE` for its last element.  The
instances use 23 for `SIZE_MAX`; all true service times lie below half of it, so a
wrap can only come from the code's subtractions and sentinels, as with 64 bits.
`CanServe` is the reference: the sets of possible service times along a route, in
unbounded arithmetic and without sentinels, up to a `Horizon`: for the heuristic
the hour the depot closes, as every route returns there, for the split, where the
depot may never close, half of `SIZE_NONE`.

`VrptwSplit` is `CvrpSplit` with a schedule: an arc of the auxiliary graph needs
the capacity and the windows of its customers, but not a return to the depot in
time.  A solution with a late return meets the code's assertion (`aborted`).
`VrptwSolve` runs it for every rotation of the sweep's template, builds the meta
data of each genome, whose assertion may also stop the program, and compares
recorded distances as the driver does.

`VrptwClarkeWright` gives every customer the demand of its route, its departure
time and the windows of the sub-route it starts; after a merge, two loops hand
them on, one customer per step, which may meet an assertion
(`PassOnWindowsAborts`).  `ids` maps inner indices to IDs of the roadgraph: the
routes are built from IDs and then read as indices.  All start from models
`vrptw_solve` accepts: `IsBasicallySolvable`, whose loop misses the last customer.
`AllServable` names the models in which the last customer can be served as well.

## 3. Runs

| run | question | instance and why it is enough |
|---|---|---|
| `vrp_model` | Do the indexes agree with the requests after any calls, failed ones included, and is a window added whole or not at all? | 2 external IDs of nodes, 3 of requests, 3 instants, up to 5 entries (`MaxEntries`): both roles, shared nodes, a refused request and the abort of the next one, nested, adjoining, equal and degenerate windows all occur.  IDs are only compared, hence the symmetry |
| `vrp_solve` | Does a sub-model get what it relies on, does its choice depend on an order, and are the distances the file's? | every order of the blocks of an explicit, a Euclidean and an unsupported file; 12 lists of requests over 3 nodes, up to 2 vehicles with four kinds of ends and one unit of capacity |
| `cw_orders` | Are the arrays sound and the merging maximal for every order of savings, and does anything carry over to the next lambda? | 4 customers, two lambdas; nine of the twelve pairs tie, and TLC explores every order of them; demands such that some merges exceed the capacity |
| `cvrp_split` | Is the split the cheapest feasible cut, with a true distance, independent of uninitialised memory? | all 24 tours of 4 customers, one-way costs, every uniform content of the memory |
| `local_search` | Is the post optimisation sound, does it end, and where? | all feasible solutions over 5 customers in the route order of Clarke-Wright; all four searches fire, exchanges of tails empty routes, and reversals of no gain exist |
| `cvrp_evolution` | Do the parts of a genome stay in step, and is the best result kept? | 4 customers, two at one angle, populations of 2: crossover needs no more, and fitness compares pairs |
| `tours` | When is a template regular, do operations keep tours, when does 2-opt end in an optimum, when does the program stop? | 5 lists of requests and 9 pairs of ends for `tsp.c`; 4 nodes, any order of setters and two solves for `tspi.c`; asymmetric distances, all 0 along one cycle, so that genomes without cost occur; `SMALL_NUM_NODES` is 3, so that both solvers of `tsp.c` run |
| `tsp_ends` | *violation*: a tour ends where it was asked to | one vehicle that leaves from node 0 and returns to it, with visits to the three other nodes |
| `vrptw_solve` | Which cuts does a split label, when are assertions met, and can the result be served? | 3 customers with no, one or two windows (four choices each), a depot that closes early, late or never, three templates, four contents of the memory, with and without coordinates: routes that are too heavy, too late, late only on the way back, and meta data that stop the program all occur |
| `vrptw_split_distance` | *violation*: the distance recorded with a split solution is its own | 3 customers that can be served alone, all tours, windows as above |
| `vrptw_cw` | Do departure times and sub-route windows tell the truth, are solutions feasible, is the merging maximal, what become IDs that are not the indices? | 4 customers, two lambdas, ties left open; nodes with one, two, three or no windows, deadlines that forbid one direction of a merge or both; a depot whose ID is not 0, and customers numbered otherwise than their requests |
| `vrptw_cw_unlimited` | *violation*: solutions are feasible, when some customers have no windows | same, depot open 0 to 6 |

**Fairness.** Termination is checked under weak fairness of the next-state
relation of the heuristics and searches: one thread runs each algorithm and
nothing can keep it from its next step.  In `TourSolvers` fairness covers the
evolution filling its population and coming to an end (libcube runs a bounded
number of generations) and 2-opt, but no call a user may make.  Runs switch off
deadlock checking where the algorithm ends or a caller has no further call within
the bounds.

**Bounds.** `MaxEntries` (calls that grow a model), `MaxVehicles`, `MaxCapacity`
(one unit: full, empty and the step between), `MaxGenomes` (size of a
population), `MaxSolves` (two, for what a second call meets).

**Findings** (quotes in `PROJECT.json`, each with a run that shows it):

* `vrptw_split` never prices the arcs between customers, since `last_node` is
  moved on too early: a route of two customers is recorded with the round trip of
  its first (`DistanceRecorded`, for customers who can all be served alone);
* `vrptw_clark_wright` loses the deadline of a route at a customer without time
  windows, and its feasibility assertion fails (`SolutionsFeasible`);
* a TSP whose end is its start ends elsewhere: of a round trip of node 0 with visits
  to 1, 2 and 3, template and result end at 3 (`EndsWhereAsked`).  The same holds of
  an end that a request visits, if some node is named after it (`RegularExactly`).

**Observations** the models reproduce, stated by the properties or behind their
conditions:

* `vrp_add_request` lists `ID_NONE` among the pending requests when the external
  ID is known (`lost`); such a model reaches an assertion when it is solved.
* Routes of `vrptw_clark_wright` hold `nodes[i].id`, although `vrptw.c:55` says
  "nodes in route and solution are represented with inner IDs, and transformed to
  generic ID for output"; they are then read as inner indices.  With a depot whose
  ID is not 0 the program always stops at an assertion (`ToursOfCustomers`), with
  permuted customers the schedule of other customers is checked (`NeverAborts` has
  the condition `IdsAreIndices`).  Solutions of the split are not transformed at all.
* The loop that computes deadlines counts by two up to half the number of bounds,
  so it sees the first half of a node's windows.  A deadline may be too early;
  after a split, `s_meta_new` then stops the program over a feasible solution
  (`OutcomeSound`), and with three windows so does `vrptw_clark_wright`.
* The driver of the VRPTW compares true distances of Clarke-Wright with those
  the split has mis-recorded.
* `is_cvrp` and `is_vrptw` ignore that capacities differ and that the depot's
  windows differ between requests: capacity and depot window are the first ones
  (`SenderWindowsExact` shows that the attribute nobody reads is exact).
* With vehicles of which some state their ends and some do not, the sub-model
  depends on the order of the vehicles (`DispatchOrderFree` has the condition
  `AllOrNone`).
* Two requests for one receiver overrun the array of nodes (`SubmodelSound`),
  although the repository's README allows several requests at a node.
* `vrp_generate_beeline_distances` means to refuse a roadgraph without a system of
  coordinates, but compares it with `ID_NONE` (`vrp.c:722`); with two nodes or more
  the program then stops in `coord2d_distance` (`coord2d.c:57-60`), `BeelineAborts`.
* The duration of an arc that was not set is never found missing by validation.
* The weight section of a file is placed wrongly unless its keywords precede it
  and no other section does (`WellOrdered`); the matrix is then incomplete and the
  model refused.
* The number of vehicles of a file is what follows the last `k` of its path.
* `cvrp_split` reads uninitialised memory when a demand exceeds the capacity,
  which no validation excludes; the instance has demands that fit.
* The evolution gives a genome of cost 0 the least fitness, not the greatest
  (`cvrp.c:637`), so the cheapest is lost then (`ResultKeepsBest` has the condition
  `least > 0`).
* Giant tours that differ may have the same hash; the later one is dropped, be it
  the best (`Deduped`); results are compared with what was kept (`ResultKeepsBest`).
* `vrptw_is_basically_solvable` does not look at the last customer.
* `tspi.h:50-54` says that "setting of start and end node are both optional, for
  either round trip or one-way trip"; a one-way trip with an end left out always
  aborts (`AbortsExactly`).  It also says that the ends of a one-way trip "must be
  different"; equal ones are taken for a round trip, with a warning.
* A stand-alone model aborts when a genome costs nothing: `tspi_fitness` asserts that
  costs are positive (`NotAssessable`).
* A second `tspi_solve` regularises a template that is regular already.  A round trip
  gets its closing node twice, or aborts where coordinates are set, as sweeps remain
  shorter than permutations; a one-way trip is turned back or aborts, as its end is
  looked for where `tspi_new` had put it (`RegularExactly`, `AbortsExactly`).
* `tsp.c:184-196` has cases for one node that is the start and for two nodes with both
  ends fixed; the constructor's assertion (`tsp.c:267`) stops the program before.
* `cvrp_post_optimize` documents "Return saving." and returns the saving of its
  last search, always 0 (no caller uses it).

## 4. Proofs

The theorems hold for every value of the constants that meets the named
assumptions of the module: any number of customers, any demands, capacity, travel
times and windows, and distances that need be neither symmetric nor obey the
triangle inequality.  28 of the properties that the runs check are theorems; one of
them, `MergingMaximal`, has a condition on travel times (`NoShortcuts`).

| module | proved | rests on |
|---|---|---|
| `VrpModelProofs` | `TypeOK`, `IndexExact`, `WindowsDisjoint`, `WindowsOnlyAdded` | `TypeOK`, `WindowsDisjoint` |
| `ClarkeWrightProofs` | `TypeOK`, `ChainInv`, `Acyclic`, `EndDemandsExact`, `MaximalMerging`, `SolutionServesAll`, `ImplementsMerging` | `RouteInv` |
| `CvrpSplitProofs` | `RowsSettled`, `SplitOptimal` | `IInv` |
| `CvrpSolveProofs` | `SolutionSound`, `LedgerExact`, `LocalOptimum` of `CvrpLocalSearch`; `GenomesInStep`, `ResultKeepsBest` of `CvrpEvolution` | `LedgerInv`, `Exhausted`; `SolverInv` |
| `TourSolversProofs` | `ToursSound`, `RegularExactly`, `AbortsExactly`, `SavingsAddUp`, `LocalOptimum` | `TourInv` |
| `VrptwClarkeWrightProofs` | `ImplementsMerging`, `ToursOfCustomers`, `NeverAborts`, `MetaExact`, `MergingMaximal` | `RouteInv`, `ScheduleInv`, `OnTimeInv`, `TourInv`, `LagInv`, `DemandBoundInv`, `BlockedInv` |
| `RouteFacts` | each delta function of `route.c` the searches use is the change of the distance; shuffling, rotation, sorting, reversal and crossover list the same nodes again | |
| `SequenceFacts` | sums over lists; routes in two arrays, and what linking two of them does | |

**Sums and induction.**  The loops over a list are recursive functions in `Sums`.
The library's induction theorems have an operator for a parameter, which the
provers here cannot instantiate; `SequenceFacts` states induction for *sets* of
numbers, derived from the well-foundedness of `<`, and draws from it what loops
accumulate over a concatenation, a slice, a reversal, an exchange of an element.
The weight of a route (`Weights`) covers its demand, its visits of a customer and
the distances of a solution at once.

**The generic model.**  `IndexExact` and `TypeOK` are inductive, call by call.
`WindowsDisjoint` is preserved because a window is inserted bound by bound, at any
place among equals, and undone by index if a position turns out wrong: the proof
follows all places that `Slots` allows.  That nothing accepted is ever removed
(`WindowsOnlyAdded`) needs the undo to meet exactly what was inserted.

**Clarke and Wright (CVRP).**  `Acyclic` (every non-empty set of customers has a
member whose successor is outside the set) is not inductive: a merge checks only
that the walk back from `c1` did not end at `c2`.  `ChainInv` adds that the arrays
are inverse to each other and that the customers the walk has passed form a set
closed under successors, and under predecessors except at its front, that does not
contain `c2` before the walk ends.  When the walk ends elsewhere, that set is a
whole chain without `c2`; were there a cycle after the merge, its part outside of
the set would have been one before (`LinkKeepsAcyclic`).  `RouteInv` adds what the
arrays say as *routes*: the walk is on the route that ends with `c1`; demands are
stale at no end of a route, except those of the one just merged, whose demand is
`NewDemand`; two routes that would fit one vehicle have their pair still in
`savings` or under consideration (so one pass suffices: demands of routes only
grow); the solution holds exactly the routes whose first customer is below `idx`.
`JoinChains` turns a merge of the arrays into the joining of two routes, which is
the step of `RouteMerging`; every other action leaves the routes alone.

**Split (CVRP).**  Bellman's argument.  `IInv` says that every entry other than
`DOUBLE_MAX` is its predecessor's entry plus the cost of an arc that fits, so each
is the cost of a plan; that every arc of the graph `H` behind the two loops has
been relaxed, those skipped by the break included, since demands are not negative
and a longer route is no lighter; and, along the walk, that the routes built so
far cost what is missing to the entry of the node reached.  When row i begins all
arcs into i - 1 are behind, hence `RowsSettled`.  Assumptions: `DOUBLE_MAX`
exceeds N times the dearest round trip to one customer, the depot has no demand.
`DemandsFit` is a hypothesis of `SplitOptimal`: no check of the code excludes a
demand above the capacity.

**Local search (CVRP).**  A feasible solution is characterised by weights (load
and visits of each customer) and by trips that meet the depot at their ends only,
so that each move is handled by what `RouteFacts` says of its route operations.
`TailsExact` shows that an exchange of tails empties at most one of its two
routes, neither being empty before; were both emptied, the removal of the first
would shift the index of the second.  `LedgerInv` adds that the entries of the
ledger are numbers.  `NoCostAtDepot` (no distance from the depot to itself) is
needed where an empty route is dropped.  For `LocalOptimum`, `Exhausted` says that
the searches before the one that is next have found nothing on this very solution:
a success of any of them starts the round again.

**Evolution (CVRP).**  `GenomesInStep` is inductive, once the callbacks are known
to keep what they work on: a giant tour lists every customer once, and so does
each rotation of a template, each order of equals `qsort` may leave, and each child
of `route_ox`, although it overwrites the parents it reads from (`OxExact` in
`RouteFacts`): turn by turn, the positions filled so far hold different nodes, none
of the fixed segment, a node is read before it can be overwritten, and when all
nodes of the other parent have been offered no position is left, since a list
of as many nodes as there are has no gap.  A cheapest cut of a giant tour is a
solution whose giant tour it is; the educator runs the searches of
`CvrpLocalSearch`, for which `SolutionSound` and `LedgerExact` stand.
`SolverInv` adds, stage by stage, what the solution at hand costs and that `least`
is a number; after that, the steps of the post optimisation never make a cost rise.

**Solvers for one vehicle.**  `TourInv` is one invariant for both.  `Good` says of
a route that it is a tour if the template is one, and that it has the template's
length: with it the window of a route is all that lies between its fixed ends, so
each operation permutes exactly that.  The second half does not hold of a round trip
that `tspi.c` solves again with coordinates (`Mixed`): sweeps stay short, whence
`CrossoverAborts`.  `TspInv`
says of the constructor that its template lists the nodes asked for, each once
(`IsTemplate`), whose last node is the end unless `EndMissed`; that the window is
computed in `size_t` and wraps around exactly if there is nothing behind a fixed
start (`MinusValue`), which is where the assertion fails; and that with something to
reorder it does not wrap.  `TspiInv` keeps the template `0 .. num_nodes - 1` in order
until the first solve, which is what makes the swaps of
`tspi_regularize_template` by node ID right (`FirstRegularized`) and its assertion
hold.  `SolvedInv` says what later solves make of it (`IsResolved`): a round trip is one
node longer for each call, and of a one-way trip, whose end is the last node or the
call aborts, the swap that brings the start to the front is undone by every second call
(`SwapUndone`, `Turned`), so `RegularExactly` has the parity of the number of calls in
it; and that an aborted call has one of the reasons named (`Broken`).  2-opt can end
only where no end is open, since its scan cannot pass the
slice at an open end, whose delta is read beyond the route.  `LocalOptimum`
needs that a scan which has improved nothing started at the first slice: `improved`
is false only while the cursor is at the start.  The assumptions: IDs are below
`SIZE_NONE` (so there are no more nodes than a `size_t` counts), a request has a
sender or a receiver (asserted by `vrp_add_request`), stand-alone models have three
nodes or more (with fewer nothing is left to order), `SMALL_NUM_NODES` is at least 2.

**Clarke and Wright (VRPTW).**  Seven invariants, each built on those before.
`RouteInv` is as above, with two more walks: `new_demand` is the demand of the
merged route, and only the customers that neither walk has come to are mistaken
about it.  `ScheduleInv` says where a departure time or a sub-route window may be
stale: from `first_visit` on until the first walk is there, from `last_visit` back
until the second one is (`NothingStale`).  Hence `ScheduleExact`, since departures
along a route satisfy the recurrence that defines `Departures`.  `OnTimeInv` says,
for models that are `Workable` (customers servable alone, one or two windows
each), that no departure is SIZE_NONE and that each customer leaves in time for
the deadline of the sub-route of its successor, from which follow that no
assertion on a deadline is met and that `SolutionIsFeasible` holds
(`AssertionsHold`).  With three windows this is false, as the loop over the
windows sees their first half only. `TourInv` needs no such hypothesis: each ID of
a customer's route other than 0 is in the giant tour, and ID 0 in none; were the
depot's ID another, that ID would be there twice a route, and a list of length N
onto N customers repeats nothing, so the assertion on its size stops the program.
`DeadlineExact`, the other half of `MetaExact`, compares a deadline with `CanServe`,
which goes forward through sets of service times, while the code goes backward; both
are brought together by induction over the stops, done on sets of stop numbers
(`SequenceFacts`).  A deadline is the last time to serve a customer that leaves it in
time for the next deadline, so by any time up to it the route can be served; with
one window each, the code considers all of it, and nothing later will do.

`MergingMaximal` rests on the observation that what keeps two routes apart when their
saving is read keeps them apart to the end (`BlockedInv`): one of the two customers
is no longer an end, or both are on one route, or the demands or the times exclude
the merge.  Merges only raise demands, put departures off and bring deadlines
forward.  The last two need `LagInv`, where a merge makes a visit on the way out of
what was the direct way from or to the depot: no departure is later than its
predecessor makes necessary, also where the walk has still to come, nor sooner than
from the depot directly, and likewise for deadlines.  `NoShortcuts` says that such a
visit, the service included, saves no time; durations that `vrp_generate_durations`
truncates from distances in the plane are of that kind if each service takes a unit
of time.  With a shortcut the claim is false: where the direct way to a customer
takes 5 and the one over another customer 3, TLC finds a pair rejected before the
route gets longer that could be joined afterwards.  `DemandBoundInv` says that no
customer takes its route's demand for too large, so a pair rejected by demand does
exceed the capacity.  In the end `savings` is empty; a list of possible service times
is then barred from the second route (`CannotServeBoth`), by induction along the
stops of both.

`TimesAssumption` keeps sums of times below SIZE_NONE, as 64 bits do for the
seconds of any plan, and windows in order, which `WindowsDisjoint` shows;
`DepotAssumption` (no travel from the depot to itself) is what
`vrp_generate_durations` makes of a distance of 0; `ModelsAssumption` (IDs differ
and are at most N) keeps the code from reading behind its array.

**What stays with TLC.**
* Termination of all algorithms (`Termination`): fairness and `ENABLED` are outside of
  what TLAPS handles.  `Acyclic` and `RowsSettled` are the safety part of it.
* `LabelsExact`, `AbortsOnlyOnLateReturn` of `VrptwSplit` and `OutcomeSound` of
  `VrptwSolve`: cuts of a tour with a schedule for each route, and a fold over
  rotations of the template; not attempted yet.
* `SubmodelSound`, `DispatchOrderFree`, `SenderWindowsExact`, `FileFaithful` of `VrpSolve`:
  folds over requests and vehicles with early decisions; each is an equation
  between a fold and a quantified reference, which needs induction over data.
* The three violated properties: TLC's counterexamples are the result.

**Worth proving next**: `LabelsExact`, by the argument of `CvrpSplit` with a schedule
in place of the load.

## 5. What is abstracted, and what is missing

Costs and demands are natural numbers; the code uses doubles, so effects of
rounding (a move and its inverse both looking profitable) are not covered.
`CvrpLocalSearch` assumes a zero distance from the depot to itself: dropping an
emptied route is free only then.  `VrptwSolve` takes IDs to be inner indices.
Printing, allocation failures and the deallocation of objects are left out.

**Not modelled.**
* `route_swap_slices` and `route_remove_link`, which no code outside `route.c`'s
  own test calls.  Reading them shows that their deltas are wrong:
  `route_swap_slices_delata_distance` passes indices where node IDs are needed
  (`route.c:199`), `route_remove_link_delta_distance` never subtracts the arc
  between the two removed nodes (`route.c:268`).
* `vrptw_or_opt_node` with the insertion and removal of meta data: no caller, since
  `vrptw_post_optimize` returns 0 at once.  The exhaustive mode of the searches of
  `cvrp.c` is never used either.
* The random tours of small models: made only if no heuristic had a solution.
* `coord2d.c`: real-valued geometry.  Where angles order nodes, the models take any
  ranks, ties included.
* `src/py`: forwards each call.
* Sources the Makefile does not build (`heuristics.c`, `cvrp-bak2.c`, `sol-bak.c`,
  `server.c`, `util.c`, `main.c`).
