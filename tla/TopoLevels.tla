----------------------------- MODULE TopoLevels -----------------------------
(***************************************************************************)
(* Executor::compute_topo_levels (src/src/executor.rs): Kahn's algorithm   *)
(* on the plan's dependency graph, from the counting of in-degrees to the  *)
(* list of levels or one of the two plan errors.                           *)
(*                                                                         *)
(* A plan is a sequence of nodes numbered from 0 in the order of Plan::add *)
(* (src/src/plan.rs); a node's deps() is a slice of ResourceIds that may   *)
(* repeat an id, name a later node, or name no node at all, since          *)
(* ResourceId's field is public.  An EDGE <<j, k>> is the k-th entry of    *)
(* node j's deps(): Vec<usize> successors with its duplicates is then a    *)
(* set of edges, and the order inside it, which nothing depends on, is     *)
(* left out.  For the same reason a level is a set.                        *)
(***************************************************************************)
EXTENDS Integers, Sequences, FiniteSets

CONSTANTS
    N,       \* number of nodes in the plan
    Plans    \* the dependency lists considered: deps() of every node

Nodes == 0 .. N - 1

ASSUME NAssumption == N \in Nat
ASSUME PlansAssumption == Plans \subseteq [Nodes -> Seq(Nat)]

VARIABLES
    deps,        \* deps[j]: the dependency ids of node j, fixed by the plan
    topo,        \* where compute_topo_levels is, or how it returned
    scanned,     \* nodes whose deps have been counted (the first loop's i)
    inDegree,    \* in_degree
    successors,  \* successors[d]: the edges that point at d
    current,     \* current: the level being visited
    todo,        \* the nodes of current the inner loop has not reached
    next,        \* next: the nodes whose in-degree reached 0
    levels,      \* levels
    visited      \* visited

topoVars == <<deps, topo, scanned, inDegree, successors, current, todo,
              next, levels, visited>>

TopoStates == {"scan", "peel", "ok", "unknown", "cycle"}

\* The ids node j depends on.
DepsOf(j) == {deps[j][k] : k \in DOMAIN deps[j]}

TopoReset ==
    /\ topo = "scan"
    /\ scanned = 0
    /\ inDegree = [i \in Nodes |-> 0]
    /\ successors = [i \in Nodes |-> {}]
    /\ current = {}
    /\ todo = {}
    /\ next = {}
    /\ levels = <<>>
    /\ visited = 0

TopoInit == deps \in Plans /\ TopoReset

\* The same as a step: compute_topo_levels is called again.
TopoRestart ==
    /\ topo' = "scan"
    /\ scanned' = 0
    /\ inDegree' = [i \in Nodes |-> 0]
    /\ successors' = [i \in Nodes |-> {}]
    /\ current' = {}
    /\ todo' = {}
    /\ next' = {}
    /\ levels' = <<>>
    /\ visited' = 0

-----------------------------------------------------------------------------
(* The first loop: in-degrees and successors, one node at a time.          *)

KnownDeps(j) == \A k \in DOMAIN deps[j] : deps[j][k] < N

\* A plausible bug: the deps() slice is turned into a set before counting.
CountedDepsDistinct(j) == Cardinality(DepsOf(j))
CountedDeps(j) == Len(deps[j])

ScanNode ==
    /\ topo = "scan"
    /\ scanned < N
    /\ KnownDeps(scanned)
    /\ inDegree' = [inDegree EXCEPT ![scanned] = CountedDeps(scanned)]
    /\ successors' =
           [d \in Nodes |->
               successors[d] \cup
               {<<scanned, k>> : k \in {k \in DOMAIN deps[scanned] :
                                            deps[scanned][k] = d}}]
    /\ scanned' = scanned + 1
    /\ UNCHANGED <<deps, topo, current, todo, next, levels, visited>>

\* Error::PlanReferencesUnknownResource
UnknownDep ==
    /\ topo = "scan"
    /\ scanned < N
    /\ ~KnownDeps(scanned)
    /\ topo' = "unknown"
    /\ UNCHANGED <<deps, scanned, inDegree, successors, current, todo, next,
                   levels, visited>>

\* The roots form the first level.
StartPeel ==
    /\ topo = "scan"
    /\ scanned = N
    /\ current' = {i \in Nodes : inDegree[i] = 0}
    /\ todo' = current'
    /\ topo' = "peel"
    /\ UNCHANGED <<deps, scanned, inDegree, successors, next, levels, visited>>

-----------------------------------------------------------------------------
(* The second loop: peel one level after another.                          *)

\* A plausible bug: the edges to a repeated dependency are decremented once.
HitsOnce(i, j) == IF i \in DepsOf(j) THEN 1 ELSE 0
\* How often node i's successors list holds j.
Hits(i, j) == Cardinality({k \in DOMAIN deps[j] : <<j, k>> \in successors[i]})

\* The nodes pushed to next while node i's successors are decremented.
Ready(i) == {j \in Nodes : Hits(i, j) > 0 /\ inDegree[j] = Hits(i, j)}

Visit(i) ==
    /\ topo = "peel"
    /\ i \in todo
    /\ todo' = todo \ {i}
    /\ visited' = visited + 1
    /\ inDegree' = [j \in Nodes |-> inDegree[j] - Hits(i, j)]
    /\ next' = next \cup Ready(i)
    /\ UNCHANGED <<deps, topo, scanned, successors, current, levels>>

\* A plausible bug: the ready nodes join the level being visited.
CloseLevelMerged ==
    /\ topo = "peel"
    /\ current # {}
    /\ todo = {}
    /\ levels' = Append(levels, current \cup next)
    /\ current' = next
    /\ todo' = next
    /\ next' = {}
    /\ UNCHANGED <<deps, topo, scanned, inDegree, successors, visited>>

\* A plausible bug: the loop goes on with an empty level.
CloseLevelEmpty ==
    /\ topo = "peel"
    /\ todo = {}
    /\ levels' = Append(levels, current)
    /\ current' = next
    /\ todo' = next
    /\ next' = {}
    /\ UNCHANGED <<deps, topo, scanned, inDegree, successors, visited>>

CloseLevel ==
    /\ topo = "peel"
    /\ current # {}
    /\ todo = {}
    /\ levels' = Append(levels, current)
    /\ current' = next
    /\ todo' = next
    /\ next' = {}
    /\ UNCHANGED <<deps, topo, scanned, inDegree, successors, visited>>

\* A plausible bug: the comparison with the number of nodes is dropped.
AllVisitedUnchecked == TRUE
AllVisited == visited = N

Levelled ==
    /\ topo = "peel"
    /\ current = {}
    /\ AllVisited
    /\ topo' = "ok"
    /\ UNCHANGED <<deps, scanned, inDegree, successors, current, todo, next,
                   levels, visited>>

\* Error::PlanCycle
CycleFound ==
    /\ topo = "peel"
    /\ current = {}
    /\ ~AllVisited
    /\ topo' = "cycle"
    /\ UNCHANGED <<deps, scanned, inDegree, successors, current, todo, next,
                   levels, visited>>

\* The nodes never visited; the PlanCycle error names the first of them.
StuckNodes == {i \in Nodes : inDegree[i] > 0}

TopoNext ==
    \/ ScanNode
    \/ UnknownDep
    \/ StartPeel
    \/ \E i \in Nodes : Visit(i)
    \/ CloseLevel
    \/ Levelled
    \/ CycleFound

TopoSpec == TopoInit /\ [][TopoNext]_topoVars

-----------------------------------------------------------------------------
(* What the algorithm must deliver.                                        *)

\* The nodes of the levels pushed so far, and all the nodes visited.
Closed == UNION {levels[l] : l \in DOMAIN levels}
Done == Closed \cup (current \ todo)

\* The nodes of the levels before the l-th.
Before(l) == UNION {levels[m] : m \in 1 .. l - 1}

\* The variables keep their ranges.  In particular in_degree, a usize, is
\* never decremented below 0, which would panic in a debug build.
TopoTypeOK ==
    /\ deps \in Plans
    /\ topo \in TopoStates
    /\ scanned \in 0 .. N
    /\ inDegree \in [Nodes -> Nat]
    /\ successors \in [Nodes -> SUBSET (Nodes \X Nat)]
    /\ current \in SUBSET Nodes
    /\ todo \in SUBSET current
    /\ next \in SUBSET Nodes
    /\ levels \in Seq(SUBSET Nodes)
    /\ visited \in Nat

\* A node is put in a level only when all its dependencies lie in strictly
\* earlier levels (src/src/README.md, "levels where every node's deps lie at
\* a strictly earlier level"), and in one level only, at every step of the
\* peeling and not only at its end.
LevelsOrdered ==
    /\ \A l \in DOMAIN levels : \A j \in levels[l] : DepsOf(j) \subseteq Before(l)
    /\ \A l \in DOMAIN levels : levels[l] \cap Before(l) = {}

\* No level is empty, and no node waits longer than it must: each one has a
\* dependency in the level just before its own, so that run_level spawns beside
\* each other all that may run beside each other.
LevelsTight ==
    /\ \A l \in DOMAIN levels : levels[l] # {}
    /\ \A l \in DOMAIN levels : \A j \in levels[l] :
           l > 1 => DepsOf(j) \cap levels[l - 1] # {}

\* The levels are the layers of the dependency graph: every node lies in the
\* first level that all its dependencies lie before, and in no other.
LevelsExact == LevelsOrdered /\ LevelsTight

\* Success means that no node was left out: run() walks the levels, so a
\* node that is in none would silently never converge.
EveryNodeLevelled == topo = "ok" => Closed = Nodes

\* The PlanCycle error is raised only on a plan that has a cycle: the nodes
\* never visited are not empty and each of them waits for another of them.
\* (The one the error names need not be on the cycle itself.)
CycleIsReal ==
    topo = "cycle" =>
        /\ StuckNodes # {}
        /\ \A j \in StuckNodes : DepsOf(j) \cap StuckNodes # {}

\* ... and success only on a plan whose dependencies all exist; the unknown
\* error only when one does not.
UnknownIsReal ==
    /\ topo = "unknown" => \E j \in Nodes : \E d \in DepsOf(j) : d \notin Nodes
    /\ topo \in {"ok", "cycle"} => \A j \in Nodes : DepsOf(j) \subseteq Nodes

\* A plan that is accepted has no cycle: among any of its nodes there is one
\* that depends on none of them.
OkIsAcyclic ==
    topo = "ok" =>
        \A S \in SUBSET Nodes : S # {} => \E j \in S : DepsOf(j) \cap S = {}

\* The sort tells the truth about the plan: it accepts one, with all its nodes,
\* exactly when every id in deps() exists and there is no cycle, and each of
\* the two errors has its cause in deps().
VerdictIsTrue == EveryNodeLevelled /\ OkIsAcyclic /\ CycleIsReal /\ UnknownIsReal

\* A plan whose resources depend on earlier ones only, as every plan does that
\* is built with Plan::add (module PlanBuilder), is never rejected.
EarlierDepsSort ==
    (\A j \in Nodes : DepsOf(j) \subseteq 0 .. j - 1) => topo \notin {"unknown", "cycle"}

\* How many steps the sort can still take.
StepsLeft ==
    CASE topo = "scan" -> (N - scanned) + 2 * N + 2
      [] topo = "peel" -> (N - visited) + (N - Len(levels)) + 1
      [] OTHER -> 0

\* The sort ends, whatever the plan: of the at most 3N + 2 steps that it has at
\* first every step uses up one.  A cycle or an id that there is not cannot
\* keep the peeling going.
SortEnds == [][StepsLeft' \in 0 .. StepsLeft - 1]_topoVars

-----------------------------------------------------------------------------
(* The inductive invariant.                                                *)

\* The entries of deps(j) that name a node not visited yet.
Open(j) == {k \in DOMAIN deps[j] : deps[j][k] \notin Done}

\* The counting loop has put every edge of the scanned nodes, and no other,
\* in the successors list of the node it points at.
SuccessorsExact ==
    /\ \A d, j \in Nodes : \A k \in DOMAIN deps[j] :
           <<j, k>> \in successors[d] <=> j < scanned /\ deps[j][k] = d
    /\ \A j \in Nodes : j < scanned => KnownDeps(j)

\* in_degree[j] counts the entries of deps(j) still to be visited: no edge is
\* decremented twice and none is forgotten, duplicates included.
InDegreeExact ==
    \A j \in Nodes :
        inDegree[j] = IF j < scanned THEN Cardinality(Open(j)) ELSE 0

\* While the plan is scanned nothing is peeled.
PhaseInv ==
    /\ topo \in {"scan", "unknown"} =>
           current = {} /\ next = {} /\ levels = <<>>
    /\ topo \in {"peel", "ok", "cycle"} => scanned = N
    /\ topo \in {"ok", "cycle"} => current = {}
    /\ current = {} => next = {}
    /\ topo = "ok" => visited = N
    /\ topo = "cycle" => visited # N
    /\ topo = "unknown" => scanned < N /\ ~KnownDeps(scanned)

\* The nodes without open edges are exactly those levelled, being visited or
\* queued for the next level, each in one of the three places.
FrontierInv ==
    /\ topo \in {"peel", "ok", "cycle"} =>
           \A j \in Nodes : inDegree[j] = 0 <=> j \in Closed \cup current \cup next
    /\ current \cap Closed = {}
    /\ next \cap (Closed \cup current) = {}
    /\ \A j \in current : DepsOf(j) \subseteq Closed

VisitedInv == visited = Cardinality(Done)

\* The bookkeeping of the peeling, exact at every step: in_degree is the
\* number of unvisited entries of deps(), the zero in-degrees are the nodes
\* levelled or queued, and visited is the number of nodes gone through.
PeelingExact ==
    SuccessorsExact /\ InDegreeExact /\ PhaseInv /\ FrontierInv /\ VisitedInv


\* Why the levels are tight: what was readied while a level is visited waited
\* for a node of that level.
FrontierTight ==
    /\ \A j \in next : DepsOf(j) \cap current # {}
    /\ levels # <<>> => \A j \in current : DepsOf(j) \cap levels[Len(levels)] # {}

\* There are at most as many levels as nodes in them.
LevelsCounted == Len(levels) <= Cardinality(Closed)

=============================================================================
