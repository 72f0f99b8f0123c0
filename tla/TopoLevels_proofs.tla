-------------------------- MODULE TopoLevels_proofs --------------------------
(***************************************************************************)
(* Proofs about compute_topo_levels, for every plan of every size.         *)
(*                                                                         *)
(* LevelsOrdered is not inductive: that a queued node has its dependencies *)
(* in closed levels follows from the exactness of the in-degree counts, so *)
(* the inductive invariant adds PeelingExact.  That each node is in the    *)
(* first level it can be in needs TightInv too; such a layering is unique. *)
(***************************************************************************)
EXTENDS TopoLevels, FiniteSetTheorems, WellFoundedInduction, TLAPS

TopoIInv == TopoTypeOK /\ LevelsOrdered /\ PeelingExact

\* The nodes form a finite set of N elements.
LEMMA NodesFinite == IsFiniteSet(Nodes) /\ Cardinality(Nodes) = N
BY NAssumption, FS_Interval DEF Nodes

\* deps()[j] is a finite list of naturals.
LEMMA DepsList ==
    ASSUME deps \in Plans, NEW j \in Nodes
    PROVE  /\ Len(deps[j]) \in Nat
           /\ DOMAIN deps[j] = 1 .. Len(deps[j])
           /\ \A k \in DOMAIN deps[j] : deps[j][k] \in Nat
           /\ IsFiniteSet(DOMAIN deps[j])
           /\ Cardinality(DOMAIN deps[j]) = Len(deps[j])
<1>1. deps[j] \in Seq(Nat)
  BY PlansAssumption
<1>2. Len(deps[j]) \in Nat /\ DOMAIN deps[j] = 1 .. Len(deps[j])
  BY <1>1
<1>3. \A k \in DOMAIN deps[j] : deps[j][k] \in Nat
  BY <1>1
<1>4. /\ IsFiniteSet(1 .. Len(deps[j]))
      /\ Cardinality(1 .. Len(deps[j])) = Len(deps[j])
  <2>1. PICK n \in Nat : n = Len(deps[j])
    BY <1>2
  <2>2. IsFiniteSet(1 .. n) /\ Cardinality(1 .. n) = IF 1 > n THEN 0 ELSE n - 1 + 1
    BY FS_Interval
  <2>3. Cardinality(1 .. n) = n
    BY <2>2
  <2> QED
    BY <2>1, <2>2, <2>3
<1> QED
  BY <1>2, <1>3, <1>4

\* Counting a subset of the entries of deps()[j] gives a natural number, 0
\* exactly for the empty subset.
LEMMA EntryCount ==
    ASSUME deps \in Plans, NEW j \in Nodes, NEW E \in SUBSET (DOMAIN deps[j])
    PROVE  /\ IsFiniteSet(E)
           /\ Cardinality(E) \in Nat
           /\ Cardinality(E) = 0 <=> E = {}
<1>1. IsFiniteSet(E)
  BY DepsList, FS_Subset
<1> QED
  BY <1>1, FS_CardinalityType, FS_EmptySet

LEMMA TopoInitInv == TopoInit => TopoIInv
<1> SUFFICES ASSUME TopoInit PROVE TopoIInv
  OBVIOUS
<1> USE DEF TopoInit, TopoReset
<1>1. TopoTypeOK
  BY NAssumption DEF TopoTypeOK, TopoStates, Nodes
<1>2. LevelsOrdered
  BY DEF LevelsOrdered
<1>3. SuccessorsExact
  BY DEF SuccessorsExact, Nodes
<1>4. InDegreeExact
  BY DEF InDegreeExact, Nodes
<1>5. PhaseInv /\ FrontierInv
  BY DEF PhaseInv, FrontierInv, Closed
<1>6. VisitedInv
  <2>1. Done = {}
    BY DEF Done, Closed
  <2> QED
    BY <2>1, FS_EmptySet DEF VisitedInv
<1> QED
  BY <1>1, <1>2, <1>3, <1>4, <1>5, <1>6 DEF TopoIInv, PeelingExact

LEMMA ScanNodeInv == TopoIInv /\ ScanNode => TopoIInv'
<1> SUFFICES ASSUME TopoIInv, ScanNode PROVE TopoIInv'
  OBVIOUS
<1> USE DEF TopoIInv, PeelingExact
<1>0. /\ deps \in Plans /\ deps' = deps
      /\ topo = "scan" /\ topo' = "scan"
      /\ scanned \in Nat /\ scanned < N /\ scanned \in Nodes
      /\ scanned' = scanned + 1
      /\ current = {} /\ current' = {} /\ todo' = todo
      /\ next = {} /\ next' = {} /\ levels = <<>> /\ levels' = <<>>
      /\ KnownDeps(scanned)
  BY NAssumption DEF ScanNode, TopoTypeOK, PhaseInv, Nodes
<1>1. /\ inDegree' = [inDegree EXCEPT ![scanned] = Len(deps[scanned])]
      /\ visited' = visited
  BY DEF ScanNode, CountedDeps
<1>2. successors' =
           [d \in Nodes |->
               successors[d] \cup
               {<<scanned, k>> : k \in {k \in DOMAIN deps[scanned] :
                                            deps[scanned][k] = d}}]
  BY DEF ScanNode
<1>3. TopoTypeOK'
  <2>1. inDegree' \in [Nodes -> Nat]
    BY <1>0, <1>1, DepsList DEF TopoTypeOK
  <2>2. successors' \in [Nodes -> SUBSET (Nodes \X Nat)]
    <3>1. ASSUME NEW d \in Nodes
          PROVE  successors[d] \cup
                 {<<scanned, k>> : k \in {k \in DOMAIN deps[scanned] :
                                              deps[scanned][k] = d}}
                 \in SUBSET (Nodes \X Nat)
      <4>1. DOMAIN deps[scanned] \subseteq Nat
        BY <1>0, DepsList
      <4>2. successors[d] \subseteq Nodes \X Nat
        BY DEF TopoTypeOK
      <4> QED
        BY <1>0, <4>1, <4>2
    <3> QED
      BY <1>2, <3>1
  <2> QED
    BY <1>0, <1>1, <2>1, <2>2, NAssumption DEF TopoTypeOK, TopoStates
<1>4. LevelsOrdered'
  BY <1>0 DEF LevelsOrdered
<1>5. Done' = Done /\ Done = {} /\ Closed' = {}
  BY <1>0 DEF Done, Closed
<1>6. SuccessorsExact'
  <2>1. ASSUME NEW d \in Nodes, NEW j \in Nodes, NEW k \in DOMAIN deps[j]
        PROVE  <<j, k>> \in successors'[d] <=> j < scanned' /\ deps[j][k] = d
    <3>1. <<j, k>> \in successors[d] <=> j < scanned /\ deps[j][k] = d
      BY DEF SuccessorsExact
    <3>2. <<j, k>> \in successors'[d]
             <=> <<j, k>> \in successors[d] \/ (j = scanned /\ deps[j][k] = d)
      BY <1>2
    <3> QED
      BY <1>0, <3>1, <3>2 DEF Nodes
  <2>2. ASSUME NEW j \in Nodes, j < scanned' PROVE KnownDeps(j)'
    <3>1. j < scanned \/ j = scanned
      BY <1>0, <2>2 DEF Nodes
    <3>2. KnownDeps(j)
      BY <1>0, <3>1 DEF SuccessorsExact
    <3> QED
      BY <1>0, <3>2 DEF KnownDeps
  <2> QED
    BY <1>0, <2>1, <2>2 DEF SuccessorsExact
<1>7. InDegreeExact'
  <2> SUFFICES ASSUME NEW j \in Nodes
               PROVE  inDegree'[j] = IF j < scanned' THEN Cardinality(Open(j)') ELSE 0
    BY DEF InDegreeExact
  <2>1. Open(j)' = DOMAIN deps[j] /\ Open(j) = DOMAIN deps[j]
    BY <1>0, <1>5 DEF Open
  <2>2. Cardinality(DOMAIN deps[j]) = Len(deps[j])
    BY <1>0, DepsList
  <2>3. inDegree[j] = IF j < scanned THEN Cardinality(DOMAIN deps[j]) ELSE 0
    BY <2>1 DEF InDegreeExact
  <2>4. inDegree'[j] = IF j = scanned THEN Len(deps[j]) ELSE inDegree[j]
    BY <1>0, <1>1 DEF TopoTypeOK
  <2> QED
    BY <1>0, <2>1, <2>2, <2>3, <2>4 DEF Nodes
<1>8. PhaseInv'
  BY <1>0 DEF PhaseInv
<1>9. FrontierInv'
  BY <1>0, <1>5 DEF FrontierInv
<1>10. VisitedInv'
  BY <1>1, <1>5 DEF VisitedInv
<1> QED
  BY <1>3, <1>4, <1>6, <1>7, <1>8, <1>9, <1>10

LEMMA StartPeelInv == TopoIInv /\ StartPeel => TopoIInv'
<1> SUFFICES ASSUME TopoIInv, StartPeel PROVE TopoIInv'
  OBVIOUS
<1> USE DEF TopoIInv, PeelingExact
<1>0. /\ deps \in Plans /\ deps' = deps
      /\ topo = "scan" /\ topo' = "peel"
      /\ scanned = N /\ scanned' = N
      /\ current = {} /\ current' = {i \in Nodes : inDegree[i] = 0}
      /\ todo' = current'
      /\ next = {} /\ next' = {} /\ levels = <<>> /\ levels' = <<>>
      /\ inDegree' = inDegree /\ successors' = successors /\ visited' = visited
  BY DEF StartPeel, PhaseInv, TopoTypeOK
<1>1. TopoTypeOK'
  BY <1>0 DEF TopoTypeOK, TopoStates
<1>2. LevelsOrdered'
  BY <1>0 DEF LevelsOrdered
<1>3. Closed = {} /\ Closed' = {} /\ Done = {} /\ Done' = {}
  BY <1>0 DEF Closed, Done
<1>4. SuccessorsExact'
  BY <1>0 DEF SuccessorsExact, KnownDeps
<1>5. InDegreeExact'
  BY <1>0, <1>3 DEF InDegreeExact, Open
<1>6. PhaseInv'
  BY <1>0 DEF PhaseInv
<1>7. FrontierInv'
  <2>1. ASSUME NEW j \in current' PROVE DepsOf(j)' = {}
    <3>1. j \in Nodes /\ inDegree[j] = 0 /\ j < scanned
      BY <1>0, <2>1, NAssumption DEF Nodes
    <3>2. Cardinality(Open(j)) = 0 /\ Open(j) \subseteq DOMAIN deps[j]
      BY <3>1 DEF InDegreeExact, Open
    <3>3. Open(j) = {}
      BY <1>0, <3>1, <3>2, EntryCount
    <3> QED
      BY <1>0, <1>3, <3>3 DEF Open, DepsOf
  <2> QED
    BY <1>0, <1>3, <2>1 DEF FrontierInv
<1>8. VisitedInv'
  BY <1>0, <1>3 DEF VisitedInv
<1> QED
  BY <1>1, <1>2, <1>4, <1>5, <1>6, <1>7, <1>8

\* Steps that leave the plan and the levels alone keep the levels ordered.
LEMMA LevelsFrame ==
    LevelsOrdered /\ deps' = deps /\ levels' = levels => LevelsOrdered'
<1> SUFFICES ASSUME LevelsOrdered, deps' = deps, levels' = levels
             PROVE  LevelsOrdered'
  OBVIOUS
<1>1. \A j : DepsOf(j)' = DepsOf(j)
  BY DEF DepsOf
<1>2. \A l : Before(l)' = Before(l)
  BY DEF Before
<1> QED
  BY <1>1, <1>2 DEF LevelsOrdered

\* Visiting i closes exactly the entries of deps()[j] that name i.
LEMMA VisitCounts ==
    ASSUME TopoIInv, NEW i \in Nodes, Visit(i), NEW j \in Nodes
    PROVE  /\ Hits(i, j) \in Nat
           /\ Done' = Done \cup {i} /\ i \notin Done
           /\ inDegree[j] = Cardinality(Open(j))
           /\ inDegree'[j] = Cardinality(Open(j)')
           /\ inDegree'[j] = inDegree[j] - Hits(i, j)
           /\ inDegree'[j] \in Nat
<1> USE DEF TopoIInv, PeelingExact
<1> DEFINE H == {k \in DOMAIN deps[j] : deps[j][k] = i}
<1>0. /\ deps \in Plans /\ deps' = deps /\ topo = "peel"
      /\ scanned = N /\ j < scanned
      /\ i \in todo /\ todo \subseteq current /\ todo' = todo \ {i}
      /\ current' = current /\ levels' = levels
      /\ inDegree'[j] = inDegree[j] - Hits(i, j)
  BY NAssumption DEF Visit, PhaseInv, TopoTypeOK, Nodes
<1>1. Done' = Done \cup {i} /\ i \notin Done
  BY <1>0 DEF Done, Closed, FrontierInv
<1>2. {k \in DOMAIN deps[j] : <<j, k>> \in successors[i]} = H
  BY <1>0 DEF SuccessorsExact
<1>3. Hits(i, j) = Cardinality(H) /\ Cardinality(H) \in Nat
  BY <1>0, <1>2, EntryCount DEF Hits
<1>4. Open(j)' = Open(j) \ H /\ Open(j) \cap H = H
  BY <1>0, <1>1 DEF Open
<1>5. IsFiniteSet(Open(j)) /\ Cardinality(Open(j)) \in Nat
  BY <1>0, EntryCount DEF Open
<1>6. /\ Cardinality(Open(j)') = Cardinality(Open(j)) - Cardinality(H)
      /\ Cardinality(Open(j)') \in Nat
  <2>1. Cardinality(Open(j) \ H)
            = Cardinality(Open(j)) - Cardinality(Open(j) \cap H)
    BY <1>5, FS_Difference
  <2>2. Open(j) \ H \in SUBSET (DOMAIN deps[j])
    BY DEF Open
  <2>3. Cardinality(Open(j) \ H) \in Nat
    BY <1>0, <2>2, EntryCount
  <2> QED
    BY <1>4, <2>1, <2>3
<1>7. inDegree[j] = Cardinality(Open(j))
  BY <1>0 DEF InDegreeExact
<1> QED
  BY <1>0, <1>1, <1>3, <1>6, <1>7

LEMMA VisitInv == ASSUME NEW i \in Nodes PROVE TopoIInv /\ Visit(i) => TopoIInv'
<1> SUFFICES ASSUME TopoIInv, Visit(i) PROVE TopoIInv'
  OBVIOUS
<1> USE DEF TopoIInv, PeelingExact
<1>0. /\ deps \in Plans /\ deps' = deps /\ topo = "peel" /\ topo' = topo
      /\ scanned = N /\ scanned' = scanned /\ successors' = successors
      /\ i \in todo /\ todo \subseteq current /\ todo' = todo \ {i}
      /\ current' = current /\ levels' = levels /\ visited' = visited + 1
      /\ next' = next \cup Ready(i) /\ current \subseteq Nodes
      /\ inDegree' = [j \in Nodes |-> inDegree[j] - Hits(i, j)]
  BY DEF Visit, PhaseInv, TopoTypeOK
<1>1. Done' = Done \cup {i} /\ i \notin Done /\ Closed' = Closed
  BY <1>0, VisitCounts DEF Closed
<1>2. TopoTypeOK'
  <2>1. inDegree' \in [Nodes -> Nat]
    BY <1>0, VisitCounts
  <2>2. next' \in SUBSET Nodes
    BY <1>0 DEF Ready, TopoTypeOK
  <2> QED
    BY <1>0, <2>1, <2>2 DEF TopoTypeOK
<1>3. LevelsOrdered'
  BY <1>0, LevelsFrame
<1>4. SuccessorsExact'
  BY <1>0 DEF SuccessorsExact, KnownDeps
<1>5. InDegreeExact'
  <2> SUFFICES ASSUME NEW j \in Nodes
               PROVE  inDegree'[j] = IF j < scanned' THEN Cardinality(Open(j)') ELSE 0
    BY DEF InDegreeExact
  <2>1. j < scanned'
    BY <1>0, NAssumption DEF Nodes
  <2> QED
    BY <2>1, VisitCounts
<1>6. PhaseInv'
  BY <1>0 DEF PhaseInv
<1>7. FrontierInv'
  <2>1. ASSUME NEW j \in Nodes
        PROVE  /\ inDegree'[j] = 0 <=> j \in Closed' \cup current' \cup next'
               /\ j \in next' => j \notin Closed' \cup current'
    <3>1. inDegree[j] = 0 <=> j \in Closed \cup current \cup next
      BY <1>0 DEF FrontierInv
    <3>2. /\ inDegree[j] \in Nat /\ Hits(i, j) \in Nat /\ inDegree'[j] \in Nat
          /\ inDegree'[j] = inDegree[j] - Hits(i, j)
      BY VisitCounts DEF TopoTypeOK
    <3>3. j \in next' <=> j \in next \/ (Hits(i, j) > 0 /\ inDegree[j] = Hits(i, j))
      BY <1>0 DEF Ready
    <3>4. j \in next => j \notin Closed \cup current
      BY DEF FrontierInv
    <3> QED
      BY <1>0, <1>1, <3>1, <3>2, <3>3, <3>4
  <2>2. next' \cap (Closed' \cup current') = {}
    <3>1. next' \subseteq Nodes
      BY <1>2 DEF TopoTypeOK
    <3> QED
      BY <2>1, <3>1
  <2>3. /\ current' \cap Closed' = {}
        /\ \A j \in current' : DepsOf(j)' \subseteq Closed'
    BY <1>0, <1>1 DEF FrontierInv, DepsOf
  <2> QED
    BY <2>1, <2>2, <2>3 DEF FrontierInv
<1>8. VisitedInv'
  <2>1. Done \subseteq Nodes
    BY DEF Done, Closed, TopoTypeOK
  <2>2. IsFiniteSet(Done)
    BY <2>1, NodesFinite, FS_Subset
  <2>3. Cardinality(Done \cup {i}) = Cardinality(Done) + 1
    BY <1>1, <2>2, FS_AddElement
  <2> QED
    BY <1>0, <1>1, <2>3 DEF VisitedInv
<1> QED
  BY <1>2, <1>3, <1>4, <1>5, <1>6, <1>7, <1>8

LEMMA CloseLevelInv == TopoIInv /\ CloseLevel => TopoIInv'
<1> SUFFICES ASSUME TopoIInv, CloseLevel PROVE TopoIInv'
  OBVIOUS
<1> USE DEF TopoIInv, PeelingExact
<1>0. /\ deps \in Plans /\ deps' = deps /\ topo = "peel" /\ topo' = topo
      /\ scanned = N /\ scanned' = scanned /\ successors' = successors
      /\ current # {} /\ todo = {} /\ current' = next /\ todo' = next
      /\ next' = {} /\ levels' = Append(levels, current)
      /\ visited' = visited /\ inDegree' = inDegree
      /\ levels \in Seq(SUBSET Nodes) /\ current \in SUBSET Nodes
  BY DEF CloseLevel, PhaseInv, TopoTypeOK
<1> DEFINE n == Len(levels)
<1>1. /\ n \in Nat /\ DOMAIN levels = 1 .. n /\ DOMAIN levels' = 1 .. (n + 1)
      /\ \A l \in 1 .. n : levels'[l] = levels[l]
      /\ levels'[n + 1] = current
      /\ levels' \in Seq(SUBSET Nodes)
  BY <1>0
<1>2. Closed' = Closed \cup current
  <2>1. \A x : x \in Closed' <=> \E l \in 1 .. (n + 1) : x \in levels'[l]
    BY <1>1 DEF Closed
  <2>2. \A x : x \in Closed <=> \E l \in 1 .. n : x \in levels[l]
    BY <1>1 DEF Closed
  <2> HIDE DEF n
  <2>3. \A x : (\E l \in 1 .. (n + 1) : x \in levels'[l])
                <=> (\E l \in 1 .. n : x \in levels[l]) \/ x \in current
    BY <1>1
  <2> QED
    BY <2>1, <2>2, <2>3
<1>3. Done = Closed \cup current /\ Done' = Done
  BY <1>0, <1>2 DEF Done
<1>4. TopoTypeOK'
  BY <1>0, <1>1 DEF TopoTypeOK
<1>5. LevelsOrdered'
  <2>1. ASSUME NEW l \in 1 .. (n + 1) PROVE Before(l)' = Before(l)
    <3>1. \A m \in 1 .. (l - 1) : levels'[m] = levels[m]
      BY <1>1, <2>1
    <3> QED
      BY <3>1 DEF Before
  <2>2. Before(n + 1) = Closed
    BY <1>1 DEF Before, Closed
  <2>3. ASSUME NEW l \in 1 .. (n + 1)
        PROVE  /\ \A j \in levels'[l] : DepsOf(j)' \subseteq Before(l)'
               /\ levels'[l] \cap Before(l)' = {}
    <3>1. CASE l = n + 1
      BY <1>0, <1>1, <2>1, <2>2, <3>1 DEF FrontierInv, DepsOf
    <3>2. CASE l \in 1 .. n
      <4>1. levels'[l] = levels[l] /\ Before(l)' = Before(l)
        BY <1>1, <2>1, <3>2
      <4> QED
        BY <1>0, <1>1, <3>2, <4>1 DEF LevelsOrdered, DepsOf
    <3> QED
      BY <1>1, <3>1, <3>2
  <2> QED
    BY <1>1, <2>3 DEF LevelsOrdered
<1>6. SuccessorsExact'
  BY <1>0 DEF SuccessorsExact, KnownDeps
<1>7. InDegreeExact'
  BY <1>0, <1>3 DEF InDegreeExact, Open
<1>8. PhaseInv'
  BY <1>0 DEF PhaseInv
<1>9. FrontierInv'
  <2>1. ASSUME NEW j \in next PROVE DepsOf(j) \subseteq Closed'
    <3>1. j \in Nodes /\ j < scanned /\ inDegree[j] = 0
      BY <1>0, NAssumption DEF FrontierInv, TopoTypeOK, Nodes
    <3>2. Cardinality(Open(j)) = 0 /\ Open(j) \in SUBSET (DOMAIN deps[j])
      BY <3>1 DEF InDegreeExact, Open
    <3>3. Open(j) = {}
      BY <1>0, <3>1, <3>2, EntryCount
    <3> QED
      BY <1>2, <1>3, <3>3 DEF Open, DepsOf
  <2> QED
    BY <1>0, <1>2, <2>1 DEF FrontierInv, DepsOf
<1>10. VisitedInv'
  BY <1>0, <1>3 DEF VisitedInv
<1> QED
  BY <1>4, <1>5, <1>6, <1>7, <1>8, <1>9, <1>10

\* The three returns change topo alone.
LEMMA ReturnInv ==
    TopoIInv /\ (UnknownDep \/ Levelled \/ CycleFound) => TopoIInv'
<1> SUFFICES ASSUME TopoIInv, UnknownDep \/ Levelled \/ CycleFound PROVE TopoIInv'
  OBVIOUS
<1> USE DEF TopoIInv, PeelingExact
<1>1. UNCHANGED <<deps, scanned, inDegree, successors, current, todo, next,
                  levels, visited>>
  BY DEF UnknownDep, Levelled, CycleFound
<1>2. \/ topo = "scan" /\ topo' = "unknown" /\ scanned < N /\ ~KnownDeps(scanned)
      \/ topo = "peel" /\ current = {} /\ topo' = "ok" /\ visited = N
      \/ topo = "peel" /\ current = {} /\ topo' = "cycle" /\ visited # N
  BY DEF UnknownDep, Levelled, CycleFound, AllVisited
<1>3. Closed' = Closed /\ Done' = Done
  BY <1>1 DEF Closed, Done
<1>4. TopoTypeOK'
  BY <1>1, <1>2 DEF TopoTypeOK, TopoStates
<1>5. LevelsOrdered' /\ SuccessorsExact'
  BY <1>1, LevelsFrame DEF SuccessorsExact, KnownDeps
<1>6. InDegreeExact'
  BY <1>1, <1>3 DEF InDegreeExact, Open
<1>7. PhaseInv'
  BY <1>1, <1>2 DEF PhaseInv, KnownDeps
<1>8. FrontierInv'
  BY <1>1, <1>2, <1>3 DEF FrontierInv, DepsOf
<1>9. VisitedInv'
  BY <1>1, <1>3 DEF VisitedInv
<1> QED
  BY <1>4, <1>5, <1>6, <1>7, <1>8, <1>9

\* Every step of compute_topo_levels keeps the inductive invariant.
LEMMA TopoStepInv == TopoIInv /\ [TopoNext]_topoVars => TopoIInv'
<1> SUFFICES ASSUME TopoIInv, [TopoNext]_topoVars PROVE TopoIInv'
  OBVIOUS
<1>1. CASE TopoNext
  BY <1>1, ScanNodeInv, StartPeelInv, VisitInv, CloseLevelInv, ReturnInv
     DEF TopoNext
<1>2. CASE UNCHANGED topoVars
  <2>1. Closed' = Closed /\ Done' = Done
    BY <1>2 DEF Closed, Done, topoVars
  <2>2. TopoTypeOK' /\ LevelsOrdered' /\ SuccessorsExact'
    BY <1>2, LevelsFrame DEF topoVars, TopoIInv, PeelingExact, TopoTypeOK,
                             SuccessorsExact, KnownDeps
  <2>3. InDegreeExact' /\ PhaseInv' /\ FrontierInv' /\ VisitedInv'
    BY <1>2, <2>1 DEF topoVars, TopoIInv, PeelingExact, InDegreeExact, PhaseInv,
                FrontierInv, VisitedInv, Open, DepsOf, KnownDeps
  <2> QED
    BY <2>2, <2>3 DEF TopoIInv, PeelingExact
<1> QED
  BY <1>1, <1>2

-----------------------------------------------------------------------------
\* compute_topo_levels keeps the inductive invariant, so its bookkeeping is
\* exact at every step: in_degree never underflows, every node with no open
\* dependency is levelled or queued exactly once.
THEOREM TopoInvariant == TopoSpec => []TopoIInv
BY TopoInitInv, TopoStepInv, PTL DEF TopoSpec

\* Every variable keeps its range; the usize in_degree is never negative.
THEOREM TopoTypeCorrect == TopoSpec => []TopoTypeOK
BY TopoInvariant, PTL DEF TopoIInv

\* A node's dependencies lie in strictly earlier levels, and no node is in
\* two levels.
THEOREM LevelsAreOrdered == TopoSpec => []LevelsOrdered
BY TopoInvariant, PTL DEF TopoIInv

LEMMA InvImpliesComplete == TopoIInv => EveryNodeLevelled
<1> SUFFICES ASSUME TopoIInv, topo = "ok" PROVE Closed = Nodes
  BY DEF EveryNodeLevelled
<1>1. Done = Closed /\ Cardinality(Done) = N
  BY DEF TopoIInv, PeelingExact, PhaseInv, VisitedInv, Done
<1>2. Closed \subseteq Nodes
  BY DEF Closed, TopoIInv, TopoTypeOK
<1> QED
  BY <1>1, <1>2, NodesFinite, FS_Subset

\* The levels a successful sort returns hold every node of the plan.
THEOREM NoNodeIsLost == TopoSpec => []EveryNodeLevelled
BY TopoInvariant, InvImpliesComplete, PTL

LEMMA InvImpliesCycle == TopoIInv => CycleIsReal
<1> SUFFICES ASSUME TopoIInv, topo = "cycle"
             PROVE  /\ StuckNodes # {}
                    /\ \A j \in StuckNodes : DepsOf(j) \cap StuckNodes # {}
  BY DEF CycleIsReal
<1> USE DEF TopoIInv, PeelingExact
<1>1. /\ deps \in Plans /\ scanned = N /\ current = {} /\ next = {}
      /\ visited # N /\ Done = Closed /\ inDegree \in [Nodes -> Nat]
  BY DEF PhaseInv, TopoTypeOK, Done
<1>2. Closed \subseteq Nodes
  BY DEF Closed, TopoTypeOK
<1>3. StuckNodes = Nodes \ Closed
  BY <1>1, <1>2 DEF StuckNodes, FrontierInv
<1>4. StuckNodes # {}
  <2>1. Closed # Nodes
    BY <1>1, NodesFinite DEF VisitedInv
  <2> QED
    BY <1>2, <1>3, <2>1
<1>5. ASSUME NEW j \in StuckNodes PROVE DepsOf(j) \cap StuckNodes # {}
  <2>1. j \in Nodes /\ j < scanned /\ inDegree[j] > 0
    BY <1>1, NAssumption DEF StuckNodes, Nodes
  <2>2. Cardinality(Open(j)) # 0
    BY <2>1 DEF InDegreeExact
  <2>3. Open(j) # {}
    BY <2>2, FS_EmptySet
  <2>4. PICK k \in DOMAIN deps[j] : deps[j][k] \notin Closed
    BY <1>1, <2>3 DEF Open
  <2>5. deps[j][k] \in Nodes
    BY <1>1, <2>1, DepsList, NAssumption DEF SuccessorsExact, KnownDeps, Nodes
  <2> QED
    BY <1>3, <2>4, <2>5 DEF DepsOf
<1> QED
  BY <1>4, <1>5

\* A plan is rejected as cyclic only when it has a cycle.
THEOREM CycleErrorIsSound == TopoSpec => []CycleIsReal
BY TopoInvariant, InvImpliesCycle, PTL

LEMMA InvImpliesUnknown == TopoIInv => UnknownIsReal
<1> SUFFICES ASSUME TopoIInv PROVE UnknownIsReal
  OBVIOUS
<1> USE DEF TopoIInv, PeelingExact
<1>1. deps \in Plans
  BY DEF TopoTypeOK
<1>2. ASSUME topo = "unknown"
      PROVE  \E j \in Nodes : \E d \in DepsOf(j) : d \notin Nodes
  <2>1. scanned \in Nodes /\ ~KnownDeps(scanned)
    BY <1>2, NAssumption DEF PhaseInv, TopoTypeOK, Nodes
  <2>2. PICK k \in DOMAIN deps[scanned] : ~(deps[scanned][k] < N)
    BY <2>1 DEF KnownDeps
  <2>3. deps[scanned][k] \in DepsOf(scanned)
    BY DEF DepsOf
  <2>4. deps[scanned][k] \notin Nodes
    BY <2>2, NAssumption DEF Nodes
  <2> QED
    BY <2>1, <2>3, <2>4
<1>3. ASSUME topo \in {"ok", "cycle"}, NEW j \in Nodes PROVE DepsOf(j) \subseteq Nodes
  <2>1. j < scanned
    BY <1>3, NAssumption DEF PhaseInv, Nodes
  <2> QED
    BY <1>1, <2>1, DepsList, NAssumption DEF SuccessorsExact, KnownDeps, DepsOf, Nodes
<1> QED
  BY <1>2, <1>3 DEF UnknownIsReal

\* A plan is rejected for an unknown dependency only when it has one, and a
\* plan that has one is never accepted nor called cyclic.
THEOREM UnknownErrorIsSound == TopoSpec => []UnknownIsReal
BY TopoInvariant, InvImpliesUnknown, PTL

\* The order of the naturals is well-founded.
LEMMA LessIsWellFounded ==
    ASSUME NEW R, R = {p \in Nat \X Nat : p[1] < p[2]} PROVE IsWellFoundedOn(R, Nat)
BY NatLessThanWellFounded DEF OpToRel

\* A set of naturals that is not empty has a least element.
LEMMA LeastNatural ==
    ASSUME NEW U, U \subseteq Nat, U # {} PROVE \E x \in U : \A y \in U : x <= y
<1> DEFINE R == {p \in Nat \X Nat : p[1] < p[2]}
<1>1. IsWellFoundedOn(R, Nat)
  BY LessIsWellFounded
<1>2. \E x \in U : \A y \in U : ~ (<<y, x>> \in R)
  <2> HIDE DEF R
  <2> QED
    BY <1>1, WFMin
<1>3. PICK x \in U : \A y \in U : <<y, x>> \notin R
  BY <1>2
<1>4. ASSUME NEW y \in U PROVE x <= y
  <2>1. <<y, x>> \in Nat \X Nat
    OBVIOUS
  <2>2. ASSUME y < x PROVE <<y, x>> \in R
    BY <2>1, <2>2
  <2> QED
    BY <1>3, <2>2
<1> QED
  BY <1>4

\* The least node that was never visited would wait for a lesser one.
LEMMA EarlierDepsAccepted ==
    TopoTypeOK /\ CycleIsReal /\ UnknownIsReal => EarlierDepsSort
<1> SUFFICES ASSUME CycleIsReal, UnknownIsReal,
                    \A j \in Nodes : DepsOf(j) \subseteq 0 .. j - 1
             PROVE  topo \notin {"unknown", "cycle"}
  BY DEF EarlierDepsSort
<1>1. ASSUME topo = "unknown" PROVE FALSE
  BY <1>1, NAssumption DEF UnknownIsReal, Nodes
<1>2. ASSUME topo = "cycle" PROVE FALSE
  <2>1. StuckNodes \subseteq Nodes /\ StuckNodes \subseteq Nat /\ StuckNodes # {}
    BY <1>2, NAssumption DEF CycleIsReal, StuckNodes, Nodes
  <2>2. PICK j \in StuckNodes : \A i \in StuckNodes : j <= i
    BY <2>1, LeastNatural
  <2>3. PICK d \in DepsOf(j) : d \in StuckNodes
    BY <1>2 DEF CycleIsReal
  <2>4. d \in 0 .. j - 1 /\ j \in Nat
    BY <2>1, <2>3
  <2> QED
    BY <2>2, <2>3, <2>4
<1> QED
  BY <1>1, <1>2

\* Plans that depend backwards only, such as those of PlanBuilder, are sorted.
THEOREM EarlierDepsAreSorted == TopoSpec => []EarlierDepsSort
BY TopoTypeCorrect, CycleErrorIsSound, UnknownErrorIsSound, EarlierDepsAccepted, PTL

\* in_degree counts the open dependencies, the zero in-degrees are the nodes
\* levelled or queued, and visited counts the nodes gone through.
THEOREM PeelingIsExact == TopoSpec => []PeelingExact
BY TopoInvariant, PTL DEF TopoIInv


\* Among any nodes of the levels the one in the earliest level depends on none
\* of them.
LEMMA InvImpliesAcyclic == TopoIInv => OkIsAcyclic
<1> SUFFICES ASSUME TopoIInv, topo = "ok", NEW S \in SUBSET Nodes, S # {}
             PROVE  \E j \in S : DepsOf(j) \cap S = {}
  BY DEF OkIsAcyclic
<1> DEFINE U == {l \in DOMAIN levels : levels[l] \cap S # {}}
<1>1. Closed = Nodes
  BY InvImpliesComplete DEF EveryNodeLevelled
<1>2. DOMAIN levels \subseteq Nat
  BY DEF TopoIInv, TopoTypeOK
<1>3. U # {} /\ U \subseteq Nat
  BY <1>1, <1>2 DEF Closed
<1>4. PICK l \in U : \A m \in U : l <= m
  <2> HIDE DEF U
  <2> QED
    BY <1>3, LeastNatural
<1>5. PICK j \in levels[l] : j \in S
  OBVIOUS
<1>6. DepsOf(j) \subseteq Before(l)
  BY DEF TopoIInv, LevelsOrdered
<1>7. ASSUME NEW d \in Before(l) PROVE d \notin S
  <2>1. PICK m \in 1 .. l - 1 : d \in levels[m]
    BY DEF Before
  <2>2. m \in DOMAIN levels
    BY DEF TopoIInv, TopoTypeOK
  <2>3. m \notin U
    BY <1>2, <1>4, <2>1
  <2> QED
    BY <2>1, <2>2, <2>3
<1> QED
  BY <1>5, <1>6, <1>7

\* The verdict is the right one in both directions: a plan is accepted exactly
\* when all its dependencies exist and it has no cycle.
THEOREM VerdictIsRight == TopoSpec => []VerdictIsTrue
<1>1. TopoIInv => VerdictIsTrue
  BY InvImpliesComplete, InvImpliesAcyclic, InvImpliesCycle, InvImpliesUnknown DEF VerdictIsTrue
<1> QED
  BY <1>1, TopoInvariant, PTL

-----------------------------------------------------------------------------
(* The levels are the layers of the graph, and the sort ends.              *)

TightInv == LevelsTight /\ FrontierTight /\ LevelsCounted

\* Steps that leave the plan, the levels and what is queued alone keep it all.
LEMMA TightFrame ==
    TightInv /\ deps' = deps /\ levels' = levels /\ current' = current /\ next' = next => TightInv'
<1> SUFFICES ASSUME TightInv, deps' = deps, levels' = levels, current' = current, next' = next
             PROVE  TightInv'
  OBVIOUS
<1>1. \A j : DepsOf(j)' = DepsOf(j)
  BY DEF DepsOf
<1>2. Closed' = Closed
  BY DEF Closed
<1> QED
  BY <1>1, <1>2 DEF TightInv, LevelsTight, FrontierTight, LevelsCounted

\* Whoever is readied by a visit depends on the node visited.
LEMMA ReadyWaited ==
    ASSUME TopoIInv, topo = "peel", NEW i \in Nodes, NEW j \in Ready(i)
    PROVE  i \in DepsOf(j)
<1>1. j \in Nodes /\ Hits(i, j) # 0
  BY DEF Ready
<1>2. {k \in DOMAIN deps[j] : <<j, k>> \in successors[i]} # {}
  BY <1>1, FS_EmptySet DEF Hits
<1>3. PICK k \in DOMAIN deps[j] : deps[j][k] = i
  BY <1>1, <1>2 DEF TopoIInv, PeelingExact, SuccessorsExact
<1> QED
  BY <1>3 DEF DepsOf

LEMMA VisitTight == ASSUME NEW i \in Nodes PROVE TopoIInv /\ TightInv /\ Visit(i) => TightInv'
<1> SUFFICES ASSUME TopoIInv, TightInv, Visit(i) PROVE TightInv'
  OBVIOUS
<1>1. /\ deps' = deps /\ levels' = levels /\ current' = current /\ next' = next \cup Ready(i)
      /\ topo = "peel" /\ i \in current
  BY DEF Visit, TopoIInv, TopoTypeOK
<1>2. \A j : DepsOf(j)' = DepsOf(j)
  BY <1>1 DEF DepsOf
<1>3. Closed' = Closed
  BY <1>1 DEF Closed
<1>4. \A j \in Ready(i) : i \in DepsOf(j)
  BY <1>1, ReadyWaited
<1> QED
  BY <1>1, <1>2, <1>3, <1>4 DEF TightInv, LevelsTight, FrontierTight, LevelsCounted

LEMMA CloseTight == TopoIInv /\ TightInv /\ CloseLevel => TightInv'
<1> SUFFICES ASSUME TopoIInv, TightInv, CloseLevel PROVE TightInv'
  OBVIOUS
<1> DEFINE n == Len(levels)
<1>1. /\ deps' = deps /\ current # {} /\ current' = next /\ next' = {}
      /\ levels' = Append(levels, current) /\ levels \in Seq(SUBSET Nodes)
      /\ current \in SUBSET Nodes
  BY DEF CloseLevel, TopoIInv, TopoTypeOK
<1>2. /\ n \in Nat /\ DOMAIN levels = 1 .. n /\ DOMAIN levels' = 1 .. (n + 1)
      /\ \A l \in 1 .. n : levels'[l] = levels[l]
      /\ levels'[n + 1] = current /\ Len(levels') = n + 1 /\ levels' # <<>>
      /\ n > 0 => levels # <<>>
  BY <1>1
<1>3. \A j : DepsOf(j)' = DepsOf(j)
  BY <1>1 DEF DepsOf
<1>4. LevelsTight'
  <2> SUFFICES ASSUME NEW l \in 1 .. (n + 1)
               PROVE  /\ levels'[l] # {}
                      /\ \A j \in levels'[l] : l > 1 => DepsOf(j) \cap levels'[l - 1] # {}
    BY <1>2, <1>3 DEF LevelsTight
  <2>1. CASE l = n + 1
    <3>1. n > 0 => levels'[n] = levels[n] /\ \A j \in current : DepsOf(j) \cap levels[n] # {}
      BY <1>2 DEF TightInv, FrontierTight
    <3>2. levels'[l] = current /\ l - 1 = n /\ (l > 1 => n > 0)
      BY <1>2, <2>1
    <3> HIDE DEF n
    <3> QED
      BY <1>1, <3>1, <3>2
  <2>2. CASE l \in 1 .. n
    <3>1. levels'[l] = levels[l] /\ (l > 1 => levels'[l - 1] = levels[l - 1])
      BY <1>2, <2>2
    <3> QED
      BY <1>2, <2>2, <3>1 DEF TightInv, LevelsTight
  <2> QED
    BY <1>2, <2>1, <2>2
<1>5. FrontierTight'
  BY <1>1, <1>2, <1>3 DEF TightInv, FrontierTight
<1>6. LevelsCounted'
  <2>1. Closed' = Closed \cup current
    <3>1. \A x : x \in Closed' <=> \E l \in 1 .. (n + 1) : x \in levels'[l]
      BY <1>2 DEF Closed
    <3>2. \A x : x \in Closed <=> \E l \in 1 .. n : x \in levels[l]
      BY <1>2 DEF Closed
    <3> HIDE DEF n
    <3>3. \A x : (\E l \in 1 .. (n + 1) : x \in levels'[l])
                  <=> (\E l \in 1 .. n : x \in levels[l]) \/ x \in current
      BY <1>2
    <3> QED
      BY <3>1, <3>2, <3>3
  <2>2. PICK x \in current : x \notin Closed
    BY <1>1 DEF TopoIInv, PeelingExact, FrontierInv
  <2>3. Closed \cup {x} \subseteq Nodes /\ Closed' \subseteq Nodes /\ Closed \cup {x} \subseteq Closed'
    <3>1. \A l \in DOMAIN levels : levels[l] \subseteq Nodes
      BY <1>1
    <3>2. Closed \subseteq Nodes
      BY <3>1 DEF Closed
    <3> QED
      BY <1>1, <2>1, <3>2
  <2>4. IsFiniteSet(Closed) /\ IsFiniteSet(Closed')
    BY <2>3, NodesFinite, FS_Subset
  <2>5. Cardinality(Closed \cup {x}) = Cardinality(Closed) + 1
    BY <2>2, <2>4, FS_AddElement
  <2>6. Cardinality(Closed \cup {x}) <= Cardinality(Closed')
    BY <2>3, <2>4, FS_Subset
  <2>7. Cardinality(Closed) \in Nat /\ Cardinality(Closed') \in Nat
    BY <2>4, FS_CardinalityType
  <2> QED
    BY <1>2, <2>5, <2>6, <2>7 DEF TightInv, LevelsCounted
<1> QED
  BY <1>4, <1>5, <1>6 DEF TightInv

LEMMA TightInit == TopoInit => TightInv
<1> SUFFICES ASSUME TopoInit PROVE TightInv
  OBVIOUS
<1>1. levels = <<>> /\ next = {} /\ Closed = {}
  BY DEF TopoInit, TopoReset, Closed
<1> QED
  BY <1>1, FS_EmptySet DEF TightInv, LevelsTight, FrontierTight, LevelsCounted

LEMMA TightStep == TopoIInv /\ TightInv /\ [TopoNext]_topoVars => TightInv'
<1> SUFFICES ASSUME TopoIInv, TightInv, [TopoNext]_topoVars PROVE TightInv'
  OBVIOUS
<1>1. CASE UnknownDep \/ Levelled \/ CycleFound \/ ScanNode \/ UNCHANGED topoVars
  BY <1>1, TightFrame DEF UnknownDep, Levelled, CycleFound, ScanNode, topoVars
<1>2. CASE StartPeel
  <2>1. deps' = deps /\ levels' = levels /\ levels = <<>> /\ next' = next /\ next = {}
    BY <1>2 DEF StartPeel, TopoIInv, PeelingExact, PhaseInv
  <2>2. Closed' = Closed
    BY <2>1 DEF Closed
  <2> QED
    BY <2>1, <2>2 DEF TightInv, LevelsTight, FrontierTight, LevelsCounted
<1> QED
  BY <1>1, <1>2, VisitTight, CloseTight DEF TopoNext

LEMMA TightInvariant == TopoSpec => []TightInv
<1>1. TopoIInv /\ TightInv /\ [TopoNext]_topoVars => TightInv'
  BY TightStep
<1> QED
  BY <1>1, TopoInvariant, TightInit, PTL DEF TopoSpec

\* For every plan and at every step, a node is in the first level that all its
\* dependencies lie before, so no level waits for nothing.
THEOREM LevelsAreExact == TopoSpec => []LevelsExact
<1>1. TopoIInv /\ TightInv => LevelsExact
  BY DEF TopoIInv, TightInv, LevelsExact
<1> QED
  BY <1>1, TopoInvariant, TightInvariant, PTL

\* A sequence of levels that are the layers of the plan's graph.
BeforeIn(L, l) == UNION {L[m] : m \in 1 .. l - 1}
IsLayering(L) ==
    /\ L \in Seq(SUBSET Nodes)
    /\ UNION {L[l] : l \in DOMAIN L} = Nodes
    /\ \A l \in DOMAIN L :
           /\ L[l] # {}
           /\ L[l] \cap BeforeIn(L, l) = {}
           /\ \A j \in L[l] : DepsOf(j) \subseteq BeforeIn(L, l)
           /\ \A j \in L[l] : l > 1 => DepsOf(j) \cap L[l - 1] # {}

\* Where two layerings agree below a level, the one has all that the other has
\* in it.
LEMMA LayerContained ==
    ASSUME NEW L, IsLayering(L), NEW M, IsLayering(M), NEW l \in DOMAIN L,
           \A m \in 1 .. l - 1 : m \in DOMAIN M /\ L[m] = M[m]
    PROVE  l \in DOMAIN M /\ L[l] \subseteq M[l]
<1>1. l \in Nat \ {0} /\ DOMAIN M = 1 .. Len(M) /\ Len(M) \in Nat
  BY DEF IsLayering
<1>2. BeforeIn(L, l) = BeforeIn(M, l)
  BY DEF BeforeIn
<1>3. ASSUME NEW j \in L[l] PROVE l \in DOMAIN M /\ j \in M[l]
  <2>1. j \in Nodes
    BY DEF IsLayering
  <2>2. PICK m \in DOMAIN M : j \in M[m]
    BY <2>1 DEF IsLayering
  <2>3. m \in Nat \ {0}
    BY <1>1
  <2>4. ~(m < l)
    <3>1. m < l => j \in BeforeIn(M, l)
      BY <1>1, <2>2, <2>3 DEF BeforeIn
    <3> QED
      BY <1>2, <3>1 DEF IsLayering
  <2>5. ~(m > l)
    <3> SUFFICES ASSUME m > l PROVE FALSE
      OBVIOUS
    <3>1. m > 1 /\ m - 1 \in DOMAIN M /\ m - 1 \in Nat /\ m - 1 >= l
      BY <1>1, <2>2, <2>3
    <3>2. PICK d \in DepsOf(j) : d \in M[m - 1]
      BY <2>2, <3>1 DEF IsLayering
    <3>3. d \in BeforeIn(M, l)
      BY <1>2 DEF IsLayering
    <3>4. PICK h \in 1 .. l - 1 : d \in M[h]
      BY <3>3 DEF BeforeIn
    <3>5. d \in BeforeIn(M, m - 1)
      BY <1>1, <3>1, <3>4 DEF BeforeIn
    <3> QED
      BY <3>1, <3>2, <3>5 DEF IsLayering
  <2> QED
    BY <1>1, <2>2, <2>3, <2>4, <2>5
<1>4. L[l] # {}
  BY DEF IsLayering
<1> QED
  BY <1>3, <1>4

\* A plan has one layering only, so that the levels run() walks do not depend
\* on the order in which nodes and successors are gone through.
THEOREM LayeringIsUnique ==
    ASSUME NEW L, IsLayering(L), NEW M, IsLayering(M) PROVE L = M
<1>1. /\ DOMAIN L = 1 .. Len(L) /\ Len(L) \in Nat
      /\ DOMAIN M = 1 .. Len(M) /\ Len(M) \in Nat
  BY DEF IsLayering
<1> DEFINE U == {l \in Nat \ {0} : (l \in DOMAIN L \/ l \in DOMAIN M) /\ ~(l \in DOMAIN L /\ l \in DOMAIN M /\ L[l] = M[l])}
<1>2. U = {}
  <2> SUFFICES ASSUME U # {} PROVE FALSE
    OBVIOUS
  <2>1. PICK l \in U : \A m \in U : l <= m
    <3>1. U \subseteq Nat
      OBVIOUS
    <3> HIDE DEF U
    <3> QED
      BY <3>1, LeastNatural
  <2>2. \A m \in 1 .. l - 1 : m \in Nat \ {0} /\ m \notin U
    BY <2>1
  <2>3. ASSUME NEW m \in 1 .. l - 1
        PROVE  m \in DOMAIN L /\ m \in DOMAIN M /\ L[m] = M[m]
    <3>1. m \in DOMAIN L \/ m \in DOMAIN M
      BY <1>1
    <3> QED
      BY <2>2, <3>1
  <2>4. l \in DOMAIN L => l \in DOMAIN M /\ L[l] \subseteq M[l]
    BY <2>3, LayerContained
  <2>5. l \in DOMAIN M => l \in DOMAIN L /\ M[l] \subseteq L[l]
    BY <2>3, LayerContained
  <2> QED
    BY <2>4, <2>5
<1>3. ASSUME NEW l \in Nat \ {0}
      PROVE  (l \in DOMAIN L <=> l \in DOMAIN M) /\ (l \in DOMAIN L => L[l] = M[l])
  <2>1. l \notin U
    BY <1>2
  <2> QED
    BY <2>1
<1> HIDE DEF U
<1>4. Len(L) = Len(M)
  <2>1. Len(L) <= Len(M)
    <3>1. Len(L) \in Nat \ {0} => Len(L) \in 1 .. Len(M)
      BY <1>1, <1>3
    <3> QED
      BY <1>1, <3>1
  <2>2. Len(M) <= Len(L)
    <3>1. Len(M) \in Nat \ {0} => Len(M) \in 1 .. Len(L)
      BY <1>1, <1>3
    <3> QED
      BY <1>1, <3>1
  <2>3. \A a, b \in Nat : a <= b /\ b <= a => a = b
    OBVIOUS
  <2> QED
    BY <1>1, <2>1, <2>2, <2>3, Zenon
<1>5. \A l \in 1 .. Len(L) : L[l] = M[l]
  BY <1>1, <1>3
<1> QED
  BY <1>4, <1>5 DEF IsLayering

\* What a successful sort returns is that layering.
THEOREM SortReturnsTheLayering == TopoSpec => [](topo = "ok" => IsLayering(levels))
<1>1. TopoIInv /\ TightInv /\ topo = "ok" => IsLayering(levels)
  <2> SUFFICES ASSUME TopoIInv, TightInv, topo = "ok" PROVE IsLayering(levels)
    OBVIOUS
  <2>1. levels \in Seq(SUBSET Nodes)
    BY DEF TopoIInv, TopoTypeOK
  <2>2. UNION {levels[l] : l \in DOMAIN levels} = Nodes
    BY InvImpliesComplete DEF EveryNodeLevelled, Closed
  <2>3. \A l : BeforeIn(levels, l) = Before(l)
    BY DEF BeforeIn, Before
  <2> QED
    BY <2>1, <2>2, <2>3 DEF IsLayering, TopoIInv, LevelsOrdered, TightInv, LevelsTight
<1> QED
  BY <1>1, TopoInvariant, TightInvariant, PTL

\* There are never more levels, nor more nodes visited, than nodes.
LEMMA SortBounds ==
    ASSUME TopoIInv, TightInv
    PROVE  /\ N \in Nat /\ scanned \in 0 .. N
           /\ visited \in 0 .. N
           /\ Len(levels) \in 0 .. N
<1>1. Closed \subseteq Done /\ Done \subseteq Nodes
  <2>1. Closed \subseteq Nodes /\ current \subseteq Nodes
    BY DEF Closed, TopoIInv, TopoTypeOK
  <2> QED
    BY <2>1 DEF Done
<1>2. IsFiniteSet(Done) /\ IsFiniteSet(Closed) /\ IsFiniteSet(Nodes)
  BY <1>1, NodesFinite, FS_Subset
<1>3. /\ Cardinality(Done) \in Nat /\ Cardinality(Closed) \in Nat
      /\ Cardinality(Done) <= N /\ Cardinality(Closed) <= Cardinality(Done)
  BY <1>1, <1>2, NodesFinite, FS_Subset, FS_CardinalityType
<1>4. Len(levels) \in Nat /\ Len(levels) <= Cardinality(Closed)
  BY DEF TopoIInv, TopoTypeOK, TightInv, LevelsCounted
<1>5. visited = Cardinality(Done) /\ scanned \in 0 .. N
  BY DEF TopoIInv, TopoTypeOK, PeelingExact, VisitedInv
<1> QED
  BY <1>3, <1>4, <1>5, NAssumption

LEMMA StepsCounted == TopoIInv /\ TightInv => StepsLeft \in 0 .. 3 * N + 2
<1> SUFFICES ASSUME TopoIInv, TightInv PROVE StepsLeft \in 0 .. 3 * N + 2
  OBVIOUS
<1>1. N \in Nat /\ scanned \in 0 .. N /\ visited \in 0 .. N /\ Len(levels) \in 0 .. N
  BY SortBounds
<1>2. ASSUME NEW n \in Nat, NEW a \in 0 .. n, NEW b \in 0 .. n
      PROVE  /\ (n - a) + 2 * n + 2 \in 0 .. 3 * n + 2
             /\ (n - a) + (n - b) + 1 \in 0 .. 3 * n + 2
             /\ 0 \in 0 .. 3 * n + 2
  OBVIOUS
<1>3. CASE topo = "scan"
  <2>1. StepsLeft = (N - scanned) + 2 * N + 2
    BY <1>3 DEF StepsLeft
  <2> QED
    BY <1>1, <1>2, <2>1
<1>4. CASE topo = "peel"
  <2>1. StepsLeft = (N - visited) + (N - Len(levels)) + 1
    BY <1>4 DEF StepsLeft
  <2> QED
    BY <1>1, <1>2, <2>1
<1>5. CASE topo \notin {"scan", "peel"}
  <2>1. StepsLeft = 0
    BY <1>5 DEF StepsLeft
  <2> QED
    BY <1>1, <1>2, <2>1
<1> QED
  BY <1>3, <1>4, <1>5

LEMMA StepLowers ==
    ASSUME TopoIInv, TightInv, TopoIInv', TightInv', TopoNext
    PROVE  StepsLeft' \in 0 .. StepsLeft - 1
<1>1. /\ N \in Nat /\ scanned \in 0 .. N /\ visited \in 0 .. N /\ Len(levels) \in 0 .. N
      /\ scanned' \in 0 .. N /\ visited' \in 0 .. N /\ Len(levels') \in 0 .. N
  <2>1. (TopoIInv /\ TightInv =>
             /\ N \in Nat /\ scanned \in 0 .. N /\ visited \in 0 .. N /\ Len(levels) \in 0 .. N)'
    BY SortBounds, PTL
  <2> QED
    BY <2>1, SortBounds
<1>2. CASE ScanNode
  <2>1. topo = "scan" /\ topo' = "scan" /\ scanned' = scanned + 1
    BY <1>2 DEF ScanNode
  <2>2. /\ StepsLeft = (N - scanned) + 2 * N + 2
        /\ StepsLeft' = (N - scanned') + 2 * N + 2
    BY <2>1 DEF StepsLeft
  <2> QED
    BY <1>1, <2>1, <2>2
<1>3. CASE UnknownDep
  <2>1. topo = "scan" /\ topo' = "unknown"
    BY <1>3 DEF UnknownDep
  <2>2. StepsLeft = (N - scanned) + 2 * N + 2 /\ StepsLeft' = 0
    BY <2>1 DEF StepsLeft
  <2> QED
    BY <1>1, <2>2
<1>4. CASE StartPeel
  <2>1. topo = "scan" /\ topo' = "peel"
    BY <1>4 DEF StartPeel
  <2>2. StepsLeft = (N - scanned) + 2 * N + 2
    BY <2>1 DEF StepsLeft
  <2>3. StepsLeft' = (N - visited') + (N - Len(levels')) + 1
    BY <2>1 DEF StepsLeft
  <2> QED
    BY <1>1, <2>2, <2>3
<1>5. CASE \E i \in Nodes : Visit(i)
  <2>1. topo = "peel" /\ topo' = "peel" /\ visited' = visited + 1 /\ levels' = levels
    BY <1>5 DEF Visit
  <2>2. /\ StepsLeft = (N - visited) + (N - Len(levels)) + 1
        /\ StepsLeft' = (N - visited') + (N - Len(levels')) + 1
    BY <2>1 DEF StepsLeft
  <2> QED
    BY <1>1, <2>1, <2>2
<1>6. CASE CloseLevel
  <2>1. /\ topo = "peel" /\ topo' = "peel" /\ visited' = visited
        /\ levels' = Append(levels, current) /\ levels \in Seq(SUBSET Nodes)
    BY <1>6 DEF CloseLevel, TopoIInv, TopoTypeOK
  <2>2. Len(levels') = Len(levels) + 1
    BY <2>1
  <2>3. /\ StepsLeft = (N - visited) + (N - Len(levels)) + 1
        /\ StepsLeft' = (N - visited') + (N - Len(levels')) + 1
    BY <2>1 DEF StepsLeft
  <2> QED
    BY <1>1, <2>1, <2>2, <2>3
<1>7. CASE Levelled \/ CycleFound
  <2>1. topo = "peel" /\ topo' \in {"ok", "cycle"}
    BY <1>7 DEF Levelled, CycleFound
  <2>2. StepsLeft = (N - visited) + (N - Len(levels)) + 1 /\ StepsLeft' = 0
    BY <2>1 DEF StepsLeft
  <2> QED
    BY <1>1, <2>2
<1> QED
  BY <1>2, <1>3, <1>4, <1>5, <1>6, <1>7 DEF TopoNext

\* The sort of a plan of N nodes takes at most 3N + 2 steps, whichever way it
\* ends.
THEOREM SortIsLinear == TopoSpec => [](StepsLeft \in 0 .. 3 * N + 2) /\ SortEnds
<1>1. TopoIInv /\ TightInv => StepsLeft \in 0 .. 3 * N + 2
  BY StepsCounted
<1>2. TopoIInv /\ TightInv /\ TopoIInv' /\ TightInv' /\ [TopoNext]_topoVars
          => [StepsLeft' \in 0 .. StepsLeft - 1]_topoVars
  BY StepLowers
<1> QED
  BY <1>1, <1>2, TopoInvariant, TightInvariant, PTL DEF TopoSpec, SortEnds

=============================================================================
