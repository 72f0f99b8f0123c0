--------------------------- MODULE Executor_proofs ---------------------------
(***************************************************************************)
(* Proofs about Executor::run, for every plan, every assignment of kinds,  *)
(* triggers and families, and any number of runs.                          *)
(*                                                                         *)
(* The inductive invariant is that of the sort (TopoLevels_proofs), the    *)
(* type invariant and RunConsistent.  The last part is about the end of a  *)
(* run: each step lowers RunLeft, and no task is stuck.                    *)
(***************************************************************************)
EXTENDS Executor, TopoLevels_proofs

IInv == TopoIInv /\ TypeOK /\ RunConsistent

\* The steps of the run leave the sort's result alone.
LEMMA SortFrame ==
    ASSUME UNCHANGED topoVars
    PROVE  /\ deps' = deps /\ levels' = levels /\ topo' = topo
           /\ \A i : DepsOf(i)' = DepsOf(i)
           /\ \A l : Before(l)' = Before(l)
<1>1. deps' = deps /\ levels' = levels /\ topo' = topo
  BY DEF topoVars
<1> QED
  BY <1>1 DEF DepsOf, Before

LEMMA SortStays == TopoIInv /\ UNCHANGED topoVars => TopoIInv'
BY TopoStepInv

\* The container flag never changes, nor do the sets it decides.
LEMMA FlagFrame ==
    ASSUME place' = place
    PROVE  Skipped' = Skipped /\ Live' = Live
BY DEF Skipped, Live

LEMMA LiveSkipped == Live = Nodes \ Skipped
BY DEF Live, Skipped

\* The nodes before a level, the level and those before the next.
LEMMA BeforeNext ==
    ASSUME NEW l \in Nat \ {0}
    PROVE  Before(l + 1) = Before(l) \cup levels[l]
<1>1. 1 .. (l + 1) - 1 = (1 .. l - 1) \cup {l}
  OBVIOUS
<1> QED
  BY <1>1 DEF Before

LEMMA BeforeFirst == Before(1) = {}
<1>1. 1 .. 1 - 1 = {}
  OBVIOUS
<1> QED
  BY <1>1 DEF Before

\* Levels hold nodes of the plan, and a level is apart from those before it.
LEMMA LevelFacts ==
    ASSUME TopoIInv, NEW l \in Nat \ {0}, l <= Len(levels) + 1
    PROVE  /\ Before(l) \subseteq Nodes
           /\ l <= Len(levels) =>
                  /\ levels[l] \subseteq Nodes
                  /\ levels[l] \cap Before(l) = {}
                  /\ \A i \in levels[l] : DepsOf(i) \subseteq Before(l)
           /\ \A i \in Before(l) : DepsOf(i) \subseteq Before(l)
<1>1. levels \in Seq(SUBSET Nodes)
  BY DEF TopoIInv, TopoTypeOK
<1>2. /\ Len(levels) \in Nat /\ DOMAIN levels = 1 .. Len(levels)
      /\ \A m \in 1 .. Len(levels) : levels[m] \subseteq Nodes
  BY <1>1
<1>3. Before(l) \subseteq Nodes
  <2>1. \A m \in 1 .. l - 1 : levels[m] \subseteq Nodes
    BY <1>2
  <2> QED
    BY <2>1 DEF Before
<1>4. ASSUME NEW m \in 1 .. Len(levels)
      PROVE  /\ levels[m] \cap Before(m) = {}
             /\ \A i \in levels[m] : DepsOf(i) \subseteq Before(m)
  BY <1>2 DEF TopoIInv, LevelsOrdered
<1>5. ASSUME NEW i \in Before(l) PROVE DepsOf(i) \subseteq Before(l)
  <2>1. PICK m \in 1 .. l - 1 : i \in levels[m]
    BY DEF Before
  <2>2. m \in 1 .. Len(levels)
    BY <1>2, <2>1
  <2>3. DepsOf(i) \subseteq Before(m)
    BY <1>4, <2>1, <2>2
  <2>4. 1 .. m - 1 \subseteq 1 .. l - 1
    BY <2>1
  <2>5. Before(m) \subseteq Before(l)
    BY <2>4 DEF Before
  <2> QED
    BY <2>3, <2>5
<1>6. l <= Len(levels) => l \in 1 .. Len(levels)
  BY <1>2
<1> QED
  BY <1>2, <1>3, <1>4, <1>5, <1>6

\* When the levels are exhausted every node has been in one.
LEMMA LevelsExhausted ==
    ASSUME TopoIInv, topo = "ok", lvl \in Nat, lvl = Len(levels) + 1
    PROVE  Before(lvl) = Nodes
<1>1. Closed = Nodes
  BY InvImpliesComplete DEF EveryNodeLevelled
<1>2. Len(levels) \in Nat /\ DOMAIN levels = 1 .. Len(levels)
  BY DEF TopoIInv, TopoTypeOK
<1>3. 1 .. lvl - 1 = DOMAIN levels
  BY <1>2
<1> QED
  BY <1>1, <1>3 DEF Before, Closed

\* A trigger is a dependency.
LEMMA TriggerIsDep ==
    ASSUME deps \in Plans, NEW s \in Nodes
    PROVE  Trigger[s] \subseteq DepsOf(s)
BY TriggerAssumption DEF DepsOf

LEMMA InitInv == Init => IInv
<1> SUFFICES ASSUME Init PROVE IInv
  OBVIOUS
<1> USE DEF Init, RunReset
<1>1. TopoIInv
  BY TopoInitInv DEF TopoInit
<1>2. TypeOK
  <2>1. drift \in SUBSET Nodes
    BY DEF Sensed
  <2>2. st \in [Nodes -> TaskStates]
    BY DEF TaskStates
  <2>3. phase = "topo" /\ lvl = 1 /\ runs = 1
    OBVIOUS
  <2> QED
    BY <1>1, <2>1, <2>2, <2>3 DEF TypeOK, TopoIInv
<1>3. PositionInv
  BY DEF PositionInv
<1>4. TaskInv
  BY DEF TaskInv, OneTaskEach
<1>5. ReportInv
  <2>1. Reported = {} /\ phase = "topo"
    BY DEF Reported
  <2>2. report = {Outcome(i) : i \in Reported}
    BY <2>1
  <2> QED
    BY <2>1, <2>2 DEF ReportInv
<1>6. OrderInv /\ DriftInv /\ StaleInv
  BY DEF OrderInv, DriftInv, StaleInv, Live
<1> QED
  BY <1>1, <1>2, <1>3, <1>4, <1>5, <1>6 DEF IInv, RunConsistent

-----------------------------------------------------------------------------
(* The tasks.                                                              *)

LEMMA TaskFacts ==
    ASSUME IInv, NEW t \in joinset
    PROVE  /\ t \subseteq Nodes /\ t # {} /\ phase \in {"join", "failed"}
           /\ \A i \in t : st[i] \notin {"idle", "reported"} /\ i \notin Skipped
           /\ t \cap Reported = {}
           /\ phase = "join" => t \cap Before(lvl) = {} /\ t \subseteq levels[lvl]
<1>1. t \subseteq Nodes /\ t # {} /\ phase \in {"join", "failed"}
  BY DEF IInv, TypeOK, RunConsistent, TaskInv, PositionInv
<1>2. \A i \in t : st[i] \notin {"idle", "reported"} /\ i \notin Skipped
  BY DEF IInv, RunConsistent, TaskInv
<1>3. t \cap Reported = {}
  BY <1>2 DEF Reported
<1>4. ASSUME phase = "join"
      PROVE  t \cap Before(lvl) = {} /\ t \subseteq levels[lvl]
  BY <1>1, <1>2, <1>4 DEF IInv, RunConsistent, PositionInv
<1> QED
  BY <1>1, <1>2, <1>3, <1>4

\* A task that moves on without being joined disturbs nothing of the run's
\* bookkeeping.
LEMMA TaskMove ==
    ASSUME IInv, NEW t \in joinset,
           NEW a \in {"spawned", "applying"}, InState(t, a),
           NEW b \in {"applying", "ended", "error", "aborted"}, Move(t, b),
           b = "aborted" => phase = "failed",
           b = "applying" => ~DryRun,
           need \subseteq need', need' \subseteq need \cup t,
           UNCHANGED <<topoVars, phase, lvl, joinset, report, reportBefore,
                       changed, place, runMode>>
    PROVE  /\ PositionInv' /\ TaskInv' /\ ReportInv' /\ OrderInv'
           /\ st' \in [Nodes -> TaskStates] /\ need' \in SUBSET Nodes
           /\ \A i \in Nodes : st'[i] = IF i \in t THEN b ELSE st[i]
           /\ \A i \in t : st[i] = a
<1>1. /\ st \in [Nodes -> TaskStates] /\ need \subseteq Nodes
      /\ joinset \in SUBSET (SUBSET Nodes)
      /\ PositionInv /\ TaskInv /\ ReportInv /\ OrderInv
      /\ TopoIInv /\ lvl \in Nat \ {0}
  BY DEF IInv, TypeOK, RunConsistent
<1>2. \A i \in Nodes : st'[i] = IF i \in t THEN b ELSE st[i]
  BY DEF Move
<1>3. \A i \in t : i \in Nodes /\ st[i] = a
  BY TaskFacts DEF InState
<1>4. /\ phase \in {"join", "failed"} /\ t # {}
      /\ t \cap Reported = {} /\ t \cap Skipped = {}
      /\ phase = "join" => t \cap Before(lvl) = {} /\ t \subseteq levels[lvl]
  BY TaskFacts
<1>5. Reported' = Reported
  BY <1>2, <1>3 DEF Reported
<1>6. st' \in [Nodes -> TaskStates] /\ need' \in SUBSET Nodes
  BY <1>1, <1>2, <1>3 DEF Move, TaskStates
<1>7. /\ phase' = phase /\ lvl' = lvl /\ joinset' = joinset /\ report' = report
      /\ reportBefore' = reportBefore /\ changed' = changed
      /\ topo' = topo /\ levels' = levels /\ Skipped' = Skipped
      /\ Before(lvl)' = Before(lvl) /\ \A i : DepsOf(i)' = DepsOf(i)
  BY SortFrame, FlagFrame
<1>8. PositionInv'
  <2>1. ASSUME phase = "join"
        PROVE  /\ Before(lvl) \subseteq Nodes
               /\ levels[lvl] \subseteq Nodes
    BY <1>1, <2>1, LevelFacts DEF PositionInv
  <2> QED
    BY <1>1, <1>2, <1>3, <1>4, <1>7, <2>1 DEF PositionInv
<1>9. TaskInv'
  <2>1. OneTaskEach'
    <3>1. \A i \in Nodes : i \in UNION joinset' <=> i \in UNION joinset
      BY <1>7
    <3>2. \A i \in t : i \in UNION joinset
      OBVIOUS
    <3> QED
      BY <1>1, <1>2, <1>3, <1>7, <3>1, <3>2 DEF TaskInv, OneTaskEach
  <2>2. ASSUME NEW u \in joinset, NEW i \in u, NEW j \in u
        PROVE  st'[i] = st'[j] /\ st'[i] \notin {"idle", "reported"}
    <3>1. u = t \/ u \cap t = {}
      BY <1>1 DEF TaskInv, OneTaskEach
    <3>2. i \in Nodes /\ j \in Nodes
      BY <1>1
    <3>3. st[i] = st[j] /\ st[i] \notin {"idle", "reported"}
      BY <1>1 DEF TaskInv
    <3> QED
      BY <1>2, <3>1, <3>2, <3>3
  <2>3. DryRun' => \A i \in Nodes : st'[i] # "applying"
    BY <1>1, <1>2 DEF TaskInv, DryRun
  <2> QED
    BY <1>1, <1>7, <2>1, <2>2, <2>3 DEF TaskInv
<1>10. ReportInv'
  <2>1. \A i \in Reported : Outcome(i)' = Outcome(i)
    BY <1>4, <1>7 DEF Outcome
  <2>2. report' = {Outcome(i)' : i \in Reported'}
    BY <1>1, <1>5, <1>7, <2>1 DEF ReportInv
  <2>3. phase = "join" => \A i \in Before(lvl) : Outcome(i)' = Outcome(i)
    BY <1>4, <1>7 DEF Outcome
  <2>4. phase' = "join" => reportBefore' = {Outcome(i)' : i \in Before(lvl)'}
    BY <1>1, <1>7, <2>3 DEF ReportInv
  <2>5. need' \cap Skipped' = {}
    BY <1>1, <1>4, <1>7 DEF ReportInv
  <2>6. \A i \in need' : st'[i] \notin {"idle", "spawned"}
    BY <1>1, <1>2, <1>3, <1>6 DEF ReportInv
  <2>7. phase' \in {"level", "join", "ok"} => changed' = need' \cap Before(lvl)'
    BY <1>1, <1>4, <1>7 DEF ReportInv
  <2>8. changed' \subseteq need' \cap Reported'
    BY <1>1, <1>5, <1>7 DEF ReportInv
  <2> QED
    BY <2>2, <2>4, <2>5, <2>6, <2>7, <2>8 DEF ReportInv
<1>11. OrderInv'
  <2> SUFFICES ASSUME NEW i \in Nodes, st'[i] # "idle"
               PROVE  /\ DepsOf(i)' \subseteq Reported'
                      /\ DepsOf(i)' \cap need' \subseteq changed'
    BY DEF OrderInv
  <2>1. st[i] # "idle"
    BY <1>2, <1>3
  <2>2. DepsOf(i) \subseteq Reported /\ DepsOf(i) \cap need \subseteq changed
    BY <1>1, <2>1 DEF OrderInv
  <2> QED
    BY <1>4, <1>5, <1>7, <2>2
<1> QED
  BY <1>2, <1>3, <1>6, <1>8, <1>9, <1>10, <1>11

\* What a task's action leaves of drift and stale, when it lands in part (D)
\* or as a whole.
LEMMA TaskLands ==
    ASSUME IInv, NEW t \in joinset,
           NEW a \in {"spawned", "applying"}, InState(t, a),
           NEW b \in {"ended", "error", "aborted"}, Move(t, b),
           NEW D \in SUBSET (t \cap need), Lands(D),
           a = "spawned" => D = {},
           b = "ended" => a = "applying" /\ D = t \cap need,
           need' = need,
           UNCHANGED <<topoVars, phase, place, runMode, failures>>,
           \A i \in Nodes : st'[i] = IF i \in t THEN b ELSE st[i],
           \A i \in t : st[i] = a,
           DryRun => D = {}
    PROVE  DriftInv' /\ StaleInv'
<1>1. /\ drift' = drift \ D
      /\ stale' = (stale \ D) \cup {s \in Nodes : Trigger[s] \cap D # {}}
      /\ phase' = phase /\ (DryRun' <=> DryRun) /\ failures' = failures
      /\ Live' = Live
  BY FlagFrame DEF Lands, DryRun
<1>2. /\ DriftInv /\ StaleInv /\ OrderInv
      /\ need \subseteq Nodes /\ t \subseteq Nodes /\ deps \in Plans
      /\ \A i \in need : st[i] \notin {"idle", "spawned"}
      /\ phase \in {"join", "failed"}
  BY TaskFacts DEF IInv, TypeOK, TopoTypeOK, RunConsistent, ReportInv
<1>3. Live \subseteq Nodes
  BY DEF Live
<1>4. DriftInv'
  <2>1. drift' \subseteq Sensed
    BY <1>1, <1>2 DEF DriftInv
  <2>2. ASSUME ~DryRun, NEW i \in Live \cap drift'
        PROVE  /\ st'[i] \notin {"ended", "reported"}
               /\ st'[i] = "applying" => i \in need
    <3>1. i \in Nodes /\ i \in drift /\ i \notin D
      BY <1>1, <1>3
    <3>2. st[i] \notin {"ended", "reported"} /\ (st[i] = "applying" => i \in need)
      BY <1>2, <2>2, <3>1 DEF DriftInv
    <3> QED
      BY <3>1, <3>2
  <2> QED
    BY <1>1, <2>1, <2>2 DEF DriftInv
<1>5. StaleInv'
  <2> SUFFICES ASSUME failures = 0
               PROVE  /\ DryRun => stale' \cap Live = {}
                      /\ \A s \in stale' \cap Live :
                             /\ \E d \in Trigger[s] \cap need :
                                    st'[d] \notin {"idle", "spawned", "applying"}
                             /\ st'[s] \notin {"ended", "reported"}
                             /\ st'[s] = "applying" => s \in need
    BY <1>1, <1>2 DEF StaleInv
  <2>1. DryRun => stale' \cap Live = {}
    BY <1>1, <1>2 DEF StaleInv
  <2>2. ASSUME NEW s \in stale' \cap Live, Trigger[s] \cap D # {}
        PROVE  /\ \E d \in Trigger[s] \cap need :
                      st'[d] \notin {"idle", "spawned", "applying"}
               /\ st'[s] = "idle"
    <3>1. PICK d \in Trigger[s] : d \in D
      BY <2>2
    <3>2. d \in t /\ d \in need /\ d \in Nodes /\ a = "applying"
      BY <1>2, <3>1
    <3>3. st'[d] = b
      BY <3>2
    <3>4. d \in DepsOf(s) /\ s \in Nodes
      BY <1>2, <1>3, <3>1, TriggerIsDep
    <3>5. d \notin Reported
      BY <3>2 DEF Reported
    <3>6. st[s] = "idle"
      BY <1>2, <3>4, <3>5 DEF OrderInv
    <3>7. s \notin t
      BY <3>2, <3>6
    <3> QED
      BY <3>1, <3>2, <3>3, <3>4, <3>6, <3>7
  <2>3. ASSUME NEW s \in stale' \cap Live, Trigger[s] \cap D = {}
        PROVE  /\ \E d \in Trigger[s] \cap need :
                      st'[d] \notin {"idle", "spawned", "applying"}
               /\ st'[s] \notin {"ended", "reported"}
               /\ st'[s] = "applying" => s \in need
    <3>1. s \in stale /\ s \notin D /\ s \in Nodes
      BY <1>1, <1>3, <2>3
    <3>2. PICK d \in Trigger[s] \cap need : st[d] \notin {"idle", "spawned", "applying"}
      BY <1>2, <3>1 DEF StaleInv
    <3>3. st'[d] \notin {"idle", "spawned", "applying"}
      BY <1>2, <3>2
    <3>4. st[s] \notin {"ended", "reported"} /\ (st[s] = "applying" => s \in need)
      BY <1>2, <3>1 DEF StaleInv
    <3> QED
      BY <3>1, <3>2, <3>3, <3>4
  <2> QED
    BY <2>1, <2>2, <2>3
<1> QED
  BY <1>4, <1>5

LEMMA SenseInv == ASSUME NEW t \in joinset PROVE IInv /\ Sense(t) => IInv'
<1> SUFFICES ASSUME IInv, Sense(t) PROVE IInv'
  OBVIOUS
<1> DEFINE b == IF MustAct(t) THEN "applying" ELSE "ended"
<1>1. /\ InState(t, "spawned") /\ Move(t, b)
      /\ need' = need \cup {i \in t : Needs(i)}
      /\ UNCHANGED <<topoVars, phase, lvl, joinset, report, reportBefore,
                     changed, hostVars, envVars>>
  BY DEF Sense
<1>2. /\ drift' = drift /\ stale' = stale /\ phase' = phase /\ place' = place
      /\ runMode' = runMode /\ failures' = failures /\ runs' = runs
      /\ UNCHANGED topoVars
  BY <1>1 DEF hostVars, envVars
<1>3. /\ PositionInv' /\ TaskInv' /\ ReportInv' /\ OrderInv'
      /\ st' \in [Nodes -> TaskStates] /\ need' \in SUBSET Nodes
      /\ \A i \in Nodes : st'[i] = IF i \in t THEN b ELSE st[i]
      /\ \A i \in t : st[i] = "spawned"
  BY <1>1, <1>2, TaskMove DEF MustAct
<1>4. TopoIInv' /\ TypeOK'
  BY <1>1, <1>2, <1>3, SortStays DEF IInv, TypeOK, TopoIInv
<1>5. /\ (DryRun' <=> DryRun) /\ Live' = Live /\ Live \subseteq Nodes
      /\ t \subseteq Nodes /\ deps \in Plans
      /\ DriftInv /\ StaleInv /\ OrderInv
      /\ phase \in {"join", "failed"}
  BY <1>2, FlagFrame, TaskFacts DEF DryRun, Live, IInv, TypeOK, TopoTypeOK,
                                    RunConsistent
<1>6. DriftInv'
  <2> SUFFICES ASSUME ~DryRun, NEW i \in Live \cap drift
               PROVE  /\ st'[i] \notin {"ended", "reported"}
                      /\ st'[i] = "applying" => i \in need'
    BY <1>2, <1>5 DEF DriftInv
  <2>1. i \in Nodes /\ i \in Sensed
    BY <1>5 DEF DriftInv
  <2>2. CASE i \in t
    <3>1. Needs(i)
      BY <2>1 DEF Needs, Sensed
    <3>2. MustAct(t)
      BY <2>2, <3>1 DEF MustAct
    <3> QED
      BY <1>1, <1>3, <2>1, <2>2, <3>1, <3>2
  <2>3. CASE i \notin t
    <3>1. st'[i] = st[i]
      BY <1>3, <2>1, <2>3
    <3> QED
      BY <1>1, <1>5, <3>1 DEF DriftInv
  <2> QED
    BY <2>2, <2>3
<1>7. StaleInv'
  <2> SUFFICES ASSUME failures = 0
               PROVE  /\ DryRun => stale \cap Live = {}
                      /\ \A s \in stale \cap Live :
                             /\ \E d \in Trigger[s] \cap need' :
                                    st'[d] \notin {"idle", "spawned", "applying"}
                             /\ st'[s] \notin {"ended", "reported"}
                             /\ st'[s] = "applying" => s \in need'
    BY <1>2, <1>5 DEF StaleInv
  <2>1. DryRun => stale \cap Live = {}
    BY <1>5 DEF StaleInv
  <2>2. ASSUME NEW s \in stale \cap Live
        PROVE  /\ \E d \in Trigger[s] \cap need' :
                      st'[d] \notin {"idle", "spawned", "applying"}
               /\ st'[s] \notin {"ended", "reported"}
               /\ st'[s] = "applying" => s \in need'
    <3>1. s \in Nodes
      BY <1>5
    <3>2. PICK d \in Trigger[s] \cap need : st[d] \notin {"idle", "spawned", "applying"}
      BY <1>5 DEF StaleInv
    <3>3. d \in DepsOf(s) /\ d \in Nodes /\ d \notin t
      BY <1>3, <1>5, <3>1, <3>2, TriggerIsDep DEF IInv, TypeOK
    <3>4. d \in need' /\ st'[d] \notin {"idle", "spawned", "applying"}
      BY <1>1, <1>3, <3>2, <3>3
    <3>5. CASE s \in t
      <4>1. d \in changed
        BY <1>3, <1>5, <3>1, <3>2, <3>3, <3>5 DEF OrderInv
      <4>2. Triggered(s) /\ Kind[s] \in {"service", "handler"}
        BY <3>1, <3>2, <4>1, TriggerAssumption DEF Triggered
      <4>3. Needs(s) /\ MustAct(t)
        BY <2>1, <3>5, <4>2 DEF Needs, MustAct
      <4> QED
        BY <1>1, <1>3, <3>1, <3>2, <3>4, <3>5, <4>3
    <3>6. CASE s \notin t
      <4>1. st'[s] = st[s]
        BY <1>3, <3>1, <3>6
      <4> QED
        BY <1>1, <1>5, <3>2, <3>4, <4>1 DEF StaleInv
    <3> QED
      BY <3>5, <3>6
  <2> QED
    BY <2>1, <2>2
<1> QED
  BY <1>3, <1>4, <1>6, <1>7 DEF IInv, RunConsistent

\* In a dry run no task gets as far as acting.
LEMMA DryTasksEnd ==
    ASSUME IInv, DryRun, NEW t \in joinset, InState(t, "applying")
    PROVE  FALSE
BY TaskFacts DEF IInv, RunConsistent, TaskInv, InState

\* Apply, TaskFails and Abort: a task acts, as a whole or in part.
LEMMA ActInv ==
    ASSUME IInv, NEW t \in joinset,
           NEW a \in {"spawned", "applying"}, InState(t, a),
           NEW b \in {"ended", "error", "aborted"}, Move(t, b),
           NEW D \in SUBSET (t \cap need), Lands(D),
           a = "spawned" => D = {},
           b = "ended" => a = "applying" /\ D = t \cap need,
           b = "aborted" => phase = "failed",
           UNCHANGED <<topoVars, phase, lvl, joinset, need, report,
                       reportBefore, changed, envVars>>
    PROVE  IInv'
<1>1. /\ phase' = phase /\ lvl' = lvl /\ joinset' = joinset /\ need' = need
      /\ report' = report /\ reportBefore' = reportBefore /\ changed' = changed
      /\ place' = place /\ runMode' = runMode /\ failures' = failures
      /\ runs' = runs /\ UNCHANGED topoVars
  BY DEF envVars
<1>2. /\ PositionInv' /\ TaskInv' /\ ReportInv' /\ OrderInv'
      /\ st' \in [Nodes -> TaskStates] /\ need' \in SUBSET Nodes
      /\ \A i \in Nodes : st'[i] = IF i \in t THEN b ELSE st[i]
      /\ \A i \in t : st[i] = a
  BY <1>1, TaskMove
<1>3. DryRun => D = {}
  BY DryTasksEnd
<1>4. DriftInv' /\ StaleInv'
  BY <1>1, <1>2, <1>3, TaskLands
<1>5. drift' \in SUBSET Nodes /\ stale' \in SUBSET Nodes
  BY DEF Lands, IInv, TypeOK
<1>6. TopoIInv' /\ TypeOK'
  BY <1>1, <1>2, <1>5, SortStays DEF IInv, TypeOK, TopoIInv
<1> QED
  BY <1>2, <1>4, <1>6 DEF IInv, RunConsistent

LEMMA TasksActInv ==
    ASSUME NEW t \in joinset
    PROVE  IInv /\ (Apply(t) \/ TaskFails(t) \/ Abort(t)) => IInv'
<1> SUFFICES ASSUME IInv, Apply(t) \/ TaskFails(t) \/ Abort(t) PROVE IInv'
  OBVIOUS
<1>1. UNCHANGED hostVars => Lands({})
  <2>1. stale \in SUBSET Nodes
    BY DEF IInv, TypeOK
  <2> QED
    BY <2>1 DEF hostVars, Lands
<1>2. CASE Apply(t)
  BY <1>2, ActInv DEF Apply
<1>3. CASE TaskFails(t)
  <2>1. CASE InState(t, "spawned") /\ UNCHANGED hostVars
    BY <1>1, <1>3, <2>1, ActInv DEF TaskFails
  <2>2. CASE InState(t, "applying") /\ \E D \in SUBSET (t \cap need) : Lands(D)
    BY <1>3, <2>2, ActInv DEF TaskFails
  <2> QED
    BY <1>3, <2>1, <2>2 DEF TaskFails
<1>4. CASE Abort(t)
  <2>1. CASE InState(t, "spawned") /\ UNCHANGED hostVars
    BY <1>1, <1>4, <2>1, ActInv DEF Abort
  <2>2. CASE InState(t, "applying") /\ \E D \in SUBSET (t \cap need) : Lands(D)
    BY <1>4, <2>2, ActInv DEF Abort
  <2> QED
    BY <1>4, <2>1, <2>2 DEF Abort
<1> QED
  BY <1>2, <1>3, <1>4

-----------------------------------------------------------------------------
(* The steps of run() itself.                                              *)

\* Steps that touch neither the futures nor the host.
LEMMA HostFrame ==
    ASSUME IInv, phase' # "topo" \/ phase = "topo",
           UNCHANGED <<st, need, drift, stale, runMode, place, failures>>
    PROVE  DriftInv' /\ StaleInv'
<1>1. Live' = Live /\ (DryRun' <=> DryRun)
  BY FlagFrame DEF DryRun
<1> QED
  BY <1>1 DEF IInv, RunConsistent, DriftInv, StaleInv

\* ... nor the report.
LEMMA BookFrame ==
    ASSUME IInv, UNCHANGED <<topoVars, joinset, st, need, report, runMode, place>>,
           changed \subseteq changed'
    PROVE  /\ OrderInv' /\ TaskInv'
           /\ Reported' = Reported /\ Skipped' = Skipped
           /\ \A i : Outcome(i)' = Outcome(i)
           /\ \A i : DepsOf(i)' = DepsOf(i)
           /\ \A l : Before(l)' = Before(l)
           /\ levels' = levels /\ topo' = topo
<1>1. /\ Reported' = Reported /\ Skipped' = Skipped
      /\ \A i : DepsOf(i)' = DepsOf(i)
      /\ \A l : Before(l)' = Before(l)
      /\ levels' = levels /\ topo' = topo
  BY SortFrame, FlagFrame DEF Reported
<1>2. \A i : Outcome(i)' = Outcome(i)
  BY <1>1 DEF Outcome
<1>3. OrderInv'
  BY <1>1 DEF IInv, RunConsistent, OrderInv
<1>4. TaskInv'
  BY <1>1 DEF IInv, RunConsistent, TaskInv, OneTaskEach, DryRun
<1> QED
  BY <1>1, <1>2, <1>3, <1>4

LEMMA TopoStepRunInv == IInv /\ TopoStep => IInv'
<1> SUFFICES ASSUME IInv, TopoStep PROVE IInv'
  OBVIOUS
<1>1. /\ phase = "topo" /\ TopoNext /\ UNCHANGED <<runVars, hostVars, envVars>>
      /\ deps' = deps
  BY DEF TopoStep, TopoNext, ScanNode, UnknownDep, StartPeel, Visit, CloseLevel,
         Levelled, CycleFound
<1>2. /\ phase' = phase /\ lvl' = lvl /\ joinset' = joinset /\ st' = st
      /\ need' = need /\ report' = report /\ reportBefore' = reportBefore
      /\ changed' = changed /\ drift' = drift /\ stale' = stale
      /\ runMode' = runMode /\ place' = place /\ runs' = runs
      /\ failures' = failures
  BY <1>1 DEF runVars, hostVars, envVars
<1>3. TopoIInv'
  BY <1>1, TopoStepInv DEF IInv
<1>4. TypeOK'
  BY <1>2, <1>3 DEF IInv, TypeOK, TopoIInv
<1>5. PositionInv'
  BY <1>1, <1>2 DEF IInv, RunConsistent, PositionInv
<1>6. TaskInv'
  BY <1>2, FlagFrame DEF IInv, RunConsistent, TaskInv, OneTaskEach, DryRun
<1>7. /\ Reported = {} /\ Reported' = {} /\ report = {} /\ need = {} /\ changed = {}
      /\ \A i \in Nodes : st[i] = "idle"
  BY <1>1, <1>2 DEF IInv, RunConsistent, PositionInv, Reported
<1>8. ReportInv'
  <2>1. report' = {Outcome(i)' : i \in Reported'}
    BY <1>2, <1>7
  <2> QED
    BY <1>1, <1>2, <1>7, <2>1 DEF ReportInv
<1>9. OrderInv'
  BY <1>2, <1>7 DEF OrderInv
<1>10. DriftInv' /\ StaleInv'
  BY <1>1, <1>2, HostFrame
<1> QED
  BY <1>3, <1>4, <1>5, <1>6, <1>8, <1>9, <1>10 DEF IInv, RunConsistent

\* StartLevels, RejectPlan, JoinError and Finish change phase alone.
LEMMA PhaseStepInv ==
    IInv /\ (StartLevels \/ RejectPlan \/ (\E t \in joinset : JoinError(t)) \/ Finish)
        => IInv'
<1> SUFFICES ASSUME IInv,
                    \/ StartLevels
                    \/ RejectPlan
                    \/ \E t \in joinset : JoinError(t)
                    \/ Finish
             PROVE  IInv'
  OBVIOUS
<1>1. UNCHANGED <<topoVars, lvl, joinset, st, need, report, reportBefore,
                  changed, hostVars, envVars>>
  BY DEF StartLevels, RejectPlan, JoinError, Finish
<1>2. /\ lvl' = lvl /\ joinset' = joinset /\ st' = st
      /\ need' = need /\ report' = report /\ reportBefore' = reportBefore
      /\ changed' = changed /\ drift' = drift /\ stale' = stale
      /\ runMode' = runMode /\ place' = place /\ runs' = runs
      /\ failures' = failures /\ UNCHANGED topoVars
  BY <1>1 DEF hostVars, envVars
<1>3. \/ phase = "topo" /\ topo = "ok" /\ phase' = "level"
      \/ phase' = "failed"
      \/ phase = "level" /\ phase' = "ok" /\ lvl > Len(levels)
  BY DEF StartLevels, RejectPlan, JoinError, Finish
<1>4. TopoIInv' /\ TypeOK'
  BY <1>2, <1>3, SortStays DEF IInv, TypeOK, TopoIInv
<1>5. /\ OrderInv' /\ TaskInv'
      /\ Reported' = Reported /\ Skipped' = Skipped
      /\ \A i : Outcome(i)' = Outcome(i)
      /\ \A l : Before(l)' = Before(l)
      /\ levels' = levels /\ topo' = topo
  BY <1>2, BookFrame
<1>6. PositionInv'
  <2>1. CASE phase = "topo" /\ topo = "ok" /\ phase' = "level"
    <3>1. Before(lvl) = {} /\ lvl = 1 /\ Len(levels) \in Nat
      BY <2>1, BeforeFirst DEF IInv, RunConsistent, PositionInv, TopoIInv, TopoTypeOK
    <3> QED
      BY <1>2, <1>5, <2>1, <3>1 DEF IInv, RunConsistent, PositionInv
  <2>2. CASE phase' = "failed"
    BY <2>2 DEF PositionInv
  <2>3. CASE phase = "level" /\ phase' = "ok" /\ lvl > Len(levels)
    BY <1>2, <1>5, <2>3 DEF IInv, RunConsistent, PositionInv
  <2> QED
    BY <1>3, <2>1, <2>2, <2>3
<1>7. ReportInv'
  <2>1. report' = {Outcome(i)' : i \in Reported'}
    BY <1>2, <1>5 DEF IInv, RunConsistent, ReportInv
  <2>2. phase' \in {"level", "ok"} => changed' = need' \cap Before(lvl)'
    <3>1. phase = "topo" => need = {} /\ changed = {}
      BY DEF IInv, RunConsistent, PositionInv
    <3> QED
      BY <1>2, <1>3, <1>5, <3>1 DEF IInv, RunConsistent, ReportInv
  <2> QED
    BY <1>2, <1>3, <1>5, <2>1, <2>2 DEF IInv, RunConsistent, ReportInv
<1>8. DriftInv' /\ StaleInv'
  BY <1>2, <1>3, HostFrame
<1> QED
  BY <1>4, <1>5, <1>6, <1>7, <1>8 DEF IInv, RunConsistent

LEMMA EndLevelInv == IInv /\ EndLevel => IInv'
<1> SUFFICES ASSUME IInv, EndLevel PROVE IInv'
  OBVIOUS
<1>1. /\ phase = "join" /\ joinset = {} /\ lvl' = lvl + 1 /\ phase' = "level"
      /\ changed' = changed \cup {o.id : o \in FreshChanges}
      /\ joinset' = joinset /\ st' = st
      /\ need' = need /\ report' = report /\ reportBefore' = reportBefore
      /\ drift' = drift /\ stale' = stale
      /\ runMode' = runMode /\ place' = place /\ runs' = runs
      /\ failures' = failures /\ UNCHANGED topoVars
  BY DEF EndLevel, Drained, hostVars, envVars
<1>2. /\ lvl \in Nat \ {0} /\ lvl <= Len(levels) /\ Len(levels) \in Nat
      /\ PositionInv /\ TaskInv /\ ReportInv /\ TopoIInv
      /\ need \subseteq Nodes /\ st \in [Nodes -> TaskStates]
      /\ topo = "ok"
  BY <1>1 DEF IInv, TypeOK, RunConsistent, PositionInv, TopoTypeOK
<1>3. /\ Before(lvl + 1) = Before(lvl) \cup levels[lvl]
      /\ Before(lvl) \subseteq Nodes /\ levels[lvl] \subseteq Nodes
  BY <1>2, BeforeNext, LevelFacts
<1>4. \A i \in Nodes :
          st[i] = IF i \in Before(lvl) \cup levels[lvl] THEN "reported" ELSE "idle"
  <2>1. ASSUME NEW i \in levels[lvl] PROVE st[i] = "reported"
    <3>1. st[i] \notin {"idle", "aborted"} /\ i \in Nodes
      BY <1>1, <1>2, <1>3 DEF PositionInv
    <3>2. st[i] \notin {"spawned", "applying", "ended", "error"}
      BY <1>1, <1>2, <3>1 DEF TaskInv, OneTaskEach
    <3> QED
      BY <1>2, <3>1, <3>2 DEF TaskStates
  <2> QED
    BY <1>1, <1>2, <2>1 DEF PositionInv
<1>5. Reported = Before(lvl + 1)
  BY <1>3, <1>4 DEF Reported
<1>6. {o.id : o \in FreshChanges} = need \cap levels[lvl]
  <2>1. FreshChanges = {o \in {Outcome(i) : i \in Before(lvl + 1)}
                             \ {Outcome(i) : i \in Before(lvl)} : o.changed = "Yes"}
    BY <1>1, <1>2, <1>5 DEF FreshChanges, ReportInv
  <2>2. \A i, j \in Nodes : Outcome(i) = Outcome(j) => i = j
    BY DEF Outcome
  <2>3. \A i \in Nodes : /\ Outcome(i).id = i
                         /\ Outcome(i).changed = "Yes" <=> i \in need
    BY <1>2 DEF Outcome, ReportInv
  <2>4. levels[lvl] \cap Before(lvl) = {}
    BY <1>2, LevelFacts
  <2>5. ASSUME NEW o \in FreshChanges PROVE o.id \in need \cap levels[lvl]
    <3>1. PICK i \in Before(lvl + 1) : o = Outcome(i)
      BY <2>1
    <3>2. i \notin Before(lvl) /\ o.changed = "Yes"
      BY <2>1, <3>1
    <3> QED
      BY <1>3, <2>3, <3>1, <3>2
  <2>6. ASSUME NEW i \in need \cap levels[lvl]
        PROVE  \E o \in FreshChanges : i = o.id
    <3>1. Outcome(i) \in {Outcome(j) : j \in Before(lvl + 1)}
      BY <1>3
    <3>2. Outcome(i) \notin {Outcome(j) : j \in Before(lvl)}
      BY <1>3, <2>2, <2>4
    <3> QED
      BY <1>3, <2>1, <2>3, <3>1, <3>2
  <2> QED
    BY <2>5, <2>6
<1>7. changed = need \cap Before(lvl) /\ changed' = need \cap Before(lvl + 1)
  BY <1>1, <1>2, <1>3, <1>6 DEF ReportInv
<1>8. /\ OrderInv' /\ TaskInv'
      /\ Reported' = Reported /\ Skipped' = Skipped
      /\ \A i : Outcome(i)' = Outcome(i)
      /\ \A l : Before(l)' = Before(l)
      /\ levels' = levels /\ topo' = topo
  BY <1>1, BookFrame
<1>9. Before(lvl)' = Before(lvl + 1)
  <2>1. Before(lvl)' = UNION {levels'[m] : m \in 1 .. lvl' - 1}
    BY DEF Before
  <2> QED
    BY <1>1, <1>8, <2>1 DEF Before
<1>10. TopoIInv' /\ TypeOK'
  <2>1. changed' \in SUBSET Nodes
    BY <1>2, <1>7
  <2> QED
    BY <1>1, <1>2, <2>1, SortStays DEF IInv, TypeOK, TopoIInv
<1>11. PositionInv'
  BY <1>1, <1>2, <1>3, <1>4, <1>8, <1>9 DEF PositionInv
<1>12. ReportInv'
  BY <1>1, <1>2, <1>5, <1>7, <1>8, <1>9 DEF ReportInv
<1>13. DriftInv' /\ StaleInv'
  BY <1>1, HostFrame
<1> QED
  BY <1>8, <1>10, <1>11, <1>12, <1>13 DEF IInv, RunConsistent

\* The tasks of a level are a partition of what it does not skip.
LEMMA TasksPartition ==
    ASSUME NEW L \in SUBSET Nodes
    PROVE  /\ \A t \in Tasks(L) : t # {} /\ t \subseteq L \ Skipped
           /\ \A t, u \in Tasks(L) : t # u => t \cap u = {}
           /\ UNION Tasks(L) = L \ Skipped
<1>1. ASSUME NEW t \in Tasks(L)
      PROVE  /\ t # {} /\ t \subseteq L \ Skipped
             /\ \/ \E f \in Batchers : t = {i \in L \ Skipped : Family[i] = f}
                \/ \E i \in L \ Skipped : t = {i} /\ Family[i] \notin Batchers
  BY DEF Tasks, Batch
<1>2. ASSUME NEW t \in Tasks(L), NEW u \in Tasks(L), NEW x \in t, x \in u
      PROVE  t = u
  <2>1. CASE Family[x] \in Batchers
    <3>1. ASSUME NEW v \in Tasks(L), x \in v
          PROVE  v = {i \in L \ Skipped : Family[i] = Family[x]}
      <4>1. \A i \in L \ Skipped : v = {i} /\ Family[i] \notin Batchers => FALSE
        BY <2>1, <3>1
      <4>2. PICK f \in Batchers : v = {i \in L \ Skipped : Family[i] = f}
        BY <1>1, <4>1
      <4>3. Family[x] = f
        BY <3>1, <4>2
      <4> QED
        BY <4>2, <4>3
    <3> QED
      BY <1>2, <3>1
  <2>2. CASE Family[x] \notin Batchers
    <3>1. ASSUME NEW v \in Tasks(L), x \in v PROVE v = {x}
      <4>1. ASSUME NEW f \in Batchers PROVE v # {i \in L \ Skipped : Family[i] = f}
        BY <2>2, <3>1, <4>1
      <4>2. PICK j \in L \ Skipped : v = {j}
        BY <1>1, <4>1
      <4> QED
        BY <3>1, <4>2
    <3> QED
      BY <1>2, <3>1
  <2> QED
    BY <2>1, <2>2
<1>3. ASSUME NEW i \in L \ Skipped PROVE \E t \in Tasks(L) : i \in t
  <2>1. CASE Family[i] \in Batchers
    <3>1. i \in Batch(L, Family[i])
      BY DEF Batch
    <3> QED
      BY <2>1, <3>1 DEF Tasks
  <2>2. CASE Family[i] \notin Batchers
    <3>1. {i} \in Tasks(L)
      BY <2>2 DEF Tasks
    <3> QED
      BY <3>1
  <2> QED
    BY <2>1, <2>2
<1>4. UNION Tasks(L) = L \ Skipped
  BY <1>1, <1>3
<1> QED
  BY <1>1, <1>2, <1>4

LEMMA DispatchInv == IInv /\ DispatchLevel => IInv'
<1> SUFFICES ASSUME IInv, DispatchLevel PROVE IInv'
  OBVIOUS
<1> DEFINE L == levels[lvl]
<1>1. /\ phase = "level" /\ phase' = "join" /\ lvl' = lvl /\ lvl <= Len(levels)
      /\ report' = report \cup SkipOutcomes(L) /\ reportBefore' = report
      /\ joinset' = Tasks(L)
      /\ st' = [i \in Nodes |-> IF i \in L \cap Skipped THEN "reported"
                                ELSE IF i \in L THEN "spawned" ELSE st[i]]
      /\ need' = need /\ changed' = changed
      /\ drift' = drift /\ stale' = stale
      /\ runMode' = runMode /\ place' = place /\ runs' = runs
      /\ failures' = failures /\ UNCHANGED topoVars
  BY DEF DispatchLevel, hostVars, envVars
<1>2. /\ lvl \in Nat \ {0} /\ Len(levels) \in Nat
      /\ PositionInv /\ TaskInv /\ ReportInv /\ TopoIInv /\ OrderInv
      /\ DriftInv /\ StaleInv
      /\ need \subseteq Nodes /\ st \in [Nodes -> TaskStates]
      /\ topo = "ok" /\ deps \in Plans
      /\ \A i \in Before(lvl) : st[i] = "reported"
      /\ \A i \in Nodes \ Before(lvl) : st[i] = "idle"
  BY <1>1 DEF IInv, TypeOK, RunConsistent, PositionInv, TopoTypeOK
<1>3. /\ Before(lvl) \subseteq Nodes /\ L \subseteq Nodes
      /\ L \cap Before(lvl) = {}
      /\ \A i \in L : DepsOf(i) \subseteq Before(lvl)
      /\ \A i \in Before(lvl) : DepsOf(i) \subseteq Before(lvl)
  BY <1>1, <1>2, LevelFacts
<1> HIDE DEF L
<1>4. /\ levels' = levels /\ topo' = topo
      /\ \A i : DepsOf(i)' = DepsOf(i)
      /\ \A l : Before(l)' = Before(l)
      /\ Skipped' = Skipped /\ Live' = Live
  BY <1>1, SortFrame, FlagFrame
<1>5. /\ Before(lvl)' = Before(lvl) /\ levels'[lvl'] = L
  <2>1. Before(lvl)' = UNION {levels'[m] : m \in 1 .. lvl' - 1}
    BY DEF Before
  <2> QED
    BY <1>1, <1>4, <2>1 DEF Before, L
<1>6. /\ \A t \in Tasks(L) : t # {} /\ t \subseteq L \ Skipped
      /\ \A t, u \in Tasks(L) : t # u => t \cap u = {}
      /\ UNION Tasks(L) = L \ Skipped
  BY <1>3, TasksPartition
<1>7. \A i \in Nodes :
          st'[i] = IF i \in L \cap Skipped THEN "reported"
                   ELSE IF i \in L THEN "spawned" ELSE st[i]
  BY <1>1
<1>8. Reported = Before(lvl) /\ Reported' = Before(lvl) \cup (L \cap Skipped)
  BY <1>2, <1>3, <1>7 DEF Reported
<1>9. SkipOutcomes(L) \subseteq [id : Nodes, changed : {"Yes", "No", "Skipped"}]
  BY <1>3 DEF SkipOutcomes
<1>10. TopoIInv' /\ TypeOK'
  <2>1. st' \in [Nodes -> TaskStates]
    BY <1>1, <1>2 DEF TaskStates
  <2>2. joinset' \in SUBSET (SUBSET Nodes)
    BY <1>1, <1>3, <1>6
  <2> QED
    BY <1>1, <1>9, <2>1, <2>2, SortStays DEF IInv, TypeOK, TopoIInv
<1>11. PositionInv'
  BY <1>1, <1>2, <1>3, <1>4, <1>5, <1>7 DEF PositionInv
<1>12. TaskInv'
  <2>1. \A i \in UNION Tasks(L) : i \in Nodes /\ st'[i] = "spawned"
    BY <1>3, <1>6, <1>7
  <2>2. \A i \in Nodes \ UNION Tasks(L) : st'[i] \in {"idle", "reported"}
    BY <1>2, <1>6, <1>7
  <2>3. OneTaskEach'
    BY <1>1, <1>6, <2>1, <2>2 DEF OneTaskEach
  <2>4. \A t \in joinset' : t # {} /\ t \cap Skipped' = {}
    BY <1>1, <1>4, <1>6
  <2>5. \A t \in joinset' : \A i \in t : st'[i] = "spawned"
    BY <1>1, <2>1
  <2>6. \A i \in Nodes : st'[i] # "applying"
    BY <2>1, <2>2
  <2> QED
    BY <2>3, <2>4, <2>5, <2>6 DEF TaskInv
<1>13. ReportInv'
  <2>1. \A i : Outcome(i)' = Outcome(i)
    BY <1>1, <1>4 DEF Outcome
  <2>2. SkipOutcomes(L) = {Outcome(i) : i \in L \cap Skipped}
    BY DEF SkipOutcomes, Outcome
  <2>3. report = {Outcome(i) : i \in Before(lvl)}
    BY <1>2, <1>8 DEF ReportInv
  <2>4. report' = {Outcome(i) : i \in Reported'}
    BY <1>1, <1>8, <2>2, <2>3
  <2>5. report' = {Outcome(i)' : i \in Reported'}
    BY <2>1, <2>4
  <2>6. reportBefore' = {Outcome(i)' : i \in Before(lvl)'}
    BY <1>1, <1>5, <2>1, <2>3
  <2>7. need \subseteq Before(lvl) /\ need \cap Skipped = {} /\ changed = need \cap Before(lvl)
    BY <1>1, <1>2 DEF ReportInv
  <2>8. \A i \in need' : st'[i] \notin {"idle", "spawned"}
    BY <1>1, <1>2, <1>3, <1>7, <2>7
  <2> QED
    BY <1>1, <1>4, <1>5, <1>8, <2>5, <2>6, <2>7, <2>8 DEF ReportInv
<1>14. OrderInv'
  <2>1. changed = need \cap Before(lvl)
    BY <1>1, <1>2 DEF ReportInv
  <2> SUFFICES ASSUME NEW i \in Nodes, st'[i] # "idle"
               PROVE  DepsOf(i) \subseteq Before(lvl)
    BY <1>1, <1>4, <1>8, <2>1 DEF OrderInv
  <2> QED
    BY <1>2, <1>3, <1>7
<1>15. DriftInv'
  <2>1. \A i \in Live : i \notin Skipped
    BY LiveSkipped
  <2> QED
    BY <1>1, <1>2, <1>4, <1>7, <2>1 DEF DriftInv, DryRun, Live
<1>16. StaleInv'
  <2> SUFFICES ASSUME failures = 0
               PROVE  /\ DryRun => stale \cap Live = {}
                      /\ \A s \in stale \cap Live :
                             /\ \E d \in Trigger[s] \cap need :
                                    st'[d] \notin {"idle", "spawned", "applying"}
                             /\ st'[s] \notin {"ended", "reported"}
                             /\ st'[s] = "applying" => s \in need
    BY <1>1, <1>4 DEF StaleInv, DryRun
  <2>1. DryRun => stale \cap Live = {}
    BY <1>2 DEF StaleInv
  <2>2. ASSUME NEW s \in stale \cap Live
        PROVE  /\ \E d \in Trigger[s] \cap need :
                      st'[d] \notin {"idle", "spawned", "applying"}
               /\ st'[s] \notin {"ended", "reported"}
               /\ st'[s] = "applying" => s \in need
    <3>1. s \in Nodes /\ s \notin Skipped
      BY LiveSkipped
    <3>2. PICK d \in Trigger[s] \cap need : st[d] \notin {"idle", "spawned", "applying"}
      BY <1>2 DEF StaleInv
    <3>3. d \in Nodes /\ d \in Before(lvl) /\ d \notin L
      BY <1>2, <1>3, <3>2
    <3>4. st'[d] = st[d]
      BY <1>7, <3>3
    <3>5. st[s] \notin {"ended", "reported"} /\ (st[s] = "applying" => s \in need)
      BY <1>2 DEF StaleInv
    <3> QED
      BY <1>7, <3>1, <3>2, <3>4, <3>5
  <2> QED
    BY <2>1, <2>2
<1> QED
  BY <1>10, <1>11, <1>12, <1>13, <1>14, <1>15, <1>16 DEF IInv, RunConsistent

LEMMA JoinTaskInv == ASSUME NEW t \in joinset PROVE IInv /\ JoinTask(t) => IInv'
<1> SUFFICES ASSUME IInv, JoinTask(t) PROVE IInv'
  OBVIOUS
<1>1. /\ phase = "join" /\ phase' = phase /\ lvl' = lvl
      /\ InState(t, "ended") /\ Move(t, "reported")
      /\ joinset' = joinset \ {t} /\ report' = report \cup {Outcome(i) : i \in t}
      /\ reportBefore' = reportBefore /\ need' = need /\ changed' = changed
      /\ drift' = drift /\ stale' = stale
      /\ runMode' = runMode /\ place' = place /\ runs' = runs
      /\ failures' = failures /\ UNCHANGED topoVars
  BY DEF JoinTask, hostVars, envVars
<1>2. /\ lvl \in Nat \ {0} /\ PositionInv /\ TaskInv /\ ReportInv /\ TopoIInv
      /\ OrderInv /\ DriftInv /\ StaleInv /\ lvl <= Len(levels)
      /\ need \subseteq Nodes /\ st \in [Nodes -> TaskStates]
      /\ joinset \in SUBSET (SUBSET Nodes)
      /\ report \subseteq [id : Nodes, changed : {"Yes", "No", "Skipped"}]
  BY <1>1 DEF IInv, TypeOK, RunConsistent, PositionInv
<1>3. /\ t \subseteq Nodes /\ t # {} /\ t \cap Reported = {} /\ t \cap Skipped = {}
      /\ t \cap Before(lvl) = {} /\ t \subseteq levels[lvl]
      /\ \A i \in t : st[i] = "ended"
  BY <1>1, TaskFacts DEF InState
<1>4. \A i \in Nodes : st'[i] = IF i \in t THEN "reported" ELSE st[i]
  BY <1>1 DEF Move
<1>5. /\ levels' = levels /\ topo' = topo
      /\ \A i : DepsOf(i)' = DepsOf(i)
      /\ Before(lvl)' = Before(lvl)
      /\ Skipped' = Skipped /\ Live' = Live
      /\ \A i : Outcome(i)' = Outcome(i)
  <2>1. /\ levels' = levels /\ topo' = topo
        /\ \A i : DepsOf(i)' = DepsOf(i)
        /\ \A l : Before(l)' = Before(l)
        /\ Skipped' = Skipped /\ Live' = Live
    BY <1>1, SortFrame, FlagFrame
  <2>2. Before(lvl)' = Before(lvl)
    BY <1>1, <2>1 DEF Before
  <2> QED
    BY <1>1, <2>1, <2>2 DEF Outcome
<1>6. Reported' = Reported \cup t
  BY <1>3, <1>4 DEF Reported
<1>7. TopoIInv' /\ TypeOK'
  <2>1. st' \in [Nodes -> TaskStates]
    BY <1>1, <1>2 DEF Move, TaskStates
  <2>2. {Outcome(i) : i \in t} \subseteq [id : Nodes, changed : {"Yes", "No", "Skipped"}]
    BY <1>3 DEF Outcome
  <2> QED
    BY <1>1, <1>2, <2>1, <2>2, SortStays DEF IInv, TypeOK, TopoIInv
<1>8. PositionInv'
  <2>1. Before(lvl) \subseteq Nodes /\ levels[lvl] \subseteq Nodes
    BY <1>2, LevelFacts
  <2> QED
    BY <1>1, <1>2, <1>3, <1>4, <1>5, <2>1 DEF PositionInv
<1>9. TaskInv'
  <2>1. \A u \in joinset' : u \in joinset /\ u \cap t = {}
    BY <1>1, <1>2 DEF TaskInv, OneTaskEach
  <2>2. \A i \in Nodes : i \in UNION joinset' <=> i \in UNION joinset /\ i \notin t
    BY <1>1, <2>1
  <2>3. OneTaskEach'
    BY <1>1, <1>2, <1>3, <1>4, <2>1, <2>2 DEF TaskInv, OneTaskEach
  <2>4. \A u \in joinset' : \A i \in u : i \in Nodes /\ st'[i] = st[i]
    BY <1>2, <1>4, <2>1
  <2>5. DryRun' => \A i \in Nodes : st'[i] # "applying"
    BY <1>1, <1>2, <1>4 DEF TaskInv, DryRun
  <2> QED
    BY <1>2, <1>5, <2>1, <2>3, <2>4, <2>5 DEF TaskInv
<1>10. ReportInv'
  <2>1. report' = {Outcome(i)' : i \in Reported'}
    BY <1>1, <1>2, <1>5, <1>6 DEF ReportInv
  <2>2. \A i \in need' : st'[i] \notin {"idle", "spawned"}
    BY <1>1, <1>2, <1>4 DEF ReportInv
  <2> QED
    BY <1>1, <1>2, <1>5, <1>6, <2>1, <2>2 DEF ReportInv
<1>11. OrderInv'
  BY <1>1, <1>2, <1>3, <1>4, <1>5, <1>6 DEF OrderInv
<1>12. DriftInv'
  <2>1. Live \subseteq Nodes
    BY DEF Live
  <2> QED
    BY <1>1, <1>2, <1>3, <1>4, <1>5, <2>1 DEF DriftInv, DryRun
<1>13. StaleInv'
  <2> SUFFICES ASSUME failures = 0
               PROVE  /\ DryRun => stale \cap Live = {}
                      /\ \A s \in stale \cap Live :
                             /\ \E d \in Trigger[s] \cap need :
                                    st'[d] \notin {"idle", "spawned", "applying"}
                             /\ st'[s] \notin {"ended", "reported"}
                             /\ st'[s] = "applying" => s \in need
    BY <1>1, <1>5 DEF StaleInv, DryRun
  <2>1. DryRun => stale \cap Live = {}
    BY <1>2 DEF StaleInv
  <2>2. ASSUME NEW s \in stale \cap Live
        PROVE  /\ \E d \in Trigger[s] \cap need :
                      st'[d] \notin {"idle", "spawned", "applying"}
               /\ st'[s] \notin {"ended", "reported"}
               /\ st'[s] = "applying" => s \in need
    <3>1. PICK d \in Trigger[s] \cap need : st[d] \notin {"idle", "spawned", "applying"}
      BY <1>2 DEF StaleInv
    <3>2. st[s] \notin {"ended", "reported"} /\ (st[s] = "applying" => s \in need)
      BY <1>2 DEF StaleInv
    <3>3. s \in Nodes /\ s \notin t /\ d \in Nodes
      BY <1>2, <1>3, <3>1, <3>2 DEF Live
    <3> QED
      BY <1>4, <3>1, <3>2, <3>3
  <2> QED
    BY <2>1, <2>2
<1> QED
  BY <1>7, <1>8, <1>9, <1>10, <1>11, <1>12, <1>13 DEF IInv, RunConsistent

LEMMA CrashInv == IInv /\ Crash => IInv'
<1> SUFFICES ASSUME IInv, Crash PROVE IInv'
  OBVIOUS
<1>1. /\ phase' = "failed" /\ lvl' = lvl /\ joinset' = joinset
      /\ st' = [i \in Nodes |-> IF st[i] = "spawned" THEN "aborted" ELSE st[i]]
      /\ need' = need /\ report' = report /\ reportBefore' = reportBefore
      /\ changed' = changed /\ drift' = drift /\ stale' = stale
      /\ runMode' = runMode /\ place' = place /\ runs' = runs
      /\ failures' = failures /\ UNCHANGED topoVars
  BY DEF Crash, hostVars, envVars
<1>2. /\ TaskInv /\ ReportInv /\ OrderInv /\ DriftInv /\ StaleInv
      /\ need \subseteq Nodes /\ st \in [Nodes -> TaskStates]
      /\ joinset \in SUBSET (SUBSET Nodes)
  BY DEF IInv, TypeOK, RunConsistent
<1>3. \A i \in Nodes : st'[i] = IF st[i] = "spawned" THEN "aborted" ELSE st[i]
  BY <1>1
<1>4. /\ \A i : DepsOf(i)' = DepsOf(i)
      /\ Skipped' = Skipped /\ Live' = Live /\ Live \subseteq Nodes
      /\ \A i : Outcome(i)' = Outcome(i)
      /\ (DryRun' <=> DryRun)
  BY <1>1, SortFrame, FlagFrame DEF Outcome, DryRun, Live
<1>5. Reported' = Reported
  BY <1>3 DEF Reported
<1>6. TopoIInv' /\ TypeOK'
  <2>1. st' \in [Nodes -> TaskStates]
    BY <1>1, <1>2 DEF TaskStates
  <2> QED
    BY <1>1, <2>1, SortStays DEF IInv, TypeOK, TopoIInv
<1>7. PositionInv'
  BY <1>1 DEF PositionInv
<1>8. TaskInv'
  <2>1. OneTaskEach'
    BY <1>1, <1>2, <1>3 DEF TaskInv, OneTaskEach
  <2> QED
    BY <1>1, <1>2, <1>3, <1>4, <2>1 DEF TaskInv
<1>9. ReportInv'
  <2>1. report' = {Outcome(i)' : i \in Reported'}
    BY <1>1, <1>2, <1>4, <1>5 DEF ReportInv
  <2> QED
    BY <1>1, <1>2, <1>3, <1>4, <1>5, <2>1 DEF ReportInv
<1>10. OrderInv'
  BY <1>1, <1>2, <1>3, <1>4, <1>5 DEF OrderInv
<1>11. DriftInv'
  BY <1>1, <1>2, <1>3, <1>4 DEF DriftInv
<1>12. StaleInv'
  BY <1>1, <1>2, <1>3, <1>4 DEF StaleInv
<1> QED
  BY <1>6, <1>7, <1>8, <1>9, <1>10, <1>11, <1>12 DEF IInv, RunConsistent

\* The sort begins again as it began.
LEMMA SortAgain == ASSUME deps \in Plans, deps' = deps, TopoRestart PROVE TopoIInv'
<1>1. TopoInit'
  BY DEF TopoInit, TopoReset, TopoRestart
<1>2. TopoInit' => TopoIInv'
  BY TopoInitInv, PTL
<1> QED
  BY <1>1, <1>2

\* A run that ends well has reported every resource, so nothing is pending.
LEMMA OkReported == IInv /\ phase = "ok" => \A i \in Nodes : st[i] = "reported"
<1> SUFFICES ASSUME IInv, phase = "ok" PROVE \A i \in Nodes : st[i] = "reported"
  OBVIOUS
<1>1. /\ TopoIInv /\ PositionInv /\ lvl \in Nat \ {0} /\ Len(levels) \in Nat
  BY DEF IInv, TypeOK, TopoTypeOK, RunConsistent
<1>2. topo = "ok" /\ lvl = Len(levels) + 1 /\ \A i \in Before(lvl) : st[i] = "reported"
  BY <1>1 DEF PositionInv
<1> QED
  BY <1>1, <1>2, LevelsExhausted

LEMMA RerunInv == IInv /\ Rerun => IInv'
<1> SUFFICES ASSUME IInv, Rerun PROVE IInv'
  OBVIOUS
<1>1. /\ phase \in {"ok", "failed"} /\ TopoRestart /\ phase' = "topo" /\ lvl' = 1
      /\ joinset' = {} /\ st' = [i \in Nodes |-> "idle"] /\ need' = {}
      /\ report' = {} /\ reportBefore' = {} /\ changed' = {}
      /\ runMode' \in RunModes /\ runs' = runs + 1
      /\ failures' = IF phase = "failed" /\ ~DryRun THEN failures + 1 ELSE failures
      /\ deps' = deps /\ place' = place /\ stale' = stale
  BY DEF Rerun, RunStateFresh
<1>2. /\ deps \in Plans /\ drift \subseteq Sensed /\ StaleInv
      /\ runs \in Nat /\ failures \in Nat /\ place \in Places
      /\ stale \in SUBSET Nodes /\ Live \subseteq Nodes
  BY DEF IInv, TypeOK, TopoTypeOK, RunConsistent, DriftInv, Live
<1>3. drift' \subseteq Sensed
  BY <1>2 DEF Rerun
<1>4. TopoIInv'
  BY <1>1, <1>2, SortAgain
<1>5. TypeOK'
  <2>1. st' \in [Nodes -> TaskStates]
    BY <1>1 DEF TaskStates
  <2>2. drift' \in SUBSET Nodes
    BY <1>3 DEF Sensed
  <2>3. runs' \in Nat /\ failures' \in Nat
    BY <1>1, <1>2
  <2>4. phase' = "topo" /\ lvl' \in Nat \ {0}
    BY <1>1
  <2> QED
    BY <1>1, <1>2, <1>4, <2>1, <2>2, <2>3, <2>4 DEF TypeOK, TopoIInv
<1>6. \A i \in Nodes : st'[i] = "idle"
  BY <1>1
<1>7. Live' = Live
  BY <1>1, FlagFrame
<1>8. PositionInv' /\ TaskInv' /\ OrderInv'
  BY <1>1, <1>6 DEF PositionInv, TaskInv, OneTaskEach, OrderInv
<1>9. ReportInv'
  <2>1. Reported' = {}
    BY <1>6 DEF Reported
  <2>2. report' = {Outcome(i)' : i \in Reported'}
    BY <1>1, <2>1
  <2> QED
    BY <1>1, <2>2 DEF ReportInv
<1>10. DriftInv'
  BY <1>2, <1>3, <1>6, <1>7 DEF DriftInv
<1>11. failures' = 0 => stale \cap Live = {}
  <2> SUFFICES ASSUME failures' = 0 PROVE stale \cap Live = {}
    OBVIOUS
  <2>1. failures = 0 /\ (phase = "ok" \/ DryRun)
    BY <1>1, <1>2
  <2>2. CASE DryRun
    BY <1>2, <2>1, <2>2 DEF StaleInv
  <2>3. CASE phase = "ok"
    BY <1>2, <2>1, <2>3, OkReported DEF StaleInv
  <2> QED
    BY <2>1, <2>2, <2>3
<1>12. StaleInv'
  BY <1>1, <1>7, <1>11 DEF StaleInv
<1> QED
  BY <1>4, <1>5, <1>8, <1>9, <1>10, <1>12 DEF IInv, RunConsistent

-----------------------------------------------------------------------------
(* The invariant, and what follows from it.                                *)

LEMMA StutterInv == IInv /\ UNCHANGED vars => IInv'
<1> SUFFICES ASSUME IInv, UNCHANGED vars PROVE IInv'
  OBVIOUS
<1>1. /\ UNCHANGED topoVars /\ phase' = phase /\ lvl' = lvl /\ joinset' = joinset
      /\ st' = st /\ need' = need /\ report' = report
      /\ reportBefore' = reportBefore /\ changed' = changed
      /\ drift' = drift /\ stale' = stale /\ runMode' = runMode
      /\ place' = place /\ runs' = runs /\ failures' = failures
  BY DEF vars, runVars, hostVars, envVars
<1>2. /\ OrderInv' /\ TaskInv'
      /\ Reported' = Reported /\ Skipped' = Skipped
      /\ \A i : Outcome(i)' = Outcome(i)
      /\ \A l : Before(l)' = Before(l)
      /\ levels' = levels /\ topo' = topo
  BY <1>1, BookFrame
<1>3. Before(lvl)' = Before(lvl)
  BY <1>1, <1>2 DEF Before
<1>4. DriftInv' /\ StaleInv'
  BY <1>1, HostFrame
<1>5. TopoIInv' /\ TypeOK'
  BY <1>1, SortStays DEF IInv, TypeOK, TopoIInv
<1>6. PositionInv'
  BY <1>1, <1>2, <1>3 DEF IInv, RunConsistent, PositionInv
<1>7. ReportInv'
  BY <1>1, <1>2, <1>3 DEF IInv, RunConsistent, ReportInv
<1> QED
  BY <1>2, <1>4, <1>5, <1>6, <1>7 DEF IInv, RunConsistent

LEMMA StepInv == IInv /\ [Next]_vars => IInv'
<1> SUFFICES ASSUME IInv, [Next]_vars PROVE IInv'
  OBVIOUS
<1>1. CASE Progress
  BY <1>1, TopoStepRunInv, PhaseStepInv, DispatchInv, SenseInv, TasksActInv,
     JoinTaskInv, EndLevelInv DEF Progress
<1>2. CASE \E t \in joinset : TaskFails(t) \/ Abort(t)
  BY <1>2, TasksActInv
<1>3. CASE Crash \/ Rerun
  BY <1>3, CrashInv, RerunInv
<1>4. CASE UNCHANGED vars
  BY <1>4, StutterInv
<1> QED
  BY <1>1, <1>2, <1>3, <1>4 DEF Next

\* The whole of the run's bookkeeping, with that of the sort, is invariant.
THEOREM RunInvariant == Spec => []IInv
BY InitInv, StepInv, PTL DEF Spec

\* Every variable keeps its range.
THEOREM RunTypeCorrect == Spec => []TypeOK
BY RunInvariant, PTL DEF IInv

\* Where run() is, who is running, what is reported and recorded, and what
\* is left to do on the host always agree.
THEOREM RunIsConsistent == Spec => []RunConsistent
BY RunInvariant, PTL DEF IInv

-----------------------------------------------------------------------------
(* The safety properties.                                                  *)

\* The changes in the report are what the reported resources sensed.
LEMMA ChangesAreNeeds == IInv => ChangeReported = Reported \cap need
<1> SUFFICES ASSUME IInv PROVE ChangeReported = Reported \cap need
  OBVIOUS
<1>1. /\ report = {Outcome(i) : i \in Reported}
      /\ need \cap Skipped = {} /\ need \subseteq Nodes
  BY DEF IInv, TypeOK, RunConsistent, ReportInv
<1>2. ASSUME NEW i \in ChangeReported PROVE i \in Reported \cap need
  <2>1. PICK j \in Reported : [id |-> i, changed |-> "Yes"] = Outcome(j)
    BY <1>1, <1>2 DEF ChangeReported
  <2>2. i = j /\ Outcome(j).changed = "Yes"
    BY <2>1 DEF Outcome
  <2> QED
    BY <2>1, <2>2 DEF Outcome
<1>3. ASSUME NEW i \in Reported \cap need PROVE i \in ChangeReported
  <2>1. Outcome(i) = [id |-> i, changed |-> "Yes"]
    BY <1>1 DEF Outcome
  <2>2. i \in Nodes
    BY <1>1
  <2> QED
    BY <1>1, <1>3, <2>1, <2>2 DEF ChangeReported
<1> QED
  BY <1>2, <1>3

\* Nothing starts, or is passed over, before its dependencies are reported.
THEOREM DependenciesSettle == Spec => []DepsSettled
<1>1. IInv => DepsSettled
  BY DEF IInv, RunConsistent, OrderInv, DepsSettled
<1> QED
  BY <1>1, RunInvariant, PTL

\* What has started can see every change of its dependencies, and nothing
\* that did not happen.
THEOREM ChangesAreVisible == Spec => []ChangesVisible
<1>1. IInv => ChangesVisible
  <2> SUFFICES ASSUME IInv PROVE ChangesVisible
    OBVIOUS
  <2>1. ChangeReported = Reported \cap need
    BY ChangesAreNeeds
  <2> QED
    BY <2>1 DEF IInv, RunConsistent, OrderInv, ReportInv, ChangesVisible
<1> QED
  BY <1>1, RunInvariant, PTL

\* No resource is converged by two tasks.
THEOREM OneTaskPerResource == Spec => []OneTaskEach
<1>1. IInv => OneTaskEach
  BY DEF IInv, RunConsistent, TaskInv
<1> QED
  BY <1>1, RunInvariant, PTL

\* A run that ends well has reported every resource of the plan, once.
THEOREM ReportIsComplete == Spec => []ReportComplete
<1>1. IInv => ReportComplete
  <2> SUFFICES ASSUME IInv, phase = "ok", NEW i \in Nodes
               PROVE  /\ \E c \in {"Yes", "No", "Skipped"} :
                             {o \in report : o.id = i} = {[id |-> i, changed |-> c]}
                      /\ [id |-> i, changed |-> "Skipped"] \in report <=> i \notin Live
    BY DEF ReportComplete
  <2>1. /\ report = {Outcome(j) : j \in Nodes} /\ Reported = Nodes
        /\ need \cap Skipped = {}
    BY OkReported DEF Reported, IInv, RunConsistent, ReportInv
  <2>2. Outcome(i) = [id |-> i, changed |-> Outcome(i).changed]
    BY DEF Outcome
  <2>3. Outcome(i).changed \in {"Yes", "No", "Skipped"}
    BY DEF Outcome
  <2>4. {o \in report : o.id = i} = {Outcome(i)}
    <3>1. \A j \in Nodes : Outcome(j).id = j
      BY DEF Outcome
    <3> QED
      BY <2>1, <3>1
  <2>5. Outcome(i).changed = "Skipped" <=> i \in Skipped
    BY DEF Outcome
  <2>6. [id |-> i, changed |-> "Skipped"] \in report <=> Outcome(i).changed = "Skipped"
    <3>1. \A j \in Nodes : Outcome(j) = [id |-> i, changed |-> "Skipped"] => j = i
      BY DEF Outcome
    <3>2. Outcome(i) = [id |-> i, changed |-> "Skipped"] <=> Outcome(i).changed = "Skipped"
      BY DEF Outcome
    <3> QED
      BY <2>1, <3>1, <3>2
  <2> QED
    BY <2>2, <2>3, <2>4, <2>5, <2>6, LiveSkipped
<1> QED
  BY <1>1, RunInvariant, PTL

\* A run that ends well leaves what it did not skip in its desired state,
\* whatever the earlier runs left behind.
THEOREM OkMeansConverged == Spec => []Converged
<1>1. IInv => Converged
  <2> SUFFICES ASSUME IInv, phase = "ok", ~DryRun PROVE drift \cap Live = {}
    BY DEF Converged
  <2>1. \A i \in Nodes : st[i] = "reported"
    BY OkReported
  <2> QED
    BY <2>1 DEF IInv, RunConsistent, DriftInv, Live
<1> QED
  BY <1>1, RunInvariant, PTL

\* As long as no run has failed, no restart or handler is lost.
THEOREM TriggersAreNotLost == Spec => []NoLostTrigger
<1>1. IInv => NoLostTrigger
  <2> SUFFICES ASSUME IInv, phase = "ok", failures = 0 PROVE stale \cap Live = {}
    BY DEF NoLostTrigger
  <2>1. \A i \in Nodes : st[i] = "reported"
    BY OkReported
  <2> QED
    BY <2>1 DEF IInv, RunConsistent, StaleInv, Live
<1> QED
  BY <1>1, RunInvariant, PTL

-----------------------------------------------------------------------------
(* What a step may never do.                                               *)

\* In a run, a resource leaves idle once, is spawned from idle only, and
\* stays reported.
LEMMA StepOnce ==
    IInv /\ [Next]_vars =>
        \A i \in Nodes :
            /\ st[i] # "idle" /\ runs' = runs => st'[i] # "idle"
            /\ st'[i] = "spawned" => st[i] \in {"idle", "spawned"}
            /\ st[i] = "reported" /\ runs' = runs => st'[i] = "reported"
<1> DEFINE OK(i) ==
        /\ st[i] # "idle" /\ runs' = runs => st'[i] # "idle"
        /\ st'[i] = "spawned" => st[i] \in {"idle", "spawned"}
        /\ st[i] = "reported" /\ runs' = runs => st'[i] = "reported"
<1> SUFFICES ASSUME IInv, [Next]_vars, NEW i \in Nodes PROVE OK(i)
  OBVIOUS
<1>1. ASSUME st' = st PROVE OK(i)
  BY <1>1
<1>2. CASE TopoStep \/ StartLevels \/ RejectPlan \/ EndLevel \/ Finish
           \/ (\E t \in joinset : JoinError(t)) \/ UNCHANGED vars
  BY <1>1, <1>2 DEF TopoStep, StartLevels, RejectPlan, EndLevel, Finish,
                    JoinError, vars, runVars
<1>3. ASSUME NEW t \in joinset, NEW b \in {"applying", "ended", "error", "aborted", "reported"},
             Move(t, b)
      PROVE  OK(i)
  <2>1. i \in t => st[i] # "reported"
    BY TaskFacts
  <2>2. st'[i] = IF i \in t THEN b ELSE st[i]
    BY <1>3 DEF Move
  <2> QED
    BY <2>1, <2>2
<1>4. CASE \E t \in joinset : Sense(t) \/ Apply(t) \/ TaskFails(t) \/ Abort(t) \/ JoinTask(t)
  <2>1. PICK t \in joinset : Sense(t) \/ Apply(t) \/ TaskFails(t) \/ Abort(t) \/ JoinTask(t)
    BY <1>4
  <2>2. \E b \in {"applying", "ended", "error", "aborted", "reported"} : Move(t, b)
    BY <2>1 DEF Sense, Apply, TaskFails, Abort, JoinTask
  <2> QED
    BY <1>3, <2>2
<1>5. CASE DispatchLevel
  <2>1. /\ TopoIInv /\ lvl \in Nat \ {0} /\ lvl <= Len(levels)
        /\ PositionInv /\ phase = "level"
    BY <1>5 DEF DispatchLevel, IInv, TypeOK, RunConsistent
  <2>2. levels[lvl] \cap Before(lvl) = {}
    BY <2>1, LevelFacts
  <2>3. i \in levels[lvl] => st[i] = "idle"
    BY <2>1, <2>2 DEF PositionInv
  <2>4. st'[i] = IF i \in levels[lvl] \cap Skipped THEN "reported"
                 ELSE IF i \in levels[lvl] THEN "spawned" ELSE st[i]
    BY <1>5 DEF DispatchLevel
  <2> QED
    BY <2>3, <2>4
<1>6. CASE Crash
  BY <1>6 DEF Crash
<1>7. CASE Rerun
  <2>1. runs \in Nat /\ runs' = runs + 1 /\ st'[i] = "idle"
    BY <1>7 DEF Rerun, IInv, TypeOK
  <2> QED
    BY <2>1
<1> QED
  BY <1>2, <1>4, <1>5, <1>6, <1>7 DEF Next, Progress

\* A resource is dispatched at most once per run.
THEOREM DispatchedAtMostOnce == Spec => AtMostOnce
<1>1. IInv /\ [Next]_vars =>
          [\A i \in Nodes :
               /\ st[i] # "idle" /\ runs' = runs => st'[i] # "idle"
               /\ st'[i] = "spawned" => st[i] \in {"idle", "spawned"}
               /\ st[i] = "reported" /\ runs' = runs => st'[i] = "reported"]_vars
  BY StepOnce
<1> QED
  BY <1>1, RunInvariant, PTL DEF Spec, AtMostOnce

\* A dry run leaves the host as it is.
THEOREM DryRunsArePure == Spec => DryRunIsPure
<1>1. IInv /\ [Next]_vars => [DryRun /\ runs' = runs => UNCHANGED hostVars]_vars
  <2> SUFFICES ASSUME IInv, Next, DryRun, runs' = runs PROVE UNCHANGED hostVars
    OBVIOUS
  <2>1. ASSUME NEW t \in joinset, InState(t, "applying") PROVE FALSE
    BY <2>1, DryTasksEnd
  <2>2. CASE Progress
    BY <2>1, <2>2 DEF Progress, TopoStep, StartLevels, RejectPlan, DispatchLevel,
                      Sense, Apply, JoinTask, JoinError, EndLevel, Finish
  <2>3. CASE \E t \in joinset : TaskFails(t) \/ Abort(t)
    BY <2>1, <2>3 DEF TaskFails, Abort
  <2>4. CASE Crash
    BY <2>4 DEF Crash
  <2>5. ~Rerun
    BY DEF Rerun, IInv, TypeOK
  <2> QED
    BY <2>2, <2>3, <2>4, <2>5 DEF Next
<1> QED
  BY <1>1, RunInvariant, PTL DEF Spec, DryRunIsPure

\* A service that needs no start is restarted, and a handler run, only for a
\* change of this run.
THEOREM NoTriggerIsSpurious == Spec => NoSpuriousTrigger
<1> DEFINE OK(i) == Kind[i] \in {"service", "handler"} /\ i \notin drift
                        => Trigger[i] \cap ChangeReported # {}
<1>1. IInv /\ [Next]_vars => [\A i \in need' \ need : OK(i)]_vars
  <2> SUFFICES ASSUME IInv, Next, NEW i \in need', i \notin need PROVE OK(i)
    OBVIOUS
  <2>1. CASE \E t \in joinset : Sense(t)
    <3>1. Needs(i)
      BY <2>1 DEF Sense
    <3>2. changed \subseteq ChangeReported
      BY ChangesAreNeeds DEF IInv, RunConsistent, ReportInv
    <3> QED
      BY <3>1, <3>2 DEF Needs, Triggered
  <2>2. CASE need' = need \/ need' = {}
    BY <2>2
  <2> QED
    BY <2>1, <2>2 DEF Next, Progress, TopoStep, StartLevels, RejectPlan,
       DispatchLevel, Apply, JoinTask, JoinError, EndLevel, Finish, TaskFails,
       Abort, Crash, Rerun, runVars
<1> QED
  BY <1>1, RunInvariant, PTL DEF Spec, NoSpuriousTrigger

-----------------------------------------------------------------------------
(* The executor implements DagRun.                                         *)

PlanState == [i \in Nodes |->
                  IF st[i] = "idle" THEN "waiting"
                  ELSE IF st[i] = "reported" THEN "settled"
                  ELSE "running"]
PlanVerdict == IF phase \in {"ok", "failed"} THEN phase ELSE "run"

\* DagRun's formulas, in terms of the executor's variables.
LEMMA PlanVars ==
    /\ \A i : Plan!DepsOf(i) = DepsOf(i)
    /\ Plan!Nodes = Nodes
    /\ Plan!Settled = Reported
    /\ Plan!vars = <<deps, PlanState, ChangeReported, changed, PlanVerdict>>
BY DEF Plan!DepsOf, DepsOf, Plan!Nodes, Nodes, Plan!Settled, Reported,
       Plan!vars, PlanState, PlanVerdict

LEMMA PlanInit == Init => Plan!Init
<1> SUFFICES ASSUME Init PROVE Plan!Init
  OBVIOUS
<1>1. PlanState = [i \in Nodes |-> "waiting"] /\ ChangeReported = {}
  BY DEF Init, RunReset, PlanState, ChangeReported
<1> QED
  BY <1>1 DEF Init, RunReset, Plan!Init, Plan!Fresh, Plan!Nodes, Nodes, PlanState

\* A step that neither starts nor reports a resource leaves its state alone.
LEMMA PlanStateFrame ==
    ASSUME \A i \in Nodes : (st'[i] = "idle" <=> st[i] = "idle")
                            /\ (st'[i] = "reported" <=> st[i] = "reported")
    PROVE  PlanState' = PlanState
BY DEF PlanState

LEMMA ChangesAreNeedsNext == (IInv => ChangeReported = Reported \cap need)'
BY ChangesAreNeeds, PTL

\* A task that moves on without being joined is a stutter.
LEMMA PlanTaskMove ==
    ASSUME IInv, NEW t \in joinset,
           NEW b \in {"applying", "ended", "error", "aborted"}, Move(t, b),
           UNCHANGED <<topoVars, phase, report, changed>>
    PROVE  UNCHANGED Plan!vars
<1>1. \A i \in Nodes : st'[i] = IF i \in t THEN b ELSE st[i]
  BY DEF Move
<1>2. \A i \in t : st[i] \notin {"idle", "reported"}
  BY TaskFacts
<1>3. PlanState' = PlanState
  BY <1>1, <1>2, PlanStateFrame
<1>4. ChangeReported' = ChangeReported /\ PlanVerdict' = PlanVerdict /\ deps' = deps
  BY SortFrame DEF ChangeReported, PlanVerdict
<1> QED
  BY <1>3, <1>4, PlanVars DEF Plan!vars, PlanState, PlanVerdict

LEMMA PlanDispatch == IInv /\ DispatchLevel => \E S, K \in SUBSET Plan!Nodes : Plan!Start(S, K)
<1> SUFFICES ASSUME IInv, DispatchLevel
             PROVE  \E S, K \in SUBSET Plan!Nodes : Plan!Start(S, K)
  OBVIOUS
<1> DEFINE L == levels[lvl]
<1>1. /\ TopoIInv /\ lvl \in Nat \ {0} /\ lvl <= Len(levels)
      /\ PositionInv /\ ReportInv /\ phase = "level" /\ phase' = "join"
      /\ changed' = changed /\ deps' = deps
      /\ report' = report \cup SkipOutcomes(L)
      /\ st' = [i \in Nodes |-> IF i \in L \cap Skipped THEN "reported"
                                ELSE IF i \in L THEN "spawned" ELSE st[i]]
  BY DEF DispatchLevel, IInv, TypeOK, RunConsistent, topoVars
<1>2. /\ L \subseteq Nodes /\ L \cap Before(lvl) = {}
      /\ \A i \in L : DepsOf(i) \subseteq Before(lvl)
      /\ Before(lvl) \subseteq Nodes
  BY <1>1, LevelFacts
<1>3. /\ \A i \in L : st[i] = "idle"
      /\ \A i \in Before(lvl) : st[i] = "reported"
  BY <1>1, <1>2 DEF PositionInv
<1>4. /\ \A i \in L : DepsOf(i) \subseteq Reported
      /\ ChangeReported \subseteq changed
  <2>1. Reported = Before(lvl)
    BY <1>1, <1>2, <1>3 DEF PositionInv, Reported
  <2> QED
    BY <1>1, <1>2, <2>1, ChangesAreNeeds DEF ReportInv
<1>5. ChangeReported' = ChangeReported
  BY <1>1 DEF ChangeReported, SkipOutcomes
<1> HIDE DEF L
<1>6. PlanState' = [i \in Nodes |-> IF i \in L \ Skipped THEN "running"
                                    ELSE IF i \in L \cap Skipped THEN "settled"
                                    ELSE PlanState[i]]
  BY <1>1, <1>2 DEF PlanState
<1>7. \A i \in L : PlanState[i] = "waiting"
  BY <1>2, <1>3 DEF PlanState
<1>8. Plan!Start(L \ Skipped, L \cap Skipped)
  BY <1>1, <1>2, <1>4, <1>5, <1>6, <1>7, PlanVars
     DEF Plan!Start, PlanState, PlanVerdict
<1>9. L \ Skipped \in SUBSET Plan!Nodes /\ L \cap Skipped \in SUBSET Plan!Nodes
  BY <1>2, PlanVars
<1> QED
  BY <1>8, <1>9 DEF Plan!Start

LEMMA PlanJoin ==
    ASSUME IInv, IInv', NEW t \in joinset, JoinTask(t)
    PROVE  \E T, M \in SUBSET Plan!Nodes : Plan!Settle(T, M)
<1>1. /\ phase = "join" /\ phase' = phase /\ InState(t, "ended")
      /\ Move(t, "reported") /\ need' = need /\ changed' = changed /\ deps' = deps
  BY DEF JoinTask, topoVars
<1>2. t \subseteq Nodes /\ \A i \in t : st[i] = "ended"
  BY <1>1, TaskFacts DEF InState
<1>3. \A i \in Nodes : st'[i] = IF i \in t THEN "reported" ELSE st[i]
  BY <1>1 DEF Move
<1>4. Reported' = Reported \cup t
  BY <1>2, <1>3 DEF Reported
<1>5. ChangeReported' = ChangeReported \cup (t \cap need)
  <2>1. ChangeReported' = Reported' \cap need'
    BY ChangesAreNeedsNext
  <2> QED
    BY <1>1, <1>4, <2>1, ChangesAreNeeds
<1>6. PlanState' = [i \in Nodes |-> IF i \in t THEN "settled" ELSE PlanState[i]]
  BY <1>3 DEF PlanState
<1>7. \A i \in t : PlanState[i] = "running"
  BY <1>2 DEF PlanState
<1>8. Plan!Settle(t, t \cap need)
  BY <1>1, <1>5, <1>6, <1>7, PlanVars DEF Plan!Settle, PlanState, PlanVerdict
<1>9. t \in SUBSET Plan!Nodes /\ t \cap need \in SUBSET Plan!Nodes
  BY <1>2, PlanVars
<1> QED
  BY <1>8, <1>9 DEF Plan!Settle

LEMMA PlanPublish == IInv /\ IInv' /\ EndLevel => Plan!Publish
<1> SUFFICES ASSUME IInv, IInv', EndLevel PROVE Plan!Publish
  OBVIOUS
<1>1. /\ phase = "join" /\ phase' = "level" /\ report' = report /\ st' = st
      /\ need' = need /\ deps' = deps
  BY DEF EndLevel, topoVars
<1>2. ChangeReported' = ChangeReported /\ PlanState' = PlanState
  BY <1>1 DEF ChangeReported, PlanState
<1>3. changed' = Reported' \cap need'
  <2>1. /\ phase' = "level" /\ PositionInv' /\ ReportInv' /\ need' \subseteq Nodes
    BY <1>1 DEF IInv, TypeOK, RunConsistent
  <2>2. changed' = need' \cap Before(lvl)'
    BY <2>1 DEF ReportInv
  <2>3. /\ \A i \in Before(lvl)' : st'[i] = "reported"
        /\ \A i \in Nodes \ Before(lvl)' : st'[i] = "idle"
    BY <2>1 DEF PositionInv
  <2> QED
    BY <2>1, <2>2, <2>3 DEF Reported
<1>4. ChangeReported' = Reported' \cap need'
  BY ChangesAreNeedsNext
<1> QED
  BY <1>1, <1>2, <1>3, <1>4 DEF Plan!Publish, PlanState

LEMMA PlanSucceed == IInv /\ Finish => Plan!Succeed
<1> SUFFICES ASSUME IInv, Finish PROVE Plan!Succeed
  OBVIOUS
<1>1. /\ phase = "level" /\ phase' = "ok" /\ report' = report /\ st' = st
      /\ changed' = changed /\ deps' = deps /\ lvl > Len(levels)
      /\ TopoIInv /\ PositionInv /\ ReportInv
      /\ lvl \in Nat \ {0} /\ Len(levels) \in Nat /\ need \subseteq Nodes
  BY DEF Finish, runVars, topoVars, IInv, TypeOK, TopoTypeOK, RunConsistent
<1>2. Before(lvl) = Nodes
  BY <1>1, LevelsExhausted DEF PositionInv
<1>3. \A i \in Nodes : st[i] = "reported"
  BY <1>1, <1>2 DEF PositionInv
<1>4. Reported = Nodes /\ changed = need
  BY <1>1, <1>2, <1>3 DEF Reported, ReportInv
<1>5. changed = ChangeReported
  BY <1>1, <1>4, ChangesAreNeeds
<1>6. ChangeReported' = ChangeReported /\ PlanState' = PlanState
  BY <1>1 DEF ChangeReported, PlanState
<1> QED
  BY <1>1, <1>4, <1>5, <1>6, PlanVars DEF Plan!Succeed, PlanState

LEMMA PlanFail ==
    IInv /\ (RejectPlan \/ (\E t \in joinset : JoinError(t)) \/ Crash) => Plan!Fail
<1> SUFFICES ASSUME IInv, RejectPlan \/ (\E t \in joinset : JoinError(t)) \/ Crash
             PROVE  Plan!Fail
  OBVIOUS
<1>1. /\ phase \notin {"ok", "failed"} /\ phase' = "failed"
      /\ report' = report /\ changed' = changed /\ deps' = deps
      /\ st' = st \/ st' = [i \in Nodes |-> IF st[i] = "spawned" THEN "aborted" ELSE st[i]]
  BY DEF RejectPlan, JoinError, Crash, topoVars
<1>2. PlanState' = PlanState
  <2>1. \A i \in Nodes : (st'[i] = "idle" <=> st[i] = "idle")
                         /\ (st'[i] = "reported" <=> st[i] = "reported")
    BY <1>1
  <2> QED
    BY <2>1, PlanStateFrame
<1>3. ChangeReported' = ChangeReported
  BY <1>1 DEF ChangeReported
<1> QED
  BY <1>1, <1>2, <1>3 DEF Plan!Fail, PlanState

LEMMA PlanAgain == IInv /\ Rerun => Plan!Again
<1> SUFFICES ASSUME IInv, Rerun PROVE Plan!Again
  OBVIOUS
<1>1. /\ phase \in {"ok", "failed"} /\ phase' = "topo" /\ deps' = deps
      /\ st' = [i \in Nodes |-> "idle"] /\ report' = {} /\ changed' = {}
  BY DEF Rerun, RunStateFresh
<1>2. PlanState' = [i \in Nodes |-> "waiting"] /\ ChangeReported' = {}
  BY <1>1 DEF PlanState, ChangeReported
<1> QED
  BY <1>1, <1>2 DEF Plan!Again, Plan!Fresh, Plan!Nodes, Nodes, PlanState

\* The steps DagRun does not see.
LEMMA PlanStutter ==
    ASSUME IInv,
           \/ TopoStep
           \/ StartLevels
           \/ \E t \in joinset : Sense(t) \/ Apply(t) \/ TaskFails(t) \/ Abort(t)
           \/ UNCHANGED vars
    PROVE  UNCHANGED Plan!vars
<1>1. CASE TopoStep \/ StartLevels \/ UNCHANGED vars
  <2>1. /\ deps' = deps /\ st' = st /\ report' = report /\ changed' = changed
        /\ PlanVerdict' = PlanVerdict
    BY <1>1 DEF TopoStep, TopoNext, ScanNode, UnknownDep, StartPeel, Visit,
                CloseLevel, Levelled, CycleFound, StartLevels, vars, runVars,
                topoVars, PlanVerdict
  <2>2. PlanState' = PlanState /\ ChangeReported' = ChangeReported
    BY <2>1 DEF PlanState, ChangeReported
  <2> QED
    BY <2>1, <2>2 DEF Plan!vars, PlanState, PlanVerdict
<1>2. CASE \E t \in joinset : Sense(t) \/ Apply(t) \/ TaskFails(t) \/ Abort(t)
  <2>1. PICK t \in joinset : Sense(t) \/ Apply(t) \/ TaskFails(t) \/ Abort(t)
    BY <1>2
  <2>2. /\ \E b \in {"applying", "ended", "error", "aborted"} : Move(t, b)
        /\ UNCHANGED <<topoVars, phase, report, changed>>
    BY <2>1 DEF Sense, Apply, TaskFails, Abort
  <2> QED
    BY <2>2, PlanTaskMove
<1> QED
  BY <1>1, <1>2

LEMMA PlanStep == IInv /\ IInv' /\ [Next]_vars => [Plan!Next]_(Plan!vars)
<1> SUFFICES ASSUME IInv, IInv', [Next]_vars PROVE Plan!Next \/ UNCHANGED Plan!vars
  OBVIOUS
<1>1. CASE DispatchLevel
  BY <1>1, PlanDispatch DEF Plan!Next
<1>2. CASE \E t \in joinset : JoinTask(t)
  BY <1>2, PlanJoin DEF Plan!Next
<1>3. CASE EndLevel \/ Finish
  BY <1>3, PlanPublish, PlanSucceed DEF Plan!Next
<1>4. CASE RejectPlan \/ (\E t \in joinset : JoinError(t)) \/ Crash
  BY <1>4, PlanFail DEF Plan!Next
<1>5. CASE Rerun
  BY <1>5, PlanAgain DEF Plan!Next
<1>6. CASE \/ TopoStep
           \/ StartLevels
           \/ \E t \in joinset : Sense(t) \/ Apply(t) \/ TaskFails(t) \/ Abort(t)
           \/ UNCHANGED vars
  BY <1>6, PlanStutter
<1> QED
  BY <1>1, <1>2, <1>3, <1>4, <1>5, <1>6 DEF Next, Progress

\* Every behaviour of the executor, over any number of runs, failed ones
\* included, is one that DagRun allows.
THEOREM ExecutorImplementsDagRun == Spec => ImplementsDagRun
BY PlanInit, PlanStep, RunInvariant, PTL DEF Spec, ImplementsDagRun, Plan!Spec

-----------------------------------------------------------------------------
(* A run ends.                                                             *)

LEMMA TightRun == IInv /\ TightInv /\ [Next]_vars => TightInv'
<1> SUFFICES ASSUME IInv, TightInv, [Next]_vars PROVE TightInv'
  OBVIOUS
<1>1. CASE TopoStep
  BY <1>1, TightStep DEF TopoStep, IInv
<1>2. CASE UNCHANGED topoVars
  BY <1>2, TightFrame DEF topoVars
<1>3. CASE Rerun
  <2>1. levels' = <<>> /\ next' = {}
    BY <1>3 DEF Rerun, TopoRestart
  <2>2. Closed' = {}
    BY <2>1 DEF Closed
  <2> QED
    BY <2>1, <2>2, FS_EmptySet DEF TightInv, LevelsTight, FrontierTight, LevelsCounted
<1>4. [Next]_vars => TopoStep \/ Rerun \/ UNCHANGED topoVars
  BY DEF Next, Progress, StartLevels, RejectPlan, DispatchLevel, Sense, Apply, JoinTask, JoinError,
         EndLevel, Finish, TaskFails, Abort, Crash, vars
<1> QED
  BY <1>1, <1>2, <1>3, <1>4

\* The levels of every run's sort are tight, and no more than the nodes.
LEMMA TightInRuns == Spec => []TightInv
<1>1. Init => TightInv
  BY TightInit DEF Init, RunReset, TopoInit
<1> QED
  BY <1>1, TightRun, RunInvariant, PTL DEF Spec

LEMMA AheadTypes == \A s \in TaskStates : Ahead(s) \in 0 .. 4
BY DEF TaskStates, Ahead

\* The sets that are counted.
LEMMA BehindFinite ==
    ASSUME NEW k \in Nat
    PROVE  /\ IsFiniteSet(Behind(k)) /\ Cardinality(Behind(k)) \in 0 .. N
<1>1. Behind(k) \subseteq Nodes
  BY DEF Behind
<1> QED
  BY <1>1, NodesFinite, FS_Subset, FS_CardinalityType

LEMMA TasksCounted == TasksLeft \in 0 .. 4 * N
<1>1. \A k \in {1, 2, 3, 4} : Cardinality(Behind(k)) \in 0 .. N
  BY BehindFinite
<1> QED
  BY <1>1, NAssumption DEF TasksLeft

\* A resource whose future goes on is taken out of one of the sets, and none
\* enters another.
LEMMA TasksLower ==
    ASSUME st \in [Nodes -> TaskStates], st' \in [Nodes -> TaskStates],
           \A i \in Nodes : Ahead(st'[i]) <= Ahead(st[i])
    PROVE  /\ TasksLeft' \in 0 .. TasksLeft
           /\ (\E i \in Nodes : st'[i] # st[i] /\ Ahead(st'[i]) < Ahead(st[i])) => TasksLeft' < TasksLeft
<1>1. \A i \in Nodes : Ahead(st[i]) \in 0 .. 4 /\ Ahead(st'[i]) \in 0 .. 4
  BY AheadTypes
<1>2. ASSUME NEW k \in {1, 2, 3, 4}
      PROVE  /\ Behind(k)' \subseteq Behind(k)
             /\ Cardinality(Behind(k)') \in Nat /\ Cardinality(Behind(k)) \in Nat
             /\ Cardinality(Behind(k)') <= Cardinality(Behind(k))
             /\ Behind(k)' # Behind(k) => Cardinality(Behind(k)') < Cardinality(Behind(k))
  <2>1. Behind(k)' \subseteq Behind(k)
    BY <1>1 DEF Behind
  <2>2. IsFiniteSet(Behind(k))
    BY BehindFinite
  <2> QED
    BY <2>1, <2>2, FS_Subset, FS_CardinalityType
<1>3. TasksLeft' \in 0 .. TasksLeft
  BY <1>2 DEF TasksLeft
<1>4. ASSUME NEW i \in Nodes, Ahead(st'[i]) < Ahead(st[i]) PROVE TasksLeft' < TasksLeft
  <2>1. PICK k \in {1, 2, 3, 4} : Ahead(st'[i]) < k /\ k <= Ahead(st[i])
    <3>1. Ahead(st[i]) \in {1, 2, 3, 4}
      BY <1>1, <1>4
    <3> QED
      BY <1>1, <1>4, <3>1
  <2>2. i \in Behind(k) /\ i \notin Behind(k)'
    BY <1>1, <2>1 DEF Behind
  <2>3. Cardinality(Behind(k)') < Cardinality(Behind(k))
    BY <1>2, <2>2
  <2> QED
    BY <1>2, <2>1, <2>3 DEF TasksLeft
<1> QED
  BY <1>3, <1>4

LEMMA TasksStay == st' = st => TasksLeft' = TasksLeft
BY DEF TasksLeft, Behind

\* What a task does uses up one of its awaits.
LEMMA TaskLowers ==
    ASSUME IInv, IInv', NEW t \in joinset, NEW a \in TaskStates, NEW b \in TaskStates,
           InState(t, a), Move(t, b), Ahead(b) < Ahead(a)
    PROVE  TasksLeft' \in 0 .. TasksLeft - 1
<1>1. t \subseteq Nodes /\ t # {}
  BY TaskFacts
<1>2. st \in [Nodes -> TaskStates] /\ st' \in [Nodes -> TaskStates]
  BY DEF IInv, TypeOK
<1>3. \A i \in Nodes : st'[i] = IF i \in t THEN b ELSE st[i]
  BY DEF Move
<1>4. \A i \in t : st[i] = a
  BY DEF InState
<1>5. \A i \in Nodes : Ahead(st[i]) \in 0 .. 4 /\ Ahead(st'[i]) \in 0 .. 4
  BY <1>2, AheadTypes
<1>6. \A i \in Nodes : Ahead(st'[i]) <= Ahead(st[i])
  <2> TAKE i \in Nodes
  <2>1. CASE i \in t
    BY <1>3, <1>4, <1>5, <2>1
  <2>2. CASE i \notin t
    BY <1>3, <1>5, <2>2
  <2> QED
    BY <2>1, <2>2
<1>7. \E i \in Nodes : st'[i] # st[i] /\ Ahead(st'[i]) < Ahead(st[i])
  <2>1. PICK i \in t : TRUE
    BY <1>1
  <2>2. i \in Nodes /\ Ahead(st'[i]) < Ahead(st[i])
    BY <1>1, <1>3, <1>4
  <2>3. st'[i] # st[i]
    BY <1>5, <2>2
  <2> QED
    BY <2>2, <2>3
<1>8. TasksLeft \in Nat /\ TasksLeft' \in 0 .. TasksLeft /\ TasksLeft' < TasksLeft
  BY <1>2, <1>6, <1>7, TasksLower, TasksCounted, NAssumption
<1> QED
  BY <1>8

\* What the phases count.
PhaseLeft ==
    CASE phase = "topo" -> StepsLeft + 2 * N + 3
      [] phase = "level" -> 2 * LevelsLeft + 2
      [] phase = "join" -> 2 * LevelsLeft + 1
      [] OTHER -> 0

LEMMA PhaseCounted ==
    ASSUME IInv, TightInv
    PROVE  /\ N \in Nat /\ Len(levels) \in 0 .. N
           /\ phase = "topo" => StepsLeft \in 0 .. 3 * N + 2 /\ lvl = 1
           /\ phase \in {"level", "join"} => LevelsLeft \in 0 .. N
           /\ phase = "join" => LevelsLeft \in 1 .. N
           /\ PhaseLeft \in 0 .. 5 * N + 5
<1>1. N \in Nat /\ Len(levels) \in 0 .. N /\ StepsLeft \in 0 .. 3 * N + 2
  BY SortBounds, StepsCounted DEF IInv
<1>2. phase = "topo" => lvl = 1
  BY DEF IInv, RunConsistent, PositionInv
<1>3. /\ phase \in {"level", "join"} => LevelsLeft \in 0 .. N
      /\ phase = "join" => LevelsLeft \in 1 .. N
  BY <1>1 DEF IInv, RunConsistent, PositionInv, TypeOK, LevelsLeft
<1>4. PhaseLeft \in 0 .. 5 * N + 5
  <2>1. CASE phase = "topo"
    BY <1>1, <2>1 DEF PhaseLeft
  <2>2. CASE phase = "level"
    BY <1>1, <1>3, <2>2 DEF PhaseLeft
  <2>3. CASE phase = "join"
    BY <1>1, <1>3, <2>3 DEF PhaseLeft
  <2>4. CASE phase \notin {"topo", "level", "join"}
    BY <1>1, <2>4 DEF PhaseLeft
  <2> QED
    BY <2>1, <2>2, <2>3, <2>4
<1> QED
  BY <1>1, <1>2, <1>3, <1>4

LEMMA RunCounted == IInv /\ TightInv => RunLeft \in 0 .. 9 * N + 5
<1> SUFFICES ASSUME IInv, TightInv PROVE RunLeft \in 0 .. 9 * N + 5
  OBVIOUS
<1>1. RunLeft = TasksLeft + PhaseLeft
  BY DEF RunLeft, PhaseLeft
<1> QED
  BY <1>1, PhaseCounted, TasksCounted

\* The steps of the tasks, with what they count.
LEMMA TaskStepLowers ==
    ASSUME IInv, IInv', TightInv, NEW t \in joinset,
           Sense(t) \/ Apply(t) \/ JoinTask(t) \/ TaskFails(t) \/ Abort(t)
    PROVE  /\ TasksLeft' \in 0 .. TasksLeft - 1
           /\ UNCHANGED <<topoVars, phase, lvl>>
<1> DEFINE L(s) == Ahead(s)
<1>1. /\ Ahead("spawned") = 3 /\ Ahead("applying") = 2 /\ Ahead("ended") = 1 /\ Ahead("error") = 1
      /\ Ahead("aborted") = 1 /\ Ahead("reported") = 0
  BY DEF Ahead
<1>2. \E a, b \in TaskStates : InState(t, a) /\ Move(t, b) /\ Ahead(b) < Ahead(a)
  <2>1. CASE Sense(t)
    <3>1. InState(t, "spawned") /\ (Move(t, "applying") \/ Move(t, "ended"))
      BY <2>1 DEF Sense
    <3> QED
      BY <1>1, <3>1 DEF TaskStates
  <2>2. CASE Apply(t)
    <3>1. InState(t, "applying") /\ Move(t, "ended")
      BY <2>2 DEF Apply
    <3> QED
      BY <1>1, <3>1 DEF TaskStates
  <2>3. CASE JoinTask(t)
    <3>1. InState(t, "ended") /\ Move(t, "reported")
      BY <2>3 DEF JoinTask
    <3> QED
      BY <1>1, <3>1 DEF TaskStates
  <2>4. CASE TaskFails(t)
    <3>1. (InState(t, "spawned") \/ InState(t, "applying")) /\ Move(t, "error")
      BY <2>4 DEF TaskFails
    <3> QED
      BY <1>1, <3>1 DEF TaskStates
  <2>5. CASE Abort(t)
    <3>1. (InState(t, "spawned") \/ InState(t, "applying")) /\ Move(t, "aborted")
      BY <2>5 DEF Abort
    <3> QED
      BY <1>1, <3>1 DEF TaskStates
  <2> QED
    BY <2>1, <2>2, <2>3, <2>4, <2>5
<1>3. TasksLeft' \in 0 .. TasksLeft - 1
  BY <1>2, TaskLowers
<1> QED
  BY <1>3 DEF Sense, Apply, JoinTask, TaskFails, Abort

\* A step that raises neither part and lowers one lowers the sum.
LEMMA SumLowers ==
    ASSUME NEW a, NEW b, NEW c, NEW d, a \in Nat, b \in Nat, c \in 0 .. a, d \in 0 .. b,
           c < a \/ d < b
    PROVE  c + d \in 0 .. (a + b) - 1
OBVIOUS

\* So does one that lowers a part of it while the rest stays.
LEMMA ShiftLowers ==
    ASSUME NEW a \in Nat, NEW b \in 0 .. a - 1, NEW k \in Nat
    PROVE  b + 2 * k + 3 \in 0 .. (a + 2 * k + 3) - 1
OBVIOUS

\* Every step of a run lowers what the run has left.
LEMMA RunStepLowers ==
    ASSUME IInv, IInv', TightInv, TightInv', Next, runs' = runs
    PROVE  RunLeft' \in 0 .. RunLeft - 1
<1>1. /\ RunLeft = TasksLeft + PhaseLeft /\ RunLeft' = TasksLeft' + PhaseLeft'
      /\ TasksLeft \in Nat /\ PhaseLeft \in Nat
  <2>1. RunLeft = TasksLeft + PhaseLeft /\ RunLeft' = TasksLeft' + PhaseLeft'
    BY DEF RunLeft, PhaseLeft
  <2> QED
    BY <2>1, PhaseCounted, TasksCounted, NAssumption
<1>2. /\ N \in Nat /\ Len(levels) \in 0 .. N
      /\ phase = "topo" => StepsLeft \in 0 .. 3 * N + 2 /\ lvl = 1
      /\ phase \in {"level", "join"} => LevelsLeft \in 0 .. N
      /\ phase = "join" => LevelsLeft \in 1 .. N
  BY PhaseCounted
<1>3. ASSUME TasksLeft' \in 0 .. TasksLeft, PhaseLeft' \in 0 .. PhaseLeft,
             TasksLeft' < TasksLeft \/ PhaseLeft' < PhaseLeft
      PROVE  RunLeft' \in 0 .. RunLeft - 1
  BY <1>1, <1>3, SumLowers
<1>4. ASSUME TasksLeft' \in 0 .. TasksLeft, PhaseLeft' \in 0 .. PhaseLeft - 1
      PROVE  RunLeft' \in 0 .. RunLeft - 1
  <2>1. PhaseLeft' \in 0 .. PhaseLeft /\ PhaseLeft' < PhaseLeft
    BY <1>1, <1>4
  <2> QED
    BY <1>3, <1>4, <2>1
<1>5. ASSUME st' = st, PhaseLeft' \in 0 .. PhaseLeft - 1 PROVE RunLeft' \in 0 .. RunLeft - 1
  <2>1. TasksLeft' \in 0 .. TasksLeft
    BY <1>1, <1>5, TasksStay
  <2> QED
    BY <1>4, <1>5, <2>1
<1>6. CASE TopoStep
  <2>1. phase = "topo" /\ phase' = "topo" /\ st' = st /\ TopoNext
    BY <1>6 DEF TopoStep, runVars
  <2>2. StepsLeft' \in 0 .. StepsLeft - 1
    BY <2>1, StepLowers DEF IInv
  <2>3. PhaseLeft = StepsLeft + 2 * N + 3 /\ PhaseLeft' = StepsLeft' + 2 * N + 3
    BY <2>1 DEF PhaseLeft
  <2>4. StepsLeft \in Nat
    BY <1>2, <2>1
  <2>5. StepsLeft' + 2 * N + 3 \in 0 .. (StepsLeft + 2 * N + 3) - 1
    BY <2>2, <2>4, ShiftLowers, NAssumption
  <2>6. PhaseLeft' \in 0 .. PhaseLeft - 1
    BY <2>3, <2>5
  <2> QED
    BY <1>5, <2>1, <2>6
<1>7. CASE StartLevels \/ RejectPlan
  <2>1. /\ phase = "topo" /\ phase' \in {"level", "failed"} /\ st' = st /\ lvl' = lvl /\ levels' = levels
        /\ topo \in {"ok", "unknown", "cycle"}
    BY <1>7 DEF StartLevels, RejectPlan, topoVars
  <2>2. StepsLeft = 0
    BY <2>1 DEF StepsLeft
  <2>3. LevelsLeft' = Len(levels)
    BY <1>2, <2>1 DEF LevelsLeft
  <2>4. PhaseLeft = 2 * N + 3
    BY <1>2, <2>1, <2>2 DEF PhaseLeft
  <2>5. PhaseLeft' \in {0, 2 * Len(levels) + 2}
    BY <2>1, <2>3 DEF PhaseLeft
  <2> QED
    BY <1>2, <1>5, <2>1, <2>4, <2>5
<1>8. CASE DispatchLevel
  <2>1. phase = "level" /\ phase' = "join" /\ lvl' = lvl /\ levels' = levels /\ lvl <= Len(levels)
    BY <1>8 DEF DispatchLevel, topoVars
  <2>2. LevelsLeft' = LevelsLeft
    BY <2>1 DEF LevelsLeft
  <2>3. PhaseLeft = 2 * LevelsLeft + 2 /\ PhaseLeft' = 2 * LevelsLeft + 1
    BY <2>1, <2>2 DEF PhaseLeft
  <2>4. /\ st \in [Nodes -> TaskStates] /\ st' \in [Nodes -> TaskStates]
        /\ \A i \in levels[lvl] : i \in Nodes => st[i] = "idle"
    <3>1. \A i \in levels[lvl] : i \notin Before(lvl)
      BY <2>1, LevelFacts DEF IInv, TypeOK
    <3> QED
      BY <2>1, <3>1 DEF IInv, TypeOK, RunConsistent, PositionInv
  <2>5. \A i \in Nodes : st'[i] = st[i] \/ (st[i] = "idle" /\ st'[i] \in {"reported", "spawned"})
    BY <1>8, <2>4 DEF DispatchLevel
  <2>6. \A i \in Nodes : Ahead(st'[i]) <= Ahead(st[i])
    <3>1. Ahead("idle") = 4 /\ Ahead("spawned") = 3 /\ Ahead("reported") = 0
      BY DEF Ahead
    <3>2. \A i \in Nodes : Ahead(st[i]) \in 0 .. 4
      BY <2>4, AheadTypes
    <3> TAKE i \in Nodes
    <3>3. CASE st'[i] = st[i]
      BY <3>2, <3>3
    <3>4. CASE st[i] = "idle" /\ st'[i] = "reported"
      BY <3>1, <3>4
    <3>5. CASE st[i] = "idle" /\ st'[i] = "spawned"
      BY <3>1, <3>5
    <3> QED
      BY <2>5, <3>3, <3>4, <3>5
  <2>7. TasksLeft' \in 0 .. TasksLeft
    BY <2>4, <2>6, TasksLower
  <2> QED
    BY <1>2, <1>4, <2>1, <2>3, <2>7
<1>9. CASE \E t \in joinset : Sense(t) \/ Apply(t) \/ JoinTask(t) \/ TaskFails(t) \/ Abort(t)
  <2>1. TasksLeft' \in 0 .. TasksLeft - 1 /\ UNCHANGED <<topoVars, phase, lvl>>
    BY <1>9, TaskStepLowers
  <2>2. PhaseLeft' = PhaseLeft
    BY <2>1 DEF PhaseLeft, StepsLeft, LevelsLeft, topoVars
  <2>3. /\ TasksLeft' \in 0 .. TasksLeft /\ TasksLeft' < TasksLeft
        /\ PhaseLeft' \in 0 .. PhaseLeft
    BY <1>1, <2>1, <2>2
  <2> QED
    BY <1>3, <2>3
<1>10. CASE \E t \in joinset : JoinError(t)
  <2>1. phase = "join" /\ phase' = "failed" /\ st' = st
    BY <1>10 DEF JoinError
  <2>2. PhaseLeft = 2 * LevelsLeft + 1 /\ PhaseLeft' = 0
    BY <2>1 DEF PhaseLeft
  <2> QED
    BY <1>2, <1>5, <2>1, <2>2
<1>11. CASE EndLevel
  <2>1. phase = "join" /\ phase' = "level" /\ lvl' = lvl + 1 /\ levels' = levels /\ st' = st
    BY <1>11 DEF EndLevel, topoVars
  <2>2. LevelsLeft' = LevelsLeft - 1
    BY <1>2, <2>1 DEF LevelsLeft, IInv, TypeOK
  <2>3. PhaseLeft = 2 * LevelsLeft + 1 /\ PhaseLeft' = 2 * (LevelsLeft - 1) + 2
    BY <2>1, <2>2 DEF PhaseLeft
  <2> QED
    BY <1>2, <1>5, <2>1, <2>3
<1>12. CASE Finish
  <2>1. phase = "level" /\ phase' = "ok" /\ st' = st
    BY <1>12 DEF Finish
  <2>2. PhaseLeft = 2 * LevelsLeft + 2 /\ PhaseLeft' = 0
    BY <2>1 DEF PhaseLeft
  <2> QED
    BY <1>2, <1>5, <2>1, <2>2
<1>13. CASE Crash
  <2>1. /\ phase \in {"topo", "level", "join"} /\ phase' = "failed"
        /\ st' = [i \in Nodes |-> IF st[i] = "spawned" THEN "aborted" ELSE st[i]]
    BY <1>13 DEF Crash
  <2>2. PhaseLeft' = 0
    BY <2>1 DEF PhaseLeft
  <2>3. PhaseLeft > 0
    <3>1. CASE phase = "topo"
      BY <1>2, <3>1 DEF PhaseLeft
    <3>2. CASE phase = "level"
      BY <1>2, <3>2 DEF PhaseLeft
    <3>3. CASE phase = "join"
      BY <1>2, <3>3 DEF PhaseLeft
    <3> QED
      BY <2>1, <3>1, <3>2, <3>3
  <2>4. st \in [Nodes -> TaskStates] /\ st' \in [Nodes -> TaskStates]
    BY DEF IInv, TypeOK
  <2>7. PhaseLeft' \in 0 .. PhaseLeft - 1
    BY <1>1, <2>2, <2>3
  <2>5. \A i \in Nodes : Ahead(st'[i]) <= Ahead(st[i])
    <3>1. Ahead("spawned") = 3 /\ Ahead("aborted") = 1
      BY DEF Ahead
    <3>2. \A i \in Nodes : Ahead(st[i]) \in 0 .. 4
      BY <2>4, AheadTypes
    <3> TAKE i \in Nodes
    <3>3. CASE st[i] = "spawned"
      <4>1. st'[i] = "aborted"
        BY <2>1, <3>3
      <4> QED
        BY <3>1, <3>3, <4>1
    <3>4. CASE st[i] # "spawned"
      <4>1. st'[i] = st[i]
        BY <2>1, <3>4
      <4> QED
        BY <3>2, <4>1
    <3> QED
      BY <3>3, <3>4
  <2>6. TasksLeft' \in 0 .. TasksLeft
    BY <2>4, <2>5, TasksLower
  <2> QED
    BY <1>4, <2>6, <2>7
<1>14. ~Rerun
  BY DEF Rerun, IInv, TypeOK
<1> QED
  BY <1>6, <1>7, <1>8, <1>9, <1>10, <1>11, <1>12, <1>13, <1>14 DEF Next, Progress

\* A run of N resources is over after at most 9N + 5 steps, whichever tasks
\* fail, are dropped or killed: this is what RunTerminates rests on, without
\* the assumption that the steps are taken.
THEOREM RunIsBounded == Spec => [](RunLeft \in 0 .. 9 * N + 5) /\ RunEnds
<1>1. IInv /\ TightInv => RunLeft \in 0 .. 9 * N + 5
  BY RunCounted
<1>2. IInv /\ IInv' /\ TightInv /\ TightInv' /\ [Next]_vars
          => [runs' = runs => RunLeft' \in 0 .. RunLeft - 1]_vars
  BY RunStepLowers
<1> QED
  BY <1>1, <1>2, RunInvariant, TightInRuns, PTL DEF Spec, RunEnds

\* The join loop never waits for a task that cannot go on, and what is left in
\* flight by a failed run can end.
THEOREM NoTaskIsStuck == Spec => []TasksGoOn
<1>1. IInv => TasksGoOn
  <2> SUFFICES ASSUME IInv PROVE TasksGoOn
    OBVIOUS
  <2>1. /\ st \in [Nodes -> TaskStates] /\ joinset \in SUBSET (SUBSET Nodes)
        /\ \A t \in joinset : t # {} /\ \A i, j \in t : st[i] = st[j]
        /\ \A t \in joinset : \A i \in t : st[i] \notin {"idle", "reported"}
        /\ \A i \in Nodes : st[i] \in {"spawned", "applying", "ended", "error"}
                                  <=> st[i] # "aborted" /\ i \in UNION joinset
    BY DEF IInv, TypeOK, RunConsistent, TaskInv, OneTaskEach
  <2>2. ASSUME phase = "join", NEW t \in joinset
        PROVE  \E s \in {"spawned", "applying", "ended", "error"} : InState(t, s)
    <3>2. PICK i \in t : TRUE
      BY <2>1
    <3>3. i \in Nodes /\ t \subseteq levels[lvl]
      BY <2>1, <2>2, TaskFacts
    <3>4. st[i] \in {"spawned", "applying", "ended", "error"}
      <4>1. st[i] # "aborted"
        BY <2>2, <3>3 DEF IInv, RunConsistent, PositionInv
      <4> QED
        BY <2>1, <3>3, <4>1
    <3>5. InState(t, st[i])
      BY <2>1 DEF InState
    <3> QED
      BY <3>4, <3>5
  <2>3. ASSUME NEW i \in Nodes, st[i] \in {"spawned", "applying"}
        PROVE  \E t \in joinset : i \in t /\ InState(t, st[i])
    <3>1. PICK t \in joinset : i \in t
      BY <2>1, <2>3
    <3>2. InState(t, st[i])
      BY <2>1, <3>1 DEF InState
    <3> QED
      BY <3>1, <3>2
  <2>4. phase = "join" => \A t \in joinset :
            \E s \in {"spawned", "applying", "ended", "error"} : InState(t, s)
    BY <2>2
  <2>5. \A i \in Nodes : st[i] \in {"spawned", "applying"} =>
            \E t \in joinset : i \in t /\ InState(t, st[i])
    BY <2>3
  <2> QED
    BY <2>4, <2>5 DEF TasksGoOn
<1> QED
  BY <1>1, RunInvariant, PTL

=============================================================================
