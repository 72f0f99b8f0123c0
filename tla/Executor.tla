------------------------------ MODULE Executor ------------------------------
(***************************************************************************)
(* Executor::run and run_level (src/src/executor.rs) on one plan, with the *)
(* part of Env they share with the resources (the set of changed ids, the  *)
(* run mode, the container flag), the host the resources act on, the tasks *)
(* that the first error aborts, and the operator who runs the program      *)
(* again after a failed, killed or successful run.                         *)
(*                                                                         *)
(* compute_topo_levels is TopoLevels, extended here.  A resource is known  *)
(* by its Kind, which decides what converge_one senses and when it acts:   *)
(*   "state"    senses the host (File, AptPackage, SystemdUnit, User, ...) *)
(*   "service"  senses the host and restart_on                             *)
(*   "command"  a Command without trigger_on                               *)
(*   "handler"  a Command with trigger_on                                  *)
(*   "marker"   a Marker, always Changed::No                               *)
(* A TASK is the set of the resources one spawned future converges: all    *)
(* the level's resources of a family with a registered Batcher, or one.    *)
(***************************************************************************)
EXTENDS TopoLevels

CONSTANTS
    Kind,      \* Kind[i]: see above
    Trigger,   \* Trigger[i]: restart_on of a service, trigger_on of a handler
    Family,    \* Family[i]: batch_family(), or "none"
    SkipWhen,  \* SkipWhen[i]: skip_when(), "Never" or "InContainer"
    MaxRuns    \* bound: how often the program is run

Kinds == {"state", "service", "command", "handler", "marker"}
\* The families Executor::new registers a Batcher for.
Batchers == {"AptPackage", "AbsentAptPackage"}
Families == Batchers \cup {"none", "AptRepo"}

ASSUME ResourceAssumption ==
    /\ Kind \in [Nodes -> Kinds]
    /\ Trigger \in [Nodes -> SUBSET Nodes]
    /\ Family \in [Nodes -> Families]
    /\ SkipWhen \in [Nodes -> {"Never", "InContainer"}]
    /\ MaxRuns \in Nat

\* The bundles list every trigger in deps as well; the executor never checks
\* it.  Only services and handlers have triggers.
ASSUME TriggerAssumption ==
    \A i \in Nodes :
        /\ Trigger[i] # {} => Kind[i] \in {"service", "handler"}
        /\ \A p \in Plans : Trigger[i] \subseteq {p[i][k] : k \in DOMAIN p[i]}

VARIABLES
    phase,         \* where run() is: "topo", "level", "join", "ok", "failed"
    lvl,           \* level_idx, from 1
    joinset,       \* joinset: the tasks spawned and not yet joined
    st,            \* st[i]: how far resource i's future is
    need,          \* the resources that sensed a difference
    report,        \* report.outcomes
    reportBefore,  \* report.outcomes[..outcomes_before]
    changed,       \* RunState.changed
    runMode,       \* RunMode: "Apply" or "DryRun"
    place,         \* "container" or "machine": is_container
    drift,         \* host: the resources whose sensed state is not the one
                   \* they ask for
    stale,         \* host: the services and handlers that have not run since
                   \* a resource they are triggered by last acted
    runs,          \* how often the program was started
    failures       \* how many of the earlier runs in Apply mode failed

runVars == <<phase, lvl, joinset, st, need, report, reportBefore, changed>>
hostVars == <<drift, stale>>
envVars == <<runMode, place, runs, failures>>
vars == <<topoVars, runVars, hostVars, envVars>>

RunModes == {"Apply", "DryRun"}
Places == {"container", "machine"}

DryRun == runMode = "DryRun"

\* idle      not dispatched            applying  the change is being made
\* spawned   the future is spawned     ended     Ok, not joined yet
\* error     Err or panicked           aborted   dropped with the JoinSet
\* reported  in the report
TaskStates == {"idle", "spawned", "applying", "ended", "error", "aborted",
               "reported"}

\* The resources whose state on the host is sensed.
Sensed == {i \in Nodes : Kind[i] \in {"state", "service"}}

\* What main() and Executor::run start from.
RunReset ==
    /\ TopoReset
    /\ phase = "topo"
    /\ lvl = 1
    /\ joinset = {}
    /\ st = [i \in Nodes |-> "idle"]
    /\ need = {}
    /\ report = {}
    /\ reportBefore = {}
    /\ changed = {}

Init ==
    /\ deps \in Plans
    /\ RunReset
    /\ runMode \in RunModes
    /\ place \in Places
    /\ drift \in SUBSET Sensed
    /\ stale = {}
    /\ runs = 1
    /\ failures = 0

-----------------------------------------------------------------------------
(* run(): the plan is sorted, or rejected.                                 *)

TopoStep ==
    /\ phase = "topo"
    /\ TopoNext
    /\ UNCHANGED <<runVars, hostVars, envVars>>

StartLevels ==
    /\ phase = "topo"
    /\ topo = "ok"
    /\ phase' = "level"
    /\ UNCHANGED <<topoVars, lvl, joinset, st, need, report, reportBefore,
                   changed, hostVars, envVars>>

RejectPlan ==
    /\ phase = "topo"
    /\ topo \in {"unknown", "cycle"}
    /\ phase' = "failed"
    /\ UNCHANGED <<topoVars, lvl, joinset, st, need, report, reportBefore,
                   changed, hostVars, envVars>>

-----------------------------------------------------------------------------
(* run_level(): skip, group and spawn.                                     *)

\* A plausible bug: the container test is inverted.
SkippedOutsideContainer == {i \in Nodes : SkipWhen[i] = "InContainer" /\ place # "container"}
\* The resources whose skip_when() matches.
Skipped == {i \in Nodes : SkipWhen[i] = "InContainer" /\ place = "container"}

\* A plausible bug: the skipped resources are left out of the report.
SkipOutcomesMissing(L) == {}
SkipOutcomes(L) == {[id |-> i, changed |-> "Skipped"] : i \in L \cap Skipped}

Batch(L, f) == {i \in L \ Skipped : Family[i] = f}

\* One task per registered family with members, one per other resource.
Tasks(L) ==
    {Batch(L, f) : f \in {f \in Batchers : Batch(L, f) # {}}}
        \cup {{i} : i \in {i \in L \ Skipped : Family[i] \notin Batchers}}

DispatchLevel ==
    /\ phase = "level"
    /\ lvl <= Len(levels)
    /\ LET L == levels[lvl]
       IN  /\ report' = report \cup SkipOutcomes(L)
           /\ joinset' = Tasks(L)
           /\ st' = [i \in Nodes |-> IF i \in L \cap Skipped THEN "reported"
                                     ELSE IF i \in L THEN "spawned" ELSE st[i]]
    /\ reportBefore' = report
    /\ phase' = "join"
    /\ UNCHANGED <<topoVars, lvl, need, changed, hostVars, envVars>>

-----------------------------------------------------------------------------
(* The tasks: run_one and run_batched with the resources they converge.    *)
(* They run beside each other and beside the join loop; a task that is     *)
(* being polled when the JoinSet is dropped finishes its step.             *)

InState(t, s) == \A i \in t : st[i] = s
Move(t, s) == st' = [i \in Nodes |-> IF i \in t THEN s ELSE st[i]]

\* A plausible bug: every trigger must have changed, rather than any.
AllTriggered(i) == Trigger[i] # {} /\ Trigger[i] \subseteq changed
\* Env::any_changed(restart_on or trigger_on)
Triggered(i) == Trigger[i] \cap changed # {}

\* Whether converge_one goes on to act.
Needs(i) ==
    \/ Kind[i] \in {"state", "service"} /\ i \in drift
    \/ Kind[i] \in {"service", "handler"} /\ Triggered(i)
    \/ Kind[i] = "command"

\* A plausible bug: the dry-run return is missing.
MustActAlways(t) == \E i \in t : Needs(i)
MustAct(t) == ~DryRun /\ \E i \in t : Needs(i)

\* Sense and compare; without a difference, and in a dry run, that is all.
Sense(t) ==
    /\ t \in joinset
    /\ InState(t, "spawned")
    /\ need' = need \cup {i \in t : Needs(i)}
    /\ Move(t, IF MustAct(t) THEN "applying" ELSE "ended")
    /\ UNCHANGED <<topoVars, phase, lvl, joinset, report, reportBefore,
                   changed, hostVars, envVars>>

\* The actions of the resources D reach the host: D is in its desired state,
\* and what is triggered by D has to run again.
Lands(D) ==
    /\ drift' = drift \ D
    /\ stale' = (stale \ D) \cup {s \in Nodes : Trigger[s] \cap D # {}}

\* The change is made and converge returns Ok.
Apply(t) ==
    /\ t \in joinset
    /\ InState(t, "applying")
    /\ Lands(t \cap need)
    /\ Move(t, "ended")
    /\ UNCHANGED <<topoVars, phase, lvl, joinset, need, report, reportBefore,
                   changed, envVars>>

\* A plausible bug: a task that fails is tried again.
TaskRetried(t) ==
    /\ t \in joinset
    /\ \/ InState(t, "spawned") /\ UNCHANGED hostVars
       \/ InState(t, "applying") /\ \E D \in SUBSET (t \cap need) : Lands(D)
    /\ Move(t, "spawned")
    /\ UNCHANGED <<topoVars, phase, lvl, joinset, need, report, reportBefore,
                   changed, envVars>>

\* converge returns Err or panics, before the change or part way through it.
TaskFails(t) ==
    /\ t \in joinset
    /\ \/ InState(t, "spawned") /\ UNCHANGED hostVars
       \/ InState(t, "applying") /\ \E D \in SUBSET (t \cap need) : Lands(D)
    /\ Move(t, "error")
    /\ UNCHANGED <<topoVars, phase, lvl, joinset, need, report, reportBefore,
                   changed, envVars>>

\* After the first error the futures still running are dropped at their next
\* await; a command or blocking call already issued may still take effect.
Abort(t) ==
    /\ phase = "failed"
    /\ t \in joinset
    /\ \/ InState(t, "spawned") /\ UNCHANGED hostVars
       \/ InState(t, "applying") /\ \E D \in SUBSET (t \cap need) : Lands(D)
    /\ Move(t, "aborted")
    /\ UNCHANGED <<topoVars, phase, lvl, joinset, need, report, reportBefore,
                   changed, envVars>>

-----------------------------------------------------------------------------
(* run_level()'s join loop and the end of the level in run().              *)

Outcome(i) ==
    [id |-> i, changed |-> IF i \in Skipped THEN "Skipped"
                           ELSE IF i \in need THEN "Yes" ELSE "No"]

JoinTask(t) ==
    /\ phase = "join"
    /\ t \in joinset
    /\ InState(t, "ended")
    /\ joinset' = joinset \ {t}
    /\ report' = report \cup {Outcome(i) : i \in t}
    /\ Move(t, "reported")
    /\ UNCHANGED <<topoVars, phase, lvl, need, reportBefore, changed,
                   hostVars, envVars>>

\* The `??` of the join loop: run() returns, the report and the changes of
\* this level are dropped, the other tasks are aborted.
JoinError(t) ==
    /\ phase = "join"
    /\ t \in joinset
    /\ InState(t, "error")
    /\ phase' = "failed"
    /\ UNCHANGED <<topoVars, lvl, joinset, st, need, report, reportBefore,
                   changed, hostVars, envVars>>

\* A plausible bug: one result is awaited for every resource of the level.
DrainedPerResource == joinset = {} /\ levels[lvl] \cap Skipped = {}
\* A plausible bug: the level ends with its first result.
DrainedEarly == \E i \in levels[lvl] : st[i] = "reported"
Drained == joinset = {}

\* The outcomes of this level that are Changed::Yes.
FreshChanges == {o \in report \ reportBefore : o.changed = "Yes"}

EndLevel ==
    /\ phase = "join"
    /\ Drained
    /\ changed' = changed \cup {o.id : o \in FreshChanges}
    /\ lvl' = lvl + 1
    /\ phase' = "level"
    /\ UNCHANGED <<topoVars, joinset, st, need, report, reportBefore,
                   hostVars, envVars>>

Finish ==
    /\ phase = "level"
    /\ lvl > Len(levels)
    /\ phase' = "ok"
    /\ UNCHANGED <<topoVars, lvl, joinset, st, need, report, reportBefore,
                   changed, hostVars, envVars>>

-----------------------------------------------------------------------------
(* The process and its operator.                                           *)

\* The process is killed: nothing is polled again, what was issued may land.
Crash ==
    /\ phase \in {"topo", "level", "join"}
    /\ phase' = "failed"
    /\ st' = [i \in Nodes |-> IF st[i] = "spawned" THEN "aborted" ELSE st[i]]
    /\ UNCHANGED <<topoVars, lvl, joinset, need, report, reportBefore,
                   changed, hostVars, envVars>>

\* A plausible bug: the changed ids outlive the process.
RunStateKept == changed
\* RunState is made by Env::detect, in memory, for every run.
RunStateFresh == {}

\* Once everything issued has ended the program is run again, with or without
\* --dry-run, on a host or with a configuration that may have drifted.
Rerun ==
    /\ phase \in {"ok", "failed"}
    /\ runs < MaxRuns
    /\ \A i \in Nodes : st[i] \notin {"spawned", "applying"}
    /\ TopoRestart
    /\ phase' = "topo"
    /\ lvl' = 1
    /\ joinset' = {}
    /\ st' = [i \in Nodes |-> "idle"]
    /\ need' = {}
    /\ report' = {}
    /\ reportBefore' = {}
    /\ changed' = RunStateFresh
    /\ runMode' \in RunModes
    /\ \E D \in SUBSET Sensed : drift' = drift \cup D
    /\ runs' = runs + 1
    /\ failures' = IF phase = "failed" /\ ~DryRun THEN failures + 1 ELSE failures
    /\ UNCHANGED <<deps, place, stale>>

\* The steps the program takes by itself when every command it waits for
\* returns.
Progress ==
    \/ TopoStep
    \/ StartLevels
    \/ RejectPlan
    \/ DispatchLevel
    \/ \E t \in joinset : Sense(t)
    \/ \E t \in joinset : Apply(t)
    \/ \E t \in joinset : JoinTask(t)
    \/ \E t \in joinset : JoinError(t)
    \/ EndLevel
    \/ Finish

Next ==
    \/ Progress
    \/ \E t \in joinset : TaskFails(t)
    \/ \E t \in joinset : Abort(t)
    \/ Crash
    \/ Rerun

Spec == Init /\ [][Next]_vars

\* tokio polls every ready task, and the external commands end: no future
\* has a timeout, so that they end is an assumption on them.
FairSpec == Spec /\ WF_vars(Progress)

-----------------------------------------------------------------------------
(* What the executor must guarantee.                                       *)

Reported == {i \in Nodes : st[i] = "reported"}
Live == {i \in Nodes : ~(SkipWhen[i] = "InContainer" /\ place = "container")}
ChangeReported == {i \in Nodes : [id |-> i, changed |-> "Yes"] \in report}

\* The variables keep their ranges.
TypeOK ==
    /\ TopoTypeOK
    /\ phase \in {"topo", "level", "join", "ok", "failed"}
    /\ lvl \in Nat \ {0}
    /\ joinset \in SUBSET (SUBSET Nodes)
    /\ st \in [Nodes -> TaskStates]
    /\ need \in SUBSET Nodes
    /\ report \in SUBSET [id : Nodes, changed : {"Yes", "No", "Skipped"}]
    /\ reportBefore \in SUBSET report
    /\ changed \in SUBSET Nodes
    /\ runMode \in RunModes
    /\ place \in Places
    /\ drift \in SUBSET Nodes
    /\ stale \in SUBSET Nodes
    /\ runs \in Nat
    /\ failures \in Nat

\* Every task that the join loop waits for can make its next step, or be joined
\* with its result or error, and none can be cut off behind its back; and what a
\* failed run has left in flight belongs to a task that can still end, so that
\* the program is not kept from being run again.
TasksGoOn ==
    /\ phase = "join" => \A t \in joinset :
           \E s \in {"spawned", "applying", "ended", "error"} : InState(t, s)
    /\ phase = "failed" => \A i \in Nodes : st[i] \in {"spawned", "applying"} =>
           \E t \in joinset : i \in t /\ InState(t, st[i])

\* No resource's future is spawned, nor the resource skipped, before every
\* dependency is in the report; so after an error nothing that depends on the
\* failed, dropped or unfinished resources ever starts, in whatever order
\* the tasks end.
DepsSettled == \A i \in Nodes : st[i] # "idle" => DepsOf(i) \subseteq Reported

\* A dependent that is spawned sees every change of its dependencies through
\* any_changed ("so resources in subsequent levels can react", src/src/env.rs),
\* and the executor records no change that a resource did not report.
ChangesVisible ==
    /\ \A i \in Nodes :
           st[i] # "idle" => DepsOf(i) \cap ChangeReported \subseteq changed
    /\ changed \subseteq ChangeReported

\* A resource is converged by one task only: the tasks of a level are
\* disjoint, and nothing is running outside of them.
OneTaskEach ==
    /\ \A t, u \in joinset : t # u => t \cap u = {}
    /\ \A i \in Nodes :
           st[i] \in {"spawned", "applying", "ended", "error"}
               <=> st[i] # "aborted" /\ i \in UNION joinset

\* A run that returns Ok has exactly one outcome for every resource of the
\* plan, and Skipped exactly where skip_when() matched.
ReportComplete ==
    phase = "ok" =>
        \A i \in Nodes :
            /\ \E c \in {"Yes", "No", "Skipped"} :
                   {o \in report : o.id = i} = {[id |-> i, changed |-> c]}
            /\ [id |-> i, changed |-> "Skipped"] \in report <=> i \notin Live

\* A run that returns Ok, not dry, leaves every resource it did not skip in
\* its desired state, as far as converge_one senses it, also when earlier runs
\* failed, were killed or had writes land after their end.
Converged == phase = "ok" /\ ~DryRun => drift \cap Live = {}

\* As long as no run has failed, a run that returns Ok leaves no service or
\* handler waiting for a restart or run it was to be triggered for.
NoLostTrigger == phase = "ok" /\ failures = 0 => stale \cap Live = {}

\* A resource is dispatched at most once per run: it never returns to an
\* earlier state of its future while the run lasts.
AtMostOnce ==
    [][\A i \in Nodes :
           /\ st[i] # "idle" /\ runs' = runs => st'[i] # "idle"
           /\ st'[i] = "spawned" => st[i] \in {"idle", "spawned"}
           /\ st[i] = "reported" /\ runs' = runs => st'[i] = "reported"]_vars

\* A service that needs no start is restarted, and a handler is run, only
\* when a trigger of it changed in this run, and not one of an earlier run.
NoSpuriousTrigger ==
    [][\A i \in need' \ need :
           Kind[i] \in {"service", "handler"} /\ i \notin drift
               => Trigger[i] \cap ChangeReported # {}]_vars

\* A dry run changes nothing on the host.
DryRunIsPure == [][DryRun /\ runs' = runs => UNCHANGED hostVars]_vars

\* Every run returns.
RunTerminates == (phase = "topo") ~> (phase \in {"ok", "failed"})

\* The awaits a resource's future has before it, and the resources that have
\* at least k of them.
Ahead(s) ==
    CASE s = "idle" -> 4 [] s = "spawned" -> 3 [] s = "applying" -> 2
      [] s \in {"ended", "error", "aborted"} -> 1 [] s = "reported" -> 0
Behind(k) == {i \in Nodes : Ahead(st[i]) >= k}
TasksLeft ==
    Cardinality(Behind(1)) + Cardinality(Behind(2)) + Cardinality(Behind(3)) + Cardinality(Behind(4))

\* How many steps a run can still take, with its sort, levels and tasks.
LevelsLeft == Len(levels) + 1 - lvl
RunLeft ==
    TasksLeft + CASE phase = "topo" -> StepsLeft + 2 * N + 3
                  [] phase = "level" -> 2 * LevelsLeft + 2
                  [] phase = "join" -> 2 * LevelsLeft + 1
                  [] OTHER -> 0

\* A run ends, whatever fails in it: of the steps it has at first, at most
\* 9N + 5 for N resources, every step uses up one, those of the tasks that are
\* dropped included.  Nothing is retried.
RunEnds == [][runs' = runs => RunLeft' \in 0 .. RunLeft - 1]_vars

\* What src/src/bundles/docker.rs says of restart_on with a bundle's Marker: a
\* change to any of the resources the Marker stands for restarts the service.
MarkerForwardsChange ==
    phase = "ok" =>
        \A s \in Live : \A m \in Trigger[s] :
            Kind[s] = "service" /\ Kind[m] = "marker"
                /\ DepsOf(m) \cap ChangeReported # {} => s \in ChangeReported

\* What src/src/bundles/common_tweaks.rs says of its handler `sysctl --system`,
\* that "the result converges": after a run that returns Ok, no handler has a
\* change of its triggers left to act on.
HandlersConverge ==
    phase = "ok" /\ ~DryRun =>
        \A i \in Live : Kind[i] = "handler" => i \notin stale

-----------------------------------------------------------------------------
(* The inductive invariant.                                                *)

\* Where run() is decides which resources are idle and which reported.
PositionInv ==
    /\ phase = "topo" =>
           /\ lvl = 1 /\ joinset = {} /\ need = {} /\ report = {} /\ changed = {}
           /\ \A i \in Nodes : st[i] = "idle"
    /\ phase \in {"level", "join", "ok"} =>
           /\ topo = "ok"
           /\ lvl <= Len(levels) + 1
           /\ \A i \in Before(lvl) : st[i] = "reported"
    /\ phase \in {"level", "ok"} =>
           joinset = {} /\ \A i \in Nodes \ Before(lvl) : st[i] = "idle"
    /\ phase = "join" =>
           /\ lvl <= Len(levels)
           /\ \A i \in levels[lvl] : st[i] \notin {"idle", "aborted"}
           /\ \A i \in Nodes \ (Before(lvl) \cup levels[lvl]) : st[i] = "idle"
    /\ phase = "ok" => lvl > Len(levels)

\* The members of a task move together, none of them is skipped, and in a
\* dry run none of them acts.
TaskInv ==
    /\ OneTaskEach
    /\ \A t \in joinset : t # {} /\ t \cap Skipped = {}
    /\ \A t \in joinset : \A i, j \in t : st[i] = st[j]
    /\ \A t \in joinset : \A i \in t : st[i] \notin {"idle", "reported"}
    /\ DryRun => \A i \in Nodes : st[i] # "applying"

\* The report and the changed set are what the settled resources sensed.
ReportInv ==
    /\ report = {Outcome(i) : i \in Reported}
    /\ need \cap Skipped = {}
    /\ \A i \in need : st[i] \notin {"idle", "spawned"}
    /\ phase = "join" => reportBefore = {Outcome(i) : i \in Before(lvl)}
    /\ phase \in {"level", "join", "ok"} => changed = need \cap Before(lvl)
    /\ changed \subseteq need \cap Reported

\* Dependencies are settled and their changes recorded for all that started.
OrderInv ==
    \A i \in Nodes :
        st[i] # "idle" => /\ DepsOf(i) \subseteq Reported
                          /\ DepsOf(i) \cap need \subseteq changed

\* What has been sensed as right or put right is not drifted.
DriftInv ==
    /\ drift \subseteq Sensed
    /\ ~DryRun =>
           \A i \in Live \cap drift :
               /\ st[i] \notin {"ended", "reported"}
               /\ st[i] = "applying" => i \in need

\* A service or handler that waits for a trigger has not passed it by: the
\* trigger has acted, and the waiting one has not sensed yet, or acts now.
StaleInv ==
    failures = 0 =>
        /\ DryRun \/ phase = "topo" => stale \cap Live = {}
        /\ \A s \in stale \cap Live :
               /\ \E d \in Trigger[s] \cap need :
                      st[d] \notin {"idle", "spawned", "applying"}
               /\ st[s] \notin {"ended", "reported"}
               /\ st[s] = "applying" => s \in need

\* The run in one formula: where it is, who is running, what is reported and
\* recorded, and what is left to do on the host always agree.
RunConsistent ==
    PositionInv /\ TaskInv /\ ReportInv /\ OrderInv /\ DriftInv /\ StaleInv

-----------------------------------------------------------------------------
(* The executor implements DagRun: a resource is running from its spawning *)
(* to its entry in the report, whatever becomes of the run.                *)

Plan == INSTANCE DagRun WITH
            state <- [i \in Nodes |->
                          IF st[i] = "idle" THEN "waiting"
                          ELSE IF st[i] = "reported" THEN "settled"
                          ELSE "running"],
            made <- ChangeReported,
            seen <- changed,
            verdict <- IF phase \in {"ok", "failed"} THEN phase ELSE "run"

\* Every behaviour of the executor is one that DagRun allows.
ImplementsDagRun == Plan!Spec

=============================================================================
