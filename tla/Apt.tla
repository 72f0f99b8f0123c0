-------------------------------- MODULE Apt --------------------------------
(***************************************************************************)
(* AptPackageBatcher and AbsentAptPackageBatcher (src/src/backends/), whose*)
(* batches share a level: command-not-found and docker's old packages are  *)
(* removed beside the packages that others install.  Each batch is a task  *)
(* that runs apt-get and waits for it; apt-get is a process of its own,    *)
(* which nobody stops when the task is dropped or the program dies, and of *)
(* two of them the second does not wait for dpkg's lock: it fails.         *)
(*                                                                         *)
(* Around it: apt-get that fails half way, others who hold the lock or     *)
(* install and remove packages between the runs, kills and power cuts.     *)
(***************************************************************************)
EXTENDS Naturals, FiniteSets

CONSTANTS
    Packages,
    Needs,      \* Needs[p]: the packages p depends on, directly or not
    Wanted,     \* the AptPackages of the level
    Unwanted,   \* its AbsentAptPackages
    MaxFaults   \* bound on what goes wrong

Batches == {"install", "remove"}

\* No package is asked for that needs one that shall be absent.
ASSUME PackageAssumption ==
    /\ IsFiniteSet(Packages)
    /\ Wanted \subseteq Packages /\ Unwanted \subseteq Packages
    /\ Needs \in [Packages -> SUBSET Packages]
    /\ \A p \in Packages : \A q \in Needs[p] : q # p /\ Needs[q] \subseteq Needs[p]
    /\ Wanted \cap Unwanted = {}
    /\ \A p \in Wanted : Needs[p] \cap Unwanted = {}
ASSUME FaultAssumption == MaxFaults \in Nat

VARIABLES
    phase,        \* "off", or the run: "run", "ok", "failed"
    mode,         \* RunMode
    pc,           \* pc[t]: the next await of batch t
    todo,         \* todo[t]: what batch t found to do, its Changed::Yes
    status,       \* host: dpkg's status of the packages: "ii", "half", "none"
    jobs,         \* host: the apt-get processes
    other,        \* host: somebody else holds dpkg's lock
    interrupted,  \* host: dpkg was interrupted and wants "dpkg --configure -a"
    alone,        \* the run started when no apt-get was left of an earlier one
    losses,       \* how often such a run had its batches collide
    faults        \* how much went wrong

runVars == <<phase, mode, pc, todo, alone>>
hostVars == <<status, jobs, other, interrupted>>
vars == <<runVars, hostVars, losses, faults>>

\* An apt-get: mine, the run waits for it; held, it has dpkg's lock.
Jobs == [batch : Batches, mine : BOOLEAN, held : BOOLEAN, todo : SUBSET Packages]

Asked(t) == IF t = "install" THEN Wanted ELSE Unwanted

-----------------------------------------------------------------------------
(* apt-get and dpkg.                                                       *)

\* What apt-get install or remove has left to do to the packages it is called
\* with, to what they need, and to what needs them.
Left(t, s) ==
    IF t = "install"
    THEN {p \in Packages : status[p] # "ii" /\ (p \in s \/ \E q \in s : p \in Needs[q])}
    ELSE {p \in Packages : status[p] # "none" /\ (p \in s \/ Needs[p] \cap s # {})}

Locked == other \/ \E j \in jobs : j.held

\* The job's task, if it still waits, goes on with r.
Tell(j, r) == pc' = IF j.mine THEN [pc EXCEPT ![j.batch] = r] ELSE pc

\* The run's two apt-gets meet.
Collide(j) == j.mine /\ alone /\ \E k \in jobs : k.mine /\ k.held /\ k.batch # j.batch

JobLocks(j) ==
    /\ ~j.held
    /\ ~Locked
    /\ ~interrupted
    /\ jobs' = (jobs \ {j}) \cup {[j EXCEPT !.held = TRUE]}
    /\ UNCHANGED <<runVars, status, other, interrupted, losses, faults>>
JobIsRefused(j) ==
    /\ ~j.held
    /\ Locked \/ interrupted
    /\ jobs' = jobs \ {j}
    /\ Tell(j, "error")
    /\ losses' = IF Collide(j) THEN losses + 1 ELSE losses
    /\ UNCHANGED <<phase, mode, todo, alone, status, other, interrupted, faults>>
\* Packages are installed after those they need, and removed before them.
Ready(j) ==
    {p \in Left(j.batch, j.todo) :
        IF j.batch = "install" THEN Needs[p] \cap Left(j.batch, j.todo) = {}
        ELSE \A q \in Left(j.batch, j.todo) : p \notin Needs[q]}
JobWorks(j) ==
    /\ j.held
    /\ \E p \in Ready(j) :
           status' = [status EXCEPT ![p] =
                          IF @ # "half" THEN "half"
                          ELSE IF j.batch = "install" THEN "ii" ELSE "none"]
    /\ UNCHANGED <<runVars, jobs, other, interrupted, losses, faults>>
JobEnds(j) ==
    /\ j.held
    /\ Left(j.batch, j.todo) = {}
    /\ jobs' = jobs \ {j}
    /\ Tell(j, "end")
    /\ UNCHANGED <<phase, mode, todo, alone, status, other, interrupted, losses, faults>>

-----------------------------------------------------------------------------
(* The batchers.                                                           *)

\* Nothing is known of the host.
Init ==
    /\ phase = "off"
    /\ mode = "Apply"
    /\ pc = [t \in Batches |-> "end"]
    /\ todo = [t \in Batches |-> {}]
    /\ status \in [Packages -> {"none", "ii"}]
    /\ \A p \in Packages : status[p] = "ii" => \A q \in Needs[p] : status[q] = "ii"
    /\ jobs = {}
    /\ other = FALSE
    /\ interrupted = FALSE
    /\ alone = FALSE
    /\ losses = 0
    /\ faults = 0

\* The level is reached.
Start(m) ==
    /\ phase = "off"
    /\ phase' = "run"
    /\ mode' = m
    /\ pc' = [t \in Batches |-> "query"]
    /\ alone' = (jobs = {})
    /\ UNCHANGED <<todo, hostVars, losses, faults>>

\* read_installed_packages: of dpkg's statuses only "ii" counts.
Installed == {p \in Packages : status[p] = "ii"}
\* A plausible bug: every "i" counts.
FoundHalfInstalled(t) ==
    IF t = "install" THEN {p \in Wanted : status[p] = "none"}
    ELSE {p \in Unwanted : status[p] # "none"}
\* A plausible bug: apt-get is left to find out what is there.
FoundAll(t) == Asked(t)
FoundToDo(t) == IF t = "install" THEN Wanted \ Installed ELSE Unwanted \cap Installed

\* A plausible bug: only the install batch looks at the mode.
AfterInstallQuery(t, s) ==
    IF s = {} \/ (mode = "DryRun" /\ t = "install") THEN "end"
    ELSE IF t = "install" THEN "update" ELSE "spawn"
AfterQuery(t, s) ==
    IF s = {} \/ mode = "DryRun" THEN "end"
    ELSE IF t = "install" THEN "update" ELSE "spawn"

Query(t) ==
    /\ phase = "run"
    /\ pc[t] = "query"
    /\ todo' = [todo EXCEPT ![t] = FoundToDo(t)]
    /\ pc' = [pc EXCEPT ![t] = AfterQuery(t, FoundToDo(t))]
    /\ UNCHANGED <<phase, mode, alone, hostVars, losses, faults>>

\* apt-get update
Update(t) ==
    /\ phase = "run"
    /\ pc[t] = "update"
    /\ pc' = [pc EXCEPT ![t] = "spawn"]
    /\ UNCHANGED <<phase, mode, todo, alone, hostVars, losses, faults>>

\* apt-get install, or apt-get remove
Spawn(t) ==
    /\ phase = "run"
    /\ pc[t] = "spawn"
    /\ jobs' = jobs \cup {[batch |-> t, mine |-> TRUE, held |-> FALSE, todo |-> todo[t]]}
    /\ pc' = [pc EXCEPT ![t] = "wait"]
    /\ UNCHANGED <<phase, mode, todo, alone, status, other, interrupted, losses, faults>>

Finish ==
    /\ phase = "run"
    /\ \A t \in Batches : pc[t] = "end"
    /\ phase' = "ok"
    /\ UNCHANGED <<mode, pc, todo, alone, hostVars, losses, faults>>

Orphans == {[j EXCEPT !.mine = FALSE] : j \in jobs}

\* The first error drops the other task; its apt-get goes on.
Stop ==
    /\ phase = "run"
    /\ \E t \in Batches : pc[t] = "error"
    /\ phase' = "failed"
    /\ pc' = [t \in Batches |-> "end"]
    /\ jobs' = Orphans
    /\ UNCHANGED <<mode, todo, alone, status, other, interrupted, losses, faults>>

Exit ==
    /\ phase \in {"ok", "failed"}
    /\ phase' = "off"
    /\ todo' = [t \in Batches |-> {}]
    /\ alone' = FALSE
    /\ UNCHANGED <<mode, pc, hostVars, losses, faults>>

-----------------------------------------------------------------------------
(* What goes wrong, at most MaxFaults times.                               *)

Fault == faults < MaxFaults /\ faults' = faults + 1

\* dpkg-query fails, or apt-get update, or a process cannot be spawned.
TaskFails(t) ==
    /\ Fault
    /\ phase = "run"
    /\ pc[t] \in {"query", "update", "spawn"}
    /\ pc' = [pc EXCEPT ![t] = "error"]
    /\ UNCHANGED <<phase, mode, todo, alone, hostVars, losses>>
\* A download, a maintainer script.
JobFails(j) ==
    /\ Fault
    /\ jobs' = jobs \ {j}
    /\ Tell(j, "error")
    /\ UNCHANGED <<phase, mode, todo, alone, status, other, interrupted, losses>>
\* The program is killed; or the machine is, or all of the terminal's
\* processes are, and dpkg with them.
Kill ==
    /\ Fault
    /\ phase = "run"
    /\ phase' = "failed"
    /\ pc' = [t \in Batches |-> "end"]
    /\ \/ jobs' = Orphans /\ UNCHANGED interrupted
       \/ /\ jobs' = {}
          /\ interrupted' \in {interrupted, interrupted \/ \E j \in jobs : j.held}
    /\ UNCHANGED <<mode, todo, alone, status, other, losses>>
\* unattended-upgrades, or a user's apt.
OtherLocks ==
    /\ Fault
    /\ ~Locked
    /\ other' = TRUE
    /\ UNCHANGED <<runVars, status, jobs, interrupted, losses>>
OtherUnlocks ==
    /\ other
    /\ other' = FALSE
    /\ UNCHANGED <<runVars, status, jobs, interrupted, losses, faults>>
\* Others install and remove packages between the runs.
Drift ==
    /\ Fault
    /\ phase = "off"
    /\ ~Locked
    /\ \E p \in Packages, s \in {"none", "ii"} :
           /\ status' = [status EXCEPT ![p] = s]
           /\ s = "ii" => \A q \in Needs[p] : status[q] = "ii"
           /\ s = "none" => \A q \in Packages : p \in Needs[q] => status[q] # "ii"
    /\ UNCHANGED <<runVars, jobs, other, interrupted, losses>>
\* Somebody runs dpkg --configure -a.
Repair ==
    /\ interrupted
    /\ interrupted' = FALSE
    /\ UNCHANGED <<runVars, status, jobs, other, losses, faults>>

Next ==
    \/ \E m \in {"Apply", "DryRun"} : Start(m)
    \/ \E t \in Batches : Query(t)
    \/ \E t \in Batches : Update(t)
    \/ \E t \in Batches : Spawn(t)
    \/ Finish
    \/ Stop
    \/ Exit
    \/ \E j \in jobs : JobLocks(j)
    \/ \E j \in jobs : JobIsRefused(j)
    \/ \E j \in jobs : JobWorks(j)
    \/ \E j \in jobs : JobEnds(j)
    \/ \E t \in Batches : TaskFails(t)
    \/ \E j \in jobs : JobFails(j)
    \/ Kill
    \/ OtherLocks
    \/ OtherUnlocks
    \/ Drift
    \/ Repair

\* The tasks and the processes go on, whoever holds the lock lets go of it, and
\* the program is run again and again.  Nobody need repair dpkg.
Fairness ==
    /\ \A t \in Batches : WF_vars(Query(t)) /\ WF_vars(Update(t)) /\ WF_vars(Spawn(t))
    /\ \A t \in Batches, m \in BOOLEAN :
           WF_vars(\E j \in jobs : j.batch = t /\ j.mine = m /\ (JobLocks(j) \/ JobIsRefused(j)))
    /\ WF_vars(\E j \in jobs : JobWorks(j) \/ JobEnds(j))
    /\ WF_vars(Finish) /\ WF_vars(Stop) /\ WF_vars(Exit)
    /\ WF_vars(OtherUnlocks)
    /\ SF_vars(Start("Apply"))

Spec == Init /\ [][Next]_vars
FairSpec == Spec /\ Fairness

-----------------------------------------------------------------------------
(* What the batchers must guarantee.                                       *)

\* The variables keep their ranges; of all apt-gets at most one has the lock,
\* and a dry run has none.
TypeOK ==
    /\ phase \in {"off", "run", "ok", "failed"}
    /\ mode \in {"Apply", "DryRun"}
    /\ pc \in [Batches -> {"query", "update", "spawn", "wait", "end", "error"}]
    /\ todo \in [Batches -> SUBSET Packages]
    /\ status \in [Packages -> {"none", "half", "ii"}]
    /\ jobs \subseteq Jobs
    /\ other \in BOOLEAN /\ interrupted \in BOOLEAN /\ alone \in BOOLEAN
    /\ losses \in Nat
    /\ faults \in 0 .. MaxFaults
    /\ \A j, k \in jobs : j.held /\ k.held => j = k
    /\ other => \A j \in jobs : ~j.held
    /\ mode = "DryRun" => \A j \in jobs : ~j.mine

\* A run that returns Ok leaves the level's packages installed and configured,
\* and those that shall be absent not installed, whatever an interrupted run
\* left half done, and while an apt-get of an earlier run is still at work.
Open(t) == {p \in Asked(t) : (status[p] = "ii") # (t = "install")}
Done(t) == Open(t) = {}
OkPackages == phase = "ok" /\ mode = "Apply" => \A t \in Batches : Done(t)

\* The two batches of a level compete for dpkg's lock, and the run of the one
\* that comes second fails.  That costs a host one run, and another one for each
\* thing that goes wrong: the winner is not stopped, and has nothing to do in
\* the next run that starts when it has ended.
NoSecondLoss == losses <= 1 + faults

\* Nothing else makes a run fail that starts when no apt-get is at work: a fault,
\* a collision of its own batches, somebody else's lock, or an interrupted dpkg.
\* So `losses` and `faults` count all the runs that the host can lose.
FailuresHaveCause ==
    [][(\E t \in Batches : pc[t] # "error" /\ pc'[t] = "error") =>
           faults' > faults \/ losses' > losses \/ other \/ interrupted \/ ~alone]_vars

\* A batch never waits for nothing: its apt-get is there, and one that has the
\* lock, whoever called it and whatever is half done, either has nothing left or
\* a package that it may go on with.
AptGoesOn ==
    /\ \A t \in Batches : pc[t] = "wait" => \E j \in jobs : j.mine /\ j.batch = t
    /\ \A j \in jobs : j.held => Left(j.batch, j.todo) = {} \/ Ready(j) # {}

\* What the packages, the processes and the run still have before them.
Aim(t) ==
    IF t = "install" THEN Wanted \cup UNION {Needs[p] : p \in Wanted}
    ELSE {p \in Packages : p \in Unwanted \/ Needs[p] \cap Unwanted # {}}
Untouched ==
    {p \in Aim("install") : status[p] = "none"} \cup {p \in Aim("remove") : status[p] = "ii"}
Halfway == {p \in Aim("install") \cup Aim("remove") : status[p] = "half"}
Unlocked == {j \in jobs : ~j.held}
Awaits(c) == CASE c = "query" -> 5 [] c = "update" -> 4 [] c = "spawn" -> 3 [] OTHER -> 0
PackagesLeft == 2 * Cardinality(Untouched) + Cardinality(Halfway)
JobsLeft == Cardinality(jobs) + Cardinality(Unlocked)
RunLeft ==
    Awaits(pc["install"]) + Awaits(pc["remove"])
    + CASE phase = "run" -> 2 [] phase = "off" -> 0 [] OTHER -> 1
HindrancesLeft == (IF other THEN 1 ELSE 0) + (IF interrupted THEN 1 ELSE 0)
AptLeft == PackagesLeft + JobsLeft + RunLeft + HindrancesLeft

\* A run ends, and what it leaves at work comes to rest: unless something goes
\* wrong or the program is started again, every step uses up some of what there
\* is left.  A refused apt-get is not tried again, and the two batches never work
\* against each other.
ComesToRest ==
    [][faults' = faults /\ (phase' = "run" => phase = "run") =>
           AptLeft' \in 0 .. AptLeft - 1]_vars

\* Run again and again, the program gets a host where it should be, unless dpkg
\* waits for somebody to repair it.
Recovers == []<>(interrupted \/ (phase = "ok" /\ mode = "Apply"))

-----------------------------------------------------------------------------
(* The inductive invariant.                                                *)

\* Whose the processes are, and what they are called with.
JobInv ==
    /\ \A t \in Batches :
           /\ todo[t] \subseteq Asked(t)
           /\ phase # "run" => pc[t] = "end"
           /\ mode = "DryRun" => pc[t] \in {"query", "end", "error"}
    /\ \A j \in jobs :
           /\ j.todo \subseteq Asked(j.batch)
           /\ j.mine => pc[j.batch] = "wait" /\ j.todo = todo[j.batch]
           /\ \A k \in jobs : j.mine /\ k.mine /\ j.batch = k.batch => j = k

\* What a batch does not work on, it need not.
WorkInv ==
    \A t \in Batches :
        /\ pc[t] \in {"update", "spawn", "wait"} => Open(t) \subseteq todo[t]
        /\ mode = "Apply" /\ phase \in {"run", "ok"} /\ pc[t] = "end" => Done(t)

\* When there have been as many collisions as there may be, one batch has
\* nothing to do any more, or the apt-get that won the last collision is at work
\* on all of it, its run as good as failed.
HasDone(t) == Done(t) /\ (phase = "run" /\ alone => pc[t] \in {"query", "end", "error"})
IsWinning(t, j) ==
    /\ j.held
    /\ j.batch = t
    /\ Open(t) \subseteq j.todo
    /\ phase = "run" /\ alone => j.mine /\ \E u \in Batches : pc[u] = "error"
Spent == \E t \in Batches : HasDone(t) \/ \E j \in jobs : IsWinning(t, j)
LossInv == losses <= 1 + faults /\ (losses = 1 + faults => Spent)

IInv == TypeOK /\ JobInv /\ WorkInv /\ LossInv

\* Who waits has its process, and a run that started alone has no other's beside it.
ProcessInv ==
    /\ IsFiniteSet(jobs)
    /\ phase = "run" /\ alone => \A j \in jobs : j.mine
    /\ \A t \in Batches : pc[t] = "wait" => \E j \in jobs : j.mine /\ j.batch = t

=============================================================================
