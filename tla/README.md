# host-setup in TLA+

`host-setup` (the Rust crate under `src/`) brings a machine into the state its
YAML configuration describes. Bundles add resources to a plan, the executor
sorts the plan into levels, runs each level concurrently, and every resource
senses the host and changes it where it differs. The program keeps nothing on
disk about its own runs: what a failed run leaves behind, the next one must put
right from what it can sense.

This directory specifies that program in TLA+, checks the specifications with
TLC on small instances and proves their main properties with TLAPS for every
value of the constants.

    tlc -workers 2 -config MC_Executor.cfg MC_Executor
    tlapm Executor_proofs.tla

Paths below are those of the repository; `PROJECT.json` gives the lines each
definition stands for, every run, and for every property a bug in the code that
would break it (the definitions commented "A plausible bug").

## 1. The system

### Components

| Component | State | Operations | What makes it correct |
|---|---|---|---|
| Plan, resources (`plan.rs`, `resource.rs`) | the nodes, each with its dependency ids | `Plan::add` | an id names one node, and only nodes added before |
| Bundles, `Context` (`bundles.rs`, `bundles/*.rs`) | the memo of Markers already built, the Rust call stack | `build()` of 33 bundles, `memoized` | each bundle once, whoever asks first; no bundle re-enters itself; a Marker waits for its whole bundle; what shares a package, path or unit is ordered |
| Topological sort (`executor.rs`) | in-degrees, successors, levels | `compute_topo_levels` | every node in one level after its dependencies, or an error that is true |
| Executor (`executor.rs`) | level, `JoinSet`, report | `run`, `run_level`, `run_batched`, `run_one` | dependencies settle first, each resource once, a complete report, nothing after an error |
| Run state (`env.rs`) | the ids changed in this run, in memory only | `record_changed`, `any_changed` | a dependent sees every change before it, and none of another run |
| Batchers (`batcher.rs`, `apt_package.rs`, `absent_apt_package.rs`) | none; dpkg's database and lock | `converge_batch` | after Ok the packages are there, or gone; a run that lost dpkg's lock is made good by the next |
| Units and services (`systemd_unit.rs`, `file.rs`, `service.rs`) | the unit file and its temporary file; systemd's own memory | `converge_one` | the file whole at any moment; after Ok the unit configured is the one loaded and running |
| Accounts (`user.rs`) | passwd, group and shadow | `converge_one` | user and groups complete after Ok, with the password of a new user; nobody's own password is replaced |
| Commands, Markers (`command.rs`, `marker.rs`) | none | `converge_one` | a handler runs when, and only when, its trigger changed |
| File backends (`file.rs`, `apt_repo.rs`, `directory.rs`, `symlink.rs`, `absent_file.rs`, `line_in_file.rs`, `download.rs`) | the file system | `converge_one` | after Ok the path is as asked, with mode and owner; files are replaced whole; a second run is quiet |
| Entry point, configuration, errors (`main.rs`, `config.rs`, `error.rs`) | none | argument order, dispatch, exit code | the same plan for any order of `--bundle` |

The shell scripts under `bin/`, the Ansible roles the program replaces and the
tests are not modelled (section 5).

### Interactions

`main` builds the plan through `Context` and hands it to `Executor::run`. The
executor calls the resources and knows them only by `deps()`, `skip_when()` and
`batch_family()`. Resources share two things: `Env`, whose set of changed ids
`run` extends between levels and `Service` and `Command` read; and the host
itself, where packages, files, systemd and the account files are changed by
tasks that run beside each other.

### What is hard here

* The tasks of a level end in any order, beside the loop that joins them.
* The first error drops the `JoinSet`: other tasks stop at whichever await they
  have reached, while commands they started go on, and the changes and outcomes
  of the level are forgotten.
* The process may be killed anywhere, and is run again on what it left.
* Changes are remembered for one run only, so anything that *follows* a change
  (restart, daemon-reload, `sysctl --system`, `usermod -p`) is lost when the run
  ends between the two.
* Orders between resources come from hand-written `deps` lists spread over 33
  functions that call each other, and differ by configuration.

`PROJECT.json` lists these at their lines under "hazards".

## 2. The modules

    TopoLevels        compute_topo_levels, loop by loop
      Executor        EXTENDS TopoLevels: run, run_level, tasks, aborts, reruns
        DagRun        what Executor promises; instantiated with a refinement mapping
    PlanBuilder       main's dispatch, Context::memoized, Plan::add, for any bundles
    Bundles           the 33 build() functions as tables for PlanBuilder
    UnitFiles         SystemdUnit with its Service, await by await, and systemd
    Accounts          User, command by command, and the packages' level after it
    Files             File, AptRepo, Download, LineInFile, Symlink, AbsentFile, Directory
      HostPaths       what Files promises; instantiated with a refinement mapping
    Apt               the two package batchers, apt-get processes, dpkg's lock

The levels meet at these seams. `PlanBuilder` proves that every dependency of a plan
built with `Plan::add` is an earlier node (`DepsAreEarlier`); `TopoLevels` proves that
such a plan is never rejected (`EarlierDepsSort`), and `Executor` runs on `TopoLevels`
itself. `PlanOrder_proofs` proves of bundles that keep to a few conventions that
triggers are dependencies (`TriggersAreDeps`), which is `Executor`'s assumption
`TriggerAssumption`. The `bundles` run checks that the real bundles keep to them, and
that what shares a path or unit is ordered by the bundles' tables, hence in every plan
(`SharedAreOrdered`, proved there too), which is why `UnitFiles` may put each
SystemdUnit before its Service, and `UnitFiles` and `Files` give each path one writer.
Executor sees a resource as two steps with any part of its effect possible on failure;
`UnitFiles`, `Files`, `Accounts` and `Apt` open those steps up, with the executor
reduced to what a level does: its tasks run beside each other, the first error drops
the rest, and the program is run again.

### TopoLevels

State: the local variables of `compute_topo_levels`, with `successors` as sets
of edges (an edge is an *entry* of a deps list, so duplicates stay apart) and
levels as sets, because nothing depends on the order inside them. Actions:
`ScanNode`/`UnknownDep` (first loop), `StartPeel`, `Visit`, `CloseLevel` (the
while loop), `Levelled`/`CycleFound`.

### Executor

State: where `run` is, the `JoinSet`, how far every resource's future is, the
report, the changed set, the host. A *task* is the set of resources one future
converges. `converge_one` and `converge_batch` are two steps, `Sense` and
`Apply`, whose sensing depends on the resource's kind (`Kind`): a plain resource,
a service with `restart_on`, a command, a handler (`trigger_on`), a Marker.
The host is two sets: `drift`, the resources whose sensed state is not the one
asked for, and `stale`, the services and handlers that have not run since
something they are triggered by last acted. `TaskFails` and `Abort` let any part
of a task's changes happen. `Rerun` starts the program again, in either mode,
once what the last run issued has ended.

`DagRun` is the promise without levels, tasks and reports: resources start
after their dependencies, with the dependencies' changes visible, settle once,
and the run succeeds only when all have settled. The mapping reads "settled"
off the report, "made" off the outcomes that are `Yes`, and "seen" off the
changed set; `Executor_proofs` proves the implementation.

### PlanBuilder and Bundles

A `build()` is the sequence of its calls to other bundles and its `plan.add`s under
one configuration. PlanBuilder executes them with an explicit stack: `Dispatch` is
main's loop, `CallCached` and `CallBuild` the two sides of `memoized`, `AddResource` a
`plan.add`, `AddReady` the last one, whose id is returned, memoized and bound by the
caller. `behind` is a history variable with everything a resource waits for. Bundles
holds the tables: for each resource its backend, the packages, paths and units it acts
on, its dependencies and triggers, and every branch on the configuration or the host.
A loop over packages or files that adds them with the same dependencies is one entry,
so what two rounds of one loop might share is not seen. Directories a resource only
creates as missing parents are not listed among what it acts on, since creating them
succeeds whoever is first. A call makes the callee's id available and orders nothing
by itself: `docker:ready` waits for `users:ready` only through the Directory of a user
with a home.

### UnitFiles

`pc[u]` is the next await of the unit's resource: first SystemdUnit (read, then
either the mode in place, or create, write, chmod and rename of the temporary
file, then daemon-reload), then Service (sense, enable, restart or start). The units'
steps interleave freely, which covers every way a plan's levels can lie. Every
await may be the last one: an operation returns an error (`Fails`), the
join loop drops the others (`JoinError`, `Dropped`), the process is killed
(`Kill`). Between runs others edit or remove the file, stop the unit, or reboot.
systemd is external and modelled by what the code asks of it: `daemon-reload`
and `enable` load all unit files, starting a unit loads it only if it is not
loaded, an inactive unit that nothing refers to may be forgotten. A file
operation fails without its effect; a command with or without.

### Accounts

One User per configured user, none depending on another, in the first level;
then the level of the packages. `Todo` is what sensing finds to do; `useradd -G`,
`usermod -p` and `usermod -aG` are external commands that work, fail with or
without effect, or go on after their task was dropped. They fail at a group that
does not exist (`Refused`). Some groups are `Provided` by packages, whose scripts
create them (`Install`).

### Files

One resource per path, all in one level. `pc[p]` is the next await: `lookup` of the
owner, `read` (everything the resource reads, for a Download also what it fetches),
then, by `Kind`, the writes in the order of the code. `Settled` is what each backend
takes for Changed::No, `Refused` what it stops at, `FirstWrite` and `After` the order
of its awaits, `Effect` what they do. An AbsentFile does not look at what it finds: a
directory is only met when `remove_file` fails at it (`Undeletable`). `create_dir_all`
makes one directory at a time, so another task can come in between; a Directory and
the parents of Files may be made by either task. Texts, for LineInFile, are sequences
of lines. Any await may be the last (`Fails`, `Stop`, `Dropped`); a dropped file
operation goes on in its thread. Between the runs others put anything that `Found`
allows at the paths, or remove the directory above them. `calm` is a history variable:
nothing has happened to the host since a run put it right.

`HostPaths` is the promise without tasks, awaits and temporary files: in a run that
may write, whole objects that a resource asks for take the place of what was at its
path, one path at a time, no directory is removed, and the run succeeds only when all
paths are as asked. The mapping keeps `obj` as `at` and `phase` as `run`; of a task's
steps only those that touch a path are seen, also when the task was dropped and the
run has failed. A File, a Download and a LineInFile are seen to replace a file in one
step; a Symlink is seen to remove and to link in two.

### Apt

The two batches of one level. `pc[t]` is the batch's next await: `query`
(dpkg-query), `update`, `spawn`, `wait`. `apt-get` is a process in `jobs`, with or
without dpkg's lock; of two the second is refused, at once, since apt does not wait
unless told to. A process whose task was dropped is an orphan (`mine = FALSE`) and
works on, also while the program is run again. A package being worked on is "half";
of dpkg's statuses only "ii" counts as installed. What goes wrong is bounded by
`MaxFaults`: a failing query, update or apt-get, a kill of the program, or of the
machine with dpkg interrupted, somebody else's lock, and packages installed and
removed by others. `losses` counts collisions of the run's own two apt-gets.

## 3. What is checked

| Run | Instance | States | Shows |
|---|---|---|---|
| `topo_levels` | every plan of 3 nodes with dependency lists of up to 2 ids out of 0..3 | 33,634 | what the sort returns, at each step: each node in its first possible level; that it accepts and rejects rightly; that it ends |
| `executor` | 6 plans of a package batch, a handler, a skippable service and a plain Command; 2 runs | 95,674 | order, report, convergence, triggers, dry runs, refinement of DagRun; that every run is bounded, and returns |
| `bundles` | the real bundles: 8 hosts, 6 argument lists | 3,531 | the structure of the plans, and what the theorems ask of the tables of all bundles |
| `unit_files` | 2 units, 2 modes, 3 runs | 3,002,701 | whole writes; what Ok means for file, systemd and unit, with another unit's writes and reloads in between |
| `accounts` | 2 users, 2 configurations, any number of runs | 19,157 | users and groups complete, with passwords where the run created them; own passwords kept |
| `files` | 5 levels of the real bundles, 2 configurations, any number of runs | 881,254 | what Ok means at every path; whole writes; a quiet second run; refinement of HostPaths |
| `apt` | a package to install and one to remove, each with another in tow; any number of runs, 2 faults | 135,904 | what Ok means; one collision at most; the host gets there |

Runs that end in a violation, each a disagreement between the code and what the
repository says about it:

| Run | What happens | What is said |
|---|---|---|
| `docker_marker` | a Marker in `restart_on` restarts nothing: it never reports a change | `bundles/docker.rs:170` |
| `sysctl_reload` | cut off between writing the file and running the handler, `sysctl --system` is never run again | `bundles/common_tweaks.rs:179`, "the result converges" |
| `service_sees_unit` | cut off between rename and daemon-reload, systemd keeps the old unit through later runs that return Ok | `systemd_unit.rs:19` |
| `dangling_link` | AbsentFile takes a link without a target for absent, and leaves it | `absent_file.rs:13`, "does not exist at `path`" |
| `group_bootstrap` | every user is asked into `nix-users` before the package that creates it: a new host that installs nix fails like one that does not | `bundles/users.rs:16` |

`sysctl_reload` and `service_sees_unit` have one cause: what follows a change
depends on the change having been made in the same run. What does hold, and is
proved, is worded accordingly: `NoLostTrigger` and `OkRuns` hold as long as no run
has failed; `Converged`, `OkInstalled`, `WholeFileWrites`, `RestartsAreFresh`,
`OkUsers`, `PasswordsAreKept`, `OkFiles` and `OkPackages` hold whatever happened
before.

Seen on the way, and not stated as runs:

* The resource named by PlanCycle (`error.rs:63`, "involving") may only be
  downstream of the cycle. `VerdictIsTrue` says what is true of it: the plan has
  a cycle.
* A run cut off between `useradd` and `usermod -p` leaves a user whose password no
  later run sets, as the user exists and has its groups. So `OkUsers` asks for the
  password only of whom the run has created itself.
* LineInFile puts neither mode nor owner of the old file on the new one, and
  Download does not look at the mode of a file whose content is right; `Promised`
  leaves both out.
* A dry run of an owned File or Directory fails on a host without the owner: the
  lookup precedes the dry-run return.
* A dry run reports a directory at an AbsentFile's path as a change; the run that
  would make it fails at the directory.

### Bounds, and why they are enough

* `topo_levels`: three nodes make every shape the algorithm tells apart: chains,
  a diamond's shortcut (a node whose dependencies lie in different levels),
  duplicate entries, self-loops, two-cycles, a node downstream of a cycle, an
  unknown id before or after a known one. The theorems cover every N.
* `executor`: `MaxRuns = 2` gives every interrupted run a successor, which is
  where interruption shows; between the two the host drifts arbitrarily. The
  six plans place the two packages in one batch, or in different levels, or
  beside the handler, with the plain Command after the service or beside the packages,
  and include a duplicate dependency, a cycle and an unknown
  id. The theorems cover every plan, every kind and any number of runs.
* `docker_marker` and `sysctl_reload` are slices of the real plans; one and two
  runs are the shortest that show the violation.
* `bundles`: the configurations take each branch of each `build()` both ways,
  and docker's, the only one that depends on more than two facts, in each of the
  combinations that change its dependencies. The argument lists are the default,
  each bundle the default does not reach, and bundles before and after ones that
  call them, which is when the memo matters.
* `unit_files`: three runs: one to install, one to be interrupted, one to repair.
  Two units, since what a second one adds is writes, reloads and enables at any
  moment of the first's. One version is configured and others edit files, which is
  "as configured" and "older"; two modes tell the umask's from the one asked for.
  `service_sees_unit` has one unit and two versions. Units and versions are
  symmetric: they are only compared.
* `accounts`: users do not interact except through failing commands; two of them
  are enough for one to fail while the other is in flight. No bound on runs.
* `files`: each plan is a level, or the part of one whose resources can meet: the
  Directory below another one, two Files in one missing directory, a File with an
  owner beside a Download, a link to the other AbsentFile, and a Symlink beside a
  LineInFile. `Found` has, for each kind, what differs in content, mode, owner or
  type, a directory among them where an AbsentFile looks, and texts with the line,
  without it, with others that match, and empty. No bound on runs: the disk is finite.
* `apt`: each batch has a package to deal with and one more to deal with before it,
  so that an apt-get can stop half way. Two faults are a first one and one in the
  recovery from it; runs are not bounded.

Deadlock is checked of UnitFiles, Accounts, Files and Apt, whose host never stops
changing; the others stop by design: after `MaxRuns` runs, or when the plan is
sorted or built.

### Fairness

`RunTerminates` of Executor needs `WF_vars(Progress)`, where Progress is what the
program does by itself. It is justified by tokio polling every task that is ready,
and by the operations the tasks wait for ending. The latter is an *assumption*
about commands and HTTP requests, not something the code ensures: nothing in it
has a timeout. Failures, kills, drift and reruns get no fairness.

`Recovers` of Apt needs the same of the batches and of the apt-get processes, each
batch's own by itself; and two things that are not the program's: that whoever
else holds dpkg's lock lets go of it, and that the program is run again and again
(`SF_vars(Start("Apply"))`, strong because a dry run may take its place). Repairing
dpkg gets none: the property ends where dpkg was interrupted. Faults are bounded,
so that eventually nothing new goes wrong.

## 4. What is proved

For all values of the constants, under these assumptions, all named in the modules and
evaluated by TLC in every run that extends them: `NAssumption`, `PlansAssumption`
(plans are sequences of ids, otherwise arbitrary), `ResourceAssumption` (ranges),
`TriggerAssumption` (triggers are dependencies; proved of the plans as
`TriggersAreDeps`), `BundlesAssumption` and `BodiesAssumption` (what the Rust compiler
checks of a `build()`), `ModesAssumption`, `RunsAssumption`, `VersionsAssumption`,
`ConfigsAssumption`; of Files `PlanAssumption` and `AskAssumption` (ranges; there are
finitely many paths, what lies above one is a directory, and what is above that lies
above it too), `FoundAssumption` (others leave whole objects; a link found by an
AbsentFile leads outside, or to a path that shall be absent too), `LineAssumption`
(the regex of a LineInFile matches its line, as in the one the bundles have: without
it the line would be appended at every run) and `PartialAssumption`; of Apt
`PackageAssumption` (finitely many packages, whose dependencies are transitive and
without cycles; nothing wanted needs what is unwanted) and `FaultAssumption`.

* **TopoLevels_proofs.** The inductive invariant is TypeOK, LevelsOrdered and
  `PeelingExact`: `in_degree` of a node is the number of its deps entries not
  visited, duplicates included; the nodes at zero are exactly those levelled, in
  the current level or queued. From it: `in_degree` never underflows, levels
  respect dependencies and lose no node, the verdict is right both ways
  (`VerdictIsTrue`: a plan is accepted exactly when every id exists and it has no
  cycle; for PlanCycle, the nodes not visited each wait for another of them), and a plan
  whose dependencies are earlier nodes is never rejected. The last takes a
  least stuck node: its dependencies are smaller, hence not stuck, so it is not
  stuck either. With `TightInv`, that whoever is in a level but the first depends on
  somebody in the level before, the levels are exact: each node in the *first* level it can
  be in (`LevelsExact`). Such a layering is unique (`LayeringIsUnique`, again by a
  least level at which two of them differ), so what the sort returns does not depend on
  the order it visits nodes and edges in. And it ends: of 3N + 2 steps at most
  every step uses up one (`SortEnds`).
* **Executor_proofs.** The inductive invariant is that of the sort with TypeOK and
  `RunConsistent`, which says that the six places the state of a run is kept in
  agree: the phase and level with the futures (PositionInv), the JoinSet with
  the futures (TaskInv), the report and changed set with what was sensed
  (ReportInv), dependencies with the report (OrderInv), and what is left to do on
  the host with both (DriftInv, StaleInv). None of the properties is inductive
  without it: `DepsSettled` needs to know that all earlier levels are reported when
  a level is dispatched, `Converged` that what was sensed as right stays right
  until the run ends. From it: every safety and action property of the `executor`
  run, and that Executor implements DagRun, step by step: dispatch is Start, a
  join is Settle, the end of a level is Publish. Two more theorems are what can be
  proved of `RunTerminates`: a run of N resources is over after 9N + 5 steps (`RunEnds`,
  which counts the steps of the sort, the levels, at most N as none is empty, and
  four steps a resource), and before that no task the loop waits for is stuck (`TasksGoOn`). What is left
  to fairness is that a step that can be taken is.
* **PlanBuilder_proofs.** The inductive invariant is TypeOK, StackOK and
  DepsAreEarlier: ids in the memo, in the variables of the build()s in progress and
  in the plan name existing nodes, and a build() has bound what it has passed.
  `LayeredBundlesNeverReenter` has a hypothesis, that the bundles can be layered
  so that each calls lower layers only; `MC_Bundles` gives the layers of the real
  bundles and the `bundles` run checks the hypothesis (`RealConventions`).
* **PlanOrder_proofs.** From the same layers, and conventions that `RealConventions`
  checks of the real `build()`s too (`Conventional`: lets differ, a Marker names all that
  its bundle added, triggers are named as dependencies, a package names apt's Marker or
  something that does), follow `ReadyMeansAll`, `TriggersAreDeps` and `AptComesFirst` for
  every configuration and argument list. The inductive invariant says that each
  resource of an unfinished bundle is in a variable of its `build()` (OwnedInv), and that
  a variable stands for what its name says: a call's for the Marker of the bundle called,
  cached or not, a resource's for that resource (FramesInv). Both need that a bundle is
  built once at a time: otherwise a second `build()` would add resources the first one's
  Marker does not know.

  On top of it lies `TableInv`: each id in the memo is that of the bundle's Marker
  (MemoInv), each resource of the plan is one its bundle declares, with the dependencies
  declared (NodesInv), and none is there twice (OnceInv); what is built is complete
  (CompleteInv). It turns questions about plans, which are as many as there are
  argument lists, into questions about the tables of all bundles taken together:

  * `SharedAreOrdered`. The hypothesis `OrdersSharers` has a certificate: `before[p]`,
    places that the resource at place p waits for, each backed by a declared dependency.
    What is in it a plan has in `behind` (BehindInv), since a plan that holds a resource
    holds its dependencies.
  * `DriversAreAlone`. The hypothesis `DriversApart` has a certificate too, the depth
    of each place. A plan's levels are those depths (DepthLevels), whatever else it holds,
    as a dependency is in the plan with the resource.
  * `PlanIsUnion`. Only what the arguments reach is built (DemandInv), and when
    main's loop has ended the built bundles are closed under calls and hold the
    arguments, so they are all of it, `Reached` being the least such set.
  * `BuildingEnds`. Of the arguments left, the bundles not yet entered, the calls in
    progress and the statements left of the innermost one, every step lowers the first
    it changes. That is why assembling a plan ends, stated as an action property.

  `MC_Bundles` computes both certificates and `RealConventions` checks the two hypotheses,
  for all bundles at once, on each of its eight hosts. A configuration is a constant
  of a plan, so the theorems hold of the eight hosts with any `--bundle` arguments; of
  another configuration once the hypotheses are evaluated for it.

* **UnitFiles_proofs.** The inductive invariant adds to TypeOK which awaits a
  phase allows (PhaseInv), what the temporary file holds at each of them (TmpInv),
  that a file dealt with is right and loaded (FileInv), what a Service has left
  to do (ServiceInv), and that without a failed run file, systemd and unit agree
  until a run replaces the file (CleanInv). The last is what makes `OkRuns`
  true when the file is already right and nothing is reloaded; it is also
  exactly what a failed run breaks.
* **Accounts_proofs.** The inductive invariant says which commands can be under way
  for whom (`Progress`: a password is only set after `useradd` in the same run) and
  that whoever is past its groups is complete (`Complete`), with its password if the run
  has made it and is past that too: `useradd` is only for who does not exist and has no
  password, so what `usermod -p` is not asked to set is right. It gives `OkUsers` and
  `PasswordsAreKept`. With `ErrorInv`, why a task stands at an error, follows what
  `group_bootstrap` leaves true: where nothing fails by itself, a run fails only for a group
  that is not there, never for a half-made user (`OnlyGroupsFail`).

* **Files_proofs.** The inductive invariant adds to TypeOK which awaits a backend and
  a phase allow (PhaseInv), what can be at a path (ObjInv), what temporary file and
  path hold when an await is reached (StepInv), that a resource that has ended well
  has kept its promise (DoneInv), and that on a calm host all promises are kept and
  nothing is being written (CalmInv). DoneInv is where the tasks of a level meet:
  the promise of a Directory must survive the other tasks' `create_dir_all`, and
  that of an AbsentFile the removal of what its link leads to. `SecondRunQuiet`
  rests on the edit of a LineInFile being a fixed point of itself. That Files implements
  HostPaths follows from the invariant step by step: StepInv says that what an await is
  about to put at a path is what HostPaths lets a resource put there, and DoneInv that a
  run that ends well has everything as asked.

  Three more theorems are about failing and ending. `ErrorInv` keeps, for each task at an
  error, the reason: what stands at its path, a directory that cannot be unlinked among
  it, or above it, or an owner without an account.
  It lasts, since no other task changes what is in the way (CauseStays); so where no
  operation fails that could succeed, the tasks of a run never make each other fail
  (`FailuresHaveCause`). `create_dir_all` always has a next directory to make
  (`MkdirGoesOn`): of what is missing, the one with the least above it. And a run ends
  (`RunEnds`): each step uses up an await, or makes a directory, of which there are
  finitely many and which no task removes (UnmadeFalls).
* **Apt_proofs.** The inductive invariant adds to TypeOK whose each process is and what
  it was called with (JobInv), that a batch works on all that its packages still
  need, also with the reading of another moment (WorkInv), and, for `NoSecondLoss`,
  that once there have been as many collisions as faults allow, one batch has
  nothing left to do, or the apt-get that won is at work on all of it and its run
  as good as failed (LossInv). An apt-get of the other batch cannot undo that: no
  wanted package needs an unwanted one.

  Around it lies what can be proved of `Recovers`. `ProcessInv` says that who waits
  has its process, and that a run that started alone has no other's beside it. Hence
  no batch waits for nothing, and an apt-get with the lock always has a package it may
  go on with, since packages half done have an order (`AptGoesOn`); every failure of a
  run that started alone is a fault, a collision of its own, somebody else's lock or
  an interrupted dpkg (`FailuresHaveCause`), of which `NoSecondLoss` bounds the
  second; and unless something goes wrong or the program is started again, each step
  leaves less to do (`ComesToRest`: packages count twice until begun, processes twice
  until they have the lock). Fairness, and that the program is run again, is what
  `Recovers` adds.

Two definitions are recursive, over the steps of a search: `Closed` and `Reached`. The
prover sees a recursive function as a CHOOSE, so PlanOrder_proofs first shows that there
is such a function (Iterates), and does induction by the least number that fails
(LeastOf, Climb): the library's induction theorems take an operator and cannot be used.
`Reached` stops after as many steps as there are bundles; that this is enough
(ReachedIsClosed) is by counting: a step adds a bundle or none is ever added again.

Proved and not in a run, as the theorems they support are: `PeelingExact`, `StackOK`,
`NoReentry`, `TableInv`, `BehindInv`, `DemandInv`, `RunConsistent`, `ChangesVisible`,
`OneTaskEach`, `AtMostOnce`, `BuildingEnds`, `EarlierDepsSort`, the uniqueness of the
layering, `TasksGoOn`; of Files `DryRunIsPure` (of which HostPaths has the part that
is about the paths), `FailuresHaveCause`, `MkdirGoesOn` and `RunEnds`; of Accounts
`OnlyGroupsFail`; of Apt `ProcessInv`, `AptGoesOn`, `FailuresHaveCause` and
`ComesToRest`. TLC agreed with the new ones of Apt and Files on the instances of their
runs before they were proved.

Only model-checked: the liveness properties `RunTerminates` and `Recovers`, since liveness
and ENABLED are out of the prover's reach (their parts that are not fairness are proved,
see Executor_proofs and Apt_proofs); `RealConventions`, which evaluates
the real tables, data that a prover would have to be given case by case; and the
violations.

## 5. Abstractions to know of

* In Executor a resource's own change is one step with any part of it possible on
  failure; UnitFiles, Accounts, Files and Apt open that step up.
* A skipped resource is settled and never changed, and its drift is not
  `Converged`'s business.
* `Rerun` and `Exit` wait for orphaned commands to end, except in Apt. There the
  program may be started while apt-get of a dropped task or a killed run is at
  work; elsewhere that is not modelled.
* The file system is atomic per call and durable: no power loss, and a full disk is
  an operation that fails.
* UnitFiles gives every unit one file and one Service that enables and starts it.
  Docker's units without a Service of their own, and Services of packaged units,
  are covered by Executor only.
* Files allows links only where a Symlink or an AbsentFile looks; the group is
  treated like the owner, and the two lookups as one; others change files between
  the runs only, and the server's answer is fixed for a run. A text is a sequence of
  lines, so a last line without a newline is one with.
* Apt has one lock for dpkg; the lock of the package lists is a failing update. An
  apt-get whose parent is gone goes on, as apt does when its pipe is closed. `converge_one`
  of the two packages, which the registered batchers keep from being called, is left out.
* Text (file contents, apt sources, messages, logs), checksums, uid, shell and home
  of a user, and YAML parsing are left out.

### Not modelled, and why

* **Configuration.** Parsing is pure input; the facts the bundles branch on are
  constants of Bundles.
* **Errors.** The plan errors are states of TopoLevels; the others are messages.
* **Env::detect.** It runs a few probes once and picks strings; what depends on it
  (`is_container`, `is_dry_run`, the changed set) is in Executor and Bundles.
* **Crate root, file diff printing.** Declarations and logging.
* **Tests, e2e harness.** Read for what they expect; they are not the program.
* **Ansible roles and shell scripts.** The data the program replaces, for another tool.
* **Timeouts.** No command and no request has one; see Fairness.

## 6. Plan

Done in this order, the most important behaviour first: TopoLevels, Executor with
DagRun, PlanBuilder with Bundles, UnitFiles, Accounts, Files with HostPaths, Apt. What
is left is a composition of Executor's tasks with UnitFiles', Files' and Accounts' steps
as INSTANCEs, instead of the executor reduced to one level.

Every safety and action property of the runs but `RealConventions` is proved, and of the
two liveness properties that runs are bounded and never stuck. What is left
to prove comes with that composition: that UnitFiles, Files and Accounts are what
Executor's `Sense` and `Apply` stand for.
