---------------------------- MODULE PlanBuilder ----------------------------
(***************************************************************************)
(* How main() and Context (src/src/bundles.rs) assemble the plan: each     *)
(* bundle's build() calls other bundles through the memoizing Context and  *)
(* adds its resources to the plan; the last one it adds, its Marker, is    *)
(* what it returns.                                                        *)
(*                                                                         *)
(* A build() is the sequence of its statements under one configuration:    *)
(*   [op |-> "call", as |-> b]   let b = ctx.b()                           *)
(*   [op |-> "add", as |-> v, kind, on, deps, trig]   let v = ctx.plan.add *)
(* where kind is the backend, "on" the packages, paths and units the       *)
(* resource acts on, deps and trig (restart_on, trigger_on) are variables  *)
(* bound before.  The tables of the real bundles are in module Bundles.    *)
(***************************************************************************)
EXTENDS Integers, Sequences, FiniteSets

CONSTANTS
    BundleNames,  \* the keys of Context's cache
    Vars,         \* the variables the build() functions bind
    Settings,     \* the possible configurations and hosts
    Build,        \* Build[s][b]: the statements of b's build() under s
    Requests      \* the possible lists of --bundle arguments

NoId == -1

ASSUME BundlesAssumption ==
    /\ IsFiniteSet(BundleNames)
    /\ BundleNames \subseteq Vars
    /\ Requests \subseteq Seq(BundleNames)

\* What the Rust compiler checks of a build(): it uses variables after their
\* let, calls bundles that exist, and ends in plan.add.
ASSUME BodiesAssumption ==
    \A s \in Settings : \A b \in BundleNames :
        LET stmts == Build[s][b]
        IN  /\ Len(stmts) \in Nat \ {0}
            /\ stmts[Len(stmts)].op = "add"
            /\ \A k \in 1 .. Len(stmts) :
                   /\ stmts[k].op \in {"call", "add"}
                   /\ stmts[k].as \in Vars
                   /\ stmts[k].op = "call" => stmts[k].as \in BundleNames
                   /\ stmts[k].op = "add" =>
                          /\ stmts[k].kind \in STRING /\ stmts[k].on \subseteq STRING
                          /\ stmts[k].deps \cup stmts[k].trig
                                 \subseteq {stmts[j].as : j \in 1 .. k - 1}

VARIABLES
    cfg,     \* the configuration and host
    asked,   \* bundles_to_run
    at,      \* where main()'s loop over bundles_to_run is
    stack,   \* the build() calls in progress, the innermost one last
    cache,   \* Context.cache: the Marker of each bundle built
    plan,    \* Plan.nodes; the resource with id i is plan[i + 1]
    behind   \* history: behind[i + 1] is all that resource i waits for,
             \* directly or not

vars == <<cfg, asked, at, stack, cache, plan, behind>>

body == Build[cfg]

Init ==
    /\ cfg \in Settings
    /\ asked \in Requests
    /\ at = 1
    /\ stack = <<>>
    /\ cache = [b \in BundleNames |-> NoId]
    /\ plan = <<>>
    /\ behind = <<>>

-----------------------------------------------------------------------------
(* Context::memoized                                                       *)

Cached(b) == cache[b] # NoId

\* build(self) is called: nothing is bound yet.
Enter(b) == [bundle |-> b, pc |-> 1, bound |-> [v \in Vars |-> NoId]]

Top == stack[Len(stack)]
Callers == SubSeq(stack, 1, Len(stack) - 1)
Stmt == body[Top.bundle][Top.pc]

\* let v = <id>; and on to the next statement.
Bind(frame, v, id) ==
    [bundle |-> frame.bundle, pc |-> frame.pc + 1, bound |-> [frame.bound EXCEPT ![v] = id]]

-----------------------------------------------------------------------------
(* main()'s loop over the requested bundles.                               *)

Dispatch ==
    /\ stack = <<>>
    /\ at <= Len(asked)
    /\ stack' = IF Cached(asked[at]) THEN <<>> ELSE <<Enter(asked[at])>>
    /\ at' = at + 1
    /\ UNCHANGED <<cfg, asked, cache, plan, behind>>

CallCached ==
    /\ stack # <<>>
    /\ Stmt.op = "call"
    /\ Cached(Stmt.as)
    /\ stack' = [stack EXCEPT ![Len(stack)] = Bind(Top, Stmt.as, cache[Stmt.as])]
    /\ UNCHANGED <<cfg, asked, at, cache, plan, behind>>

CallBuild ==
    /\ stack # <<>>
    /\ Stmt.op = "call"
    /\ ~Cached(Stmt.as)
    /\ stack' = Append(stack, Enter(Stmt.as))
    /\ UNCHANGED <<cfg, asked, at, cache, plan, behind>>

\* A plausible bug: the id is the length after the push.
NewIdAfterPush == Len(plan) + 1
\* Plan::add: the id is the number of nodes so far.
NewId == Len(plan)

Ids(vs) == {Top.bound[v] : v \in vs}

AddNode ==
    /\ plan' = Append(plan, [by |-> Top.bundle, as |-> Stmt.as,
                             kind |-> Stmt.kind, on |-> Stmt.on,
                             deps |-> Ids(Stmt.deps), trig |-> Ids(Stmt.trig)])
    /\ behind' = Append(behind, Ids(Stmt.deps)
                     \cup UNION {behind[d + 1] : d \in Ids(Stmt.deps) \cap 0 .. Len(plan) - 1})

Last == Top.pc = Len(body[Top.bundle])

AddResource ==
    /\ stack # <<>>
    /\ Stmt.op = "add"
    /\ ~Last
    /\ AddNode
    /\ stack' = [stack EXCEPT ![Len(stack)] = Bind(Top, Stmt.as, NewId)]
    /\ UNCHANGED <<cfg, asked, at, cache>>

\* A plausible bug: the memo is not written.
NoMemo == cache
Memo == [cache EXCEPT ![Top.bundle] = NewId]

\* build() returns its Marker, memoized() stores it, the caller binds it.
AddReady ==
    /\ stack # <<>>
    /\ Stmt.op = "add"
    /\ Last
    /\ AddNode
    /\ cache' = Memo
    /\ stack' = IF Len(stack) = 1 THEN <<>>
                ELSE LET caller == Len(stack) - 1
                     IN  [Callers EXCEPT ![caller] = Bind(Callers[caller], Top.bundle, NewId)]
    /\ UNCHANGED <<cfg, asked, at>>

Done == stack = <<>> /\ at > Len(asked)

Next == Dispatch \/ CallCached \/ CallBuild \/ AddResource \/ AddReady

Spec == Init /\ [][Next]_vars

-----------------------------------------------------------------------------
(* What the executor relies on.                                            *)

Id == 0 .. Len(plan) - 1
Node(i) == plan[i + 1]

\* The variables keep their ranges: every id held anywhere is NoId or that of
\* a resource already in the plan.
TypeOK ==
    /\ cfg \in Settings
    /\ asked \in Requests
    /\ at \in 1 .. Len(asked) + 1
    /\ plan \in Seq([by : BundleNames, as : Vars, kind : STRING, on : SUBSET STRING,
                     deps : SUBSET Nat, trig : SUBSET Nat])
    /\ stack \in Seq([bundle : BundleNames, pc : Nat \ {0}, bound : [Vars -> Id \cup {NoId}]])
    /\ cache \in [BundleNames -> Id \cup {NoId}]
    /\ behind \in Seq(SUBSET Nat) /\ Len(behind) = Len(plan)

\* The inductive strengthening: each build() in progress is inside its body,
\* has bound what it has passed, and is called by the one below it.
StackOK ==
    \A k \in DOMAIN stack :
        LET stmts == body[stack[k].bundle]
        IN  /\ stack[k].pc <= Len(stmts)
            /\ \A n \in 1 .. stack[k].pc - 1 : stack[k].bound[stmts[n].as] # NoId
            /\ k < Len(stack) =>
                   /\ stmts[stack[k].pc].op = "call"
                   /\ stmts[stack[k].pc].as = stack[k + 1].bundle

\* Whatever the bundles are, an id is only handed out once its resource is
\* in the plan, so that every resource depends on earlier ones only:
\* compute_topo_levels never meets a cycle or an unknown id, through whichever
\* calls, cached or not, the bundles got their ids.
DepsAreEarlier == \A i \in Id : Node(i).deps \cup Node(i).trig \subseteq 0 .. i - 1

\* No bundle is built while its own build() is in progress.  The memo is
\* written only at the end, so re-entering it would recurse without end
\* (src/src/bundles/nvidia.rs keeps units in docker's build() for that).
NoReentry ==
    \A j, k \in DOMAIN stack : stack[j].bundle = stack[k].bundle => j = k

PackageKinds == {"AptPackage", "AbsentAptPackage"}

\* A layering of the bundles: each build() calls bundles of lower layers only.
CallsDescend(layer) ==
    \A s \in Settings : \A b \in BundleNames : \A k \in 1 .. Len(Build[s][b]) :
        Build[s][b][k].op = "call" => layer[Build[s][b][k].as] < layer[b]

\* What the build() functions keep to beyond that, and no compiler checks: each
\* let binds a variable of its own, and only a call one of a bundle's name; ...
LetsDiffer(stmts) ==
    /\ \A j, k \in 1 .. Len(stmts) : stmts[j].as = stmts[k].as => j = k
    /\ \A k \in 1 .. Len(stmts) : stmts[k].op = "add" => stmts[k].as \notin BundleNames
\* ... the Marker names all that the bundle has added; ...
ReadyNamesAll(stmts) ==
    \A k \in 1 .. Len(stmts) - 1 : stmts[k].op = "add" => stmts[k].as \in stmts[Len(stmts)].deps
\* ... triggers are named among the dependencies; ...
TriggersNamed(stmts) ==
    \A k \in 1 .. Len(stmts) : stmts[k].op = "add" => stmts[k].trig \subseteq stmts[k].deps
\* ... and a package names apt's Marker, or a resource that names it.
AptNamed(stmts) ==
    \A k \in 1 .. Len(stmts) :
        stmts[k].op = "add" /\ stmts[k].kind \in PackageKinds =>
            \/ "apt" \in stmts[k].deps
            \/ \E j \in 1 .. k - 1 : /\ stmts[j].op = "add"
                                    /\ stmts[j].as \in stmts[k].deps
                                    /\ "apt" \in stmts[j].deps
Conventional(s, b) ==
    LET stmts == Build[s][b]
    IN  /\ LetsDiffer(stmts)
        /\ ReadyNamesAll(stmts)
        /\ TriggersNamed(stmts)
        /\ b # "apt" => AptNamed(stmts)

\* The id a bundle gets for another is that of a Marker that waits, directly
\* or not, for every resource the other bundle added.
ReadyMeansAll ==
    \A b \in BundleNames :
        Cached(b) =>
            \A i \in Id : Node(i).by = b => i \in behind[cache[b] + 1] \cup {cache[b]}

\* A resource waits for all that may restart or run it: the executor records
\* changes between levels only, and never compares restart_on with deps.
TriggersAreDeps == \A i \in Id : Node(i).trig \subseteq Node(i).deps

\* Two resources that act on the same package, path or unit are ordered, so
\* that they never run beside each other: a Service waits for the unit file
\* the plan writes for it, nothing is installed while it is being removed,
\* and no two tasks use one temporary file.
SharedAreOrdered ==
    \A i, j \in Id : i < j /\ Node(i).on \cap Node(j).on # {} => i \in behind[j + 1]

\* No package is installed or removed before the package sources are set up.
AptComesFirst ==
    \A i \in Id :
        Node(i).kind \in PackageKinds /\ Node(i).by # "apt"
            => cache["apt"] \in behind[i + 1]

\* What a build() adds and what it calls.
AddsOf(s, b) ==
    {Build[s][b][k] : k \in {k \in 1 .. Len(Build[s][b]) : Build[s][b][k].op = "add"}}
CallsOf(s, b) ==
    {Build[s][b][k].as : k \in {k \in 1 .. Len(Build[s][b]) : Build[s][b][k].op = "call"}}

\* The bundles S and those their build() calls reach.
Reached(s, S) ==
    LET reach[n \in 0 .. Cardinality(BundleNames)] ==
            IF n = 0 THEN S
            ELSE LET near == reach[n - 1] IN near \cup UNION {CallsOf(s, b) : b \in near}
    IN  reach[Cardinality(BundleNames)]

\* A resource by its place in the source, from the tables and from the plan.
Place(r) == <<r.by, r.as>>
MarkerOf(s, b) == <<b, Build[s][b][Len(Build[s][b])].as>>
Meant(s, b, stmt) ==
    [by |-> b, as |-> stmt.as, kind |-> stmt.kind, on |-> stmt.on,
     deps |-> {IF v \in BundleNames THEN MarkerOf(s, v) ELSE <<b, v>> : v \in stmt.deps}]
Declared(s, bundles) == UNION {{Meant(s, b, stmt) : stmt \in AddsOf(s, b)} : b \in bundles}
Added(n) ==
    [by |-> n.by, as |-> n.as, kind |-> n.kind, on |-> n.on,
     deps |-> {Place(Node(d)) : d \in n.deps}]

\* The plan is the union of the bundles reached from the arguments, each
\* once, with the dependencies its build() names, whatever the order of the
\* arguments and however often a bundle is called.
PlanIsUnion ==
    Done =>
        LET resources == Declared(cfg, Reached(cfg, {asked[k] : k \in 1 .. Len(asked)}))
        IN  /\ {Added(plan[k]) : k \in 1 .. Len(plan)} = resources
            /\ Len(plan) = Cardinality(resources)

\* The resources whose dependencies lie n levels deep at most.
Closed ==
    LET closed[n \in 0 .. Len(plan)] ==
            IF n = 0 THEN {}
            ELSE LET c == closed[n - 1] IN c \cup {i \in Id : Node(i).deps \subseteq c}
    IN  closed

\* `ubuntu-drivers install` (src/src/bundles/common_tweaks.rs) is a Command that runs
\* in every run and calls apt itself.  Nothing in the plan orders it with the
\* packages of the other bundles: only the depths at which they lie keep it out of
\* the levels in which a batch would compete with it for dpkg's lock, each time.
DriversAreAlone ==
    Done =>
        \A i, j \in Id :
            Node(i).as = "drivers_install" /\ Node(j).kind \in PackageKinds
                => \E n \in DOMAIN Closed : (i \in Closed[n]) # (j \in Closed[n])

-----------------------------------------------------------------------------
(* What the build() functions of all bundles together keep to, whichever   *)
(* of them a run is asked for: read off the tables, not off a plan.        *)

\* before[p] are places the resource at place p waits for: each because p depends
\* on it or on one that waits for it.  All that share something are ordered by it.
OrdersSharers(s, before) ==
    LET all == Declared(s, BundleNames)
    IN  /\ \A r \in all : \A p \in before[Place(r)] :
               \E d \in r.deps : p = d \/ p \in before[d]
        /\ \A q, r \in all :
               q # r /\ q.on \cap r.on # {}
                   => Place(q) \in before[Place(r)] \/ Place(r) \in before[Place(q)]

\* depth[p] is the length of the longest chain of dependencies below place p;
\* that of the drivers Command differs from that of every package.
DriversApart(s, depth) ==
    LET all == Declared(s, BundleNames)
    IN  /\ \A r \in all :
               /\ depth[Place(r)] \in Nat
               /\ \A d \in r.deps : depth[d] < depth[Place(r)]
               /\ depth[Place(r)] = 0 \/ \E d \in r.deps : depth[Place(r)] = depth[d] + 1
        /\ \A q, r \in all :
               q.as = "drivers_install" /\ r.kind \in PackageKinds
                   => depth[Place(q)] # depth[Place(r)]

=============================================================================
