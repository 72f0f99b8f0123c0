------------------------------- MODULE DagRun -------------------------------
(***************************************************************************)
(* What Executor::run promises of a plan, without levels, tasks, batches   *)
(* or reports: resources converge at most once per run, each only after    *)
(* all its dependencies have settled and after every change they made can  *)
(* be seen; a run succeeds only when every resource has settled.           *)
(*                                                                         *)
(* Executor.tla is shown to implement this specification.                  *)
(***************************************************************************)
EXTENDS Integers, Sequences

CONSTANTS N, Plans

Nodes == 0 .. N - 1

VARIABLES
    deps,     \* the dependency ids of every resource
    state,    \* how far each resource is
    made,     \* the settled resources that changed something
    seen,     \* the changes a dependent can see
    verdict   \* the run's

vars == <<deps, state, made, seen, verdict>>

DepsOf(i) == {deps[i][k] : k \in DOMAIN deps[i]}
Settled == {i \in Nodes : state[i] = "settled"}

Fresh ==
    /\ state = [i \in Nodes |-> "waiting"]
    /\ made = {}
    /\ seen = {}
    /\ verdict = "run"

Init == deps \in Plans /\ Fresh

\* The resources S start and the resources K are passed over, all of them with
\* settled dependencies whose changes are visible.
Start(S, K) ==
    /\ verdict = "run"
    /\ S \cap K = {}
    /\ \A i \in S \cup K :
           /\ state[i] = "waiting"
           /\ DepsOf(i) \subseteq Settled
           /\ DepsOf(i) \cap made \subseteq seen
    /\ state' = [i \in Nodes |-> IF i \in S THEN "running"
                                 ELSE IF i \in K THEN "settled" ELSE state[i]]
    /\ UNCHANGED <<deps, made, seen, verdict>>

\* The running resources T settle; those in M report a change.
Settle(T, M) ==
    /\ verdict = "run"
    /\ M \subseteq T
    /\ \A i \in T : state[i] = "running"
    /\ state' = [i \in Nodes |-> IF i \in T THEN "settled" ELSE state[i]]
    /\ made' = made \cup M
    /\ UNCHANGED <<deps, seen, verdict>>

Publish ==
    /\ verdict = "run"
    /\ seen' = made
    /\ UNCHANGED <<deps, state, made, verdict>>

Succeed ==
    /\ verdict = "run"
    /\ Settled = Nodes
    /\ seen = made
    /\ verdict' = "ok"
    /\ UNCHANGED <<deps, state, made, seen>>

Fail ==
    /\ verdict = "run"
    /\ verdict' = "failed"
    /\ UNCHANGED <<deps, state, made, seen>>

\* host-setup is run again on the same host.
Again ==
    /\ verdict # "run"
    /\ Fresh'
    /\ UNCHANGED deps

Next ==
    \/ \E S, K \in SUBSET Nodes : Start(S, K)
    \/ \E T, M \in SUBSET Nodes : Settle(T, M)
    \/ Publish
    \/ Succeed
    \/ Fail
    \/ Again

Spec == Init /\ [][Next]_vars

=============================================================================
