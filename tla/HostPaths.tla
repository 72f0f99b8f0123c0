----------------------------- MODULE HostPaths -----------------------------
(***************************************************************************)
(* What the file backends promise of a host's paths, without tasks,        *)
(* awaits and temporary files: what is at a path changes by whole objects, *)
(* one path at a time, only towards what its resource asks for, and only   *)
(* in a run that may write; a run succeeds only when every resource has    *)
(* its way.  A file is never missing; a link may be, for a moment.         *)
(*                                                                         *)
(* Files.tla is shown to implement this specification.                     *)
(***************************************************************************)
CONSTANTS Paths, Plans, Kind, Mode, Owner, Configs, Matching, Line, Gone

VARIABLES
    plan,   \* the paths with a resource
    run,    \* "off", "run", "ok", "failed"
    mode,   \* RunMode
    want,   \* what the run is asked for
    at      \* at[p]: what is at p

vars == <<plan, run, mode, want, at>>

-----------------------------------------------------------------------------
(* What is asked of an object.                                             *)

ModeIs(o, p) == Mode[p] \in {"any", o.mode}
OwnerIs(o, p) == Owner[p] \in {"any", o.owner}
HasTheLine(t) ==
    /\ \E i \in DOMAIN t : t[i] = Line
    /\ \A i \in DOMAIN t : t[i] \in Matching => t[i] = Line

\* There is something at p, or where the link at p leads.
Occupied(p) ==
    /\ at[p].type # "none"
    /\ at[p].type = "link" /\ at[p].content \in Paths => at[at[p].content].type # "none"

AsAsked(p) ==
    CASE Kind[p] = "file" ->
           at[p].type = "file" /\ at[p].content = want[p] /\ ModeIs(at[p], p) /\ OwnerIs(at[p], p)
      [] Kind[p] = "download" -> at[p].type = "file" /\ at[p].content = want[p]
      [] Kind[p] = "line" -> at[p].type = "file" /\ HasTheLine(at[p].content)
      [] Kind[p] = "link" -> at[p].type = "link" /\ at[p].content = want[p]
      [] Kind[p] = "dir" -> at[p].type = "dir" /\ ModeIs(at[p], p) /\ OwnerIs(at[p], p)
      [] Kind[p] = "absent" -> ~Occupied(p)

\* One whole file for another; a LineInFile keeps the lines that are not its.
Replaces(old, new, p) ==
    /\ new.type = "file"
    /\ \/ Kind[p] = "file" /\ new.content = want[p] /\ ModeIs(new, p) /\ OwnerIs(new, p)
       \/ Kind[p] = "download" /\ new.content = want[p] /\ ModeIs(new, p)
       \/ /\ Kind[p] = "line"
          /\ old.type = "file"
          /\ HasTheLine(new.content)
          /\ \A i \in DOMAIN old.content :
                 old.content[i] \notin Matching =>
                     i \in DOMAIN new.content /\ new.content[i] = old.content[i]

\* Another mode or owner, of those asked for.
Adjusts(old, new, p) ==
    /\ Kind[p] \in {"file", "dir"}
    /\ new.type = old.type /\ new.content = old.content
    /\ new.mode \in {old.mode, Mode[p]}
    /\ new.owner \in {old.owner, Owner[p]}

Links(old, new, p) ==
    /\ Kind[p] = "link"
    /\ old.type = "none"
    /\ new.type = "link" /\ new.content = want[p]

\* What is no directory.
Removes(old, new, p) == Kind[p] \in {"link", "absent"} /\ old.type # "dir" /\ new = Gone

\* A directory, also as the parent of what another resource keeps there.
Makes(old, new, p) == Kind[p] = "dir" /\ old.type = "none" /\ new.type = "dir"

-----------------------------------------------------------------------------

Init ==
    /\ plan \in Plans
    /\ run = "off"
    /\ mode = "Apply"
    /\ want \in Configs
    /\ at = [p \in Paths |-> Gone]

Begin ==
    /\ run = "off"
    /\ run' = "run"
    /\ mode' \in {"Apply", "DryRun"}
    /\ want' \in Configs
    /\ UNCHANGED <<plan, at>>

\* The resource of p does one thing to p, also after its run has failed; or p
\* is made as somebody's parent.
Change(p) ==
    /\ run \in {"run", "failed"}
    /\ mode = "Apply"
    /\ \/ /\ p \in plan
          /\ \/ Replaces(at[p], at'[p], p)
             \/ Adjusts(at[p], at'[p], p)
             \/ Links(at[p], at'[p], p)
             \/ Removes(at[p], at'[p], p)
       \/ Makes(at[p], at'[p], p)
    /\ \A q \in Paths \ {p} : at'[q] = at[q]
    /\ UNCHANGED <<plan, run, mode, want>>

Succeed ==
    /\ run = "run"
    /\ mode = "Apply" => \A p \in plan : AsAsked(p)
    /\ run' = "ok"
    /\ UNCHANGED <<plan, mode, want, at>>

Fail ==
    /\ run = "run"
    /\ run' = "failed"
    /\ UNCHANGED <<plan, mode, want, at>>

End ==
    /\ run \in {"ok", "failed"}
    /\ run' = "off"
    /\ UNCHANGED <<plan, mode, want, at>>

\* Others may do anything between the runs.
Others == run = "off" /\ UNCHANGED <<plan, run, mode, want>>

Next ==
    \/ Begin
    \/ \E p \in Paths : Change(p)
    \/ Succeed
    \/ Fail
    \/ End
    \/ Others

Spec == Init /\ [][Next]_vars

=============================================================================
