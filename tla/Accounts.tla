------------------------------ MODULE Accounts ------------------------------
(***************************************************************************)
(* User resources (src/src/backends/user.rs), as the users bundle adds     *)
(* them: one per user of the configuration, none depending on another, so  *)
(* that all of them run beside each other in the first level, before any   *)
(* package.  useradd and usermod are external: they lock the account files *)
(* against each other, one that does not get the lock fails, and so does   *)
(* one that is to put a user into a group that there is not.               *)
(***************************************************************************)
CONSTANTS
    Users,      \* the users of the configuration
    Groups,     \* supplementary groups
    Provided,   \* those that packages of the same run come with
    MayFail,    \* whether a command may fail that could succeed
    Configs     \* what the configuration may ask for: [groups, password]

ASSUME ConfigsAssumption ==
    /\ Provided \subseteq Groups
    /\ Configs \subseteq [groups : SUBSET Groups, password : {"none", "hash"}]

VARIABLES
    phase,    \* "off", "users", "packages", "ok" or "failed"
    mode,     \* RunMode
    spec,     \* spec[u]: the user in the configuration
    pc,       \* pc[u]: the next await of u's resource
    created,  \* the users that useradd has made in this run
    groups,   \* host: the groups there are
    member,   \* host: supplementary groups, for those who exist
    exists,   \* host: the users in passwd
    secret    \* host: secret[u], "none", "hash" as configured or "own" if the
              \* user has set one

hostVars == <<groups, member, exists, secret>>
vars == <<phase, mode, spec, pc, created, hostVars>>

InFlight == {"sense", "useradd", "passwd", "usermod"}
Missing(u) == spec[u].groups \ member[u]

Init ==
    /\ phase = "off"
    /\ mode = "Apply"
    /\ spec \in [Users -> Configs]
    /\ pc = [u \in Users |-> "end"]
    /\ created = {}
    /\ groups \in SUBSET Groups
    /\ exists \in SUBSET Users
    /\ member = [u \in Users |-> {}]
    /\ secret = [u \in Users |-> IF u \in exists THEN "own" ELSE "none"]

Start ==
    /\ phase = "off"
    /\ phase' = "users"
    /\ mode' \in {"Apply", "DryRun"}
    /\ spec' \in [Users -> Configs]
    /\ pc' = [u \in Users |-> "sense"]
    /\ created' = {}
    /\ UNCHANGED hostVars

-----------------------------------------------------------------------------
(* User::converge_one                                                      *)

\* A plausible bug: the groups are looked at before the user.
GroupsFirst(u) ==
    IF Missing(u) # {} THEN "usermod" ELSE IF u \notin exists THEN "useradd" ELSE "end"
\* A plausible bug: a user who exists is not looked at again.
OnlyCreates(u) == IF u \notin exists THEN "useradd" ELSE "end"
\* A plausible bug: a password is set for a user who exists already.
ResetsPassword(u) ==
    IF u \notin exists THEN "useradd"
    ELSE IF Missing(u) # {} THEN "usermod"
    ELSE IF spec[u].password # secret[u] THEN "passwd" ELSE "end"
\* getent passwd and id -nG: what there is to do.
Todo(u) ==
    IF u \notin exists THEN "useradd"
    ELSE IF Missing(u) # {} THEN "usermod" ELSE "end"

Sense(u) ==
    /\ phase = "users"
    /\ pc[u] = "sense"
    /\ pc' = [pc EXCEPT ![u] = IF mode = "DryRun" THEN "end" ELSE Todo(u)]
    /\ UNCHANGED <<phase, mode, spec, created, hostVars>>

\* What the commands do, if the groups exist: useradd with -G makes the user
\* with all its groups.
Effect(u) ==
    \/ /\ pc[u] = "useradd"
       /\ spec[u].groups \subseteq groups
       /\ exists' = exists \cup {u}
       /\ member' = [member EXCEPT ![u] = spec[u].groups]
       /\ created' = created \cup {u}
       /\ UNCHANGED <<groups, secret>>
    \/ /\ pc[u] = "usermod"
       /\ Missing(u) \subseteq groups
       /\ member' = [member EXCEPT ![u] = @ \cup spec[u].groups]
       /\ UNCHANGED <<groups, exists, secret, created>>
    \/ /\ pc[u] = "passwd"
       /\ secret' = [secret EXCEPT ![u] = spec[u].password]
       /\ UNCHANGED <<groups, exists, member, created>>
Refused(u) ==
    \/ pc[u] = "useradd" /\ ~(spec[u].groups \subseteq groups)
    \/ pc[u] = "usermod" /\ ~(Missing(u) \subseteq groups)
NoEffect == UNCHANGED <<hostVars, created>>

Command(u) ==
    /\ phase = "users"
    /\ Effect(u)
    /\ pc' = [pc EXCEPT ![u] =
                  IF pc[u] = "useradd" /\ spec[u].password # "none" THEN "passwd" ELSE "end"]
    /\ UNCHANGED <<phase, mode, spec>>

\* The next level begins.
UsersDone ==
    /\ phase = "users"
    /\ \A u \in Users : pc[u] = "end"
    /\ phase' = "packages"
    /\ UNCHANGED <<mode, spec, pc, created, hostVars>>

\* The packages, with the groups that their scripts create.
Install ==
    /\ phase = "packages"
    /\ mode = "Apply"
    /\ groups' = groups \cup Provided
    /\ UNCHANGED <<phase, mode, spec, pc, created, member, exists, secret>>
Finish ==
    /\ phase = "packages"
    /\ mode = "Apply" => Provided \subseteq groups
    /\ phase' = "ok"
    /\ UNCHANGED <<mode, spec, pc, created, hostVars>>

-----------------------------------------------------------------------------
(* Failures, and the time between the runs.                                *)

\* A command fails: an unknown group; no lock, an id that is taken, or a home
\* directory that cannot be made for a user who then exists.
Fails(u) ==
    /\ phase = "users"
    /\ pc[u] \in InFlight
    /\ MayFail \/ Refused(u)
    /\ Effect(u) \/ NoEffect
    /\ pc' = [pc EXCEPT ![u] = "error"]
    /\ UNCHANGED <<phase, mode, spec>>

\* The join loop sees the error; or the packages fail, or the process is killed.
Stop ==
    /\ phase \in {"users", "packages"}
    /\ MayFail \/ \E u \in Users : pc[u] = "error"
    /\ phase' = "failed"
    /\ UNCHANGED <<mode, spec, pc, created, hostVars>>

\* A dropped task ends at its await; a command it has started goes on.
Dropped(u) ==
    /\ phase = "failed"
    /\ pc[u] \in InFlight
    /\ Effect(u) \/ NoEffect
    /\ pc' = [pc EXCEPT ![u] = "cut"]
    /\ UNCHANGED <<phase, mode, spec>>

Exit ==
    /\ phase \in {"ok", "failed"}
    /\ \A u \in Users : pc[u] \notin InFlight
    /\ phase' = "off"
    /\ pc' = [u \in Users |-> "end"]
    /\ created' = {}
    /\ UNCHANGED <<mode, spec, hostVars>>

\* A user takes a password of its own, or leaves its groups.
Drift(u) ==
    /\ phase = "off"
    /\ u \in exists
    /\ \/ secret' = [secret EXCEPT ![u] = "own"] /\ UNCHANGED member
       \/ member' = [member EXCEPT ![u] = {}] /\ UNCHANGED secret
    /\ UNCHANGED <<phase, mode, spec, pc, created, groups, exists>>

Next ==
    \/ Start
    \/ \E u \in Users : Sense(u)
    \/ \E u \in Users : Command(u)
    \/ UsersDone
    \/ Install
    \/ Finish
    \/ \E u \in Users : Fails(u)
    \/ Stop
    \/ \E u \in Users : Dropped(u)
    \/ Exit
    \/ \E u \in Users : Drift(u)

Spec == Init /\ [][Next]_vars

-----------------------------------------------------------------------------
(* What User must guarantee.                                               *)

\* The variables keep their ranges; who does not exist has nothing.
TypeOK ==
    /\ phase \in {"off", "users", "packages", "ok", "failed"}
    /\ mode \in {"Apply", "DryRun"}
    /\ spec \in [Users -> Configs]
    /\ pc \in [Users -> InFlight \cup {"end", "error", "cut"}]
    /\ created \in SUBSET exists
    /\ groups \in SUBSET Groups
    /\ member \in [Users -> SUBSET Groups]
    /\ exists \in SUBSET Users
    /\ secret \in [Users -> {"none", "hash", "own"}]
    /\ \A u \in Users \ exists : member[u] = {} /\ secret[u] = "none"

\* A run that returns Ok leaves every user in existence and in all its groups,
\* also after runs that ended between useradd and what follows it; and those it
\* has created itself have the password of the configuration, which no later run
\* would set.
OkUsers ==
    phase = "ok" /\ mode = "Apply" =>
        \A u \in Users :
            /\ u \in exists /\ Missing(u) = {}
            /\ u \in created => secret[u] = spec[u].password

\* The program never replaces the password of a user it has not created in the
\* same run, whatever the configuration says by then.
PasswordsAreKept ==
    [][\A u \in Users : secret'[u] # secret[u] /\ phase # "off" => u \in created]_vars

\* What src/src/bundles/users.rs says of a group that a package brings: where the
\* run installs the package, the users are made.
ProvidedGroupsWork ==
    phase = "failed" => \E u \in Users : ~(spec[u].groups \subseteq groups \cup Provided)

\* Where no command fails that could succeed, a run fails only for a group that
\* there is not yet: never for what an earlier run, a drop or a user has left.
OnlyGroupsFail == ~MayFail /\ phase = "failed" => \E u \in Users : ~(spec[u].groups \subseteq groups)

-----------------------------------------------------------------------------
(* The inductive invariant.                                                *)

\* Who is where: a dry run issues no command, useradd is only for those who do not
\* exist, a password is only set after it, and groups are only added to a user who
\* existed before the run.
Progress(u) ==
    /\ pc[u] \in InFlight => phase \in {"users", "failed"}
    /\ phase = "users" => pc[u] # "cut"
    /\ mode = "DryRun" => pc[u] \notin {"useradd", "passwd", "usermod"}
    /\ pc[u] = "passwd" => u \in created
    /\ pc[u] = "useradd" => u \notin exists
    /\ pc[u] = "usermod" => u \in exists
    /\ pc[u] \in {"sense", "usermod"} => u \notin created

\* A user that useradd has returned for, or that needed nothing, is complete but
\* for a password that is still to be set.
Complete(u) ==
    mode = "Apply" /\ (phase \in {"packages", "ok"} \/ (phase = "users" /\ pc[u] \in {"passwd", "end"}))
        => /\ u \in exists /\ Missing(u) = {}
           /\ u \in created /\ pc[u] # "passwd" => secret[u] = spec[u].password

IInv == TypeOK /\ \A u \in Users : Progress(u) /\ Complete(u)

\* Why a task stands at an error: in the first level, where no group is made.
ErrorInv ==
    ~MayFail =>
        /\ phase = "failed" => \E u \in Users : pc[u] = "error"
        /\ \A u \in Users : pc[u] = "error" =>
               phase \in {"users", "failed"} /\ ~(spec[u].groups \subseteq groups)

=============================================================================
