----------------------------- MODULE UnitFiles -----------------------------
(***************************************************************************)
(* SystemdUnit resources and the Services that run their units: File's     *)
(* write through a temporary file, daemon-reload and systemctl, step by    *)
(* step between the awaits (src/src/backends/systemd_unit.rs, file.rs and  *)
(* service.rs), for several units at once, through failures, aborts, kills *)
(* and any number of runs on a host that others change too.                *)
(*                                                                         *)
(* A unit has one SystemdUnit and one Service{enabled, started} with the   *)
(* SystemdUnit in deps and in restart_on, as the bundles build them, so    *)
(* that the executor starts it in a later level.  How the units' levels    *)
(* lie to each other depends on the plan, and any interleaving of their    *)
(* steps is allowed here.  systemd is external and modelled by what the    *)
(* code asks of it.                                                        *)
(***************************************************************************)
EXTENDS Naturals

CONSTANTS
    Units,      \* the units of the plan
    Versions,   \* the contents a configuration may ask for
    Modes,      \* the modes a file may have
    Umasked,    \* the modes File::create may give a new file
    Want,       \* 0o644, the mode SystemdUnit asks for
    MaxRuns     \* bound: how often the program is run

ASSUME ModesAssumption == Want \in Modes /\ Umasked \subseteq Modes
ASSUME RunsAssumption == MaxRuns \in Nat
ASSUME VersionsAssumption == Versions \cap {"absent", "partial", "edited", "down"} = {}

VARIABLES
    phase,     \* "off", or the run: "run", "ok", "failed"
    mode,      \* RunMode
    want,      \* want[u]: the content of the run's configuration
    pc,        \* pc[u]: the next await of u's resources
    verb,      \* verb[u]: what Service runs after enable, or "none"
    changed,   \* the SystemdUnits that returned Changed::Yes
    file,      \* disk: /etc/systemd/system/<u>
    tmp,       \* disk: the temporary file beside it
    loaded,    \* systemd: the content it goes by, "absent" if not loaded
    running,   \* systemd: the content the active unit was started from,
               \* or "down"
    enabled,   \* systemd: is-enabled
    clean,     \* no run has failed so far
    runs       \* how often the program was started

runVars == <<phase, mode, want, pc, verb, changed, clean, runs>>
diskVars == <<file, tmp>>
sysVars == <<loaded, running, enabled>>
vars == <<runVars, diskVars, sysVars>>

Contents == Versions \cup {"absent", "partial", "edited"}
Files == [content : Contents, mode : Modes \cup {"none"}]
Absent == [content |-> "absent", mode |-> "none"]
Installed(u) == [content |-> want[u], mode |-> Want]

Writing == {"read", "inplace", "create", "write", "chmod", "rename", "reload"}
Starting == {"sense", "enable", "restart", "start"}
InFlight == Writing \cup Starting

-----------------------------------------------------------------------------
(* What systemd does.                                                      *)

\* Starting a unit loads it from disk only if it is not loaded.
StartFrom(u) == IF loaded[u] = "absent" THEN file[u].content ELSE loaded[u]
LoadAll == loaded' = [u \in Units |-> file[u].content]

\* An inactive unit nothing refers to is dropped from memory.
Forget(u) ==
    /\ running[u] = "down" /\ ~enabled[u] /\ loaded[u] # "absent"
    /\ loaded' = [loaded EXCEPT ![u] = "absent"]
    /\ UNCHANGED <<runVars, diskVars, running, enabled>>

-----------------------------------------------------------------------------
(* What the awaits of the code do to the host.                             *)

\* set_permissions on the file itself, when only its mode differs.
ChmodInPlace(u) == file' = [file EXCEPT ![u].mode = Want] /\ UNCHANGED <<tmp, sysVars>>
\* A plausible bug: the file itself is truncated.
TruncateFile(u) ==
    /\ file' = [file EXCEPT ![u] = [content |-> "partial", mode |-> Want]]
    /\ UNCHANGED <<tmp, sysVars>>
\* File::create truncates; a temporary file left behind keeps its mode.
CreateTmp(u) ==
    /\ \E m \in IF tmp[u] = Absent THEN Umasked ELSE {tmp[u].mode} :
           tmp' = [tmp EXCEPT ![u] = [content |-> "partial", mode |-> m]]
    /\ UNCHANGED <<file, sysVars>>
WriteTmp(u) == tmp' = [tmp EXCEPT ![u].content = want[u]] /\ UNCHANGED <<file, sysVars>>
ChmodTmp(u) == tmp' = [tmp EXCEPT ![u].mode = Want] /\ UNCHANGED <<file, sysVars>>
RenameTmp(u) ==
    /\ file' = [file EXCEPT ![u] = tmp[u]]
    /\ tmp' = [tmp EXCEPT ![u] = Absent]
    /\ UNCHANGED sysVars
\* A plausible bug: one reload per run is taken to be enough.
ReloadOnce ==
    /\ loaded' = IF \E u \in changed : pc[u] \notin Writing THEN loaded
                 ELSE [u \in Units |-> file[u].content]
    /\ UNCHANGED <<diskVars, running, enabled>>
DaemonReload == LoadAll /\ UNCHANGED <<diskVars, running, enabled>>
\* systemctl enable reloads as well, once it has made its links.
Enable(u) ==
    /\ enabled' = [enabled EXCEPT ![u] = TRUE]
    /\ LoadAll
    /\ UNCHANGED <<diskVars, running>>
StartUnit(u) ==
    /\ loaded' = [loaded EXCEPT ![u] = StartFrom(u)]
    /\ running' = [running EXCEPT ![u] = StartFrom(u)]
    /\ UNCHANGED <<diskVars, enabled>>

Effect(u) ==
    \/ pc[u] \in {"read", "sense"} /\ UNCHANGED <<diskVars, sysVars>>
    \/ pc[u] = "inplace" /\ ChmodInPlace(u)
    \/ pc[u] = "create" /\ CreateTmp(u)
    \/ pc[u] = "write" /\ WriteTmp(u)
    \/ pc[u] = "chmod" /\ ChmodTmp(u)
    \/ pc[u] = "rename" /\ RenameTmp(u)
    \/ pc[u] = "reload" /\ DaemonReload
    \/ pc[u] = "enable" /\ Enable(u)
    \/ pc[u] \in {"restart", "start"} /\ StartUnit(u)

-----------------------------------------------------------------------------
(* A run.                                                                  *)

Host0 ==
    \E c \in [Units -> Versions \cup {"absent"}] :
        /\ file = [u \in Units |-> IF c[u] = "absent" THEN Absent
                                   ELSE [content |-> c[u], mode |-> Want]]
        /\ loaded = c
        /\ running = [u \in Units |-> IF c[u] = "absent" THEN "down" ELSE c[u]]
        /\ enabled = [u \in Units |-> c[u] # "absent"]

\* A host never set up, or one that an earlier configuration set up.
Init ==
    /\ phase = "off"
    /\ mode = "Apply"
    /\ want \in [Units -> Versions]
    /\ pc = [u \in Units |-> "end"]
    /\ verb = [u \in Units |-> "none"]
    /\ changed = {}
    /\ tmp = [u \in Units |-> Absent]
    /\ Host0
    /\ clean = TRUE
    /\ runs = 0

Start ==
    /\ phase = "off"
    /\ runs < MaxRuns
    /\ runs' = runs + 1
    /\ phase' = "run"
    /\ mode' \in {"Apply", "DryRun"}
    /\ want' \in [Units -> Versions]
    /\ pc' = [u \in Units |-> "read"]
    /\ verb' = [u \in Units |-> "none"]
    /\ changed' = {}
    /\ UNCHANGED <<clean, diskVars, sysVars>>

\* A plausible bug: a file with the right content is taken to be right.
ContentMatches(u) == file[u].content = want[u]
\* File::converge_one has nothing to do.
Matches(u) == file[u] = Installed(u)

\* File::converge_one senses the file and decides; in a dry run SystemdUnit
\* returns Changed::Yes here.
ReadFile(u) ==
    /\ pc[u] = "read"
    /\ changed' = IF Matches(u) THEN changed ELSE changed \cup {u}
    /\ pc' = [pc EXCEPT ![u] = IF Matches(u) \/ mode = "DryRun" THEN "sense"
                               ELSE IF file[u].content = want[u] THEN "inplace"
                               ELSE "create"]
    /\ UNCHANGED <<phase, mode, want, verb, clean, runs, diskVars, sysVars>>

\* A plausible bug: the file is in place before its mode is set.
RenameFirst ==
    [inplace |-> "reload", create |-> "write", write |-> "rename",
     rename |-> "reload", reload |-> "sense", chmod |-> "sense"]
\* The order of File::converge_one and SystemdUnit::converge_one; once the
\* change is recorded the unit's Service follows.
After ==
    [inplace |-> "reload", create |-> "write", write |-> "chmod",
     chmod |-> "rename", rename |-> "reload", reload |-> "sense"]

WriteStep(u) ==
    /\ phase = "run"
    /\ pc[u] \in DOMAIN After
    /\ Effect(u)
    /\ pc' = [pc EXCEPT ![u] = After[pc[u]]]
    /\ UNCHANGED <<phase, mode, want, verb, changed, clean, runs>>

\* needs_restart, else needs_start.
Verb(u) ==
    IF running[u] = "down" THEN "start"
    ELSE IF u \in changed THEN "restart" ELSE "none"

SenseService(u) ==
    /\ pc[u] = "sense"
    /\ verb' = [verb EXCEPT ![u] = Verb(u)]
    /\ pc' = [pc EXCEPT ![u] = IF mode = "DryRun" THEN "end"
                               ELSE IF ~enabled[u] THEN "enable"
                               ELSE IF Verb(u) # "none" THEN Verb(u)
                               ELSE "end"]
    /\ UNCHANGED <<phase, mode, want, changed, clean, runs, diskVars, sysVars>>

ServiceStep(u) ==
    /\ phase = "run"
    /\ pc[u] \in {"enable", "restart", "start"}
    /\ Effect(u)
    /\ pc' = [pc EXCEPT ![u] = IF pc[u] = "enable" /\ verb[u] # "none"
                               THEN verb[u] ELSE "end"]
    /\ UNCHANGED <<phase, mode, want, verb, changed, clean, runs>>

Finish ==
    /\ phase = "run"
    /\ \A u \in Units : pc[u] = "end"
    /\ phase' = "ok"
    /\ UNCHANGED <<mode, want, pc, verb, changed, clean, runs, diskVars, sysVars>>

-----------------------------------------------------------------------------
(* Failures.                                                               *)

\* An await returns an error: a file operation without its effect, a command
\* with or without; a restart that fails has stopped the unit.
Fails(u) ==
    /\ phase = "run"
    /\ pc[u] \in InFlight
    /\ \/ pc[u] \in {"reload", "enable", "restart", "start"} /\ Effect(u)
       \/ UNCHANGED <<diskVars, sysVars>>
       \/ /\ pc[u] = "restart"
          /\ running' = [running EXCEPT ![u] = "down"]
          /\ UNCHANGED <<diskVars, loaded, enabled>>
    /\ pc' = [pc EXCEPT ![u] = "error"]
    /\ UNCHANGED <<phase, mode, want, verb, changed, clean, runs>>

Failed == phase' = "failed" /\ clean' = (clean /\ mode = "DryRun")

\* The join loop sees the error: run() returns and drops the other tasks.
JoinError ==
    /\ phase = "run"
    /\ \E u \in Units : pc[u] = "error"
    /\ Failed
    /\ UNCHANGED <<mode, want, pc, verb, changed, runs, diskVars, sysVars>>

Kill ==
    /\ phase = "run"
    /\ Failed
    /\ UNCHANGED <<mode, want, pc, verb, changed, runs, diskVars, sysVars>>

\* A dropped task ends at its await; what it has issued may still happen.
Dropped(u) ==
    /\ phase = "failed"
    /\ pc[u] \in InFlight
    /\ Effect(u) \/ UNCHANGED <<diskVars, sysVars>>
    /\ pc' = [pc EXCEPT ![u] = "cut"]
    /\ UNCHANGED <<phase, mode, want, verb, changed, clean, runs>>

-----------------------------------------------------------------------------
(* Between the runs.                                                       *)

\* The program has ended, and so has what it left in flight.
Exit ==
    /\ phase \in {"ok", "failed"}
    /\ \A u \in Units : pc[u] \notin InFlight
    /\ phase' = "off"
    /\ pc' = [u \in Units |-> "end"]
    /\ verb' = [u \in Units |-> "none"]
    /\ changed' = {}
    /\ UNCHANGED <<mode, want, clean, runs, diskVars, sysVars>>

\* Somebody edits, removes or changes the mode of a unit file or stops the unit.
Drift(u) ==
    /\ phase = "off"
    /\ \/ /\ file[u] # Absent
          /\ \E f \in {Absent} \cup {[content |-> "edited", mode |-> m] : m \in Modes}
                       \cup {[content |-> file[u].content, mode |-> m] : m \in Modes} :
                 file' = [file EXCEPT ![u] = f]
          /\ UNCHANGED <<tmp, sysVars>>
       \/ /\ running' = [running EXCEPT ![u] = "down"]
          /\ UNCHANGED <<diskVars, loaded, enabled>>
    /\ UNCHANGED runVars

\* The host is shut down and boots again.
Reboot ==
    /\ phase = "off"
    /\ LoadAll
    /\ running' = [u \in Units |-> IF enabled[u] /\ file[u] # Absent
                                   THEN file[u].content ELSE "down"]
    /\ UNCHANGED <<runVars, diskVars, enabled>>

Next ==
    \/ Start
    \/ \E u \in Units : ReadFile(u)
    \/ \E u \in Units : WriteStep(u)
    \/ \E u \in Units : SenseService(u)
    \/ \E u \in Units : ServiceStep(u)
    \/ Finish
    \/ \E u \in Units : Fails(u)
    \/ JoinError
    \/ Kill
    \/ \E u \in Units : Dropped(u)
    \/ Exit
    \/ \E u \in Units : Drift(u)
    \/ Reboot
    \/ \E u \in Units : Forget(u)

Spec == Init /\ [][Next]_vars

-----------------------------------------------------------------------------
(* What the resources must guarantee.                                      *)

\* The variables keep their ranges; the unit file is never half written.
TypeOK ==
    /\ phase \in {"off", "run", "ok", "failed"}
    /\ mode \in {"Apply", "DryRun"}
    /\ want \in [Units -> Versions]
    /\ pc \in [Units -> InFlight \cup {"end", "error", "cut"}]
    /\ verb \in [Units -> {"none", "start", "restart"}]
    /\ changed \in SUBSET Units
    /\ file \in [Units -> {f \in Files : f.content # "partial"}]
    /\ tmp \in [Units -> Files]
    /\ loaded \in [Units -> Contents \ {"partial"}]
    /\ running \in [Units -> Contents \cup {"down"}]
    /\ enabled \in [Units -> BOOLEAN]
    /\ clean \in BOOLEAN
    /\ runs \in Nat

\* The program changes a unit file's content in one step, from what was there
\* to a whole version with the right mode ("atomic write", src/src/README.md),
\* also when it fails, is aborted or killed, or finds what an earlier run left.
WholeFileWrites ==
    [][\A u \in Units :
           phase # "off" /\ file'[u].content # file[u].content
               => file'[u] = Installed(u)]_vars

\* A run that returns Ok leaves every unit file as the configuration asks, and
\* its unit active and enabled, whatever earlier runs and others left behind.
OkInstalled ==
    phase = "ok" /\ mode = "Apply" =>
        \A u \in Units : file[u] = Installed(u) /\ running[u] # "down" /\ enabled[u]

\* As long as no run has failed, a run that returns Ok leaves systemd with the
\* configured unit, loaded and running.
OkRuns ==
    phase = "ok" /\ mode = "Apply" /\ clean =>
        \A u \in Units : loaded[u] = want[u] /\ running[u] = want[u]

\* A unit that a run starts or restarts after having changed its file runs
\* what the configuration asks, whatever happened before the run.
RestartsAreFresh ==
    [][\A u \in changed :
           pc[u] \in {"restart", "start"} /\ pc'[u] = "end"
               => running'[u] = want[u]]_vars

\* What src/src/backends/systemd_unit.rs promises: when a run has dealt with a
\* unit, the Services that follow see the unit that is on disk.
ServiceSeesUnit ==
    phase = "ok" /\ mode = "Apply" =>
        \A u \in Units : loaded[u] \in {file[u].content, "absent"}

-----------------------------------------------------------------------------
(* The inductive invariant.                                                *)

\* The resources are where the phase says, and a dry run never writes.
PhaseInv ==
    /\ \A u \in Units :
           /\ pc[u] \in InFlight => phase \in {"run", "failed"}
           /\ mode = "DryRun" => pc[u] \in {"read", "sense", "end", "error", "cut"}
           /\ phase = "run" => pc[u] # "cut"
           /\ phase = "off" => pc[u] = "end"
           /\ pc[u] = "read" => u \notin changed
           /\ pc[u] \in Writing \ {"read"} => u \in changed
    /\ phase = "off" => changed = {}

\* What the temporary file holds when its next await is reached.
TmpInv ==
    \A u \in Units :
        /\ pc[u] = "inplace" => file[u].content = want[u]
        /\ pc[u] = "chmod" => tmp[u].content = want[u]
        /\ pc[u] = "rename" => tmp[u] = Installed(u)

\* A unit file that the run has dealt with is right, and systemd goes by it
\* if the run changed it.
DealtWith(u) == phase = "ok" \/ (phase = "run" /\ pc[u] \in Starting \cup {"end"})
FileInv ==
    mode = "Apply" =>
        \A u \in Units :
            /\ DealtWith(u) \/ pc[u] = "reload" => file[u] = Installed(u)
            /\ DealtWith(u) /\ u \in changed => loaded[u] \in {"absent", want[u]}

\* What a Service has left to do.
Served(u) == phase = "ok" \/ (phase = "run" /\ pc[u] = "end")
ServiceInv ==
    mode = "Apply" =>
        \A u \in Units :
            /\ Served(u) => running[u] # "down" /\ enabled[u]
            /\ phase = "run" /\ pc[u] \in {"restart", "start"} => enabled[u]
            /\ phase = "run" /\ pc[u] = "enable" /\ verb[u] = "none"
                   => running[u] # "down" /\ u \notin changed

\* Without a failed run, a unit file of some configuration is the one systemd
\* goes by, until a run replaces it.
Settled(u) ==
    file[u].content \in Versions =>
        /\ loaded[u] \in {"absent", file[u].content}
        /\ running[u] \in {"down", file[u].content}
        /\ running[u] # "down" => loaded[u] = file[u].content
Untouched(u) ==
    \/ u \notin changed
    \/ mode = "DryRun"
    \/ pc[u] \in {"inplace", "create", "write", "chmod", "rename"}
CleanInv ==
    clean =>
      /\ phase = "failed" => mode = "DryRun"
      /\ \A u \in Units :
            /\ Untouched(u) => Settled(u)
            /\ mode = "Apply" /\ Served(u) => loaded[u] = want[u] /\ running[u] = want[u]

IInv == TypeOK /\ PhaseInv /\ TmpInv /\ FileInv /\ ServiceInv /\ CleanInv

=============================================================================
