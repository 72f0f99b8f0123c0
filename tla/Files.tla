------------------------------- MODULE Files -------------------------------
(***************************************************************************)
(* The backends that keep something at a path: File (and AptRepo, which is *)
(* one), Download, LineInFile, Symlink, AbsentFile and Directory of        *)
(* src/src/backends/, await by await.  The resources of one level run      *)
(* beside each other, through failures, aborts and kills, and any number   *)
(* of runs on a host that others change in between.                        *)
(*                                                                         *)
(* Each path has one resource.  AbsentFile looks through a link; the other *)
(* backends are only given links where they expect them.                   *)
(***************************************************************************)
EXTENDS Naturals, Sequences, FiniteSets

CONSTANTS
    Paths,      \* the resources' paths and the directories above them
    Plans,      \* the plans: sets of paths with a resource each
    Kind,       \* Kind[p]: the backend of p's resource
    Above,      \* Above[p]: the directories above p, if they are in Paths
    Mode,       \* Mode[p], Owner[p]: what the resource asks for, or "any"
    Owner,
    Configs,    \* what a run may be asked for: the content of each path, or
                \* the target of its link, as the configuration or, for a
                \* Download, the server has it
    Found,      \* Found[p]: what others may leave at p between the runs
    Modes,      \* modes
    Umasked,    \* the modes that what the program creates may have at first
    Users,      \* the users that the users bundle creates
    Nothing,    \* the content of what has none
    Partial,    \* a content being written
    Lines,      \* lines of a text
    Matching,   \* the lines that a LineInFile's regex matches
    Line,       \* the line a LineInFile asks for
    MayFail     \* whether an operation may fail that could succeed

Kinds == {"file", "download", "line", "link", "absent", "dir"}
Types == {"none", "file", "link", "dir"}
Texts == Seq(Lines)
Contents == {c[p] : c \in Configs, p \in Paths}
                \cup {o.content : o \in UNION {Found[p] : p \in Paths}}
                \cup {Nothing, Partial} \cup Texts
Objects == [type : Types, content : Contents, mode : Modes \cup {"none"},
            owner : Users \cup {"root", "none"}]
Gone == [type |-> "none", content |-> Nothing, mode |-> "none", owner |-> "none"]

ASSUME PlanAssumption ==
    /\ IsFiniteSet(Paths)
    /\ Plans \subseteq SUBSET Paths
    /\ Kind \in [Paths -> Kinds]
    /\ Above \in [Paths -> SUBSET Paths]
    /\ \A p \in Paths : \A q \in Above[p] : q # p /\ Kind[q] = "dir" /\ Above[q] \subseteq Above[p]
ASSUME AskAssumption ==
    /\ Umasked \subseteq Modes
    /\ Mode \in [Paths -> Modes \cup {"any"}]
    /\ Owner \in [Paths -> Users \cup {"any"}]
    /\ "any" \notin Modes \cup Users
    /\ \A c \in Configs : DOMAIN c = Paths /\ \A p \in Paths : c[p] # Partial
\* Others leave whole objects; a LineInFile finds a text, and a link that an
\* AbsentFile finds leads out of Paths or to a path that shall be absent too.
ASSUME FoundAssumption ==
    \A p \in Paths :
        /\ Found[p] \subseteq Objects
        /\ \A o \in Found[p] :
               /\ o.content # Partial
               /\ o.type = "none" => o = Gone
               /\ Kind[p] = "line" /\ o.type = "file" => o.content \in Texts
               /\ Kind[p] = "absent" /\ o.type = "link" /\ o.content \in Paths =>
                      Kind[o.content] = "absent"
\* The regex matches the line, as in the one LineInFile of the bundles.
ASSUME LineAssumption == Matching \subseteq Lines /\ Line \in Matching
ASSUME PartialAssumption == Partial \notin Texts /\ Partial # Nothing

VARIABLES
    plan,      \* the paths with a resource
    phase,     \* "off", or the run: "run", "ok", "failed"
    mode,      \* RunMode
    want,      \* want[p]: what the run's configuration or the server asks for
    pc,        \* pc[p]: the next await of p's resource
    changed,   \* the resources that returned Changed::Yes
    accounts,  \* host: the users in passwd
    obj,       \* disk: what is at p
    tmp,       \* disk: the temporary file beside p
    calm       \* the last run that could write returned Ok, and neither the
               \* host nor what is asked of it changed since

runVars == <<phase, mode, want, pc, changed, calm>>
diskVars == <<obj, tmp>>
vars == <<plan, runVars, accounts, diskVars>>

InFlight == {"lookup", "read", "mkdir", "create", "write", "chmod", "chown", "rename", "setmode",
             "setowner", "unlink", "symlink"}

-----------------------------------------------------------------------------
(* LineInFile's edit of a text (compute_new_content).                      *)

Matches(t) == \E i \in DOMAIN t : t[i] \in Matching
\* A plausible bug: the line is appended without looking for it.
EditAppends(t) == Append(t, Line)
Edit(t) ==
    IF Matches(t) THEN [i \in DOMAIN t |-> IF t[i] \in Matching THEN Line ELSE t[i]]
    ELSE Append(t, Line)

\* What a File, a Download or a LineInFile writes.  A LineInFile has read the
\* text some awaits ago, but nobody else writes to its path during the run.
Goal(p) == IF Kind[p] = "line" THEN Edit(obj[p].content) ELSE want[p]

-----------------------------------------------------------------------------
(* What the resources see.                                                 *)

ModeMatches(p) == Mode[p] \in {"any", obj[p].mode}
OwnerMatches(p) == Owner[p] \in {"any", obj[p].owner}
ContentMatches(p) == obj[p].type = "file" /\ obj[p].content = Goal(p)

\* fs::metadata follows a link; what is not in Paths is there.
Exists(p) ==
    /\ obj[p].type # "none"
    /\ obj[p].type = "link" /\ obj[p].content \in Paths => obj[obj[p].content].type # "none"

\* What is there makes the sensing fail.
Refused(p) ==
    \/ Kind[p] \in {"file", "download"} /\ obj[p].type = "dir"
    \/ Kind[p] = "line" /\ obj[p].type # "file"
    \/ Kind[p] = "link" /\ obj[p].type \notin {"none", "link"}
    \/ Kind[p] = "dir" /\ obj[p].type \notin {"none", "dir"}

\* A plausible bug: a file's owner is not looked at.
SettledButOwner(p) ==
    \/ Kind[p] = "file" /\ ContentMatches(p) /\ ModeMatches(p)
    \/ Kind[p] \in {"download", "line"} /\ ContentMatches(p)
    \/ Kind[p] = "link" /\ obj[p].type = "link" /\ obj[p].content = want[p]
    \/ Kind[p] = "absent" /\ ~Exists(p)
    \/ Kind[p] = "dir" /\ obj[p].type = "dir" /\ ModeMatches(p)
\* Nothing to do: Changed::No.
Settled(p) ==
    \/ Kind[p] = "file" /\ ContentMatches(p) /\ ModeMatches(p) /\ OwnerMatches(p)
    \/ Kind[p] \in {"download", "line"} /\ ContentMatches(p)
    \/ Kind[p] = "link" /\ obj[p].type = "link" /\ obj[p].content = want[p]
    \/ Kind[p] = "absent" /\ ~Exists(p)
    \/ Kind[p] = "dir" /\ obj[p].type = "dir" /\ ModeMatches(p) /\ OwnerMatches(p)

-----------------------------------------------------------------------------
(* What the awaits do to the disk.                                         *)

\* What create_dir_all makes and what it finds missing, for a Directory and
\* for the parent of a File or a Download.
DirsFor(p) == Above[p] \cup (IF Kind[p] = "dir" THEN {p} ELSE {})
Missing(p) == {q \in DirsFor(p) : obj[q].type = "none"}
Topmost(q, p) == q \in Missing(p) /\ Above[q] \cap Missing(p) = {}
\* It fails at what is no directory.
Blocked(p) == \E q \in DirsFor(p) : obj[q].type \notin {"none", "dir"}

MakeDir(p) ==
    /\ ~Blocked(p)
    /\ IF Missing(p) = {} THEN UNCHANGED obj
       ELSE \E q \in Paths, m \in Umasked :
                /\ Topmost(q, p)
                /\ obj' = [obj EXCEPT ![q] = [type |-> "dir", content |-> Nothing, mode |-> m,
                                              owner |-> "root"]]
    /\ UNCHANGED tmp
\* File::create truncates: a temporary file left behind keeps mode and owner.
CreateTmp(p) ==
    /\ IF tmp[p] = Gone
       THEN \E m \in Umasked :
                tmp' = [tmp EXCEPT ![p] = [type |-> "file", content |-> Partial, mode |-> m,
                                           owner |-> "root"]]
       ELSE tmp' = [tmp EXCEPT ![p].content = Partial]
    /\ UNCHANGED obj
\* A plausible bug: the file itself is truncated and written.
WriteInPlace(p) ==
    /\ tmp' = [tmp EXCEPT ![p].content = Goal(p)]
    /\ obj' = [obj EXCEPT ![p] = tmp[p]]
WriteTmp(p) == tmp' = [tmp EXCEPT ![p].content = Goal(p)] /\ UNCHANGED obj
ChmodTmp(p) ==
    /\ tmp' = IF Mode[p] = "any" THEN tmp ELSE [tmp EXCEPT ![p].mode = Mode[p]]
    /\ UNCHANGED obj
ChownTmp(p) ==
    /\ tmp' = IF Owner[p] = "any" THEN tmp ELSE [tmp EXCEPT ![p].owner = Owner[p]]
    /\ UNCHANGED obj
RenameTmp(p) ==
    /\ obj' = [obj EXCEPT ![p] = tmp[p]]
    /\ tmp' = [tmp EXCEPT ![p] = Gone]
Chmod(p) ==
    /\ obj' = IF Mode[p] = "any" THEN obj ELSE [obj EXCEPT ![p].mode = Mode[p]]
    /\ UNCHANGED tmp
Chown(p) ==
    /\ obj' = IF Owner[p] = "any" THEN obj ELSE [obj EXCEPT ![p].owner = Owner[p]]
    /\ UNCHANGED tmp
\* remove_file fails at a directory, which an AbsentFile does not look for.
Undeletable(p) == Kind[p] \in {"link", "absent"} /\ obj[p].type = "dir"
Unlink(p) == ~Undeletable(p) /\ obj' = [obj EXCEPT ![p] = Gone] /\ UNCHANGED tmp
MakeLink(p) ==
    /\ obj' = [obj EXCEPT ![p] = [type |-> "link", content |-> want[p], mode |-> "none",
                                  owner |-> "root"]]
    /\ UNCHANGED tmp

Effect(p) ==
    \/ pc[p] \in {"lookup", "read"} /\ UNCHANGED diskVars
    \/ pc[p] = "mkdir" /\ MakeDir(p)
    \/ pc[p] = "create" /\ CreateTmp(p)
    \/ pc[p] = "write" /\ WriteTmp(p)
    \/ pc[p] = "chmod" /\ ChmodTmp(p)
    \/ pc[p] = "chown" /\ ChownTmp(p)
    \/ pc[p] = "rename" /\ RenameTmp(p)
    \/ pc[p] = "setmode" /\ Chmod(p)
    \/ pc[p] = "setowner" /\ Chown(p)
    \/ pc[p] = "unlink" /\ Unlink(p)
    \/ pc[p] = "symlink" /\ MakeLink(p)

-----------------------------------------------------------------------------
(* A run: the level of the plan's resources.                               *)

\* A host without any of the files, and without the users.
Init ==
    /\ plan \in Plans
    /\ phase = "off"
    /\ mode = "Apply"
    /\ want \in Configs
    /\ pc = [p \in Paths |-> "end"]
    /\ changed = {}
    /\ accounts = {}
    /\ obj = [p \in Paths |-> Gone]
    /\ tmp = [p \in Paths |-> Gone]
    /\ calm = FALSE

\* Whoever asks for an owner depends on that User, whose level is over; a dry
\* run has not made the users.
Start ==
    /\ phase = "off"
    /\ phase' = "run"
    /\ mode' \in {"Apply", "DryRun"}
    /\ want' \in Configs
    /\ pc' = [p \in Paths |-> IF p \notin plan THEN "end"
                              ELSE IF Owner[p] # "any" THEN "lookup" ELSE "read"]
    /\ changed' = {}
    /\ accounts' = IF mode' = "Apply" THEN Users ELSE accounts
    /\ calm' = (calm /\ want' = want)
    /\ UNCHANGED <<plan, diskVars>>

\* getent passwd
Lookup(p) ==
    /\ phase = "run"
    /\ pc[p] = "lookup"
    /\ pc' = [pc EXCEPT ![p] = IF Owner[p] \in accounts THEN "read" ELSE "error"]
    /\ UNCHANGED <<plan, phase, mode, want, changed, accounts, calm, diskVars>>

FirstWrite(p) ==
    CASE Kind[p] \in {"file", "download"} -> "mkdir"
      [] Kind[p] = "dir" -> IF obj[p].type = "none" THEN "mkdir" ELSE "setmode"
      [] Kind[p] = "line" -> "create"
      [] Kind[p] = "link" -> IF obj[p].type = "none" THEN "symlink" ELSE "unlink"
      [] Kind[p] = "absent" -> "unlink"

\* A plausible bug: the dry run returns after the parent has been made.
LateDryRun(p) ==
    IF Refused(p) THEN "error"
    ELSE IF Settled(p) \/ (mode = "DryRun" /\ Kind[p] # "dir") THEN "end"
    ELSE FirstWrite(p)
\* What follows the sensing of the path.
Decide(p) ==
    IF Refused(p) THEN "error"
    ELSE IF Settled(p) \/ mode = "DryRun" THEN "end"
    ELSE FirstWrite(p)

\* Reading the content, the link and the metadata.
Sense(p) ==
    /\ phase = "run"
    /\ pc[p] = "read"
    /\ pc' = [pc EXCEPT ![p] = Decide(p)]
    /\ changed' = IF Refused(p) \/ Settled(p) THEN changed ELSE changed \cup {p}
    /\ UNCHANGED <<plan, phase, mode, want, accounts, calm, diskVars>>

\* A plausible bug: the file is in place before its mode and owner are set.
RenameFirst(p) ==
    CASE pc[p] = "mkdir" ->
           IF Missing(p) # {} THEN "mkdir"
           ELSE IF Kind[p] = "dir" \/ (Kind[p] = "file" /\ ContentMatches(p)) THEN "setmode"
           ELSE "create"
      [] pc[p] = "create" -> "write"
      [] pc[p] = "write" -> "rename"
      [] pc[p] = "rename" -> IF Kind[p] = "line" THEN "end" ELSE "setmode"
      [] pc[p] = "setmode" -> "setowner"
      [] pc[p] = "unlink" /\ Kind[p] = "link" -> "symlink"
      [] OTHER -> "end"
\* The await after this one.
After(p) ==
    CASE pc[p] = "mkdir" ->
           IF Missing(p) # {} THEN "mkdir"
           ELSE IF Kind[p] = "dir" \/ (Kind[p] = "file" /\ ContentMatches(p)) THEN "setmode"
           ELSE "create"
      [] pc[p] = "create" -> "write"
      [] pc[p] = "write" -> IF Kind[p] = "line" THEN "rename" ELSE "chmod"
      [] pc[p] = "chmod" -> IF Kind[p] = "download" THEN "rename" ELSE "chown"
      [] pc[p] = "chown" -> "rename"
      [] pc[p] = "setmode" -> "setowner"
      [] pc[p] = "unlink" /\ Kind[p] = "link" -> "symlink"
      [] OTHER -> "end"

Write(p) ==
    /\ phase = "run"
    /\ pc[p] \in InFlight \ {"lookup", "read"}
    /\ Effect(p)
    /\ pc' = [pc EXCEPT ![p] = After(p)]
    /\ UNCHANGED <<plan, phase, mode, want, changed, accounts, calm>>

Finish ==
    /\ phase = "run"
    /\ \A p \in plan : pc[p] = "end"
    /\ phase' = "ok"
    /\ UNCHANGED <<plan, mode, want, pc, changed, accounts, calm, diskVars>>

-----------------------------------------------------------------------------
(* Failures.                                                               *)

\* An await returns an error, without its effect.
Fails(p) ==
    /\ phase = "run"
    /\ pc[p] \in InFlight
    /\ MayFail \/ (pc[p] = "mkdir" /\ Blocked(p)) \/ (pc[p] = "unlink" /\ Undeletable(p))
    /\ pc' = [pc EXCEPT ![p] = "error"]
    /\ UNCHANGED <<plan, phase, mode, want, changed, accounts, calm, diskVars>>

\* The join loop sees an error and drops the other tasks, or the process is
\* killed.
Stop ==
    /\ phase = "run"
    /\ MayFail \/ \E p \in plan : pc[p] = "error"
    /\ phase' = "failed"
    /\ UNCHANGED <<plan, mode, want, pc, changed, accounts, calm, diskVars>>

\* A dropped task ends at its await; the file operation goes on in its thread.
Dropped(p) ==
    /\ phase = "failed"
    /\ pc[p] \in InFlight
    /\ \/ /\ Effect(p)
          /\ pc' = [pc EXCEPT ![p] = IF pc[p] = "mkdir" /\ Missing(p) # {} THEN "mkdir" ELSE "cut"]
       \/ pc' = [pc EXCEPT ![p] = "cut"] /\ UNCHANGED diskVars
    /\ UNCHANGED <<plan, phase, mode, want, changed, accounts, calm>>

-----------------------------------------------------------------------------
(* Between the runs.                                                       *)

Exit ==
    /\ phase \in {"ok", "failed"}
    /\ \A p \in plan : pc[p] \notin InFlight
    /\ phase' = "off"
    /\ pc' = [p \in Paths |-> "end"]
    /\ changed' = {}
    /\ calm' = IF mode = "DryRun" THEN calm ELSE phase = "ok"
    /\ UNCHANGED <<plan, mode, want, accounts, diskVars>>

\* Others write, remove or replace what is at p, and what is below it.
Drift(p) ==
    /\ phase = "off"
    /\ p \in plan \cup UNION {Above[q] : q \in plan}
    /\ \E o \in Found[p] :
           /\ o # obj[p]
           /\ o = Gone \/ \A q \in Above[p] : obj[q].type = "dir"
           /\ obj' = [q \in Paths |-> IF q = p THEN o
                                      ELSE IF p \in Above[q] /\ o.type # "dir" THEN Gone
                                      ELSE obj[q]]
           /\ tmp' = [q \in Paths |-> IF p \in Above[q] /\ o.type # "dir" THEN Gone ELSE tmp[q]]
    /\ calm' = FALSE
    /\ UNCHANGED <<plan, phase, mode, want, pc, changed, accounts>>

Next ==
    \/ Start
    \/ \E p \in Paths : Lookup(p)
    \/ \E p \in Paths : Sense(p)
    \/ \E p \in Paths : Write(p)
    \/ Finish
    \/ \E p \in Paths : Fails(p)
    \/ Stop
    \/ \E p \in Paths : Dropped(p)
    \/ Exit
    \/ \E p \in Paths : Drift(p)

Spec == Init /\ [][Next]_vars

-----------------------------------------------------------------------------
(* What the backends must guarantee.                                       *)

\* The variables keep their ranges; nothing half written is at a path itself.
TypeOK ==
    /\ plan \in Plans
    /\ phase \in {"off", "run", "ok", "failed"}
    /\ mode \in {"Apply", "DryRun"}
    /\ want \in Configs
    /\ pc \in [Paths -> InFlight \cup {"end", "error", "cut"}]
    /\ changed \subseteq plan
    /\ accounts \in SUBSET Users
    /\ obj \in [Paths -> Objects]
    /\ tmp \in [Paths -> Objects]
    /\ calm \in BOOLEAN
    /\ \A p \in Paths : obj[p].content # Partial

\* A text with the line, and no other line that the regex matches.
HasLine(t) == Line \in {t[i] : i \in DOMAIN t} /\ \A i \in DOMAIN t : t[i] \in Matching => t[i] = Line

\* What a resource promises of its path.
Promised(p) ==
    /\ Kind[p] \in {"file", "download"} =>
           obj[p].type = "file" /\ obj[p].content = want[p]
    /\ Kind[p] \in {"file", "dir"} => ModeMatches(p) /\ OwnerMatches(p)
    /\ Kind[p] = "line" => obj[p].type = "file" /\ HasLine(obj[p].content)
    /\ Kind[p] = "link" => obj[p].type = "link" /\ obj[p].content = want[p]
    /\ Kind[p] = "absent" => ~Exists(p)
    /\ Kind[p] = "dir" => obj[p].type = "dir"

\* A run that returns Ok has put everything where its resource wants it, with
\* its mode and owner, whatever earlier runs, the run's other tasks (which may
\* make a Directory first, as the parent of theirs) and others left behind.
OkFiles == phase = "ok" /\ mode = "Apply" => \A p \in plan : Promised(p)

\* What is at the path of a File, a Download or a LineInFile is replaced in one
\* step, by the whole file with the mode and owner asked for ("atomic
\* temp+rename", src/src/README.md), also by a task that is dropped or over a
\* temporary file that an earlier run left; it is never missing in between.  A
\* LineInFile keeps every other line of the text where it was.
Rewritten(p) == obj'[p].type # obj[p].type \/ obj'[p].content # obj[p].content
WholeFile(p) ==
    /\ obj'[p].type = "file"
    /\ Kind[p] \in {"file", "download"} =>
           obj'[p].content = want[p] /\ Mode[p] \in {"any", obj'[p].mode}
    /\ Kind[p] = "file" => Owner[p] \in {"any", obj'[p].owner}
    /\ Kind[p] = "line" =>
           /\ HasLine(obj'[p].content)
           /\ \A i \in DOMAIN obj[p].content :
                  obj[p].content[i] \notin Matching =>
                      i \in DOMAIN obj'[p].content /\ obj'[p].content[i] = obj[p].content[i]
WholeFileWrites ==
    [][\A p \in plan :
           phase # "off" /\ Kind[p] \in {"file", "download", "line"} /\ Rewritten(p)
               => WholeFile(p)]_vars

\* A run on a host that an earlier run has put right, and that nobody has
\* touched since, finds nothing to do and reports no change: no restart, no
\* handler, no noise.
SecondRunQuiet == calm /\ phase # "off" => changed = {}

\* A dry run leaves the disk as it is (src/src/main.rs, --dry-run).
DryRunIsPure == [][phase # "off" /\ mode = "DryRun" => UNCHANGED diskVars]_vars

\* What a task and the disk have before them: of its awaits at most nine, and the
\* directories still to be made.
Awaits(c) ==
    CASE c = "lookup" -> 9 [] c = "read" -> 8 [] c = "mkdir" -> 7 [] c = "create" -> 6
      [] c = "write" -> 5 [] c = "chmod" -> 4 [] c = "chown" -> 3
      [] c \in {"rename", "setmode", "unlink"} -> 2 [] c \in {"setowner", "symlink"} -> 1
      [] OTHER -> 0
AwaitsLeft == {s \in Paths \X (1 .. 9) : s[2] <= Awaits(pc[s[1]])}
Unmade == {p \in Paths : Kind[p] = "dir" /\ obj[p].type = "none"}
FilesLeft ==
    Cardinality(AwaitsLeft) + Cardinality(Unmade)
    + CASE phase = "run" -> 2 [] phase = "off" -> 0 [] OTHER -> 1

\* A run ends, and so does what its dropped tasks leave at work: every step uses
\* up an await or makes a directory, and no task unmakes what another one's
\* create_dir_all has made.
RunEnds == [][phase # "off" => FilesLeft' \in 0 .. FilesLeft - 1]_vars

\* create_dir_all, whatever the other tasks have made meanwhile, has a next
\* directory to make, is done, or fails at what is no directory.
MkdirGoesOn ==
    \A p \in Paths :
        pc[p] = "mkdir" => Blocked(p) \/ Missing(p) = {} \/ \E q \in Paths : Topmost(q, p)

\* Where no operation fails that could succeed, a run fails only for what stands
\* at a path of the plan or above it, or for an owner that there is not yet: never
\* for what the tasks of the run do to each other.
FailuresHaveCause ==
    ~MayFail /\ phase = "failed" =>
        \E p \in plan : \/ Refused(p) \/ Blocked(p) \/ Undeletable(p)
                       \/ Owner[p] \notin accounts \cup {"any"}

\* What src/src/backends/absent_file.rs says of AbsentFile: a run that returns Ok leaves
\* nothing at its path.
AbsentIsGone ==
    phase = "ok" /\ mode = "Apply" =>
        \A p \in plan : Kind[p] = "absent" => obj[p].type = "none"

-----------------------------------------------------------------------------
(* The backends implement HostPaths: of the awaits only those that touch   *)
(* the paths themselves are seen, and a task that was dropped writes on in *)
(* a run that has failed.                                                  *)

Store == INSTANCE HostPaths WITH run <- phase, at <- obj

\* Every behaviour of the tasks, with their failures, is one that HostPaths
\* allows: tmp files, orders of awaits and other tasks never show at a path.
ImplementsHostPaths == Store!Spec

-----------------------------------------------------------------------------
(* The inductive invariant.                                                *)

\* Who is where, and which awaits a backend has.
PhaseAt(p) ==
    /\ p \notin plan \/ phase = "off" => pc[p] = "end"
    /\ pc[p] \in InFlight => phase \in {"run", "failed"}
    /\ phase \in {"run", "ok"} => pc[p] # "cut"
    /\ phase = "ok" => pc[p] = "end"
    /\ mode = "DryRun" => pc[p] \in {"lookup", "read", "end", "error", "cut"}
    /\ pc[p] \in {"create", "write", "rename"} => Kind[p] \in {"file", "download", "line"}
    /\ pc[p] = "mkdir" => Kind[p] \in {"file", "download", "dir"}
    /\ pc[p] = "chmod" => Kind[p] \in {"file", "download"}
    /\ pc[p] = "chown" => Kind[p] = "file"
    /\ pc[p] \in {"setmode", "setowner"} => Kind[p] \in {"file", "dir"}
    /\ pc[p] = "unlink" => Kind[p] \in {"link", "absent"}
    /\ pc[p] = "symlink" => Kind[p] = "link"
PhaseInv == (phase = "off" => changed = {}) /\ \A p \in Paths : PhaseAt(p)

\* What there can be at a path.
ObjAt(p) ==
    /\ Kind[p] = "line" /\ obj[p].type = "file" => obj[p].content \in Texts
    /\ Kind[p] = "absent" /\ obj[p].type = "link" /\ obj[p].content \in Paths =>
           Kind[obj[p].content] = "absent"
    /\ tmp[p] = Gone \/ tmp[p].type = "file"
ObjInv == \A p \in Paths : ObjAt(p)

\* What the temporary file and the path hold when an await is reached.
WholeTmp(p) == tmp[p].type = "file" /\ tmp[p].content = Goal(p)
TmpMode(p) == Mode[p] \in {"any", tmp[p].mode}
StepAt(p) ==
    /\ pc[p] = "write" => tmp[p].type = "file"
    /\ pc[p] \in {"chmod", "chown", "rename"} => WholeTmp(p)
    /\ pc[p] = "chown" => TmpMode(p)
    /\ pc[p] = "rename" /\ Kind[p] # "line" => TmpMode(p)
    /\ pc[p] = "rename" /\ Kind[p] = "file" => Owner[p] \in {"any", tmp[p].owner}
    /\ Kind[p] = "line" /\ pc[p] \in {"create", "write", "rename"} => obj[p].type = "file"
    /\ pc[p] \in {"setmode", "setowner"} =>
           IF Kind[p] = "file" THEN ContentMatches(p) ELSE obj[p].type = "dir"
    /\ pc[p] = "setowner" => ModeMatches(p)
    /\ pc[p] = "symlink" => obj[p].type = "none"
StepInv == \A p \in Paths : StepAt(p)

\* A resource that has ended well has kept its promise.
DoneInv ==
    mode = "Apply" /\ phase \in {"run", "ok"} =>
        \A p \in plan : pc[p] = "end" => Promised(p)

\* On a calm host there is nothing to do.
CalmInv ==
    calm => /\ changed = {}
            /\ \A p \in plan : Promised(p) /\ pc[p] \in {"lookup", "read", "end", "error", "cut"}

IInv == TypeOK /\ PhaseInv /\ ObjInv /\ StepInv /\ DoneInv /\ CalmInv

\* Why a task stands at an error, which lasts as long as the run.
CauseAt(p) ==
    Refused(p) \/ Blocked(p) \/ Undeletable(p) \/ Owner[p] \notin accounts \cup {"any"}
ErrorInv ==
    /\ \A p \in Paths : pc[p] = "lookup" => Owner[p] # "any"
    /\ ~MayFail =>
           /\ phase = "failed" => \E p \in plan : pc[p] = "error"
           /\ \A p \in Paths : pc[p] = "error" => CauseAt(p)

=============================================================================
