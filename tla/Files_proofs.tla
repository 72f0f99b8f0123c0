---------------------------- MODULE Files_proofs ----------------------------
(***************************************************************************)
(* Proofs about the file backends, for any paths, plans, configurations,   *)
(* contents and number of runs.                                            *)
(*                                                                         *)
(* First LineInFile's edit; then what one await does to the disk and to    *)
(* the promises of the other resources; then one lemma per action, and the *)
(* theorems.  Then what a run fails for, that create_dir_all is not stuck, *)
(* that a run ends, and that the backends implement HostPaths.             *)
(***************************************************************************)
EXTENDS Files, FiniteSetTheorems, TLAPS

-----------------------------------------------------------------------------
(* compute_new_content                                                     *)

\* The edit makes a text with the line out of any text, keeps every line that
\* does not match where it is, and leaves exactly the texts with the line alone.
LEMMA EditMakesLine ==
    ASSUME NEW t \in Texts
    PROVE  /\ Edit(t) \in Texts
           /\ HasLine(Edit(t))
           /\ HasLine(t) <=> Edit(t) = t
           /\ \A i \in DOMAIN t :
                  t[i] \notin Matching => i \in DOMAIN Edit(t) /\ Edit(t)[i] = t[i]
<1>1. Line \in Lines /\ Line \in Matching
  BY LineAssumption
<1>2. CASE Matches(t)
  <2> DEFINE s == [i \in DOMAIN t |-> IF t[i] \in Matching THEN Line ELSE t[i]]
  <2>1. Edit(t) = s
    BY <1>2 DEF Edit
  <2>2. s \in Texts /\ DOMAIN s = DOMAIN t
    BY <1>1 DEF Texts
  <2>3. \A i \in DOMAIN t : s[i] = IF t[i] \in Matching THEN Line ELSE t[i]
    OBVIOUS
  <2>4. HasLine(s)
    BY <1>1, <1>2, <2>2, <2>3 DEF HasLine, Matches
  <2>5. HasLine(t) => s = t
    <3> SUFFICES ASSUME HasLine(t)
                 PROVE  s = t
      OBVIOUS
    <3>1. \A i \in DOMAIN t : s[i] = t[i]
      BY <2>3 DEF HasLine
    <3> QED
      BY <2>2, <3>1 DEF Texts
  <2> QED
    BY <1>1, <2>1, <2>2, <2>3, <2>4, <2>5
<1>3. CASE ~Matches(t)
  <2>1. Edit(t) = Append(t, Line)
    BY <1>3 DEF Edit
  <2>2. /\ Append(t, Line) \in Texts
        /\ DOMAIN Append(t, Line) = 1 .. Len(t) + 1
        /\ Append(t, Line)[Len(t) + 1] = Line
        /\ \A i \in DOMAIN t : i \in 1 .. Len(t) /\ Append(t, Line)[i] = t[i]
    BY <1>1 DEF Texts
  <2>3. Append(t, Line) # t
    BY <2>2 DEF Texts
  <2>4. ~HasLine(t)
    BY <1>1, <1>3 DEF HasLine, Matches
  <2>5. Len(t) \in Nat /\ DOMAIN t = 1 .. Len(t)
    BY DEF Texts
  <2>6. HasLine(Append(t, Line))
    <3>1. Len(t) + 1 \in DOMAIN Append(t, Line)
      BY <2>2, <2>5
    <3>2. \A i \in DOMAIN Append(t, Line) : i = Len(t) + 1 \/ i \in DOMAIN t
      BY <2>2, <2>5
    <3> QED
      BY <1>3, <2>2, <3>1, <3>2 DEF HasLine, Matches
  <2>7. \A i \in DOMAIN t : i \in DOMAIN Append(t, Line)
    BY <2>2, <2>5
  <2> QED
    BY <2>1, <2>2, <2>3, <2>4, <2>6, <2>7
<1> QED
  BY <1>2, <1>3

\* What a resource writes is a whole content.
LEMMA GoalIsWhole ==
    ASSUME TypeOK, ObjInv, StepInv, NEW p \in Paths,
           Kind[p] # "line" \/ pc[p] \in {"create", "write", "rename"} \/ obj[p].type = "file"
    PROVE  /\ Goal(p) \in Contents /\ Goal(p) # Partial
           /\ Kind[p] = "line" => Goal(p) \in Texts
<1>1. CASE Kind[p] # "line"
  BY <1>1, AskAssumption DEF TypeOK, Goal, Contents
<1>2. CASE Kind[p] = "line"
  <2>1. obj[p].content \in Texts
    BY <1>2 DEF ObjInv, ObjAt, StepInv, StepAt
  <2> QED
    BY <1>2, <2>1, EditMakesLine, PartialAssumption DEF Goal, Contents
<1> QED
  BY <1>1, <1>2

\* Sensing finds nothing to do exactly where the promise is kept.
LEMMA SettledIsPromised ==
    ASSUME ObjInv, NEW p \in Paths
    PROVE  Settled(p) <=> Promised(p)
<1>1. Kind[p] \in Kinds
  BY PlanAssumption
<1>2. Kind[p] = "line" /\ obj[p].type = "file" =>
          (HasLine(obj[p].content) <=> Edit(obj[p].content) = obj[p].content)
  BY EditMakesLine DEF ObjInv, ObjAt
<1> QED
  BY <1>1, <1>2 DEF Settled, Promised, ContentMatches, Goal, Kinds

-----------------------------------------------------------------------------
(* One await.                                                              *)

Reached(p) == p \in Paths /\ pc[p] \in InFlight /\ Effect(p)

\* What an await does to the paths of others: nothing, or it makes a directory
\* that is missing, which is also all that create_dir_all does to its own.
LEMMA OtherPaths ==
    ASSUME TypeOK, NEW p \in Paths, Reached(p), NEW q \in Paths, q # p \/ pc[p] = "mkdir"
    PROVE  /\ tmp'[q] = tmp[q]
           /\ \/ obj'[q] = obj[q]
              \/ /\ pc[p] = "mkdir"
                 /\ Kind[q] = "dir"
                 /\ obj[q].type = "none"
                 /\ obj'[q].type = "dir"
<1> obj \in [Paths -> Objects] /\ tmp \in [Paths -> Objects]
  BY DEF TypeOK
<1>1. CASE pc[p] = "mkdir"
  <2>1. MakeDir(p)
    BY <1>1 DEF Reached, Effect
  <2>2. CASE Missing(p) = {}
    BY <2>1, <2>2 DEF MakeDir
  <2>3. CASE Missing(p) # {}
    <3>1. PICK d \in Paths, m \in Umasked :
              /\ Topmost(d, p)
              /\ obj' = [obj EXCEPT ![d] = [type |-> "dir", content |-> Nothing, mode |-> m,
                                            owner |-> "root"]]
      BY <2>1, <2>3 DEF MakeDir
    <3>2. Kind[d] = "dir" /\ obj[d].type = "none"
      BY <3>1, PlanAssumption DEF Topmost, Missing, DirsFor
    <3>3. tmp' = tmp
      BY <2>1 DEF MakeDir
    <3> QED
      BY <1>1, <3>1, <3>2, <3>3
  <2> QED
    BY <2>2, <2>3
<1>2. CASE pc[p] # "mkdir" /\ q # p
  BY <1>2 DEF Reached, Effect, CreateTmp, WriteTmp, ChmodTmp, ChownTmp, RenameTmp, Chmod, Chown,
     Unlink, MakeLink, diskVars
<1> QED
  BY <1>1, <1>2

\* The disk stays well-typed, and whole at the paths.
LEMMA EffectTypes ==
    ASSUME TypeOK, PhaseInv, ObjInv, StepInv, NEW p \in Paths, Reached(p)
    PROVE  /\ obj' \in [Paths -> Objects]
           /\ tmp' \in [Paths -> Objects]
           /\ \A q \in Paths : obj'[q].content # Partial
<1>0. /\ obj \in [Paths -> Objects] /\ tmp \in [Paths -> Objects]
      /\ \A q \in Paths : obj[q].content # Partial
      /\ want[p] \in Contents /\ want[p] # Partial
      /\ Nothing \in Contents /\ Partial \in Contents /\ Nothing # Partial
      /\ Umasked \subseteq Modes
      /\ Mode[p] \in Modes \cup {"any"} /\ Owner[p] \in Users \cup {"any"}
  BY AskAssumption, PartialAssumption DEF TypeOK, Contents
<1>1. Gone \in Objects
  BY <1>0 DEF Gone, Objects, Types
<1>2. CASE pc[p] \in {"lookup", "read"}
  BY <1>0, <1>2 DEF Reached, Effect, diskVars
<1>3. CASE pc[p] = "mkdir"
  <2>1. MakeDir(p)
    BY <1>3 DEF Reached, Effect
  <2>2. CASE Missing(p) = {}
    BY <1>0, <2>1, <2>2 DEF MakeDir
  <2>3. CASE Missing(p) # {}
    <3>1. PICK d \in Paths, m \in Umasked :
              obj' = [obj EXCEPT ![d] = [type |-> "dir", content |-> Nothing, mode |-> m,
                                         owner |-> "root"]]
      BY <2>1, <2>3 DEF MakeDir
    <3>2. [type |-> "dir", content |-> Nothing, mode |-> m, owner |-> "root"] \in Objects
      BY <1>0 DEF Objects, Types
    <3> QED
      BY <1>0, <2>1, <3>1, <3>2 DEF MakeDir
  <2> QED
    BY <2>2, <2>3
<1>4. CASE pc[p] = "create"
  <2>1. CreateTmp(p)
    BY <1>4 DEF Reached, Effect
  <2>2. CASE tmp[p] = Gone
    <3>1. PICK m \in Umasked :
              tmp' = [tmp EXCEPT ![p] = [type |-> "file", content |-> Partial, mode |-> m,
                                         owner |-> "root"]]
      BY <2>1, <2>2 DEF CreateTmp
    <3>2. [type |-> "file", content |-> Partial, mode |-> m, owner |-> "root"] \in Objects
      BY <1>0 DEF Objects, Types
    <3> QED
      BY <1>0, <2>1, <3>1, <3>2 DEF CreateTmp
  <2>3. CASE tmp[p] # Gone
    <3>1. tmp' = [tmp EXCEPT ![p].content = Partial]
      BY <2>1, <2>3 DEF CreateTmp
    <3>2. tmp' \in [Paths -> Objects]
      BY <1>0, <3>1 DEF Objects
    <3> QED
      BY <1>0, <2>1, <3>2 DEF CreateTmp
  <2> QED
    BY <2>2, <2>3
<1>5. CASE pc[p] = "write"
  <2>1. WriteTmp(p)
    BY <1>5 DEF Reached, Effect
  <2>2. Goal(p) \in Contents
    BY <1>5, GoalIsWhole
  <2>3. tmp' \in [Paths -> Objects]
    BY <1>0, <2>1, <2>2 DEF WriteTmp, Objects
  <2> QED
    BY <1>0, <2>1, <2>3 DEF WriteTmp
<1>6. CASE pc[p] \in {"chmod", "chown"}
  <2>1. ChmodTmp(p) \/ ChownTmp(p)
    BY <1>6 DEF Reached, Effect
  <2>2. tmp' \in [Paths -> Objects]
    BY <1>0, <2>1 DEF ChmodTmp, ChownTmp, Objects
  <2> QED
    BY <1>0, <2>1, <2>2 DEF ChmodTmp, ChownTmp
<1>7. CASE pc[p] = "rename"
  <2>1. RenameTmp(p)
    BY <1>7 DEF Reached, Effect
  <2>2. tmp[p].content # Partial
    BY <1>7, GoalIsWhole DEF StepInv, StepAt, WholeTmp
  <2> QED
    BY <1>0, <1>1, <2>1, <2>2 DEF RenameTmp
<1>8. CASE pc[p] \in {"setmode", "setowner"}
  <2>1. Chmod(p) \/ Chown(p)
    BY <1>8 DEF Reached, Effect
  <2>2. tmp' = tmp
    BY <2>1 DEF Chmod, Chown
  <2>3. obj' \in [Paths -> Objects]
    BY <1>0, <2>1 DEF Chmod, Chown, Objects
  <2>4. ASSUME NEW q \in Paths
        PROVE  obj'[q].content = obj[q].content
    <3>1. CASE q = p
      BY <1>0, <2>1, <3>1 DEF Chmod, Chown, Objects
    <3>2. CASE q # p
      BY <1>0, <2>1, <3>2 DEF Chmod, Chown
    <3> QED
      BY <3>1, <3>2
  <2> QED
    BY <1>0, <2>2, <2>3, <2>4
<1>9. CASE pc[p] \in {"unlink", "symlink"}
  <2>1. Unlink(p) \/ MakeLink(p)
    BY <1>9 DEF Reached, Effect
  <2>2. [type |-> "link", content |-> want[p], mode |-> "none", owner |-> "root"] \in Objects
    BY <1>0 DEF Objects, Types
  <2>3. Gone.content = Nothing
    BY DEF Gone
  <2> QED
    BY <1>0, <1>1, <2>1, <2>2, <2>3 DEF Unlink, MakeLink
<1> QED
  BY <1>2, <1>3, <1>4, <1>5, <1>6, <1>7, <1>8, <1>9 DEF Reached, InFlight

\* What there can be at a path, after an await.
LEMMA EffectObjInv ==
    ASSUME TypeOK, PhaseInv, ObjInv, StepInv, NEW p \in Paths, Reached(p)
    PROVE  ObjInv'
<1> SUFFICES ASSUME NEW q \in Paths
             PROVE  ObjAt(q)'
  BY DEF ObjInv
<1>0. /\ obj \in [Paths -> Objects] /\ tmp \in [Paths -> Objects]
      /\ ObjAt(q) /\ PhaseAt(p) /\ StepAt(p)
  BY DEF TypeOK, ObjInv, PhaseInv, StepInv
<1>1. CASE q # p \/ pc[p] = "mkdir"
  BY <1>0, <1>1, OtherPaths DEF ObjAt
<1>2. CASE q = p /\ pc[p] \in {"lookup", "read"}
  BY <1>0, <1>2 DEF Reached, Effect, diskVars, ObjAt
<1>3. CASE q = p /\ pc[p] \in {"create", "write", "chmod", "chown"}
  <2>1. obj' = obj
    BY <1>3 DEF Reached, Effect, CreateTmp, WriteTmp, ChmodTmp, ChownTmp
  <2>2. tmp[p].type = "file" => tmp'[p].type = "file"
    BY <1>0, <1>3 DEF Reached, Effect, CreateTmp, WriteTmp, ChmodTmp, ChownTmp, Objects
  <2>3. pc[p] = "create" => tmp'[p].type = "file"
    BY <1>0, <1>3 DEF Reached, Effect, CreateTmp, Objects, ObjAt
  <2>4. pc[p] # "create" => tmp[p].type = "file"
    BY <1>0, <1>3 DEF StepAt, WholeTmp
  <2> QED
    BY <1>0, <1>3, <2>1, <2>2, <2>3, <2>4 DEF ObjAt
<1>4. CASE q = p /\ pc[p] = "rename"
  <2>1. Kind[p] = "line" => tmp[p].content \in Texts
    BY <1>0, <1>4, GoalIsWhole DEF StepAt, WholeTmp
  <2>2. obj'[p] = tmp[p] /\ tmp'[p] = Gone
    BY <1>0, <1>4 DEF Reached, Effect, RenameTmp
  <2> QED
    BY <1>0, <1>4, <2>1, <2>2 DEF ObjAt, PhaseAt
<1>5. CASE q = p /\ pc[p] \in {"setmode", "setowner", "unlink", "symlink"}
  <2>1. tmp' = tmp
    BY <1>5 DEF Reached, Effect, Chmod, Chown, Unlink, MakeLink
  <2>2. Kind[p] # "line" /\ (Kind[p] = "absent" => obj'[p] = Gone)
    BY <1>0, <1>5 DEF Reached, Effect, Unlink, PhaseAt
  <2> QED
    BY <1>0, <1>5, <2>1, <2>2 DEF ObjAt, Gone
<1> QED
  BY <1>1, <1>2, <1>3, <1>4, <1>5 DEF Reached, InFlight

\* The next await of a task finds what it needs, also when the task is dropped.
LEMMA EffectStepInv ==
    ASSUME TypeOK, PhaseInv, ObjInv, StepInv, NEW p \in Paths, Reached(p), want' = want,
           NEW x, pc' = [pc EXCEPT ![p] = x],
           x = "cut" \/ (x = "mkdir" /\ pc[p] = "mkdir") \/ x = After(p)
    PROVE  StepInv'
<1> SUFFICES ASSUME NEW q \in Paths
             PROVE  StepAt(q)'
  BY DEF StepInv
<1>0. /\ obj \in [Paths -> Objects] /\ tmp \in [Paths -> Objects]
      /\ pc \in [Paths -> InFlight \cup {"end", "error", "cut"}]
      /\ StepAt(p) /\ StepAt(q) /\ PhaseAt(p) /\ PhaseAt(q) /\ ObjAt(p)
      /\ Kind[p] \in Kinds
  BY PlanAssumption DEF TypeOK, StepInv, PhaseInv, ObjInv
<1>1. CASE q # p
  <2>1. pc'[q] = pc[q] /\ tmp'[q] = tmp[q]
    BY <1>0, <1>1, OtherPaths
  <2>2. CASE obj'[q] = obj[q]
    BY <1>0, <2>1, <2>2 DEF StepAt, WholeTmp, TmpMode, Goal, ContentMatches, ModeMatches
  <2>3. CASE Kind[q] = "dir" /\ obj[q].type = "none" /\ obj'[q].type = "dir"
    BY <1>0, <2>1, <2>3 DEF StepAt, PhaseAt, WholeTmp, TmpMode, Goal, ContentMatches, ModeMatches
  <2> QED
    BY <1>1, <2>2, <2>3, OtherPaths
<1>2. CASE q = p /\ x \in {"cut", "end", "mkdir"}
  BY <1>0, <1>2 DEF StepAt
<1>3. CASE q = p /\ x = After(p) /\ x \notin {"cut", "end", "mkdir"}
  <2>0. pc'[p] = After(p)
    BY <1>0, <1>3
  <2>1. CASE pc[p] = "mkdir"
    <3>1. Missing(p) = {} /\ obj' = obj /\ ~Blocked(p)
      BY <1>3, <2>1 DEF Reached, Effect, MakeDir, After
    <3>2. Kind[p] = "dir" => obj[p].type = "dir"
      BY <3>1 DEF Missing, Blocked, DirsFor
    <3>3. /\ pc'[p] = "setmode" => Kind[p] = "dir" \/ (Kind[p] = "file" /\ ContentMatches(p))
          /\ pc'[p] \in {"setmode", "create"}
          /\ Kind[p] # "line"
      BY <1>0, <2>0, <2>1, <3>1 DEF After, PhaseAt
    <3>4. Kind[p] = "file" => (ContentMatches(p)' <=> ContentMatches(p))
      BY <3>1 DEF ContentMatches, Goal
    <3> QED
      BY <1>3, <3>1, <3>2, <3>3, <3>4 DEF StepAt
  <2>2. CASE pc[p] = "create"
    <3>1. obj' = obj /\ tmp'[p].type = "file"
      BY <1>0, <2>2 DEF Reached, Effect, CreateTmp, Objects, ObjAt
    <3> QED
      BY <1>0, <1>3, <2>0, <2>2, <3>1 DEF After, StepAt
  <2>3. CASE pc[p] = "write"
    <3>1. /\ obj' = obj /\ tmp'[p].type = "file" /\ tmp'[p].content = Goal(p)
          /\ Goal(p)' = Goal(p)
      BY <1>0, <2>3 DEF Reached, Effect, WriteTmp, Objects, StepAt, Goal
    <3> QED
      BY <1>0, <1>3, <2>0, <2>3, <3>1 DEF After, StepAt, WholeTmp
  <2>4. CASE pc[p] = "chmod"
    <3>1. /\ obj' = obj /\ tmp'[p].type = "file" /\ tmp'[p].content = tmp[p].content
          /\ TmpMode(p)' /\ Goal(p)' = Goal(p)
      BY <1>0, <2>4 DEF Reached, Effect, ChmodTmp, Objects, StepAt, Goal, WholeTmp, TmpMode
    <3> QED
      BY <1>0, <1>3, <2>0, <2>4, <3>1 DEF After, StepAt, PhaseAt, WholeTmp
  <2>5. CASE pc[p] = "chown"
    <3>1. /\ obj' = obj /\ tmp'[p].type = "file" /\ tmp'[p].content = tmp[p].content
          /\ tmp'[p].mode = tmp[p].mode /\ Owner[p] \in {"any", tmp'[p].owner}
          /\ Goal(p)' = Goal(p)
      BY <1>0, <2>5 DEF Reached, Effect, ChownTmp, Objects, StepAt, Goal, WholeTmp
    <3> QED
      BY <1>0, <1>3, <2>0, <2>5, <3>1 DEF After, StepAt, PhaseAt, WholeTmp, TmpMode
  <2>6. CASE pc[p] = "setmode"
    <3>1. /\ obj'[p].type = obj[p].type /\ obj'[p].content = obj[p].content
          /\ ModeMatches(p)'
      BY <1>0, <2>6 DEF Reached, Effect, Chmod, Objects, ModeMatches
    <3> QED
      BY <1>0, <1>3, <2>0, <2>6, <3>1 DEF After, StepAt, PhaseAt, ContentMatches, Goal
  <2>7. CASE pc[p] = "unlink"
    <3>1. obj'[p].type = "none"
      BY <1>0, <2>7 DEF Reached, Effect, Unlink, Gone
    <3> QED
      BY <1>0, <1>3, <2>0, <2>7, <3>1 DEF After, StepAt
  <2>8. CASE pc[p] \notin {"mkdir", "create", "write", "chmod", "chown", "setmode", "unlink"}
    BY <1>0, <1>3, <2>0, <2>8 DEF After, StepAt
  <2> QED
    BY <2>1, <2>2, <2>3, <2>4, <2>5, <2>6, <2>7, <2>8
<1> QED
  BY <1>1, <1>2, <1>3

\* A promise once kept is not broken by an await of another task.
LEMMA PromiseStays ==
    ASSUME TypeOK, PhaseInv, ObjInv, NEW p \in Paths, Reached(p), want' = want,
           NEW q \in Paths, q # p, Promised(q)
    PROVE  Promised(q)'
<1>0. /\ obj \in [Paths -> Objects]
      /\ PhaseAt(p) /\ ObjAt(q)
      /\ Kind[q] \in Kinds
  BY PlanAssumption DEF TypeOK, PhaseInv, ObjInv
<1>1. obj'[q] = obj[q]
  BY OtherPaths DEF Promised
<1>2. CASE Kind[q] # "absent"
  BY <1>0, <1>1, <1>2 DEF Promised, ModeMatches, OwnerMatches
<1>3. CASE Kind[q] = "absent"
  <2>1. ~Exists(q)
    BY <1>3 DEF Promised
  <2>2. CASE obj[q].type = "none"
    BY <1>1, <1>3, <2>2 DEF Promised, Exists
  <2>3. CASE obj[q].type = "link" /\ obj[q].content \in Paths /\ obj[obj[q].content].type = "none"
    <3> DEFINE t == obj[q].content
    <3>1. Kind[t] = "absent"
      BY <1>0, <1>3, <2>3 DEF ObjAt
    <3>2. obj'[t].type = "none"
      <4>1. CASE t # p \/ pc[p] = "mkdir"
        BY <2>3, <3>1, <4>1, OtherPaths
      <4>2. CASE t = p /\ pc[p] # "mkdir"
        <5>1. pc[p] \in {"lookup", "read", "unlink"}
          BY <1>0, <3>1, <4>2 DEF PhaseAt, InFlight, Reached
        <5>2. obj'[p] = obj[p] \/ obj'[p] = Gone
          BY <1>0, <5>1 DEF Reached, Effect, Unlink, diskVars
        <5> QED
          BY <2>3, <4>2, <5>2 DEF Gone
      <4> QED
        BY <4>1, <4>2
    <3> QED
      BY <1>1, <1>3, <2>3, <3>2 DEF Promised, Exists
  <2> QED
    BY <2>1, <2>2, <2>3 DEF Exists
<1> QED
  BY <1>2, <1>3

\* A task's last write keeps the promise of its resource.
LEMMA LastWriteKeepsPromise ==
    ASSUME TypeOK, PhaseInv, ObjInv, StepInv, NEW p \in Paths, Reached(p), want' = want,
           pc[p] \notin {"lookup", "read"}, After(p) = "end"
    PROVE  Promised(p)'
<1>0. /\ obj \in [Paths -> Objects] /\ tmp \in [Paths -> Objects]
      /\ PhaseAt(p) /\ ObjAt(p) /\ StepAt(p)
      /\ Kind[p] \in Kinds
  BY PlanAssumption DEF TypeOK, PhaseInv, ObjInv, StepInv
<1>1. pc[p] \in {"rename", "setowner", "unlink", "symlink"}
  BY <1>0 DEF Reached, InFlight, After
<1>2. CASE pc[p] = "rename"
  <2>1. obj'[p] = tmp[p]
    BY <1>0, <1>2 DEF Reached, Effect, RenameTmp
  <2>2. Kind[p] \in {"file", "download", "line"}
    BY <1>0, <1>2 DEF PhaseAt
  <2>3. Kind[p] = "line" => HasLine(tmp[p].content)
    BY <1>0, <1>2, EditMakesLine DEF StepAt, WholeTmp, Goal, ObjAt
  <2> QED
    BY <1>0, <1>2, <2>1, <2>2, <2>3
       DEF StepAt, WholeTmp, TmpMode, Goal, Promised, ModeMatches, OwnerMatches
<1>3. CASE pc[p] = "setowner"
  <2>1. /\ obj'[p].type = obj[p].type /\ obj'[p].content = obj[p].content
        /\ obj'[p].mode = obj[p].mode /\ OwnerMatches(p)'
    BY <1>0, <1>3 DEF Reached, Effect, Chown, Objects, OwnerMatches
  <2> QED
    BY <1>0, <1>3, <2>1 DEF PhaseAt, StepAt, Promised, ModeMatches, ContentMatches, Goal
<1>4. CASE pc[p] = "unlink"
  BY <1>0, <1>4 DEF Reached, Effect, Unlink, PhaseAt, After, Promised, Exists, Gone
<1>5. CASE pc[p] = "symlink"
  BY <1>0, <1>5 DEF Reached, Effect, MakeLink, PhaseAt, Promised
<1> QED
  BY <1>1, <1>2, <1>3, <1>4, <1>5

-----------------------------------------------------------------------------
(* The invariant is inductive.                                             *)

LEMMA InitIInv == Init => IInv
<1> SUFFICES ASSUME Init
             PROVE  IInv
  OBVIOUS
<1>2. Gone \in Objects /\ Gone.type = "none" /\ Gone.content = Nothing /\ Nothing # Partial
  BY PartialAssumption DEF Gone, Objects, Types, Contents
<1>3. TypeOK
  BY <1>2 DEF Init, TypeOK
<1>4. PhaseInv
  BY DEF Init, PhaseInv, PhaseAt, InFlight
<1>5. ObjInv /\ StepInv
  BY <1>2 DEF Init, ObjInv, ObjAt, StepInv, StepAt
<1>6. DoneInv /\ CalmInv
  BY DEF Init, DoneInv, CalmInv
<1> QED
  BY <1>3, <1>4, <1>5, <1>6 DEF IInv

\* An action that leaves the disk, the plan and what is asked for alone.
LEMMA SameDisk ==
    ASSUME ObjInv, UNCHANGED diskVars
    PROVE  /\ ObjInv'
           /\ want' = want => \A p \in Paths : Promised(p)' <=> Promised(p)
<1>1. obj' = obj /\ tmp' = tmp
  BY DEF diskVars
<1> QED
  BY <1>1 DEF ObjInv, ObjAt, Promised, ModeMatches, OwnerMatches, Exists

LEMMA StartIInv ==
    ASSUME IInv, Start
    PROVE  IInv'
<1> USE DEF IInv
<1>1. obj' = obj /\ tmp' = tmp /\ plan' = plan /\ phase' = "run" /\ changed' = {}
  BY DEF Start, diskVars
<1>2. \A p \in Paths : /\ p \notin plan => pc'[p] = "end"
                       /\ p \in plan => pc'[p] \in {"lookup", "read"}
                       /\ pc'[p] \in {"lookup", "read", "end"}
  BY DEF Start
<1>3. TypeOK'
  <2>1. pc' \in [Paths -> InFlight \cup {"end", "error", "cut"}]
    BY DEF Start, InFlight
  <2> QED
    BY <1>1, <2>1 DEF TypeOK, Start
<1>4. PhaseInv'
  BY <1>1, <1>2 DEF PhaseInv, PhaseAt
<1>5. ObjInv'
  BY SameDisk DEF Start
<1>6. StepInv'
  BY <1>2 DEF StepInv, StepAt
<1>7. plan \subseteq Paths
  BY PlanAssumption DEF TypeOK
<1>8. DoneInv'
  BY <1>1, <1>2, <1>7 DEF DoneInv
<1>9. CalmInv'
  <2> SUFFICES ASSUME calm'
               PROVE  CalmInv'
    BY DEF CalmInv
  <2>1. calm /\ want' = want
    BY DEF Start
  <2>2. \A p \in plan : Promised(p)'
    BY <1>7, <2>1, SameDisk DEF CalmInv, Start
  <2> QED
    BY <1>1, <1>2, <1>7, <2>2 DEF CalmInv
<1> QED
  BY <1>3, <1>4, <1>5, <1>6, <1>8, <1>9

LEMMA LookupIInv ==
    ASSUME IInv, NEW p \in Paths, Lookup(p)
    PROVE  IInv'
<1> USE DEF IInv
<1>1. /\ obj' = obj /\ tmp' = tmp /\ plan' = plan /\ phase' = phase /\ changed' = changed
      /\ mode' = mode /\ want' = want /\ calm' = calm /\ phase = "run"
  BY DEF Lookup, diskVars
<1>2. /\ pc[p] = "lookup" /\ pc'[p] \in {"read", "error"}
      /\ \A q \in Paths : q # p => pc'[q] = pc[q]
  BY DEF Lookup, TypeOK
<1>3. TypeOK'
  <2>1. pc' \in [Paths -> InFlight \cup {"end", "error", "cut"}]
    BY DEF Lookup, InFlight, TypeOK
  <2> QED
    BY <1>1, <2>1 DEF TypeOK, Lookup
<1>4. PhaseInv'
  BY <1>1, <1>2 DEF PhaseInv, PhaseAt, InFlight
<1>5. ObjInv' /\ \A q \in Paths : Promised(q)' <=> Promised(q)
  BY <1>1, SameDisk DEF diskVars
<1>6. StepInv'
  BY <1>1, <1>2 DEF StepInv, StepAt, WholeTmp, TmpMode, Goal, ContentMatches, ModeMatches
<1>7. plan \subseteq Paths
  BY PlanAssumption DEF TypeOK
<1>8. DoneInv'
  BY <1>1, <1>2, <1>5, <1>7 DEF DoneInv
<1>9. CalmInv'
  BY <1>1, <1>2, <1>5, <1>7 DEF CalmInv
<1> QED
  BY <1>3, <1>4, <1>5, <1>6, <1>8, <1>9

\* What a task that has found something to do has found.
LEMMA DecideFacts ==
    ASSUME NEW p \in Paths
    PROVE  /\ Decide(p) \in InFlight \cup {"end", "error"}
           /\ Decide(p) \notin {"lookup", "read", "write", "chmod", "chown", "rename", "setowner"}
           /\ mode = "DryRun" => Decide(p) \in {"end", "error"}
           /\ Decide(p) = "end" /\ mode # "DryRun" => Settled(p)
           /\ Decide(p) = "create" => Kind[p] = "line" /\ obj[p].type = "file"
           /\ Decide(p) = "mkdir" => Kind[p] \in {"file", "download", "dir"}
           /\ Decide(p) = "setmode" => Kind[p] = "dir" /\ obj[p].type = "dir"
           /\ Decide(p) = "unlink" => Kind[p] \in {"link", "absent"}
           /\ Decide(p) = "symlink" => Kind[p] = "link" /\ obj[p].type = "none"
           /\ Settled(p) => ~Refused(p) /\ Decide(p) = "end"
<1>1. Kind[p] \in Kinds
  BY PlanAssumption
<1>2. Settled(p) => ~Refused(p)
  BY <1>1 DEF Settled, Refused, ContentMatches
<1>3. Decide(p) \in {"error", "end", FirstWrite(p)}
  BY DEF Decide
<1>4. CASE Decide(p) \in {"error", "end"}
  BY <1>1, <1>2, <1>4 DEF Decide, FirstWrite, Kinds, InFlight
<1>5. CASE Decide(p) = FirstWrite(p) /\ ~Refused(p) /\ ~Settled(p) /\ mode # "DryRun"
  BY <1>1, <1>5 DEF FirstWrite, Refused, Kinds, InFlight
<1> QED
  BY <1>2, <1>4, <1>5 DEF Decide

LEMMA SenseIInv ==
    ASSUME IInv, NEW p \in Paths, Sense(p)
    PROVE  IInv'
<1> USE DEF IInv
<1>1. /\ obj' = obj /\ tmp' = tmp /\ plan' = plan /\ phase' = phase
      /\ mode' = mode /\ want' = want /\ calm' = calm /\ phase = "run"
  BY DEF Sense, diskVars
<1>2. /\ pc[p] = "read" /\ pc'[p] = Decide(p)
      /\ \A q \in Paths : q # p => pc'[q] = pc[q]
  BY DEF Sense, TypeOK
<1>3. p \in plan /\ plan \subseteq Paths
  BY <1>2, PlanAssumption DEF PhaseInv, PhaseAt, TypeOK
<1>4. TypeOK'
  <2>1. pc' \in [Paths -> InFlight \cup {"end", "error", "cut"}]
    BY DecideFacts DEF Sense, TypeOK
  <2>2. changed' \subseteq plan
    BY <1>3 DEF Sense, TypeOK
  <2> QED
    BY <1>1, <2>1, <2>2 DEF TypeOK, Sense
<1>5. PhaseInv'
  <2> SUFFICES ASSUME NEW q \in Paths
               PROVE  PhaseAt(q)'
    BY <1>1 DEF PhaseInv
  <2>1. CASE q = p
    BY <1>1, <1>2, <1>3, <2>1, DecideFacts DEF PhaseAt, InFlight
  <2>2. CASE q # p
    BY <1>1, <1>2, <2>2 DEF PhaseInv, PhaseAt
  <2> QED
    BY <2>1, <2>2
<1>6. ObjInv' /\ \A q \in Paths : Promised(q)' <=> Promised(q)
  BY <1>1, SameDisk DEF diskVars
<1>7. StepInv'
  <2> SUFFICES ASSUME NEW q \in Paths
               PROVE  StepAt(q)'
    BY DEF StepInv
  <2>1. CASE q = p
    BY <1>1, <1>2, <2>1, DecideFacts DEF StepAt
  <2>2. CASE q # p
    BY <1>1, <1>2, <2>2
       DEF StepInv, StepAt, WholeTmp, TmpMode, Goal, ContentMatches, ModeMatches
  <2> QED
    BY <2>1, <2>2
<1>8. Settled(p) <=> Promised(p)
  BY SettledIsPromised
<1>9. DoneInv'
  <2> SUFFICES ASSUME mode = "Apply", NEW q \in plan, pc'[q] = "end"
               PROVE  Promised(q)'
    BY <1>1 DEF DoneInv
  <2>1. CASE q = p
    BY <1>2, <1>3, <1>6, <1>8, <2>1, DecideFacts
  <2>2. CASE q # p
    BY <1>1, <1>2, <1>3, <1>6, <2>2 DEF DoneInv
  <2> QED
    BY <2>1, <2>2
<1>10. CalmInv'
  <2> SUFFICES ASSUME calm
               PROVE  CalmInv'
    BY <1>1 DEF CalmInv
  <2>1. Settled(p)
    BY <1>3, <1>8 DEF CalmInv
  <2>2. changed' = changed /\ pc'[p] = "end"
    BY <1>2, <2>1, DecideFacts DEF Sense
  <2> QED
    BY <1>1, <1>2, <1>3, <1>6, <2>2, DecideFacts DEF CalmInv, Sense
<1> QED
  BY <1>4, <1>5, <1>6, <1>7, <1>9, <1>10

\* An await with its effect, in a run that goes on or after a failure.
LEMMA EffectIInv ==
    ASSUME IInv, NEW p \in Paths, Reached(p), NEW x, pc' = [pc EXCEPT ![p] = x],
           UNCHANGED <<plan, phase, mode, want, changed, accounts, calm>>,
           \/ phase = "failed" /\ (x = "cut" \/ (x = "mkdir" /\ pc[p] = "mkdir"))
           \/ phase = "run" /\ pc[p] \notin {"lookup", "read"} /\ x = After(p)
    PROVE  IInv'
<1> USE DEF IInv
<1>0. /\ plan \subseteq Paths /\ PhaseAt(p)
      /\ Kind[p] \in Kinds
  BY PlanAssumption DEF PhaseInv, TypeOK
<1>1. /\ pc'[p] = x /\ \A q \in Paths : q # p => pc'[q] = pc[q]
      /\ plan' = plan /\ phase' = phase /\ mode' = mode /\ want' = want /\ changed' = changed
      /\ accounts' = accounts /\ calm' = calm
  BY DEF TypeOK
<1>2. x \in InFlight \cup {"end", "error", "cut"}
  BY DEF After, InFlight
<1>3. TypeOK'
  <2>1. pc' \in [Paths -> InFlight \cup {"end", "error", "cut"}]
    BY <1>2 DEF TypeOK
  <2> QED
    BY <1>1, <2>1, EffectTypes DEF TypeOK
<1>4. PhaseInv'
  <2> SUFFICES ASSUME NEW q \in Paths
               PROVE  PhaseAt(q)'
    BY <1>1 DEF PhaseInv
  <2>1. CASE q # p
    BY <1>1, <2>1 DEF PhaseInv, PhaseAt
  <2>2. CASE q = p /\ x \in {"cut", "mkdir"}
    BY <1>0, <1>1, <2>2 DEF PhaseAt, Reached, After, InFlight
  <2>3. CASE q = p /\ x = After(p) /\ phase = "run" /\ x # "mkdir"
    <3>1. mode # "DryRun" /\ p \in plan
      BY <1>0, <2>3 DEF PhaseAt, Reached, InFlight
    <3> QED
      BY <1>0, <1>1, <2>3, <3>1 DEF PhaseAt, Reached, After, Kinds
  <2> QED
    BY <2>1, <2>2, <2>3
<1>5. ObjInv'
  BY EffectObjInv
<1>6. StepInv'
  BY <1>1, EffectStepInv
<1>7. DoneInv'
  <2> SUFFICES ASSUME mode = "Apply", phase = "run", NEW q \in plan, pc'[q] = "end"
               PROVE  Promised(q)'
    BY <1>0, <1>1 DEF DoneInv, PhaseAt, Reached
  <2>1. CASE q = p
    BY <1>0, <1>1, <2>1, LastWriteKeepsPromise
  <2>2. CASE q # p
    BY <1>0, <1>1, <2>2, PromiseStays DEF DoneInv
  <2> QED
    BY <2>1, <2>2
<1>8. CalmInv'
  <2> SUFFICES ASSUME calm
               PROVE  CalmInv'
    BY <1>1 DEF CalmInv
  <2>1. p \in plan
    BY DEF PhaseInv, PhaseAt, Reached, InFlight
  <2>2. pc[p] \in {"lookup", "read"} /\ x = "cut"
    BY <2>1 DEF CalmInv, Reached, InFlight
  <2>3. UNCHANGED diskVars
    BY <2>2 DEF Reached, Effect
  <2>4. \A q \in plan : Promised(q)'
    BY <1>0, <1>1, <2>3, SameDisk DEF CalmInv
  <2>5. \A q \in plan : pc'[q] \in {"lookup", "read", "end", "error", "cut"}
    BY <1>0, <1>1, <2>2 DEF CalmInv
  <2> QED
    BY <1>1, <2>4, <2>5 DEF CalmInv
<1> QED
  BY <1>3, <1>4, <1>5, <1>6, <1>7, <1>8

LEMMA WriteIInv ==
    ASSUME IInv, NEW p \in Paths, Write(p)
    PROVE  IInv'
<1>1. Reached(p) /\ pc[p] \notin {"lookup", "read"}
  BY DEF Write, Reached
<1>2. pc' = [pc EXCEPT ![p] = After(p)]
  BY DEF Write
<1>3. phase = "run" /\ UNCHANGED <<plan, phase, mode, want, changed, accounts, calm>>
  BY DEF Write
<1> QED
  BY <1>1, <1>2, <1>3, EffectIInv

LEMMA FinishIInv ==
    ASSUME IInv, Finish
    PROVE  IInv'
<1> USE DEF IInv
<1>1. /\ obj' = obj /\ tmp' = tmp /\ plan' = plan /\ phase' = "ok" /\ changed' = changed
      /\ mode' = mode /\ want' = want /\ calm' = calm /\ pc' = pc /\ accounts' = accounts
      /\ phase = "run" /\ \A p \in plan : pc[p] = "end"
  BY DEF Finish, diskVars
<1>2. TypeOK'
  BY <1>1 DEF TypeOK
<1>3. PhaseInv'
  BY <1>1 DEF PhaseInv, PhaseAt, InFlight
<1>4. ObjInv' /\ \A q \in Paths : Promised(q)' <=> Promised(q)
  BY <1>1, SameDisk DEF diskVars
<1>5. StepInv'
  BY <1>1 DEF StepInv, StepAt, WholeTmp, TmpMode, Goal, ContentMatches, ModeMatches
<1>6. plan \subseteq Paths
  BY PlanAssumption DEF TypeOK
<1>7. DoneInv' /\ CalmInv'
  BY <1>1, <1>4, <1>6 DEF DoneInv, CalmInv
<1> QED
  BY <1>2, <1>3, <1>4, <1>5, <1>7

LEMMA FailsIInv ==
    ASSUME IInv, NEW p \in Paths, Fails(p)
    PROVE  IInv'
<1> USE DEF IInv
<1>1. /\ obj' = obj /\ tmp' = tmp /\ plan' = plan /\ phase' = phase /\ changed' = changed
      /\ mode' = mode /\ want' = want /\ calm' = calm /\ accounts' = accounts
      /\ phase = "run" /\ pc[p] \in InFlight
  BY DEF Fails, diskVars
<1>2. /\ pc'[p] = "error"
      /\ \A q \in Paths : q # p => pc'[q] = pc[q]
  BY DEF Fails, TypeOK
<1>3. TypeOK'
  <2>1. pc' \in [Paths -> InFlight \cup {"end", "error", "cut"}]
    BY DEF Fails, TypeOK
  <2> QED
    BY <1>1, <2>1 DEF TypeOK
<1>4. PhaseInv'
  BY <1>1, <1>2 DEF PhaseInv, PhaseAt, InFlight
<1>5. ObjInv' /\ \A q \in Paths : Promised(q)' <=> Promised(q)
  BY <1>1, SameDisk DEF diskVars
<1>6. StepInv'
  BY <1>1, <1>2 DEF StepInv, StepAt, WholeTmp, TmpMode, Goal, ContentMatches, ModeMatches
<1>7. plan \subseteq Paths
  BY PlanAssumption DEF TypeOK
<1>8. DoneInv' /\ CalmInv'
  BY <1>1, <1>2, <1>5, <1>7 DEF DoneInv, CalmInv
<1> QED
  BY <1>3, <1>4, <1>5, <1>6, <1>8

LEMMA StopIInv ==
    ASSUME IInv, Stop
    PROVE  IInv'
<1> USE DEF IInv
<1>1. /\ obj' = obj /\ tmp' = tmp /\ plan' = plan /\ phase' = "failed" /\ changed' = changed
      /\ mode' = mode /\ want' = want /\ calm' = calm /\ pc' = pc /\ accounts' = accounts
      /\ phase = "run"
  BY DEF Stop, diskVars
<1>2. TypeOK'
  BY <1>1 DEF TypeOK
<1>3. PhaseInv'
  BY <1>1 DEF PhaseInv, PhaseAt
<1>4. ObjInv' /\ \A q \in Paths : Promised(q)' <=> Promised(q)
  BY <1>1, SameDisk DEF diskVars
<1>5. StepInv'
  BY <1>1 DEF StepInv, StepAt, WholeTmp, TmpMode, Goal, ContentMatches, ModeMatches
<1>6. plan \subseteq Paths
  BY PlanAssumption DEF TypeOK
<1>7. DoneInv' /\ CalmInv'
  BY <1>1, <1>4, <1>6 DEF DoneInv, CalmInv
<1> QED
  BY <1>2, <1>3, <1>4, <1>5, <1>7

LEMMA DroppedIInv ==
    ASSUME IInv, NEW p \in Paths, Dropped(p)
    PROVE  IInv'
<1>1. phase = "failed" /\ UNCHANGED <<plan, phase, mode, want, changed, accounts, calm>>
  BY DEF Dropped
<1>2. CASE Effect(p) /\ pc' = [pc EXCEPT ![p] = IF pc[p] = "mkdir" /\ Missing(p) # {}
                                                  THEN "mkdir" ELSE "cut"]
  <2>1. Reached(p)
    BY <1>2 DEF Dropped, Reached
  <2>2. CASE pc[p] = "mkdir" /\ Missing(p) # {}
    <3>1. pc' = [pc EXCEPT ![p] = "mkdir"]
      BY <1>2, <2>2
    <3> QED
      BY <1>1, <2>1, <2>2, <3>1, EffectIInv
  <2>3. CASE ~(pc[p] = "mkdir" /\ Missing(p) # {})
    <3>1. pc' = [pc EXCEPT ![p] = "cut"]
      BY <1>2, <2>3
    <3> QED
      BY <1>1, <2>1, <3>1, EffectIInv
  <2> QED
    BY <2>2, <2>3
\* The task is cut before the await has its effect.
<1>3. CASE pc' = [pc EXCEPT ![p] = "cut"] /\ UNCHANGED diskVars
  <2> USE DEF IInv
  <2>1. /\ obj' = obj /\ tmp' = tmp /\ plan' = plan /\ phase' = phase /\ changed' = changed
        /\ mode' = mode /\ want' = want /\ calm' = calm /\ accounts' = accounts
        /\ pc[p] \in InFlight
    BY <1>1, <1>3 DEF Dropped, diskVars
  <2>2. /\ pc'[p] = "cut"
        /\ \A q \in Paths : q # p => pc'[q] = pc[q]
    BY <1>3 DEF TypeOK
  <2>3. TypeOK'
    <3>1. pc' \in [Paths -> InFlight \cup {"end", "error", "cut"}]
      BY <1>3 DEF TypeOK
    <3> QED
      BY <2>1, <3>1 DEF TypeOK
  <2>4. PhaseInv'
    BY <1>1, <2>1, <2>2 DEF PhaseInv, PhaseAt, InFlight
  <2>5. ObjInv' /\ \A q \in Paths : Promised(q)' <=> Promised(q)
    BY <2>1, SameDisk DEF diskVars
  <2>6. StepInv'
    BY <2>1, <2>2 DEF StepInv, StepAt, WholeTmp, TmpMode, Goal, ContentMatches, ModeMatches
  <2>7. plan \subseteq Paths
    BY PlanAssumption DEF TypeOK
  <2>8. DoneInv' /\ CalmInv'
    BY <1>1, <2>1, <2>2, <2>5, <2>7 DEF DoneInv, CalmInv
  <2> QED
    BY <2>3, <2>4, <2>5, <2>6, <2>8
<1> QED
  BY <1>2, <1>3 DEF Dropped

LEMMA ExitIInv ==
    ASSUME IInv, Exit
    PROVE  IInv'
<1> USE DEF IInv
<1>1. /\ obj' = obj /\ tmp' = tmp /\ plan' = plan /\ phase' = "off" /\ changed' = {}
      /\ mode' = mode /\ want' = want /\ accounts' = accounts
      /\ phase \in {"ok", "failed"}
  BY DEF Exit, diskVars
<1>2. pc' = [p \in Paths |-> "end"] /\ \A p \in Paths : pc'[p] = "end"
  BY DEF Exit
<1>3. calm' = IF mode = "DryRun" THEN calm ELSE phase = "ok"
  BY DEF Exit
<1>4. TypeOK'
  BY <1>1, <1>2, <1>3 DEF TypeOK
<1>5. PhaseInv'
  BY <1>1, <1>2 DEF PhaseInv, PhaseAt, InFlight
<1>6. ObjInv' /\ \A q \in Paths : Promised(q)' <=> Promised(q)
  BY <1>1, SameDisk DEF diskVars
<1>7. StepInv'
  BY <1>2 DEF StepInv, StepAt
<1>8. plan \subseteq Paths
  BY PlanAssumption DEF TypeOK
<1>9. DoneInv'
  BY <1>1 DEF DoneInv
<1>10. CalmInv'
  <2> SUFFICES ASSUME calm'
               PROVE  \A p \in plan : Promised(p)
    BY <1>1, <1>2, <1>6, <1>8 DEF CalmInv
  <2>1. CASE mode = "DryRun"
    BY <1>3, <2>1 DEF CalmInv
  <2>2. CASE mode # "DryRun"
    BY <1>3, <1>8, <2>2 DEF DoneInv, PhaseInv, PhaseAt, TypeOK
  <2> QED
    BY <2>1, <2>2
<1> QED
  BY <1>4, <1>5, <1>6, <1>7, <1>9, <1>10

LEMMA DriftIInv ==
    ASSUME IInv, NEW p \in Paths, Drift(p)
    PROVE  IInv'
<1> USE DEF IInv
<1>1. /\ plan' = plan /\ phase = "off" /\ phase' = phase /\ changed' = changed
      /\ mode' = mode /\ want' = want /\ accounts' = accounts /\ pc' = pc /\ calm' = FALSE
  BY DEF Drift
<1>2. PICK o \in Found[p] :
          /\ obj' = [q \in Paths |-> IF q = p THEN o
                                     ELSE IF p \in Above[q] /\ o.type # "dir" THEN Gone
                                     ELSE obj[q]]
          /\ tmp' = [q \in Paths |-> IF p \in Above[q] /\ o.type # "dir" THEN Gone ELSE tmp[q]]
  BY DEF Drift
<1>3. Gone \in Objects /\ Gone.type = "none" /\ Gone.content # Partial
  BY PartialAssumption DEF Gone, Objects, Types, Contents
<1>4. o \in Objects /\ o.content # Partial
  BY FoundAssumption
<1>5. TypeOK'
  BY <1>1, <1>2, <1>3, <1>4 DEF TypeOK
<1>6. PhaseInv'
  BY <1>1 DEF PhaseInv, PhaseAt
<1>7. ObjInv'
  <2> SUFFICES ASSUME NEW q \in Paths
               PROVE  ObjAt(q)'
    BY DEF ObjInv
  <2>1. tmp'[q] = tmp[q] \/ tmp'[q] = Gone
    BY <1>2
  <2>2. CASE q = p
    <3>1. obj'[q] = o
      BY <1>2, <2>2
    <3> QED
      BY <2>1, <2>2, <3>1, FoundAssumption DEF ObjInv, ObjAt
  <2>3. CASE q # p
    <3>1. obj'[q] = obj[q] \/ obj'[q] = Gone
      BY <1>2, <2>3
    <3> QED
      BY <1>3, <2>1, <3>1 DEF ObjInv, ObjAt
  <2> QED
    BY <2>2, <2>3
<1>8. \A q \in Paths : pc'[q] = "end"
  BY <1>1 DEF PhaseInv, PhaseAt
<1>9. StepInv' /\ DoneInv' /\ CalmInv'
  BY <1>1, <1>8 DEF StepInv, StepAt, DoneInv, CalmInv
<1> QED
  BY <1>5, <1>6, <1>7, <1>9

LEMMA NextIInv == IInv /\ [Next]_vars => IInv'
<1> SUFFICES ASSUME IInv, [Next]_vars
             PROVE  IInv'
  OBVIOUS
<1>1. CASE Next
  BY <1>1, StartIInv, LookupIInv, SenseIInv, WriteIInv, FinishIInv, FailsIInv, StopIInv,
     DroppedIInv, ExitIInv, DriftIInv DEF Next
<1>2. CASE UNCHANGED vars
  BY <1>2 DEF vars, runVars, diskVars, IInv, TypeOK, PhaseInv, PhaseAt, ObjInv, ObjAt, StepInv,
     StepAt, DoneInv, CalmInv, Promised, Exists, WholeTmp, TmpMode, Goal, ContentMatches,
     ModeMatches, OwnerMatches
<1> QED
  BY <1>1, <1>2

-----------------------------------------------------------------------------
(* The theorems.                                                           *)

\* In every state of every run, each task finds at its next await what its
\* earlier ones have made, and who has ended well has kept his promise.
THEOREM Invariant == Spec => []IInv
BY InitIInv, NextIInv, PTL DEF Spec

\* Nothing half written is ever at a path, and the variables keep their ranges.
THEOREM TypesHold == Spec => []TypeOK
<1>1. IInv => TypeOK
  BY DEF IInv
<1> QED
  BY <1>1, Invariant, PTL

\* After a run that returned Ok, every path is as its resource wants it,
\* whatever failures, aborts, kills and changes by others went before.
THEOREM OkMeansFiles == Spec => []OkFiles
<1>1. IInv => OkFiles
  BY PlanAssumption DEF IInv, DoneInv, OkFiles, PhaseInv, PhaseAt, TypeOK
<1> QED
  BY <1>1, Invariant, PTL

\* A run after an Ok run on an untouched host changes nothing: the sensing of
\* every backend recognises what its own writes have made.
THEOREM SecondRunIsQuiet == Spec => []SecondRunQuiet
<1>1. IInv => SecondRunQuiet
  BY DEF IInv, CalmInv, SecondRunQuiet
<1> QED
  BY <1>1, Invariant, PTL

\* The path of a File, a Download or a LineInFile only ever changes from one
\* whole file to another, by one rename.
LEMMA WholeFileStep ==
    ASSUME IInv, [Next]_vars, NEW p \in plan, phase # "off",
           Kind[p] \in {"file", "download", "line"}, Rewritten(p)
    PROVE  WholeFile(p)
<1>0. /\ p \in Paths /\ obj \in [Paths -> Objects] /\ tmp \in [Paths -> Objects]
      /\ PhaseAt(p) /\ StepAt(p) /\ ObjAt(p)
  BY PlanAssumption DEF IInv, TypeOK, PhaseInv, StepInv, ObjInv
<1>1. obj' # obj
  BY DEF Rewritten
<1>2. PICK r \in Paths : Write(r) \/ Dropped(r)
  BY <1>1 DEF Next, Start, Lookup, Sense, Finish, Fails, Stop, Exit, Drift, vars, diskVars
<1>3. Reached(r) /\ want' = want
  BY <1>1, <1>2 DEF Write, Dropped, Reached, diskVars
<1>4. r = p /\ pc[p] # "mkdir"
  BY <1>0, <1>3, OtherPaths DEF IInv, Rewritten
<1>5. pc[p] = "rename"
  <2>1. pc[p] \notin {"lookup", "read", "create", "write", "chmod", "chown"}
    BY <1>1, <1>3, <1>4
       DEF Reached, Effect, diskVars, CreateTmp, WriteTmp, ChmodTmp, ChownTmp
  <2>2. pc[p] \notin {"setmode", "setowner"}
    <3> SUFFICES ASSUME pc[p] \in {"setmode", "setowner"}
                 PROVE  FALSE
      OBVIOUS
    <3>1. Chmod(p) \/ Chown(p)
      BY <1>3, <1>4 DEF Reached, Effect
    <3>2. obj'[p].type = obj[p].type /\ obj'[p].content = obj[p].content
      BY <1>0, <3>1 DEF Chmod, Chown, Objects
    <3> QED
      BY <3>2 DEF Rewritten
  <2>3. pc[p] \notin {"unlink", "symlink"}
    BY <1>0 DEF PhaseAt
  <2> QED
    BY <1>3, <1>4, <2>1, <2>2, <2>3 DEF Reached, InFlight
<1>6. obj'[p] = tmp[p]
  BY <1>0, <1>3, <1>4, <1>5 DEF Reached, Effect, RenameTmp
<1>7. Kind[p] = "line" =>
          /\ HasLine(tmp[p].content)
          /\ \A i \in DOMAIN obj[p].content :
                 obj[p].content[i] \notin Matching =>
                     i \in DOMAIN tmp[p].content /\ tmp[p].content[i] = obj[p].content[i]
  BY <1>0, <1>5, EditMakesLine DEF StepAt, WholeTmp, Goal, ObjAt
<1> QED
  BY <1>0, <1>5, <1>6, <1>7 DEF StepAt, WholeTmp, TmpMode, Goal, WholeFile

THEOREM FilesAreWhole == Spec => WholeFileWrites
<1>1. IInv /\ [Next]_vars =>
          [\A p \in plan :
              phase # "off" /\ Kind[p] \in {"file", "download", "line"} /\ Rewritten(p)
                  => WholeFile(p)]_vars
  BY WholeFileStep
<1> QED
  BY <1>1, Invariant, PTL DEF Spec, WholeFileWrites

\* A dry run does nothing to the disk, through failures and aborts too.
THEOREM DryRunsArePure == Spec => DryRunIsPure
<1>1. ASSUME IInv, Next, phase # "off", mode = "DryRun"
      PROVE  UNCHANGED diskVars
  <2>1. CASE \E p \in Paths : Write(p)
    BY <1>1, <2>1 DEF IInv, PhaseInv, PhaseAt, Write, InFlight
  <2>2. CASE \E p \in Paths : Dropped(p)
    BY <1>1, <2>2 DEF IInv, PhaseInv, PhaseAt, Dropped, InFlight, Effect
  <2> QED
    BY <1>1, <2>1, <2>2 DEF Next, Start, Lookup, Sense, Finish, Fails, Stop, Exit, Drift
<1>2. IInv /\ [Next]_vars => [phase # "off" /\ mode = "DryRun" => UNCHANGED diskVars]_vars
  BY <1>1
<1> QED
  BY <1>2, Invariant, PTL DEF Spec, DryRunIsPure

-----------------------------------------------------------------------------
(* What a run fails for.                                                   *)

\* A path refuses its resource, create_dir_all is blocked and a directory stands
\* where nothing should be as long as the run lasts: no other task changes what
\* stands in the way.
LEMMA CauseStays ==
    ASSUME IInv, NEW r \in Paths, Reached(r), accounts' = accounts,
           NEW p \in Paths, pc[p] = "error", CauseAt(p)
    PROVE  CauseAt(p)'
<1>0. /\ obj \in [Paths -> Objects] /\ PhaseAt(r) /\ StepAt(r) /\ r # p
  BY DEF IInv, TypeOK, PhaseInv, StepInv, Reached, InFlight
<1>1. CASE Refused(p)
  BY <1>0, <1>1, OtherPaths DEF IInv, Refused, CauseAt
<1>2. CASE Blocked(p)
  <2>1. PICK q \in DirsFor(p) : obj[q].type \notin {"none", "dir"}
    BY <1>2 DEF Blocked
  <2>2. CASE q # r \/ pc[r] = "mkdir"
    <3>1. q \in Paths
      BY PlanAssumption DEF DirsFor
    <3>2. obj'[q] = obj[q]
      BY <2>1, <2>2, <3>1, OtherPaths DEF IInv
    <3> QED
      BY <2>1, <3>2 DEF Blocked, CauseAt, DirsFor
  <2>3. CASE q = r /\ pc[r] # "mkdir"
    <3>1. Kind[r] = "dir"
      BY <1>0, <2>3, PlanAssumption DEF DirsFor
    <3>2. pc[r] \in {"lookup", "read"}
      BY <1>0, <2>1, <2>3, <3>1 DEF PhaseAt, StepAt, Reached, InFlight
    <3>3. obj' = obj
      BY <3>2 DEF Reached, Effect, diskVars
    <3> QED
      BY <2>1, <3>3 DEF Blocked, CauseAt, DirsFor
  <2> QED
    BY <2>2, <2>3
<1>3. CASE Undeletable(p)
  BY <1>0, <1>3, OtherPaths DEF IInv, Undeletable, CauseAt
<1>4. CASE Owner[p] \notin accounts \cup {"any"}
  BY <1>4 DEF CauseAt
<1> QED
  BY <1>1, <1>2, <1>3, <1>4 DEF CauseAt

LEMMA InitErrorInv == Init => ErrorInv
BY DEF Init, ErrorInv

\* An action that leaves the disk and the users alone, and the tasks but p.
LEMMA ErrorStep ==
    ASSUME IInv, ErrorInv, NEW p \in Paths, pc[p] # "error",
           NEW x, pc' = [pc EXCEPT ![p] = x], x # "lookup",
           ~MayFail /\ x = "error" => CauseAt(p),
           UNCHANGED <<plan, phase, accounts, diskVars>>
    PROVE  ErrorInv'
<1>1. /\ pc'[p] = x /\ \A q \in Paths : q # p => pc'[q] = pc[q]
      /\ plan \subseteq Paths /\ obj' = obj
  BY PlanAssumption DEF IInv, TypeOK, diskVars
<1>2. \A q \in Paths : CauseAt(q) => CauseAt(q)'
  BY <1>1 DEF CauseAt, Refused, Blocked, Undeletable, DirsFor
<1> QED
  BY <1>1, <1>2 DEF ErrorInv

LEMMA ErrorNext == IInv /\ ErrorInv /\ [Next]_vars => ErrorInv'
<1> SUFFICES ASSUME IInv, ErrorInv, [Next]_vars
             PROVE  ErrorInv'
  OBVIOUS
<1>0. /\ pc \in [Paths -> InFlight \cup {"end", "error", "cut"}]
      /\ plan \subseteq Paths /\ \A p \in Paths : PhaseAt(p)
  BY PlanAssumption DEF IInv, TypeOK, PhaseInv
<1>1. CASE Start
  BY <1>0, <1>1 DEF Start, ErrorInv
<1>2. ASSUME NEW p \in Paths, Lookup(p)
      PROVE  ErrorInv'
  <2>1. Owner[p] \in accounts \/ CauseAt(p)
    BY <1>2 DEF Lookup, ErrorInv, CauseAt
  <2> DEFINE x == IF Owner[p] \in accounts THEN "read" ELSE "error"
  <2>2. /\ pc' = [pc EXCEPT ![p] = x] /\ pc[p] # "error"
        /\ UNCHANGED <<plan, phase, accounts, diskVars>>
    BY <1>2 DEF Lookup
  <2>3. x # "lookup" /\ (x = "error" => CauseAt(p))
    BY <2>1
  <2> HIDE DEF x
  <2> QED
    BY <2>2, <2>3, ErrorStep
<1>3. ASSUME NEW p \in Paths, Sense(p)
      PROVE  ErrorInv'
  <2>1. Decide(p) # "lookup" /\ Decide(p) # "cut"
    BY DecideFacts DEF InFlight
  <2>2. Decide(p) = "error" => CauseAt(p)
    <3>1. FirstWrite(p) # "error"
      BY PlanAssumption DEF FirstWrite, Kinds
    <3> QED
      BY <3>1 DEF Decide, CauseAt
  <2> QED
    BY <1>3, <2>1, <2>2, ErrorStep DEF Sense
<1>4. ASSUME NEW p \in Paths, Write(p) \/ Dropped(p)
      PROVE  ErrorInv'
  <2>1. PICK x : /\ pc' = [pc EXCEPT ![p] = x] /\ x \notin {"lookup", "error"}
                 /\ pc[p] \in InFlight /\ UNCHANGED <<plan, phase, accounts>>
    <3>1. After(p) \notin {"lookup", "error"}
      BY DEF After
    <3>2. CASE Write(p)
      BY <3>1, <3>2 DEF Write
    <3>3. CASE Dropped(p)
      <4>1. PICK x \in {"mkdir", "cut"} : pc' = [pc EXCEPT ![p] = x]
        BY <3>3 DEF Dropped
      <4> QED
        BY <3>3, <4>1 DEF Dropped
    <3> QED
      BY <1>4, <3>2, <3>3
  <2>2. Effect(p) \/ UNCHANGED diskVars
    BY <1>4 DEF Write, Dropped
  <2>3. /\ pc'[p] = x /\ \A q \in Paths : q # p => pc'[q] = pc[q]
        /\ pc[p] # "error"
    BY <1>0, <2>1 DEF InFlight
  <2>4. \A q \in Paths : pc[q] = "error" /\ CauseAt(q) => CauseAt(q)'
    <3>1. CASE Effect(p)
      BY <2>1, <3>1, CauseStays DEF Reached
    <3>2. CASE UNCHANGED diskVars
      BY <2>1, <3>2 DEF diskVars, CauseAt, Refused, Blocked, Undeletable, DirsFor
    <3> QED
      BY <2>2, <3>1, <3>2
  <2> QED
    BY <1>0, <2>1, <2>3, <2>4 DEF ErrorInv
<1>5. CASE Finish \/ Stop
  <2>1. /\ obj' = obj /\ pc' = pc /\ accounts' = accounts /\ plan' = plan
        /\ ~MayFail /\ phase' = "failed" => \E p \in plan : pc[p] = "error"
    BY <1>5 DEF Finish, Stop, diskVars
  <2> QED
    BY <2>1 DEF ErrorInv, CauseAt, Refused, Blocked, Undeletable, DirsFor
<1>6. ASSUME NEW p \in Paths, Fails(p)
      PROVE  ErrorInv'
  BY <1>6, ErrorStep DEF Fails, CauseAt, InFlight
<1>7. CASE Exit
  BY <1>7 DEF Exit, ErrorInv
<1>8. ASSUME NEW p \in Paths, Drift(p)
      PROVE  ErrorInv'
  <2>1. phase' = "off" /\ \A q \in Paths : pc'[q] = "end"
    BY <1>0, <1>8 DEF Drift, PhaseAt
  <2> QED
    BY <2>1 DEF ErrorInv
<1>9. CASE UNCHANGED vars
  BY <1>9 DEF vars, runVars, diskVars, ErrorInv, CauseAt, Refused, Blocked, Undeletable, DirsFor
<1> QED
  BY <1>1, <1>2, <1>3, <1>4, <1>5, <1>6, <1>7, <1>8, <1>9 DEF Next

\* Where only what cannot succeed fails, a failed run has met something at a path
\* or above it that its resource cannot live with, or an owner without an account:
\* the tasks of a run never fail each other.
THEOREM FailuresAreCaused == Spec => []FailuresHaveCause
<1>1. IInv /\ ErrorInv => FailuresHaveCause
  BY PlanAssumption DEF IInv, TypeOK, ErrorInv, FailuresHaveCause, CauseAt
<1> QED
  BY <1>1, InitErrorInv, ErrorNext, Invariant, PTL DEF Spec

-----------------------------------------------------------------------------
(* That the tasks get on.                                                  *)

\* Among finite sets there is one that includes no other of them.
LEMMA MinimalSet ==
    ASSUME NEW S, IsFiniteSet(S), NEW C, C \subseteq SUBSET S, C # {}
    PROVE  \E D \in C : \A E \in C : E \subseteq D => E = D
<1>1. IsWellFoundedOn(StrictSubsetOrdering(S), SUBSET S)
  BY FS_StrictSubsetOrderingWellFounded, FS_FiniteSubsetsOfFinite
<1>2. PICK D \in C : \A E \in C : ~ (<<E, D>> \in StrictSubsetOrdering(S))
  BY <1>1, WFMin
<1>3. \A E \in C : E \subseteq D => E = D
  <2> SUFFICES ASSUME NEW E \in C, E \subseteq D, E # D
               PROVE  <<E, D>> \in StrictSubsetOrdering(S)
    BY <1>2
  <2> QED
    BY DEF StrictSubsetOrdering
<1> QED
  BY <1>3

\* Of any paths one has none of the others above it.
LEMMA OneIsTopmost ==
    ASSUME NEW M, M \subseteq Paths, M # {}
    PROVE  \E q \in M : Above[q] \cap M = {}
<1> DEFINE C == {Above[q] \cap M : q \in M}
<1>1. \E D \in C : \A E \in C : E \subseteq D => E = D
  <2>1. C \subseteq SUBSET Paths /\ C # {}
    OBVIOUS
  <2> HIDE DEF C
  <2> QED
    BY <2>1, MinimalSet, PlanAssumption
<1>2. PICK q \in M : \A E \in C : E \subseteq Above[q] \cap M => E = Above[q] \cap M
  BY <1>1
<1>3. ASSUME NEW r \in Above[q] \cap M PROVE FALSE
  <2>1. Above[r] \cap M \subseteq Above[q] \cap M /\ r \notin Above[r]
    BY PlanAssumption
  <2> QED
    BY <1>2, <2>1
<1> QED
  BY <1>3

\* create_dir_all is never stuck, however often the other tasks, which make the
\* same directories, come between its steps.
THEOREM MkdirIsNotStuck == Spec => []MkdirGoesOn
<1>1. IInv => MkdirGoesOn
  <2> SUFFICES ASSUME NEW p \in Paths, Missing(p) # {}
               PROVE  \E q \in Paths : Topmost(q, p)
    BY DEF MkdirGoesOn
  <2>1. Missing(p) \subseteq Paths
    BY PlanAssumption DEF Missing, DirsFor
  <2>2. PICK q \in Missing(p) : Above[q] \cap Missing(p) = {}
    BY <2>1, OneIsTopmost
  <2> QED
    BY <2>1, <2>2 DEF Topmost
<1> QED
  BY <1>1, Invariant, PTL

\* What is left to do is a number.
LEMMA LeftCounted ==
    /\ IsFiniteSet(AwaitsLeft) /\ Cardinality(AwaitsLeft) \in Nat
    /\ IsFiniteSet(Unmade) /\ Cardinality(Unmade) \in Nat
<1>1. IsFiniteSet(1 .. 9)
  <2> DEFINE n == 9
  <2>1. n \in Int
    OBVIOUS
  <2> HIDE DEF n
  <2>2. IsFiniteSet(1 .. n)
    BY <2>1, FS_Interval
  <2> QED
    BY <2>2 DEF n
<1>2. IsFiniteSet(Paths \X (1 .. 9))
  BY <1>1, PlanAssumption, FS_Product
<1>3. AwaitsLeft \subseteq Paths \X (1 .. 9) /\ Unmade \subseteq Paths
  BY DEF AwaitsLeft, Unmade
<1> QED
  BY <1>2, <1>3, PlanAssumption, FS_Subset, FS_CardinalityType

LEMMA AwaitsValues ==
    /\ Awaits("lookup") = 9 /\ Awaits("read") = 8 /\ Awaits("mkdir") = 7
    /\ Awaits("create") = 6 /\ Awaits("write") = 5 /\ Awaits("chmod") = 4
    /\ Awaits("chown") = 3 /\ Awaits("rename") = 2 /\ Awaits("setmode") = 2
    /\ Awaits("unlink") = 2 /\ Awaits("setowner") = 1 /\ Awaits("symlink") = 1
    /\ Awaits("end") = 0 /\ Awaits("error") = 0 /\ Awaits("cut") = 0
BY DEF Awaits

\* A task that goes on has less before it.
LEMMA AwaitLowers ==
    ASSUME TypeOK, NEW p \in Paths, NEW x, pc' = [pc EXCEPT ![p] = x],
           Awaits(pc[p]) \in 1 .. 9, Awaits(x) \in 0 .. Awaits(pc[p]) - 1
    PROVE  Cardinality(AwaitsLeft') \in 0 .. Cardinality(AwaitsLeft) - 1
<1> DEFINE n == Awaits(pc[p])
<1>1. pc'[p] = x /\ \A q \in Paths : q # p => pc'[q] = pc[q]
  BY DEF TypeOK
<1>2. ASSUME NEW s \in AwaitsLeft'
      PROVE  s \in AwaitsLeft
  <2>1. s \in Paths \X (1 .. 9) /\ s[2] <= Awaits(pc'[s[1]]) /\ s[1] \in Paths /\ s[2] \in 1 .. 9
    BY <1>2 DEF AwaitsLeft
  <2>2. CASE s[1] = p
    <3>1. s[2] <= Awaits(x) /\ Awaits(x) <= Awaits(pc[p])
      BY <1>1, <2>1, <2>2
    <3>2. s[2] <= Awaits(pc[p])
      BY <2>1, <3>1
    <3> QED
      BY <2>1, <2>2, <3>2 DEF AwaitsLeft
  <2>3. CASE s[1] # p
    BY <1>1, <2>1, <2>3 DEF AwaitsLeft
  <2> QED
    BY <2>2, <2>3
<1>3. <<p, n>> \in AwaitsLeft
  BY DEF AwaitsLeft
<1>4. <<p, n>> \notin AwaitsLeft'
  <2> SUFFICES ASSUME <<p, n>> \in AwaitsLeft'
               PROVE  FALSE
    OBVIOUS
  <2>1. n <= Awaits(pc'[p])
    BY DEF AwaitsLeft
  <2> QED
    BY <1>1, <2>1
<1>5. AwaitsLeft' \subseteq AwaitsLeft /\ AwaitsLeft' # AwaitsLeft
  BY <1>2, <1>3, <1>4
<1>6. Cardinality(AwaitsLeft') <= Cardinality(AwaitsLeft)
      /\ Cardinality(AwaitsLeft') # Cardinality(AwaitsLeft)
      /\ Cardinality(AwaitsLeft') \in Nat
  BY <1>5, LeftCounted, FS_Subset, FS_CardinalityType
<1> QED
  BY <1>6, LeftCounted

\* No task unmakes a directory.
LEMMA UnmadeFalls ==
    ASSUME IInv, NEW p \in Paths, Reached(p)
    PROVE  Unmade' \subseteq Unmade
<1> SUFFICES ASSUME NEW q \in Paths, Kind[q] = "dir", obj'[q].type = "none"
             PROVE  obj[q].type = "none"
  BY DEF Unmade
<1>0. obj \in [Paths -> Objects] /\ PhaseAt(p) /\ StepAt(p)
  BY DEF IInv, TypeOK, PhaseInv, StepInv
<1>1. CASE q # p \/ pc[p] = "mkdir"
  BY <1>1, OtherPaths DEF IInv
<1>2. CASE q = p /\ pc[p] # "mkdir"
  <2>1. pc[p] \in {"lookup", "read", "setmode", "setowner"}
    BY <1>0, <1>2 DEF PhaseAt, Reached, InFlight
  <2>2. CASE pc[p] \in {"lookup", "read"}
    BY <1>2, <2>2 DEF Reached, Effect, diskVars
  <2>3. CASE pc[p] \in {"setmode", "setowner"}
    <3>1. Chmod(p) \/ Chown(p)
      BY <2>3 DEF Reached, Effect
    <3>2. obj'[p].type = obj[p].type
      BY <1>0, <3>1 DEF Chmod, Chown, Objects
    <3> QED
      BY <1>2, <3>2
  <2> QED
    BY <2>1, <2>2, <2>3
<1> QED
  BY <1>1, <1>2

\* A step of create_dir_all that finds one missing makes one.
LEMMA MkdirMakes ==
    ASSUME IInv, NEW p \in Paths, Reached(p), pc[p] = "mkdir", Missing(p) # {}
    PROVE  Unmade' # Unmade
<1>1. PICK d \in Paths, m \in Umasked :
          /\ Topmost(d, p)
          /\ obj' = [obj EXCEPT ![d] = [type |-> "dir", content |-> Nothing, mode |-> m,
                                        owner |-> "root"]]
  BY DEF Reached, Effect, MakeDir
<1>2. Kind[d] = "dir" /\ obj[d].type = "none"
  BY <1>1, PlanAssumption DEF IInv, PhaseInv, PhaseAt, Topmost, Missing, DirsFor
<1>3. obj'[d].type = "dir"
  BY <1>1 DEF IInv, TypeOK
<1>4. d \in Unmade /\ d \notin Unmade'
  BY <1>2, <1>3 DEF Unmade
<1> QED
  BY <1>4

\* Each await of a task comes before those that follow it.
LEMMA AfterIsLess ==
    ASSUME NEW p \in Paths, pc[p] \in InFlight \ {"lookup", "read"},
           ~(pc[p] = "mkdir" /\ Missing(p) # {})
    PROVE  Awaits(pc[p]) \in 1 .. 9 /\ Awaits(After(p)) \in 0 .. Awaits(pc[p]) - 1
BY AwaitsValues DEF After, InFlight

LEMMA SomeLowers ==
    ASSUME NEW a \in Nat, NEW b \in Nat, NEW c \in 0 .. 2, NEW x, NEW y, NEW z,
           \/ x \in 0 .. a - 1 /\ y \in 0 .. b /\ z = c
           \/ x = a /\ y \in 0 .. b - 1 /\ z = c
           \/ x = a /\ y = b /\ z \in 0 .. c - 1
    PROVE  x + y + z \in 0 .. (a + b + c) - 1
OBVIOUS

\* One step of a run, or of what it leaves at work.
LEMMA StepUsesUp ==
    ASSUME IInv, Next, phase # "off"
    PROVE  FilesLeft' \in 0 .. FilesLeft - 1
<1> DEFINE a == Cardinality(AwaitsLeft)
           b == Cardinality(Unmade)
           c == CASE phase = "run" -> 2 [] phase = "off" -> 0 [] OTHER -> 1
<1>0. /\ a \in Nat /\ b \in Nat /\ c \in 0 .. 2
      /\ FilesLeft = a + b + c /\ FilesLeft' = a' + b' + c'
      /\ \A p \in Paths : PhaseAt(p)
  BY LeftCounted DEF FilesLeft, IInv, PhaseInv
<1>1. ASSUME NEW p \in Paths, NEW x, pc' = [pc EXCEPT ![p] = x], phase' = phase,
             Awaits(pc[p]) \in 1 .. 9, Awaits(x) \in 0 .. Awaits(pc[p]) - 1,
             Unmade' \subseteq Unmade
      PROVE  FilesLeft' \in 0 .. FilesLeft - 1
  <2>1. a' \in 0 .. a - 1
    BY <1>1, AwaitLowers DEF IInv
  <2>2. b' \in 0 .. b
    BY <1>1, LeftCounted, FS_Subset, FS_CardinalityType
  <2>3. c' = c
    BY <1>1
  <2> HIDE DEF a, b, c
  <2> QED
    BY <1>0, <2>1, <2>2, <2>3, SomeLowers
<1>2. ASSUME pc' = pc, phase' = phase, Unmade' \subseteq Unmade, Unmade' # Unmade
      PROVE  FilesLeft' \in 0 .. FilesLeft - 1
  <2>1. AwaitsLeft' = AwaitsLeft
    BY <1>2 DEF AwaitsLeft
  <2>2. Cardinality(Unmade') <= Cardinality(Unmade) /\ Cardinality(Unmade') # Cardinality(Unmade)
        /\ Cardinality(Unmade') \in Nat
    BY <1>2, LeftCounted, FS_Subset, FS_CardinalityType
  <2>3. a' = a /\ b' \in 0 .. b - 1 /\ c' = c
    BY <1>0, <1>2, <2>1, <2>2
  <2> HIDE DEF a, b, c
  <2> QED
    BY <1>0, <2>3, SomeLowers
<1>3. ASSUME AwaitsLeft' = AwaitsLeft, obj' = obj, c' \in 0 .. c - 1
      PROVE  FilesLeft' \in 0 .. FilesLeft - 1
  <2>1. a' = a /\ b' = b
    BY <1>3 DEF Unmade
  <2> HIDE DEF a, b, c
  <2> QED
    BY <1>0, <1>3, <2>1, SomeLowers
<1>4. ASSUME NEW p \in Paths, Lookup(p)
      PROVE  FilesLeft' \in 0 .. FilesLeft - 1
  <2>1. PICK x \in {"read", "error"} : pc' = [pc EXCEPT ![p] = x]
    BY <1>4 DEF Lookup
  <2>2. Unmade' = Unmade /\ phase' = phase /\ pc[p] = "lookup"
    BY <1>4 DEF Lookup, diskVars, Unmade
  <2>3. Awaits(pc[p]) = 9 /\ Awaits(x) \in {0, 8}
    BY <2>1, <2>2, AwaitsValues
  <2>4. Awaits(pc[p]) \in 1 .. 9 /\ Awaits(x) \in 0 .. Awaits(pc[p]) - 1
    BY <2>3
  <2> QED
    BY <1>1, <2>1, <2>2, <2>4
<1>5. ASSUME NEW p \in Paths, Sense(p)
      PROVE  FilesLeft' \in 0 .. FilesLeft - 1
  <2>1. pc' = [pc EXCEPT ![p] = Decide(p)] /\ phase' = phase /\ pc[p] = "read"
    BY <1>5 DEF Sense
  <2>2. Unmade' = Unmade
    BY <1>5 DEF Sense, diskVars, Unmade
  <2>3. Decide(p) \in InFlight \cup {"end", "error"} /\ Decide(p) \notin {"lookup", "read"}
    BY DecideFacts
  <2>4. Awaits(Decide(p)) \in 0 .. 7
    BY <2>3, AwaitsValues DEF InFlight
  <2>5. Awaits(pc[p]) = 8
    BY <2>1, AwaitsValues
  <2>6. Awaits(pc[p]) \in 1 .. 9 /\ Awaits(Decide(p)) \in 0 .. Awaits(pc[p]) - 1
    BY <2>4, <2>5
  <2> QED
    BY <1>1, <2>1, <2>2, <2>6
<1>6. ASSUME NEW p \in Paths, pc[p] \in InFlight, phase' = phase, NEW x \in {"error", "cut"},
             pc' = [pc EXCEPT ![p] = x], Unmade' \subseteq Unmade
      PROVE  FilesLeft' \in 0 .. FilesLeft - 1
  <2>1. Awaits(pc[p]) \in 1 .. 9 /\ Awaits(x) = 0
    BY <1>6, AwaitsValues DEF InFlight
  <2>2. Awaits(x) \in 0 .. Awaits(pc[p]) - 1
    BY <2>1
  <2> QED
    BY <1>1, <1>6, <2>1, <2>2
<1>7. ASSUME NEW p \in Paths, Write(p) \/ Dropped(p)
      PROVE  FilesLeft' \in 0 .. FilesLeft - 1
  <2>1. phase' = phase /\ pc[p] \in InFlight /\ (Effect(p) \/ UNCHANGED diskVars)
    BY <1>7 DEF Write, Dropped
  <2>2. Effect(p) => Reached(p)
    BY <2>1 DEF Reached
  <2>3. Unmade' \subseteq Unmade
    BY <2>1, <2>2, UnmadeFalls DEF diskVars, Unmade
  <2>4. CASE pc' = [pc EXCEPT ![p] = "cut"]
    BY <1>6, <2>1, <2>3, <2>4
  <2>5. CASE Effect(p) /\ pc[p] = "mkdir" /\ Missing(p) # {} /\ pc' = [pc EXCEPT ![p] = "mkdir"]
    <3>1. pc' = pc
      BY <2>5 DEF IInv, TypeOK
    <3>2. Unmade' # Unmade
      BY <2>2, <2>5, MkdirMakes
    <3> QED
      BY <1>2, <2>1, <2>3, <3>1, <3>2
  <2>6. CASE Write(p) /\ ~(pc[p] = "mkdir" /\ Missing(p) # {})
    <3>1. pc' = [pc EXCEPT ![p] = After(p)] /\ pc[p] \in InFlight \ {"lookup", "read"}
      BY <2>6 DEF Write
    <3>2. Awaits(pc[p]) \in 1 .. 9 /\ Awaits(After(p)) \in 0 .. Awaits(pc[p]) - 1
      BY <2>6, <3>1, AfterIsLess
    <3> QED
      BY <1>1, <2>1, <2>3, <3>1, <3>2
  <2>7. CASE Write(p) /\ pc[p] = "mkdir" /\ Missing(p) # {}
    BY <2>5, <2>7 DEF Write, After
  <2>8. CASE Dropped(p)
    BY <2>4, <2>5, <2>8 DEF Dropped
  <2> QED
    BY <1>7, <2>6, <2>7, <2>8
<1>8. CASE Finish \/ Stop
  <2>1. pc' = pc /\ obj' = obj /\ phase = "run" /\ phase' \in {"ok", "failed"}
    BY <1>8 DEF Finish, Stop, diskVars
  <2>2. AwaitsLeft' = AwaitsLeft
    BY <2>1 DEF AwaitsLeft
  <2>3. c = 2 /\ c' = 1
    BY <2>1
  <2>4. c' \in 0 .. c - 1
    BY <2>3
  <2> HIDE DEF c
  <2> QED
    BY <1>3, <2>1, <2>2, <2>4
<1>9. ASSUME NEW p \in Paths, Fails(p)
      PROVE  FilesLeft' \in 0 .. FilesLeft - 1
  <2>1. Unmade' = Unmade
    BY <1>9 DEF Fails, diskVars, Unmade
  <2> QED
    BY <1>6, <1>9, <2>1 DEF Fails
<1>10. CASE Exit
  <2>1. obj' = obj /\ phase \in {"ok", "failed"} /\ phase' = "off"
    BY <1>10 DEF Exit, diskVars
  <2>2. \A p \in Paths : pc[p] \in {"end", "error", "cut"} /\ pc'[p] = "end"
    BY <1>0, <1>10 DEF Exit, PhaseAt, IInv, TypeOK
  <2>3. \A p \in Paths : Awaits(pc[p]) = 0 /\ Awaits(pc'[p]) = 0
    BY <2>2, AwaitsValues
  <2>4. AwaitsLeft = {} /\ AwaitsLeft' = {}
    BY <2>3 DEF AwaitsLeft
  <2>5. c = 1 /\ c' = 0
    BY <2>1
  <2>6. c' \in 0 .. c - 1
    BY <2>5
  <2> HIDE DEF c
  <2> QED
    BY <1>3, <2>1, <2>4, <2>6
<1>11. ~Start /\ \A p \in Paths : ~Drift(p)
  BY DEF Start, Drift
<1> QED
  BY <1>4, <1>5, <1>7, <1>8, <1>9, <1>10, <1>11 DEF Next

\* A run ends by itself, and so do the operations it leaves behind: whatever fails,
\* and however the tasks come between each other, every step leaves less to do.
THEOREM RunsEnd == Spec => RunEnds
<1>1. IInv /\ [Next]_vars => [phase # "off" => FilesLeft' \in 0 .. FilesLeft - 1]_vars
  BY StepUsesUp
<1> QED
  BY <1>1, Invariant, PTL DEF Spec, RunEnds

-----------------------------------------------------------------------------
(* The backends implement HostPaths.                                       *)

\* The promises are those of HostPaths.
LEMMA PromisedIsAsAsked ==
    ASSUME NEW p \in Paths, Promised(p)
    PROVE  Store!AsAsked(p)
<1>1. Kind[p] \in Kinds
  BY PlanAssumption
<1>2. \A t : HasLine(t) => Store!HasTheLine(t)
  BY DEF HasLine, Store!HasTheLine
<1>3. Exists(p) <=> Store!Occupied(p)
  BY DEF Exists, Store!Occupied
<1> QED
  BY <1>1, <1>2, <1>3
     DEF Promised, ModeMatches, OwnerMatches, Kinds, Store!AsAsked, Store!ModeIs, Store!OwnerIs

\* What an await does to the paths is nothing, or one change to one path.
LEMMA EffectIsChange ==
    ASSUME IInv, NEW p \in Paths, Reached(p), phase \in {"run", "failed"},
           UNCHANGED <<plan, phase, mode, want>>, obj' # obj
    PROVE  \E q \in Paths : Store!Change(q)
<1>0. /\ obj \in [Paths -> Objects] /\ tmp \in [Paths -> Objects]
      /\ PhaseAt(p) /\ StepAt(p) /\ ObjAt(p)
      /\ mode \in {"Apply", "DryRun"}
  BY DEF IInv, TypeOK, PhaseInv, StepInv, ObjInv
<1>1. /\ pc[p] \in {"mkdir", "rename", "setmode", "setowner", "unlink", "symlink"}
      /\ p \in plan
  BY <1>0 DEF Reached, InFlight, Effect, diskVars, CreateTmp, WriteTmp, ChmodTmp, ChownTmp, PhaseAt
<1>2. mode = "Apply"
  BY <1>0, <1>1 DEF PhaseAt
<1>3. CASE pc[p] = "mkdir"
  <2>1. PICK d \in Paths, m \in Umasked :
            /\ Topmost(d, p)
            /\ obj' = [obj EXCEPT ![d] = [type |-> "dir", content |-> Nothing, mode |-> m,
                                          owner |-> "root"]]
    BY <1>3 DEF Reached, Effect, MakeDir
  <2>2. Kind[d] = "dir" /\ obj[d].type = "none"
    BY <1>0, <1>3, <2>1, PlanAssumption DEF Topmost, Missing, DirsFor
  <2>3. obj'[d].type = "dir" /\ \A q \in Paths \ {d} : obj'[q] = obj[q]
    BY <1>0, <2>1
  <2> QED
    BY <1>2, <2>2, <2>3 DEF Store!Change, Store!Makes
<1>4. CASE pc[p] # "mkdir"
  <2>1. \A q \in Paths \ {p} : obj'[q] = obj[q]
    BY <1>0, <1>1, <1>4
       DEF Reached, Effect, RenameTmp, Chmod, Chown, Unlink, MakeLink
  <2>2. CASE pc[p] = "rename"
    <3>1. obj'[p] = tmp[p] /\ WholeTmp(p)
      BY <1>0, <2>2 DEF Reached, Effect, RenameTmp, StepAt
    <3>2. CASE Kind[p] = "line"
      <4>1. /\ obj[p].type = "file"
            /\ tmp[p].content = Edit(obj[p].content)
            /\ obj[p].content \in Texts
        BY <1>0, <2>2, <3>1, <3>2 DEF StepAt, WholeTmp, Goal, ObjAt
      <4>2. Store!HasTheLine(tmp[p].content)
        BY <4>1, EditMakesLine DEF HasLine, Store!HasTheLine
      <4> QED
        BY <3>1, <3>2, <4>1, <4>2, EditMakesLine, <1>1, <1>2, <2>1
           DEF WholeTmp, Store!Change, Store!Replaces
    <3>3. CASE Kind[p] # "line"
      <4>1. Kind[p] \in {"file", "download"} /\ tmp[p].content = want[p] /\ TmpMode(p)
        BY <1>0, <2>2, <3>1, <3>3 DEF PhaseAt, StepAt, WholeTmp, Goal
      <4>2. Kind[p] = "file" => Owner[p] \in {"any", tmp[p].owner}
        BY <1>0, <2>2 DEF StepAt
      <4> QED
        BY <3>1, <4>1, <4>2, <1>1, <1>2, <2>1
           DEF WholeTmp, TmpMode, Store!Change, Store!Replaces, Store!ModeIs, Store!OwnerIs
    <3> QED
      BY <3>2, <3>3
  <2>3. CASE pc[p] \in {"setmode", "setowner"}
    <3>1. Kind[p] \in {"file", "dir"} /\ (Chmod(p) \/ Chown(p))
      BY <1>0, <2>3 DEF PhaseAt, Reached, Effect
    <3>2. /\ obj'[p].type = obj[p].type /\ obj'[p].content = obj[p].content
          /\ obj'[p].mode \in {obj[p].mode, Mode[p]}
          /\ obj'[p].owner \in {obj[p].owner, Owner[p]}
      BY <1>0, <3>1 DEF Chmod, Chown, Objects
    <3> QED
      BY <1>1, <1>2, <2>1, <3>1, <3>2 DEF Store!Change, Store!Adjusts
  <2>4. CASE pc[p] = "unlink"
    <3>1. Kind[p] \in {"link", "absent"} /\ Unlink(p)
      BY <1>0, <2>4 DEF PhaseAt, Reached, Effect
    <3>2. obj[p].type # "dir" /\ obj'[p] = Gone
      BY <1>0, <3>1 DEF Unlink, Undeletable
    <3> QED
      BY <1>1, <1>2, <2>1, <3>1, <3>2 DEF Store!Change, Store!Removes
  <2>5. CASE pc[p] = "symlink"
    <3>1. Kind[p] = "link" /\ obj'[p].type = "link" /\ obj'[p].content = want[p]
      BY <1>0, <2>5 DEF Reached, Effect, MakeLink, PhaseAt
    <3>2. obj[p].type = "none"
      BY <1>0, <2>5 DEF StepAt
    <3> QED
      BY <1>1, <1>2, <2>1, <3>1, <3>2 DEF Store!Change, Store!Links
  <2> QED
    BY <1>1, <1>4, <2>2, <2>3, <2>4, <2>5
<1> QED
  BY <1>3, <1>4

\* Each step of the tasks is a step of HostPaths, or changes nothing it has.
LEMMA StepIsStoreStep ==
    ASSUME IInv, [Next]_vars
    PROVE  [Store!Next]_(Store!vars)
<1>1. CASE Start
  BY <1>1 DEF Start, diskVars, Store!Next, Store!Begin
<1>2. CASE \E p \in Paths : Lookup(p) \/ Sense(p) \/ Fails(p)
  BY <1>2 DEF Lookup, Sense, Fails, diskVars, Store!vars
<1>3. CASE \E p \in Paths : Write(p) \/ Dropped(p)
  <2>1. PICK p \in Paths : Write(p) \/ Dropped(p)
    BY <1>3
  <2>2. phase \in {"run", "failed"} /\ UNCHANGED <<plan, phase, mode, want>>
    BY <2>1 DEF Write, Dropped
  <2>3. CASE obj' = obj
    BY <2>2, <2>3 DEF Store!vars
  <2>4. CASE obj' # obj
    <3>1. Reached(p)
      BY <2>1, <2>4 DEF Write, Dropped, Reached, diskVars
    <3> QED
      BY <2>2, <2>4, <3>1, EffectIsChange DEF Store!Next
  <2> QED
    BY <2>3, <2>4
<1>4. CASE Finish
  <2>1. mode = "Apply" => \A p \in plan : Store!AsAsked(p)
    BY <1>4, PromisedIsAsAsked, PlanAssumption DEF Finish, IInv, DoneInv, TypeOK
  <2> QED
    BY <1>4, <2>1 DEF Finish, diskVars, Store!Next, Store!Succeed
<1>5. CASE Stop
  BY <1>5 DEF Stop, diskVars, Store!Next, Store!Fail
<1>6. CASE Exit
  BY <1>6 DEF Exit, diskVars, Store!Next, Store!End
<1>7. CASE \E p \in Paths : Drift(p)
  BY <1>7 DEF Drift, Store!Next, Store!Others
<1>8. CASE UNCHANGED vars
  BY <1>8 DEF vars, runVars, diskVars, Store!vars
<1> QED
  BY <1>1, <1>2, <1>3, <1>4, <1>5, <1>6, <1>7, <1>8 DEF Next

\* At the paths themselves the file backends, with their temporary files,
\* failures and drops, do what HostPaths allows and nothing else.
THEOREM FilesImplementHostPaths == Spec => ImplementsHostPaths
<1>1. Init => Store!Init
  BY DEF Init, Store!Init
<1>2. IInv /\ [Next]_vars => [Store!Next]_(Store!vars)
  BY StepIsStoreStep
<1> QED
  BY <1>1, <1>2, Invariant, PTL DEF Spec, ImplementsHostPaths, Store!Spec

=============================================================================
