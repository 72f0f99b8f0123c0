-------------------------- MODULE UnitFiles_proofs --------------------------
(***************************************************************************)
(* Proofs about SystemdUnit and Service, for any units, contents, modes    *)
(* and number of runs.                                                     *)
(*                                                                         *)
(* One lemma per action shows that it preserves each part of the inductive *)
(* invariant IInv of UnitFiles; EffectTypes, about what an await does to   *)
(* the host, is used by every action that performs one.                    *)
(***************************************************************************)
EXTENDS UnitFiles, TLAPS

\* What the host keeps is well-formed; no unit file is half written.
HostTypes ==
    /\ file \in [Units -> {f \in Files : f.content # "partial"}]
    /\ tmp \in [Units -> Files]
    /\ loaded \in [Units -> Contents \ {"partial"}]
    /\ running \in [Units -> Contents \cup {"down"}]
    /\ enabled \in [Units -> BOOLEAN]

\* Whatever an await does to the host, the host keeps its type: only a
\* temporary file with the whole content is renamed.
LEMMA EffectTypes ==
    ASSUME TypeOK, TmpInv, NEW u \in Units, Effect(u)
    PROVE  HostTypes'
<1> USE DEF HostTypes
<1>1. HostTypes /\ want \in [Units -> Versions] /\ pc \in [Units -> InFlight \cup {"end", "error", "cut"}]
  BY DEF TypeOK
<1>2. \A v \in Versions : v \in Contents \ {"partial"}
  BY VersionsAssumption DEF Contents
<1>3. CASE pc[u] \in {"read", "sense"} /\ UNCHANGED <<diskVars, sysVars>>
  BY <1>1, <1>3 DEF diskVars, sysVars
<1>4. CASE pc[u] = "inplace" /\ ChmodInPlace(u)
  <2>1. [file[u] EXCEPT !.mode = Want] \in {f \in Files : f.content # "partial"}
    BY <1>1, ModesAssumption DEF Files
  <2> QED
    BY <1>1, <1>4, <2>1 DEF ChmodInPlace, sysVars
<1>5. CASE pc[u] = "create" /\ CreateTmp(u)
  <2>1. PICK m \in IF tmp[u] = Absent THEN Umasked ELSE {tmp[u].mode} :
            tmp' = [tmp EXCEPT ![u] = [content |-> "partial", mode |-> m]]
    BY <1>5 DEF CreateTmp
  <2>2. m \in Modes \cup {"none"}
    BY <1>1, <2>1, ModesAssumption DEF Files
  <2>3. [content |-> "partial", mode |-> m] \in Files
    BY <2>2 DEF Files, Contents
  <2> QED
    BY <1>1, <1>5, <2>1, <2>3 DEF CreateTmp, sysVars
<1>6. CASE pc[u] = "write" /\ WriteTmp(u)
  <2>1. [tmp[u] EXCEPT !.content = want[u]] \in Files
    BY <1>1, <1>2 DEF Files
  <2> QED
    BY <1>1, <1>6, <2>1 DEF WriteTmp, sysVars
<1>7. CASE pc[u] = "chmod" /\ ChmodTmp(u)
  <2>1. [tmp[u] EXCEPT !.mode = Want] \in Files
    BY <1>1, ModesAssumption DEF Files
  <2> QED
    BY <1>1, <1>7, <2>1 DEF ChmodTmp, sysVars
<1>8. CASE pc[u] = "rename" /\ RenameTmp(u)
  <2>1. tmp[u] \in Files /\ tmp[u].content # "partial"
    BY <1>1, <1>2, <1>8 DEF TmpInv, Installed
  <2>2. Absent \in Files
    BY DEF Absent, Files, Contents
  <2> QED
    BY <1>1, <1>8, <2>1, <2>2 DEF RenameTmp, sysVars
<1>9. \A w \in Units : file[w].content \in Contents \ {"partial"}
  BY <1>1 DEF Files
<1>10. CASE pc[u] = "reload" /\ DaemonReload
  BY <1>1, <1>9, <1>10 DEF DaemonReload, LoadAll, diskVars
<1>11. CASE pc[u] = "enable" /\ Enable(u)
  BY <1>1, <1>9, <1>11 DEF Enable, LoadAll, diskVars
<1>12. CASE pc[u] \in {"restart", "start"} /\ StartUnit(u)
  <2>1. StartFrom(u) \in Contents \ {"partial"}
    BY <1>1, <1>9 DEF StartFrom
  <2> QED
    BY <1>1, <1>12, <2>1 DEF StartUnit, diskVars
<1> QED
  BY <1>3, <1>4, <1>5, <1>6, <1>7, <1>8, <1>10, <1>11, <1>12 DEF Effect

LEMMA StartStep ==
    ASSUME IInv, Start
    PROVE  IInv'
<1>1. TypeOK'
  BY DEF IInv, TypeOK, Start, diskVars, sysVars, InFlight, Writing
<1>2. PhaseInv'
  BY DEF IInv, PhaseInv, Start
<1>3. TmpInv'
  BY DEF IInv, TmpInv, Start
<1>4. FileInv'
  BY DEF IInv, FileInv, Start, Starting, DealtWith
<1>5. ServiceInv'
  BY DEF IInv, ServiceInv, Start, Served
<1>6. CleanInv'
  BY DEF IInv, PhaseInv, CleanInv, Start, diskVars, sysVars, Served, Untouched,
         Settled
<1> QED
  BY <1>1, <1>2, <1>3, <1>4, <1>5, <1>6 DEF IInv

LEMMA ReadFileStep ==
    ASSUME IInv, NEW u \in Units, ReadFile(u)
    PROVE  IInv'
<1>1. TypeOK'
  BY DEF IInv, TypeOK, ReadFile, diskVars, sysVars, InFlight, Writing, Starting
<1>2. PhaseInv'
  BY DEF IInv, TypeOK, PhaseInv, ReadFile, Writing
<1>3. TmpInv'
  BY DEF IInv, TmpInv, ReadFile, diskVars, Installed
<1>4. FileInv'
  BY DEF IInv, PhaseInv, FileInv, ReadFile, Matches, diskVars, sysVars,
         Installed, Starting, DealtWith
<1>5. ServiceInv'
  BY DEF IInv, ServiceInv, ReadFile, sysVars, Served
<1>6. CleanInv'
  BY DEF IInv, PhaseInv, CleanInv, ReadFile, diskVars, sysVars, Served,
         Untouched, Settled
<1> QED
  BY <1>1, <1>2, <1>3, <1>4, <1>5, <1>6 DEF IInv

LEMMA WriteStepStep ==
    ASSUME IInv, NEW u \in Units, WriteStep(u)
    PROVE  IInv'
<1>1. TypeOK'
  <2>1. HostTypes'
    BY EffectTypes DEF IInv, WriteStep
  <2>2. After[pc[u]] \in InFlight \cup {"end", "error", "cut"}
    BY DEF WriteStep, After, InFlight, Writing, Starting
  <2> QED
    BY <2>1, <2>2 DEF IInv, TypeOK, HostTypes, WriteStep
<1>2. PhaseInv'
  BY DEF IInv, PhaseInv, WriteStep, After, Writing
<1>3. TmpInv'
  BY DEF IInv, TypeOK, TmpInv, WriteStep, After, Effect, diskVars,
         ChmodInPlace, CreateTmp, WriteTmp, ChmodTmp, RenameTmp, DaemonReload,
         Files, Installed
<1>4. FileInv'
  BY DEF IInv, TypeOK, TmpInv, FileInv, WriteStep, After, Effect, diskVars,
         sysVars, ChmodInPlace, CreateTmp, WriteTmp, ChmodTmp, RenameTmp,
         DaemonReload, LoadAll, Files, Starting, Installed, DealtWith
<1>5. ServiceInv'
  BY DEF IInv, ServiceInv, WriteStep, After, Effect, sysVars, ChmodInPlace,
         CreateTmp, WriteTmp, ChmodTmp, RenameTmp, DaemonReload, Served
<1>6. CleanInv'
  <2> SUFFICES ASSUME clean, NEW w \in Units
               PROVE  /\ Untouched(w)' => Settled(w)'
                      /\ mode = "Apply" /\ Served(w)'
                             => loaded'[w] = want[w] /\ running'[w] = want[w]
    BY DEF CleanInv, WriteStep
  <2>1. mode = "Apply" /\ u \in changed /\ phase = "run" /\ clean
    BY DEF IInv, TypeOK, PhaseInv, WriteStep, After, Writing
  <2>2. CASE w = u
    <3>1. Untouched(w)' => pc[u] \in {"create", "write", "chmod"}
      BY <2>1, <2>2 DEF IInv, TypeOK, Untouched, WriteStep, After
    <3>2. pc[u] \in {"create", "write", "chmod"} => UNCHANGED <<file, loaded, running>>
      BY DEF WriteStep, Effect, CreateTmp, WriteTmp, ChmodTmp, sysVars
    <3>3. pc[u] \in {"create", "write", "chmod"} => Settled(u)
      BY <2>1 DEF IInv, CleanInv, Untouched
    <3>4. ~Served(w)'
      BY <2>1, <2>2 DEF IInv, TypeOK, Served, WriteStep, After
    <3> QED
      BY <2>2, <3>1, <3>2, <3>3, <3>4 DEF Settled
  <2>3. CASE w # u
    <3>1. (Untouched(w)' => Settled(w)) /\ (Served(w)' => Served(w))
      BY <2>3 DEF IInv, TypeOK, CleanInv, Untouched, Served, WriteStep
    <3>2. /\ file'[w] = file[w] /\ running' = running
          /\ loaded'[w] \in {loaded[w], file[w].content}
      BY <2>3 DEF IInv, TypeOK, WriteStep, Effect, After, ChmodInPlace, CreateTmp, WriteTmp,
         ChmodTmp, RenameTmp, DaemonReload, LoadAll, sysVars, diskVars
    <3>3. Served(w) => /\ file[w].content = want[w]
                       /\ loaded[w] = want[w] /\ running[w] = want[w]
      <4>1. Served(w) => DealtWith(w)
        BY DEF Served, DealtWith
      <4>2. DealtWith(w) => file[w] = Installed(w)
        BY <2>1 DEF IInv, FileInv
      <4>3. Served(w) => loaded[w] = want[w] /\ running[w] = want[w]
        BY <2>1 DEF IInv, CleanInv
      <4> QED
        BY <4>1, <4>2, <4>3 DEF Installed
    <3> QED
      BY <3>1, <3>2, <3>3 DEF Settled
  <2> QED
    BY <2>2, <2>3
<1> QED
  BY <1>1, <1>2, <1>3, <1>4, <1>5, <1>6 DEF IInv

LEMMA SenseServiceStep ==
    ASSUME IInv, NEW u \in Units, SenseService(u)
    PROVE  IInv'
<1>1. TypeOK'
  BY DEF IInv, TypeOK, SenseService, Verb, diskVars, sysVars, InFlight,
         Starting
<1>2. PhaseInv'
  BY DEF IInv, PhaseInv, SenseService, Verb, Writing, Starting, InFlight
<1>3. TmpInv'
  BY DEF IInv, TmpInv, SenseService, Verb, diskVars, Installed
<1>4. FileInv'
  BY DEF IInv, FileInv, SenseService, Verb, diskVars, sysVars, Starting,
         Installed, DealtWith
<1>5. ServiceInv'
  BY DEF IInv, TypeOK, ServiceInv, SenseService, Verb, sysVars, Served
<1>6. CleanInv'
  BY DEF IInv, TypeOK, FileInv, CleanInv, SenseService, Verb, diskVars,
         sysVars, Starting, Installed, DealtWith, Served, Untouched, Settled
<1> QED
  BY <1>1, <1>2, <1>3, <1>4, <1>5, <1>6 DEF IInv

LEMMA ServiceStepStep ==
    ASSUME IInv, NEW u \in Units, ServiceStep(u)
    PROVE  IInv'
<1>1. TypeOK'
  <2>1. HostTypes'
    BY EffectTypes DEF IInv, ServiceStep
  <2>2. verb[u] # "none" => verb[u] \in InFlight
    BY DEF IInv, TypeOK, InFlight, Starting
  <2> QED
    BY <2>1, <2>2 DEF IInv, TypeOK, HostTypes, ServiceStep
<1>2. PhaseInv'
  BY DEF IInv, TypeOK, PhaseInv, ServiceStep, InFlight, Writing
<1>3. TmpInv'
  BY DEF IInv, TypeOK, TmpInv, ServiceStep, Effect, diskVars, WriteTmp, Enable,
         StartUnit, Installed
<1>4. FileInv'
  BY DEF IInv, TypeOK, FileInv, ServiceStep, Effect, diskVars, Enable,
         StartUnit, LoadAll, StartFrom, Starting, Installed, DealtWith
<1>5. ServiceInv'
  BY VersionsAssumption DEF IInv, TypeOK, ServiceInv, ServiceStep, Effect,
         CreateTmp, ChmodTmp, Enable, StartUnit, Absent, StartFrom, InFlight,
         Files, Contents, Writing, Starting, Served
<1>6. CleanInv'
  BY VersionsAssumption DEF IInv, TypeOK, FileInv, ServiceInv, CleanInv,
         ServiceStep, Effect, diskVars, sysVars, ChmodInPlace, CreateTmp,
         WriteTmp, ChmodTmp, DaemonReload, Enable, StartUnit, Absent, LoadAll,
         StartFrom, InFlight, Starting, Installed, DealtWith, Served,
         Untouched, Settled
<1> QED
  BY <1>1, <1>2, <1>3, <1>4, <1>5, <1>6 DEF IInv

LEMMA FinishStep ==
    ASSUME IInv, Finish
    PROVE  IInv'
<1>1. TypeOK'
  BY DEF IInv, TypeOK, Finish, diskVars, sysVars
<1>2. PhaseInv'
  BY DEF IInv, PhaseInv, Finish, Writing, Starting, InFlight
<1>3. TmpInv'
  BY DEF IInv, TmpInv, Finish
<1>4. FileInv'
  BY DEF IInv, FileInv, Finish, diskVars, sysVars, Installed, DealtWith
<1>5. ServiceInv'
  BY DEF IInv, ServiceInv, Finish, sysVars, Served
<1>6. CleanInv'
  BY DEF IInv, CleanInv, Finish, diskVars, sysVars, Served, Untouched, Settled
<1> QED
  BY <1>1, <1>2, <1>3, <1>4, <1>5, <1>6 DEF IInv

LEMMA FailsStep ==
    ASSUME IInv, NEW u \in Units, Fails(u)
    PROVE  IInv'
<1>1. TypeOK'
  <2>1. HostTypes'
    BY EffectTypes DEF IInv, Fails, TypeOK, HostTypes, diskVars, sysVars
  <2> QED
    BY <2>1 DEF IInv, TypeOK, HostTypes, Fails
<1>2. PhaseInv'
  BY DEF IInv, PhaseInv, Fails, Writing
<1>3. TmpInv'
  BY DEF IInv, TmpInv, Fails, Effect, diskVars, DaemonReload, Enable,
         StartUnit, Installed
<1>4. FileInv'
  BY DEF IInv, TypeOK, FileInv, Fails, Effect, diskVars, sysVars, Starting,
         DaemonReload, Enable, StartUnit, LoadAll, Installed, DealtWith
<1>5. ServiceInv'
  BY DEF IInv, TypeOK, ServiceInv, Fails, Effect, sysVars, DaemonReload,
         Enable, StartUnit, Served
<1>6. CleanInv'
  BY DEF IInv, TypeOK, FileInv, CleanInv, Fails, Effect, diskVars, sysVars,
         DaemonReload, Enable, StartUnit, LoadAll, StartFrom, Installed,
         DealtWith, Served, Untouched, Settled
<1> QED
  BY <1>1, <1>2, <1>3, <1>4, <1>5, <1>6 DEF IInv

LEMMA JoinErrorStep ==
    ASSUME IInv, JoinError
    PROVE  IInv'
<1>1. TypeOK'
  BY DEF IInv, TypeOK, JoinError, Failed, diskVars, sysVars
<1>2. PhaseInv'
  BY DEF IInv, PhaseInv, JoinError, Failed
<1>3. TmpInv'
  BY DEF IInv, TmpInv, JoinError, diskVars, Installed
<1>4. FileInv'
  BY DEF IInv, FileInv, JoinError, Failed, diskVars, Installed, DealtWith
<1>5. ServiceInv'
  BY DEF IInv, ServiceInv, JoinError, Failed, Served
<1>6. CleanInv'
  BY DEF IInv, CleanInv, JoinError, Failed, diskVars, sysVars, Untouched,
         Settled
<1> QED
  BY <1>1, <1>2, <1>3, <1>4, <1>5, <1>6 DEF IInv

LEMMA KillStep ==
    ASSUME IInv, Kill
    PROVE  IInv'
<1>1. TypeOK'
  BY DEF IInv, TypeOK, Kill, Failed, diskVars, sysVars
<1>2. PhaseInv'
  BY DEF IInv, PhaseInv, Kill, Failed
<1>3. TmpInv'
  BY DEF IInv, TmpInv, Kill, diskVars, Installed
<1>4. FileInv'
  BY DEF IInv, FileInv, Kill, Failed, diskVars, Installed, DealtWith
<1>5. ServiceInv'
  BY DEF IInv, ServiceInv, Kill, Failed, Served
<1>6. CleanInv'
  BY DEF IInv, CleanInv, Kill, Failed, diskVars, sysVars, Untouched, Settled
<1> QED
  BY <1>1, <1>2, <1>3, <1>4, <1>5, <1>6 DEF IInv

LEMMA DroppedStep ==
    ASSUME IInv, NEW u \in Units, Dropped(u)
    PROVE  IInv'
<1>1. TypeOK'
  <2>1. HostTypes'
    BY EffectTypes DEF IInv, Dropped, TypeOK, HostTypes, diskVars, sysVars
  <2> QED
    BY <2>1 DEF IInv, TypeOK, HostTypes, Dropped
<1>2. PhaseInv'
  BY DEF IInv, PhaseInv, Dropped, Writing
<1>3. TmpInv'
  BY DEF IInv, TypeOK, TmpInv, Dropped, Effect, diskVars, ChmodInPlace,
         CreateTmp, WriteTmp, ChmodTmp, RenameTmp, DaemonReload, Enable,
         StartUnit, Installed
<1>4. FileInv'
  BY DEF IInv, TypeOK, FileInv, Dropped, Effect, diskVars, ChmodInPlace,
         CreateTmp, WriteTmp, ChmodTmp, RenameTmp, DaemonReload, Enable,
         StartUnit, Installed, DealtWith
<1>5. ServiceInv'
  BY DEF IInv, ServiceInv, Dropped, Served
<1>6. CleanInv'
  BY DEF IInv, PhaseInv, CleanInv, Dropped, Effect, diskVars, sysVars,
         Untouched, Settled
<1> QED
  BY <1>1, <1>2, <1>3, <1>4, <1>5, <1>6 DEF IInv

LEMMA ExitStep ==
    ASSUME IInv, Exit
    PROVE  IInv'
<1>1. TypeOK'
  BY DEF IInv, TypeOK, Exit, diskVars, sysVars
<1>2. PhaseInv'
  BY DEF IInv, PhaseInv, Exit, Writing, Starting, InFlight
<1>3. TmpInv'
  BY DEF IInv, TmpInv, Exit
<1>4. FileInv'
  BY DEF IInv, FileInv, Exit, DealtWith
<1>5. ServiceInv'
  BY DEF IInv, ServiceInv, Exit, Served
<1>6. CleanInv'
  BY DEF IInv, TypeOK, FileInv, CleanInv, Exit, diskVars, sysVars, Installed,
         DealtWith, Served, Untouched, Settled
<1> QED
  BY <1>1, <1>2, <1>3, <1>4, <1>5, <1>6 DEF IInv

LEMMA DriftStep ==
    ASSUME IInv, NEW u \in Units, Drift(u)
    PROVE  IInv'
<1>1. TypeOK'
  <2>1. file[u] \in Files /\ file[u].content # "partial"
    BY DEF IInv, TypeOK
  <2>2. \A m \in Modes, c \in {"edited", file[u].content} :
            [content |-> c, mode |-> m] \in Files /\ [content |-> c, mode |-> m].content # "partial"
    BY <2>1 DEF Files, Contents
  <2>3. Absent \in Files /\ Absent.content # "partial"
    BY DEF Absent, Files, Contents
  <2>4. \A f \in {Absent} \cup {[content |-> "edited", mode |-> m] : m \in Modes}
                     \cup {[content |-> file[u].content, mode |-> m] : m \in Modes} :
            f \in Files /\ f.content # "partial"
    <3> TAKE f \in {Absent} \cup {[content |-> "edited", mode |-> m] : m \in Modes}
                     \cup {[content |-> file[u].content, mode |-> m] : m \in Modes}
    <3>1. CASE f = Absent
      BY <2>3, <3>1
    <3>2. CASE f # Absent
      <4>1. PICK m \in Modes, c \in {"edited", file[u].content} :
                f = [content |-> c, mode |-> m]
        BY <3>2
      <4> QED
        BY <2>2, <4>1
    <3> QED
      BY <3>1, <3>2
  <2>5. file' \in [Units -> {f \in Files : f.content # "partial"}]
    BY <2>4 DEF IInv, TypeOK, Drift, diskVars
  <2> QED
    BY <2>5 DEF IInv, TypeOK, Drift, runVars, diskVars, sysVars
<1>2. PhaseInv'
  BY DEF IInv, PhaseInv, Drift, runVars
<1>3. TmpInv'
  BY DEF IInv, TmpInv, PhaseInv, Drift, runVars
<1>4. FileInv'
  BY DEF IInv, PhaseInv, FileInv, Drift, runVars, DealtWith
<1>5. ServiceInv'
  BY DEF IInv, ServiceInv, Drift, runVars, Served
<1>6. CleanInv'
  <2> SUFFICES ASSUME clean, NEW w \in Units
               PROVE  Settled(w)'
    BY DEF CleanInv, Drift, runVars, Served
  <2>1. Settled(w)
    BY DEF IInv, CleanInv, PhaseInv, Untouched, Drift
  <2>2. file \in [Units -> Files] /\ running \in [Units -> Contents \cup {"down"}]
    BY DEF IInv, TypeOK
  <2>3. ASSUME NEW f \in {Absent} \cup {[content |-> "edited", mode |-> m] : m \in Modes}
                         \cup {[content |-> file[u].content, mode |-> m] : m \in Modes},
               file' = [file EXCEPT ![u] = f], UNCHANGED sysVars
        PROVE  Settled(w)'
    <3>1. f.content \in {"absent", "edited", file[u].content}
      BY <2>3 DEF Absent
    <3>2. file'[w].content \in Versions => file'[w].content = file[w].content
      BY <2>2, <2>3, <3>1, VersionsAssumption
    <3> QED
      BY <2>1, <2>3, <3>2 DEF Settled, sysVars
  <2>4. CASE running' = [running EXCEPT ![u] = "down"] /\ UNCHANGED <<diskVars, loaded, enabled>>
    BY <2>1, <2>2, <2>4 DEF Settled, diskVars
  <2> QED
    BY <2>3, <2>4 DEF Drift
<1> QED
  BY <1>1, <1>2, <1>3, <1>4, <1>5, <1>6 DEF IInv

LEMMA RebootStep ==
    ASSUME IInv, Reboot
    PROVE  IInv'
<1>1. TypeOK'
  BY DEF IInv, TypeOK, Reboot, LoadAll, runVars, diskVars, Files
<1>2. PhaseInv'
  BY DEF IInv, PhaseInv, Reboot, runVars
<1>3. TmpInv'
  BY DEF IInv, TmpInv, Reboot, runVars, diskVars, Installed
<1>4. FileInv'
  BY DEF IInv, FileInv, Reboot, runVars, diskVars, Installed, DealtWith
<1>5. ServiceInv'
  BY DEF IInv, ServiceInv, Reboot, runVars, Served
<1>6. CleanInv'
  BY DEF IInv, CleanInv, Reboot, LoadAll, runVars, diskVars, Served, Settled
<1> QED
  BY <1>1, <1>2, <1>3, <1>4, <1>5, <1>6 DEF IInv

LEMMA ForgetStep ==
    ASSUME IInv, NEW u \in Units, Forget(u)
    PROVE  IInv'
<1>1. TypeOK'
  BY DEF IInv, TypeOK, Forget, runVars, diskVars, Contents
<1>2. PhaseInv'
  BY DEF IInv, PhaseInv, Forget, runVars
<1>3. TmpInv'
  BY DEF IInv, TmpInv, Forget, runVars, diskVars, Installed
<1>4. FileInv'
  BY DEF IInv, FileInv, Forget, runVars, diskVars, Installed, DealtWith
<1>5. ServiceInv'
  BY DEF IInv, ServiceInv, Forget, runVars, Served
<1>6. CleanInv'
  BY DEF IInv, ServiceInv, CleanInv, Forget, runVars, diskVars, Served,
         Untouched, Settled
<1> QED
  BY <1>1, <1>2, <1>3, <1>4, <1>5, <1>6 DEF IInv

-----------------------------------------------------------------------------
(* The invariant is inductive.                                             *)

LEMMA InitIInv == Init => IInv
<1> SUFFICES ASSUME Init
             PROVE  IInv
  OBVIOUS
<1>1. PICK c \in [Units -> Versions \cup {"absent"}] :
          /\ file = [u \in Units |-> IF c[u] = "absent" THEN Absent
                                     ELSE [content |-> c[u], mode |-> Want]]
          /\ loaded = c
          /\ running = [u \in Units |-> IF c[u] = "absent" THEN "down" ELSE c[u]]
          /\ enabled = [u \in Units |-> c[u] # "absent"]
  BY DEF Init, Host0
<1>2. \A u \in Units : c[u] \in Contents \ {"partial"}
  BY <1>1, VersionsAssumption DEF Contents
<1>3. Absent \in Files /\ Absent.content = "absent"
  BY DEF Absent, Files, Contents
<1>4. \A u \in Units : /\ [content |-> c[u], mode |-> Want] \in Files
                       /\ [content |-> c[u], mode |-> Want].content # "partial"
  BY <1>2, ModesAssumption DEF Files
<1>5. file \in [Units -> {f \in Files : f.content # "partial"}]
  BY <1>1, <1>3, <1>4
<1>6. TypeOK
  BY <1>1, <1>2, <1>3, <1>5 DEF Init, TypeOK
<1>7. PhaseInv /\ TmpInv /\ FileInv /\ ServiceInv
  BY DEF Init, PhaseInv, TmpInv, FileInv, ServiceInv, DealtWith, Served, InFlight, Writing, Starting
<1>8. \A u \in Units : Settled(u)
  BY <1>1, <1>3 DEF Settled
<1>9. CleanInv
  BY <1>8 DEF Init, CleanInv, Served
<1> QED
  BY <1>6, <1>7, <1>9 DEF IInv

LEMMA StutterIInv ==
    ASSUME IInv, UNCHANGED vars
    PROVE  IInv'
BY DEF IInv, TypeOK, PhaseInv, TmpInv, FileInv, ServiceInv, CleanInv, DealtWith, Served,
       Settled, Untouched, Installed, vars, runVars, diskVars, sysVars

LEMMA NextIInv == IInv /\ [Next]_vars => IInv'
<1> SUFFICES ASSUME IInv, [Next]_vars
             PROVE  IInv'
  OBVIOUS
<1>1. CASE UNCHANGED vars
  BY <1>1, StutterIInv
<1>2. CASE Start \/ Finish \/ JoinError \/ Kill \/ Exit \/ Reboot
  BY <1>2, StartStep, FinishStep, JoinErrorStep, KillStep, ExitStep, RebootStep
<1>3. ASSUME NEW u \in Units,
             ReadFile(u) \/ WriteStep(u) \/ SenseService(u) \/ ServiceStep(u)
      PROVE  IInv'
  BY <1>3, ReadFileStep, WriteStepStep, SenseServiceStep, ServiceStepStep
<1>4. ASSUME NEW u \in Units, Fails(u) \/ Dropped(u) \/ Drift(u) \/ Forget(u)
      PROVE  IInv'
  BY <1>4, FailsStep, DroppedStep, DriftStep, ForgetStep
<1> QED
  BY <1>1, <1>2, <1>3, <1>4 DEF Next

LEMMA Invariant == Spec => []IInv
BY InitIInv, NextIInv, PTL DEF Spec

-----------------------------------------------------------------------------
(* The theorems.                                                           *)

\* Whatever happens to the runs and the host, every variable keeps its range;
\* no unit file ever holds part of a content.
THEOREM UnitTypeCorrect == Spec => []TypeOK
<1>1. IInv => TypeOK
  BY DEF IInv
<1> QED
  BY <1>1, Invariant, PTL

\* The program replaces the content of a unit file in one step, by a whole
\* version with the right mode, also in a task that is dropped or a process
\* that is killed, and over any temporary file an earlier run left.
THEOREM WritesAreWhole == Spec => WholeFileWrites
<1>1. ASSUME IInv, [Next]_vars
      PROVE  [\A u \in Units :
                 phase # "off" /\ file'[u].content # file[u].content
                     => file'[u] = Installed(u)]_vars
  <2> SUFFICES ASSUME Next, NEW u \in Units, phase # "off",
                      file'[u].content # file[u].content
               PROVE  file'[u] = Installed(u)
    BY <1>1
  <2>1. \/ \E w \in Units : Effect(w)
        \/ UNCHANGED file
    BY DEF Next, Start, ReadFile, WriteStep, SenseService, ServiceStep, Finish,
           Fails, JoinError, Kill, Dropped, Exit, Drift, Reboot, Forget, diskVars
  <2>2. PICK w \in Units : Effect(w)
    BY <2>1
  <2>3. /\ u \in DOMAIN file /\ w \in DOMAIN file /\ u \in DOMAIN tmp
        /\ file[w] = [content |-> file[w].content, mode |-> file[w].mode]
    BY <1>1 DEF IInv, TypeOK, Files
  <2>4. pc[w] = "rename" /\ RenameTmp(w)
    <3>1. CASE pc[w] = "inplace" /\ ChmodInPlace(w)
      BY <2>3, <3>1 DEF ChmodInPlace
    <3>2. CASE UNCHANGED file
      BY <3>2
    <3> QED
      BY <2>2, <3>1, <3>2 DEF Effect, CreateTmp, WriteTmp, ChmodTmp, DaemonReload, Enable,
         StartUnit, diskVars
  <2>5. w = u
    BY <2>3, <2>4 DEF RenameTmp
  <2>6. tmp[u] = Installed(u)
    BY <1>1, <2>4, <2>5 DEF IInv, TmpInv
  <2> QED
    BY <2>3, <2>4, <2>5, <2>6 DEF RenameTmp
<1> QED
  BY <1>1, Invariant, PTL DEF Spec, WholeFileWrites

\* A run that returns Ok has installed every unit file and has every unit
\* active and enabled, from whatever host it started on.
THEOREM OkMeansInstalled == Spec => []OkInstalled
<1>1. IInv => OkInstalled
  BY DEF IInv, FileInv, ServiceInv, OkInstalled, DealtWith, Served
<1> QED
  BY <1>1, Invariant, PTL

\* As long as no run has failed, a run that returns Ok leaves systemd going by
\* the configured units and running them.
THEOREM OkMeansRunning == Spec => []OkRuns
<1>1. IInv => OkRuns
  BY DEF IInv, CleanInv, OkRuns, Served
<1> QED
  BY <1>1, Invariant, PTL

\* A unit that a run starts or restarts after having changed its file runs what
\* the configuration asks.
THEOREM RestartsRunTheChange == Spec => RestartsAreFresh
<1>1. ASSUME IInv, [Next]_vars
      PROVE  [\A u \in changed :
                 pc[u] \in {"restart", "start"} /\ pc'[u] = "end"
                     => running'[u] = want[u]]_vars
  <2> SUFFICES ASSUME Next, NEW u \in changed, pc[u] \in {"restart", "start"}, pc'[u] = "end"
               PROVE  running'[u] = want[u]
    BY <1>1
  <2>1. u \in Units
    BY <1>1 DEF IInv, TypeOK
  <2>2. ServiceStep(u)
    BY <1>1, <2>1 DEF IInv, TypeOK, PhaseInv, InFlight, Starting, Next, Start, ReadFile, WriteStep,
           SenseService, ServiceStep, Finish, Fails, JoinError, Kill, Dropped,
           Exit, Drift, Reboot, Forget, After, runVars
  <2>3. mode = "Apply" /\ phase = "run"
    BY <1>1, <2>1, <2>2 DEF IInv, TypeOK, PhaseInv, ServiceStep
  <2>4. file[u].content = want[u] /\ loaded[u] \in {"absent", want[u]}
    <3>1. file[u] = Installed(u) /\ loaded[u] \in {"absent", want[u]}
      BY <1>1, <2>1, <2>3 DEF IInv, FileInv, DealtWith, Starting
    <3> QED
      BY <3>1 DEF Installed
  <2>5. running'[u] = StartFrom(u)
    <3>1. StartUnit(u)
      BY <2>2 DEF ServiceStep, Effect
    <3>2. u \in DOMAIN running
      BY <1>1, <2>1 DEF IInv, TypeOK
    <3> QED
      BY <3>1, <3>2 DEF StartUnit
  <2> QED
    BY <2>4, <2>5 DEF StartFrom
<1> QED
  BY <1>1, Invariant, PTL DEF Spec, RestartsAreFresh

=============================================================================
