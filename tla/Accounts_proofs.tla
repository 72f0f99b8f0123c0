--------------------------- MODULE Accounts_proofs ---------------------------
(***************************************************************************)
(* Proofs about User resources, for all users, groups and configurations.  *)
(*                                                                         *)
(* OkUsers is not inductive: it speaks of the end of a run, when nothing   *)
(* is sensed again.  The inductive invariant says of every user whose      *)
(* groups are not looked at again that they are complete, their password   *)
(* too unless it is about to be set (Complete), and which commands can be  *)
(* under way for whom (Progress).                                          *)
(***************************************************************************)
EXTENDS Accounts, TLAPS

\* The host and the users made in this run are well-formed.
HostTypes ==
    /\ created \in SUBSET exists
    /\ groups \in SUBSET Groups
    /\ member \in [Users -> SUBSET Groups]
    /\ exists \in SUBSET Users
    /\ secret \in [Users -> {"none", "hash", "own"}]
    /\ \A v \in Users \ exists : member[v] = {} /\ secret[v] = "none"

\* What a command does keeps the types, takes nothing from anybody, and leaves
\* its user complete, with the password that useradd gives or usermod -p sets.
LEMMA EffectKeeps ==
    ASSUME TypeOK, NEW u \in Users, Progress(u), Effect(u)
    PROVE  /\ HostTypes'
           /\ exists \subseteq exists' /\ created \subseteq created'
           /\ \A v \in Users \ {u} :
                  /\ member'[v] = member[v] /\ secret'[v] = secret[v]
                  /\ v \in created' <=> v \in created
                  /\ v \in exists' <=> v \in exists
           /\ pc[u] = "useradd" => u \in created' /\ secret[u] = "none"
           /\ pc[u] = "usermod" => u \notin created'
           /\ pc[u] = "passwd" => member' = member /\ secret'[u] = spec[u].password
           /\ pc[u] \in {"useradd", "usermod"} =>
                  u \in exists' /\ spec[u].groups \ member'[u] = {} /\ secret' = secret
<1>1. spec[u].groups \in SUBSET Groups /\ spec[u].password \in {"none", "hash"}
  BY ConfigsAssumption DEF TypeOK
<1>2. HostTypes
  BY DEF TypeOK, HostTypes
<1>3. CASE pc[u] = "useradd"
  BY <1>1, <1>2, <1>3 DEF HostTypes, Effect, Progress
<1>4. CASE pc[u] = "usermod"
  BY <1>1, <1>2, <1>4 DEF HostTypes, Effect, Progress
<1>5. CASE pc[u] = "passwd"
  <2>1. u \in created /\ u \in exists
    BY <1>2, <1>5 DEF HostTypes, Progress
  <2> QED
    BY <1>1, <1>2, <1>5, <2>1 DEF HostTypes, Effect
<1> QED
  BY <1>3, <1>4, <1>5 DEF Effect

-----------------------------------------------------------------------------
(* The invariant is inductive.                                             *)

LEMMA InitIInv == Init => IInv
BY DEF Init, IInv, TypeOK, Progress, Complete, InFlight

LEMMA StartStep == IInv /\ Start => IInv'
BY DEF IInv, Start, TypeOK, Progress, Complete, InFlight, hostVars

LEMMA SenseStep == ASSUME NEW u \in Users PROVE IInv /\ Sense(u) => IInv'
<1> SUFFICES ASSUME IInv, Sense(u) PROVE IInv'
  OBVIOUS
<1>1. TypeOK'
  BY DEF IInv, Sense, TypeOK, Todo, InFlight, hostVars
<1>2. ASSUME NEW v \in Users PROVE Progress(v)' /\ Complete(v)'
  BY DEF IInv, Sense, TypeOK, Progress, Complete, Missing, Todo, InFlight, hostVars
<1> QED
  BY <1>1, <1>2 DEF IInv

LEMMA CommandStep == ASSUME NEW u \in Users PROVE IInv /\ Command(u) => IInv'
<1> SUFFICES ASSUME IInv, Command(u) PROVE IInv'
  OBVIOUS
<1>1. /\ HostTypes'
      /\ exists \subseteq exists' /\ created \subseteq created'
      /\ \A v \in Users \ {u} :
             /\ member'[v] = member[v] /\ secret'[v] = secret[v]
             /\ v \in created' <=> v \in created
             /\ v \in exists' <=> v \in exists
      /\ pc[u] = "useradd" => u \in created' /\ secret[u] = "none"
      /\ pc[u] = "usermod" => u \notin created'
      /\ pc[u] = "passwd" => member' = member /\ secret'[u] = spec[u].password
      /\ pc[u] \in {"useradd", "usermod"} =>
             u \in exists' /\ spec[u].groups \ member'[u] = {} /\ secret' = secret
  BY EffectKeeps DEF IInv, Command
<1>2. TypeOK'
  BY <1>1 DEF IInv, Command, TypeOK, HostTypes, InFlight
<1>3. pc[u] \in {"useradd", "usermod", "passwd"} /\ phase = "users"
  BY DEF Command, Effect
<1>4. ASSUME NEW v \in Users \ {u} PROVE Progress(v)' /\ Complete(v)'
  BY <1>1, <1>4 DEF IInv, Command, TypeOK, Progress, Complete, Missing
<1>5. /\ pc'[u] \in {"passwd", "end"} /\ (pc'[u] = "passwd" => pc[u] = "useradd")
      /\ pc[u] = "useradd" /\ pc'[u] = "end" => spec[u].password = "none"
  BY DEF IInv, Command, TypeOK
<1>6. Progress(u)'
  BY <1>1, <1>3, <1>5 DEF IInv, Command, Progress
<1>7. Complete(u)'
  BY <1>1, <1>3, <1>5 DEF IInv, Command, Complete, Missing
<1> QED
  BY <1>2, <1>4, <1>6, <1>7 DEF IInv

\* A command that fails, or goes on after its task was dropped.
LEMMA CutStep ==
    ASSUME NEW u \in Users
    PROVE  IInv /\ (Fails(u) \/ Dropped(u)) => IInv'
<1> SUFFICES ASSUME IInv, Fails(u) \/ Dropped(u) PROVE IInv'
  OBVIOUS
<1>1. /\ HostTypes'
      /\ exists \subseteq exists' /\ created \subseteq created'
      /\ \A v \in Users \ {u} :
             /\ member'[v] = member[v] /\ secret'[v] = secret[v]
             /\ v \in created' <=> v \in created
             /\ v \in exists' <=> v \in exists
  <2>1. CASE Effect(u)
    BY <2>1, EffectKeeps DEF IInv
  <2>2. CASE NoEffect
    BY <2>2 DEF IInv, TypeOK, HostTypes, NoEffect, hostVars
  <2> QED
    BY <2>1, <2>2 DEF Fails, Dropped
<1>2. TypeOK'
  BY <1>1 DEF IInv, Fails, Dropped, TypeOK, HostTypes
<1>3. /\ pc' \in {[pc EXCEPT ![u] = "error"], [pc EXCEPT ![u] = "cut"]}
      /\ phase' = phase /\ mode' = mode /\ spec' = spec
      /\ pc'[u] = "cut" => phase = "failed"
  BY DEF IInv, Fails, Dropped, TypeOK
<1>4. ASSUME NEW v \in Users \ {u} PROVE Progress(v)' /\ Complete(v)'
  BY <1>1, <1>3, <1>4 DEF IInv, TypeOK, Progress, Complete, Missing
<1>5. Progress(u)' /\ Complete(u)'
  <2>1. pc'[u] \in {"error", "cut"} /\ phase \notin {"packages", "ok"}
    BY <1>3 DEF IInv, TypeOK, Fails, Dropped
  <2> QED
    BY <1>3, <2>1 DEF Progress, Complete, InFlight
<1> QED
  BY <1>2, <1>4, <1>5 DEF IInv

LEMMA PhaseStep == IInv /\ (UsersDone \/ Install \/ Finish \/ Stop \/ Exit) => IInv'
<1>1. IInv /\ Finish => IInv'
  BY DEF IInv, Finish, TypeOK, Progress, Complete, Missing, InFlight, hostVars
<1>2. IInv /\ Stop => IInv'
  BY DEF IInv, Stop, TypeOK, Progress, Complete, hostVars
<1>3. IInv /\ Exit => IInv'
  BY DEF IInv, Exit, TypeOK, Progress, Complete, InFlight, hostVars
<1>4. IInv /\ UsersDone => IInv'
  BY DEF IInv, UsersDone, TypeOK, Progress, Complete, Missing, InFlight, hostVars
<1>5. IInv /\ Install => IInv'
  BY ConfigsAssumption DEF IInv, Install, TypeOK, Progress, Complete, Missing
<1> QED
  BY <1>1, <1>2, <1>3, <1>4, <1>5

LEMMA DriftStep == ASSUME NEW u \in Users PROVE IInv /\ Drift(u) => IInv'
BY DEF IInv, Drift, TypeOK, Progress, Complete

LEMMA NextIInv == IInv /\ [Next]_vars => IInv'
<1>1. IInv /\ UNCHANGED vars => IInv'
  BY DEF IInv, TypeOK, Progress, Complete, Missing, vars, hostVars
<1> QED
  BY <1>1, StartStep, SenseStep, CommandStep, CutStep, PhaseStep, DriftStep DEF Next

LEMMA Invariant == Spec => []IInv
BY InitIInv, NextIInv, PTL DEF Spec

-----------------------------------------------------------------------------
(* The theorems.                                                           *)

\* Every variable keeps its range, and who does not exist has neither groups
\* nor a password.
THEOREM AccountTypeCorrect == Spec => []TypeOK
<1>1. IInv => TypeOK
  BY DEF IInv
<1> QED
  BY <1>1, Invariant, PTL

\* A run that returns Ok leaves every user in existence and in all its groups, and
\* with the configured password where it has created the user, whichever commands
\* of earlier runs failed, were cut off or went on.
THEOREM OkMeansComplete == Spec => []OkUsers
<1>1. IInv => OkUsers
  BY DEF IInv, OkUsers, Progress, Complete, InFlight
<1> QED
  BY <1>1, Invariant, PTL

\* The program never replaces the password of a user it has not created in the
\* same run.
THEOREM OwnPasswordsAreKept == Spec => PasswordsAreKept
<1>1. ASSUME IInv, [Next]_vars
      PROVE  [\A u \in Users : secret'[u] # secret[u] /\ phase # "off" => u \in created]_vars
  <2> SUFFICES ASSUME Next, NEW u \in Users, secret'[u] # secret[u], phase # "off"
               PROVE  u \in created
    BY <1>1
  <2>1. PICK w \in Users : Effect(w)
    BY DEF Next, Start, Sense, Command, UsersDone, Install, Finish, Fails, Stop, Dropped, Exit, Drift, NoEffect,
           hostVars
  <2>2. Progress(w)
    BY <1>1 DEF IInv
  <2>3. w = u /\ pc[w] = "passwd"
    BY <1>1, <2>1, <2>2, EffectKeeps DEF IInv, Effect
  <2> QED
    BY <2>2, <2>3 DEF Progress
<1> QED
  BY <1>1, Invariant, PTL DEF Spec, PasswordsAreKept

-----------------------------------------------------------------------------
(* What a run fails for.                                                   *)

LEMMA ErrorNext == IInv /\ ErrorInv /\ [Next]_vars => ErrorInv'
<1> SUFFICES ASSUME IInv, ErrorInv, [Next]_vars, ~MayFail
             PROVE  ErrorInv'
  BY DEF ErrorInv
<1>0. pc \in [Users -> InFlight \cup {"end", "error", "cut"}]
  BY DEF IInv, TypeOK
<1>1. CASE Start \/ Exit
  BY <1>1 DEF Start, Exit, ErrorInv
<1>2. ASSUME NEW u \in Users, NEW x, pc' = [pc EXCEPT ![u] = x], pc[u] # "error",
             UNCHANGED <<phase, spec, groups>>,
             x = "error" => phase = "users" /\ ~(spec[u].groups \subseteq groups)
      PROVE  ErrorInv'
  <2>1. pc'[u] = x /\ \A w \in Users : w # u => pc'[w] = pc[w]
    BY <1>0, <1>2
  <2> QED
    BY <1>2, <2>1 DEF ErrorInv
<1>3. ASSUME NEW u \in Users, Sense(u)
      PROVE  ErrorInv'
  <2> DEFINE x == IF mode = "DryRun" THEN "end" ELSE Todo(u)
  <2>1. x # "error" /\ pc[u] # "error" /\ pc' = [pc EXCEPT ![u] = x]
    BY <1>3 DEF Sense, Todo
  <2>2. UNCHANGED <<phase, spec, groups>>
    BY <1>3 DEF Sense, hostVars
  <2> HIDE DEF x
  <2> QED
    BY <1>2, <2>1, <2>2
<1>4. ASSUME NEW u \in Users, Command(u)
      PROVE  ErrorInv'
  <2>1. PICK x \in {"passwd", "end"} : pc' = [pc EXCEPT ![u] = x]
    BY <1>4 DEF Command
  <2>2. pc[u] # "error" /\ UNCHANGED <<phase, spec, groups>>
    BY <1>4 DEF Command, Effect
  <2> QED
    BY <1>2, <2>1, <2>2
<1>5. CASE UsersDone \/ Install \/ Finish
  BY <1>5 DEF UsersDone, Install, Finish, hostVars, ErrorInv
<1>6. ASSUME NEW u \in Users, Fails(u)
      PROVE  ErrorInv'
  <2>1. pc[u] # "error" /\ UNCHANGED <<phase, spec, groups>>
    BY <1>6 DEF Fails, Effect, NoEffect, hostVars, InFlight
  <2>2. ~(spec[u].groups \subseteq groups)
    BY <1>6 DEF Fails, Refused, Missing
  <2> QED
    BY <1>2, <1>6, <2>1, <2>2 DEF Fails
<1>7. CASE Stop
  BY <1>7 DEF Stop, hostVars, ErrorInv
<1>8. ASSUME NEW u \in Users, Dropped(u)
      PROVE  ErrorInv'
  <2>1. pc[u] # "error" /\ UNCHANGED <<phase, spec, groups>>
    BY <1>8 DEF Dropped, Effect, NoEffect, hostVars, InFlight
  <2> QED
    BY <1>2, <1>8, <2>1 DEF Dropped
<1>9. ASSUME NEW u \in Users, Drift(u)
      PROVE  ErrorInv'
  BY <1>9 DEF Drift, ErrorInv
<1>10. CASE UNCHANGED vars
  BY <1>10 DEF vars, hostVars, ErrorInv
<1> QED
  BY <1>1, <1>3, <1>4, <1>5, <1>6, <1>7, <1>8, <1>9, <1>10 DEF Next

\* Where nothing fails by itself, what stops a run is a group that is not there: a
\* user who is half made, by a run that was cut, never does.
THEOREM OnlyUnknownGroupsFail == Spec => []OnlyGroupsFail
<1>1. Init => ErrorInv
  BY DEF Init, ErrorInv
<1>2. ErrorInv => OnlyGroupsFail
  BY DEF ErrorInv, OnlyGroupsFail
<1> QED
  BY <1>1, <1>2, ErrorNext, Invariant, PTL DEF Spec

=============================================================================
