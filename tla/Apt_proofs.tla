----------------------------- MODULE Apt_proofs -----------------------------
(***************************************************************************)
(* Proofs about the apt batches, for any packages, dependencies, bound on  *)
(* the faults and number of runs: the variables' ranges, that an Ok run has*)
(* done its work, and that the batches' competition for dpkg's lock costs  *)
(* one run; then what a run fails for, that no process is stuck, and that  *)
(* all of them come to rest.                                               *)
(***************************************************************************)
EXTENDS Apt, FiniteSetTheorems, TLAPS

-----------------------------------------------------------------------------
(* What apt-get does to the packages of the two batches.                   *)

\* Whatever an apt-get is called with, it brings no package away from where its
\* batch wants it: what is installed for one batch is not what the other
\* removes.
LEMMA OpenShrinks ==
    ASSUME TypeOK, JobInv, NEW j \in jobs, JobWorks(j), NEW t \in Batches
    PROVE  Open(t)' \subseteq Open(t)
<1>0. /\ j.batch \in Batches /\ j.todo \subseteq Asked(j.batch)
      /\ status \in [Packages -> {"none", "half", "ii"}]
  BY DEF TypeOK, JobInv, Jobs
<1>1. PICK p \in Left(j.batch, j.todo) :
          status' = [status EXCEPT ![p] = IF @ # "half" THEN "half"
                                          ELSE IF j.batch = "install" THEN "ii" ELSE "none"]
  BY DEF JobWorks, Ready
<1>2. p \in Packages
  BY <1>1 DEF Left
<1>3. CASE j.batch = "install"
  <2>1. p \notin Unwanted /\ status[p] # "ii"
    BY <1>0, <1>1, <1>3, PackageAssumption DEF Left, Asked
  <2> QED
    BY <1>0, <1>1, <1>2, <1>3, <2>1, PackageAssumption DEF Open, Asked, Batches
<1>4. CASE j.batch = "remove"
  <2>1. p \notin Wanted
    BY <1>0, <1>1, <1>4, PackageAssumption DEF Left, Asked
  <2> QED
    BY <1>0, <1>1, <1>2, <1>4, <2>1, PackageAssumption DEF Open, Asked, Batches
<1> QED
  BY <1>0, <1>3, <1>4 DEF Batches

\* An apt-get that has nothing left has done what it was called with.
LEMMA NothingLeft ==
    ASSUME TypeOK, NEW t \in Batches, NEW s, Left(t, s) = {}
    PROVE  Open(t) \cap s = {}
BY PackageAssumption DEF Left, Open, Asked, Batches, TypeOK

\* The query finds what there is to do.
LEMMA FoundIsOpen ==
    ASSUME TypeOK, NEW t \in Batches
    PROVE  FoundToDo(t) = Open(t)
BY PackageAssumption DEF FoundToDo, Installed, Open, Asked, Batches, TypeOK

\* What keeps the packages keeps what is open.
LEMMA SameStatus ==
    ASSUME status' = status
    PROVE  \A t \in Batches : Open(t)' = Open(t)
BY DEF Open

-----------------------------------------------------------------------------
(* Types.                                                                  *)

LEMMA InitIInv == Init => IInv
<1> SUFFICES ASSUME Init
             PROVE  IInv
  OBVIOUS
<1>1. TypeOK
  <2>1. status \in [Packages -> {"none", "half", "ii"}]
    BY DEF Init
  <2>2. other \in BOOLEAN /\ interrupted \in BOOLEAN /\ alone \in BOOLEAN /\ ~other
    BY DEF Init
  <2>3. /\ pc \in [Batches -> {"query", "update", "spawn", "wait", "end", "error"}]
        /\ todo \in [Batches -> SUBSET Packages]
    BY DEF Init
  <2>4. losses \in Nat /\ faults \in 0 .. MaxFaults
    BY FaultAssumption DEF Init
  <2>5. phase = "off" /\ mode = "Apply" /\ jobs = {}
    BY DEF Init
  <2> QED
    BY <2>1, <2>2, <2>3, <2>4, <2>5 DEF TypeOK
<1>2. /\ phase = "off" /\ mode = "Apply" /\ jobs = {} /\ losses = 0 /\ faults = 0
      /\ \A t \in Batches : pc[t] = "end" /\ todo[t] = {}
  BY DEF Init
<1>3. JobInv /\ WorkInv
  BY <1>2 DEF JobInv, WorkInv
<1>4. LossInv
  BY <1>2 DEF LossInv
<1> QED
  BY <1>1, <1>3, <1>4 DEF IInv

LEMMA TypeNext ==
    ASSUME IInv, [Next]_vars
    PROVE  TypeOK'
<1> USE DEF IInv
<1>0. /\ "query" \in {"query", "update", "spawn", "wait", "end", "error"}
      /\ \A t \in Batches : FoundToDo(t) \subseteq Packages
  BY PackageAssumption DEF FoundToDo, Installed
<1>1. CASE \E m \in {"Apply", "DryRun"} : Start(m)
  <2>1. phase = "off" /\ phase' = "run" /\ mode' \in {"Apply", "DryRun"} /\ jobs' = jobs
    BY <1>1 DEF Start, hostVars
  <2>2. \A j \in jobs : ~j.mine
    BY <2>1 DEF JobInv, TypeOK, Jobs
  <2> QED
    BY <1>1, <2>1, <2>2 DEF Start, hostVars, TypeOK
<1>2. CASE \E t \in Batches : Query(t)
  <2>1. PICK t \in Batches : Query(t)
    BY <1>2
  <2>2. pc' \in [Batches -> {"query", "update", "spawn", "wait", "end", "error"}]
    BY <2>1 DEF Query, AfterQuery, TypeOK
  <2>3. todo' \in [Batches -> SUBSET Packages]
    BY <1>0, <2>1 DEF Query, TypeOK
  <2> QED
    BY <2>1, <2>2, <2>3 DEF Query, hostVars, TypeOK
<1>3. CASE \E t \in Batches : Update(t) \/ Spawn(t) \/ TaskFails(t)
  <2>1. PICK t \in Batches : Update(t) \/ Spawn(t) \/ TaskFails(t)
    BY <1>3
  <2>2. pc' \in [Batches -> {"query", "update", "spawn", "wait", "end", "error"}]
    BY <2>1 DEF Update, Spawn, TaskFails, TypeOK
  <2>3. faults' \in 0 .. MaxFaults
    BY <2>1, FaultAssumption DEF Update, Spawn, TaskFails, Fault, TypeOK
  <2>4. CASE Spawn(t)
    <3> DEFINE n == [batch |-> t, mine |-> TRUE, held |-> FALSE, todo |-> todo[t]]
    <3>1. n \in Jobs /\ ~n.held /\ jobs' = jobs \cup {n}
      BY <2>4 DEF Spawn, Jobs, TypeOK
    <3>2. mode # "DryRun"
      BY <2>4 DEF Spawn, JobInv
    <3> HIDE DEF n
    <3> QED
      BY <2>2, <2>3, <2>4, <3>1, <3>2 DEF Spawn, TypeOK
  <2> QED
    BY <2>1, <2>2, <2>3, <2>4 DEF Update, TaskFails, hostVars, TypeOK
<1>4. CASE Finish \/ Exit \/ OtherUnlocks \/ Repair \/ UNCHANGED vars
  <2>1. /\ phase' \in {"off", "run", "ok", "failed"} /\ mode' = mode /\ pc' = pc
        /\ status' = status /\ jobs' = jobs /\ losses' = losses /\ faults' = faults
    BY <1>4 DEF Finish, Exit, OtherUnlocks, Repair, vars, runVars, hostVars, TypeOK
  <2>2. todo' \in [Batches -> SUBSET Packages]
    BY <1>4 DEF Finish, Exit, OtherUnlocks, Repair, vars, runVars, TypeOK
  <2>3. alone' \in BOOLEAN
    <3>1. alone' = alone \/ alone' = FALSE
      BY <1>4 DEF Finish, Exit, OtherUnlocks, Repair, vars, runVars
    <3> QED
      BY <3>1 DEF TypeOK
  <2>4. interrupted' \in BOOLEAN
    <3>1. interrupted' = interrupted \/ interrupted' = FALSE
      BY <1>4 DEF Finish, Exit, OtherUnlocks, Repair, vars, hostVars
    <3> QED
      BY <3>1 DEF TypeOK
  <2>5. other' \in BOOLEAN /\ (other' => other)
    <3>1. other' = other \/ other' = FALSE
      BY <1>4 DEF Finish, Exit, OtherUnlocks, Repair, vars, hostVars
    <3>2. other \in BOOLEAN
      BY DEF TypeOK
    <3>3. CASE other' = other
      BY <3>2, <3>3
    <3>4. CASE other' = FALSE
      BY <3>4
    <3> QED
      BY <3>1, <3>3, <3>4
  <2> QED
    BY <2>1, <2>2, <2>3, <2>4, <2>5 DEF TypeOK
<1>5. CASE Stop \/ Kill
  <2>1. Orphans \subseteq Jobs
    BY DEF Orphans, Jobs, TypeOK
  <2>2. \A j, k \in Orphans : j.held /\ k.held => j = k
    <3> SUFFICES ASSUME NEW j \in Orphans, NEW k \in Orphans, j.held, k.held
                 PROVE  j = k
      OBVIOUS
    <3>1. PICK i \in jobs : j = [i EXCEPT !.mine = FALSE]
      BY DEF Orphans
    <3>2. PICK l \in jobs : k = [l EXCEPT !.mine = FALSE]
      BY DEF Orphans
    <3>3. i \in Jobs /\ l \in Jobs
      BY DEF TypeOK
    <3>4. i.held /\ l.held
      BY <3>1, <3>2, <3>3 DEF Jobs
    <3> QED
      BY <3>1, <3>2, <3>4 DEF TypeOK
  <2>3. \A j \in Orphans : /\ ~j.mine
                           /\ j.held => \E i \in jobs : i.held
    BY DEF Orphans, Jobs, TypeOK
  <2>4. jobs' = Orphans \/ jobs' = {}
    BY <1>5 DEF Stop, Kill
  <2>5. faults' \in 0 .. MaxFaults
    BY <1>5, FaultAssumption DEF Stop, Kill, Fault, TypeOK
  <2>6. /\ phase' = "failed" /\ mode' = mode /\ pc' = [t \in Batches |-> "end"] /\ todo' = todo
        /\ status' = status /\ other' = other /\ alone' = alone /\ interrupted' \in BOOLEAN
        /\ losses' = losses
    BY <1>5 DEF Stop, Kill, TypeOK
  <2>7. /\ jobs' \subseteq Jobs /\ \A j, k \in jobs' : j.held /\ k.held => j = k
        /\ other => \A j \in jobs' : ~j.held
        /\ \A j \in jobs' : ~j.mine
    BY <2>1, <2>2, <2>3, <2>4 DEF TypeOK
  <2> QED
    BY <2>5, <2>6, <2>7 DEF TypeOK
<1>6. CASE \E j \in jobs : JobLocks(j)
  <2>1. PICK j \in jobs : JobLocks(j)
    BY <1>6
  <2>2. j \in Jobs
    BY DEF TypeOK
  <2> DEFINE n == [j EXCEPT !.held = TRUE]
  <2>3. n \in Jobs /\ n.mine = j.mine
    BY <2>2 DEF Jobs
  <2>4. ~other /\ \A k \in jobs : ~k.held
    BY <2>1 DEF JobLocks, Locked
  <2>5. jobs' = (jobs \ {j}) \cup {n}
    BY <2>1 DEF JobLocks
  <2> HIDE DEF n
  <2> QED
    BY <2>1, <2>3, <2>4, <2>5 DEF JobLocks, runVars, TypeOK
<1>7. CASE \E j \in jobs : JobIsRefused(j) \/ JobEnds(j) \/ JobFails(j)
  <2>1. PICK j \in jobs : JobIsRefused(j) \/ JobEnds(j) \/ JobFails(j)
    BY <1>7
  <2>2. jobs' = jobs \ {j}
    BY <2>1 DEF JobIsRefused, JobEnds, JobFails
  <2>3. pc' \in [Batches -> {"query", "update", "spawn", "wait", "end", "error"}]
    BY <2>1 DEF JobIsRefused, JobEnds, JobFails, Tell, TypeOK
  <2>4. faults' \in 0 .. MaxFaults /\ losses' \in Nat
    BY <2>1, FaultAssumption DEF JobIsRefused, JobEnds, JobFails, Fault, TypeOK
  <2> QED
    BY <2>1, <2>2, <2>3, <2>4 DEF JobIsRefused, JobEnds, JobFails, TypeOK
<1>8. CASE \E j \in jobs : JobWorks(j)
  <2>1. status' \in [Packages -> {"none", "half", "ii"}]
    BY <1>8 DEF JobWorks, TypeOK
  <2> QED
    BY <1>8, <2>1 DEF JobWorks, runVars, TypeOK
<1>9. CASE OtherLocks \/ Drift
  <2>1. faults' \in 0 .. MaxFaults
    BY <1>9, FaultAssumption DEF OtherLocks, Drift, Fault, TypeOK
  <2>2. status' \in [Packages -> {"none", "half", "ii"}]
    BY <1>9 DEF OtherLocks, Drift, TypeOK
  <2> QED
    BY <1>9, <2>1, <2>2 DEF OtherLocks, Drift, Locked, runVars, TypeOK
<1> QED
  BY <1>1, <1>2, <1>3, <1>4, <1>5, <1>6, <1>7, <1>8, <1>9 DEF Next

-----------------------------------------------------------------------------
(* Whose the processes are.                                                *)

LEMMA JobNext ==
    ASSUME IInv, [Next]_vars
    PROVE  JobInv'
<1> USE DEF IInv
<1>0. /\ jobs \subseteq Jobs /\ \A j \in jobs : j.batch \in Batches
      /\ \A t \in Batches : FoundToDo(t) \subseteq Asked(t)
  BY DEF TypeOK, Jobs, FoundToDo, Asked
<1>1. CASE \E m \in {"Apply", "DryRun"} : Start(m)
  <2>1. phase' = "run" /\ jobs' = jobs /\ todo' = todo /\ \A t \in Batches : pc'[t] = "query"
    BY <1>1 DEF Start, hostVars
  <2>2. \A j \in jobs : ~j.mine
    BY <1>0, <1>1 DEF Start, JobInv
  <2> QED
    BY <1>0, <2>1, <2>2 DEF JobInv, Asked
<1>2. CASE \E t \in Batches : Query(t)
  <2>1. PICK t \in Batches : Query(t)
    BY <1>2
  <2>2. /\ pc[t] = "query" /\ phase' = phase /\ mode' = mode /\ jobs' = jobs /\ phase = "run"
        /\ pc'[t] = AfterQuery(t, FoundToDo(t)) /\ todo'[t] = FoundToDo(t)
        /\ \A u \in Batches : u # t => pc'[u] = pc[u] /\ todo'[u] = todo[u]
    BY <2>1 DEF Query, hostVars, TypeOK
  <2>3. /\ mode = "DryRun" => pc'[t] = "end"
        /\ \A u \in Batches : todo'[u] \subseteq Asked(u)
    BY <1>0, <2>2 DEF AfterQuery, JobInv
  <2>4. \A j \in jobs : j.mine => j.batch # t
    BY <2>2 DEF JobInv
  <2> QED
    BY <1>0, <2>2, <2>3, <2>4 DEF JobInv, Asked
<1>3. CASE \E t \in Batches : Update(t) \/ TaskFails(t)
  <2>1. PICK t \in Batches : Update(t) \/ TaskFails(t)
    BY <1>3
  <2>2. /\ pc[t] \in {"query", "update", "spawn"} /\ pc'[t] \in {"spawn", "error"}
        /\ pc'[t] = "spawn" => pc[t] = "update"
        /\ \A u \in Batches : u # t => pc'[u] = pc[u]
        /\ todo' = todo /\ jobs' = jobs /\ phase' = phase /\ mode' = mode /\ phase = "run"
    BY <2>1 DEF Update, TaskFails, hostVars, TypeOK
  <2> QED
    BY <1>0, <2>2 DEF JobInv, Asked
<1>4. CASE \E t \in Batches : Spawn(t)
  <2>1. PICK t \in Batches : Spawn(t)
    BY <1>4
  <2> DEFINE n == [batch |-> t, mine |-> TRUE, held |-> FALSE, todo |-> todo[t]]
  <2>2. /\ pc[t] = "spawn" /\ pc'[t] = "wait"
        /\ \A u \in Batches : u # t => pc'[u] = pc[u]
        /\ todo' = todo /\ jobs' = jobs \cup {n} /\ phase' = phase /\ mode' = mode
        /\ phase = "run"
    BY <2>1 DEF Spawn, TypeOK
  <2>3. n.batch = t /\ n.todo = todo[t]
    OBVIOUS
  <2>4. \A j \in jobs : j.mine => j.batch # t
    BY <2>2 DEF JobInv
  <2> HIDE DEF n
  <2>5. \A u \in Batches : /\ todo'[u] \subseteq Asked(u)
                           /\ phase' # "run" => pc'[u] = "end"
                           /\ mode' = "DryRun" => pc'[u] \in {"query", "end", "error"}
    BY <2>2 DEF JobInv
  <2>6. \A j \in jobs' : /\ j.todo \subseteq Asked(j.batch)
                         /\ j.mine => pc'[j.batch] = "wait" /\ j.todo = todo'[j.batch]
    BY <1>0, <2>2, <2>3, <2>4 DEF JobInv
  <2>7. \A j, k \in jobs' : j.mine /\ k.mine /\ j.batch = k.batch => j = k
    BY <2>2, <2>3, <2>4 DEF JobInv
  <2> QED
    BY <2>5, <2>6, <2>7 DEF JobInv, Asked
<1>5. CASE Finish \/ Exit
  <2>1. /\ pc' = pc /\ jobs' = jobs /\ mode' = mode
        /\ \A t \in Batches : pc[t] = "end" /\ (todo'[t] = todo[t] \/ todo'[t] = {})
    BY <1>5 DEF Finish, Exit, hostVars, JobInv
  <2>2. \A j \in jobs : ~j.mine
    BY <1>0, <2>1 DEF JobInv
  <2> QED
    BY <1>0, <2>1, <2>2 DEF JobInv, Asked
<1>6. CASE Stop \/ Kill
  <2>1. /\ phase' = "failed" /\ todo' = todo /\ \A t \in Batches : pc'[t] = "end"
        /\ jobs' = Orphans \/ jobs' = {}
    BY <1>6 DEF Stop, Kill
  <2>2. \A j \in Orphans : ~j.mine /\ j.todo \subseteq Asked(j.batch)
    BY <1>0 DEF Orphans, JobInv, Jobs
  <2> QED
    BY <2>1, <2>2 DEF JobInv, Asked
<1>7. CASE \E j \in jobs : JobLocks(j)
  <2>1. PICK j \in jobs : JobLocks(j)
    BY <1>7
  <2> DEFINE n == [j EXCEPT !.held = TRUE]
  <2>2. n.batch = j.batch /\ n.mine = j.mine /\ n.todo = j.todo
    BY <1>0 DEF Jobs
  <2>3. /\ jobs' = (jobs \ {j}) \cup {n}
        /\ phase' = phase /\ mode' = mode /\ pc' = pc /\ todo' = todo
    BY <2>1 DEF JobLocks, runVars
  <2> HIDE DEF n
  <2>4. \A k \in jobs' : /\ k.todo \subseteq Asked(k.batch)
                         /\ k.mine => pc'[k.batch] = "wait" /\ k.todo = todo'[k.batch]
    BY <2>2, <2>3 DEF JobInv
  <2>5. \A k, l \in jobs' : k.mine /\ l.mine /\ k.batch = l.batch => k = l
    BY <2>2, <2>3 DEF JobInv
  <2> QED
    BY <2>3, <2>4, <2>5 DEF JobInv, Asked
<1>8. CASE \E j \in jobs : JobIsRefused(j) \/ JobEnds(j) \/ JobFails(j)
  <2>1. PICK j \in jobs : JobIsRefused(j) \/ JobEnds(j) \/ JobFails(j)
    BY <1>8
  <2>2. /\ jobs' = jobs \ {j} /\ phase' = phase /\ mode' = mode /\ todo' = todo
        /\ \A u \in Batches : (j.mine /\ u = j.batch) \/ pc'[u] = pc[u]
        /\ j.mine => pc'[j.batch] \in {"end", "error"} /\ pc[j.batch] = "wait" /\ phase = "run"
    BY <1>0, <2>1 DEF JobIsRefused, JobEnds, JobFails, Tell, JobInv, TypeOK
  <2>3. \A k \in jobs' : k.mine => ~(j.mine /\ k.batch = j.batch)
    BY <2>2 DEF JobInv
  <2> QED
    BY <1>0, <2>2, <2>3 DEF JobInv, Asked
<1>9. CASE \/ OtherUnlocks \/ Repair \/ UNCHANGED vars \/ OtherLocks \/ Drift
           \/ \E j \in jobs : JobWorks(j)
  <2>1. phase' = phase /\ mode' = mode /\ pc' = pc /\ todo' = todo /\ jobs' = jobs
    BY <1>9 DEF OtherUnlocks, Repair, vars, OtherLocks, Drift, JobWorks, runVars, hostVars
  <2> QED
    BY <2>1 DEF JobInv, Asked
<1> QED
  BY <1>1, <1>2, <1>3, <1>4, <1>5, <1>6, <1>7, <1>8, <1>9 DEF Next

-----------------------------------------------------------------------------
(* What the batches have done.                                             *)

LEMMA WorkNext ==
    ASSUME IInv, [Next]_vars
    PROVE  WorkInv'
<1> USE DEF IInv
<1>0. /\ jobs \subseteq Jobs /\ \A j \in jobs : j.batch \in Batches
      /\ \A t \in Batches : FoundToDo(t) = Open(t)
  BY FoundIsOpen DEF TypeOK, Jobs
<1>1. CASE \E m \in {"Apply", "DryRun"} : Start(m)
  <2>1. \A t \in Batches : pc'[t] = "query"
    BY <1>1 DEF Start
  <2> QED
    BY <2>1 DEF WorkInv
<1>2. CASE \E t \in Batches : Query(t)
  <2>1. PICK t \in Batches : Query(t)
    BY <1>2
  <2>2. /\ phase' = phase /\ mode' = mode /\ status' = status
        /\ pc'[t] = AfterQuery(t, FoundToDo(t)) /\ todo'[t] = FoundToDo(t)
        /\ \A u \in Batches : u # t => pc'[u] = pc[u] /\ todo'[u] = todo[u]
    BY <2>1 DEF Query, hostVars, TypeOK
  <2>3. /\ todo'[t] = Open(t)
        /\ mode = "Apply" /\ pc'[t] = "end" => Done(t)
    BY <1>0, <2>2 DEF AfterQuery, Done
  <2>4. \A u \in Batches : Open(u)' = Open(u) /\ (Done(u)' <=> Done(u))
    BY <2>2, SameStatus DEF Done
  <2> QED
    BY <2>2, <2>3, <2>4 DEF WorkInv
<1>3. CASE \E t \in Batches : Update(t) \/ TaskFails(t) \/ Spawn(t)
  <2>1. PICK t \in Batches : Update(t) \/ TaskFails(t) \/ Spawn(t)
    BY <1>3
  <2>2. /\ pc'[t] \in {"spawn", "error", "wait"}
        /\ pc'[t] # "error" => pc[t] \in {"update", "spawn"}
        /\ \A u \in Batches : u # t => pc'[u] = pc[u]
        /\ todo' = todo /\ status' = status /\ phase' = phase /\ mode' = mode
    BY <2>1 DEF Update, TaskFails, Spawn, hostVars, TypeOK
  <2>3. \A u \in Batches : Open(u)' = Open(u) /\ (Done(u)' <=> Done(u))
    BY <2>2, SameStatus DEF Done
  <2> QED
    BY <2>2, <2>3 DEF WorkInv
<1>4. CASE Finish
  <2>1. phase = "run" /\ pc' = pc /\ mode' = mode /\ status' = status /\ todo' = todo
    BY <1>4 DEF Finish, hostVars
  <2>2. \A u \in Batches : Open(u)' = Open(u) /\ (Done(u)' <=> Done(u))
    BY <2>1, SameStatus DEF Done
  <2> QED
    BY <2>1, <2>2 DEF WorkInv
<1>5. CASE Stop \/ Kill \/ Exit
  <2>1. phase' \in {"off", "failed"} /\ \A t \in Batches : pc'[t] = "end"
    BY <1>5 DEF Stop, Kill, Exit, JobInv
  <2> QED
    BY <2>1 DEF WorkInv
<1>6. CASE \E j \in jobs : JobIsRefused(j) \/ JobFails(j)
  <2>1. PICK j \in jobs : JobIsRefused(j) \/ JobFails(j)
    BY <1>6
  <2>2. /\ phase' = phase /\ mode' = mode /\ todo' = todo /\ status' = status
        /\ \A u \in Batches : pc'[u] = "error" \/ pc'[u] = pc[u]
    BY <1>0, <2>1 DEF JobIsRefused, JobFails, Tell, TypeOK
  <2>3. \A u \in Batches : Open(u)' = Open(u) /\ (Done(u)' <=> Done(u))
    BY <2>2, SameStatus DEF Done
  <2> QED
    BY <2>2, <2>3 DEF WorkInv
<1>7. CASE \E j \in jobs : JobEnds(j)
  <2>1. PICK j \in jobs : JobEnds(j)
    BY <1>7
  <2>2. /\ phase' = phase /\ mode' = mode /\ todo' = todo /\ status' = status
        /\ Left(j.batch, j.todo) = {}
        /\ \A u \in Batches : \/ pc'[u] = pc[u]
                              \/ j.mine /\ u = j.batch /\ pc'[u] = "end"
    BY <1>0, <2>1 DEF JobEnds, Tell, TypeOK
  <2>3. \A u \in Batches : Open(u)' = Open(u) /\ (Done(u)' <=> Done(u))
    BY <2>2, SameStatus DEF Done
  <2>4. ASSUME j.mine
        PROVE  Done(j.batch)
    <3>1. pc[j.batch] = "wait" /\ j.todo = todo[j.batch]
      BY <2>4 DEF JobInv
    <3>2. Open(j.batch) \subseteq j.todo
      BY <1>0, <3>1 DEF WorkInv
    <3> QED
      BY <1>0, <2>2, <3>2, NothingLeft DEF Done
  <2> QED
    BY <2>2, <2>3, <2>4 DEF WorkInv
<1>8. CASE \E j \in jobs : JobWorks(j)
  <2>1. PICK j \in jobs : JobWorks(j)
    BY <1>8
  <2>2. phase' = phase /\ mode' = mode /\ pc' = pc /\ todo' = todo
    BY <2>1 DEF JobWorks, runVars
  <2>3. \A u \in Batches : Open(u)' \subseteq Open(u) /\ (Done(u) => Done(u)')
    BY <2>1, OpenShrinks DEF Done
  <2> QED
    BY <2>2, <2>3 DEF WorkInv
<1>9. CASE \/ OtherUnlocks \/ Repair \/ UNCHANGED vars \/ OtherLocks
           \/ \E j \in jobs : JobLocks(j)
  <2>1. phase' = phase /\ mode' = mode /\ pc' = pc /\ todo' = todo /\ status' = status
    BY <1>9 DEF OtherUnlocks, Repair, vars, OtherLocks, JobLocks, runVars, hostVars
  <2>2. \A u \in Batches : Open(u)' = Open(u) /\ (Done(u)' <=> Done(u))
    BY <2>1, SameStatus DEF Done
  <2> QED
    BY <2>1, <2>2 DEF WorkInv
<1>10. CASE Drift
  <2>1. phase' = "off" /\ \A t \in Batches : pc'[t] = "end"
    BY <1>10 DEF Drift, runVars, JobInv
  <2> QED
    BY <2>1 DEF WorkInv
<1> QED
  BY <1>1, <1>2, <1>3, <1>4, <1>5, <1>6, <1>7, <1>8, <1>9, <1>10 DEF Next

-----------------------------------------------------------------------------
(* The collisions.                                                         *)

\* Where nothing but the lock goes wrong, a batch that has nothing to do stays
\* without work.
LEMMA HasDoneStays ==
    ASSUME IInv, [Next]_vars, faults' = faults, NEW t \in Batches, HasDone(t)
    PROVE  HasDone(t)'
<1> USE DEF IInv
<1>0. /\ jobs \subseteq Jobs /\ \A j \in jobs : j.batch \in Batches
      /\ FoundToDo(t) = {} /\ faults \in Nat
  BY FoundIsOpen, FaultAssumption DEF TypeOK, Jobs, HasDone, Done
<1>1. ~Drift /\ ~Kill
  BY <1>0 DEF Drift, Kill, Fault
<1>2. Done(t)'
  <2>1. CASE \E j \in jobs : JobWorks(j)
    BY <2>1, OpenShrinks DEF HasDone, Done
  <2>2. CASE status' = status
    BY <2>2, SameStatus DEF HasDone, Done
  <2>3. status' = status \/ \E j \in jobs : JobWorks(j)
    BY <1>1 DEF Next, Start, Query, Update, Spawn, Finish, Stop, Exit, JobLocks, JobIsRefused,
       JobEnds, TaskFails, JobFails, OtherLocks, OtherUnlocks, Repair, vars, runVars, hostVars
  <2> QED
    BY <2>1, <2>2, <2>3
<1>3. phase' = "run" /\ alone' => pc'[t] \in {"query", "end", "error"}
  <2> SUFFICES ASSUME phase' = "run", alone'
               PROVE  pc'[t] \in {"query", "end", "error"}
    OBVIOUS
  <2>1. CASE \E m \in {"Apply", "DryRun"} : Start(m)
    BY <2>1 DEF Start
  <2>2. CASE phase = "run" /\ alone
    <3>1. pc[t] \in {"query", "end", "error"}
      BY <2>2 DEF HasDone
    <3>2. CASE \E u \in Batches : Query(u)
      BY <1>0, <3>1, <3>2 DEF Query, AfterQuery, TypeOK
    <3>3. CASE \E u \in Batches : Update(u) \/ Spawn(u)
      BY <3>1, <3>3 DEF Update, Spawn, TypeOK
    <3>4. CASE \E j \in jobs : JobIsRefused(j) \/ JobEnds(j)
      BY <1>0, <3>1, <3>4 DEF JobIsRefused, JobEnds, Tell, TypeOK
    <3>5. CASE pc' = pc
      BY <3>1, <3>5
    <3> QED
      BY <1>0, <1>1, <2>2, <3>2, <3>3, <3>4, <3>5
         DEF Next, Start, Finish, Stop, Exit, JobLocks, JobWorks, TaskFails, JobFails, Fault,
             OtherLocks, OtherUnlocks, Repair, vars, runVars, hostVars
  <2>3. CASE ~(phase = "run" /\ alone) /\ ~\E m \in {"Apply", "DryRun"} : Start(m)
    BY <1>1, <2>3
       DEF Next, Start, Query, Update, Spawn, Finish, Stop, Exit, JobLocks, JobIsRefused, JobWorks,
           JobEnds, TaskFails, JobFails, OtherLocks, OtherUnlocks, Repair, vars, runVars, hostVars
  <2> QED
    BY <2>1, <2>2, <2>3
<1> QED
  BY <1>2, <1>3 DEF HasDone

\* The winner is not stopped before it has done its batch's work.
LEMMA WinnerStays ==
    ASSUME IInv, [Next]_vars, faults' = faults, NEW t \in Batches, NEW j \in jobs, IsWinning(t, j)
    PROVE  Spent'
<1> USE DEF IInv
<1>0. /\ jobs \subseteq Jobs /\ \A k \in jobs : k.batch \in Batches
      /\ j \in Jobs /\ j.held /\ j.batch = t /\ Open(t) \subseteq j.todo /\ faults \in Nat
      /\ \A k \in jobs : k.held => k = j
      /\ Locked
  BY FaultAssumption DEF TypeOK, Jobs, IsWinning, Locked
<1>1. /\ ~Drift /\ ~Kill /\ ~OtherLocks /\ \A k \in jobs : ~JobFails(k) /\ ~JobLocks(k)
      /\ \A u \in Batches : ~TaskFails(u)
  BY <1>0 DEF Drift, Kill, OtherLocks, JobFails, TaskFails, JobLocks, Fault
<1>2. CASE \E k \in jobs : JobEnds(k)
  <2>1. JobEnds(j)
    BY <1>0, <1>2 DEF JobEnds
  <2>2. Done(t)
    BY <1>0, <2>1, NothingLeft DEF JobEnds, Done
  <2>3. status' = status /\ phase' = phase /\ alone' = alone
    BY <2>1 DEF JobEnds
  <2>4. j.mine => pc'[t] = "end"
    BY <1>0, <2>1 DEF JobEnds, Tell, TypeOK
  <2>5. HasDone(t)'
    BY <2>2, <2>3, <2>4, SameStatus DEF HasDone, Done, IsWinning
  <2> QED
    BY <2>5 DEF Spent
<1>3. CASE Stop
  <2> DEFINE n == [j EXCEPT !.mine = FALSE]
  <2>1. n \in jobs' /\ n.held /\ n.batch = t /\ n.todo = j.todo
    BY <1>0, <1>3 DEF Stop, Orphans, Jobs
  <2>2. status' = status /\ phase' = "failed"
    BY <1>3 DEF Stop
  <2> HIDE DEF n
  <2>3. IsWinning(t, n)'
    BY <1>0, <2>1, <2>2, SameStatus DEF IsWinning
  <2> QED
    BY <2>1, <2>3 DEF Spent
<1>4. CASE ~Stop /\ ~\E k \in jobs : JobEnds(k)
  <2>1. j \in jobs'
    BY <1>0, <1>1, <1>4
       DEF Next, Start, Query, Update, Spawn, Finish, Exit, JobIsRefused, JobWorks, OtherUnlocks,
           Repair, vars, runVars, hostVars
  <2>2. Open(t)' \subseteq j.todo
    <3>1. CASE \E k \in jobs : JobWorks(k)
      BY <1>0, <3>1, OpenShrinks
    <3>2. CASE status' = status
      BY <1>0, <3>2, SameStatus
    <3>3. status' = status \/ \E k \in jobs : JobWorks(k)
      BY <1>1, <1>4
         DEF Next, Start, Query, Update, Spawn, Finish, Exit, JobIsRefused, OtherUnlocks, Repair,
             vars, runVars, hostVars
    <3> QED
      BY <3>1, <3>2, <3>3
  <2>3. ASSUME phase' = "run", alone'
        PROVE  j.mine /\ \E u \in Batches : pc'[u] = "error"
    <3>1. ~\E m \in {"Apply", "DryRun"} : Start(m)
      BY <2>3 DEF Start
    <3>2. phase = "run" /\ alone
      BY <1>1, <1>4, <2>3, <3>1
         DEF Next, Query, Update, Spawn, Finish, Exit, JobIsRefused, JobWorks, OtherUnlocks, Repair,
             vars, runVars, hostVars
    <3>3. j.mine
      BY <3>2 DEF IsWinning
    <3>4. PICK u \in Batches : pc[u] = "error"
      BY <3>2 DEF IsWinning
    <3>5. pc'[u] = "error"
      <4>1. CASE \E v \in Batches : Query(v) \/ Update(v) \/ Spawn(v)
        BY <3>4, <4>1 DEF Query, Update, Spawn, TypeOK
      <4>2. CASE \E k \in jobs : JobIsRefused(k)
        BY <1>0, <3>4, <4>2 DEF JobIsRefused, Tell, TypeOK
      <4>3. CASE pc' = pc
        BY <3>4, <4>3
      <4> QED
        BY <1>1, <1>4, <3>1, <4>1, <4>2, <4>3
           DEF Next, Finish, Exit, JobWorks, OtherUnlocks, Repair, vars, runVars
    <3> QED
      BY <3>3, <3>5
  <2>4. IsWinning(t, j)'
    BY <1>0, <2>2, <2>3 DEF IsWinning
  <2> QED
    BY <2>1, <2>4 DEF Spent
<1> QED
  BY <1>2, <1>3, <1>4

\* A collision has a winner, and there is none where one batch has no work or
\* the run has failed already.
LEMMA CollisionHasWinner ==
    ASSUME IInv, NEW j \in jobs, JobIsRefused(j), Collide(j)
    PROVE  ~Spent /\ Spent'
<1> USE DEF IInv
<1>1. PICK k \in jobs : k.mine /\ k.held /\ k.batch # j.batch
  BY DEF Collide
<1>2. /\ j.mine /\ alone /\ phase = "run" /\ j.batch \in Batches /\ k.batch \in Batches
      /\ pc[j.batch] = "wait" /\ pc[k.batch] = "wait" /\ k.todo = todo[k.batch]
      /\ ~j.held
  BY <1>1 DEF Collide, JobInv, TypeOK, Jobs, JobIsRefused
<1>3. \A t \in Batches : pc[t] = "wait"
  BY <1>1, <1>2 DEF Batches
<1>4. ~Spent
  BY <1>2, <1>3 DEF Spent, HasDone, IsWinning
<1>5. Open(k.batch) \subseteq k.todo
  BY <1>2 DEF WorkInv
<1>6. /\ status' = status /\ k \in jobs' /\ pc'[j.batch] = "error"
  BY <1>1, <1>2 DEF JobIsRefused, Tell, TypeOK
<1>7. IsWinning(k.batch, k)'
  BY <1>1, <1>2, <1>5, <1>6, SameStatus DEF IsWinning
<1> QED
  BY <1>2, <1>4, <1>6, <1>7 DEF Spent

LEMMA LossNext ==
    ASSUME IInv, [Next]_vars
    PROVE  LossInv'
<1> USE DEF IInv
<1>0. losses \in Nat /\ faults \in Nat
  BY FaultAssumption DEF TypeOK
<1>1. CASE \E j \in jobs : JobIsRefused(j) /\ Collide(j)
  <2>1. losses' = losses + 1 /\ faults' = faults
    BY <1>1 DEF JobIsRefused
  <2> QED
    BY <1>0, <1>1, <2>1, CollisionHasWinner DEF LossInv
<1>2. CASE losses' = losses /\ faults' = faults
  <2>1. Spent => Spent'
    <3> SUFFICES ASSUME NEW t \in Batches, HasDone(t) \/ \E j \in jobs : IsWinning(t, j)
                 PROVE  Spent'
      BY DEF Spent
    <3>1. CASE HasDone(t)
      BY <1>2, <3>1, HasDoneStays DEF Spent
    <3>2. CASE \E j \in jobs : IsWinning(t, j)
      BY <1>2, <3>2, WinnerStays
    <3> QED
      BY <3>1, <3>2
  <2> QED
    BY <1>2, <2>1 DEF LossInv
<1>3. CASE losses' = losses /\ faults' = faults + 1
  BY <1>0, <1>3 DEF LossInv
<1>4. \/ \E j \in jobs : JobIsRefused(j) /\ Collide(j)
      \/ losses' = losses /\ faults' = faults
      \/ losses' = losses /\ faults' = faults + 1
  BY DEF Next, Start, Query, Update, Spawn, Finish, Stop, Exit, JobLocks, JobIsRefused, JobWorks,
     JobEnds, TaskFails, JobFails, Kill, OtherLocks, OtherUnlocks, Drift, Repair, Fault, vars
<1> QED
  BY <1>1, <1>2, <1>3, <1>4

-----------------------------------------------------------------------------
(* The theorems.                                                           *)

\* The invariant: what the tasks, the processes they wait for and the processes
\* that nobody waits for any more have done and have left to do.
THEOREM Invariant == Spec => []IInv
<1>1. IInv /\ [Next]_vars => IInv'
  BY TypeNext, JobNext, WorkNext, LossNext DEF IInv
<1> QED
  BY <1>1, InitIInv, PTL DEF Spec

\* Only one apt-get has dpkg's lock, and a dry run starts none.
THEOREM TypesHold == Spec => []TypeOK
<1>1. IInv => TypeOK
  BY DEF IInv
<1> QED
  BY <1>1, Invariant, PTL

\* An Ok run has the packages where it wants them, for any faults and beside
\* any apt-get of an earlier run that is still at work.
THEOREM OkMeansPackages == Spec => []OkPackages
<1>1. IInv => OkPackages
  <2> SUFFICES ASSUME IInv, phase = "ok", mode = "Apply", NEW t \in Batches
               PROVE  Done(t)
    BY DEF OkPackages
  <2>1. pc[t] = "end"
    BY DEF IInv, JobInv
  <2> QED
    BY <2>1 DEF IInv, WorkInv
<1> QED
  BY <1>1, Invariant, PTL

\* The competition for dpkg's lock costs one run, and one for each fault.
THEOREM OneLossOnly == Spec => []NoSecondLoss
<1>1. IInv => NoSecondLoss
  BY DEF IInv, LossInv, NoSecondLoss
<1> QED
  BY <1>1, Invariant, PTL

-----------------------------------------------------------------------------
(* That the processes go on.                                               *)

\* Among finite sets there is one that includes no other of them.
LEMMA MinimalSet ==
    ASSUME NEW S, IsFiniteSet(S), NEW C, C \subseteq SUBSET S, C # {}
    PROVE  \E D \in C : \A E \in C : E \subseteq D => E = D
<1>1. IsWellFoundedOn(StrictSubsetOrdering(S), SUBSET S)
  BY FS_StrictSubsetOrderingWellFounded, FS_FiniteSubsetsOfFinite
<1>2. PICK D \in C : \A E \in C : ~ (<<E, D>> \in StrictSubsetOrdering(S))
  BY <1>1, WFMin
<1>3. \A E \in C : E \subseteq D => E = D
  <2> SUFFICES ASSUME NEW E \in C, E \subseteq D, E # D
               PROVE  <<E, D>> \in StrictSubsetOrdering(S)
    BY <1>2
  <2> QED
    BY DEF StrictSubsetOrdering
<1> QED
  BY <1>3

\* Dependencies have no cycles, so in any set of packages one can be installed
\* and one removed before all the others.
LEMMA OneIsFirst ==
    ASSUME NEW L, L \subseteq Packages, L # {}
    PROVE  \E p \in L : Needs[p] \cap L = {}
<1> DEFINE C == {Needs[p] \cap L : p \in L}
<1>1. \E D \in C : \A E \in C : E \subseteq D => E = D
  <2>1. C \subseteq SUBSET Packages /\ C # {}
    OBVIOUS
  <2> HIDE DEF C
  <2> QED
    BY <2>1, MinimalSet, PackageAssumption
<1>2. PICK p \in L : \A E \in C : E \subseteq Needs[p] \cap L => E = Needs[p] \cap L
  BY <1>1
<1>3. ASSUME NEW q \in Needs[p] \cap L PROVE FALSE
  <2>1. Needs[q] \cap L \subseteq Needs[p] \cap L /\ q \notin Needs[q]
    BY PackageAssumption
  <2> QED
    BY <1>2, <2>1
<1> QED
  BY <1>3

LEMMA OneIsLast ==
    ASSUME NEW L, L \subseteq Packages, L # {}
    PROVE  \E p \in L : \A q \in L : p \notin Needs[q]
<1> DEFINE Above(p) == {q \in L : p \in Needs[q]}
           C == {Above(p) : p \in L}
<1>1. \E D \in C : \A E \in C : E \subseteq D => E = D
  <2>1. C \subseteq SUBSET Packages /\ C # {}
    OBVIOUS
  <2> HIDE DEF C
  <2> QED
    BY <2>1, MinimalSet, PackageAssumption
<1>2. PICK p \in L : \A E \in C : E \subseteq Above(p) => E = Above(p)
  BY <1>1
<1>3. ASSUME NEW q \in L, p \in Needs[q] PROVE FALSE
  <2>1. Above(q) \subseteq Above(p) /\ q \in Above(p) /\ q \notin Above(q)
    BY <1>3, PackageAssumption
  <2> QED
    BY <1>2, <2>1
<1> QED
  BY <1>3

LEMMA InitProcessInv == Init => ProcessInv
<1> SUFFICES ASSUME Init
             PROVE  ProcessInv
  OBVIOUS
<1>1. jobs = {} /\ \A t \in Batches : pc[t] = "end"
  BY DEF Init
<1> QED
  BY <1>1, FS_EmptySet DEF ProcessInv

\* The set of processes stays finite, whatever is added to it or dropped.
LEMMA OrphansAreFewer ==
    ASSUME NEW S, S \subseteq Jobs, IsFiniteSet(S)
    PROVE  LET T == {[j EXCEPT !.mine = FALSE] : j \in S}
           IN  IsFiniteSet(T) /\ Cardinality(T) <= Cardinality(S)
<1> DEFINE T == {[j EXCEPT !.mine = FALSE] : j \in S}
           f == [j \in S |-> [j EXCEPT !.mine = FALSE]]
<1>1. f \in Surjection(S, T)
  BY DEF Surjection
<1> HIDE DEF f
<1>2. IsFiniteSet(T) /\ Cardinality(T) <= Cardinality(S)
  <2> HIDE DEF T
  <2> QED
    BY <1>1, FS_Surjection
<1> QED
  BY <1>2

LEMMA ProcessNext ==
    ASSUME IInv, ProcessInv, [Next]_vars
    PROVE  ProcessInv'
<1> USE DEF IInv
<1>0. /\ jobs \subseteq Jobs /\ \A j \in jobs : j.batch \in Batches
      /\ IsFiniteSet(jobs)
  BY DEF TypeOK, Jobs, ProcessInv
<1>1. CASE \E m \in {"Apply", "DryRun"} : Start(m)
  <2>1. /\ alone' = (jobs = {}) /\ jobs' = jobs
        /\ \A t \in Batches : pc'[t] = "query"
    BY <1>1 DEF Start, hostVars
  <2> QED
    BY <1>0, <2>1 DEF ProcessInv
<1>2. CASE \E t \in Batches : Query(t) \/ Update(t) \/ TaskFails(t)
  <2>1. PICK t \in Batches : Query(t) \/ Update(t) \/ TaskFails(t)
    BY <1>2
  <2>2. /\ pc'[t] # "wait" /\ \A u \in Batches : u # t => pc'[u] = pc[u]
        /\ jobs' = jobs /\ phase' = phase /\ alone' = alone
    BY <2>1 DEF Query, Update, TaskFails, AfterQuery, hostVars, TypeOK
  <2> QED
    BY <1>0, <2>2 DEF ProcessInv
<1>3. CASE \E t \in Batches : Spawn(t)
  <2>1. PICK t \in Batches : Spawn(t)
    BY <1>3
  <2> DEFINE n == [batch |-> t, mine |-> TRUE, held |-> FALSE, todo |-> todo[t]]
  <2>2. /\ jobs' = jobs \cup {n} /\ phase' = phase /\ alone' = alone
        /\ \A u \in Batches : u # t => pc'[u] = pc[u]
    BY <2>1 DEF Spawn, TypeOK
  <2>3. n.batch = t /\ n.mine
    OBVIOUS
  <2> HIDE DEF n
  <2>4. IsFiniteSet(jobs')
    BY <1>0, <2>2, FS_AddElement
  <2> QED
    BY <2>2, <2>3, <2>4 DEF ProcessInv
<1>4. CASE Finish \/ Exit
  <2>1. phase' # "run" /\ jobs' = jobs /\ pc' = pc
    BY <1>4 DEF Finish, Exit, hostVars
  <2> QED
    BY <1>0, <2>1 DEF ProcessInv
<1>5. CASE Stop \/ Kill
  <2>1. /\ phase' = "failed" /\ \A t \in Batches : pc'[t] = "end"
        /\ jobs' = Orphans \/ jobs' = {}
    BY <1>5 DEF Stop, Kill
  <2>2. IsFiniteSet(jobs')
    BY <1>0, <2>1, OrphansAreFewer, FS_EmptySet DEF Orphans
  <2> QED
    BY <2>1, <2>2 DEF ProcessInv
<1>6. CASE \E j \in jobs : JobLocks(j)
  <2>1. PICK j \in jobs : JobLocks(j)
    BY <1>6
  <2> DEFINE n == [j EXCEPT !.held = TRUE]
  <2>2. n.batch = j.batch /\ n.mine = j.mine
    BY <1>0 DEF Jobs
  <2>3. /\ jobs' = (jobs \ {j}) \cup {n} /\ phase' = phase /\ alone' = alone /\ pc' = pc
    BY <2>1 DEF JobLocks, runVars
  <2> HIDE DEF n
  <2>4. IsFiniteSet(jobs')
    BY <1>0, <2>3, FS_RemoveElement, FS_AddElement
  <2> QED
    BY <2>2, <2>3, <2>4 DEF ProcessInv
<1>7. CASE \E j \in jobs : JobIsRefused(j) \/ JobEnds(j) \/ JobFails(j)
  <2>1. PICK j \in jobs : JobIsRefused(j) \/ JobEnds(j) \/ JobFails(j)
    BY <1>7
  <2>2. /\ jobs' = jobs \ {j} /\ phase' = phase /\ alone' = alone
        /\ \A u \in Batches : (j.mine /\ u = j.batch) \/ pc'[u] = pc[u]
        /\ j.mine => pc'[j.batch] # "wait"
    BY <1>0, <2>1 DEF JobIsRefused, JobEnds, JobFails, Tell, TypeOK
  <2>3. IsFiniteSet(jobs')
    BY <1>0, <2>2, FS_RemoveElement
  <2>4. ASSUME NEW u \in Batches, pc'[u] = "wait"
        PROVE  \E k \in jobs' : k.mine /\ k.batch = u
    <3>1. pc[u] = "wait" /\ ~(j.mine /\ u = j.batch)
      BY <2>2, <2>4
    <3>2. PICK k \in jobs : k.mine /\ k.batch = u
      BY <3>1 DEF ProcessInv
    <3> QED
      BY <2>2, <3>1, <3>2
  <2> QED
    BY <2>2, <2>3, <2>4 DEF ProcessInv
<1>8. CASE \/ OtherUnlocks \/ Repair \/ UNCHANGED vars \/ OtherLocks \/ Drift
           \/ \E j \in jobs : JobWorks(j)
  <2>1. phase' = phase /\ alone' = alone /\ pc' = pc /\ jobs' = jobs
    BY <1>8 DEF OtherUnlocks, Repair, vars, OtherLocks, Drift, JobWorks, runVars, hostVars
  <2> QED
    BY <1>0, <2>1 DEF ProcessInv
<1> QED
  BY <1>1, <1>2, <1>3, <1>4, <1>5, <1>6, <1>7, <1>8 DEF Next

THEOREM ProcessesAreKnown == Spec => []ProcessInv
<1>1. IInv /\ ProcessInv /\ [Next]_vars => ProcessInv'
  BY ProcessNext
<1> QED
  BY <1>1, InitProcessInv, Invariant, PTL DEF Spec

\* No batch waits for an apt-get that is not there, and none that has the lock is
\* stuck between packages that need each other: the part of Recovers that is not
\* about fairness, together with RunsComeToRest.
THEOREM AptIsNotStuck == Spec => []AptGoesOn
<1>1. IInv /\ ProcessInv => AptGoesOn
  <2> SUFFICES ASSUME IInv, ProcessInv, NEW j \in jobs, Left(j.batch, j.todo) # {}
               PROVE  Ready(j) # {}
    BY DEF AptGoesOn, ProcessInv
  <2> DEFINE L == Left(j.batch, j.todo)
  <2>1. L \subseteq Packages
    BY DEF Left
  <2>2. (\E p \in L : Needs[p] \cap L = {}) /\ (\E p \in L : \A q \in L : p \notin Needs[q])
    <3> HIDE DEF L
    <3>1. L # {}
      BY DEF L
    <3> QED
      BY <2>1, <3>1, OneIsFirst, OneIsLast
  <2> QED
    BY <2>2 DEF Ready
<1> QED
  BY <1>1, Invariant, ProcessesAreKnown, PTL

\* A run that starts when no apt-get is at work fails for a fault, a collision of
\* its own two batches, somebody else's lock or an interrupted dpkg only: of the
\* processes of such a run each is of another batch.
THEOREM EveryFailureIsCounted == Spec => FailuresHaveCause
<1>1. ASSUME IInv, ProcessInv, Next, NEW t \in Batches, pc[t] # "error", pc'[t] = "error"
      PROVE  faults' > faults \/ losses' > losses \/ other \/ interrupted \/ ~alone
  <2>1. faults \in Nat /\ losses \in Nat /\ jobs \subseteq Jobs
    BY <1>1, FaultAssumption DEF IInv, TypeOK
  <2>2. CASE \E j \in jobs : JobIsRefused(j)
    <3>1. PICK j \in jobs : JobIsRefused(j)
      BY <2>2
    <3>2. j.mine /\ j.batch = t /\ ~j.held
      BY <1>1, <3>1 DEF JobIsRefused, Tell, IInv, TypeOK
    <3>3. SUFFICES ASSUME ~other, ~interrupted, alone PROVE losses' = losses + 1
      BY <2>1
    <3>4. PICK k \in jobs : k.held
      BY <3>1, <3>3 DEF JobIsRefused, Locked
    <3>5. phase = "run"
      BY <3>2, <1>1 DEF IInv, JobInv
    <3>6. k.mine
      BY <1>1, <3>3, <3>5 DEF ProcessInv
    <3>7. k.batch # j.batch
      BY <1>1, <3>2, <3>4, <3>6 DEF IInv, JobInv
    <3> QED
      BY <3>1, <3>2, <3>3, <3>4, <3>6, <3>7 DEF JobIsRefused, Collide
  <2>3. CASE faults' = faults + 1
    BY <2>1, <2>3
  <2>4. (\E j \in jobs : JobIsRefused(j)) \/ faults' = faults + 1
    <3>1. ASSUME NEW j \in jobs, JobEnds(j) PROVE FALSE
      BY <1>1, <3>1 DEF JobEnds, Tell, IInv, TypeOK
    <3>2. ASSUME NEW u \in Batches, Query(u) \/ Update(u) \/ Spawn(u) PROVE FALSE
      BY <1>1, <3>2 DEF Query, Update, Spawn, AfterQuery, IInv, TypeOK
    <3>3. ASSUME \/ \E m \in {"Apply", "DryRun"} : Start(m)
                 \/ Finish \/ Stop \/ Exit \/ OtherUnlocks \/ Repair
                 \/ \E j \in jobs : JobLocks(j) \/ JobWorks(j)
          PROVE  FALSE
      BY <1>1, <3>3 DEF Start, Finish, Stop, Exit, OtherUnlocks, Repair, JobLocks, JobWorks, runVars
    <3> QED
      BY <1>1, <3>1, <3>2, <3>3 DEF Next, TaskFails, JobFails, Kill, OtherLocks, Drift, Fault
  <2> QED
    BY <2>2, <2>3, <2>4
<1>2. IInv /\ ProcessInv /\ [Next]_vars =>
          [(\E t \in Batches : pc[t] # "error" /\ pc'[t] = "error") =>
               faults' > faults \/ losses' > losses \/ other \/ interrupted \/ ~alone]_vars
  BY <1>1
<1> QED
  BY <1>2, Invariant, ProcessesAreKnown, PTL DEF Spec, FailuresHaveCause

-----------------------------------------------------------------------------
(* That the processes come to rest.                                        *)

\* The counts are numbers.
LEMMA PackagesCounted ==
    TypeOK => /\ IsFiniteSet(Untouched) /\ IsFiniteSet(Halfway)
              /\ Cardinality(Untouched) \in Nat /\ Cardinality(Halfway) \in Nat
              /\ PackagesLeft \in Nat
<1> SUFFICES ASSUME TypeOK
             PROVE  /\ IsFiniteSet(Untouched) /\ IsFiniteSet(Halfway)
                    /\ Cardinality(Untouched) \in Nat /\ Cardinality(Halfway) \in Nat
                    /\ PackagesLeft \in Nat
  OBVIOUS
<1>1. Untouched \subseteq Packages /\ Halfway \subseteq Packages
  BY PackageAssumption DEF Untouched, Halfway, Aim
<1>2. /\ IsFiniteSet(Untouched) /\ IsFiniteSet(Halfway)
      /\ Cardinality(Untouched) \in Nat /\ Cardinality(Halfway) \in Nat
  BY <1>1, PackageAssumption, FS_Subset, FS_CardinalityType
<1> QED
  BY <1>2 DEF PackagesLeft

LEMMA JobsCounted ==
    ProcessInv => /\ IsFiniteSet(jobs) /\ IsFiniteSet(Unlocked)
                  /\ Cardinality(jobs) \in Nat /\ Cardinality(Unlocked) \in Nat
                  /\ JobsLeft \in Nat
<1> SUFFICES ASSUME ProcessInv
             PROVE  /\ IsFiniteSet(jobs) /\ IsFiniteSet(Unlocked)
                    /\ Cardinality(jobs) \in Nat /\ Cardinality(Unlocked) \in Nat
                    /\ JobsLeft \in Nat
  OBVIOUS
<1>1. IsFiniteSet(jobs) /\ Unlocked \subseteq jobs
  BY DEF ProcessInv, Unlocked
<1>2. /\ IsFiniteSet(jobs) /\ IsFiniteSet(Unlocked)
      /\ Cardinality(jobs) \in Nat /\ Cardinality(Unlocked) \in Nat
  BY <1>1, FS_Subset, FS_CardinalityType
<1> QED
  BY <1>2 DEF JobsLeft

LEMMA AwaitsValues ==
    /\ Awaits("query") = 5 /\ Awaits("update") = 4 /\ Awaits("spawn") = 3
    /\ Awaits("wait") = 0 /\ Awaits("end") = 0 /\ Awaits("error") = 0
BY DEF Awaits

LEMMA AwaitsCounted ==
    TypeOK => \A t \in Batches : Awaits(pc[t]) \in 0 .. 5
<1> SUFFICES ASSUME TypeOK, NEW t \in Batches
             PROVE  Awaits(pc[t]) \in 0 .. 5
  OBVIOUS
<1>1. pc[t] \in {"query", "update", "spawn", "wait", "end", "error"}
  BY DEF TypeOK
<1> QED
  BY <1>1, AwaitsValues

\* A package that an apt-get works on is one that its batch aims at, and the
\* other batch does not.
LEMMA WorkIsAimed ==
    ASSUME NEW t \in Batches, NEW s, s \subseteq Asked(t), NEW p \in Left(t, s)
    PROVE  /\ p \in Aim(t) /\ p \in Packages
           /\ t = "install" => p \notin Aim("remove")
           /\ t = "remove" => p \notin Aim("install")
<1>1. p \in Aim(t) /\ p \in Packages
  BY PackageAssumption DEF Left, Aim, Asked, Batches
<1>2. Aim("install") \cap Aim("remove") = {}
  <2> SUFFICES ASSUME NEW q \in Aim("install"), q \in Aim("remove")
               PROVE  FALSE
    OBVIOUS
  <2>1. q \in Unwanted \/ Needs[q] \cap Unwanted # {}
    BY DEF Aim
  <2>2. CASE q \in Wanted
    BY <2>1, <2>2, PackageAssumption
  <2>3. CASE \E w \in Wanted : q \in Needs[w]
    BY <2>1, <2>3, PackageAssumption
  <2> QED
    BY <2>2, <2>3 DEF Aim
<1> QED
  BY <1>1, <1>2

LEMMA WorkLowers ==
    ASSUME TypeOK, JobInv, NEW j \in jobs, JobWorks(j)
    PROVE  PackagesLeft' \in 0 .. PackagesLeft - 1
<1>1. /\ j.batch \in Batches /\ j.todo \subseteq Asked(j.batch)
      /\ status \in [Packages -> {"none", "half", "ii"}]
  BY DEF TypeOK, JobInv, Jobs
<1>2. PICK p \in Left(j.batch, j.todo) :
          status' = [status EXCEPT ![p] = IF @ # "half" THEN "half"
                                          ELSE IF j.batch = "install" THEN "ii" ELSE "none"]
  BY DEF JobWorks, Ready
<1>3. /\ p \in Packages /\ p \in Aim(j.batch)
      /\ j.batch = "install" => p \notin Aim("remove")
      /\ j.batch = "remove" => p \notin Aim("install")
  BY <1>1, WorkIsAimed
<1>4. /\ j.batch = "install" => status[p] # "ii"
      /\ j.batch = "remove" => status[p] # "none"
  BY <1>2 DEF Left
<1>5. \A q \in Packages : q # p => status'[q] = status[q]
  BY <1>1, <1>2
<1>6. Aim("install") \subseteq Packages /\ Aim("remove") \subseteq Packages
  BY PackageAssumption DEF Aim
<1>7. /\ IsFiniteSet(Untouched) /\ IsFiniteSet(Halfway)
      /\ Cardinality(Untouched) \in Nat /\ Cardinality(Halfway) \in Nat
  BY PackagesCounted
<1>8. CASE status[p] = "half"
  <2>1. status'[p] = IF j.batch = "install" THEN "ii" ELSE "none"
    BY <1>1, <1>2, <1>3, <1>8
  <2>2. Untouched' = Untouched
    BY <1>1, <1>3, <1>5, <1>6, <1>8, <2>1 DEF Untouched, Aim, Batches
  <2>3. Halfway' = Halfway \ {p} /\ p \in Halfway
    BY <1>1, <1>3, <1>5, <1>6, <1>8, <2>1 DEF Halfway, Aim, Batches
  <2>4. Cardinality(Halfway') = Cardinality(Halfway) - 1 /\ Cardinality(Halfway') \in Nat
    BY <1>7, <2>3, FS_RemoveElement, FS_CardinalityType
  <2> QED
    BY <1>7, <2>2, <2>4 DEF PackagesLeft
<1>9. CASE status[p] # "half"
  <2>1. status'[p] = "half"
    BY <1>1, <1>2, <1>3, <1>9
  <2>2. status[p] = IF j.batch = "install" THEN "none" ELSE "ii"
    BY <1>1, <1>3, <1>4, <1>9 DEF Batches
  <2>3. Untouched' = Untouched \ {p} /\ p \in Untouched
    BY <1>1, <1>3, <1>5, <1>6, <2>1, <2>2 DEF Untouched, Aim, Batches
  <2>4. Halfway' = Halfway \cup {p} /\ p \notin Halfway
    BY <1>1, <1>3, <1>5, <1>6, <1>9, <2>1 DEF Halfway, Aim, Batches
  <2>5. Cardinality(Untouched') = Cardinality(Untouched) - 1 /\ Cardinality(Untouched') \in Nat
    BY <1>7, <2>3, FS_RemoveElement, FS_CardinalityType
  <2>6. Cardinality(Halfway') = Cardinality(Halfway) + 1
    BY <1>7, <2>4, FS_AddElement
  <2> QED
    BY <1>7, <2>5, <2>6 DEF PackagesLeft
<1> QED
  BY <1>8, <1>9

\* What happens to the processes.
LEMMA JobGone ==
    ASSUME ProcessInv, NEW j \in jobs, jobs' = jobs \ {j}
    PROVE  JobsLeft' \in 0 .. JobsLeft - 1
<1>1. /\ IsFiniteSet(jobs) /\ IsFiniteSet(Unlocked)
      /\ Cardinality(jobs) \in Nat /\ Cardinality(Unlocked) \in Nat
  BY JobsCounted
<1>2. Cardinality(jobs') = Cardinality(jobs) - 1 /\ Cardinality(jobs') \in Nat
  BY <1>1, FS_RemoveElement, FS_CardinalityType
<1>3. Unlocked' \subseteq Unlocked
  BY DEF Unlocked
<1>4. Cardinality(Unlocked') <= Cardinality(Unlocked) /\ Cardinality(Unlocked') \in Nat
  BY <1>1, <1>3, FS_Subset, FS_CardinalityType
<1> QED
  BY <1>1, <1>2, <1>4 DEF JobsLeft

LEMMA JobLocked ==
    ASSUME TypeOK, ProcessInv, NEW j \in jobs, JobLocks(j)
    PROVE  JobsLeft' \in 0 .. JobsLeft - 1
<1> DEFINE n == [j EXCEPT !.held = TRUE]
<1>1. /\ IsFiniteSet(jobs) /\ IsFiniteSet(Unlocked)
      /\ Cardinality(jobs) \in Nat /\ Cardinality(Unlocked) \in Nat
  BY JobsCounted
<1>2. jobs' = (jobs \ {j}) \cup {n} /\ ~j.held
  BY DEF JobLocks
<1>3. n.held
  BY DEF TypeOK, Jobs
<1> HIDE DEF n
<1>4. IsFiniteSet(jobs \ {j}) /\ Cardinality(jobs \ {j}) = Cardinality(jobs) - 1
  BY <1>1, FS_RemoveElement
<1>5. /\ IsFiniteSet(jobs')
      /\ Cardinality(jobs') \in {Cardinality(jobs \ {j}), Cardinality(jobs \ {j}) + 1}
  BY <1>2, <1>4, FS_AddElement
<1>6. Cardinality(jobs') \in Nat /\ Cardinality(jobs') <= Cardinality(jobs)
  BY <1>1, <1>4, <1>5, FS_CardinalityType
<1>7. Unlocked' = Unlocked \ {j} /\ j \in Unlocked
  BY <1>2, <1>3 DEF Unlocked
<1>8. Cardinality(Unlocked') = Cardinality(Unlocked) - 1 /\ Cardinality(Unlocked') \in Nat
  BY <1>1, <1>7, FS_RemoveElement, FS_CardinalityType
<1> QED
  BY <1>1, <1>6, <1>8 DEF JobsLeft

LEMMA JobAdded ==
    ASSUME ProcessInv, NEW n, ~n.held, jobs' = jobs \cup {n}
    PROVE  JobsLeft' \in 0 .. JobsLeft + 2
<1>1. /\ IsFiniteSet(jobs) /\ IsFiniteSet(Unlocked)
      /\ Cardinality(jobs) \in Nat /\ Cardinality(Unlocked) \in Nat
  BY JobsCounted
<1>2. Cardinality(jobs') \in {Cardinality(jobs), Cardinality(jobs) + 1}
  BY <1>1, FS_AddElement
<1>3. Unlocked' = Unlocked \cup {n}
  BY DEF Unlocked
<1>4. Cardinality(Unlocked') \in {Cardinality(Unlocked), Cardinality(Unlocked) + 1}
  BY <1>1, <1>3, FS_AddElement
<1> QED
  BY <1>1, <1>2, <1>4 DEF JobsLeft

LEMMA JobsOrphaned ==
    ASSUME TypeOK, ProcessInv, jobs' = Orphans
    PROVE  JobsLeft' \in 0 .. JobsLeft
<1>1. /\ IsFiniteSet(jobs) /\ IsFiniteSet(Unlocked)
      /\ Cardinality(jobs) \in Nat /\ Cardinality(Unlocked) \in Nat
  BY JobsCounted
<1>2. jobs \subseteq Jobs /\ Unlocked \subseteq Jobs
  BY DEF TypeOK, Unlocked
<1>3. Cardinality(jobs') <= Cardinality(jobs) /\ Cardinality(jobs') \in Nat
  BY <1>1, <1>2, OrphansAreFewer, FS_CardinalityType DEF Orphans
<1>4. Unlocked' = {[j EXCEPT !.mine = FALSE] : j \in Unlocked}
  BY <1>2 DEF Unlocked, Orphans, Jobs
<1>5. Cardinality(Unlocked') <= Cardinality(Unlocked) /\ Cardinality(Unlocked') \in Nat
  BY <1>1, <1>2, <1>4, OrphansAreFewer, FS_CardinalityType
<1> QED
  BY <1>1, <1>3, <1>5 DEF JobsLeft

\* What happens to the run.
PhaseLeft == CASE phase = "run" -> 2 [] phase = "off" -> 0 [] OTHER -> 1

LEMMA RunCounted ==
    TypeOK => /\ RunLeft = Awaits(pc["install"]) + Awaits(pc["remove"]) + PhaseLeft
              /\ PhaseLeft \in 0 .. 2 /\ RunLeft \in 0 .. 12
<1> SUFFICES ASSUME TypeOK
             PROVE  /\ RunLeft = Awaits(pc["install"]) + Awaits(pc["remove"]) + PhaseLeft
                    /\ PhaseLeft \in 0 .. 2 /\ RunLeft \in 0 .. 12
  OBVIOUS
<1>1. RunLeft = Awaits(pc["install"]) + Awaits(pc["remove"]) + PhaseLeft
  BY DEF RunLeft, PhaseLeft
<1>2. PhaseLeft \in 0 .. 2
  BY DEF PhaseLeft
<1>3. Awaits(pc["install"]) \in 0 .. 5 /\ Awaits(pc["remove"]) \in 0 .. 5
  BY AwaitsCounted DEF Batches
<1> QED
  BY <1>1, <1>2, <1>3

LEMMA BatchGoesOn ==
    ASSUME TypeOK, TypeOK', phase' = phase, NEW t \in Batches, NEW k \in 0 .. 5,
           \A u \in Batches : u # t => pc'[u] = pc[u],
           Awaits(pc'[t]) + k <= Awaits(pc[t])
    PROVE  RunLeft' \in 0 .. RunLeft - k
<1>1. /\ RunLeft = Awaits(pc["install"]) + Awaits(pc["remove"]) + PhaseLeft
      /\ PhaseLeft \in 0 .. 2
  BY RunCounted
<1>2. RunLeft' = Awaits(pc'["install"]) + Awaits(pc'["remove"]) + PhaseLeft'
  BY DEF RunLeft, PhaseLeft
<1>3. PhaseLeft' = PhaseLeft
  BY DEF PhaseLeft
<1>4. \A u \in Batches : Awaits(pc[u]) \in 0 .. 5 /\ Awaits(pc'[u]) \in 0 .. 5
  <2>1. \A u \in Batches : pc'[u] \in {"query", "update", "spawn", "wait", "end", "error"}
    BY DEF TypeOK
  <2> QED
    BY <2>1, AwaitsValues, AwaitsCounted
<1>5. CASE t = "install"
  <2>1. pc'["remove"] = pc["remove"]
    BY <1>5 DEF Batches
  <2> QED
    BY <1>1, <1>2, <1>3, <1>4, <1>5, <2>1 DEF Batches
<1>6. CASE t = "remove"
  <2>1. pc'["install"] = pc["install"]
    BY <1>6 DEF Batches
  <2> QED
    BY <1>1, <1>2, <1>3, <1>4, <1>6, <2>1 DEF Batches
<1> QED
  BY <1>5, <1>6 DEF Batches

LEMMA RunFinishes ==
    ASSUME TypeOK, phase = "run", phase' # "run", \A t \in Batches : pc'[t] = "end"
    PROVE  RunLeft' \in 0 .. RunLeft - 1
<1>1. /\ RunLeft = Awaits(pc["install"]) + Awaits(pc["remove"]) + PhaseLeft
      /\ \A t \in Batches : Awaits(pc[t]) \in 0 .. 5
  BY RunCounted, AwaitsCounted
<1>2. pc'["install"] = "end" /\ pc'["remove"] = "end"
  BY DEF Batches
<1>3. RunLeft' = Awaits("end") + Awaits("end") + PhaseLeft'
  BY <1>2 DEF RunLeft, PhaseLeft
<1>4. PhaseLeft = 2 /\ PhaseLeft' \in 0 .. 1
  BY DEF PhaseLeft
<1>5. Awaits(pc["install"]) \in 0 .. 5 /\ Awaits(pc["remove"]) \in 0 .. 5
  BY <1>1 DEF Batches
<1>6. RunLeft' = PhaseLeft'
  BY <1>3, <1>4, AwaitsValues
<1>7. RunLeft \in 2 .. 12
  BY <1>1, <1>4, <1>5
<1> QED
  BY <1>4, <1>6, <1>7

\* The whole is lowered when one part is and no other is raised, or when a batch
\* pays for its new process.
LEMMA SomeLowers ==
    ASSUME NEW a \in Nat, NEW b \in Nat, NEW c \in Nat, NEW d \in Nat,
           NEW p, NEW q, NEW r, NEW s,
           \/ p \in 0 .. a - 1 /\ q = b /\ r = c /\ s = d
           \/ p = a /\ q \in 0 .. b - 1 /\ r \in 0 .. c /\ s = d
           \/ p = a /\ q \in 0 .. b /\ r \in 0 .. c - 1 /\ s = d
           \/ p = a /\ q \in 0 .. b + 2 /\ r \in 0 .. c - 3 /\ s = d
           \/ p = a /\ q = b /\ r = c /\ s \in 0 .. d - 1
    PROVE  p + q + r + s \in 0 .. (a + b + c + d) - 1
OBVIOUS

LEMMA StepUsesUp ==
    ASSUME IInv, IInv', ProcessInv, Next, faults' = faults, phase' = "run" => phase = "run"
    PROVE  AptLeft' \in 0 .. AptLeft - 1
<1> USE DEF IInv
<1>1. /\ PackagesLeft \in Nat /\ JobsLeft \in Nat /\ RunLeft \in Nat /\ HindrancesLeft \in Nat
      /\ jobs \subseteq Jobs /\ faults \in Nat /\ \A j \in jobs : j.batch \in Batches
  BY PackagesCounted, JobsCounted, RunCounted, FaultAssumption DEF HindrancesLeft, TypeOK, Jobs
<1>2. /\ status' = status => PackagesLeft' = PackagesLeft
      /\ jobs' = jobs => JobsLeft' = JobsLeft
      /\ phase' = phase /\ pc' = pc => RunLeft' = RunLeft
      /\ other' = other /\ interrupted' = interrupted => HindrancesLeft' = HindrancesLeft
  <2>1. status' = status => PackagesLeft' = PackagesLeft
    BY DEF PackagesLeft, Untouched, Halfway, Aim
  <2>2. jobs' = jobs => JobsLeft' = JobsLeft
    BY DEF JobsLeft, Unlocked
  <2>3. phase' = phase /\ pc' = pc => RunLeft' = RunLeft
    BY DEF RunLeft
  <2>4. other' = other /\ interrupted' = interrupted => HindrancesLeft' = HindrancesLeft
    BY DEF HindrancesLeft
  <2> QED
    BY <2>1, <2>2, <2>3, <2>4
<1>3. SUFFICES
        \/ /\ PackagesLeft' \in 0 .. PackagesLeft - 1 /\ JobsLeft' = JobsLeft
           /\ RunLeft' = RunLeft /\ HindrancesLeft' = HindrancesLeft
        \/ /\ PackagesLeft' = PackagesLeft /\ JobsLeft' \in 0 .. JobsLeft - 1
           /\ RunLeft' \in 0 .. RunLeft /\ HindrancesLeft' = HindrancesLeft
        \/ /\ PackagesLeft' = PackagesLeft /\ JobsLeft' \in 0 .. JobsLeft
           /\ RunLeft' \in 0 .. RunLeft - 1 /\ HindrancesLeft' = HindrancesLeft
        \/ /\ PackagesLeft' = PackagesLeft /\ JobsLeft' \in 0 .. JobsLeft + 2
           /\ RunLeft' \in 0 .. RunLeft - 3 /\ HindrancesLeft' = HindrancesLeft
        \/ /\ PackagesLeft' = PackagesLeft /\ JobsLeft' = JobsLeft
           /\ RunLeft' = RunLeft /\ HindrancesLeft' \in 0 .. HindrancesLeft - 1
  <2>1. /\ AptLeft = PackagesLeft + JobsLeft + RunLeft + HindrancesLeft
        /\ AptLeft' = PackagesLeft' + JobsLeft' + RunLeft' + HindrancesLeft'
    BY DEF AptLeft
  <2> QED
    BY <1>1, <2>1, SomeLowers
<1>4. CASE \E t \in Batches : Query(t) \/ Update(t)
  <2>1. PICK t \in Batches : Query(t) \/ Update(t)
    BY <1>4
  <2>2. /\ phase' = phase /\ status' = status /\ jobs' = jobs /\ other' = other
        /\ interrupted' = interrupted /\ \A u \in Batches : u # t => pc'[u] = pc[u]
    BY <2>1 DEF Query, Update, hostVars, TypeOK
  <2>3. \/ pc[t] = "query" /\ pc'[t] \in {"end", "update", "spawn"}
        \/ pc[t] = "update" /\ pc'[t] = "spawn"
    BY <2>1 DEF Query, Update, AfterQuery, TypeOK
  <2>4. Awaits(pc'[t]) + 1 <= Awaits(pc[t])
    BY <2>3, AwaitsValues
  <2>5. RunLeft' \in 0 .. RunLeft - 1
    BY <2>2, <2>4, BatchGoesOn
  <2> QED
    BY <1>1, <1>2, <2>2, <2>5
<1>5. CASE \E t \in Batches : Spawn(t)
  <2>1. PICK t \in Batches : Spawn(t)
    BY <1>5
  <2> DEFINE n == [batch |-> t, mine |-> TRUE, held |-> FALSE, todo |-> todo[t]]
  <2>2. /\ phase' = phase /\ status' = status /\ jobs' = jobs \cup {n} /\ other' = other
        /\ interrupted' = interrupted /\ \A u \in Batches : u # t => pc'[u] = pc[u]
        /\ pc[t] = "spawn" /\ pc'[t] = "wait" /\ ~n.held
    BY <2>1 DEF Spawn, TypeOK
  <2> HIDE DEF n
  <2>3. JobsLeft' \in 0 .. JobsLeft + 2
    BY <2>2, JobAdded
  <2>4. Awaits(pc'[t]) + 3 <= Awaits(pc[t])
    BY <2>2, AwaitsValues
  <2>5. RunLeft' \in 0 .. RunLeft - 3
    BY <2>2, <2>4, BatchGoesOn
  <2> QED
    BY <1>1, <1>2, <2>2, <2>3, <2>5
<1>6. CASE Finish \/ Stop
  <2>1. /\ status' = status /\ other' = other /\ interrupted' = interrupted
        /\ phase = "run" /\ phase' # "run" /\ \A t \in Batches : pc'[t] = "end"
        /\ jobs' = jobs \/ jobs' = Orphans
    BY <1>6 DEF Finish, Stop, hostVars
  <2>2. RunLeft' \in 0 .. RunLeft - 1
    BY <2>1, RunFinishes
  <2>3. JobsLeft' \in 0 .. JobsLeft
    BY <1>1, <1>2, <2>1, JobsOrphaned
  <2> QED
    BY <1>2, <2>1, <2>2, <2>3
<1>7. CASE Exit
  <2>1. /\ status' = status /\ other' = other /\ interrupted' = interrupted /\ jobs' = jobs
        /\ phase \in {"ok", "failed"} /\ phase' = "off" /\ pc' = pc
    BY <1>7 DEF Exit, hostVars
  <2>2. PhaseLeft = 1 /\ PhaseLeft' = 0
    BY <2>1 DEF PhaseLeft
  <2>3. RunLeft = Awaits(pc["install"]) + Awaits(pc["remove"]) + PhaseLeft
    BY RunCounted
  <2>4. RunLeft' = Awaits(pc["install"]) + Awaits(pc["remove"]) + PhaseLeft'
    BY <2>1 DEF RunLeft, PhaseLeft
  <2>5. \A t \in Batches : Awaits(pc[t]) \in 0 .. 5
    BY AwaitsCounted
  <2>6. RunLeft' \in 0 .. RunLeft - 1
    BY <2>2, <2>3, <2>4, <2>5 DEF Batches
  <2> QED
    BY <1>1, <1>2, <2>1, <2>6
<1>8. CASE \E j \in jobs : JobLocks(j)
  <2>1. PICK j \in jobs : JobLocks(j)
    BY <1>8
  <2>2. phase' = phase /\ pc' = pc /\ status' = status /\ other' = other /\ interrupted' = interrupted
    BY <2>1 DEF JobLocks, runVars
  <2>3. JobsLeft' \in 0 .. JobsLeft - 1
    BY <2>1, JobLocked
  <2> QED
    BY <1>1, <1>2, <2>2, <2>3
<1>9. CASE \E j \in jobs : JobIsRefused(j) \/ JobEnds(j)
  <2>1. PICK j \in jobs : JobIsRefused(j) \/ JobEnds(j)
    BY <1>9
  <2>2. /\ phase' = phase /\ status' = status /\ other' = other /\ interrupted' = interrupted
        /\ jobs' = jobs \ {j} /\ j.batch \in Batches
        /\ \A u \in Batches : u # j.batch => pc'[u] = pc[u]
        /\ pc'[j.batch] = pc[j.batch] \/ pc'[j.batch] \in {"end", "error"}
    BY <1>1, <2>1 DEF JobIsRefused, JobEnds, Tell, TypeOK
  <2>3. JobsLeft' \in 0 .. JobsLeft - 1
    BY <2>2, JobGone
  <2>4. Awaits(pc'[j.batch]) + 0 <= Awaits(pc[j.batch])
    <3>1. Awaits(pc[j.batch]) \in 0 .. 5
      BY <2>2, AwaitsCounted
    <3> QED
      BY <2>2, <3>1, AwaitsValues
  <2>5. RunLeft' \in 0 .. RunLeft - 0
    BY <2>2, <2>4, BatchGoesOn
  <2>6. RunLeft' \in 0 .. RunLeft
    BY <1>1, <2>5
  <2> QED
    BY <1>2, <2>2, <2>3, <2>6
<1>10. CASE \E j \in jobs : JobWorks(j)
  <2>1. PICK j \in jobs : JobWorks(j)
    BY <1>10
  <2>2. phase' = phase /\ pc' = pc /\ jobs' = jobs /\ other' = other /\ interrupted' = interrupted
    BY <2>1 DEF JobWorks, runVars
  <2>3. PackagesLeft' \in 0 .. PackagesLeft - 1
    BY <2>1, WorkLowers
  <2> QED
    BY <1>2, <2>2, <2>3
<1>11. CASE OtherUnlocks \/ Repair
  <2>1. phase' = phase /\ pc' = pc /\ jobs' = jobs /\ status' = status
    BY <1>11 DEF OtherUnlocks, Repair, runVars
  <2>2. HindrancesLeft' \in 0 .. HindrancesLeft - 1
    BY <1>11 DEF OtherUnlocks, Repair, HindrancesLeft
  <2> QED
    BY <1>2, <2>1, <2>2
<1>12. ASSUME \/ \E t \in Batches : TaskFails(t)
              \/ \E j \in jobs : JobFails(j)
              \/ Kill \/ OtherLocks \/ Drift
              \/ \E m \in {"Apply", "DryRun"} : Start(m)
       PROVE  FALSE
  BY <1>1, <1>12 DEF TaskFails, JobFails, Kill, OtherLocks, Drift, Fault, Start
<1> QED
  BY <1>4, <1>5, <1>6, <1>7, <1>8, <1>9, <1>10, <1>11, <1>12 DEF Next

\* A run and all that it leaves at work come to rest by themselves: as long as
\* nothing goes wrong and the program is not started again, every step uses up
\* some of what there is left.
THEOREM RunsComeToRest == Spec => ComesToRest
<1>1. IInv /\ IInv' /\ ProcessInv /\ [Next]_vars =>
          [faults' = faults /\ (phase' = "run" => phase = "run") =>
               AptLeft' \in 0 .. AptLeft - 1]_vars
  BY StepUsesUp
<1> QED
  BY <1>1, Invariant, ProcessesAreKnown, PTL DEF Spec, ComesToRest

=============================================================================
