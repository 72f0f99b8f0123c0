-------------------------- MODULE PlanOrder_proofs --------------------------
(***************************************************************************)
(* What the conventions of the build() functions give the whole plan, for  *)
(* all bundles, configurations and arguments.  By section:                 *)
(*                                                                         *)
(*   a Marker waits for all that its bundle added, triggers are            *)
(*     dependencies, and packages wait for apt (PlanInOrder);              *)
(*   the plan holds what the build() functions declare (PlanFollowsTables);*)
(*   so what the tables of all bundles order is ordered in every plan      *)
(*     (SharersAreOrdered), and what they keep at different depths never   *)
(*     shares a level (DriversStandAlone);                                 *)
(*   the plan is exactly what the arguments reach (PlanIsTheUnion);        *)
(*   and building it ends (BuildingEnds).                                  *)
(*                                                                         *)
(* None of the properties is inductive.  A Marker takes the ids it names   *)
(* from the variables of its build(), so the invariant says that each      *)
(* resource of a bundle that is not built yet is in a variable of the one  *)
(* build() that adds it (OwnedInv), and what its variables stand for       *)
(* (FramesInv).  That there is one such build() is NoReentry.              *)
(***************************************************************************)
EXTENDS PlanBuilder_proofs, FunctionTheorems, FiniteSetTheorems

\* What the theorems ask of the bundles.
Conventions ==
    /\ "apt" \in BundleNames
    /\ \A s \in Settings : \A b \in BundleNames : Conventional(s, b)

-----------------------------------------------------------------------------
(* The invariant.  Its parts take what they are about as arguments, since  *)
(* they are needed before and after a step.                                *)

\* What a variable bound by statement st is: a call's is the Marker of the
\* bundle, a resource's the resource itself; one that names apt waits for apt's
\* Marker.
Stands(f, st, ca, be, pl) ==
    /\ st.op = "call" => f.bound[st.as] = ca[st.as]
    /\ st.op = "add" => Place(pl[f.bound[st.as] + 1]) = <<f.bundle, st.as>>
    /\ st.op = "add" /\ "apt" \in st.deps => ca["apt"] \in be[f.bound[st.as] + 1]
FrameGood(f, stmts, ca, be, pl) ==
    /\ ca[f.bundle] = NoId
    /\ \A n \in 1 .. f.pc - 1 : Stands(f, stmts[n], ca, be, pl)
FramesInv ==
    \A k \in 1 .. Len(stack) : FrameGood(stack[k], body[stack[k].bundle], cache, behind, plan)

\* Resource i of f's bundle is in a variable of f.
Owns(f, stmts, i) ==
    \E n \in 1 .. f.pc - 1 : stmts[n].op = "add" /\ f.bound[stmts[n].as] = i
OwnedIn(frames, b, stmts, i) ==
    \E k \in 1 .. Len(frames) : frames[k].bundle = b /\ Owns(frames[k], stmts, i)
OwnedInv ==
    \A i \in Id :
        LET b == plan[i + 1].by IN cache[b] # NoId \/ OwnedIn(stack, b, body[b], i)

OrderInv == FramesInv /\ OwnedInv /\ ReadyMeansAll /\ TriggersAreDeps /\ AptComesFirst

-----------------------------------------------------------------------------
(* One frame.                                                              *)

\* The statements of a build().
LEMMA BodyKnown ==
    ASSUME Conventions, cfg \in Settings, NEW b \in BundleNames
    PROVE  /\ Len(body[b]) \in Nat \ {0}
           /\ body[b][Len(body[b])].op = "add"
           /\ \A k \in 1 .. Len(body[b]) :
                  /\ body[b][k].op \in {"call", "add"}
                  /\ body[b][k].as \in Vars
                  /\ body[b][k].op = "call" => body[b][k].as \in BundleNames
                  /\ body[b][k].op = "add" =>
                         /\ body[b][k].deps \subseteq {body[b][j].as : j \in 1 .. k - 1}
                         /\ body[b][k].as \notin BundleNames
                         /\ body[b][k].trig \subseteq body[b][k].deps
           /\ \A j, k \in 1 .. Len(body[b]) : body[b][j].as = body[b][k].as => j = k
           /\ ReadyNamesAll(body[b])
           /\ b # "apt" => AptNamed(body[b])
<1>1. Conventional(cfg, b)
  BY DEF Conventions
<1>2. LetsDiffer(body[b]) /\ ReadyNamesAll(body[b]) /\ TriggersNamed(body[b])
      /\ (b # "apt" => AptNamed(body[b]))
  BY <1>1 DEF Conventional, body
<1>3. /\ Len(body[b]) \in Nat \ {0}
      /\ body[b][Len(body[b])].op = "add"
      /\ \A k \in 1 .. Len(body[b]) :
             /\ body[b][k].op \in {"call", "add"}
             /\ body[b][k].as \in Vars
             /\ body[b][k].op = "call" => body[b][k].as \in BundleNames
             /\ body[b][k].op = "add" =>
                    body[b][k].deps \cup body[b][k].trig \subseteq {body[b][j].as : j \in 1 .. k - 1}
  BY BodiesAssumption DEF body
<1> QED
  BY <1>2, <1>3 DEF LetsDiffer, TriggersNamed

\* Binding the variable of the statement at hand leaves the others alone.
LEMMA BindOne ==
    ASSUME Conventions, cfg \in Settings, NEW m \in Nat, NEW f \in Frames(m), FrameOK(f), NEW id
    PROVE  LET stmts == body[f.bundle]
               g == Bind(f, stmts[f.pc].as, id)
           IN  /\ \A n \in 1 .. f.pc - 1 : g.bound[stmts[n].as] = f.bound[stmts[n].as]
               /\ g.bound[stmts[f.pc].as] = id
               /\ g.pc = f.pc + 1 /\ g.bundle = f.bundle
<1>1. /\ f.bundle \in BundleNames /\ f.pc \in Nat \ {0} /\ f.bound \in [Vars -> (0 .. m - 1) \cup {NoId}]
      /\ f.pc <= Len(body[f.bundle])
  BY DEF Frames, FrameOK
<1>2. /\ Len(body[f.bundle]) \in Nat \ {0}
      /\ \A k \in 1 .. Len(body[f.bundle]) : body[f.bundle][k].as \in Vars
      /\ \A j, k \in 1 .. Len(body[f.bundle]) :
             body[f.bundle][j].as = body[f.bundle][k].as => j = k
  BY <1>1, BodyKnown
<1>3. ASSUME NEW n \in 1 .. f.pc - 1
      PROVE  n \in 1 .. Len(body[f.bundle]) /\ f.pc \in 1 .. Len(body[f.bundle]) /\ n # f.pc
  BY <1>1, <1>2
<1>4. f.pc \in 1 .. Len(body[f.bundle])
  BY <1>1, <1>2
<1> QED
  BY <1>1, <1>2, <1>3, <1>4 DEF Bind

\* Where a statement names apt, its Marker is known.
LEMMA AptIsBound ==
    ASSUME Conventions, cfg \in Settings, NEW m \in Nat, NEW f \in Frames(m), FrameOK(f),
           FrameGood(f, body[f.bundle], cache, behind, plan),
           NEW n \in 1 .. f.pc, body[f.bundle][n].op = "add", "apt" \in body[f.bundle][n].deps
    PROVE  f.bound["apt"] = cache["apt"] /\ cache["apt"] # NoId
<1>1. f.bundle \in BundleNames /\ f.pc \in Nat \ {0} /\ f.pc <= Len(body[f.bundle])
  BY DEF Frames, FrameOK
<1>2. Len(body[f.bundle]) \in Nat \ {0} /\ n \in 1 .. Len(body[f.bundle])
  BY <1>1, BodyKnown
<1>3. "apt" \in {body[f.bundle][j].as : j \in 1 .. n - 1}
  BY <1>1, <1>2, BodyKnown
<1>4. PICK j \in 1 .. n - 1 : body[f.bundle][j].as = "apt"
  BY <1>3
<1>5. j \in 1 .. f.pc - 1 /\ j \in 1 .. Len(body[f.bundle])
  BY <1>1, <1>2
<1>6. body[f.bundle][j].op = "call"
  BY <1>1, <1>4, <1>5, BodyKnown DEF Conventions
<1> QED
  BY <1>4, <1>5, <1>6 DEF FrameGood, Stands, FrameOK

\* A frame stays good when the plan and the memo grow.
LEMMA FrameKept ==
    ASSUME Conventions, IInv, NEW f \in Frames(Len(plan)), FrameOK(f),
           FrameGood(f, body[f.bundle], cache, behind, plan),
           NEW cb, NEW bf, NEW pf, cb[f.bundle] = NoId,
           \A b \in BundleNames : cache[b] # NoId => cb[b] = cache[b],
           \A i \in 0 .. Len(plan) - 1 : bf[i + 1] = behind[i + 1] /\ pf[i + 1] = plan[i + 1]
    PROVE  FrameGood(f, body[f.bundle], cb, bf, pf)
<1>1. /\ f.bundle \in BundleNames /\ f.pc \in Nat \ {0} /\ f.pc <= Len(body[f.bundle])
      /\ f.bound \in [Vars -> (0 .. Len(plan) - 1) \cup {NoId}]
      /\ cfg \in Settings /\ Len(plan) \in Nat
  BY Ranges DEF Frames, FrameOK, IInv, TypeOK
<1>2. ASSUME NEW n \in 1 .. f.pc - 1
      PROVE  Stands(f, body[f.bundle][n], cb, bf, pf)
  <2> DEFINE st == body[f.bundle][n]
  <2>1. n \in 1 .. Len(body[f.bundle]) /\ n \in 1 .. f.pc
    BY <1>1, BodyKnown
  <2>2. /\ st.as \in Vars /\ f.bound[st.as] # NoId
        /\ st.op = "call" => st.as \in BundleNames
        /\ Stands(f, st, cache, behind, plan)
    BY <1>1, <2>1, BodyKnown DEF FrameOK, FrameGood
  <2>3. f.bound[st.as] \in 0 .. Len(plan) - 1
    BY <1>1, <2>2
  <2>4. ASSUME st.op = "call" PROVE f.bound[st.as] = cb[st.as]
    BY <2>2, <2>4 DEF Stands
  <2>5. ASSUME st.op = "add", "apt" \in st.deps
        PROVE  cb["apt"] \in bf[f.bound[st.as] + 1]
    <3>1. cache["apt"] # NoId
      BY <1>1, <2>1, <2>5, AptIsBound
    <3>2. cb["apt"] = cache["apt"]
      BY <3>1 DEF Conventions
    <3> QED
      BY <2>2, <2>3, <2>5, <3>2 DEF Stands
  <2>6. ASSUME st.op = "add" PROVE Place(pf[f.bound[st.as] + 1]) = <<f.bundle, st.as>>
    <3>1. pf[f.bound[st.as] + 1] = plan[f.bound[st.as] + 1]
      BY <2>3
    <3> QED
      BY <2>2, <2>6, <3>1 DEF Stands
  <2> QED
    BY <2>4, <2>5, <2>6 DEF Stands
<1> QED
  BY <1>2 DEF FrameGood

\* ... and when its next variable is bound to what it shall stand for.
LEMMA FrameAdvances ==
    ASSUME Conventions, cfg \in Settings, NEW m \in Nat, NEW f \in Frames(m), FrameOK(f),
           NEW cb, NEW bf, NEW pf, FrameGood(f, body[f.bundle], cb, bf, pf), NEW id,
           LET st == body[f.bundle][f.pc]
           IN  /\ st.op = "call" => id = cb[st.as]
               /\ st.op = "add" => Place(pf[id + 1]) = <<f.bundle, st.as>>
               /\ st.op = "add" /\ "apt" \in st.deps => cb["apt"] \in bf[id + 1]
    PROVE  LET g == Bind(f, body[f.bundle][f.pc].as, id)
           IN  FrameGood(g, body[f.bundle], cb, bf, pf)
<1> DEFINE g == Bind(f, body[f.bundle][f.pc].as, id)
<1>1. f.pc \in Nat \ {0}
  BY DEF Frames
<1>2. /\ \A n \in 1 .. f.pc - 1 : g.bound[body[f.bundle][n].as] = f.bound[body[f.bundle][n].as]
      /\ g.bound[body[f.bundle][f.pc].as] = id
      /\ g.pc = f.pc + 1 /\ g.bundle = f.bundle
  BY BindOne
<1> HIDE DEF g
<1>3. ASSUME NEW n \in 1 .. g.pc - 1 PROVE Stands(g, body[f.bundle][n], cb, bf, pf)
  <2>1. CASE n = f.pc
    BY <1>2, <2>1 DEF Stands
  <2>2. CASE n # f.pc
    <3>1. n \in 1 .. f.pc - 1
      BY <1>1, <1>2, <2>2
    <3>2. Stands(f, body[f.bundle][n], cb, bf, pf)
      BY <3>1 DEF FrameGood
    <3>3. g.bound[body[f.bundle][n].as] = f.bound[body[f.bundle][n].as] /\ g.bundle = f.bundle
      BY <1>2, <3>1
    <3> QED
      BY <3>2, <3>3 DEF Stands
  <2> QED
    BY <2>1, <2>2
<1> QED
  BY <1>2, <1>3 DEF FrameGood, g

\* Nor is what a frame owns lost; a resource just added is its own.
LEMMA OwnsMore ==
    ASSUME Conventions, cfg \in Settings, NEW m \in Nat, NEW f \in Frames(m), FrameOK(f), NEW id
    PROVE  LET g == Bind(f, body[f.bundle][f.pc].as, id)
           IN  /\ \A i : Owns(f, body[f.bundle], i) => Owns(g, body[f.bundle], i)
               /\ body[f.bundle][f.pc].op = "add" => Owns(g, body[f.bundle], id)
<1> DEFINE g == Bind(f, body[f.bundle][f.pc].as, id)
<1>1. f.pc \in Nat \ {0}
  BY DEF Frames
<1>2. /\ \A n \in 1 .. f.pc - 1 : g.bound[body[f.bundle][n].as] = f.bound[body[f.bundle][n].as]
      /\ g.bound[body[f.bundle][f.pc].as] = id
      /\ g.pc = f.pc + 1 /\ g.bundle = f.bundle
  BY BindOne
<1> HIDE DEF g
<1>3. f.pc \in 1 .. g.pc - 1 /\ \A n \in 1 .. f.pc - 1 : n \in 1 .. g.pc - 1
  <2>1. ASSUME NEW a \in Nat \ {0}
        PROVE  a \in 1 .. (a + 1) - 1 /\ \A n \in 1 .. a - 1 : n \in 1 .. (a + 1) - 1
    OBVIOUS
  <2> QED
    BY <1>1, <1>2, <2>1
<1>4. ASSUME NEW i, Owns(f, body[f.bundle], i) PROVE Owns(g, body[f.bundle], i)
  BY <1>2, <1>3, <1>4 DEF Owns
<1>5. ASSUME body[f.bundle][f.pc].op = "add" PROVE Owns(g, body[f.bundle], id)
  BY <1>2, <1>3, <1>5 DEF Owns
<1> QED
  BY <1>4, <1>5 DEF g

-----------------------------------------------------------------------------
(* The stack and the plan.                                                 *)

\* What is known of every frame.
LEMMA FramesKnown ==
    ASSUME IInv, NEW k \in 1 .. Len(stack)
    PROVE  stack[k] \in Frames(Len(plan)) /\ FrameOK(stack[k]) /\ stack[k].bundle \in BundleNames
<1>1. stack[k] \in Frames(Len(plan)) /\ FrameOK(stack[k])
  BY Ranges, StackParts DEF IInv
<1> QED
  BY <1>1 DEF Frames

LEMMA TopKnown ==
    ASSUME IInv, stack # <<>>
    PROVE  /\ Len(stack) \in Nat \ {0} /\ Len(stack) \in 1 .. Len(stack)
           /\ Top = stack[Len(stack)] /\ Top \in Frames(Len(plan)) /\ FrameOK(Top)
           /\ Top.bundle \in BundleNames /\ Stmt = body[Top.bundle][Top.pc]
           /\ Top.pc \in Nat \ {0}
           /\ cfg \in Settings /\ Len(plan) \in Nat
<1>1. Len(stack) \in Nat \ {0} /\ Len(stack) \in 1 .. Len(stack) /\ Len(plan) \in Nat
  BY Ranges DEF IInv
<1>2. Top = stack[Len(stack)] /\ FrameOK(Top) /\ Top \in Frames(Len(plan))
  BY <1>1, FramesKnown DEF Top
<1> QED
  BY <1>1, <1>2 DEF Stmt, IInv, TypeOK, Frames

LEMMA TopReplaced ==
    ASSUME IInv, stack # <<>>, NEW g, stack' = [stack EXCEPT ![Len(stack)] = g]
    PROVE  /\ Len(stack') = Len(stack)
           /\ \A k \in 1 .. Len(stack) : stack'[k] = IF k = Len(stack) THEN g ELSE stack[k]
<1>1. stack \in Seq(Frames(Len(plan)) \cup {g}) /\ Len(stack) \in 1 .. Len(stack)
  BY Ranges, SeqMonotonic DEF IInv
<1> QED
  BY <1>1, ExceptSeq

\* What Plan::add leaves and what it adds.
LEMMA NodeAdded ==
    ASSUME IInv, stack # <<>>, Stmt.op = "add", AddNode
    PROVE  /\ Len(plan') = Len(plan) + 1
           /\ \A i \in 0 .. Len(plan) - 1 :
                  plan'[i + 1] = plan[i + 1] /\ behind'[i + 1] = behind[i + 1]
           /\ plan'[Len(plan) + 1].by = Top.bundle
           /\ plan'[Len(plan) + 1].as = Stmt.as
           /\ plan'[Len(plan) + 1].kind = Stmt.kind
           /\ plan'[Len(plan) + 1].on = Stmt.on
           /\ plan'[Len(plan) + 1].deps = Ids(Stmt.deps)
           /\ plan'[Len(plan) + 1].trig = Ids(Stmt.trig)
           /\ Ids(Stmt.deps) \subseteq 0 .. Len(plan) - 1
           /\ behind'[Len(plan) + 1] =
                  Ids(Stmt.deps)
                      \cup UNION {behind[d + 1] : d \in Ids(Stmt.deps) \cap 0 .. Len(plan) - 1}
           /\ Ids(Stmt.deps) \subseteq behind'[Len(plan) + 1]
           /\ \A d \in Ids(Stmt.deps) : behind[d + 1] \subseteq behind'[Len(plan) + 1]
<1>1. /\ plan \in Seq(Resources) /\ Len(plan) \in Nat
      /\ Ids(Stmt.deps) \subseteq 0 .. Len(plan) - 1
      /\ behind \in Seq(SUBSET Nat) /\ Len(behind) = Len(plan)
  BY Ranges, StatementKnown DEF IInv, TypeOK
<1> DEFINE r == [by |-> Top.bundle, as |-> Stmt.as, kind |-> Stmt.kind, on |-> Stmt.on,
                 deps |-> Ids(Stmt.deps), trig |-> Ids(Stmt.trig)]
           w == Ids(Stmt.deps)
                    \cup UNION {behind[d + 1] : d \in Ids(Stmt.deps) \cap 0 .. Len(plan) - 1}
<1>2. plan' = Append(plan, r) /\ behind' = Append(behind, w)
  BY DEF AddNode
<1>3. /\ r.by = Top.bundle /\ r.as = Stmt.as /\ r.kind = Stmt.kind /\ r.on = Stmt.on
      /\ r.deps = Ids(Stmt.deps) /\ r.trig = Ids(Stmt.trig)
  OBVIOUS
<1>4. Ids(Stmt.deps) \subseteq w /\ \A d \in Ids(Stmt.deps) : behind[d + 1] \subseteq w
  BY <1>1
<1>8. w = Ids(Stmt.deps)
              \cup UNION {behind[d + 1] : d \in Ids(Stmt.deps) \cap 0 .. Len(plan) - 1}
  OBVIOUS
<1> HIDE DEF r, w
<1>5. /\ Len(plan') = Len(plan) + 1 /\ plan'[Len(plan) + 1] = r
      /\ \A k \in 1 .. Len(plan) : plan'[k] = plan[k]
  <2>1. plan \in Seq(Resources \cup {r})
    BY <1>1, SeqMonotonic
  <2> QED
    BY <1>2, <2>1, AppendProperties
<1>6. /\ behind'[Len(plan) + 1] = w
      /\ \A k \in 1 .. Len(plan) : behind'[k] = behind[k]
  <2>1. behind \in Seq((SUBSET Nat) \cup {w})
    BY <1>1, SeqMonotonic
  <2> QED
    BY <1>1, <1>2, <2>1, AppendProperties
<1>7. \A i \in 0 .. Len(plan) - 1 : i + 1 \in 1 .. Len(plan)
  BY <1>1
<1> QED
  BY <1>1, <1>3, <1>4, <1>5, <1>6, <1>7, <1>8

\* What names apt, and every package, waits for apt's Marker.
LEMMA AptReached ==
    ASSUME Conventions, IInv, FramesInv, stack # <<>>, Stmt.op = "add", AddNode,
           \/ "apt" \in Stmt.deps
           \/ Stmt.kind \in PackageKinds /\ Top.bundle # "apt"
    PROVE  cache["apt"] # NoId /\ cache["apt"] \in behind'[Len(plan) + 1]
<1>1. /\ Top \in Frames(Len(plan)) /\ FrameOK(Top) /\ Top.bundle \in BundleNames
      /\ Stmt = body[Top.bundle][Top.pc] /\ Top.pc \in 1 .. Top.pc
      /\ Top.pc \in Nat \ {0} /\ cfg \in Settings /\ Len(plan) \in Nat
      /\ FrameGood(Top, body[Top.bundle], cache, behind, plan)
  BY TopKnown DEF FramesInv
<1>2. /\ Ids(Stmt.deps) \subseteq behind'[Len(plan) + 1]
      /\ \A d \in Ids(Stmt.deps) : behind[d + 1] \subseteq behind'[Len(plan) + 1]
  BY NodeAdded
<1>3. CASE "apt" \in Stmt.deps
  <2>1. Top.bound["apt"] = cache["apt"] /\ cache["apt"] # NoId
    BY <1>1, <1>3, AptIsBound
  <2>2. Top.bound["apt"] \in Ids(Stmt.deps)
    BY <1>3 DEF Ids
  <2> QED
    BY <1>2, <2>1, <2>2
<1>4. CASE "apt" \notin Stmt.deps
  <2>1. AptNamed(body[Top.bundle])
    BY <1>1, <1>4, BodyKnown
  <2>2. Len(body[Top.bundle]) \in Nat /\ Top.pc \in 1 .. Len(body[Top.bundle])
    BY <1>1, BodyKnown DEF FrameOK
  <2>3. PICK j \in 1 .. Top.pc - 1 : /\ body[Top.bundle][j].op = "add"
                                    /\ body[Top.bundle][j].as \in Stmt.deps
                                    /\ "apt" \in body[Top.bundle][j].deps
    BY <1>1, <1>4, <2>1, <2>2 DEF AptNamed
  <2>4. cache["apt"] \in behind[Top.bound[body[Top.bundle][j].as] + 1]
    BY <1>1, <2>3 DEF FrameGood, Stands
  <2>5. Top.bound[body[Top.bundle][j].as] \in Ids(Stmt.deps)
    BY <2>3 DEF Ids
  <2>6. cache["apt"] # NoId
    <3>1. j \in 1 .. Top.pc
      BY <1>1
    <3> QED
      BY <1>1, <2>3, <3>1, AptIsBound
  <2> QED
    BY <1>2, <2>4, <2>5, <2>6
<1> QED
  BY <1>3, <1>4

\* Adding a resource keeps what is said of triggers and packages.
LEMMA NodesInOrder ==
    ASSUME Conventions, IInv, OrderInv, stack # <<>>, Stmt.op = "add", AddNode,
           \A b \in BundleNames : cache[b] # NoId => cache'[b] = cache[b]
    PROVE  TriggersAreDeps' /\ AptComesFirst'
<1>1. /\ Top.bundle \in BundleNames /\ Stmt = body[Top.bundle][Top.pc]
      /\ cfg \in Settings /\ Len(plan) \in Nat
  BY TopKnown
<1>2. Top.pc \in 1 .. Len(body[Top.bundle])
  BY StatementKnown DEF IInv
<1>3. Stmt.trig \subseteq Stmt.deps
  BY <1>1, <1>2, BodyKnown
<1>4. Ids(Stmt.trig) \subseteq Ids(Stmt.deps)
  BY <1>3 DEF Ids
<1>5. \A i \in 0 .. Len(plan') - 1 : i \in 0 .. Len(plan) - 1 \/ i = Len(plan)
  BY <1>1, NodeAdded
<1>6. TriggersAreDeps'
  <2> SUFFICES ASSUME NEW i \in 0 .. Len(plan') - 1
               PROVE  plan'[i + 1].trig \subseteq plan'[i + 1].deps
    BY DEF TriggersAreDeps, Id, Node
  <2>1. CASE i \in 0 .. Len(plan) - 1
    BY <2>1, NodeAdded DEF OrderInv, TriggersAreDeps, Id, Node
  <2>2. CASE i = Len(plan)
    BY <1>4, <2>2, NodeAdded
  <2> QED
    BY <1>5, <2>1, <2>2
<1>7. AptComesFirst'
  <2> SUFFICES ASSUME NEW i \in 0 .. Len(plan') - 1,
                      plan'[i + 1].kind \in PackageKinds, plan'[i + 1].by # "apt"
               PROVE  cache'["apt"] \in behind'[i + 1]
    BY DEF AptComesFirst, Id, Node
  <2>1. CASE i \in 0 .. Len(plan) - 1
    <3>1. cache["apt"] \in behind[i + 1]
      BY <2>1, NodeAdded DEF OrderInv, AptComesFirst, Id, Node
    <3>2. behind \in Seq(SUBSET Nat) /\ Len(behind) = Len(plan)
      BY DEF IInv, TypeOK
    <3>3. i + 1 \in 1 .. Len(behind)
      BY <1>1, <2>1, <3>2
    <3>4. behind[i + 1] \in SUBSET Nat
      BY <3>2, <3>3, ElementOfSeq
    <3>5. cache["apt"] # NoId
      BY <3>1, <3>4 DEF NoId
    <3> QED
      BY <2>1, <3>1, <3>5, NodeAdded DEF Conventions
  <2>2. CASE i = Len(plan)
    <3>1. Stmt.kind \in PackageKinds /\ Top.bundle # "apt"
      BY <2>2, NodeAdded
    <3>2. cache["apt"] # NoId /\ cache["apt"] \in behind'[Len(plan) + 1]
      BY <3>1, AptReached DEF OrderInv
    <3> QED
      BY <2>2, <3>2 DEF Conventions
  <2> QED
    BY <1>5, <2>1, <2>2
<1> QED
  BY <1>6, <1>7

-----------------------------------------------------------------------------
(* One lemma for each action.                                              *)

LEMMA OrderInit == Init => OrderInv
<1> SUFFICES ASSUME Init PROVE OrderInv
  OBVIOUS
<1>1. Len(stack) = 0 /\ Len(plan) = 0
  BY DEF Init
<1>2. \A b \in BundleNames : cache[b] = NoId
  BY DEF Init
<1> QED
  BY <1>1, <1>2 DEF OrderInv, FramesInv, OwnedInv, ReadyMeansAll, TriggersAreDeps, AptComesFirst,
                    Id, Cached

\* Steps that leave plan and memo alone keep what is said of them.
LEMMA PlanKept ==
    ASSUME OrderInv, UNCHANGED <<cfg, cache, plan, behind>>
    PROVE  ReadyMeansAll' /\ TriggersAreDeps' /\ AptComesFirst'
BY DEF OrderInv, ReadyMeansAll, TriggersAreDeps, AptComesFirst, Id, Node, Cached

LEMMA DispatchOrder ==
    ASSUME Conventions, IInv, OrderInv, Dispatch PROVE OrderInv'
<1>1. /\ stack = <<>> /\ UNCHANGED <<cfg, cache, plan, behind>>
      /\ stack' = IF Cached(asked[at]) THEN <<>> ELSE <<Enter(asked[at])>>
  BY DEF Dispatch
<1>2. FramesInv'
  <2> SUFFICES ASSUME NEW k \in 1 .. Len(stack')
               PROVE  FrameGood(stack'[k], body'[stack'[k].bundle], cache', behind', plan')
    BY DEF FramesInv
  <2>1. ~Cached(asked[at]) /\ stack' = <<Enter(asked[at])>>
    BY <1>1
  <2>2. k = 1 /\ stack'[k] = Enter(asked[at])
    BY <2>1
  <2>3. stack'[k].pc = 1 /\ stack'[k].bundle = asked[at]
    BY <2>2 DEF Enter
  <2> QED
    BY <1>1, <2>1, <2>3 DEF FrameGood, Cached
<1>3. OwnedInv'
  <2> SUFFICES ASSUME NEW i \in Id PROVE cache[plan[i + 1].by] # NoId
    BY <1>1 DEF OwnedInv, Id
  <2>1. Len(stack) = 0
    BY <1>1
  <2> QED
    BY <2>1 DEF OrderInv, OwnedInv, OwnedIn
<1> QED
  BY <1>1, <1>2, <1>3, PlanKept DEF OrderInv

LEMMA CallBuildOrder ==
    ASSUME Conventions, IInv, OrderInv, CallBuild PROVE OrderInv'
<1>1. /\ stack # <<>> /\ Stmt.op = "call" /\ ~Cached(Stmt.as)
      /\ stack' = Append(stack, Enter(Stmt.as)) /\ UNCHANGED <<cfg, cache, plan, behind>>
  BY DEF CallBuild
<1> DEFINE f == Enter(Stmt.as)
<1>2. f.pc = 1 /\ f.bundle = Stmt.as
  BY DEF Enter
<1>3. stack' = Append(stack, f)
  BY <1>1
<1> HIDE DEF f
<1>4. /\ Len(stack) \in Nat /\ Len(stack') = Len(stack) + 1 /\ stack'[Len(stack) + 1] = f
      /\ \A k \in 1 .. Len(stack) : stack'[k] = stack[k]
  <2>1. stack \in Seq(Frames(Len(plan)) \cup {f}) /\ Len(stack) \in Nat
    BY Ranges, SeqMonotonic DEF IInv
  <2> QED
    BY <1>3, <2>1, AppendProperties
<1>5. body' = body
  BY <1>1 DEF body
<1>6. FramesInv'
  <2> SUFFICES ASSUME NEW k \in 1 .. Len(stack) + 1
               PROVE  FrameGood(stack'[k], body[stack'[k].bundle], cache, behind, plan)
    BY <1>1, <1>4, <1>5 DEF FramesInv
  <2>1. CASE k = Len(stack) + 1
    BY <1>1, <1>2, <1>4, <2>1 DEF FrameGood, Cached
  <2>2. CASE k # Len(stack) + 1
    <3>1. k \in 1 .. Len(stack)
      BY <1>4, <2>2
    <3> QED
      BY <1>4, <3>1 DEF OrderInv, FramesInv
  <2> QED
    BY <2>1, <2>2
<1>7. ASSUME NEW b, NEW i, OwnedIn(stack, b, body[b], i)
      PROVE  OwnedIn(stack', b, body[b], i)
  <2>1. PICK k \in 1 .. Len(stack) : stack[k].bundle = b /\ Owns(stack[k], body[b], i)
    BY <1>7 DEF OwnedIn
  <2>2. k \in 1 .. Len(stack')
    BY <1>4
  <2> QED
    BY <1>4, <2>1, <2>2 DEF OwnedIn
<1>8. OwnedInv'
  BY <1>1, <1>5, <1>7 DEF OrderInv, OwnedInv, Id
<1> QED
  BY <1>1, <1>6, <1>8, PlanKept DEF OrderInv

\* The innermost frame goes on, on an equal or longer plan.
LEMMA TopAdvances ==
    ASSUME Conventions, IInv, OrderInv, stack # <<>>, cfg' = cfg, cache' = cache, NEW id,
           \A i \in 0 .. Len(plan) - 1 :
               behind'[i + 1] = behind[i + 1] /\ plan'[i + 1] = plan[i + 1],
           Stmt.op = "call" => id = cache[Stmt.as],
           Stmt.op = "add" => Place(plan'[id + 1]) = <<Top.bundle, Stmt.as>>,
           Stmt.op = "add" /\ "apt" \in Stmt.deps => cache["apt"] \in behind'[id + 1],
           stack' = [stack EXCEPT ![Len(stack)] = Bind(Top, Stmt.as, id)]
    PROVE  /\ FramesInv'
           /\ \A b, i : OwnedIn(stack, b, body[b], i) => OwnedIn(stack', b, body[b], i)
           /\ Stmt.op = "add" => OwnedIn(stack', Top.bundle, body[Top.bundle], id)
<1> DEFINE g == Bind(Top, body[Top.bundle][Top.pc].as, id)
<1>1. /\ Len(stack) \in 1 .. Len(stack) /\ Top = stack[Len(stack)] /\ Top \in Frames(Len(plan))
      /\ FrameOK(Top) /\ Top.bundle \in BundleNames /\ Stmt = body[Top.bundle][Top.pc]
      /\ cfg \in Settings /\ Len(plan) \in Nat
  BY TopKnown
<1>2. stack' = [stack EXCEPT ![Len(stack)] = g]
  BY <1>1
<1>3. g.bundle = Top.bundle
  BY DEF Bind
<1>4. FrameGood(Top, body[Top.bundle], cache, behind', plan')
  BY <1>1, FrameKept DEF OrderInv, FramesInv, FrameGood
<1>5. FrameGood(g, body[Top.bundle], cache, behind', plan')
  BY <1>1, <1>4, FrameAdvances
<1>6. /\ \A i : Owns(Top, body[Top.bundle], i) => Owns(g, body[Top.bundle], i)
      /\ Stmt.op = "add" => Owns(g, body[Top.bundle], id)
  BY <1>1, OwnsMore
<1> HIDE DEF g
<1>7. /\ Len(stack') = Len(stack)
      /\ \A k \in 1 .. Len(stack) : stack'[k] = IF k = Len(stack) THEN g ELSE stack[k]
  BY <1>2, TopReplaced
<1>8. body' = body
  BY DEF body
<1>9. FramesInv'
  <2> SUFFICES ASSUME NEW k \in 1 .. Len(stack)
               PROVE  FrameGood(stack'[k], body[stack'[k].bundle], cache, behind', plan')
    BY <1>7, <1>8 DEF FramesInv
  <2>1. CASE k = Len(stack)
    BY <1>3, <1>5, <1>7, <2>1
  <2>2. CASE k # Len(stack)
    <3>1. FrameGood(stack[k], body[stack[k].bundle], cache, behind, plan)
      BY DEF OrderInv, FramesInv
    <3>2. FrameGood(stack[k], body[stack[k].bundle], cache, behind', plan')
      BY <3>1, FramesKnown, FrameKept DEF FrameGood
    <3> QED
      BY <1>7, <2>2, <3>2
  <2> QED
    BY <2>1, <2>2
<1>10. ASSUME NEW b, NEW i, OwnedIn(stack, b, body[b], i)
       PROVE  OwnedIn(stack', b, body[b], i)
  <2>1. PICK k \in 1 .. Len(stack) : stack[k].bundle = b /\ Owns(stack[k], body[b], i)
    BY <1>10 DEF OwnedIn
  <2>2. stack'[k].bundle = b /\ Owns(stack'[k], body[b], i)
    BY <1>1, <1>3, <1>6, <1>7, <2>1
  <2> QED
    BY <1>7, <2>2 DEF OwnedIn
<1>11. ASSUME Stmt.op = "add" PROVE OwnedIn(stack', Top.bundle, body[Top.bundle], id)
  BY <1>1, <1>3, <1>6, <1>7, <1>11 DEF OwnedIn
<1> QED
  BY <1>9, <1>10, <1>11

LEMMA CallCachedOrder ==
    ASSUME Conventions, IInv, OrderInv, CallCached PROVE OrderInv'
<1>1. /\ stack # <<>> /\ Stmt.op = "call" /\ UNCHANGED <<cfg, cache, plan, behind>>
      /\ stack' = [stack EXCEPT ![Len(stack)] = Bind(Top, Stmt.as, cache[Stmt.as])]
  BY DEF CallCached
<1>2. /\ FramesInv'
      /\ \A b, i : OwnedIn(stack, b, body[b], i) => OwnedIn(stack', b, body[b], i)
  BY <1>1, TopAdvances
<1>3. body' = body
  BY <1>1 DEF body
<1>4. OwnedInv'
  BY <1>1, <1>2, <1>3 DEF OrderInv, OwnedInv, Id
<1> QED
  BY <1>1, <1>2, <1>4, PlanKept DEF OrderInv

LEMMA AddResourceOrder ==
    ASSUME Conventions, IInv, OrderInv, AddResource PROVE OrderInv'
<1>1. /\ stack # <<>> /\ Stmt.op = "add" /\ AddNode /\ UNCHANGED <<cfg, cache>>
      /\ stack' = [stack EXCEPT ![Len(stack)] = Bind(Top, Stmt.as, NewId)]
  BY DEF AddResource
<1>2. /\ Len(plan) \in Nat /\ Len(plan') = Len(plan) + 1 /\ NewId = Len(plan)
      /\ \A i \in 0 .. Len(plan) - 1 :
             plan'[i + 1] = plan[i + 1] /\ behind'[i + 1] = behind[i + 1]
      /\ plan'[Len(plan) + 1].by = Top.bundle /\ plan'[Len(plan) + 1].as = Stmt.as
      /\ \A i \in 0 .. Len(plan') - 1 : i \in Id \/ i = Len(plan)
  BY <1>1, TopKnown, NodeAdded DEF NewId, Id
<1>3. /\ FramesInv'
      /\ \A b, i : OwnedIn(stack, b, body[b], i) => OwnedIn(stack', b, body[b], i)
      /\ OwnedIn(stack', Top.bundle, body[Top.bundle], NewId)
      /\ body' = body
  <2>1. "apt" \in Stmt.deps => cache["apt"] \in behind'[NewId + 1]
    BY <1>1, <1>2, AptReached DEF OrderInv
  <2>2. Place(plan'[NewId + 1]) = <<Top.bundle, Stmt.as>>
    BY <1>2 DEF Place
  <2> QED
    BY <1>1, <1>2, <2>1, <2>2, TopAdvances DEF body
<1>4. OwnedInv'
  <2> SUFFICES ASSUME NEW i \in 0 .. Len(plan') - 1
               PROVE  LET b == plan'[i + 1].by
                      IN  cache[b] # NoId \/ OwnedIn(stack', b, body[b], i)
    BY <1>1, <1>3 DEF OwnedInv, Id
  <2>1. CASE i \in Id
    BY <1>1, <1>2, <1>3, <2>1 DEF OrderInv, OwnedInv, Id
  <2>2. CASE i = Len(plan)
    BY <1>2, <1>3, <2>2
  <2> QED
    BY <1>2, <2>1, <2>2
<1>5. ReadyMeansAll'
  <2> SUFFICES ASSUME NEW b \in BundleNames, cache[b] # NoId,
                      NEW i \in 0 .. Len(plan') - 1, plan'[i + 1].by = b
               PROVE  i \in behind'[cache[b] + 1] \cup {cache[b]}
    BY <1>1 DEF ReadyMeansAll, Cached, Id, Node
  <2>1. cache[Top.bundle] = NoId
    BY <1>1, TopKnown DEF OrderInv, FramesInv, FrameGood
  <2>2. i \in Id
    BY <1>2, <2>1
  <2>3. i \in behind[cache[b] + 1] \cup {cache[b]}
    BY <1>2, <2>2 DEF OrderInv, ReadyMeansAll, Cached, Id, Node
  <2>4. cache[b] \in 0 .. Len(plan) - 1
    BY Ranges DEF IInv
  <2> QED
    BY <1>2, <2>3, <2>4
<1>6. TriggersAreDeps' /\ AptComesFirst'
  BY <1>1, NodesInOrder
<1> QED
  BY <1>3, <1>4, <1>5, <1>6 DEF OrderInv

\* The frames that are left when a build() returns.
LEMMA CallerAdvances ==
    ASSUME IInv, AddReady
    PROVE  /\ Len(stack') = Len(stack) - 1
           /\ \A k \in 1 .. Len(stack) - 1 :
                  /\ k = Len(stack) - 1 =>
                         /\ stack'[k] = Bind(stack[k], body[stack[k].bundle][stack[k].pc].as, NewId)
                         /\ body[stack[k].bundle][stack[k].pc].op = "call"
                         /\ body[stack[k].bundle][stack[k].pc].as = Top.bundle
                  /\ k # Len(stack) - 1 => stack'[k] = stack[k]
<1>1. /\ stack # <<>>
      /\ stack' = IF Len(stack) = 1 THEN <<>>
                  ELSE LET caller == Len(stack) - 1
                       IN  [Callers EXCEPT ![caller] = Bind(Callers[caller], Top.bundle, NewId)]
  BY DEF AddReady
<1>2. /\ Callers \in Seq(Frames(Len(plan))) /\ Len(Callers) = Len(stack) - 1
      /\ Len(stack) \in Nat \ {0} /\ Top = stack[Len(stack)]
      /\ \A k \in 1 .. Len(stack) - 1 : Callers[k] = stack[k]
  BY <1>1, CallersKnown, TopKnown
<1>3. CASE Len(stack) = 1
  BY <1>1, <1>3
<1>4. CASE Len(stack) # 1
  <2> DEFINE c == Len(stack) - 1
             g == Bind(stack[c], Top.bundle, NewId)
  <2>1. c \in 1 .. Len(Callers) /\ c + 1 = Len(stack) /\ c \in 1 .. Len(stack) /\ c < Len(stack)
        /\ c \in 1 .. Len(stack) - 1
    BY <1>2, <1>4
  <2>2. stack' = [Callers EXCEPT ![c] = g]
    BY <1>1, <1>2, <1>4, <2>1
  <2>3. /\ body[stack[c].bundle][stack[c].pc].op = "call"
        /\ body[stack[c].bundle][stack[c].pc].as = Top.bundle
    BY <1>2, <2>1, StackParts DEF IInv
  <2>4. g = Bind(stack[c], body[stack[c].bundle][stack[c].pc].as, NewId)
    BY <2>3
  <2> HIDE DEF g
  <2>5. /\ Len(stack') = Len(Callers)
        /\ \A k \in 1 .. Len(Callers) : stack'[k] = IF k = c THEN g ELSE Callers[k]
    <3> HIDE DEF c
    <3>1. Callers \in Seq(Frames(Len(plan)) \cup {g})
      BY <1>2, SeqMonotonic
    <3> QED
      BY <2>1, <2>2, <3>1, ExceptSeq
  <2> QED
    BY <1>2, <2>3, <2>4, <2>5
<1> QED
  BY <1>3, <1>4

\* A bundle's Marker names the variables of all that its build() added.
LEMMA MarkerNamesAll ==
    ASSUME Conventions, IInv, stack # <<>>, Last, NEW i, Owns(Top, body[Top.bundle], i)
    PROVE  i \in Ids(Stmt.deps)
<1>1. /\ Top.bundle \in BundleNames /\ Stmt = body[Top.bundle][Top.pc] /\ cfg \in Settings
      /\ Top.pc = Len(body[Top.bundle])
  BY TopKnown DEF Last
<1>2. ReadyNamesAll(body[Top.bundle])
  BY <1>1, BodyKnown
<1>3. PICK n \in 1 .. Top.pc - 1 :
          body[Top.bundle][n].op = "add" /\ Top.bound[body[Top.bundle][n].as] = i
  BY DEF Owns
<1>4. body[Top.bundle][n].as \in Stmt.deps
  BY <1>1, <1>2, <1>3 DEF ReadyNamesAll
<1> QED
  BY <1>3, <1>4 DEF Ids

LEMMA AddReadyOrder ==
    ASSUME Conventions, IInv, NoReentry, OrderInv, AddReady PROVE OrderInv'
<1>1. /\ stack # <<>> /\ Stmt.op = "add" /\ Last /\ AddNode /\ cfg' = cfg /\ cache' = Memo
  BY DEF AddReady
<1>2. /\ Len(plan) \in Nat /\ Len(plan') = Len(plan) + 1 /\ NewId = Len(plan)
      /\ \A i \in 0 .. Len(plan) - 1 :
             plan'[i + 1] = plan[i + 1] /\ behind'[i + 1] = behind[i + 1]
      /\ plan'[Len(plan) + 1].by = Top.bundle
      /\ Ids(Stmt.deps) \subseteq behind'[Len(plan) + 1]
      /\ \A i \in 0 .. Len(plan') - 1 : i \in Id \/ i = Len(plan)
  BY <1>1, TopKnown, NodeAdded DEF NewId, Id
<1>3. /\ Len(stack) \in Nat \ {0} /\ Top = stack[Len(stack)] /\ Top.bundle \in BundleNames
      /\ DOMAIN stack = 1 .. Len(stack) /\ cfg \in Settings
      /\ cache \in [BundleNames -> (0 .. Len(plan) - 1) \cup {NoId}]
      /\ cache[Top.bundle] = NoId
  BY <1>1, TopKnown, Ranges DEF OrderInv, FramesInv, FrameGood, IInv
<1>4. /\ \A b \in BundleNames : cache'[b] = IF b = Top.bundle THEN NewId ELSE cache[b]
      /\ \A b \in BundleNames : cache[b] # NoId => cache'[b] = cache[b]
      /\ NewId # NoId
  BY <1>1, <1>2, <1>3 DEF Memo, NoId
<1>5. body' = body
  BY <1>1 DEF body
<1>6. ASSUME NEW k \in 1 .. Len(stack) - 1
      PROVE  /\ k \in 1 .. Len(stack) /\ stack[k].bundle # Top.bundle
             /\ stack[k].bundle \in BundleNames /\ FrameOK(stack[k])
             /\ stack[k] \in Frames(Len(plan))
  <2>1. Len(stack) \in Nat \ {0}
    BY <1>3
  <2>2. k \in 1 .. Len(stack) /\ k # Len(stack) /\ Len(stack) \in 1 .. Len(stack)
    BY <2>1
  <2> QED
    BY <1>3, <2>2, FramesKnown DEF NoReentry
<1>7. /\ Len(stack') = Len(stack) - 1
      /\ \A k \in 1 .. Len(stack) - 1 :
             /\ k = Len(stack) - 1 =>
                    /\ stack'[k] = Bind(stack[k], body[stack[k].bundle][stack[k].pc].as, NewId)
                    /\ body[stack[k].bundle][stack[k].pc].op = "call"
                    /\ body[stack[k].bundle][stack[k].pc].as = Top.bundle
             /\ k # Len(stack) - 1 => stack'[k] = stack[k]
  BY CallerAdvances
<1>8. FramesInv'
  <2> SUFFICES ASSUME NEW k \in 1 .. Len(stack) - 1
               PROVE  FrameGood(stack'[k], body[stack'[k].bundle], cache', behind', plan')
    BY <1>5, <1>7 DEF FramesInv
  <2>1. FrameGood(stack[k], body[stack[k].bundle], cache, behind, plan)
    BY <1>6 DEF OrderInv, FramesInv
  <2>2. cache'[stack[k].bundle] = NoId
    BY <1>4, <1>6, <2>1 DEF FrameGood
  <2>3. FrameGood(stack[k], body[stack[k].bundle], cache', behind', plan')
    BY <1>2, <1>4, <1>6, <2>1, <2>2, FrameKept
  <2>4. CASE k = Len(stack) - 1
    <3> DEFINE g == Bind(stack[k], body[stack[k].bundle][stack[k].pc].as, NewId)
    <3>1. FrameGood(g, body[stack[k].bundle], cache', behind', plan')
      BY <1>2, <1>3, <1>4, <1>6, <1>7, <2>3, <2>4, FrameAdvances
    <3>2. g.bundle = stack[k].bundle
      BY DEF Bind
    <3>3. stack'[k] = g
      BY <1>7, <2>4
    <3> HIDE DEF g
    <3> QED
      BY <3>1, <3>2, <3>3
  <2>5. CASE k # Len(stack) - 1
    BY <1>7, <2>3, <2>5
  <2> QED
    BY <2>4, <2>5
<1>9. ASSUME NEW b, b # Top.bundle, NEW i, OwnedIn(stack, b, body[b], i)
      PROVE  OwnedIn(stack', b, body[b], i)
  <2>1. PICK k \in 1 .. Len(stack) : stack[k].bundle = b /\ Owns(stack[k], body[b], i)
    BY <1>9 DEF OwnedIn
  <2>2. k \in 1 .. Len(stack) - 1
    BY <1>3, <1>9, <2>1
  <2>3. CASE k = Len(stack) - 1
    <3>1. LET g == Bind(stack[k], body[stack[k].bundle][stack[k].pc].as, NewId)
          IN  Owns(g, body[stack[k].bundle], i) /\ g.bundle = stack[k].bundle
      BY <1>2, <1>3, <1>6, <2>1, <2>2, OwnsMore, BindOne
    <3> QED
      BY <1>7, <2>1, <2>2, <2>3, <3>1 DEF OwnedIn
  <2>4. CASE k # Len(stack) - 1
    BY <1>7, <2>1, <2>2, <2>4 DEF OwnedIn
  <2> QED
    BY <2>3, <2>4
<1>10. \A i \in Id : plan[i + 1].by \in BundleNames
  <2> TAKE i \in Id
  <2>1. plan \in Seq(Resources) /\ i + 1 \in 1 .. Len(plan)
    BY <1>2, Ranges DEF IInv, Id
  <2>2. plan[i + 1] \in Resources
    BY <2>1, ElementOfSeq
  <2> QED
    BY <2>2 DEF Resources
<1>11. OwnedInv'
  <2> SUFFICES ASSUME NEW i \in 0 .. Len(plan') - 1
               PROVE  LET b == plan'[i + 1].by
                      IN  cache'[b] # NoId \/ OwnedIn(stack', b, body[b], i)
    BY <1>5 DEF OwnedInv, Id
  <2>1. CASE i \in Id
    <3>1. plan'[i + 1] = plan[i + 1] /\ plan[i + 1].by \in BundleNames
      BY <1>2, <1>10, <2>1 DEF Id
    <3>2. \/ cache[plan[i + 1].by] # NoId
          \/ OwnedIn(stack, plan[i + 1].by, body[plan[i + 1].by], i)
      BY <2>1 DEF OrderInv, OwnedInv
    <3> QED
      BY <1>4, <1>9, <3>1, <3>2
  <2>2. CASE i = Len(plan)
    BY <1>2, <1>3, <1>4, <2>2
  <2> QED
    BY <1>2, <2>1, <2>2
<1>12. ReadyMeansAll'
  <2> SUFFICES ASSUME NEW b \in BundleNames, cache'[b] # NoId,
                      NEW i \in 0 .. Len(plan') - 1, plan'[i + 1].by = b
               PROVE  i \in behind'[cache'[b] + 1] \cup {cache'[b]}
    BY DEF ReadyMeansAll, Cached, Id, Node
  <2>1. CASE b # Top.bundle
    <3>1. cache'[b] = cache[b] /\ cache[b] \in 0 .. Len(plan) - 1
      BY <1>3, <1>4, <2>1
    <3>2. i \in Id
      BY <1>2, <2>1
    <3>3. i \in behind[cache[b] + 1] \cup {cache[b]}
      BY <1>2, <3>1, <3>2 DEF OrderInv, ReadyMeansAll, Cached, Id, Node
    <3> QED
      BY <1>2, <3>1, <3>3
  <2>2. CASE b = Top.bundle
    <3>1. cache'[b] = Len(plan)
      BY <1>2, <1>4, <2>2
    <3>2. CASE i = Len(plan)
      BY <3>1, <3>2
    <3>3. CASE i \in Id
      <4>1. OwnedIn(stack, b, body[b], i)
        BY <1>2, <1>3, <2>2, <3>3 DEF OrderInv, OwnedInv, Id
      <4>2. PICK k \in 1 .. Len(stack) : stack[k].bundle = b /\ Owns(stack[k], body[b], i)
        BY <4>1 DEF OwnedIn
      <4>3. k = Len(stack)
        <5>1. k \notin 1 .. Len(stack) - 1
          BY <1>6, <2>2, <4>2
        <5>2. Len(stack) \in Nat \ {0}
          BY <1>3
        <5> QED
          BY <5>1, <5>2
      <4>4. i \in Ids(Stmt.deps)
        BY <1>1, <1>3, <2>2, <4>2, <4>3, MarkerNamesAll
      <4> QED
        BY <1>2, <3>1, <4>4
    <3> QED
      BY <1>2, <3>2, <3>3
  <2> QED
    BY <2>1, <2>2
<1>13. TriggersAreDeps' /\ AptComesFirst'
  BY <1>1, <1>4, NodesInOrder
<1> QED
  BY <1>8, <1>11, <1>12, <1>13 DEF OrderInv

LEMMA OrderStutter ==
    ASSUME OrderInv, UNCHANGED vars PROVE OrderInv'
<1>1. body' = body
  BY DEF vars, body
<1> QED
  BY <1>1 DEF vars, OrderInv, FramesInv, OwnedInv, ReadyMeansAll, TriggersAreDeps, AptComesFirst,
              Id, Node, Cached

-----------------------------------------------------------------------------
(* The theorems.                                                           *)

\* In every plan that main() assembles from layered bundles that keep to the
\* conventions, the variables of the build()s in progress, the memo and the plan
\* belong together, and with them the order that follows.
THEOREM PlanInOrder ==
    ASSUME NEW CONSTANT layer \in [BundleNames -> Nat], CallsDescend(layer), Conventions
    PROVE  Spec => []OrderInv
<1>1. IInv /\ NoReentry /\ OrderInv /\ [Next]_vars => OrderInv'
  BY DispatchOrder, CallCachedOrder, CallBuildOrder, AddResourceOrder, AddReadyOrder, OrderStutter
     DEF Next
<1>2. Spec => []NoReentry
  BY LayeredBundlesNeverReenter
<1> QED
  BY <1>1, <1>2, OrderInit, PlanInvariant, PTL DEF Spec

\* Who waits for a bundle waits for every resource the bundle added, whoever
\* built it and when.
THEOREM ReadyIsAll ==
    ASSUME NEW CONSTANT layer \in [BundleNames -> Nat], CallsDescend(layer), Conventions
    PROVE  Spec => []ReadyMeansAll
<1>1. OrderInv => ReadyMeansAll
  BY DEF OrderInv
<1>2. Spec => []OrderInv
  BY PlanInOrder
<1> QED
  BY <1>1, <1>2, PTL

\* A resource waits for what restarts or runs it: the executor will have
\* recorded the change when the resource looks for it.
THEOREM TriggersComeFirst ==
    ASSUME NEW CONSTANT layer \in [BundleNames -> Nat], CallsDescend(layer), Conventions
    PROVE  Spec => []TriggersAreDeps
<1>1. OrderInv => TriggersAreDeps
  BY DEF OrderInv
<1>2. Spec => []OrderInv
  BY PlanInOrder
<1> QED
  BY <1>1, <1>2, PTL

\* No package is dealt with before all of the apt bundle.
THEOREM PackagesWaitForApt ==
    ASSUME NEW CONSTANT layer \in [BundleNames -> Nat], CallsDescend(layer), Conventions
    PROVE  Spec => []AptComesFirst
<1>1. OrderInv => AptComesFirst
  BY DEF OrderInv
<1>2. Spec => []OrderInv
  BY PlanInOrder
<1> QED
  BY <1>1, <1>2, PTL

-----------------------------------------------------------------------------
(* The plan and the tables.  That a resource is added once, as its build() *)
(* says, is an invariant together with what the memo holds: the ids a      *)
(* build() got from other bundles must be those of their Markers.          *)

MemoInv ==
    \A b \in BundleNames : cache[b] # NoId => Place(plan[cache[b] + 1]) = MarkerOf(cfg, b)
NodesInv ==
    \A i \in Id : /\ plan[i + 1].by \in BundleNames
                  /\ Added(plan[i + 1]) \in Declared(cfg, {plan[i + 1].by})
OnceInv ==
    \A i, j \in Id : Place(plan[i + 1]) = Place(plan[j + 1]) => i = j
CompleteInv ==
    \A b \in BundleNames : cache[b] # NoId =>
        \A n \in 1 .. Len(body[b]) :
            /\ body[b][n].op = "call" => cache[body[b][n].as] # NoId
            /\ body[b][n].op = "add" =>
                   \E i \in Id : Place(plan[i + 1]) = <<b, body[b][n].as>>

TableInv == MemoInv /\ NodesInv /\ OnceInv /\ CompleteInv

\* What a frame's statements were bound to.
LEMMA Passed ==
    ASSUME Conventions, IInv, FramesInv, stack # <<>>, NEW n \in 1 .. Top.pc - 1
    PROVE  LET st == body[Top.bundle][n]
           IN  /\ n \in 1 .. Len(body[Top.bundle])
               /\ Top.bound[st.as] \in 0 .. Len(plan) - 1
               /\ st.op = "call" => /\ st.as \in BundleNames
                                    /\ cache[st.as] = Top.bound[st.as] /\ cache[st.as] # NoId
               /\ st.op = "add" => /\ st.as \notin BundleNames
                                   /\ Place(plan[Top.bound[st.as] + 1]) = <<Top.bundle, st.as>>
<1> DEFINE st == body[Top.bundle][n]
<1>1. /\ Len(stack) \in 1 .. Len(stack) /\ Top = stack[Len(stack)] /\ Top \in Frames(Len(plan))
      /\ FrameOK(Top) /\ Top.bundle \in BundleNames
      /\ Top.pc \in Nat \ {0} /\ cfg \in Settings
  BY TopKnown
<1>2. Top.pc \in 1 .. Len(body[Top.bundle]) /\ Len(body[Top.bundle]) \in Nat
  BY <1>1, BodyKnown DEF FrameOK
<1>3. n \in 1 .. Len(body[Top.bundle])
  BY <1>2
<1>4. st.as \in Vars /\ st.op \in {"call", "add"}
      /\ (st.op = "call" => st.as \in BundleNames) /\ (st.op = "add" => st.as \notin BundleNames)
  BY <1>1, <1>3, BodyKnown
<1>5. Top.bound[st.as] # NoId
  BY <1>1 DEF FrameOK
<1>6. Top.bound[st.as] \in 0 .. Len(plan) - 1
  BY <1>1, <1>4, <1>5 DEF Frames
<1>7. Stands(Top, st, cache, behind, plan)
  BY <1>1 DEF FramesInv, FrameGood
<1> QED
  BY <1>3, <1>4, <1>5, <1>6, <1>7 DEF Stands

\* A variable that a statement names was bound by a statement before it.
LEMMA Named ==
    ASSUME Conventions, IInv, FramesInv, MemoInv, stack # <<>>, Stmt.op = "add",
           NEW v \in Stmt.deps
    PROVE  /\ Top.bound[v] \in 0 .. Len(plan) - 1
           /\ Place(plan[Top.bound[v] + 1]) =
                  IF v \in BundleNames THEN MarkerOf(cfg, v) ELSE <<Top.bundle, v>>
<1>1. /\ Top.bundle \in BundleNames /\ Stmt = body[Top.bundle][Top.pc] /\ cfg \in Settings
      /\ Top.pc \in 1 .. Len(body[Top.bundle])
  BY TopKnown, StatementKnown DEF IInv
<1>2. PICK j \in 1 .. Top.pc - 1 : body[Top.bundle][j].as = v
  <2>1. Stmt.deps \subseteq {body[Top.bundle][j].as : j \in 1 .. Top.pc - 1}
    BY <1>1, BodyKnown
  <2> QED
    BY <2>1
<1>3. j \in 1 .. Len(body[Top.bundle])
  BY <1>2, Passed
<1>4. body[Top.bundle][j].op \in {"call", "add"}
  BY <1>1, <1>3, BodyKnown
<1>5. CASE body[Top.bundle][j].op = "call"
  <2>1. v \in BundleNames /\ Top.bound[v] = cache[v] /\ cache[v] # NoId
        /\ Top.bound[v] \in 0 .. Len(plan) - 1
    BY <1>2, <1>5, Passed
  <2> QED
    BY <2>1 DEF MemoInv
<1>6. CASE body[Top.bundle][j].op = "add"
  BY <1>2, <1>6, Passed
<1> QED
  BY <1>4, <1>5, <1>6

\* All that the bundle being built has added so far is in its own frame.
LEMMA OwnedByTop ==
    ASSUME IInv, NoReentry, OwnedInv, stack # <<>>, cache[Top.bundle] = NoId,
           NEW i \in Id, plan[i + 1].by = Top.bundle
    PROVE  Owns(Top, body[Top.bundle], i)
<1>1. OwnedIn(stack, Top.bundle, body[Top.bundle], i)
  BY DEF OwnedInv
<1>2. PICK k \in 1 .. Len(stack) :
          stack[k].bundle = Top.bundle /\ Owns(stack[k], body[Top.bundle], i)
  BY <1>1 DEF OwnedIn
<1>3. k = Len(stack)
  BY <1>2, TopKnown, Ranges DEF NoReentry, IInv
<1> QED
  BY <1>2, <1>3, TopKnown

\* No resource is added twice.
LEMMA NewPlace ==
    ASSUME Conventions, IInv, NoReentry, OrderInv, stack # <<>>, Stmt.op = "add", NEW i \in Id
    PROVE  Place(plan[i + 1]) # <<Top.bundle, Stmt.as>>
<1> SUFFICES ASSUME Place(plan[i + 1]) = <<Top.bundle, Stmt.as>> PROVE FALSE
  OBVIOUS
<1>1. /\ Top.bundle \in BundleNames /\ Stmt = body[Top.bundle][Top.pc] /\ cfg \in Settings
      /\ Top.pc \in 1 .. Len(body[Top.bundle]) /\ Top.pc \in Nat
  BY TopKnown, StatementKnown DEF IInv
<1>2. cache[Top.bundle] = NoId
  BY TopKnown DEF OrderInv, FramesInv, FrameGood
<1>3. Owns(Top, body[Top.bundle], i)
  BY <1>2, OwnedByTop DEF OrderInv, Place
<1>4. PICK n \in 1 .. Top.pc - 1 :
          body[Top.bundle][n].op = "add" /\ Top.bound[body[Top.bundle][n].as] = i
  BY <1>3 DEF Owns
<1>5. n \in 1 .. Len(body[Top.bundle]) /\ body[Top.bundle][n].as = Stmt.as
  BY <1>4, Passed DEF OrderInv
<1>6. n = Top.pc
  BY <1>1, <1>5, BodyKnown
<1> QED
  BY <1>1, <1>6

\* The resource that is added is the one its statement declares.
LEMMA NewNode ==
    ASSUME Conventions, IInv, FramesInv, MemoInv, stack # <<>>, Stmt.op = "add", AddNode,
           NEW i, i = Len(plan)
    PROVE  Added(plan[i + 1])' \in Declared(cfg, {Top.bundle})
<1>1. /\ Top.bundle \in BundleNames /\ Stmt = body[Top.bundle][Top.pc] /\ cfg \in Settings
      /\ Top.pc \in 1 .. Len(body[Top.bundle]) /\ Len(plan) \in Nat
  BY TopKnown, StatementKnown DEF IInv
<1>2. Stmt \in AddsOf(cfg, Top.bundle)
  BY <1>1 DEF AddsOf, body
<1>3. /\ \A d \in 0 .. Len(plan) - 1 : plan'[d + 1] = plan[d + 1]
      /\ plan'[i + 1].by = Top.bundle /\ plan'[i + 1].as = Stmt.as
      /\ plan'[i + 1].kind = Stmt.kind /\ plan'[i + 1].on = Stmt.on
      /\ plan'[i + 1].deps = {Top.bound[v] : v \in Stmt.deps}
  BY NodeAdded DEF Ids
<1> DEFINE Source(v) == IF v \in BundleNames THEN MarkerOf(cfg, v) ELSE <<Top.bundle, v>>
<1>4. \A v \in Stmt.deps : Place(plan'[Top.bound[v] + 1]) = Source(v)
  BY <1>3, Named
<1>5. {Place(plan'[d + 1]) : d \in plan'[i + 1].deps} = {Source(v) : v \in Stmt.deps}
  <2>1. {Place(plan'[d + 1]) : d \in plan'[i + 1].deps}
            = {Place(plan'[Top.bound[v] + 1]) : v \in Stmt.deps}
    BY <1>3
  <2> QED
    BY <1>4, <2>1
<1>6. Added(plan[i + 1])' = Meant(cfg, Top.bundle, Stmt)
  BY <1>3, <1>5 DEF Added, Meant, Node
<1> QED
  BY <1>2, <1>6 DEF Declared

\* What is said of the resources stays true of those there are.
LEMMA OldNode ==
    ASSUME IInv, NEW i \in Id, \A d \in 0 .. Len(plan) - 1 : plan'[d + 1] = plan[d + 1]
    PROVE  /\ Added(plan[i + 1])' = Added(plan[i + 1])
           /\ plan[i + 1].deps \subseteq 0 .. i - 1
<1>1. plan[i + 1].deps \subseteq 0 .. i - 1 /\ i \in 0 .. Len(plan) - 1 /\ Len(plan) \in Nat
  BY Ranges DEF IInv, DepsAreEarlier, Node, Id
<1>2. plan'[i + 1] = plan[i + 1] /\ \A d \in plan[i + 1].deps : plan'[d + 1] = plan[d + 1]
  BY <1>1
<1>3. {Place(plan'[d + 1]) : d \in plan[i + 1].deps} = {Place(plan[d + 1]) : d \in plan[i + 1].deps}
  BY <1>2
<1> QED
  BY <1>1, <1>2, <1>3 DEF Added, Node

\* Adding a resource keeps each in its place.
LEMMA NodesInTable ==
    ASSUME Conventions, IInv, NoReentry, OrderInv, TableInv, stack # <<>>, Stmt.op = "add",
           AddNode, cfg' = cfg
    PROVE  NodesInv' /\ OnceInv'
<1>1. /\ Len(plan) \in Nat /\ Len(plan') = Len(plan) + 1 /\ Top.bundle \in BundleNames
      /\ \A i \in 0 .. Len(plan) - 1 : plan'[i + 1] = plan[i + 1]
      /\ plan'[Len(plan) + 1].by = Top.bundle /\ plan'[Len(plan) + 1].as = Stmt.as
  BY TopKnown, NodeAdded
<1>2. /\ \A i \in 0 .. Len(plan') - 1 : i \in Id \/ i = Len(plan)
      /\ \A i \in Id : plan'[i + 1] = plan[i + 1]
  BY <1>1 DEF Id
<1>3. NodesInv'
  <2> SUFFICES ASSUME NEW i \in 0 .. Len(plan') - 1
               PROVE  /\ plan'[i + 1].by \in BundleNames
                      /\ Added(plan[i + 1])' \in Declared(cfg, {plan'[i + 1].by})
    BY DEF NodesInv, Id
  <2>1. CASE i \in Id
    BY <1>1, <1>2, <2>1, OldNode DEF TableInv, NodesInv
  <2>2. CASE i = Len(plan)
    BY <1>1, <2>2, NewNode DEF OrderInv, TableInv
  <2> QED
    BY <1>2, <2>1, <2>2
<1>4. OnceInv'
  <2> SUFFICES ASSUME NEW i \in 0 .. Len(plan') - 1, NEW j \in 0 .. Len(plan') - 1,
                      Place(plan'[i + 1]) = Place(plan'[j + 1])
               PROVE  i = j
    BY DEF OnceInv, Id
  <2>1. Place(plan'[Len(plan) + 1]) = <<Top.bundle, Stmt.as>>
    BY <1>1 DEF Place
  <2>2. \A k \in Id : Place(plan'[k + 1]) # Place(plan'[Len(plan) + 1])
    BY <1>2, <2>1, NewPlace
  <2>3. CASE i \in Id /\ j \in Id
    BY <1>2, <2>3 DEF TableInv, OnceInv
  <2> QED
    BY <1>2, <2>2, <2>3
<1> QED
  BY <1>3, <1>4

-----------------------------------------------------------------------------
(* One lemma for each kind of step.                                        *)

LEMMA TableInit == Init => TableInv
<1> SUFFICES ASSUME Init PROVE TableInv
  OBVIOUS
<1>1. Len(plan) = 0 /\ \A b \in BundleNames : cache[b] = NoId
  BY DEF Init
<1> QED
  BY <1>1 DEF TableInv, MemoInv, NodesInv, OnceInv, CompleteInv, Id

\* Steps that leave plan and memo alone.
LEMMA TableKept ==
    ASSUME TableInv, UNCHANGED <<cfg, cache, plan>> PROVE TableInv'
<1>1. body' = body
  BY DEF body
<1>2. \A i : Added(plan[i + 1])' = Added(plan[i + 1])
  BY DEF Added, Node
<1> QED
  BY <1>1, <1>2 DEF TableInv, MemoInv, NodesInv, OnceInv, CompleteInv, Id

LEMMA AddResourceTable ==
    ASSUME Conventions, IInv, NoReentry, OrderInv, TableInv, AddResource PROVE TableInv'
<1>1. stack # <<>> /\ Stmt.op = "add" /\ AddNode /\ cfg' = cfg /\ cache' = cache /\ body' = body
  BY DEF AddResource, body
<1>2. /\ Len(plan) \in Nat /\ Len(plan') = Len(plan) + 1
      /\ \A i \in 0 .. Len(plan) - 1 : i \in 0 .. Len(plan') - 1 /\ plan'[i + 1] = plan[i + 1]
      /\ cache \in [BundleNames -> (0 .. Len(plan) - 1) \cup {NoId}]
  <2>1. Len(plan) \in Nat /\ cache \in [BundleNames -> (0 .. Len(plan) - 1) \cup {NoId}]
    BY Ranges DEF IInv
  <2>2. /\ Len(plan') = Len(plan) + 1
        /\ \A i \in 0 .. Len(plan) - 1 : plan'[i + 1] = plan[i + 1]
    BY <1>1, NodeAdded
  <2> QED
    BY <2>1, <2>2
<1>3. MemoInv'
  BY <1>1, <1>2 DEF TableInv, MemoInv
<1>4. CompleteInv'
  BY <1>1, <1>2 DEF TableInv, CompleteInv, Id
<1> QED
  BY <1>1, <1>3, <1>4, NodesInTable DEF TableInv

LEMMA AddReadyTable ==
    ASSUME Conventions, IInv, NoReentry, OrderInv, TableInv, AddReady PROVE TableInv'
<1>1. /\ stack # <<>> /\ Stmt.op = "add" /\ Last /\ AddNode /\ cfg' = cfg /\ cache' = Memo
      /\ body' = body
  BY DEF AddReady, body
<1>2. /\ Len(plan) \in Nat /\ Len(plan') = Len(plan) + 1 /\ NewId = Len(plan)
      /\ \A i \in 0 .. Len(plan) - 1 : i \in 0 .. Len(plan') - 1 /\ plan'[i + 1] = plan[i + 1]
      /\ plan'[Len(plan) + 1].by = Top.bundle /\ plan'[Len(plan) + 1].as = Stmt.as
      /\ Len(plan) \in 0 .. Len(plan') - 1
      /\ cache \in [BundleNames -> (0 .. Len(plan) - 1) \cup {NoId}]
  <2>1. Len(plan) \in Nat /\ cache \in [BundleNames -> (0 .. Len(plan) - 1) \cup {NoId}]
    BY Ranges DEF IInv
  <2>2. /\ Len(plan') = Len(plan) + 1
        /\ \A i \in 0 .. Len(plan) - 1 : plan'[i + 1] = plan[i + 1]
        /\ plan'[Len(plan) + 1].by = Top.bundle /\ plan'[Len(plan) + 1].as = Stmt.as
    BY <1>1, NodeAdded
  <2> QED
    BY <2>1, <2>2 DEF NewId
<1>3. /\ Top.bundle \in BundleNames /\ Stmt = body[Top.bundle][Top.pc]
      /\ Top.pc = Len(body[Top.bundle]) /\ Len(body[Top.bundle]) \in Nat \ {0}
  BY <1>1, TopKnown, BodyKnown DEF Last
<1>4. /\ \A b \in BundleNames : cache'[b] = IF b = Top.bundle THEN Len(plan) ELSE cache[b]
      /\ \A b \in BundleNames : cache[b] # NoId => cache'[b] # NoId
  BY <1>1, <1>2, <1>3 DEF Memo, NoId
<1>5. MemoInv'
  <2> SUFFICES ASSUME NEW b \in BundleNames, cache'[b] # NoId
               PROVE  Place(plan'[cache'[b] + 1]) = MarkerOf(cfg, b)
    BY <1>1 DEF MemoInv
  <2>1. CASE b = Top.bundle
    BY <1>2, <1>3, <1>4, <2>1 DEF MarkerOf, Place, body
  <2>2. CASE b # Top.bundle
    BY <1>2, <1>4, <2>2 DEF TableInv, MemoInv
  <2> QED
    BY <2>1, <2>2
<1>6. CompleteInv'
  <2> SUFFICES ASSUME NEW b \in BundleNames, cache'[b] # NoId, NEW n \in 1 .. Len(body[b])
               PROVE  /\ body[b][n].op = "call" => cache'[body[b][n].as] # NoId
                      /\ body[b][n].op = "add" =>
                             \E i \in 0 .. Len(plan') - 1 :
                                 Place(plan'[i + 1]) = <<b, body[b][n].as>>
    BY <1>1 DEF CompleteInv, Id
  <2>0. /\ cfg \in Settings
        /\ body[b][n].op = "call" => body[b][n].as \in BundleNames
    BY TopKnown, <1>1, BodyKnown
  <2>1. CASE b # Top.bundle
    BY <1>2, <1>4, <2>0, <2>1 DEF TableInv, CompleteInv, Id
  <2>2. CASE b = Top.bundle /\ n = Top.pc
    <3>1. Place(plan'[Len(plan) + 1]) = <<b, body[b][n].as>>
      BY <1>2, <1>3, <2>2 DEF Place
    <3> QED
      BY <1>1, <1>2, <1>3, <2>2, <3>1
  <2>3. CASE b = Top.bundle /\ n # Top.pc
    <3>1. n \in 1 .. Top.pc - 1
      BY <1>3, <2>3
    <3>2. /\ Top.bound[body[b][n].as] \in 0 .. Len(plan) - 1
          /\ body[b][n].op = "call" => cache[body[b][n].as] # NoId
          /\ body[b][n].op = "add" =>
                 Place(plan[Top.bound[body[b][n].as] + 1]) = <<b, body[b][n].as>>
      BY <1>1, <2>3, <3>1, Passed DEF OrderInv
    <3> QED
      BY <1>2, <1>4, <2>0, <3>2
  <2> QED
    BY <2>1, <2>2, <2>3
<1> QED
  BY <1>1, <1>5, <1>6, NodesInTable DEF TableInv

\* The plan holds what the tables say, each resource once, and with a bundle's
\* Marker all that the bundle adds and calls.
THEOREM PlanFollowsTables ==
    ASSUME NEW CONSTANT layer \in [BundleNames -> Nat], CallsDescend(layer), Conventions
    PROVE  Spec => []TableInv
<1>1. IInv /\ NoReentry /\ OrderInv /\ TableInv /\ [Next]_vars => TableInv'
  <2> SUFFICES ASSUME IInv, NoReentry, OrderInv, TableInv, [Next]_vars PROVE TableInv'
    OBVIOUS
  <2>1. CASE Dispatch
    BY <2>1, TableKept DEF Dispatch
  <2>2. CASE CallCached
    BY <2>2, TableKept DEF CallCached
  <2>3. CASE CallBuild
    BY <2>3, TableKept DEF CallBuild
  <2>4. CASE AddResource
    BY <2>4, AddResourceTable
  <2>5. CASE AddReady
    BY <2>5, AddReadyTable
  <2>6. CASE UNCHANGED vars
    BY <2>6, TableKept DEF vars
  <2> QED
    BY <2>1, <2>2, <2>3, <2>4, <2>5, <2>6 DEF Next
<1>2. Spec => []NoReentry
  BY LayeredBundlesNeverReenter
<1>3. Spec => []OrderInv
  BY PlanInOrder
<1> QED
  BY <1>1, <1>2, <1>3, TableInit, PlanInvariant, PTL DEF Spec

-----------------------------------------------------------------------------
(* Resources that share something.  What a resource waits for by the       *)
(* tables it waits for in the plan.                                        *)

BehindInv(before) ==
    \A j \in Id :
        /\ behind[j + 1] \subseteq 0 .. j - 1
        /\ \A p \in before[cfg][Place(plan[j + 1])] :
               \E i \in behind[j + 1] : Place(plan[i + 1]) = p

\* A resource of the plan among all that the bundles declare.
LEMMA InTheTables ==
    ASSUME NodesInv, NEW i \in Id
    PROVE  /\ Added(plan[i + 1]) \in Declared(cfg, BundleNames)
           /\ Place(Added(plan[i + 1])) = Place(plan[i + 1])
           /\ Added(plan[i + 1]).deps = {Place(plan[d + 1]) : d \in plan[i + 1].deps}
           /\ Added(plan[i + 1]).on = plan[i + 1].on
           /\ Added(plan[i + 1]).kind = plan[i + 1].kind
           /\ Added(plan[i + 1]).as = plan[i + 1].as
<1>1. /\ plan[i + 1].by \in BundleNames
      /\ Added(plan[i + 1]) \in Declared(cfg, {plan[i + 1].by})
  BY DEF NodesInv
<1>2. Declared(cfg, {plan[i + 1].by}) \subseteq Declared(cfg, BundleNames)
  BY <1>1 DEF Declared
<1> QED
  BY <1>1, <1>2 DEF Added, Place, Node

LEMMA BehindGrows ==
    ASSUME IInv, stack # <<>>, Stmt.op = "add", AddNode, cfg' = cfg, NodesInv', NEW before,
           \A s \in Settings : OrdersSharers(s, before[s]), BehindInv(before)
    PROVE  BehindInv(before)'
<1>1. /\ Len(plan) \in Nat /\ Len(plan') = Len(plan) + 1 /\ cfg \in Settings
      /\ \A d \in Id : plan'[d + 1] = plan[d + 1] /\ behind'[d + 1] = behind[d + 1]
      /\ plan'[Len(plan) + 1].deps = Ids(Stmt.deps) /\ Ids(Stmt.deps) \subseteq Id
      /\ behind'[Len(plan) + 1] = Ids(Stmt.deps)
             \cup UNION {behind[d + 1] : d \in Ids(Stmt.deps) \cap 0 .. Len(plan) - 1}
  BY TopKnown, NodeAdded DEF Id
<1>2. /\ \A j \in 0 .. Len(plan') - 1 : j \in Id \/ j = Len(plan)
      /\ \A d \in Id : d \in 0 .. Len(plan) - 1 /\ d \in Nat
      /\ Len(plan) \in 0 .. Len(plan') - 1
  BY <1>1 DEF Id
<1>3. /\ Ids(Stmt.deps) \subseteq behind'[Len(plan) + 1]
      /\ \A d \in Ids(Stmt.deps) : behind[d + 1] \subseteq behind'[Len(plan) + 1]
  BY <1>1, <1>2
<1>4. \A d \in Id : behind[d + 1] \subseteq 0 .. d - 1 /\ behind[d + 1] \subseteq Id
  BY <1>2 DEF BehindInv, Id
<1> SUFFICES ASSUME NEW j \in 0 .. Len(plan') - 1
             PROVE  /\ behind'[j + 1] \subseteq 0 .. j - 1
                    /\ \A p \in before[cfg][Place(plan'[j + 1])] :
                           \E i \in behind'[j + 1] : Place(plan'[i + 1]) = p
  BY <1>1 DEF BehindInv, Id
<1>5. CASE j \in Id
  <2>1. \A i \in behind[j + 1] : plan'[i + 1] = plan[i + 1]
    BY <1>1, <1>4, <1>5
  <2>2. /\ behind'[j + 1] = behind[j + 1] /\ plan'[j + 1] = plan[j + 1]
    BY <1>1, <1>5
  <2>3. \A p \in before[cfg][Place(plan[j + 1])] :
            \E i \in behind[j + 1] : Place(plan[i + 1]) = p
    BY <1>5 DEF BehindInv
  <2> QED
    BY <1>4, <1>5, <2>1, <2>2, <2>3
<1>6. CASE j = Len(plan)
  <2>1. behind'[j + 1] \subseteq 0 .. j - 1
    BY <1>1, <1>4, <1>6 DEF Id
  <2>2. ASSUME NEW p \in before[cfg][Place(plan'[j + 1])]
        PROVE  \E i \in behind'[j + 1] : Place(plan'[i + 1]) = p
    <3>1. /\ Added(plan[j + 1])' \in Declared(cfg, BundleNames)
          /\ Place(Added(plan[j + 1])') = Place(plan'[j + 1])
          /\ Added(plan[j + 1])'.deps = {Place(plan'[d + 1]) : d \in plan'[j + 1].deps}
      <4>1. /\ plan'[j + 1].by \in BundleNames
            /\ Added(plan[j + 1])' \in Declared(cfg, {plan'[j + 1].by})
        BY <1>1 DEF NodesInv, Id
      <4>2. Declared(cfg, {plan'[j + 1].by}) \subseteq Declared(cfg, BundleNames)
        BY <4>1 DEF Declared
      <4> QED
        BY <4>1, <4>2 DEF Added, Place, Node
    <3>2. PICK z \in Added(plan[j + 1])'.deps : p = z \/ p \in before[cfg][z]
      BY <1>1, <3>1 DEF OrdersSharers
    <3>3. PICK d \in Ids(Stmt.deps) : z = Place(plan[d + 1])
      BY <1>1, <1>6, <3>1
    <3>4. CASE p = z
      BY <1>1, <1>3, <1>6, <3>3, <3>4
    <3>5. CASE p \in before[cfg][z]
      <4>1. PICK i \in behind[d + 1] : Place(plan[i + 1]) = p
        BY <1>1, <3>3, <3>5 DEF BehindInv
      <4>2. i \in behind'[j + 1] /\ plan'[i + 1] = plan[i + 1]
        BY <1>1, <1>3, <1>4, <1>6, <4>1
      <4> QED
        BY <4>1, <4>2
    <3> QED
      BY <3>2, <3>4, <3>5
  <2> QED
    BY <2>1, <2>2
<1> QED
  BY <1>2, <1>5, <1>6

LEMMA BehindKept ==
    ASSUME NEW before, BehindInv(before), UNCHANGED <<cfg, plan, behind>>
    PROVE  BehindInv(before)'
<1>1. cfg' = cfg /\ plan' = plan /\ behind' = behind
  OBVIOUS
<1> SUFFICES ASSUME NEW j \in Id
             PROVE  /\ behind[j + 1] \subseteq 0 .. j - 1
                    /\ \A p \in before[cfg][Place(plan[j + 1])] :
                           \E i \in behind[j + 1] : Place(plan[i + 1]) = p
  BY <1>1 DEF BehindInv, Id
<1> QED
  BY DEF BehindInv

\* What waits by the tables waits in the plan.
THEOREM PlanWaits ==
    ASSUME NEW CONSTANT layer \in [BundleNames -> Nat], CallsDescend(layer), Conventions,
           NEW CONSTANT before, \A s \in Settings : OrdersSharers(s, before[s])
    PROVE  Spec => []BehindInv(before)
<1>1. Init => BehindInv(before)
  <2> SUFFICES ASSUME Init PROVE BehindInv(before)
    OBVIOUS
  <2>1. Len(plan) = 0
    BY DEF Init
  <2> QED
    BY <2>1 DEF BehindInv, Id
<1>2. IInv /\ TableInv' /\ BehindInv(before) /\ [Next]_vars => BehindInv(before)'
  <2> SUFFICES ASSUME IInv, TableInv', BehindInv(before), [Next]_vars PROVE BehindInv(before)'
    OBVIOUS
  <2>1. CASE Dispatch
    BY <2>1, BehindKept DEF Dispatch
  <2>2. CASE CallCached
    BY <2>2, BehindKept DEF CallCached
  <2>3. CASE CallBuild
    BY <2>3, BehindKept DEF CallBuild
  <2>4. CASE AddResource
    BY <2>4, BehindGrows DEF AddResource, TableInv
  <2>5. CASE AddReady
    BY <2>5, BehindGrows DEF AddReady, TableInv
  <2>6. CASE UNCHANGED vars
    BY <2>6, BehindKept DEF vars
  <2> QED
    BY <2>1, <2>2, <2>3, <2>4, <2>5, <2>6 DEF Next
<1>3. Spec => []TableInv
  BY PlanFollowsTables
<1> QED
  BY <1>1, <1>2, <1>3, PlanInvariant, PTL DEF Spec

\* Two resources that share something wait for each other one way, and only
\* the later one can.
LEMMA SharersWait ==
    ASSUME NEW before, \A s \in Settings : OrdersSharers(s, before[s]),
           IInv, TableInv, BehindInv(before)
    PROVE  SharedAreOrdered
<1> SUFFICES ASSUME NEW i \in Id, NEW j \in Id, i < j, plan[i + 1].on \cap plan[j + 1].on # {}
             PROVE  i \in behind[j + 1]
  BY DEF SharedAreOrdered, Node
<1> DEFINE q == Added(plan[i + 1])
           r == Added(plan[j + 1])
<1>1. /\ q \in Declared(cfg, BundleNames) /\ r \in Declared(cfg, BundleNames)
      /\ Place(q) = Place(plan[i + 1]) /\ Place(r) = Place(plan[j + 1])
      /\ q.on = plan[i + 1].on /\ r.on = plan[j + 1].on
  BY InTheTables DEF TableInv
<1>2. i \in Nat /\ j \in Nat /\ cfg \in Settings
  BY Ranges DEF IInv, TypeOK, Id
<1>3. Place(q) # Place(r)
  BY <1>1, <1>2 DEF TableInv, OnceInv
<1> HIDE DEF q, r
<1>4. Place(q) \in before[cfg][Place(r)] \/ Place(r) \in before[cfg][Place(q)]
  BY <1>1, <1>2, <1>3 DEF OrdersSharers
<1>5. \A k \in Id : behind[k + 1] \subseteq Id
  <2> TAKE k \in Id
  <2>1. behind[k + 1] \subseteq 0 .. k - 1
    BY DEF BehindInv
  <2>2. k \in 0 .. Len(plan) - 1 /\ Len(plan) \in Nat
    BY Ranges DEF IInv, Id
  <2> QED
    BY <2>1, <2>2 DEF Id
<1>6. CASE Place(q) \in before[cfg][Place(r)]
  <2>1. PICK k \in behind[j + 1] : Place(plan[k + 1]) = Place(q)
    BY <1>1, <1>6 DEF BehindInv
  <2>2. k = i
    BY <1>1, <1>5, <2>1 DEF TableInv, OnceInv
  <2> QED
    BY <2>1, <2>2
<1>7. CASE Place(r) \in before[cfg][Place(q)]
  <2>1. PICK k \in behind[i + 1] : Place(plan[k + 1]) = Place(r)
    BY <1>1, <1>7 DEF BehindInv
  <2>2. k = j
    BY <1>1, <1>5, <2>1 DEF TableInv, OnceInv
  <2>3. j \in 0 .. i - 1
    BY <2>1, <2>2 DEF BehindInv
  <2> QED
    BY <1>2, <2>3
<1> QED
  BY <1>4, <1>6, <1>7

\* Whatever the arguments are, resources that act on one package, path or unit
\* never run beside each other: the later one waits for the earlier one.
THEOREM SharersAreOrdered ==
    ASSUME NEW CONSTANT layer \in [BundleNames -> Nat], CallsDescend(layer), Conventions,
           NEW CONSTANT before, \A s \in Settings : OrdersSharers(s, before[s])
    PROVE  Spec => []SharedAreOrdered
<1>1. IInv /\ TableInv /\ BehindInv(before) => SharedAreOrdered
  BY SharersWait
<1> QED
  BY <1>1, PlanFollowsTables, PlanWaits, PlanInvariant, PTL

-----------------------------------------------------------------------------
(* Recursive functions over an interval of naturals: tlapm sees them as a  *)
(* CHOOSE, so that there is one must be proved.  Induction goes by the     *)
(* least number that fails.                                                *)

LEMMA LessThanWellFounded ==
    ASSUME NEW R, R = {p \in Nat \X Nat : p[1] < p[2]} PROVE IsWellFoundedOn(R, Nat)
BY NatLessThanWellFounded DEF OpToRel

LEMMA LeastOf ==
    ASSUME NEW U, U \subseteq Nat, U # {} PROVE \E x \in U : \A y \in U : x <= y
<1> DEFINE R == {p \in Nat \X Nat : p[1] < p[2]}
<1>1. IsWellFoundedOn(R, Nat)
  BY LessThanWellFounded
<1>2. \E x \in U : \A y \in U : ~ (<<y, x>> \in R)
  <2> HIDE DEF R
  <2> QED
    BY <1>1, WFMin
<1>3. PICK x \in U : \A y \in U : <<y, x>> \notin R
  BY <1>2
<1>4. ASSUME NEW y \in U PROVE x <= y
  <2>1. <<y, x>> \in Nat \X Nat
    OBVIOUS
  <2>2. ASSUME y < x PROVE <<y, x>> \in R
    BY <2>1, <2>2
  <2> QED
    BY <1>3, <2>2
<1> QED
  BY <1>4

\* A set that holds zero and, below the bound, each number after one it holds.
LEMMA Climb ==
    ASSUME NEW N \in Nat, NEW T, 0 \in T, \A n \in 0 .. N - 1 : n \in T => n + 1 \in T
    PROVE  0 .. N \subseteq T
<1> DEFINE U == (0 .. N) \ T
<1> SUFFICES ASSUME U # {} PROVE FALSE
  OBVIOUS
<1>1. U \subseteq Nat
  OBVIOUS
<1>2. PICK x \in U : \A y \in U : x <= y
  <2> HIDE DEF U
  <2> QED
    BY <1>1, LeastOf
<1>3. x # 0 /\ x - 1 \in 0 .. N - 1 /\ x - 1 \notin U
  BY <1>2
<1>4. x - 1 \in T /\ x = (x - 1) + 1
  BY <1>3
<1> QED
  BY <1>2, <1>3, <1>4

\* The first N iterates of a function; there are some.
Iterations(S, step, x, N) ==
    {g \in [0 .. N -> S] : g[0] = x /\ \A n \in 1 .. N : g[n] = step[g[n - 1]]}
LEMMA Iterates ==
    ASSUME NEW S, NEW step \in [S -> S], NEW x \in S, NEW N \in Nat
    PROVE  Iterations(S, step, x, N) # {}
<1> DEFINE Good(m, g) == g[0] = x /\ \A n \in 1 .. m : g[n] = step[g[n - 1]]
           T == {m \in 0 .. N : \E g \in [0 .. m -> S] : Good(m, g)}
<1>1. 0 \in T
  <2> DEFINE g == [n \in 0 .. 0 |-> x]
  <2>1. g \in [0 .. 0 -> S] /\ Good(0, g)
    OBVIOUS
  <2>2. 0 \in 0 .. N
    OBVIOUS
  <2> HIDE DEF g, Good
  <2> QED
    BY <2>1, <2>2
<1>2. ASSUME NEW m \in 0 .. N - 1, m \in T PROVE m + 1 \in T
  <2>1. PICK g \in [0 .. m -> S] : Good(m, g)
    BY <1>2
  <2> DEFINE h == [n \in 0 .. m + 1 |-> IF n = m + 1 THEN step[g[m]] ELSE g[n]]
  <2>2. g[m] \in S
    BY <2>1
  <2>3. h \in [0 .. m + 1 -> S]
    BY <2>1, <2>2
  <2>4. \A n \in 0 .. m : h[n] = g[n]
    OBVIOUS
  <2>5. h[m + 1] = step[g[m]]
    OBVIOUS
  <2> HIDE DEF h
  <2>6. ASSUME NEW n \in 1 .. m + 1 PROVE h[n] = step[h[n - 1]]
    <3>1. CASE n = m + 1
      BY <2>4, <2>5, <3>1
    <3>2. CASE n # m + 1
      <4>1. n \in 1 .. m /\ n \in 0 .. m /\ n - 1 \in 0 .. m
        BY <3>2
      <4> QED
        BY <2>1, <2>4, <4>1
    <3> QED
      BY <3>1, <3>2
  <2>7. Good(m + 1, h)
    BY <2>1, <2>4, <2>6
  <2> QED
    BY <2>3, <2>7
<1>3. 0 .. N \subseteq T
  <2> HIDE DEF T
  <2> QED
    BY <1>1, <1>2, Climb
<1>4. N \in T
  BY <1>3
<1> QED
  BY <1>4 DEF Iterations

-----------------------------------------------------------------------------
(* The depth of a resource.  The tables' depths are those of every plan.   *)

Depth(depth, i) == depth[cfg][Place(plan[i + 1])]

\* Closed is what its definition says.
LEMMA ClosedStep ==
    ASSUME Len(plan) \in Nat
    PROVE  /\ DOMAIN Closed = 0 .. Len(plan)
           /\ Closed[0] = {}
           /\ \A n \in 1 .. Len(plan) :
                  Closed[n] = Closed[n - 1] \cup {i \in Id : Node(i).deps \subseteq Closed[n - 1]}
<1> DEFINE More(c) == c \cup {i \in Id : Node(i).deps \subseteq c}
           Is(f) == f = [n \in 0 .. Len(plan) |-> IF n = 0 THEN {} ELSE More(f[n - 1])]
<1>1. \E f : Is(f)
  <2> DEFINE step == [c \in SUBSET Id |-> More(c)]
  <2>1. step \in [SUBSET Id -> SUBSET Id] /\ {} \in SUBSET Id
    OBVIOUS
  <2>2. \A c \in SUBSET Id : step[c] = More(c)
    OBVIOUS
  <2>6. Iterations(SUBSET Id, step, {}, Len(plan)) # {}
    <3> HIDE DEF step
    <3> QED
      BY <2>1, Iterates
  <2> HIDE DEF step, More
  <2>3. PICK g \in [0 .. Len(plan) -> SUBSET Id] :
            g[0] = {} /\ \A n \in 1 .. Len(plan) : g[n] = step[g[n - 1]]
    BY <2>6 DEF Iterations
  <2>4. \A n \in 0 .. Len(plan) : g[n] = IF n = 0 THEN {} ELSE More(g[n - 1])
    <3> TAKE n \in 0 .. Len(plan)
    <3>1. CASE n = 0
      BY <2>3, <3>1
    <3>2. CASE n # 0
      <4>1. n \in 1 .. Len(plan) /\ n - 1 \in 0 .. Len(plan)
        BY <3>2
      <4> QED
        BY <2>2, <2>3, <3>2, <4>1
    <3> QED
      BY <3>1, <3>2
  <2>5. Is(g)
    BY <2>3, <2>4
  <2> QED
    BY <2>5
<1>2. Closed = CHOOSE f : Is(f)
  BY DEF Closed
<1>3. Is(Closed)
  <2> HIDE DEF Is
  <2> QED
    BY <1>1, <1>2
<1> HIDE DEF More
<1>4. /\ DOMAIN Closed = 0 .. Len(plan)
      /\ \A n \in 0 .. Len(plan) : Closed[n] = IF n = 0 THEN {} ELSE More(Closed[n - 1])
  BY <1>3
<1>5. \A n \in 1 .. Len(plan) : n \in 0 .. Len(plan) /\ n # 0
  OBVIOUS
<1> QED
  BY <1>4, <1>5 DEF More

LEMMA DepthKnown ==
    ASSUME NEW depth, \A s \in Settings : DriversApart(s, depth[s]), IInv, NodesInv, NEW i \in Id
    PROVE  /\ Depth(depth, i) \in Nat
           /\ plan[i + 1].deps \subseteq Id
           /\ \A d \in plan[i + 1].deps : d < i /\ Depth(depth, d) < Depth(depth, i)
           /\ \/ Depth(depth, i) = 0
              \/ \E d \in plan[i + 1].deps : Depth(depth, i) = Depth(depth, d) + 1
<1>1. cfg \in Settings /\ i \in 0 .. Len(plan) - 1 /\ Len(plan) \in Nat
      /\ plan[i + 1].deps \subseteq 0 .. i - 1
  BY Ranges DEF IInv, TypeOK, Id, DepsAreEarlier, Node
<1>2. plan[i + 1].deps \subseteq Id /\ \A d \in plan[i + 1].deps : d < i
  BY <1>1 DEF Id
<1> DEFINE r == Added(plan[i + 1])
<1>3. /\ r \in Declared(cfg, BundleNames)
      /\ Place(r) = Place(plan[i + 1])
      /\ r.deps = {Place(plan[d + 1]) : d \in plan[i + 1].deps}
  BY InTheTables
<1> HIDE DEF r
<1>4. /\ depth[cfg][Place(r)] \in Nat
      /\ \A d \in r.deps : depth[cfg][d] < depth[cfg][Place(r)]
      /\ depth[cfg][Place(r)] = 0 \/ \E d \in r.deps : depth[cfg][Place(r)] = depth[cfg][d] + 1
  BY <1>1, <1>3 DEF DriversApart
<1> QED
  BY <1>2, <1>3, <1>4 DEF Depth

\* No resource lies deeper than its id, so the plan is long enough for all depths.
LEMMA DepthBound ==
    ASSUME NEW depth, \A s \in Settings : DriversApart(s, depth[s]), IInv, NodesInv
    PROVE  \A i \in Id : Depth(depth, i) <= i
<1> DEFINE U == {i \in Id : ~ (Depth(depth, i) <= i)}
<1> SUFFICES ASSUME U # {} PROVE FALSE
  OBVIOUS
<1>1. Id \subseteq Nat
  BY Ranges DEF IInv, Id
<1>2. PICK i \in U : \A j \in U : i <= j
  <2>1. U \subseteq Nat
    BY <1>1
  <2> HIDE DEF U
  <2> QED
    BY <2>1, LeastOf
<1>3. i \in Id /\ ~ (Depth(depth, i) <= i) /\ i \in Nat
  BY <1>1
<1>4. /\ Depth(depth, i) \in Nat /\ plan[i + 1].deps \subseteq Id
      /\ \A d \in plan[i + 1].deps : d < i
      /\ \/ Depth(depth, i) = 0
         \/ \E d \in plan[i + 1].deps : Depth(depth, i) = Depth(depth, d) + 1
  BY <1>3, DepthKnown
<1>5. PICK d \in plan[i + 1].deps : Depth(depth, i) = Depth(depth, d) + 1
  BY <1>3, <1>4
<1>6. d \in Id /\ d \in Nat /\ d < i /\ Depth(depth, d) \in Nat
  BY <1>1, <1>4, <1>5, DepthKnown
<1>7. d \notin U
  BY <1>2, <1>3, <1>6
<1>8. Depth(depth, d) <= d
  BY <1>6, <1>7
<1> QED
  BY <1>3, <1>5, <1>6, <1>8

\* A resource enters Closed one step after its depth.
LEMMA DepthLevels ==
    ASSUME NEW depth, \A s \in Settings : DriversApart(s, depth[s]), IInv, NodesInv
    PROVE  \A n \in 0 .. Len(plan) : Closed[n] = {i \in Id : Depth(depth, i) < n}
<1> DEFINE N == Len(plan)
           T == {n \in 0 .. N : Closed[n] = {i \in Id : Depth(depth, i) < n}}
<1>1. /\ N \in Nat
      /\ Closed[0] = {}
      /\ \A n \in 1 .. N :
             Closed[n] = Closed[n - 1] \cup {i \in Id : plan[i + 1].deps \subseteq Closed[n - 1]}
  BY ClosedStep, Ranges DEF IInv, Node
<1> HIDE DEF N
<1>2. 0 \in T
  <2>1. \A i \in Id : ~ (Depth(depth, i) < 0)
    <3> TAKE i \in Id
    <3>1. Depth(depth, i) \in Nat
      BY DepthKnown
    <3> QED
      BY <3>1
  <2> QED
    BY <1>1, <2>1
<1>3. ASSUME NEW n \in 0 .. N - 1, n \in T PROVE n + 1 \in T
  <2>1. n + 1 \in 1 .. N /\ n + 1 \in 0 .. N /\ (n + 1) - 1 = n /\ n \in Nat
    BY <1>1
  <2>2. Closed[n] = {i \in Id : Depth(depth, i) < n}
    BY <1>3
  <2>3. Closed[n + 1] = Closed[n] \cup {i \in Id : plan[i + 1].deps \subseteq Closed[n]}
    <3>1. Closed[n + 1]
              = Closed[(n + 1) - 1] \cup {i \in Id : plan[i + 1].deps \subseteq Closed[(n + 1) - 1]}
      BY <1>1, <2>1
    <3> QED
      BY <2>1, <3>1
  <2>4. ASSUME NEW i \in Id
        PROVE  Depth(depth, i) < n + 1
                   <=> Depth(depth, i) < n \/ plan[i + 1].deps \subseteq Closed[n]
    <3> DEFINE di == Depth(depth, i)
               deps == plan[i + 1].deps
    <3>1. /\ di \in Nat /\ deps \subseteq Id
          /\ \A d \in deps : Depth(depth, d) < di
          /\ di = 0 \/ \E d \in deps : di = Depth(depth, d) + 1
      BY DepthKnown
    <3>2. \A d \in deps : Depth(depth, d) \in Nat
      BY <3>1, DepthKnown
    <3> HIDE DEF di, deps
    <3>3. ASSUME di < n + 1 PROVE deps \subseteq Closed[n]
      BY <2>1, <2>2, <3>1, <3>2, <3>3
    <3>4. ASSUME deps \subseteq Closed[n] PROVE di < n + 1
      <4>1. \A d \in deps : Depth(depth, d) < n
        BY <2>2, <3>4
      <4> QED
        BY <2>1, <3>1, <3>2, <4>1
    <3>5. di < n => di < n + 1
      BY <2>1, <3>1
    <3> QED
      BY <3>3, <3>4, <3>5 DEF di, deps
  <2>5. Closed[n + 1] = {i \in Id : Depth(depth, i) < n + 1}
    BY <2>2, <2>3, <2>4
  <2> QED
    BY <2>1, <2>5
<1>4. 0 .. N \subseteq T
  <2> HIDE DEF T
  <2> QED
    BY <1>1, <1>2, <1>3, Climb
<1> QED
  BY <1>4 DEF N

\* What lies at different depths is told apart by Closed.
LEMMA DepthsTellApart ==
    ASSUME NEW depth, \A s \in Settings : DriversApart(s, depth[s]), IInv, NodesInv
    PROVE  DriversAreAlone
<1> SUFFICES ASSUME NEW i \in Id, NEW j \in Id,
                    plan[i + 1].as = "drivers_install", plan[j + 1].kind \in PackageKinds
             PROVE  \E n \in DOMAIN Closed : (i \in Closed[n]) # (j \in Closed[n])
  BY DEF DriversAreAlone, Node
<1> DEFINE q == Added(plan[i + 1])
           r == Added(plan[j + 1])
<1>1. /\ q \in Declared(cfg, BundleNames) /\ r \in Declared(cfg, BundleNames)
      /\ Place(q) = Place(plan[i + 1]) /\ Place(r) = Place(plan[j + 1])
      /\ q.as = plan[i + 1].as /\ r.kind = plan[j + 1].kind
  BY InTheTables
<1> HIDE DEF q, r
<1>2. /\ cfg \in Settings /\ Len(plan) \in Nat
      /\ i \in 0 .. Len(plan) - 1 /\ j \in 0 .. Len(plan) - 1
  BY Ranges DEF IInv, TypeOK, Id
<1> DEFINE x == Depth(depth, i)
           y == Depth(depth, j)
<1>3. x # y
  BY <1>1, <1>2 DEF DriversApart, Depth
<1>4. x \in Nat /\ y \in Nat /\ x <= i /\ y <= j
  BY DepthKnown, DepthBound
<1>5. /\ DOMAIN Closed = 0 .. Len(plan)
      /\ \A n \in 0 .. Len(plan) : Closed[n] = {k \in Id : Depth(depth, k) < n}
  BY <1>2, ClosedStep, DepthLevels
<1>6. \A n \in 0 .. Len(plan) : (i \in Closed[n] <=> x < n) /\ (j \in Closed[n] <=> y < n)
  BY <1>5
<1> HIDE DEF x, y
<1>7. CASE x < y
  <2>1. x + 1 \in 0 .. Len(plan) /\ x < x + 1 /\ ~ (y < x + 1)
    BY <1>2, <1>4, <1>7
  <2> QED
    BY <1>5, <1>6, <2>1
<1>8. CASE y < x
  <2>1. y + 1 \in 0 .. Len(plan) /\ y < y + 1 /\ ~ (x < y + 1)
    BY <1>2, <1>4, <1>8
  <2> QED
    BY <1>5, <1>6, <2>1
<1> QED
  BY <1>3, <1>4, <1>7, <1>8

\* Whatever the arguments are, the plan never puts the Command that calls apt
\* itself into one level with a package.
THEOREM DriversStandAlone ==
    ASSUME NEW CONSTANT layer \in [BundleNames -> Nat], CallsDescend(layer), Conventions,
           NEW CONSTANT depth, \A s \in Settings : DriversApart(s, depth[s])
    PROVE  Spec => []DriversAreAlone
<1>1. IInv /\ TableInv => DriversAreAlone
  BY DepthsTellApart DEF TableInv
<1> QED
  BY <1>1, PlanFollowsTables, PlanInvariant, PTL

-----------------------------------------------------------------------------
(* The bundles that are reached: the least set of bundles that holds those *)
(* asked for and all that its bundles call.                                *)

LEMMA CallsInNames ==
    ASSUME NEW s \in Settings, NEW b \in BundleNames PROVE CallsOf(s, b) \subseteq BundleNames
BY BodiesAssumption DEF CallsOf

\* Reached is what its definition says: the last of a sequence of sets.
Searches(s, S, N) ==
    {r \in [0 .. N -> SUBSET BundleNames] :
         /\ r[0] = S
         /\ \A n \in 1 .. N : r[n] = r[n - 1] \cup UNION {CallsOf(s, b) : b \in r[n - 1]}}
LEMMA ReachedSteps ==
    ASSUME NEW s \in Settings, NEW S \in SUBSET BundleNames,
           NEW N, N = Cardinality(BundleNames)
    PROVE  N \in Nat /\ \E r \in Searches(s, S, N) : Reached(s, S) = r[N]
<1> DEFINE More(near) == near \cup UNION {CallsOf(s, b) : b \in near}
           Is(f) == f = [n \in 0 .. N |-> IF n = 0 THEN S ELSE More(f[n - 1])]
           reach == CHOOSE f : Is(f)
<1>1. N \in Nat
  BY FS_CardinalityType, BundlesAssumption
<1>2. Reached(s, S) = reach[N]
  BY DEF Reached
<1>3. PICK g \in [0 .. N -> SUBSET BundleNames] :
          g[0] = S /\ \A n \in 1 .. N : g[n] = More(g[n - 1])
  <2> DEFINE step == [near \in SUBSET BundleNames |-> More(near)]
  <2>1. step \in [SUBSET BundleNames -> SUBSET BundleNames]
    BY CallsInNames
  <2>2. \A near \in SUBSET BundleNames : step[near] = More(near)
    OBVIOUS
  <2> HIDE DEF step, More
  <2>3. Iterations(SUBSET BundleNames, step, S, N) # {}
    BY <1>1, <2>1, Iterates
  <2>4. PICK f \in [0 .. N -> SUBSET BundleNames] :
            f[0] = S /\ \A n \in 1 .. N : f[n] = step[f[n - 1]]
    BY <2>3 DEF Iterations
  <2>5. ASSUME NEW n \in 1 .. N PROVE f[n] = More(f[n - 1])
    <3>1. n - 1 \in 0 .. N
      BY <1>1
    <3> QED
      BY <2>2, <2>4, <3>1
  <2> QED
    BY <2>4, <2>5
<1>4. Is(g)
  <2> HIDE DEF More
  <2>1. \A n \in 0 .. N : g[n] = IF n = 0 THEN S ELSE More(g[n - 1])
    BY <1>1, <1>3
  <2> QED
    BY <2>1
<1>5. Is(reach)
  <2> HIDE DEF Is
  <2> QED
    BY <1>4
<1>6. \A n \in 0 .. N : reach[n] = IF n = 0 THEN S ELSE More(reach[n - 1])
  <2> HIDE DEF reach, More
  <2> QED
    BY <1>5
<1> DEFINE T == {n \in 0 .. N : reach[n] = g[n]}
<1>7. 0 .. N \subseteq T
  <2> HIDE DEF reach, More, Is
  <2>1. 0 \in T
    BY <1>1, <1>3, <1>6
  <2>2. ASSUME NEW n \in 0 .. N - 1, n \in T PROVE n + 1 \in T
    <3>1. n + 1 \in 0 .. N /\ n + 1 \in 1 .. N /\ n + 1 # 0 /\ (n + 1) - 1 = n
      BY <1>1
    <3> QED
      BY <1>3, <1>6, <2>2, <3>1
  <2> HIDE DEF T
  <2> QED
    BY <1>1, <2>1, <2>2, Climb
<1>8. N \in 0 .. N
  BY <1>1
<1>9. Reached(s, S) = g[N]
  <2> HIDE DEF reach
  <2> QED
    BY <1>2, <1>7, <1>8
<1> QED
  BY <1>1, <1>3, <1>9 DEF Searches

\* Each step either adds a bundle or adds none any more, and there are no more
\* steps needed than there are bundles.
LEMMA ReachedIsClosed ==
    ASSUME NEW s \in Settings, NEW S \in SUBSET BundleNames
    PROVE  /\ Reached(s, S) \subseteq BundleNames
           /\ S \subseteq Reached(s, S)
           /\ \A b \in Reached(s, S) : CallsOf(s, b) \subseteq Reached(s, S)
<1> DEFINE N == Cardinality(BundleNames)
<1>0. N = Cardinality(BundleNames)
  OBVIOUS
<1> HIDE DEF N
<1>1. PICK r \in Searches(s, S, N) : Reached(s, S) = r[N]
  BY <1>0, ReachedSteps
<1>2. /\ N \in Nat
      /\ r \in [0 .. N -> SUBSET BundleNames] /\ r[0] = S
      /\ \A n \in 1 .. N : r[n] = r[n - 1] \cup UNION {CallsOf(s, b) : b \in r[n - 1]}
  BY <1>0, <1>1, ReachedSteps DEF Searches
<1> DEFINE ClosedSet(C) == \A b \in C : CallsOf(s, b) \subseteq C
           A == {n \in 0 .. N : S \subseteq r[n]}
           T == {n \in 0 .. N : ClosedSet(r[n]) \/ n <= Cardinality(r[n])}
<1>3. \A C \in SUBSET BundleNames :
          IsFiniteSet(C) /\ Cardinality(C) \in Nat /\ Cardinality(C) <= N
          /\ (N = Cardinality(C) => C = BundleNames)
  <2> TAKE C \in SUBSET BundleNames
  <2>1. IsFiniteSet(C) /\ Cardinality(C) <= N /\ (N = Cardinality(C) => C = BundleNames)
    BY <1>0, FS_Subset, BundlesAssumption
  <2> QED
    BY <2>1, FS_CardinalityType
<1>4. ASSUME NEW n \in 0 .. N - 1
      PROVE  /\ n \in 0 .. N /\ n + 1 \in 0 .. N /\ n \in Nat
             /\ r[n] \subseteq BundleNames /\ r[n + 1] \subseteq BundleNames
             /\ r[n + 1] = r[n] \cup UNION {CallsOf(s, b) : b \in r[n]}
  <2>1. n \in 0 .. N /\ n + 1 \in 0 .. N /\ n + 1 \in 1 .. N /\ (n + 1) - 1 = n /\ n \in Nat
    BY <1>2
  <2>2. r[n + 1] = r[(n + 1) - 1] \cup UNION {CallsOf(s, b) : b \in r[(n + 1) - 1]}
    BY <1>2, <2>1
  <2> QED
    BY <1>2, <2>1, <2>2
<1>5. 0 .. N \subseteq A
  <2>1. 0 \in A
    BY <1>2
  <2>2. \A n \in 0 .. N - 1 : n \in A => n + 1 \in A
    BY <1>4
  <2> HIDE DEF A
  <2> QED
    BY <1>2, <2>1, <2>2, Climb
<1>6. 0 .. N \subseteq T
  <2>1. 0 \in T
    <3>1. 0 \in 0 .. N /\ Cardinality(r[0]) \in Nat
      BY <1>2, <1>3
    <3> QED
      BY <3>1
  <2>2. ASSUME NEW n \in 0 .. N - 1, n \in T PROVE n + 1 \in T
    <3>1. CASE ClosedSet(r[n])
      <4>1. r[n + 1] = r[n]
        <5>1. UNION {CallsOf(s, b) : b \in r[n]} \subseteq r[n]
          BY <3>1
        <5>2. r[n + 1] = r[n] \cup UNION {CallsOf(s, b) : b \in r[n]}
          BY <1>4
        <5> QED
          BY <5>1, <5>2
      <4> QED
        BY <1>4, <3>1, <4>1
    <3>2. CASE ~ClosedSet(r[n]) /\ n <= Cardinality(r[n])
      <4>1. r[n] \subseteq r[n + 1] /\ r[n] # r[n + 1]
        BY <1>4, <3>2
      <4>2. /\ Cardinality(r[n]) \in Nat /\ Cardinality(r[n + 1]) \in Nat
            /\ IsFiniteSet(r[n + 1])
        BY <1>3, <1>4
      <4>3. Cardinality(r[n]) <= Cardinality(r[n + 1]) /\ Cardinality(r[n + 1]) # Cardinality(r[n])
        <5> DEFINE small == r[n]
                   large == r[n + 1]
        <5>1. small \in SUBSET large /\ small # large /\ IsFiniteSet(large)
          BY <4>1, <4>2
        <5> HIDE DEF small, large
        <5>2. Cardinality(small) <= Cardinality(large) /\ Cardinality(large) # Cardinality(small)
          BY <5>1, FS_Subset
        <5> QED
          BY <5>2 DEF small, large
      <4>4. n + 1 <= Cardinality(r[n + 1])
        BY <1>4, <3>2, <4>2, <4>3
      <4> QED
        BY <1>4, <4>4
    <3> QED
      BY <2>2, <3>1, <3>2
  <2> HIDE DEF T
  <2> QED
    BY <1>2, <2>1, <2>2, Climb
<1>7. N \in 0 .. N /\ r[N] \subseteq BundleNames
  BY <1>2
<1>8. S \subseteq r[N] /\ (ClosedSet(r[N]) \/ N <= Cardinality(r[N]))
  BY <1>5, <1>6, <1>7
<1>9. ClosedSet(r[N])
  <2>1. CASE N <= Cardinality(r[N])
    <3>1. r[N] = BundleNames
      BY <1>2, <1>3, <1>7, <2>1
    <3> QED
      BY <3>1, CallsInNames
  <2> QED
    BY <1>8, <2>1
<1> QED
  BY <1>1, <1>7, <1>8, <1>9

LEMMA ReachedIsLeast ==
    ASSUME NEW s \in Settings, NEW S \in SUBSET BundleNames,
           NEW C, S \subseteq C, \A b \in C : CallsOf(s, b) \subseteq C
    PROVE  Reached(s, S) \subseteq C
<1> DEFINE N == Cardinality(BundleNames)
<1>0. N = Cardinality(BundleNames)
  OBVIOUS
<1> HIDE DEF N
<1>1. PICK r \in Searches(s, S, N) : Reached(s, S) = r[N]
  BY <1>0, ReachedSteps
<1>2. /\ N \in Nat
      /\ r \in [0 .. N -> SUBSET BundleNames] /\ r[0] = S
      /\ \A n \in 1 .. N : r[n] = r[n - 1] \cup UNION {CallsOf(s, b) : b \in r[n - 1]}
  BY <1>0, <1>1, ReachedSteps DEF Searches
<1> DEFINE T == {n \in 0 .. N : r[n] \subseteq C}
<1>3. 0 \in T
  BY <1>2
<1>4. ASSUME NEW n \in 0 .. N - 1, n \in T PROVE n + 1 \in T
  <2>1. n + 1 \in 0 .. N /\ n + 1 \in 1 .. N /\ (n + 1) - 1 = n
    BY <1>2
  <2>2. r[n + 1] = r[(n + 1) - 1] \cup UNION {CallsOf(s, b) : b \in r[(n + 1) - 1]}
    BY <1>2, <2>1
  <2>3. r[n] \subseteq C
    BY <1>4
  <2> QED
    BY <2>1, <2>2, <2>3
<1>5. 0 .. N \subseteq T
  <2> HIDE DEF T
  <2> QED
    BY <1>2, <1>3, <1>4, Climb
<1>6. N \in 0 .. N
  BY <1>2
<1> QED
  BY <1>1, <1>5, <1>6

-----------------------------------------------------------------------------
(* The plan as a whole.  What is built, or is being built, is reached from *)
(* the arguments, and all arguments main() has passed are built or are     *)
(* what it waits for.                                                      *)

AskedBundles == {asked[k] : k \in 1 .. Len(asked)}
Demanded == Reached(cfg, AskedBundles)

DemandInv ==
    /\ \A b \in BundleNames : cache[b] # NoId => b \in Demanded
    /\ \A k \in 1 .. Len(stack) : stack[k].bundle \in Demanded
    /\ \A k \in 1 .. at - 1 :
           cache[asked[k]] # NoId \/ (stack # <<>> /\ asked[k] = stack[1].bundle)

LEMMA DemandKnown ==
    ASSUME IInv
    PROVE  /\ Len(asked) \in Nat /\ at \in 1 .. Len(asked) + 1 /\ cfg \in Settings
           /\ \A k \in 1 .. Len(asked) : asked[k] \in AskedBundles /\ asked[k] \in BundleNames
           /\ AskedBundles \subseteq Demanded /\ Demanded \subseteq BundleNames
           /\ \A b \in Demanded : CallsOf(cfg, b) \subseteq Demanded
<1>1. asked \in Seq(BundleNames) /\ at \in 1 .. Len(asked) + 1 /\ cfg \in Settings
  BY BundlesAssumption DEF IInv, TypeOK
<1>2. Len(asked) \in Nat /\ \A k \in 1 .. Len(asked) : asked[k] \in BundleNames
  BY <1>1
<1>3. AskedBundles \in SUBSET BundleNames
  BY <1>2 DEF AskedBundles
<1>4. \A k \in 1 .. Len(asked) : asked[k] \in AskedBundles
  BY DEF AskedBundles
<1> QED
  BY <1>1, <1>2, <1>3, <1>4, ReachedIsClosed DEF Demanded

LEMMA DemandSame ==
    ASSUME cfg' = cfg, asked' = asked PROVE Demanded' = Demanded
BY DEF Demanded, AskedBundles

\* Steps of the build() calls: they leave the arguments alone.
LEMMA DemandKept ==
    ASSUME IInv, DemandInv, cfg' = cfg, asked' = asked, at' = at, stack # <<>>,
           \A b \in BundleNames :
               /\ cache[b] # NoId => cache'[b] # NoId
               /\ cache'[b] # NoId => b \in Demanded,
           \A k \in 1 .. Len(stack') : stack'[k].bundle \in Demanded,
           \/ stack' # <<>> /\ stack'[1].bundle = stack[1].bundle
           \/ cache'[stack[1].bundle] # NoId
    PROVE  DemandInv'
<1>1. Demanded' = Demanded
  BY DemandSame
<1>2. ASSUME NEW k \in 1 .. at - 1
      PROVE  cache'[asked[k]] # NoId \/ (stack' # <<>> /\ asked[k] = stack'[1].bundle)
  <2>1. k \in 1 .. Len(asked)
    BY DemandKnown
  <2>2. asked[k] \in BundleNames
    BY <2>1, DemandKnown
  <2>3. cache[asked[k]] # NoId \/ asked[k] = stack[1].bundle
    BY DEF DemandInv
  <2> QED
    BY <2>2, <2>3
<1> QED
  BY <1>1, <1>2 DEF DemandInv

LEMMA DispatchDemand ==
    ASSUME IInv, DemandInv, Dispatch PROVE DemandInv'
<1>1. /\ stack = <<>> /\ at <= Len(asked) /\ at' = at + 1
      /\ cfg' = cfg /\ asked' = asked /\ cache' = cache
      /\ stack' = IF Cached(asked[at]) THEN <<>> ELSE <<Enter(asked[at])>>
  BY DEF Dispatch
<1>2. /\ at \in Nat /\ at \in 1 .. Len(asked)
      /\ asked[at] \in Demanded
      /\ \A k \in 1 .. at' - 1 : k \in 1 .. at - 1 \/ k = at
  BY <1>1, DemandKnown
<1>3. Demanded' = Demanded
  BY <1>1, DemandSame
<1>4. CASE Cached(asked[at])
  <2>1. stack' = <<>> /\ Len(stack') = 0 /\ cache[asked[at]] # NoId
    BY <1>1, <1>4 DEF Cached
  <2>2. \A k \in 1 .. at' - 1 : cache[asked[k]] # NoId
    BY <1>1, <1>2, <2>1 DEF DemandInv
  <2> QED
    BY <1>1, <1>3, <2>1, <2>2 DEF DemandInv
<1>5. CASE ~Cached(asked[at])
  <2> DEFINE f == Enter(asked[at])
  <2>1. f.bundle = asked[at]
    BY DEF Enter
  <2>2. stack' = <<f>>
    BY <1>1, <1>5
  <2> HIDE DEF f
  <2>3. stack' # <<>> /\ Len(stack') = 1 /\ stack'[1].bundle = asked[at]
    BY <2>1, <2>2
  <2>4. \A k \in 1 .. at' - 1 : cache[asked[k]] # NoId \/ asked[k] = stack'[1].bundle
    BY <1>1, <1>2, <2>3 DEF DemandInv
  <2>5. \A k \in 1 .. Len(stack') : k = 1
    BY <2>3
  <2> QED
    BY <1>1, <1>2, <1>3, <2>3, <2>4, <2>5 DEF DemandInv
<1> QED
  BY <1>4, <1>5

\* The bundle of the innermost frame stays that of its frame.
LEMMA TopReplacedDemand ==
    ASSUME IInv, DemandInv, stack # <<>>, NEW g, g.bundle = Top.bundle,
           Len(stack') = Len(stack),
           \A k \in 1 .. Len(stack) : stack'[k] = IF k = Len(stack) THEN g ELSE stack[k]
    PROVE  /\ \A k \in 1 .. Len(stack') : stack'[k].bundle \in Demanded
           /\ stack' # <<>> /\ stack'[1].bundle = stack[1].bundle
<1>1. Len(stack) \in Nat \ {0} /\ Top = stack[Len(stack)]
  BY TopKnown
<1>2. \A k \in 1 .. Len(stack) : stack'[k].bundle = stack[k].bundle
  BY <1>1
<1>3. Len(stack') # 0 /\ 1 \in 1 .. Len(stack)
  BY <1>1
<1>4. stack' # <<>>
  BY <1>3
<1>5. \A k \in 1 .. Len(stack) : stack[k].bundle \in Demanded
  BY DEF DemandInv
<1> QED
  BY <1>2, <1>3, <1>4, <1>5

LEMMA CallCachedDemand ==
    ASSUME IInv, DemandInv, CallCached PROVE DemandInv'
<1>1. /\ stack # <<>> /\ cfg' = cfg /\ asked' = asked /\ at' = at /\ cache' = cache
      /\ stack' = [stack EXCEPT ![Len(stack)] = Bind(Top, Stmt.as, cache[Stmt.as])]
  BY DEF CallCached
<1>2. /\ \A k \in 1 .. Len(stack') : stack'[k].bundle \in Demanded
      /\ stack' # <<>> /\ stack'[1].bundle = stack[1].bundle
  <2> DEFINE g == Bind(Top, Stmt.as, cache[Stmt.as])
  <2>1. g.bundle = Top.bundle /\ stack' = [stack EXCEPT ![Len(stack)] = g]
    BY <1>1 DEF Bind
  <2> HIDE DEF g
  <2> QED
    BY <1>1, <2>1, TopReplaced, TopReplacedDemand
<1>3. \A b \in BundleNames : cache[b] # NoId => b \in Demanded
  BY DEF DemandInv
<1> QED
  BY <1>1, <1>2, <1>3, DemandKept

LEMMA AddResourceDemand ==
    ASSUME IInv, DemandInv, AddResource PROVE DemandInv'
<1>1. /\ stack # <<>> /\ cfg' = cfg /\ asked' = asked /\ at' = at /\ cache' = cache
      /\ stack' = [stack EXCEPT ![Len(stack)] = Bind(Top, Stmt.as, NewId)]
  BY DEF AddResource
<1>2. /\ \A k \in 1 .. Len(stack') : stack'[k].bundle \in Demanded
      /\ stack' # <<>> /\ stack'[1].bundle = stack[1].bundle
  <2> DEFINE g == Bind(Top, Stmt.as, NewId)
  <2>1. g.bundle = Top.bundle /\ stack' = [stack EXCEPT ![Len(stack)] = g]
    BY <1>1 DEF Bind
  <2> HIDE DEF g
  <2> QED
    BY <1>1, <2>1, TopReplaced, TopReplacedDemand
<1>3. \A b \in BundleNames : cache[b] # NoId => b \in Demanded
  BY DEF DemandInv
<1> QED
  BY <1>1, <1>2, <1>3, DemandKept

LEMMA CallBuildDemand ==
    ASSUME IInv, DemandInv, CallBuild PROVE DemandInv'
<1>1. /\ stack # <<>> /\ Stmt.op = "call" /\ stack' = Append(stack, Enter(Stmt.as))
      /\ cfg' = cfg /\ asked' = asked /\ at' = at /\ cache' = cache
  BY DEF CallBuild
<1>2. Top.bundle \in Demanded /\ Top.pc \in 1 .. Len(body[Top.bundle])
      /\ Stmt = body[Top.bundle][Top.pc]
  BY <1>1, TopKnown, StatementKnown DEF DemandInv, IInv
<1>3. Stmt.as \in CallsOf(cfg, Top.bundle)
  BY <1>1, <1>2 DEF CallsOf, body
<1>4. Stmt.as \in Demanded
  BY <1>2, <1>3, DemandKnown
<1> DEFINE f == Enter(Stmt.as)
<1>5. f.bundle = Stmt.as
  BY DEF Enter
<1>6. stack' = Append(stack, f)
  BY <1>1
<1> HIDE DEF f
<1>7. /\ Len(stack) \in Nat \ {0} /\ Len(stack') = Len(stack) + 1
      /\ stack'[Len(stack) + 1] = f
      /\ \A k \in 1 .. Len(stack) : stack'[k] = stack[k]
  <2>1. stack \in Seq(Frames(Len(plan)) \cup {f}) /\ Len(stack) \in Nat \ {0}
    BY <1>1, Ranges, SeqMonotonic DEF IInv
  <2> QED
    BY <1>6, <2>1, AppendProperties
<1>8. \A k \in 1 .. Len(stack') : stack'[k].bundle \in Demanded
  <2> TAKE k \in 1 .. Len(stack')
  <2>1. CASE k = Len(stack) + 1
    BY <1>4, <1>5, <1>7, <2>1
  <2>2. CASE k # Len(stack) + 1
    <3>1. k \in 1 .. Len(stack)
      BY <1>7, <2>2
    <3> QED
      BY <1>7, <3>1 DEF DemandInv
  <2> QED
    BY <2>1, <2>2
<1>9. stack' # <<>> /\ stack'[1].bundle = stack[1].bundle
  <2>1. Len(stack') # 0 /\ 1 \in 1 .. Len(stack)
    BY <1>7
  <2> QED
    BY <1>7, <2>1
<1>10. \A b \in BundleNames : cache[b] # NoId => b \in Demanded
  BY DEF DemandInv
<1> QED
  BY <1>1, <1>8, <1>9, <1>10, DemandKept

\* When a build() returns, the callers stay in progress.
LEMMA CallersStay ==
    ASSUME IInv, AddReady
    PROVE  /\ Len(stack') = Len(stack) - 1
           /\ \A k \in 1 .. Len(stack) - 1 : stack'[k].bundle = stack[k].bundle
<1>1. Len(stack') = Len(stack) - 1
  BY CallerAdvances
<1>2. ASSUME NEW k \in 1 .. Len(stack) - 1 PROVE stack'[k].bundle = stack[k].bundle
  <2>1. CASE k = Len(stack) - 1
    <3>1. stack'[k] = Bind(stack[k], body[stack[k].bundle][stack[k].pc].as, NewId)
      BY <2>1, CallerAdvances
    <3> QED
      BY <3>1 DEF Bind
  <2>2. CASE k # Len(stack) - 1
    BY <2>2, CallerAdvances
  <2> QED
    BY <2>1, <2>2
<1> QED
  BY <1>1, <1>2

LEMMA AddReadyDemand ==
    ASSUME IInv, DemandInv, AddReady PROVE DemandInv'
<1>1. /\ stack # <<>> /\ cfg' = cfg /\ asked' = asked /\ at' = at /\ cache' = Memo
      /\ NewId = Len(plan)
  BY DEF AddReady, NewId
<1>2. /\ Len(stack) \in Nat \ {0} /\ Top = stack[Len(stack)] /\ Top.bundle \in BundleNames
      /\ Top.bundle \in Demanded /\ Len(plan) \in Nat
      /\ cache \in [BundleNames -> (0 .. Len(plan) - 1) \cup {NoId}]
  BY <1>1, TopKnown, Ranges DEF DemandInv, IInv
<1>3. \A b \in BundleNames : cache'[b] = IF b = Top.bundle THEN Len(plan) ELSE cache[b]
  BY <1>1, <1>2 DEF Memo
<1>4. \A b \in BundleNames : /\ cache[b] # NoId => cache'[b] # NoId
                             /\ cache'[b] # NoId => b \in Demanded
  BY <1>2, <1>3 DEF DemandInv, NoId
<1>5. /\ Len(stack') = Len(stack) - 1
      /\ \A k \in 1 .. Len(stack) - 1 : stack'[k].bundle = stack[k].bundle
  BY CallersStay
<1>6. \A k \in 1 .. Len(stack') : stack'[k].bundle \in Demanded
  <2> TAKE k \in 1 .. Len(stack')
  <2>1. k \in 1 .. Len(stack) - 1 /\ k \in 1 .. Len(stack)
    BY <1>2, <1>5
  <2> QED
    BY <1>5, <2>1 DEF DemandInv
<1>7. CASE Len(stack) = 1
  <2>1. cache'[stack[1].bundle] # NoId
    BY <1>2, <1>3, <1>7 DEF NoId
  <2> QED
    BY <1>1, <1>4, <1>6, <2>1, DemandKept
<1>8. CASE Len(stack) # 1
  <2>1. Len(stack') # 0 /\ 1 \in 1 .. Len(stack) - 1
    BY <1>2, <1>5, <1>8
  <2>2. stack' # <<>> /\ stack'[1].bundle = stack[1].bundle
    BY <1>5, <2>1
  <2> QED
    BY <1>1, <1>4, <1>6, <2>2, DemandKept
<1> QED
  BY <1>7, <1>8

\* What is built is what the arguments demand.
THEOREM OnlyDemanded == Spec => []DemandInv
<1>1. Init => DemandInv
  <2> SUFFICES ASSUME Init PROVE DemandInv
    OBVIOUS
  <2>1. /\ \A b \in BundleNames : cache[b] = NoId
        /\ Len(stack) = 0 /\ at = 1
    BY DEF Init
  <2> QED
    BY <2>1 DEF DemandInv
<1>2. IInv /\ DemandInv /\ [Next]_vars => DemandInv'
  <2> SUFFICES ASSUME IInv, DemandInv, [Next]_vars PROVE DemandInv'
    OBVIOUS
  <2>1. CASE UNCHANGED vars
    <3>1. Demanded' = Demanded
      BY <2>1, DemandSame DEF vars
    <3> QED
      BY <2>1, <3>1 DEF DemandInv, vars
  <2> QED
    BY <2>1, DispatchDemand, CallCachedDemand, CallBuildDemand, AddResourceDemand,
       AddReadyDemand DEF Next
<1> QED
  BY <1>1, <1>2, PlanInvariant, PTL DEF Spec

\* At the end exactly the bundles reached from the arguments are built.
LEMMA AllDemanded ==
    ASSUME Conventions, IInv, TableInv, DemandInv, Done
    PROVE  \A b \in Demanded : b \in BundleNames /\ cache[b] # NoId
<1> DEFINE C == {b \in BundleNames : cache[b] # NoId}
<1>1. /\ cfg \in Settings /\ AskedBundles \in SUBSET BundleNames
      /\ \A k \in 1 .. Len(asked) : asked[k] \in BundleNames /\ k \in 1 .. at - 1
  <2>1. /\ Len(asked) \in Nat /\ at \in 1 .. Len(asked) + 1 /\ cfg \in Settings
        /\ \A k \in 1 .. Len(asked) : asked[k] \in BundleNames
        /\ at > Len(asked)
    BY DemandKnown DEF Done
  <2>2. AskedBundles \in SUBSET BundleNames
    BY <2>1 DEF AskedBundles
  <2> QED
    BY <2>1, <2>2
<1>2. AskedBundles \subseteq C
  BY <1>1 DEF AskedBundles, DemandInv, Done
<1>3. ASSUME NEW b \in C PROVE CallsOf(cfg, b) \subseteq C
  <2> SUFFICES ASSUME NEW n \in 1 .. Len(body[b]), body[b][n].op = "call"
               PROVE  body[b][n].as \in C
    BY DEF CallsOf, body
  <2>1. body[b][n].as \in BundleNames
    BY <1>1, BodyKnown
  <2>2. cache[body[b][n].as] # NoId
    BY DEF TableInv, CompleteInv
  <2> QED
    BY <2>1, <2>2
<1>4. Demanded \subseteq C
  <2> HIDE DEF C
  <2> QED
    BY <1>1, <1>2, <1>3, ReachedIsLeast DEF Demanded
<1> QED
  BY <1>4

\* What bundle b declares is in the plan once b is built.
LEMMA DeclaredIsAdded ==
    ASSUME Conventions, IInv, TableInv, NEW b \in BundleNames, cache[b] # NoId,
           NEW m \in Declared(cfg, {b})
    PROVE  \E i \in Id : Added(plan[i + 1]) = m
<1>1. cfg \in Settings
  BY DEF IInv, TypeOK
<1>2. PICK n \in 1 .. Len(body[b]) : body[b][n].op = "add" /\ m = Meant(cfg, b, body[b][n])
  BY DEF Declared, AddsOf, body
<1>3. PICK i \in Id : Place(plan[i + 1]) = <<b, body[b][n].as>>
  BY <1>2 DEF TableInv, CompleteInv
<1>4. plan[i + 1].by = b /\ plan[i + 1].as = body[b][n].as
  BY <1>3 DEF Place
<1>5. Added(plan[i + 1]) \in Declared(cfg, {b})
  BY <1>4 DEF TableInv, NodesInv
<1>6. PICK k \in 1 .. Len(body[b]) :
          body[b][k].op = "add" /\ Added(plan[i + 1]) = Meant(cfg, b, body[b][k])
  BY <1>5 DEF Declared, AddsOf, body
<1>7. body[b][k].as = body[b][n].as
  BY <1>4, <1>6 DEF Added, Meant
<1>8. k = n
  BY <1>1, <1>7, BodyKnown
<1> QED
  BY <1>2, <1>6, <1>8

LEMMA UnionOfDemanded ==
    ASSUME Conventions, IInv, OrderInv, TableInv, DemandInv, Done
    PROVE  {Added(plan[k]) : k \in 1 .. Len(plan)} = Declared(cfg, Demanded)
<1>1. Len(plan) \in Nat
  BY Ranges DEF IInv
<1>2. \A k \in 1 .. Len(plan) : k - 1 \in Id /\ (k - 1) + 1 = k
  BY <1>1 DEF Id
<1>3. \A i \in Id : i + 1 \in 1 .. Len(plan)
  BY <1>1 DEF Id
<1>4. ASSUME NEW i \in Id PROVE Added(plan[i + 1]) \in Declared(cfg, Demanded)
  <2> DEFINE b == plan[i + 1].by
  <2>1. b \in BundleNames /\ Added(plan[i + 1]) \in Declared(cfg, {b})
    BY DEF TableInv, NodesInv
  <2>2. cache[b] # NoId
    <3>1. Len(stack) = 0
      BY DEF Done
    <3> QED
      BY <3>1 DEF OrderInv, OwnedInv, OwnedIn
  <2>3. b \in Demanded
    BY <2>1, <2>2 DEF DemandInv
  <2> HIDE DEF b
  <2> QED
    BY <2>1, <2>3 DEF Declared
<1>5. ASSUME NEW m \in Declared(cfg, Demanded) PROVE \E i \in Id : Added(plan[i + 1]) = m
  <2>1. PICK b \in Demanded : m \in Declared(cfg, {b})
    BY DEF Declared
  <2> QED
    BY <2>1, AllDemanded, DeclaredIsAdded
<1>6. ASSUME NEW k \in 1 .. Len(plan) PROVE Added(plan[k]) \in Declared(cfg, Demanded)
  BY <1>2, <1>4
<1>7. ASSUME NEW m \in Declared(cfg, Demanded) PROVE \E k \in 1 .. Len(plan) : Added(plan[k]) = m
  BY <1>3, <1>5
<1> QED
  BY <1>6, <1>7

\* No two resources of the plan are the same.
LEMMA EachOnce ==
    ASSUME IInv, TableInv, NEW R, R = {Added(plan[k]) : k \in 1 .. Len(plan)}
    PROVE  Cardinality(R) = Len(plan)
<1> DEFINE f == [k \in 1 .. Len(plan) |-> Added(plan[k])]
<1>1. Len(plan) \in Nat
  BY Ranges DEF IInv
<1>2. \A k \in 1 .. Len(plan) : k - 1 \in Id /\ (k - 1) + 1 = k
  BY <1>1 DEF Id
<1>3. \A j, k \in 1 .. Len(plan) : Added(plan[j]) = Added(plan[k]) => j = k
  <2> SUFFICES ASSUME NEW j \in 1 .. Len(plan), NEW k \in 1 .. Len(plan), Added(plan[j]) = Added(plan[k])
               PROVE  j = k
    OBVIOUS
  <2>1. Place(plan[j]) = Place(plan[k])
    BY DEF Added, Place
  <2>2. j - 1 = k - 1
    BY <1>2, <2>1 DEF TableInv, OnceInv
  <2> QED
    BY <2>2
<1>4. f \in [1 .. Len(plan) -> R] /\ \A k \in 1 .. Len(plan) : f[k] = Added(plan[k])
  OBVIOUS
<1>5. \A m \in R : \E k \in 1 .. Len(plan) : f[k] = m
  OBVIOUS
<1> HIDE DEF f
<1>6. f \in Bijection(1 .. Len(plan), R)
  <2>1. \A j, k \in 1 .. Len(plan) : f[j] = f[k] => j = k
    BY <1>3, <1>4
  <2>2. f \in Injection(1 .. Len(plan), R)
    BY <1>4, <2>1, Fun_IsInj
  <2>3. f \in Surjection(1 .. Len(plan), R)
    BY <1>4, <1>5, Fun_IsSurj
  <2> QED
    BY <2>2, <2>3 DEF Bijection
<1>7. ExistsBijection(1 .. Len(plan), R)
  BY <1>6 DEF ExistsBijection
<1> QED
  BY <1>1, <1>7, FS_CountingElements, Zenon

\* Whatever the order of the arguments and however often a bundle is called,
\* the plan is what the bundles they reach declare, each resource once.
THEOREM PlanIsTheUnion ==
    ASSUME NEW CONSTANT layer \in [BundleNames -> Nat], CallsDescend(layer), Conventions
    PROVE  Spec => []PlanIsUnion
<1>1. ASSUME IInv, OrderInv, TableInv, DemandInv PROVE PlanIsUnion
  <2> DEFINE all == Declared(cfg, Demanded)
  <2>1. ASSUME Done
        PROVE  {Added(plan[k]) : k \in 1 .. Len(plan)} = all /\ Len(plan) = Cardinality(all)
    <3>1. {Added(plan[k]) : k \in 1 .. Len(plan)} = all
      BY <1>1, <2>1, UnionOfDemanded
    <3> HIDE DEF all
    <3>2. Cardinality(all) = Len(plan)
      BY <1>1, <3>1, EachOnce
    <3> QED
      BY <3>1, <3>2
  <2> QED
    BY <2>1, Zenon DEF PlanIsUnion, Demanded, AskedBundles
<1> QED
  BY <1>1, PlanInOrder, PlanFollowsTables, OnlyDemanded, PlanInvariant, PTL

-----------------------------------------------------------------------------
(* That build() calls end.  Each step lowers the first of four numbers it  *)
(* changes: the arguments left, the bundles not yet entered, the calls in  *)
(* progress, the statements left of the innermost one.                     *)

Ahead == Len(asked) + 1 - at
Fresh ==
    {b \in BundleNames : cache[b] = NoId /\ \A k \in 1 .. Len(stack) : stack[k].bundle # b}
Left == IF stack = <<>> THEN 0 ELSE Len(body[Top.bundle]) - Top.pc
Lowered ==
    \/ Ahead' < Ahead
    \/ /\ Ahead' = Ahead
       /\ \/ Cardinality(Fresh') < Cardinality(Fresh)
          \/ Fresh' = Fresh /\ Len(stack') < Len(stack)
          \/ Fresh' = Fresh /\ Len(stack') = Len(stack) /\ Left' < Left
Counts == Ahead \in Nat /\ Cardinality(Fresh) \in Nat /\ Len(stack) \in Nat /\ Left \in Nat

LEMMA FreshFinite == IsFiniteSet(Fresh) /\ Cardinality(Fresh) \in Nat
<1>1. Fresh \in SUBSET BundleNames
  BY DEF Fresh
<1>2. IsFiniteSet(Fresh)
  BY <1>1, FS_Subset, BundlesAssumption
<1> QED
  BY <1>2, FS_CardinalityType

LEMMA CountsAreNatural == ASSUME IInv PROVE Counts
<1>1. Len(asked) + 1 - at \in Nat /\ Len(stack) \in Nat
  <2>1. Len(asked) \in Nat /\ at \in 1 .. Len(asked) + 1 /\ Len(stack) \in Nat
    BY DemandKnown, Ranges DEF IInv
  <2> QED
    BY <2>1
<1>2. Left \in Nat
  <2>1. CASE stack = <<>>
    BY <2>1 DEF Left
  <2>2. CASE stack # <<>>
    <3>1. Top.pc \in 1 .. Len(body[Top.bundle]) /\ Len(body[Top.bundle]) \in Nat
      BY <2>2, StatementKnown DEF IInv
    <3>2. Len(body[Top.bundle]) - Top.pc \in Nat
      BY <3>1
    <3> QED
      BY <2>2, <3>2 DEF Left
  <2> QED
    BY <2>1, <2>2
<1> QED
  BY <1>1, <1>2, FreshFinite DEF Counts, Ahead

LEMMA DispatchLowers == ASSUME IInv, Dispatch PROVE Lowered
<1>1. at' = at + 1 /\ asked' = asked
  BY DEF Dispatch
<1>2. Len(asked) \in Nat /\ at \in 1 .. Len(asked) + 1
  BY DemandKnown
<1> QED
  BY <1>1, <1>2 DEF Lowered, Ahead

\* The innermost build() goes on.
LEMMA StatementLowers ==
    ASSUME IInv, stack # <<>>, ~Last, asked' = asked, at' = at, cfg' = cfg, cache' = cache,
           NEW g, g.bundle = Top.bundle, g.pc = Top.pc + 1, Len(stack') = Len(stack),
           \A k \in 1 .. Len(stack) : stack'[k] = IF k = Len(stack) THEN g ELSE stack[k]
    PROVE  Lowered
<1>1. /\ Len(stack) \in Nat \ {0} /\ Top = stack[Len(stack)] /\ Len(stack) \in 1 .. Len(stack)
      /\ Top.pc \in 1 .. Len(body[Top.bundle]) /\ Len(body[Top.bundle]) \in Nat
  BY TopKnown, StatementKnown DEF IInv
<1>2. \A k \in 1 .. Len(stack) : stack'[k].bundle = stack[k].bundle
  BY <1>1
<1>3. Fresh' = Fresh
  BY <1>2 DEF Fresh
<1>4. stack' # <<>> /\ Top' = g
  <2>1. Len(stack') # 0 /\ stack'[Len(stack')] = g
    BY <1>1
  <2> QED
    BY <2>1 DEF Top
<1>5. body' = body
  BY DEF body
<1>6. Left' = Len(body[Top.bundle]) - (Top.pc + 1)
  BY <1>4, <1>5 DEF Left
<1>7. Left = Len(body[Top.bundle]) - Top.pc
  BY DEF Left
<1>8. Left' < Left
  BY <1>1, <1>6, <1>7
<1> QED
  BY <1>3, <1>8 DEF Lowered, Ahead

LEMMA CallBuildLowers ==
    ASSUME IInv, NoReentry', CallBuild PROVE Lowered
<1>1. /\ stack # <<>> /\ Stmt.op = "call" /\ stack' = Append(stack, Enter(Stmt.as))
      /\ cache[Stmt.as] = NoId /\ asked' = asked /\ at' = at /\ cache' = cache
  BY DEF CallBuild, Cached
<1>2. Stmt.as \in BundleNames
  BY <1>1, StatementKnown DEF IInv
<1> DEFINE f == Enter(Stmt.as)
<1>3. f.bundle = Stmt.as /\ stack' = Append(stack, f)
  BY <1>1 DEF Enter
<1> HIDE DEF f
<1>4. /\ Len(stack) \in Nat /\ Len(stack') = Len(stack) + 1 /\ stack'[Len(stack) + 1] = f
      /\ \A k \in 1 .. Len(stack) : stack'[k] = stack[k]
  <2>1. stack \in Seq(Frames(Len(plan)) \cup {f}) /\ Len(stack) \in Nat
    BY Ranges, SeqMonotonic DEF IInv
  <2> QED
    BY <1>3, <2>1, AppendProperties
<1>5. \A k \in 1 .. Len(stack) : stack[k].bundle # Stmt.as
  <2> SUFFICES ASSUME NEW k \in 1 .. Len(stack), stack[k].bundle = Stmt.as PROVE FALSE
    OBVIOUS
  <2>1. k \in 1 .. Len(stack') /\ Len(stack) + 1 \in 1 .. Len(stack') /\ k # Len(stack) + 1
    BY <1>4
  <2>2. stack'[k].bundle = stack'[Len(stack) + 1].bundle
    BY <1>3, <1>4
  <2>3. DOMAIN stack' = 1 .. Len(stack')
    <3>1. stack \in Seq(Frames(Len(plan)) \cup {f})
      BY Ranges, SeqMonotonic DEF IInv
    <3>2. stack' \in Seq(Frames(Len(plan)) \cup {f})
      BY <1>3, <3>1, AppendProperties
    <3> QED
      BY <3>2, LenProperties
  <2> QED
    BY <2>1, <2>2, <2>3 DEF NoReentry
<1>6. Stmt.as \in Fresh
  BY <1>1, <1>2, <1>5 DEF Fresh
<1>7. Fresh' = Fresh \ {Stmt.as}
  <2>1. ASSUME NEW b \in BundleNames
        PROVE  (\A k \in 1 .. Len(stack') : stack'[k].bundle # b)
                   <=> b # Stmt.as /\ \A k \in 1 .. Len(stack) : stack[k].bundle # b
    <3>1. \A k \in 1 .. Len(stack') : k \in 1 .. Len(stack) \/ k = Len(stack) + 1
      BY <1>4
    <3>2. /\ Len(stack) + 1 \in 1 .. Len(stack')
          /\ \A k \in 1 .. Len(stack) : k \in 1 .. Len(stack')
      BY <1>4
    <3> QED
      BY <1>3, <1>4, <3>1, <3>2
  <2> QED
    BY <1>1, <2>1 DEF Fresh
<1>8. Cardinality(Fresh') < Cardinality(Fresh)
  <2> DEFINE F == Fresh
  <2>1. IsFiniteSet(F) /\ Cardinality(F) \in Nat /\ Stmt.as \in F
    BY <1>6, FreshFinite
  <2> HIDE DEF F
  <2>2. Cardinality(F \ {Stmt.as}) = Cardinality(F) - 1
    BY <2>1, FS_RemoveElement
  <2>3. Cardinality(F \ {Stmt.as}) < Cardinality(F)
    BY <2>1, <2>2
  <2> QED
    BY <1>7, <2>3 DEF F
<1> QED
  BY <1>1, <1>8 DEF Lowered, Ahead

LEMMA AddReadyLowers == ASSUME IInv, AddReady PROVE Lowered
<1>1. stack # <<>> /\ asked' = asked /\ at' = at /\ cache' = Memo /\ NewId = Len(plan)
  BY DEF AddReady, NewId
<1>2. /\ Len(stack) \in Nat \ {0} /\ Top = stack[Len(stack)] /\ Top.bundle \in BundleNames
      /\ Len(plan) \in Nat /\ cache \in [BundleNames -> (0 .. Len(plan) - 1) \cup {NoId}]
  BY <1>1, TopKnown, Ranges DEF IInv
<1>3. \A b \in BundleNames : cache'[b] = IF b = Top.bundle THEN Len(plan) ELSE cache[b]
  BY <1>1, <1>2 DEF Memo
<1>4. /\ Len(stack') = Len(stack) - 1
      /\ \A k \in 1 .. Len(stack) - 1 : stack'[k].bundle = stack[k].bundle
  BY CallersStay
<1>5. Fresh' = Fresh
  <2>1. ASSUME NEW b \in BundleNames
        PROVE  (cache'[b] = NoId /\ \A k \in 1 .. Len(stack') : stack'[k].bundle # b)
                   <=> (cache[b] = NoId /\ \A k \in 1 .. Len(stack) : stack[k].bundle # b)
    <3>1. CASE b = Top.bundle
      <4>1. cache'[b] # NoId /\ Len(stack) \in 1 .. Len(stack) /\ stack[Len(stack)].bundle = b
        BY <1>2, <1>3, <3>1 DEF NoId
      <4> QED
        BY <4>1
    <3>2. CASE b # Top.bundle
      <4>1. cache'[b] = cache[b]
        BY <1>3, <3>2
      <4>2. \A k \in 1 .. Len(stack) : k \in 1 .. Len(stack') \/ stack[k].bundle # b
        BY <1>2, <1>4, <3>2
      <4>3. \A k \in 1 .. Len(stack') : k \in 1 .. Len(stack) - 1 /\ k \in 1 .. Len(stack)
        BY <1>2, <1>4
      <4> QED
        BY <1>4, <4>1, <4>2, <4>3
    <3> QED
      BY <3>1, <3>2
  <2> QED
    BY <2>1 DEF Fresh
<1>6. Len(stack') < Len(stack)
  BY <1>2, <1>4
<1> QED
  BY <1>1, <1>5, <1>6 DEF Lowered, Ahead

\* The assembly of the plan ends: no step leaves all four numbers where they
\* are, and a number only grows when one before it in the list is lowered.
THEOREM BuildingEnds ==
    ASSUME NEW CONSTANT layer \in [BundleNames -> Nat], CallsDescend(layer)
    PROVE  Spec => []Counts /\ [][Lowered]_vars
<1>1. IInv /\ NoReentry' /\ [Next]_vars => [Lowered]_vars
  <2> SUFFICES ASSUME IInv, NoReentry', Next PROVE Lowered
    OBVIOUS
  <2>1. CASE CallCached
    <3> DEFINE g == Bind(Top, Stmt.as, cache[Stmt.as])
    <3>1. /\ stack # <<>> /\ Stmt.op = "call" /\ stack' = [stack EXCEPT ![Len(stack)] = g]
          /\ asked' = asked /\ at' = at /\ cfg' = cfg /\ cache' = cache
      BY <2>1 DEF CallCached
    <3>2. g.bundle = Top.bundle /\ g.pc = Top.pc + 1
      BY DEF Bind
    <3>3. ~Last
      BY <3>1, StatementKnown DEF IInv
    <3> HIDE DEF g
    <3> QED
      BY <3>1, <3>2, <3>3, TopReplaced, StatementLowers
  <2>2. CASE AddResource
    <3> DEFINE g == Bind(Top, Stmt.as, NewId)
    <3>1. /\ stack # <<>> /\ ~Last /\ stack' = [stack EXCEPT ![Len(stack)] = g]
          /\ asked' = asked /\ at' = at /\ cfg' = cfg /\ cache' = cache
      BY <2>2 DEF AddResource
    <3>2. g.bundle = Top.bundle /\ g.pc = Top.pc + 1
      BY DEF Bind
    <3> HIDE DEF g
    <3> QED
      BY <3>1, <3>2, TopReplaced, StatementLowers
  <2> QED
    BY <2>1, <2>2, DispatchLowers, CallBuildLowers, AddReadyLowers DEF Next
<1>2. Spec => []NoReentry
  BY LayeredBundlesNeverReenter
<1>3. IInv => Counts
  BY CountsAreNatural
<1> QED
  BY <1>1, <1>2, <1>3, PlanInvariant, PTL DEF Spec

=============================================================================
