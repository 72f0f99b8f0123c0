------------------------- MODULE PlanBuilder_proofs -------------------------
(***************************************************************************)
(* Proofs about the assembly of the plan, for all bundles, configurations  *)
(* and arguments.                                                          *)
(*                                                                         *)
(* DepsAreEarlier is not inductive: a resource takes its dependencies from *)
(* the variables of the build() that adds it, which got them from plan.add,*)
(* from the cache or from another build().  The inductive invariant says   *)
(* that all three hold ids of the plan (TypeOK) and that every variable a  *)
(* build() can use by now is bound (StackOK).                              *)
(***************************************************************************)
EXTENDS PlanBuilder, SequenceTheorems, TLAPS

Resources == [by : BundleNames, as : Vars, kind : STRING, on : SUBSET STRING,
              deps : SUBSET Nat, trig : SUBSET Nat]
Frames(n) == [bundle : BundleNames, pc : Nat \ {0}, bound : [Vars -> (0 .. n - 1) \cup {NoId}]]

IInv == TypeOK /\ StackOK /\ DepsAreEarlier

\* TypeOK in the terms of this module.
LEMMA Ranges ==
    ASSUME TypeOK
    PROVE  /\ plan \in Seq(Resources)
           /\ Len(plan) \in Nat
           /\ stack \in Seq(Frames(Len(plan)))
           /\ Len(stack) \in Nat
           /\ DOMAIN stack = 1 .. Len(stack)
           /\ \A k \in 1 .. Len(stack) : stack[k] \in Frames(Len(plan))
           /\ cache \in [BundleNames -> (0 .. Len(plan) - 1) \cup {NoId}]
           /\ stack # <<>> => Len(stack) \in Nat \ {0}
<1>1. plan \in Seq(Resources) /\ Len(plan) \in Nat
  BY LenProperties DEF TypeOK, Resources
<1>2. stack \in Seq(Frames(Len(plan)))
  BY DEF TypeOK, Frames, Id
<1>3. cache \in [BundleNames -> (0 .. Len(plan) - 1) \cup {NoId}]
  BY DEF TypeOK, Id
<1> QED
  BY <1>1, <1>2, <1>3, LenProperties, ElementOfSeq, EmptySeq

\* The statement a build() in progress is at is one of its body.
LEMMA StatementKnown ==
    ASSUME TypeOK, StackOK, stack # <<>>
    PROVE  /\ Top = stack[Len(stack)]
           /\ Top \in Frames(Len(plan))
           /\ Top.pc \in 1 .. Len(body[Top.bundle])
           /\ Len(body[Top.bundle]) \in Nat \ {0}
           /\ Stmt.op \in {"call", "add"}
           /\ Stmt.as \in Vars
           /\ Stmt.op = "call" => Stmt.as \in BundleNames /\ ~Last
           /\ Stmt.op = "add" =>
                  /\ Stmt.kind \in STRING /\ Stmt.on \subseteq STRING
                  /\ Ids(Stmt.deps) \cup Ids(Stmt.trig) \subseteq 0 .. Len(plan) - 1
<1>1. /\ Len(stack) \in Nat \ {0}
      /\ Top = stack[Len(stack)] /\ Top \in Frames(Len(plan))
      /\ Len(stack) \in DOMAIN stack
  BY Ranges DEF Top
<1>2. Top.bundle \in BundleNames /\ Top.pc \in Nat \ {0}
      /\ Top.bound \in [Vars -> (0 .. Len(plan) - 1) \cup {NoId}]
  BY <1>1 DEF Frames
<1>3. Top.pc <= Len(body[Top.bundle])
      /\ \A n \in 1 .. Top.pc - 1 : Top.bound[body[Top.bundle][n].as] # NoId
  BY <1>1 DEF StackOK
<1>4. cfg \in Settings
  BY DEF TypeOK
<1>5. Len(body[Top.bundle]) \in Nat \ {0} /\ Top.pc \in 1 .. Len(body[Top.bundle])
  BY <1>2, <1>3, <1>4, BodiesAssumption DEF body
<1>6. body[Top.bundle][Len(body[Top.bundle])].op = "add"
  BY <1>2, <1>4, BodiesAssumption DEF body
<1>7. /\ Stmt.op \in {"call", "add"}
      /\ Stmt.as \in Vars
      /\ Stmt.op = "call" => Stmt.as \in BundleNames
      /\ Stmt.op = "add" =>
             /\ Stmt.kind \in STRING /\ Stmt.on \subseteq STRING
             /\ Stmt.deps \cup Stmt.trig
                    \subseteq {body[Top.bundle][j].as : j \in 1 .. Top.pc - 1}
  BY <1>2, <1>4, <1>5, BodiesAssumption DEF body, Stmt
<1>8. ASSUME Stmt.op = "call" PROVE ~Last
  BY <1>6, <1>8 DEF Last, Stmt
<1>9. \A j \in 1 .. Top.pc - 1 : Top.bound[body[Top.bundle][j].as] \in 0 .. Len(plan) - 1
  <2> TAKE j \in 1 .. Top.pc - 1
  <2>1. j \in 1 .. Len(body[Top.bundle])
    BY <1>5
  <2>2. body[Top.bundle][j].as \in Vars
    BY <2>1, <1>2, <1>4, BodiesAssumption DEF body
  <2> QED
    BY <2>2, <1>2, <1>3
<1>10. ASSUME Stmt.op = "add"
       PROVE  Ids(Stmt.deps) \cup Ids(Stmt.trig) \subseteq 0 .. Len(plan) - 1
  BY <1>7, <1>9, <1>10 DEF Ids
<1> QED
  BY <1>1, <1>5, <1>7, <1>8, <1>10

LEMMA InitInv == Init => IInv
<1> SUFFICES ASSUME Init PROVE IInv
  OBVIOUS
<1> USE DEF Init
<1>1. Len(plan) = 0 /\ Len(stack) = 0 /\ Len(behind) = 0
  OBVIOUS
<1>2. Len(asked) \in Nat
  BY BundlesAssumption
<1>3. TypeOK
  BY <1>1, <1>2, EmptySeq DEF TypeOK, Id
<1>4. StackOK /\ DepsAreEarlier
  BY <1>1 DEF StackOK, DepsAreEarlier, Id
<1> QED
  BY <1>3, <1>4 DEF IInv

\* Frames stay well-typed when the plan grows.
LEMMA FramesGrow ==
    ASSUME NEW n \in Nat, NEW m \in Nat, n <= m, NEW s \in Seq(Frames(n))
    PROVE  s \in Seq(Frames(m)) /\ Frames(n) \subseteq Frames(m)
<1>1. (0 .. n - 1) \cup {NoId} \subseteq (0 .. m - 1) \cup {NoId}
  OBVIOUS
<1>2. [Vars -> (0 .. n - 1) \cup {NoId}] \subseteq [Vars -> (0 .. m - 1) \cup {NoId}]
  BY <1>1
<1>3. Frames(n) \subseteq Frames(m)
  BY <1>2 DEF Frames
<1> QED
  BY <1>3, SeqMonotonic

\* What StackOK says of one frame.
FrameOK(f) ==
    /\ f.pc <= Len(body[f.bundle])
    /\ \A n \in 1 .. f.pc - 1 : f.bound[body[f.bundle][n].as] # NoId

\* A frame whose statement is done, its variable bound to an id of the plan.
LEMMA BindFrame ==
    ASSUME cfg \in Settings, NEW n \in Nat, NEW m \in Nat, n <= m,
           NEW f \in Frames(n), FrameOK(f), f.pc < Len(body[f.bundle]),
           NEW id \in 0 .. m - 1
    PROVE  LET g == Bind(f, body[f.bundle][f.pc].as, id)
           IN  g \in Frames(m) /\ FrameOK(g) /\ g.bundle = f.bundle
<1> DEFINE v == body[f.bundle][f.pc].as
           g == Bind(f, v, id)
<1>1. f.bundle \in BundleNames /\ f.pc \in Nat \ {0}
      /\ f.bound \in [Vars -> (0 .. n - 1) \cup {NoId}]
  BY DEF Frames
<1>2. Len(body[f.bundle]) \in Nat
  BY <1>1, BodiesAssumption DEF body
<1>3. v \in Vars
  BY <1>1, <1>2, BodiesAssumption DEF body
<1>4. /\ g.bundle = f.bundle /\ g.pc = f.pc + 1
      /\ g.bound = [f.bound EXCEPT ![v] = id]
      /\ g = [bundle |-> f.bundle, pc |-> f.pc + 1, bound |-> [f.bound EXCEPT ![v] = id]]
  BY DEF Bind, Frames
<1>5. g.bound \in [Vars -> (0 .. m - 1) \cup {NoId}]
  <2>1. \A x \in 0 .. n - 1 : x \in 0 .. m - 1
    OBVIOUS
  <2>2. f.bound \in [Vars -> (0 .. m - 1) \cup {NoId}]
    BY <1>1, <2>1
  <2> HIDE DEF g
  <2> QED
    BY <1>4, <2>2
<1>6. g \in Frames(m)
  BY <1>1, <1>4, <1>5 DEF Frames
<1>7. \A j \in 1 .. g.pc - 1 : g.bound[body[f.bundle][j].as] # NoId
  <2> TAKE j \in 1 .. g.pc - 1
  <2>1. j \in 1 .. Len(body[f.bundle]) /\ j \in 1 .. f.pc
    BY <1>1, <1>2, <1>4
  <2>2. body[f.bundle][j].as \in Vars
    BY <1>1, <2>1, BodiesAssumption DEF body
  <2>3. CASE body[f.bundle][j].as = v
    BY <1>1, <1>3, <1>4, <2>3 DEF NoId
  <2>4. CASE body[f.bundle][j].as # v
    <3>1. j # f.pc
      BY <2>4
    <3>2. f.bound[body[f.bundle][j].as] # NoId
      BY <1>1, <2>1, <3>1 DEF FrameOK
    <3> QED
      BY <1>1, <1>4, <2>2, <2>4, <3>2
  <2> QED
    BY <2>3, <2>4
<1>8. g.pc <= Len(body[g.bundle])
  BY <1>1, <1>2, <1>4
<1>9. FrameOK(g)
  <2> HIDE DEF g
  <2> QED
    BY <1>4, <1>7, <1>8 DEF FrameOK
<1>10. g.bundle = f.bundle
  BY <1>4
<1> QED
  BY <1>6, <1>9, <1>10

\* Adding a resource keeps every dependency earlier than what depends on it.
LEMMA AddNodeInv ==
    ASSUME IInv, stack # <<>>, Stmt.op = "add", AddNode
    PROVE  /\ plan' \in Seq(Resources) /\ Len(plan') = Len(plan) + 1
           /\ behind' \in Seq(SUBSET Nat) /\ Len(behind') = Len(plan')
           /\ DepsAreEarlier'
<1> USE DEF IInv
<1>1. /\ plan \in Seq(Resources) /\ Len(plan) \in Nat
      /\ Top \in Frames(Len(plan)) /\ Stmt.as \in Vars
      /\ Stmt.kind \in STRING /\ Stmt.on \subseteq STRING
      /\ Ids(Stmt.deps) \subseteq 0 .. Len(plan) - 1 /\ Ids(Stmt.trig) \subseteq 0 .. Len(plan) - 1
  BY Ranges, StatementKnown
<1> DEFINE r == [by |-> Top.bundle, as |-> Stmt.as, kind |-> Stmt.kind, on |-> Stmt.on,
                 deps |-> Ids(Stmt.deps), trig |-> Ids(Stmt.trig)]
           w == Ids(Stmt.deps)
                    \cup UNION {behind[d + 1] : d \in Ids(Stmt.deps) \cap 0 .. Len(plan) - 1}
<1>2. Ids(Stmt.deps) \subseteq Nat /\ Ids(Stmt.trig) \subseteq Nat
  BY <1>1
<1>3. r \in Resources
  BY <1>1, <1>2 DEF Resources, Frames
<1>4. plan' = Append(plan, r) /\ behind' = Append(behind, w)
  BY DEF AddNode
<1>5. behind \in Seq(SUBSET Nat) /\ Len(behind) = Len(plan)
  BY DEF TypeOK
<1>6. w \in SUBSET Nat
  <2>1. \A d \in 0 .. Len(plan) - 1 : behind[d + 1] \in SUBSET Nat
    BY <1>1, <1>5, ElementOfSeq
  <2> QED
    BY <1>2, <2>1
<1>7. /\ plan' \in Seq(Resources) /\ Len(plan') = Len(plan) + 1
      /\ \A k \in 1 .. Len(plan) : plan'[k] = plan[k]
      /\ plan'[Len(plan) + 1] = r
  <2> HIDE DEF r
  <2> QED
    BY <1>1, <1>3, <1>4
<1>8. behind' \in Seq(SUBSET Nat) /\ Len(behind') = Len(behind) + 1
  <2> HIDE DEF w
  <2> QED
    BY <1>4, <1>5, <1>6
<1>9. ASSUME NEW i \in 0 .. Len(plan)
      PROVE  plan'[i + 1].deps \cup plan'[i + 1].trig \subseteq 0 .. i - 1
  <2>1. CASE i = Len(plan)
    BY <1>1, <1>7, <2>1
  <2>2. CASE i # Len(plan)
    <3>1. i \in Id /\ i + 1 \in 1 .. Len(plan)
      BY <1>1, <2>2 DEF Id
    <3> QED
      BY <1>7, <3>1 DEF DepsAreEarlier, Node
  <2> QED
    BY <2>1, <2>2
<1>10. DepsAreEarlier'
  BY <1>1, <1>7, <1>9 DEF DepsAreEarlier, Id, Node
<1> QED
  BY <1>5, <1>7, <1>8, <1>10

-----------------------------------------------------------------------------
(* One lemma for each action.                                              *)

\* StackOK, from its two halves.
LEMMA StackParts ==
    ASSUME TypeOK
    PROVE  StackOK <=>
               \A k \in 1 .. Len(stack) :
                   /\ FrameOK(stack[k])
                   /\ k < Len(stack) =>
                          /\ body[stack[k].bundle][stack[k].pc].op = "call"
                          /\ body[stack[k].bundle][stack[k].pc].as = stack[k + 1].bundle
BY Ranges DEF StackOK, FrameOK

LEMMA DispatchInv == IInv /\ Dispatch => IInv'
<1> SUFFICES ASSUME IInv, Dispatch PROVE IInv'
  OBVIOUS
<1> USE DEF IInv
<1>1. /\ cfg' = cfg /\ asked' = asked /\ cache' = cache /\ plan' = plan /\ behind' = behind
      /\ at' = at + 1 /\ at \in 1 .. Len(asked) /\ Len(asked) \in Nat
      /\ asked[at] \in BundleNames
  BY BundlesAssumption, ElementOfSeq, LenProperties DEF Dispatch, TypeOK
<1>2. Enter(asked[at]) \in Frames(Len(plan))
      /\ Enter(asked[at]).pc = 1 /\ Enter(asked[at]).bundle = asked[at]
  BY <1>1 DEF Enter, Frames
<1>3. Len(body[asked[at]]) \in Nat \ {0}
  BY <1>1, BodiesAssumption DEF body, TypeOK
<1>4. stack' = <<>> \/ stack' = <<Enter(asked[at])>>
  BY DEF Dispatch
<1>5. stack' \in Seq(Frames(Len(plan)))
  <2> DEFINE f == Enter(asked[at])
  <2>1. f \in Frames(Len(plan))
    BY <1>2
  <2> HIDE DEF f
  <2>2. <<f>> \in Seq(Frames(Len(plan)))
    BY <2>1
  <2> QED
    BY <1>4, <2>2, EmptySeq DEF f
<1>6. TypeOK'
  BY <1>1, <1>5 DEF TypeOK, Frames, Id
<1>7. StackOK'
  <2>1. CASE stack' = <<>>
    BY <2>1, EmptySeq DEF StackOK
  <2>2. CASE stack' = <<Enter(asked[at])>>
    <3>1. Len(stack') = 1 /\ DOMAIN stack' = {1} /\ stack'[1] = Enter(asked[at])
      BY <2>2
    <3>2. body' = body
      BY <1>1 DEF body
    <3> QED
      BY <1>2, <1>3, <3>1, <3>2 DEF StackOK
  <2> QED
    BY <1>4, <2>1, <2>2
<1>8. DepsAreEarlier'
  BY <1>1 DEF DepsAreEarlier, Id, Node
<1> QED
  BY <1>6, <1>7, <1>8

\* The innermost frame goes on to its next statement, on an equal or longer
\* plan.
LEMMA AdvanceTop ==
    ASSUME IInv, stack # <<>>, ~Last, NEW m \in Nat, Len(plan) <= m,
           NEW id \in 0 .. m - 1, cfg' = cfg,
           stack' = [stack EXCEPT ![Len(stack)] = Bind(Top, Stmt.as, id)]
    PROVE  stack' \in Seq(Frames(m)) /\ StackOK'
<1> USE DEF IInv
<1>1. /\ stack \in Seq(Frames(Len(plan))) /\ Len(stack) \in Nat \ {0} /\ Len(plan) \in Nat
      /\ \A k \in 1 .. Len(stack) : stack[k] \in Frames(Len(plan))
      /\ Top = stack[Len(stack)] /\ Top \in Frames(Len(plan))
      /\ Top.pc \in 1 .. Len(body[Top.bundle]) /\ Len(body[Top.bundle]) \in Nat \ {0}
  BY Ranges, StatementKnown
<1>2. \A k \in 1 .. Len(stack) :
          /\ FrameOK(stack[k])
          /\ k < Len(stack) =>
                 /\ body[stack[k].bundle][stack[k].pc].op = "call"
                 /\ body[stack[k].bundle][stack[k].pc].as = stack[k + 1].bundle
  BY StackParts
<1> DEFINE g == Bind(Top, Stmt.as, id)
<1>3. Top.pc < Len(body[Top.bundle])
  BY <1>1 DEF Last
<1>4. FrameOK(Top)
  BY <1>1, <1>2
<1>5. g \in Frames(m) /\ FrameOK(g) /\ g.bundle = Top.bundle
  <2>1. cfg \in Settings
    BY DEF TypeOK
  <2>2. g = Bind(Top, body[Top.bundle][Top.pc].as, id)
    BY DEF Stmt
  <2> HIDE DEF IInv, g
  <2>3. LET h == Bind(Top, body[Top.bundle][Top.pc].as, id)
        IN  h \in Frames(m) /\ FrameOK(h) /\ h.bundle = Top.bundle
    BY <1>1, <1>3, <1>4, <2>1, BindFrame
  <2> QED
    BY <2>2, <2>3
<1> HIDE DEF g
<1>6. stack \in Seq(Frames(m))
  BY <1>1, FramesGrow
<1>7. stack' = [stack EXCEPT ![Len(stack)] = g]
  BY DEF g
<1>8. /\ stack' \in Seq(Frames(m)) /\ Len(stack') = Len(stack)
      /\ \A k \in 1 .. Len(stack) : stack'[k] = IF k = Len(stack) THEN g ELSE stack[k]
  BY <1>1, <1>5, <1>6, <1>7, ExceptSeq
<1>9. body' = body
  BY DEF body
<1>10. DOMAIN stack' = 1 .. Len(stack)
  BY <1>8, LenProperties
<1>11. ASSUME NEW k \in 1 .. Len(stack)
       PROVE  /\ FrameOK(stack'[k])
              /\ k < Len(stack) =>
                     /\ body[stack'[k].bundle][stack'[k].pc].op = "call"
                     /\ body[stack'[k].bundle][stack'[k].pc].as = stack'[k + 1].bundle
  <2> HIDE DEF g
  <2>1. CASE k = Len(stack)
    <3>1. stack'[k] = g
      BY <1>8, <2>1
    <3>2. ~(k < Len(stack))
      BY <1>1, <2>1
    <3> QED
      BY <1>5, <3>1, <3>2
  <2>2. CASE k < Len(stack)
    <3>1. k \in 1 .. Len(stack) /\ k + 1 \in 1 .. Len(stack) /\ k # Len(stack)
      BY <1>1, <2>2
    <3>2. stack'[k] = stack[k]
      BY <1>8, <3>1
    <3>3. stack'[k + 1].bundle = stack[k + 1].bundle
      BY <1>1, <1>5, <1>8, <3>1
    <3> QED
      BY <1>2, <3>2, <3>3
  <2>3. Len(stack) \in Nat /\ k \in 1 .. Len(stack)
    BY <1>1
  <2>4. k = Len(stack) \/ k < Len(stack)
    BY <2>3
  <2> QED
    BY <2>1, <2>2, <2>4
<1>12. StackOK'
  <2>1. ASSUME NEW k \in DOMAIN stack'
        PROVE  /\ stack'[k].pc <= Len(body'[stack'[k].bundle])
               /\ \A n \in 1 .. stack'[k].pc - 1 :
                      stack'[k].bound[body'[stack'[k].bundle][n].as] # NoId
               /\ k < Len(stack') =>
                      /\ body'[stack'[k].bundle][stack'[k].pc].op = "call"
                      /\ body'[stack'[k].bundle][stack'[k].pc].as = stack'[k + 1].bundle
    <3>1. k \in 1 .. Len(stack) /\ Len(stack') = Len(stack)
      BY <1>8, <1>10
    <3> QED
      BY <1>9, <1>11, <3>1 DEF FrameOK
  <2> QED
    BY <2>1 DEF StackOK
<1> QED
  BY <1>8, <1>12

LEMMA CallCachedInv == IInv /\ CallCached => IInv'
<1> SUFFICES ASSUME IInv, CallCached PROVE IInv'
  OBVIOUS
<1> USE DEF IInv
<1>1. /\ cfg' = cfg /\ asked' = asked /\ cache' = cache /\ plan' = plan /\ behind' = behind
      /\ at' = at /\ stack # <<>> /\ Stmt.op = "call" /\ Cached(Stmt.as)
      /\ stack' = [stack EXCEPT ![Len(stack)] = Bind(Top, Stmt.as, cache[Stmt.as])]
  BY DEF CallCached
<1>2. Stmt.as \in BundleNames /\ ~Last /\ Len(plan) \in Nat
  BY <1>1, StatementKnown, Ranges
<1>3. cache[Stmt.as] \in 0 .. Len(plan) - 1
  BY <1>1, <1>2, Ranges DEF Cached
<1>4. stack' \in Seq(Frames(Len(plan))) /\ StackOK'
  <2>1. Len(plan) <= Len(plan)
    BY <1>2
  <2> HIDE DEF IInv
  <2> QED
    BY <1>1, <1>2, <1>3, <2>1, AdvanceTop
<1>5. TypeOK'
  BY <1>1, <1>4 DEF TypeOK, Frames, Id
<1>6. DepsAreEarlier'
  BY <1>1 DEF DepsAreEarlier, Id, Node
<1> QED
  BY <1>4, <1>5, <1>6

LEMMA AddResourceInv == IInv /\ AddResource => IInv'
<1> SUFFICES ASSUME IInv, AddResource PROVE IInv'
  OBVIOUS
<1> USE DEF IInv
<1>1. /\ cfg' = cfg /\ asked' = asked /\ cache' = cache /\ at' = at
      /\ stack # <<>> /\ Stmt.op = "add" /\ ~Last /\ AddNode
      /\ stack' = [stack EXCEPT ![Len(stack)] = Bind(Top, Stmt.as, NewId)]
  BY DEF AddResource
<1>2. /\ plan' \in Seq(Resources) /\ Len(plan') = Len(plan) + 1
      /\ behind' \in Seq(SUBSET Nat) /\ Len(behind') = Len(plan')
      /\ DepsAreEarlier'
  BY <1>1, AddNodeInv
<1>3. Len(plan) \in Nat /\ Len(plan) + 1 \in Nat /\ NewId \in 0 .. (Len(plan) + 1) - 1
  BY Ranges DEF NewId
<1>4. stack' \in Seq(Frames(Len(plan) + 1)) /\ StackOK'
  <2>1. Len(plan) <= Len(plan) + 1
    BY <1>3
  <2> HIDE DEF IInv
  <2> QED
    BY <1>1, <1>3, <2>1, AdvanceTop
<1>5. cache' \in [BundleNames -> (0 .. Len(plan') - 1) \cup {NoId}]
  <2>1. \A x \in 0 .. Len(plan) - 1 : x \in 0 .. Len(plan') - 1
    BY <1>2, <1>3
  <2> QED
    BY <1>1, <2>1, Ranges
<1>6. TypeOK'
  BY <1>1, <1>2, <1>4, <1>5 DEF TypeOK, Frames, Id, Resources
<1> QED
  BY <1>2, <1>4, <1>6

LEMMA CallBuildInv == IInv /\ CallBuild => IInv'
<1> SUFFICES ASSUME IInv, CallBuild PROVE IInv'
  OBVIOUS
<1> USE DEF IInv
<1>1. /\ cfg' = cfg /\ asked' = asked /\ cache' = cache /\ plan' = plan /\ behind' = behind
      /\ at' = at /\ stack # <<>> /\ Stmt.op = "call"
      /\ stack' = Append(stack, Enter(Stmt.as))
  BY DEF CallBuild
<1>2. /\ Stmt.as \in BundleNames /\ Len(plan) \in Nat
      /\ stack \in Seq(Frames(Len(plan))) /\ Len(stack) \in Nat \ {0}
      /\ Top = stack[Len(stack)]
  BY <1>1, StatementKnown, Ranges
<1> DEFINE f == Enter(Stmt.as)
<1>3. f \in Frames(Len(plan)) /\ f.pc = 1 /\ f.bundle = Stmt.as
  BY <1>2 DEF Enter, Frames
<1>4. FrameOK(f)
  BY <1>2, <1>3, BodiesAssumption DEF body, TypeOK, FrameOK
<1>5. stack' = Append(stack, f)
  BY <1>1
<1> HIDE DEF f
<1>6. /\ stack' \in Seq(Frames(Len(plan))) /\ Len(stack') = Len(stack) + 1
      /\ stack'[Len(stack) + 1] = f
      /\ \A k \in 1 .. Len(stack) : stack'[k] = stack[k]
      /\ DOMAIN stack' = 1 .. Len(stack) + 1
  BY <1>2, <1>3, <1>5
<1>7. \A k \in 1 .. Len(stack) :
          /\ FrameOK(stack[k])
          /\ k < Len(stack) =>
                 /\ body[stack[k].bundle][stack[k].pc].op = "call"
                 /\ body[stack[k].bundle][stack[k].pc].as = stack[k + 1].bundle
  BY StackParts
<1>8. body' = body
  BY <1>1 DEF body
<1>9. ASSUME NEW k \in 1 .. Len(stack) + 1
      PROVE  /\ FrameOK(stack'[k])
             /\ k < Len(stack) + 1 =>
                    /\ body[stack'[k].bundle][stack'[k].pc].op = "call"
                    /\ body[stack'[k].bundle][stack'[k].pc].as = stack'[k + 1].bundle
  <2>1. CASE k = Len(stack) + 1
    <3>1. stack'[k] = f /\ ~(k < Len(stack) + 1)
      BY <1>2, <1>6, <2>1
    <3> QED
      BY <1>4, <3>1
  <2>2. CASE k = Len(stack)
    <3>1. stack'[k] = Top /\ stack'[k + 1] = f /\ k \in 1 .. Len(stack) /\ stack'[k] = stack[k]
      BY <1>2, <1>6, <2>2
    <3>2. body[Top.bundle][Top.pc].op = "call" /\ body[Top.bundle][Top.pc].as = f.bundle
      BY <1>1, <1>3 DEF Stmt
    <3> QED
      BY <1>7, <3>1, <3>2
  <2>3. CASE k < Len(stack)
    <3>1. k \in 1 .. Len(stack) /\ k + 1 \in 1 .. Len(stack)
      BY <1>2, <2>3
    <3>2. stack'[k] = stack[k] /\ stack'[k + 1] = stack[k + 1]
      BY <1>6, <3>1
    <3> QED
      BY <1>7, <2>3, <3>1, <3>2
  <2> QED
    BY <1>2, <2>1, <2>2, <2>3
<1>10. StackOK'
  <2>1. ASSUME NEW k \in DOMAIN stack'
        PROVE  /\ stack'[k].pc <= Len(body'[stack'[k].bundle])
               /\ \A n \in 1 .. stack'[k].pc - 1 :
                      stack'[k].bound[body'[stack'[k].bundle][n].as] # NoId
               /\ k < Len(stack') =>
                      /\ body'[stack'[k].bundle][stack'[k].pc].op = "call"
                      /\ body'[stack'[k].bundle][stack'[k].pc].as = stack'[k + 1].bundle
    BY <1>6, <1>8, <1>9 DEF FrameOK
  <2> QED
    BY <2>1 DEF StackOK
<1>11. TypeOK'
  BY <1>1, <1>6 DEF TypeOK, Frames, Id
<1>12. DepsAreEarlier'
  BY <1>1 DEF DepsAreEarlier, Id, Node
<1> QED
  BY <1>10, <1>11, <1>12

\* The frames below the innermost one.
LEMMA CallersKnown ==
    ASSUME IInv, stack # <<>>
    PROVE  /\ Callers \in Seq(Frames(Len(plan))) /\ Len(Callers) = Len(stack) - 1
           /\ Len(stack) \in Nat \ {0}
           /\ \A k \in 1 .. Len(stack) - 1 : Callers[k] = stack[k]
<1>1. stack \in Seq(Frames(Len(plan))) /\ Len(stack) \in Nat \ {0}
      /\ \A k \in 1 .. Len(stack) - 1 : stack[k] \in Frames(Len(plan))
  BY Ranges DEF IInv
<1> DEFINE n == Len(stack) - 1
<1>2. n \in Int /\ n >= 0 /\ \A i \in 1 .. n : stack[i] \in Frames(Len(plan))
  BY <1>1
<1>3. /\ Callers \in Seq(Frames(Len(plan)))
      /\ Len(Callers) = IF 1 <= n THEN n - 1 + 1 ELSE 0
      /\ \A i \in 1 .. n - 1 + 1 : Callers[i] = stack[1 + i - 1]
  <2> HIDE DEF n
  <2>1. Callers = SubSeq(stack, 1, n)
    BY DEF Callers, n
  <2> QED
    BY <1>2, <2>1, SubSeqProperties
<1>4. Len(Callers) = n
  <2> HIDE DEF n
  <2>1. CASE 1 <= n
    BY <1>2, <1>3, <2>1
  <2>2. CASE ~(1 <= n)
    BY <1>2, <1>3, <2>2
  <2> QED
    BY <2>1, <2>2
<1>5. ASSUME NEW k \in 1 .. n PROVE Callers[k] = stack[k]
  BY <1>2, <1>3, <1>5
<1> QED
  BY <1>1, <1>3, <1>4, <1>5

LEMMA AddReadyInv == IInv /\ AddReady => IInv'
<1> SUFFICES ASSUME IInv, AddReady PROVE IInv'
  OBVIOUS
<1>1. /\ cfg' = cfg /\ asked' = asked /\ at' = at /\ cache' = Memo
      /\ stack # <<>> /\ Stmt.op = "add" /\ AddNode
  BY DEF AddReady
<1>2. /\ plan' \in Seq(Resources) /\ Len(plan') = Len(plan) + 1
      /\ behind' \in Seq(SUBSET Nat) /\ Len(behind') = Len(plan')
      /\ DepsAreEarlier'
  BY <1>1, AddNodeInv
<1>3. /\ Len(plan) \in Nat /\ NewId \in 0 .. (Len(plan) + 1) - 1
      /\ Len(stack) \in Nat \ {0} /\ Top = stack[Len(stack)] /\ Top.bundle \in BundleNames
  <2>1. Top \in Frames(Len(plan)) /\ Top = stack[Len(stack)]
    BY <1>1, StatementKnown DEF IInv
  <2> QED
    BY <1>1, <2>1, Ranges DEF NewId, IInv, Frames
<1> DEFINE m == Len(plan) + 1
<1>4. cache' \in [BundleNames -> (0 .. Len(plan') - 1) \cup {NoId}]
  <2>1. \A x \in 0 .. Len(plan) - 1 : x \in 0 .. Len(plan') - 1
    BY <1>2, <1>3
  <2>2. cache \in [BundleNames -> (0 .. Len(plan') - 1) \cup {NoId}]
    BY <2>1, Ranges DEF IInv
  <2>3. NewId \in 0 .. Len(plan') - 1
    BY <1>2, <1>3
  <2> QED
    BY <1>1, <2>2, <2>3 DEF Memo
<1>5. /\ Callers \in Seq(Frames(m)) /\ Len(Callers) = Len(stack) - 1
      /\ \A k \in 1 .. Len(stack) - 1 : Callers[k] = stack[k]
  BY <1>1, <1>3, CallersKnown, FramesGrow
<1>6. \A k \in 1 .. Len(stack) :
          /\ FrameOK(stack[k])
          /\ k < Len(stack) =>
                 /\ body[stack[k].bundle][stack[k].pc].op = "call"
                 /\ body[stack[k].bundle][stack[k].pc].as = stack[k + 1].bundle
  BY StackParts DEF IInv
<1>7. body' = body
  BY <1>1 DEF body
<1>8. ASSUME Len(stack) # 1
      PROVE  /\ stack' \in Seq(Frames(m)) /\ Len(stack') = Len(stack) - 1
             /\ \A k \in 1 .. Len(stack) - 1 :
                    /\ FrameOK(stack'[k])
                    /\ k < Len(stack) - 1 =>
                           /\ body[stack'[k].bundle][stack'[k].pc].op = "call"
                           /\ body[stack'[k].bundle][stack'[k].pc].as = stack'[k + 1].bundle
  <2> DEFINE c == Len(stack) - 1
             g == Bind(stack[c], Top.bundle, NewId)
  <2>1. c \in 1 .. Len(stack) - 1 /\ c \in 1 .. Len(stack) /\ c < Len(stack)
        /\ c + 1 = Len(stack) /\ Callers[c] = stack[c]
    BY <1>3, <1>5, <1>8
  <2>2. stack' = [Callers EXCEPT ![c] = g]
    BY <1>8, <2>1 DEF AddReady
  <2>3. /\ FrameOK(stack[c])
        /\ body[stack[c].bundle][stack[c].pc].op = "call"
        /\ body[stack[c].bundle][stack[c].pc].as = Top.bundle
    BY <1>3, <1>6, <2>1
  <2>4. stack[c] \in Frames(Len(plan)) /\ cfg \in Settings
    BY <2>1, Ranges DEF IInv, TypeOK
  <2>5. stack[c].pc < Len(body[stack[c].bundle])
    <3>1. /\ stack[c].bundle \in BundleNames /\ stack[c].pc \in Nat \ {0}
      BY <2>4 DEF Frames
    <3>2. /\ Len(body[stack[c].bundle]) \in Nat \ {0}
          /\ body[stack[c].bundle][Len(body[stack[c].bundle])].op = "add"
      BY <2>4, <3>1, BodiesAssumption DEF body
    <3>3. stack[c].pc # Len(body[stack[c].bundle])
      BY <2>3, <3>2
    <3> QED
      BY <2>3, <3>1, <3>2, <3>3 DEF FrameOK
  <2>6. g \in Frames(m) /\ FrameOK(g) /\ g.bundle = stack[c].bundle
    <3>1. Len(plan) \in Nat /\ m \in Nat /\ Len(plan) <= m /\ NewId \in 0 .. m - 1
      BY <1>3
    <3>2. g = Bind(stack[c], body[stack[c].bundle][stack[c].pc].as, NewId)
      BY <2>3
    <3> HIDE DEF g, c, m
    <3> QED
      BY <2>3, <2>4, <2>5, <3>1, <3>2, BindFrame
  <2> HIDE DEF g, c, m
  <2>7. /\ stack' \in Seq(Frames(m)) /\ Len(stack') = Len(Callers)
        /\ \A k \in 1 .. Len(Callers) : stack'[k] = IF k = c THEN g ELSE Callers[k]
    <3>1. c \in 1 .. Len(Callers)
      BY <1>5, <2>1
    <3> QED
      BY <1>5, <2>2, <2>6, <3>1, ExceptSeq
  <2>8. ASSUME NEW k \in 1 .. Len(stack) - 1
        PROVE  /\ FrameOK(stack'[k])
               /\ k < Len(stack) - 1 =>
                      /\ body[stack'[k].bundle][stack'[k].pc].op = "call"
                      /\ body[stack'[k].bundle][stack'[k].pc].as = stack'[k + 1].bundle
    <3>1. CASE k = c
      <4>1. stack'[k] = g /\ ~(k < Len(stack) - 1)
        BY <1>3, <1>5, <2>7, <3>1 DEF c
      <4> QED
        BY <2>6, <4>1
    <3>2. CASE k # c
      <4>1. k \in 1 .. Len(stack) /\ k + 1 \in 1 .. Len(stack) - 1 /\ k < Len(stack)
        BY <1>3, <3>2 DEF c
      <4>2. stack'[k] = stack[k]
        BY <1>5, <2>7, <3>2
      <4>3. stack'[k + 1].bundle = stack[k + 1].bundle
        BY <1>5, <2>6, <2>7, <4>1
      <4> QED
        BY <1>6, <4>1, <4>2, <4>3
    <3> QED
      BY <3>1, <3>2
  <2> QED
    BY <1>5, <2>7, <2>8
<1>9. stack' \in Seq(Frames(m)) /\ StackOK'
  <2>1. CASE Len(stack) = 1
    <3>1. stack' = <<>>
      BY <2>1 DEF AddReady
    <3> QED
      BY <3>1, EmptySeq DEF StackOK
  <2>2. CASE Len(stack) # 1
    <3>1. DOMAIN stack' = 1 .. Len(stack) - 1
      BY <1>8, <2>2, LenProperties
    <3>2. ASSUME NEW k \in DOMAIN stack'
          PROVE  /\ stack'[k].pc <= Len(body'[stack'[k].bundle])
                 /\ \A n \in 1 .. stack'[k].pc - 1 :
                        stack'[k].bound[body'[stack'[k].bundle][n].as] # NoId
                 /\ k < Len(stack') =>
                        /\ body'[stack'[k].bundle][stack'[k].pc].op = "call"
                        /\ body'[stack'[k].bundle][stack'[k].pc].as = stack'[k + 1].bundle
      BY <1>7, <1>8, <2>2, <3>1 DEF FrameOK
    <3>3. StackOK'
      BY <3>2 DEF StackOK
    <3> QED
      BY <1>8, <2>2, <3>3
  <2> QED
    BY <2>1, <2>2
<1>10. TypeOK'
  BY <1>1, <1>2, <1>4, <1>9 DEF IInv, TypeOK, Frames, Id, Resources
<1> QED
  BY <1>2, <1>9, <1>10 DEF IInv

LEMMA StutterInv == IInv /\ UNCHANGED vars => IInv'
<1> SUFFICES ASSUME IInv, UNCHANGED vars PROVE IInv'
  OBVIOUS
<1>1. body' = body
  BY DEF vars, body
<1> QED
  BY <1>1 DEF vars, IInv, TypeOK, StackOK, DepsAreEarlier, Id, Node

-----------------------------------------------------------------------------
(* The theorems.                                                           *)

\* The inductive invariant holds throughout the assembly of any plan.
THEOREM PlanInvariant == Spec => []IInv
<1>1. IInv /\ [Next]_vars => IInv'
  BY DispatchInv, CallCachedInv, CallBuildInv, AddResourceInv, AddReadyInv, StutterInv DEF Next
<1> QED
  BY InitInv, <1>1, PTL DEF Spec

\* Whatever is held in a cache or bound to a variable is the id of a resource
\* of the plan.
THEOREM IdsAreReal == Spec => []TypeOK
BY PlanInvariant, PTL DEF IInv

\* A build() in progress has bound every variable its next statement uses.
THEOREM VariablesAreBound == Spec => []StackOK
BY PlanInvariant, PTL DEF IInv

\* Every plan main() can assemble, from any bundles, depends on earlier
\* resources only; EarlierDepsAreSorted says that such a plan is accepted.
THEOREM PlansPointBackwards == Spec => []DepsAreEarlier
BY PlanInvariant, PTL DEF IInv

-----------------------------------------------------------------------------
(* Layered bundles never reenter a build().                                *)

\* The frames that stay on the stack belong to the same bundles.
StackKept ==
    /\ Len(stack') \in Nat /\ DOMAIN stack' = 1 .. Len(stack') /\ Len(stack') <= Len(stack)
    /\ \A k \in 1 .. Len(stack') : stack'[k].bundle = stack[k].bundle

LEMMA AdvanceKeepsStack ==
    ASSUME IInv, stack # <<>>, NEW v, NEW id,
           stack' = [stack EXCEPT ![Len(stack)] = Bind(Top, v, id)]
    PROVE  StackKept
<1>1. /\ stack \in Seq(Frames(Len(plan))) /\ Len(stack) \in Nat \ {0}
      /\ DOMAIN stack = 1 .. Len(stack) /\ Top = stack[Len(stack)]
  BY Ranges DEF IInv, Top
<1> DEFINE g == Bind(Top, v, id)
<1>2. g.bundle = Top.bundle
  BY DEF Bind
<1>3. stack' = [stack EXCEPT ![Len(stack)] = g]
  OBVIOUS
<1> HIDE DEF g
<1>4. stack \in [1 .. Len(stack) -> Frames(Len(plan))]
  BY <1>1, LenProperties
<1>5. /\ stack' \in Seq(Frames(Len(plan)) \cup {g}) /\ Len(stack') = Len(stack)
      /\ \A k \in 1 .. Len(stack) : stack'[k] = IF k = Len(stack) THEN g ELSE stack[k]
  <2>1. stack \in Seq(Frames(Len(plan)) \cup {g}) /\ Len(stack) \in 1 .. Len(stack)
    BY <1>1, SeqMonotonic
  <2> QED
    BY <1>3, <2>1, ExceptSeq
<1>6. DOMAIN stack' = 1 .. Len(stack')
  BY <1>5, LenProperties
<1>7. ASSUME NEW k \in 1 .. Len(stack) PROVE stack'[k].bundle = stack[k].bundle
  BY <1>1, <1>2, <1>5
<1>8. Len(stack') \in Nat /\ Len(stack') = Len(stack) /\ Len(stack') <= Len(stack)
  <2>1. Len(stack') = Len(stack)
    BY <1>5
  <2>2. \A n \in Nat : n <= n
    OBVIOUS
  <2>3. Len(stack) \in Nat
    BY <1>1
  <2> QED
    BY <2>1, <2>2, <2>3, Zenon
<1> QED
  BY <1>6, <1>7, <1>8 DEF StackKept

LEMMA ReturnKeepsStack == ASSUME IInv, IInv', AddReady PROVE StackKept
<1>1. stack # <<>>
  BY DEF AddReady
<1>2. /\ Callers \in Seq(Frames(Len(plan))) /\ Len(Callers) = Len(stack) - 1
      /\ Len(stack) \in Nat \ {0}
      /\ \A k \in 1 .. Len(stack) - 1 : Callers[k] = stack[k]
  BY <1>1, CallersKnown
<1>3. CASE Len(stack) = 1
  <2>1. stack' = <<>>
    BY <1>3 DEF AddReady
  <2> QED
    BY <1>2, <2>1 DEF StackKept
<1>4. CASE Len(stack) # 1
  <2> DEFINE c == Len(stack) - 1
             g == Bind(Callers[c], Top.bundle, NewId)
  <2>1. stack' = [Callers EXCEPT ![c] = g] /\ c \in 1 .. Len(Callers)
    BY <1>2, <1>4 DEF AddReady
  <2>2. g.bundle = Callers[c].bundle
    BY DEF Bind
  <2> HIDE DEF g, c
  <2>3. Callers \in Seq(Frames(Len(plan)) \cup {g})
    BY <1>2, SeqMonotonic
  <2>4. /\ stack' \in Seq(Frames(Len(plan)) \cup {g}) /\ Len(stack') = Len(Callers)
        /\ \A k \in 1 .. Len(Callers) : stack'[k] = IF k = c THEN g ELSE Callers[k]
    BY <2>1, <2>3, ExceptSeq
  <2>5. DOMAIN stack' = 1 .. Len(stack') /\ Len(stack') \in Nat
    BY <2>4, LenProperties
  <2>6. ASSUME NEW k \in 1 .. Len(Callers) PROVE stack'[k].bundle = stack[k].bundle
    <3>1. stack'[k].bundle = Callers[k].bundle
      BY <2>2, <2>4
    <3> QED
      BY <1>2, <3>1
  <2>7. Len(stack') <= Len(stack)
    BY <1>2, <2>4
  <2> QED
    BY <2>4, <2>5, <2>6, <2>7 DEF StackKept
<1> QED
  BY <1>3, <1>4

\* Each build() in progress is of a lower layer than those that led to it.
Descends(layer) ==
    \A j, k \in DOMAIN stack : j < k => layer[stack[k].bundle] < layer[stack[j].bundle]

LEMMA KeptDescends ==
    ASSUME NEW layer, IInv, Descends(layer), StackKept PROVE Descends(layer)'
<1>1. Len(stack) \in Nat /\ DOMAIN stack = 1 .. Len(stack)
  BY Ranges DEF IInv
<1>2. ASSUME NEW j \in DOMAIN stack', NEW k \in DOMAIN stack', j < k
      PROVE  layer[stack'[k].bundle] < layer[stack'[j].bundle]
  <2>1. /\ j \in DOMAIN stack /\ k \in DOMAIN stack
        /\ j \in 1 .. Len(stack') /\ k \in 1 .. Len(stack')
    BY <1>1 DEF StackKept
  <2>2. stack'[k].bundle = stack[k].bundle /\ stack'[j].bundle = stack[j].bundle
    BY <2>1 DEF StackKept
  <2> QED
    BY <1>2, <2>1, <2>2 DEF Descends
<1> QED
  BY <1>2 DEF Descends

LEMMA CallDescends ==
    ASSUME NEW layer \in [BundleNames -> Nat], CallsDescend(layer),
           IInv, Descends(layer), CallBuild
    PROVE  Descends(layer)'
<1>1. /\ stack # <<>> /\ Stmt.op = "call" /\ stack' = Append(stack, Enter(Stmt.as))
  BY DEF CallBuild
<1>2. /\ stack \in Seq(Frames(Len(plan))) /\ Len(stack) \in Nat \ {0}
      /\ DOMAIN stack = 1 .. Len(stack)
      /\ \A k \in 1 .. Len(stack) : stack[k] \in Frames(Len(plan))
  BY <1>1, Ranges DEF IInv
<1>3. /\ Top = stack[Len(stack)] /\ Stmt.as \in BundleNames
      /\ Top.pc \in 1 .. Len(body[Top.bundle]) /\ Top \in Frames(Len(plan))
  BY <1>1, StatementKnown DEF IInv
<1> DEFINE f == Enter(Stmt.as)
<1>4. f.bundle = Stmt.as /\ f \in Frames(Len(plan))
  <2>1. Len(plan) \in Nat
    BY Ranges DEF IInv
  <2> QED
    BY <1>3, <2>1 DEF Enter, Frames
<1>5. layer[f.bundle] < layer[Top.bundle]
  <2>1. cfg \in Settings /\ Top.bundle \in BundleNames
    BY <1>3 DEF IInv, TypeOK, Frames
  <2> QED
    BY <1>1, <1>3, <1>4, <2>1 DEF CallsDescend, body, Stmt
<1> HIDE DEF f
<1>6. /\ DOMAIN stack' = 1 .. Len(stack) + 1 /\ stack'[Len(stack) + 1] = f
      /\ \A k \in 1 .. Len(stack) : stack'[k] = stack[k]
  <2>1. stack' = Append(stack, f)
    BY <1>1 DEF f
  <2> QED
    BY <1>2, <1>4, <2>1
<1>7. ASSUME NEW j \in DOMAIN stack', NEW k \in DOMAIN stack', j < k
      PROVE  layer[stack'[k].bundle] < layer[stack'[j].bundle]
  <2>1. j \in 1 .. Len(stack) /\ j \in DOMAIN stack /\ stack'[j] = stack[j]
    BY <1>2, <1>6, <1>7
  <2>2. CASE k \in 1 .. Len(stack)
    BY <1>2, <1>6, <1>7, <2>1, <2>2 DEF Descends
  <2>3. CASE k = Len(stack) + 1
    <3>1. CASE j = Len(stack)
      BY <1>3, <1>5, <1>6, <2>1, <2>3, <3>1
    <3>2. CASE j < Len(stack)
      <4>1. layer[Top.bundle] < layer[stack[j].bundle]
        BY <1>2, <1>3, <2>1, <3>2 DEF Descends
      <4>2. /\ layer[Top.bundle] \in Nat /\ layer[stack[j].bundle] \in Nat
            /\ layer[f.bundle] \in Nat
        BY <1>2, <1>3, <1>4, <2>1 DEF Frames
      <4> QED
        BY <1>5, <1>6, <2>1, <2>3, <4>1, <4>2
    <3> QED
      BY <1>2, <2>1, <3>1, <3>2
  <2> QED
    BY <1>2, <1>6, <2>2, <2>3
<1> QED
  BY <1>7 DEF Descends

\* Bundles that call lower layers only never reenter a build(), so main()'s
\* recursion ends; module MC_Bundles gives the layers of the real ones.
THEOREM LayeredBundlesNeverReenter ==
    ASSUME NEW CONSTANT layer \in [BundleNames -> Nat], CallsDescend(layer)
    PROVE  Spec => []NoReentry
<1>1. Init => Descends(layer)
  BY DEF Init, Descends
<1>2. IInv /\ IInv' /\ Descends(layer) /\ [Next]_vars => Descends(layer)'
  <2> SUFFICES ASSUME IInv, IInv', Descends(layer), [Next]_vars PROVE Descends(layer)'
    OBVIOUS
  <2>1. CASE Dispatch
    <3>1. stack' = <<>> \/ stack' = <<Enter(asked[at])>>
      BY <2>1 DEF Dispatch
    <3>2. DOMAIN stack' \subseteq {1}
      BY <3>1
    <3> QED
      BY <3>2 DEF Descends
  <2>2. CASE CallCached
    BY <2>2, AdvanceKeepsStack, KeptDescends DEF CallCached
  <2>3. CASE CallBuild
    BY <2>3, CallDescends
  <2>4. CASE AddResource
    BY <2>4, AdvanceKeepsStack, KeptDescends DEF AddResource
  <2>5. CASE AddReady
    BY <2>5, ReturnKeepsStack, KeptDescends
  <2>6. CASE UNCHANGED vars
    BY <2>6 DEF vars, Descends
  <2> QED
    BY <2>1, <2>2, <2>3, <2>4, <2>5, <2>6 DEF Next
<1>3. IInv /\ Descends(layer) => NoReentry
  <2> SUFFICES ASSUME IInv, Descends(layer), NEW j \in DOMAIN stack, NEW k \in DOMAIN stack,
                      stack[j].bundle = stack[k].bundle
               PROVE  j = k
    BY DEF NoReentry
  <2>1. j \in Nat /\ k \in Nat /\ layer[stack[j].bundle] \in Nat
    BY Ranges DEF IInv, Frames
  <2> QED
    BY <2>1 DEF Descends
<1> QED
  BY <1>1, <1>2, <1>3, PlanInvariant, PTL DEF Spec

=============================================================================
