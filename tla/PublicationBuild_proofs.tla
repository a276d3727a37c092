------------------------ MODULE PublicationBuild_proofs ------------------------
(* Proofs about PublicationLifecycle, for every number of publications,        *)
(* operators and readers and every retention period and operation length, and  *)
(* about PublicationBuild, for any number of publications, processes and       *)
(* Silver versions, and any number of failures and crashes.                    *)
EXTENDS PublicationBuild, FiniteSetTheorems, TLAPS

-----------------------------------------------------------------------------
(* Type correctness *)

\* An expectation a caller presents is a well-formed pointer.
LEMMA ExpectationType ==
  ASSUME TypeOK, NEW p \in Pubs, NEW e \in Expectations(p)
  PROVE  e \in Expectation
  BY DEF TypeOK, Expectations

\* Activation preserves the types of everything it writes.
LEMMA ActivateType ==
  ASSUME TypeOK, NEW p \in Pubs, NEW e \in Expectations(p),
         NEW kind \in {"activation", "restoration"}, Activate(p, e, kind)
  PROVE  TypeOK'
<1>1. e \in Expectation
  BY ExpectationType
<1>2. [pub |-> p, prev |-> active, kind |-> kind, basis |-> e.gen] \in Event
  BY <1>1 DEF TypeOK, Event, Expectation
<1>3. activations' \in Seq(Event)
  BY <1>2 DEF TypeOK, Activate
<1>4. retainLeft' \in [Pubs -> (0 .. RetentionTicks) \cup {None}]
  BY TicksAssumption DEF TypeOK, Activate, Extended
<1>5. generation' \in Nat
  BY DEF TypeOK, Activate
<1>. QED
  BY <1>3, <1>4, <1>5 DEF TypeOK, Activate, States, Namespaces

\* Nothing is published at first.
LEMMA InitType == Init => TypeOK
  BY TicksAssumption DEF Init, TypeOK, States

\* No operation stores a value of another type.
LEMMA TypeKept ==
  ASSUME TypeOK, [Next]_vars
  PROVE  TypeOK'
<1>1. ASSUME NEW p \in Pubs,
             Reserve(p) \/ Build(p) \/ MarkFailed(p) \/ Retry(p) \/ Seal(p) \/ Discard(p)
      PROVE  TypeOK'
  BY <1>1 DEF TypeOK, Reserve, Build, MarkFailed, Retry, Seal, Discard, pointerVars,
              States, Namespaces, Sealed, Expectation, Pointer
<1>2. ASSUME NEW o \in Operators, Inspect(o)
      PROVE  TypeOK'
  BY <1>2 DEF TypeOK, Inspect, catalogVars, pointerVars, Expectation, Pointer
<1>3. ASSUME NEW p \in Pubs, NEW kind \in {"activation", "restoration"},
             NEW e \in Expectations(p), Activate(p, e, kind)
      PROVE  TypeOK'
  BY <1>3, ActivateType
<1>4. ASSUME NEW chosen \in SUBSET Pubs, Cleanup(chosen)
      PROVE  TypeOK'
  BY <1>4 DEF TypeOK, Cleanup, pointerVars, States, Namespaces
<1>5. ASSUME NEW r \in Readers, NEW p \in Pubs, Resolve(r, p)
      PROVE  TypeOK'
  <2>1. [pub |-> p, left |-> OperationTicks, step |-> "idle"] \in Descriptor
    BY TicksAssumption DEF Descriptor
  <2>. QED
    BY <1>5, <2>1 DEF TypeOK, Resolve, catalogVars, pointerVars
<1>6. ASSUME NEW r \in Readers, Validate(r) \/ Fetch(r) \/ Release(r)
      PROVE  TypeOK'
  BY <1>6 DEF TypeOK, Validate, Fetch, Release, catalogVars, pointerVars, Descriptor
<1>7. CASE Tick
  <2>1. \A n \in 0 .. RetentionTicks : Less(n) \in 0 .. RetentionTicks
    BY TicksAssumption DEF Less
  <2>2. \A n \in 0 .. OperationTicks : Less(n) \in 0 .. OperationTicks
    BY TicksAssumption DEF Less
  <2>3. retainLeft' \in [Pubs -> (0 .. RetentionTicks) \cup {None}]
    BY <1>7, <2>1 DEF TypeOK, Tick
  <2>4. pin' \in [Readers -> Descriptor \cup {None}]
    BY <1>7, <2>2 DEF TypeOK, Tick, Descriptor
  <2>. QED
    BY <1>7, <2>3, <2>4 DEF TypeOK, Tick, pointerVars
<1>8. CASE UNCHANGED vars
  BY <1>8 DEF TypeOK, vars
<1>. QED
  BY <1>1, <1>2, <1>3, <1>4, <1>5, <1>6, <1>7, <1>8 DEF Next

\* Every value the registry stores has its declared type, whatever the
\* operations and their order.
THEOREM TypeCorrect == Spec => []TypeOK
<1>1. Init => TypeOK
  BY InitType
<1>2. TypeOK /\ [Next]_vars => TypeOK'
  BY TypeKept
<1>. QED
  BY <1>1, <1>2, PTL DEF Spec
-----------------------------------------------------------------------------
(* The safety invariant, action by action *)

USE RetainedAssumption, TicksAssumption, NoneAssumption

\* Operations on a candidate touch neither the pointer nor anything retained.
LEMMA CandidateStep ==
  ASSUME IInv, NEW p \in Pubs,
         Reserve(p) \/ Build(p) \/ MarkFailed(p) \/ Retry(p) \/ Seal(p) \/ Discard(p)
  PROVE  NamespacesMatchState' /\ ProtectedAvailable' /\ PinnedHorizon' /\ DecisionsInOrder'
<1>. USE DEF IInv, TypeOK, Reserve, Build, MarkFailed, Retry, Seal, Discard
<1>1. UNCHANGED <<pointerVars, seen, pin, retainLeft>>
  OBVIOUS
<1>2. state[p] \in CandidateStates \cup {"absent"}
  BY DEF Unfinished, CandidateStates
<1>3. \A q \in Pubs : state[q] = "retained" => state'[q] = "retained" /\ spaces'[q] = spaces[q]
  BY <1>2 DEF Unfinished, CandidateStates
<1>4. NamespacesMatchState'
  <2>1. CASE Reserve(p)
    BY <2>1 DEF NamespacesMatchState, Unfinished
  <2>2. CASE Build(p)
    BY <2>2 DEF NamespacesMatchState, Unfinished
  <2>3. CASE MarkFailed(p) \/ Retry(p)
    BY <2>3 DEF NamespacesMatchState, Unfinished
  <2>4. CASE Seal(p)
    BY <2>4 DEF NamespacesMatchState, Unfinished, Sealed
  <2>5. CASE Discard(p)
    BY <2>5 DEF NamespacesMatchState, Unfinished, CandidateStates
  <2>. QED
    BY <2>1, <2>2, <2>3, <2>4, <2>5
<1>5. ProtectedAvailable'
  BY <1>1, <1>3 DEF ProtectedAvailable, Protected, pointerVars
<1>6. PinnedHorizon'
  BY <1>1, <1>3 DEF PinnedHorizon, Protected, pointerVars, Descriptor
<1>7. DecisionsInOrder'
  BY <1>1 DEF DecisionsInOrder, pointerVars
<1>. QED
  BY <1>4, <1>5, <1>6, <1>7

\* An activation keeps the old pair available, extends whatever it lets go of
\* and appends an event decided on the state it replaces.
LEMMA ActivateStep ==
  ASSUME IInv, NEW p \in Pubs, NEW kind \in {"activation", "restoration"},
         NEW e \in Expectations(p), Activate(p, e, kind)
  PROVE  NamespacesMatchState' /\ ProtectedAvailable' /\ PinnedHorizon' /\ DecisionsInOrder'
<1>. USE DEF IInv
<1>1. /\ active' = p /\ previous' = active /\ generation' = generation + 1
      /\ state' = [state EXCEPT ![p] = "retained"]
      /\ spaces' = [spaces EXCEPT ![p] = @ \ {"workspace"}]
      /\ state[p] \in {"sealed", "retained"}
      /\ pin' = pin
      /\ e = Pointer
  BY DEF Activate, ExpectationHolds
<1>2. NamespacesMatchState'
  BY <1>1 DEF NamespacesMatchState, TypeOK, Sealed, Unfinished
<1>3. ProtectedAvailable'
  BY <1>1 DEF NamespacesMatchState, ProtectedAvailable, Protected, TypeOK, Sealed
<1>4. PinnedHorizon'
  <2>. SUFFICES ASSUME NEW r \in Readers, pin[r] # None, pin[r].left > 0
                PROVE  LET q == pin[r].pub IN
                         /\ state'[q] = "retained"
                         /\ \/ q \in Protected'
                            \/ retainLeft'[q] # None /\ retainLeft'[q] >= pin[r].left
    BY <1>1 DEF PinnedHorizon
  <2>. DEFINE q == pin[r].pub
  <2>1. q \in Pubs /\ pin[r].left \in 0 .. OperationTicks
    BY DEF TypeOK, Descriptor
  <2>2. state[q] = "retained"
        /\ (q \in Protected \/ (retainLeft[q] # None /\ retainLeft[q] >= pin[r].left))
    BY DEF PinnedHorizon
  <2>3. state'[q] = "retained"
    BY <1>1, <2>1, <2>2 DEF TypeOK
  <2>4. retainLeft'[q] = IF q \in Extending(p) THEN Extended(retainLeft[q]) ELSE retainLeft[q]
    BY <2>1 DEF Activate
  <2>5. retainLeft[q] \in (0 .. RetentionTicks) \cup {None}
    BY <2>1 DEF TypeOK
  <2>6. CASE q \in Extending(p)
    <3>1. Extended(retainLeft[q]) = RetentionTicks
      BY <2>5 DEF Extended
    <3>. QED
      BY <2>1, <2>3, <2>4, <2>6, <3>1
  <2>7. CASE q \notin Extending(p)
    <3>1. q \in Protected => q \in Protected'
      BY <1>1, <2>1, <2>7 DEF Extending, Protected
    <3>. QED
      BY <2>2, <2>3, <2>4, <2>7, <3>1
  <2>. QED
    BY <2>6, <2>7
<1>5. DecisionsInOrder'
  <2>. DEFINE ev == [pub |-> p, prev |-> active, kind |-> kind, basis |-> e.gen]
  <2>1. activations' = Append(activations, ev) /\ activations \in Seq(Event)
    BY DEF Activate, TypeOK
  <2>2. ev.basis = generation /\ ev.prev = active /\ ev.pub = p
    BY <1>1 DEF Pointer
  <2>3. generation \in Nat /\ Len(activations) = generation
    BY DEF TypeOK, DecisionsInOrder
  <2>4. Len(activations') = generation + 1 /\ activations'[generation + 1] = ev
    BY <2>1, <2>3
  <2>5. \A g \in 1 .. generation : activations'[g] = activations[g]
    BY <2>1, <2>3
  <2>6. ASSUME NEW g \in 1 .. generation + 1
        PROVE  /\ activations'[g].basis = g - 1
               /\ activations'[g].prev = IF g = 1 THEN None ELSE activations'[g - 1].pub
    <3>1. CASE g = generation + 1
      <4>1. generation = 0 => active = None
        BY DEF DecisionsInOrder
      <4>2. generation # 0 => activations'[generation].pub = active
        BY <2>3, <2>5 DEF DecisionsInOrder
      <4>. QED
        BY <2>2, <2>3, <2>4, <3>1, <4>1, <4>2
    <3>2. CASE g \in 1 .. generation
      BY <2>3, <2>5, <3>2 DEF DecisionsInOrder
    <3>. QED
      BY <2>3, <3>1, <3>2
  <2>. QED
    BY <1>1, <2>2, <2>3, <2>4, <2>6 DEF DecisionsInOrder
<1>. QED
  BY <1>2, <1>3, <1>4, <1>5

\* Cleanup can choose nothing a live descriptor depends on: what is eligible
\* has no time left and is not protected.
LEMMA CleanupStep ==
  ASSUME IInv, NEW chosen \in SUBSET Pubs, Cleanup(chosen)
  PROVE  NamespacesMatchState' /\ ProtectedAvailable' /\ PinnedHorizon' /\ DecisionsInOrder'
<1>. USE DEF IInv
<1>1. UNCHANGED <<pointerVars, seen, pin, retainLeft>>
  BY DEF Cleanup
<1>2. \A q \in chosen : q \notin Protected /\ retainLeft[q] = 0 /\ state[q] = "retained"
  BY DEF Cleanup, Eligible, Protected, Retained
<1>3. NamespacesMatchState'
  BY <1>2 DEF Cleanup, NamespacesMatchState, TypeOK, Unfinished, Sealed
<1>4. ProtectedAvailable'
  BY <1>1, <1>2 DEF Cleanup, ProtectedAvailable, Protected, pointerVars, TypeOK
<1>5. PinnedHorizon'
  <2>. SUFFICES ASSUME NEW r \in Readers, pin[r] # None, pin[r].left > 0
                PROVE  pin[r].pub \in Pubs /\ pin[r].pub \notin chosen
    BY <1>1 DEF Cleanup, PinnedHorizon, Protected, pointerVars, TypeOK
  <2>1. pin[r].pub \in Pubs /\ pin[r].left \in 0 .. OperationTicks
    BY DEF TypeOK, Descriptor
  <2>2. pin[r].pub \in Protected \/ retainLeft[pin[r].pub] # 0
    BY <2>1 DEF PinnedHorizon
  <2>. QED
    BY <1>2, <2>1, <2>2
<1>6. DecisionsInOrder'
  BY <1>1 DEF DecisionsInOrder, pointerVars
<1>. QED
  BY <1>3, <1>4, <1>5, <1>6

\* Readers and inspections change nothing in the registry, and a new pin has
\* the whole horizon of its operation.
LEMMA ReaderStep ==
  ASSUME IInv,
         \/ \E o \in Operators : Inspect(o)
         \/ \E r \in Readers, p \in Pubs : Resolve(r, p)
         \/ \E r \in Readers : Validate(r) \/ Fetch(r) \/ Release(r)
  PROVE  NamespacesMatchState' /\ ProtectedAvailable' /\ PinnedHorizon' /\ DecisionsInOrder'
<1>. USE DEF IInv
<1>1. UNCHANGED <<catalogVars, pointerVars>>
  BY DEF Inspect, Resolve, Validate, Fetch, Release
<1>2. NamespacesMatchState' /\ ProtectedAvailable' /\ DecisionsInOrder'
  BY <1>1 DEF NamespacesMatchState, ProtectedAvailable, Protected, DecisionsInOrder,
              catalogVars, pointerVars
<1>3. PinnedHorizon'
  <2>1. CASE \E o \in Operators : Inspect(o)
    BY <1>1, <2>1 DEF Inspect, PinnedHorizon, Protected, catalogVars, pointerVars
  <2>2. ASSUME NEW r \in Readers, NEW p \in Pubs, Resolve(r, p)
        PROVE  PinnedHorizon'
    BY <1>1, <2>2 DEF Resolve, HasHorizon, PinnedHorizon, Protected, TypeOK,
                      catalogVars, pointerVars
  <2>3. ASSUME NEW r \in Readers, Validate(r) \/ Fetch(r) \/ Release(r)
        PROVE  PinnedHorizon'
    <3>1. \A q \in Readers :
            pin'[q] # None => pin[q] # None /\ pin'[q].pub = pin[q].pub /\ pin'[q].left = pin[q].left
      <4>1. pin \in [Readers -> Descriptor \cup {None}] /\ pin[r] \in Descriptor
            /\ pin[r] # None
        BY <2>3 DEF Validate, Fetch, Release, TypeOK
      <4>2. CASE Release(r)
        BY <4>1, <4>2 DEF Release
      <4>3. CASE Validate(r) \/ Fetch(r)
        <5>1. PICK step \in {"idle", "reading"} : pin' = [pin EXCEPT ![r].step = step]
          BY <4>3 DEF Validate, Fetch
        <5>2. pin'[r].pub = pin[r].pub /\ pin'[r].left = pin[r].left
          BY <4>1, <5>1 DEF Descriptor
        <5>. QED
          BY <4>1, <5>1, <5>2
      <4>. QED
        BY <2>3, <4>2, <4>3
    <3>2. PinnedHorizon
      OBVIOUS
    <3>. QED
      BY <1>1, <3>1, <3>2 DEF PinnedHorizon, Protected, catalogVars, pointerVars
  <2>. QED
    BY <2>1, <2>2, <2>3
<1>. QED
  BY <1>2, <1>3

\* Time passes for the retention and for the descriptor alike.
LEMMA TickStep ==
  ASSUME IInv, Tick
  PROVE  NamespacesMatchState' /\ ProtectedAvailable' /\ PinnedHorizon' /\ DecisionsInOrder'
<1>. USE DEF IInv
<1>1. UNCHANGED <<state, spaces, pointerVars>>
  BY DEF Tick
<1>2. NamespacesMatchState' /\ ProtectedAvailable' /\ DecisionsInOrder'
  BY <1>1 DEF NamespacesMatchState, ProtectedAvailable, Protected, DecisionsInOrder, pointerVars
<1>3. PinnedHorizon'
  <2>. SUFFICES ASSUME NEW r \in Readers, pin'[r] # None, pin'[r].left > 0
                PROVE  LET q == pin'[r].pub IN
                         /\ state[q] = "retained"
                         /\ \/ q \in Protected
                            \/ retainLeft'[q] # None /\ retainLeft'[q] >= pin'[r].left
    BY <1>1 DEF PinnedHorizon, Protected, pointerVars
  <2>. DEFINE q == pin[r].pub
  <2>1. pin[r] # None /\ pin'[r].pub = q /\ pin'[r].left = Less(pin[r].left)
    BY DEF Tick, TypeOK, Descriptor
  <2>2. q \in Pubs /\ pin[r].left \in 0 .. OperationTicks
    BY <2>1 DEF TypeOK, Descriptor
  <2>3. pin[r].left > 0 /\ pin'[r].left = pin[r].left - 1
    BY <2>1, <2>2 DEF Less
  <2>4. state[q] = "retained"
        /\ (q \in Protected \/ (retainLeft[q] # None /\ retainLeft[q] >= pin[r].left))
    BY <2>1, <2>3 DEF PinnedHorizon
  <2>5. CASE q \in Protected
    BY <2>1, <2>4, <2>5
  <2>6. CASE retainLeft[q] # None /\ retainLeft[q] >= pin[r].left
    <3>1. retainLeft[q] \in 0 .. RetentionTicks
      BY <2>2, <2>6 DEF TypeOK
    <3>2. retainLeft'[q] = retainLeft[q] - 1
      BY <2>2, <2>3, <2>6, <3>1 DEF Tick, Less
    <3>. QED
      BY <2>1, <2>2, <2>3, <2>4, <2>6, <3>1, <3>2
  <2>. QED
    BY <2>4, <2>5, <2>6
<1>. QED
  BY <1>2, <1>3

\* The inductive invariant of the registry.
THEOREM Inductive == Spec => []IInv
<1>1. Init => IInv
  BY DEF Init, IInv, TypeOK, NamespacesMatchState, ProtectedAvailable, Protected,
         PinnedHorizon, DecisionsInOrder, States, Unfinished
<1>2. ASSUME IInv, TypeOK', [Next]_vars
      PROVE  IInv'
  <2>1. NamespacesMatchState' /\ ProtectedAvailable' /\ PinnedHorizon' /\ DecisionsInOrder'
    <3>1. CASE Next
      BY <1>2, <3>1, CandidateStep, ActivateStep, CleanupStep, ReaderStep, TickStep DEF Next
    <3>2. CASE UNCHANGED vars
      BY <1>2, <3>2 DEF IInv, NamespacesMatchState, ProtectedAvailable, Protected,
                        PinnedHorizon, DecisionsInOrder, vars
    <3>. QED
      BY <1>2, <3>1, <3>2
  <2>. QED
    BY <1>2, <2>1 DEF IInv
<1>. QED
  BY <1>1, <1>2, TypeCorrect, PTL DEF Spec

\* A reader inside its hour always finds its namespace.
THEOREM PinnedStaysReadable == Spec => []PinnedReadable
<1>1. IInv => PinnedReadable
  BY DEF IInv, TypeOK, Descriptor, PinnedHorizon, NamespacesMatchState, PinnedReadable, Sealed
<1>. QED
  BY <1>1, Inductive, PTL

\* The active publication and its rollback target are always complete.
THEOREM RollbackAvailable == Spec => []ProtectedAvailable
<1>1. IInv => ProtectedAvailable
  BY DEF IInv
<1>. QED
  BY <1>1, Inductive, PTL

\* No activation is overwritten by one decided before it.
THEOREM NoActivationLost == Spec => []DecisionsInOrder
<1>1. IInv => DecisionsInOrder
  BY DEF IInv
<1>. QED
  BY <1>1, Inductive, PTL

-----------------------------------------------------------------------------
(* Capacity *)

\* The publications of any kind are finitely many.
LEMMA FiniteKinds ==
  ASSUME NEW S \in SUBSET Pubs
  PROVE  IsFiniteSet(S) /\ Cardinality(S) \in Nat
  BY PubsAssumption, FS_Subset, FS_CardinalityType

\* Fewer elements never count for more.
LEMMA Fewer ==
  ASSUME NEW S \in SUBSET Pubs, NEW T \in SUBSET S
  PROVE  Cardinality(T) <= Cardinality(S)
  BY FiniteKinds, FS_Subset

\* A candidate reserves the retention slot it will occupy, so activation never
\* finds the retention full.
THEOREM CapacityReserved == Spec => []RetentionRoom
<1>1. Init => RetentionRoom
  <2>. SUFFICES ASSUME Init PROVE RetentionRoom
    OBVIOUS
  <2>1. Retained = {} /\ Candidates = {}
    BY DEF Init, Retained, Candidates, CandidateStates, Unfinished
  <2>. QED
    BY <2>1, FS_EmptySet DEF RetentionRoom
<1>2. ASSUME TypeOK, RetentionRoom, [Next]_vars
      PROVE  RetentionRoom'
  <2>. USE <1>2
  <2>. /\ Retained \in SUBSET Pubs /\ Candidates \in SUBSET Pubs
       /\ Retained' \in SUBSET Pubs /\ Candidates' \in SUBSET Pubs
    BY DEF Retained, Candidates
  <2>0. /\ Cardinality(Retained) \in Nat /\ Cardinality(Candidates) \in Nat
        /\ Cardinality(Retained') \in Nat /\ Cardinality(Candidates') \in Nat
    BY FiniteKinds
  <2>1. ASSUME Retained' \subseteq Retained, Candidates' \subseteq Candidates
        PROVE  RetentionRoom'
    <3>1. Cardinality(Retained') <= Cardinality(Retained)
      BY <2>1, Fewer
    <3>2. Cardinality(Candidates') <= Cardinality(Candidates)
      BY <2>1, Fewer
    <3>. QED
      BY <2>0, <3>1, <3>2 DEF RetentionRoom
  <2>2. ASSUME NEW p \in Pubs, Reserve(p)
        PROVE  RetentionRoom'
    <3>1. Retained' = Retained /\ Candidates' = {p}
      BY <2>2 DEF Reserve, Retained, Candidates, CandidateStates, Unfinished, TypeOK
    <3>2. Cardinality({p}) = 1
      BY FS_Singleton
    <3>. QED
      BY <2>0, <2>2, <3>1, <3>2 DEF Reserve, HasCapacity, RetentionRoom
  <2>3. ASSUME NEW p \in Pubs, Build(p) \/ MarkFailed(p) \/ Retry(p) \/ Seal(p) \/ Discard(p)
        PROVE  RetentionRoom'
    <3>1. Retained' \subseteq Retained /\ Candidates' \subseteq Candidates
      BY <2>3 DEF Build, MarkFailed, Retry, Seal, Discard, Retained, Candidates,
                  CandidateStates, Unfinished, TypeOK
    <3>. QED
      BY <2>1, <3>1
  <2>4. ASSUME NEW p \in Pubs, NEW kind \in {"activation", "restoration"},
               NEW e \in Expectations(p), Activate(p, e, kind)
        PROVE  RetentionRoom'
    <3>1. state' = [state EXCEPT ![p] = "retained"] /\ state[p] \in {"sealed", "retained"}
      BY <2>4 DEF Activate
    <3>2. CASE state[p] = "retained"
      <4>1. Retained' \subseteq Retained /\ Candidates' \subseteq Candidates
        BY <3>1, <3>2 DEF Retained, Candidates, CandidateStates, Unfinished, TypeOK
      <4>. QED
        BY <2>1, <4>1
    <3>3. CASE state[p] = "sealed"
      <4>1. Retained' = Retained \cup {p} /\ Candidates' = Candidates \ {p}
        BY <3>1, <3>3 DEF Retained, Candidates, CandidateStates, Unfinished, TypeOK
      <4>2. p \in Candidates
        BY <3>3 DEF Candidates, CandidateStates
      <4>3. Cardinality(Retained') <= Cardinality(Retained) + 1
        <5>1. IsFiniteSet(Retained)
          BY FiniteKinds
        <5>2. Cardinality(Retained \cup {p}) =
                IF p \in Retained THEN Cardinality(Retained) ELSE Cardinality(Retained) + 1
          BY <5>1, FS_AddElement
        <5>. QED
          BY <2>0, <4>1, <5>2
      <4>4. Cardinality(Candidates') = Cardinality(Candidates) - 1
        BY <4>1, <4>2, FiniteKinds, FS_RemoveElement
      <4>. QED
        BY <2>0, <4>3, <4>4 DEF RetentionRoom
    <3>. QED
      BY <3>1, <3>2, <3>3
  <2>5. ASSUME NEW chosen \in SUBSET Pubs, Cleanup(chosen)
        PROVE  RetentionRoom'
    <3>1. Retained' \subseteq Retained /\ Candidates' \subseteq Candidates
      BY <2>5 DEF Cleanup, Retained, Candidates, CandidateStates, Unfinished, TypeOK
    <3>. QED
      BY <2>1, <3>1
  <2>6. ASSUME state' = state
        PROVE  RetentionRoom'
    <3>1. Retained' \subseteq Retained /\ Candidates' \subseteq Candidates
      BY <2>6 DEF Retained, Candidates
    <3>. QED
      BY <2>1, <3>1
  <2>. QED
    BY <2>2, <2>3, <2>4, <2>5, <2>6
    DEF Next, Inspect, Resolve, Validate, Fetch, Release, Tick, catalogVars, vars
<1>. QED
  BY <1>1, <1>2, TypeCorrect, PTL DEF Spec

-----------------------------------------------------------------------------
(* Retention restarts *)

\* Losing the active or the previous place always leaves a full retention.
THEOREM LeavingRestartsRetention == Spec => RetentionRestarts
<1>1. ASSUME TypeOK, [Next]_vars
      PROVE  [\A p \in Protected :
                (p = active /\ p # active') \/ p \notin Protected' =>
                  retainLeft'[p] # None /\ retainLeft'[p] >= RetentionTicks]_vars
  <2>. USE <1>1
  <2>1. ASSUME NEW q \in Pubs, NEW kind \in {"activation", "restoration"},
               NEW e \in Expectations(q), Activate(q, e, kind),
               NEW p \in Protected, (p = active /\ p # active') \/ p \notin Protected'
        PROVE  retainLeft'[p] # None /\ retainLeft'[p] >= RetentionTicks
    <3>1. p \in Pubs
      BY DEF Protected, TypeOK
    <3>2. p \in Extending(q)
      BY <2>1, <3>1 DEF Activate, Extending, Protected
    <3>3. retainLeft'[p] = Extended(retainLeft[p])
      BY <2>1, <3>1, <3>2 DEF Activate
    <3>4. retainLeft[p] \in (0 .. RetentionTicks) \cup {None}
      BY <3>1 DEF TypeOK
    <3>. QED
      BY <3>3, <3>4 DEF Extended
  <2>2. ASSUME UNCHANGED pointerVars \/ UNCHANGED vars
        PROVE  active' = active /\ Protected' = Protected
    BY <2>2 DEF pointerVars, vars, Protected
  <2>. QED
    BY <2>1, <2>2
    DEF Next, Reserve, Build, MarkFailed, Retry, Seal, Discard, Cleanup, Inspect,
        Resolve, Validate, Fetch, Release, Tick
<1>. QED
  BY <1>1, TypeCorrect, PTL DEF Spec, RetentionRestarts

-----------------------------------------------------------------------------
(* The registry keeps its promise to consumers *)

\* Every step of the registry is, for its consumers, a publication, a
\* retirement of something nobody holds, a pin, the end of some operations, or
\* nothing at all.
LEMMA PromiseStep ==
  ASSUME IInv, IInv', [Next]_vars
  PROVE  [Promise!Next]_(Promise!vars)
<1>. USE DEF IInv
<1>. DEFINE gone == {p \in Pubs : state[p] = "pruned"}
<1>1. ASSUME NEW p \in Pubs,
             Reserve(p) \/ Build(p) \/ MarkFailed(p) \/ Retry(p) \/ Seal(p) \/ Discard(p)
      PROVE  UNCHANGED Promise!vars
  <2>1. UNCHANGED <<active, pin>>
    BY <1>1 DEF Reserve, Build, MarkFailed, Retry, Seal, Discard, pointerVars
  <2>2. /\ \A q \in Pubs : state'[q] = "retained" <=> state[q] = "retained"
        /\ \A q \in Pubs : state'[q] = "pruned" <=> state[q] = "pruned"
    BY <1>1 DEF Reserve, Build, MarkFailed, Retry, Seal, Discard, TypeOK,
                CandidateStates, Unfinished
  <2>3. Retained' = Retained /\ gone' = gone /\ Held' = Held
    BY <2>1, <2>2 DEF Retained, Held
  <2>. QED
    BY <2>1, <2>3 DEF Promise!vars
<1>2. ASSUME NEW p \in Pubs, NEW kind \in {"activation", "restoration"},
             NEW e \in Expectations(p), Activate(p, e, kind)
      PROVE  Promise!Publish(p)
  <2>1. state' = [state EXCEPT ![p] = "retained"] /\ state[p] \in {"sealed", "retained"}
        /\ active' = p /\ pin' = pin
    BY <1>2 DEF Activate
  <2>2. Retained' = Retained \cup {p} /\ gone' = gone /\ p \notin gone
    BY <2>1 DEF Retained, TypeOK
  <2>3. Held' = Held
    BY <2>1 DEF Held
  <2>. QED
    BY <2>1, <2>2, <2>3 DEF Promise!Publish
<1>3. ASSUME NEW chosen \in SUBSET Pubs, Cleanup(chosen)
      PROVE  Promise!Retire(chosen)
  <2>1. chosen \subseteq Retained \ {active}
        /\ \A p \in chosen : retainLeft[p] = 0 /\ p \notin Protected
    BY <1>3 DEF Cleanup, Eligible, Protected
  <2>2. ASSUME NEW r \in Readers
        PROVE  Held[r] \notin chosen
    <3>1. CASE pin[r] # None /\ pin[r].left > 0
      <4>1. pin[r].pub \in Pubs /\ pin[r].left \in 0 .. OperationTicks
        BY <3>1 DEF TypeOK, Descriptor
      <4>2. pin[r].pub \notin chosen
        BY <2>1, <3>1, <4>1 DEF PinnedHorizon
      <4>. QED
        BY <3>1, <4>2 DEF Held
    <3>2. CASE ~(pin[r] # None /\ pin[r].left > 0)
      BY <3>2 DEF Held
    <3>. QED
      BY <3>1, <3>2
  <2>3. Retained' = Retained \ chosen /\ gone' = gone \cup chosen
    BY <1>3, <2>1 DEF Cleanup, Retained, TypeOK
  <2>4. Held' = Held /\ active' = active
    BY <1>3 DEF Cleanup, Held, pointerVars
  <2>. QED
    BY <2>1, <2>2, <2>3, <2>4 DEF Promise!Retire
<1>4. ASSUME UNCHANGED <<state, active>>
      PROVE  Retained' = Retained /\ gone' = gone
  BY <1>4 DEF Retained
<1>5. ASSUME NEW r \in Readers, NEW p \in Pubs, Resolve(r, p)
      PROVE  Promise!Pin(r, p)
  <2>1. UNCHANGED <<state, active>> /\ p \in Retained /\ pin[r] = None
    BY <1>5 DEF Resolve, catalogVars, pointerVars, Retained
  <2>2. pin' = [pin EXCEPT ![r] = [pub |-> p, left |-> OperationTicks, step |-> "idle"]]
    BY <1>5 DEF Resolve
  <2>3. Held[r] = None /\ Held' = [Held EXCEPT ![r] = p]
    <3>1. [pub |-> p, left |-> OperationTicks, step |-> "idle"] \in Descriptor
      BY DEF Descriptor
    <3>2. pin' \in [Readers -> Descriptor \cup {None}] /\ pin \in [Readers -> Descriptor \cup {None}]
      BY DEF TypeOK
    <3>3. [pub |-> p, left |-> OperationTicks, step |-> "idle"] # None
      BY <2>2, <3>2, <3>1, NullAssumption
    <3>4. pin'[r] # None /\ pin'[r].left > 0 /\ pin'[r].pub = p
      BY <2>2, <3>2, <3>3
    <3>5. \A q \in Readers \ {r} : pin'[q] = pin[q]
      BY <2>2, <3>2
    <3>6. Held'[r] = p /\ Held[r] = None
      BY <2>1, <3>4 DEF Held
    <3>7. \A q \in Readers \ {r} : Held'[q] = Held[q]
      BY <3>5 DEF Held
    <3>8. Held' = [Held EXCEPT ![r] = p]
      BY <3>6, <3>7 DEF Held
    <3>. QED
      BY <3>6, <3>8
  <2>. QED
    BY <1>4, <2>1, <2>3 DEF Promise!Pin
<1>6. ASSUME NEW r \in Readers, Validate(r) \/ Fetch(r)
      PROVE  UNCHANGED Promise!vars
  <2>1. UNCHANGED <<state, active>> /\ pin[r] # None
    BY <1>6 DEF Validate, Fetch, catalogVars, pointerVars
  <2>2. PICK s \in {"idle", "reading"} : pin' = [pin EXCEPT ![r].step = s]
    BY <1>6 DEF Validate, Fetch
  <2>3. pin[r] \in Descriptor /\ pin'[r] \in Descriptor
        /\ pin'[r].pub = pin[r].pub /\ pin'[r].left = pin[r].left
    BY <2>1, <2>2 DEF TypeOK, Descriptor
  <2>4. \A q \in Readers \ {r} : pin'[q] = pin[q]
    BY <2>2 DEF TypeOK
  <2>5. pin'[r] # None
    BY <2>3, NullAssumption
  <2>6. Held' = Held
    BY <2>1, <2>3, <2>4, <2>5 DEF Held
  <2>. QED
    BY <1>4, <2>1, <2>6 DEF Promise!vars
<1>7. ASSUME NEW r \in Readers, Release(r)
      PROVE  Promise!Unpin({r})
  <2>1. UNCHANGED <<state, active>> /\ pin' = [pin EXCEPT ![r] = None]
    BY <1>7 DEF Release, catalogVars, pointerVars
  <2>2. Held' = [q \in Readers |-> IF q \in {r} THEN None ELSE Held[q]]
    BY <2>1 DEF Held, TypeOK
  <2>. QED
    BY <1>4, <2>1, <2>2 DEF Promise!Unpin
<1>8. ASSUME Tick
      PROVE  \E done \in SUBSET Readers : Promise!Unpin(done)
  <2>. DEFINE done == {r \in Readers : Held'[r] = None}
  <2>1. UNCHANGED <<state, active>>
    BY <1>8 DEF Tick, pointerVars
  <2>2. ASSUME NEW r \in Readers, Held'[r] # None
        PROVE  Held'[r] = Held[r]
    <3>1. pin'[r] # None /\ pin'[r].left > 0 /\ Held'[r] = pin'[r].pub
      BY <2>2 DEF Held
    <3>2. pin[r] # None /\ pin'[r].pub = pin[r].pub /\ pin'[r].left = Less(pin[r].left)
          /\ pin[r].left \in 0 .. OperationTicks
      BY <1>8, <3>1 DEF Tick, TypeOK, Descriptor
    <3>3. pin[r].left > 0
      BY <3>1, <3>2 DEF Less
    <3>. QED
      BY <3>1, <3>2, <3>3 DEF Held
  <2>3. Held' = [r \in Readers |-> IF r \in done THEN None ELSE Held[r]]
    BY <2>2 DEF Held
  <2>4. Promise!Unpin(done)
    BY <1>4, <2>1, <2>3 DEF Promise!Unpin
  <2>. QED
    BY <2>4
<1>9. ASSUME NEW o \in Operators, Inspect(o)
      PROVE  UNCHANGED Promise!vars
  BY <1>4, <1>9 DEF Inspect, catalogVars, pointerVars, Held, Promise!vars
<1>10. CASE UNCHANGED vars
  BY <1>10 DEF vars, Retained, Held, Promise!vars
<1>. QED
  BY <1>1, <1>2, <1>3, <1>5, <1>6, <1>7, <1>8, <1>9, <1>10 DEF Next, Promise!Next

\* The registry implements the abstract view of its consumers.
THEOREM KeepsPromise == Spec => ConsumerPromise
<1>1. Init => Promise!Init
  <2>. SUFFICES ASSUME Init PROVE Promise!Init
    OBVIOUS
  <2>1. Retained = {} /\ {p \in Pubs : state[p] = "pruned"} = {} /\ active = None
    BY DEF Init, Retained
  <2>2. Held = [r \in Readers |-> None]
    BY DEF Init, Held
  <2>. QED
    BY <2>1, <2>2 DEF Promise!Init
<1>2. IInv /\ IInv' /\ [Next]_vars => [Promise!Next]_(Promise!vars)
  BY PromiseStep
<1>. QED
  BY <1>1, <1>2, Inductive, PTL DEF Spec, ConsumerPromise, Promise!Spec

-----------------------------------------------------------------------------
(* The registry below *)

\* Whatever a process does, it uses the registry by its own operations.
LEMMA StepIsRegistry ==
  ASSUME BuildIInv, [BuildNext]_allVars
  PROVE  [Next]_vars
<1>1. \A x \in Workers : worker[x].pc # "idle" => Pub(x) \in Pubs
  BY DEF BuildIInv, Progress
<1>2. CASE UNCHANGED vars
  BY <1>2
<1>3. ASSUME NEW p \in Pubs,
             Reserve(p) \/ Build(p) \/ MarkFailed(p) \/ Retry(p) \/ Seal(p) \/ Discard(p)
      PROVE  [Next]_vars
  BY <1>3 DEF Next
<1>4. ASSUME NEW x \in Workers, WorkerStep(x)
      PROVE  [Next]_vars
  <2>1. CASE Revive(x)
    BY <1>1, <1>3, <2>1 DEF Revive, At
  <2>2. CASE Capture(x)
    BY <1>1, <1>3, <2>2 DEF Capture, At
  <2>3. CASE PrepareSchemas(x)
    BY <1>1, <1>3, <2>3 DEF PrepareSchemas, At
  <2>4. CASE SealBuilt(x)
    BY <1>1, <1>3, <2>4 DEF SealBuilt, At
  <2>5. CASE Report(x)
    BY <1>1, <1>2, <1>3, <2>5 DEF Report, At
  <2>. QED
    BY <1>2, <1>4, <2>1, <2>2, <2>3, <2>4, <2>5
    DEF WorkerStep, ReviveRefused, TakeLock, UpdateRow, DbtBegin, DbtEnd, Measure, Refuse
<1>5. CASE RegistryMoves
  BY <1>5 DEF RegistryMoves, Next
<1>. QED
  BY <1>2, <1>3, <1>4, <1>5
  DEF BuildNext, allVars, BuildNew, BuildAgain, RetryRead, Break, Crash, DiscardCandidate, WarehouseMoves

-----------------------------------------------------------------------------
(* Locks *)

\* A process past the lock has it for itself.
LEMMA Exclusive ==
  ASSUME BuildIInv, NEW x \in Workers, NEW y \in Workers, NEW p \in Pubs,
         worker[y].pc \in Locked, worker[y].pub = p, lock[p] \in {None, x}
  PROVE  x = y
  BY BuildNoneAssumption DEF BuildIInv, BuildTypeOK

\* A process that keeps its place keeps its lock.
LEMMA LockKept ==
  ASSUME BuildTypeOK, NEW x \in Workers, NEW w,
         worker' = [worker EXCEPT ![x] = w], lock' = lock,
         w.pc \in Locked <=> worker[x].pc \in Locked,
         w.pc \in Locked => w.pub = worker[x].pub
  PROVE  \A p \in Pubs, y \in Workers :
           lock'[p] = y <=> worker'[y].pub = p /\ worker'[y].pc \in Locked
<1>. SUFFICES ASSUME NEW p \in Pubs, NEW y \in Workers
              PROVE  lock'[p] = y <=> worker'[y].pub = p /\ worker'[y].pc \in Locked
  OBVIOUS
<1>1. lock[p] = y <=> worker[y].pub = p /\ worker[y].pc \in Locked
  BY DEF BuildTypeOK
<1>2. worker'[y] = IF y = x THEN w ELSE worker[y]
  BY DEF BuildTypeOK
<1>. QED
  BY <1>1, <1>2

\* A process that fails, ends or has measured has no lock.
LEMMA LockDropped ==
  ASSUME BuildTypeOK, NEW x \in Workers, NEW w,
         worker' = [worker EXCEPT ![x] = w], lock' = Unlocked(x), w.pc \notin Locked
  PROVE  /\ \A p \in Pubs, y \in Workers :
              lock'[p] = y <=> worker'[y].pub = p /\ worker'[y].pc \in Locked
         /\ lock' \in [Pubs -> Workers \cup {None}]
<1>1. lock' \in [Pubs -> Workers \cup {None}]
  BY DEF BuildTypeOK, Unlocked
<1>2. ASSUME NEW p \in Pubs, NEW y \in Workers
      PROVE  lock'[p] = y <=> worker'[y].pub = p /\ worker'[y].pc \in Locked
  <2>1. lock[p] = y <=> worker[y].pub = p /\ worker[y].pc \in Locked
    BY DEF BuildTypeOK
  <2>2. worker'[y] = IF y = x THEN w ELSE worker[y]
    BY DEF BuildTypeOK
  <2>3. lock'[p] = IF lock[p] = x THEN None ELSE lock[p]
    BY DEF Unlocked
  <2>. QED
    BY <2>1, <2>2, <2>3, BuildNoneAssumption
<1>. QED
  BY <1>1, <1>2

-----------------------------------------------------------------------------
(* What a step leaves to the others *)

\* The candidate of y is as y needs it.
Leaves(y) ==
  LET p == Pub(y)
  IN /\ worker'[y] = worker[y]
     /\ state'[p] # "absent" /\ pinned'[p] = pinned[p]
     /\ worker[y].pc \in Locked =>
          /\ state[p] \in Unfinished => state'[p] \in Unfinished
          /\ spaces[p] = {"workspace"} => spaces'[p] = {"workspace"}
          /\ captured[p] # None => captured'[p] = captured[p]
          /\ tables'[p] = tables[p]

LEMMA ProgressStays ==
  ASSUME NEW y \in Workers, Progress(y), worker[y].pc # "idle" => Leaves(y),
         worker'[y] = worker[y]
  PROVE  Progress(y)'
  BY DEF Progress, Leaves, Pub, Locked

\* Steps that change nothing but where processes are and who holds locks.
LEMMA SilentKeeps ==
  ASSUME BuildIInv, UNCHANGED <<vars, pinned, captured, tables, sealedAs>>
  PROVE  /\ CapturedAsPinned' /\ SealedIsValidated'
         /\ \A y \in Workers : worker'[y] = worker[y] => Progress(y)'
<1>1. CapturedAsPinned' /\ SealedIsValidated'
  BY DEF BuildIInv, CapturedAsPinned, SealedIsValidated, vars
<1>2. ASSUME NEW y \in Workers, worker'[y] = worker[y] PROVE Progress(y)'
  BY <1>2 DEF BuildIInv, Progress, Pub, vars
<1>. QED
  BY <1>1, <1>2

Record == [pc : {"idle", "retry", "failing"} \cup InTry, pub : Pubs \cup {None},
           fresh : BOOLEAN, receipt : Tables]

LEMMA WorkerType ==
  ASSUME BuildTypeOK, NEW x \in Workers
  PROVE  worker[x] \in Record
  BY DEF BuildTypeOK, Record

LEMMA IdleType == Idle \in Record
  BY DEF Idle, Record, NoTables, Tables

\* A process moves to another step of its own candidate.
LEMMA GoType ==
  ASSUME BuildTypeOK, NEW x \in Workers, NEW pc \in {"idle", "retry", "failing"} \cup InTry,
         Go(x, pc)
  PROVE  /\ [worker[x] EXCEPT !.pc = pc] \in Record
         /\ worker' = [worker EXCEPT ![x] = [worker[x] EXCEPT !.pc = pc]]
         /\ worker' \in [Workers -> Record]
<1>1. [worker[x] EXCEPT !.pc = pc] \in Record
  BY WorkerType DEF Record
<1>2. worker \in [Workers -> Record]
  BY DEF BuildTypeOK, Record
<1>. QED
  BY <1>1, <1>2 DEF Go

\* A process begins a command.
LEMMA BeginType ==
  ASSUME BuildTypeOK, NEW x \in Workers, NEW p \in Pubs, NEW fresh \in BOOLEAN,
         NEW pc \in {"capture", "retry"}, Begin(x, pc, p, fresh)
  PROVE  LET w == [pc |-> pc, pub |-> p, fresh |-> fresh, receipt |-> NoTables]
         IN /\ worker' = [worker EXCEPT ![x] = w]
            /\ worker' \in [Workers -> Record]
<1>1. [pc |-> pc, pub |-> p, fresh |-> fresh, receipt |-> NoTables] \in Record
  BY DEF Record, InTry, NoTables, Tables
<1>2. worker \in [Workers -> Record]
  BY DEF BuildTypeOK, Record
<1>. QED
  BY <1>1, <1>2 DEF Begin

\* The types of a step, given the ones of what it writes.
LEMMA BuildTypes ==
  ASSUME BuildIInv, [BuildNext]_allVars,
         worker' \in [Workers -> Record], lock' \in [Pubs -> Workers \cup {None}],
         \A p \in Pubs, y \in Workers :
           lock'[p] = y <=> worker'[y].pub = p /\ worker'[y].pc \in Locked,
         UNCHANGED <<source, pinned, captured, tables, sealedAs>>,
         breaks' \in 0 .. MaxBreaks
  PROVE  BuildTypeOK'
<1>1. TypeOK'
  BY StepIsRegistry, TypeKept DEF BuildIInv, BuildTypeOK
<1>. QED
  BY <1>1 DEF BuildIInv, BuildTypeOK, Record

-----------------------------------------------------------------------------
(* Steps that only move a process *)

\* A command begins on a candidate that exists.
LEMMA BeginKeeps ==
  ASSUME BuildIInv, NEW x \in Workers, NEW p \in Pubs, BuildAgain(x, p) \/ RetryRead(x, p)
  PROVE  BuildIInv'
<1>1. PICK pc \in {"capture", "retry"}, fresh \in BOOLEAN :
        /\ Begin(x, pc, p, fresh) /\ state[p] # "absent" /\ At(x, "idle")
        /\ UNCHANGED <<vars, buildVars>> \/ UNCHANGED <<vars, lock, source, pinned, captured, tables, sealedAs, breaks>>
  BY DEF BuildAgain, RetryRead, Unfinished
<1>. DEFINE w == [pc |-> pc, pub |-> p, fresh |-> fresh, receipt |-> NoTables]
<1>2. worker' = [worker EXCEPT ![x] = w] /\ worker' \in [Workers -> Record]
  BY <1>1, BeginType DEF BuildIInv
<1>3. UNCHANGED <<vars, lock, source, pinned, captured, tables, sealedAs, breaks>>
  BY <1>1 DEF buildVars
<1>4. BuildTypeOK'
  <2>1. \A q \in Pubs, y \in Workers :
           lock'[q] = y <=> worker'[y].pub = q /\ worker'[y].pc \in Locked
    BY <1>1, <1>2, <1>3, LockKept DEF BuildIInv, At, Locked
  <2>. QED
    BY <1>2, <1>3, <2>1, BuildTypes DEF BuildIInv, BuildTypeOK, BuildNext
<1>5. \A y \in Workers \ {x} : worker'[y] = worker[y]
  BY <1>2 DEF BuildIInv, BuildTypeOK
<1>6. worker'[x] = w
  BY <1>2 DEF BuildIInv, BuildTypeOK
<1>7. Progress(x)'
  BY <1>1, <1>3, <1>6 DEF Progress, Pub, vars
<1>. QED
  BY <1>3, <1>4, <1>5, <1>7, SilentKeeps DEF BuildIInv

\* A process stops, or goes on to the handler of failures.
LEMMA StopKeeps ==
  ASSUME BuildIInv, NEW x \in Workers, ReviveRefused(x) \/ Refuse(x) \/ Break(x) \/ Crash(x)
  PROVE  BuildIInv'
<1>1. PICK w \in Record :
        /\ worker' = [worker EXCEPT ![x] = w]
        /\ w = Idle \/ (w.pc = "failing" /\ w.pub = Pub(x) /\ worker[x].pc # "idle")
        /\ lock' = Unlocked(x) \/ (lock' = lock /\ worker[x].pc = "retry")
  <2>1. [worker[x] EXCEPT !.pc = "failing"] \in Record
        /\ [worker[x] EXCEPT !.pc = "failing"].pc = "failing"
        /\ [worker[x] EXCEPT !.pc = "failing"].pub = Pub(x)
    BY WorkerType DEF BuildIInv, Record, Pub
  <2>2. CASE ReviveRefused(x) \/ Crash(x)
    BY <2>2, IdleType DEF ReviveRefused, Crash, At
  <2>3. CASE Refuse(x) \/ Break(x)
    BY <2>1, <2>3, GoType DEF BuildIInv, Refuse, Break, InTry
  <2>. QED
    BY <2>2, <2>3
<1>2. UNCHANGED <<vars, source, pinned, captured, tables, sealedAs>> /\ breaks' \in 0 .. MaxBreaks
  BY MaxBreaksAssumption DEF ReviveRefused, Refuse, Break, Crash, BuildIInv, BuildTypeOK
<1>3. w.pc \notin Locked
  BY <1>1 DEF Idle, Locked
<1>4. BuildTypeOK'
  <2>1. /\ \A q \in Pubs, y \in Workers :
             lock'[q] = y <=> worker'[y].pub = q /\ worker'[y].pc \in Locked
        /\ lock' \in [Pubs -> Workers \cup {None}]
    <3>1. CASE lock' = Unlocked(x)
      BY <1>1, <1>3, <3>1, LockDropped DEF BuildIInv
    <3>2. CASE lock' = lock /\ worker[x].pc = "retry"
      BY <1>1, <1>3, <3>2, LockKept DEF BuildIInv, BuildTypeOK, Locked
    <3>. QED
      BY <1>1, <3>1, <3>2
  <2>2. worker' \in [Workers -> Record]
    BY <1>1 DEF BuildIInv, BuildTypeOK, Record
  <2>3. [BuildNext]_allVars
    BY DEF BuildNext, WorkerStep
  <2>. QED
    BY <1>2, <2>1, <2>2, <2>3, BuildTypes
<1>5. (\A y \in Workers \ {x} : worker'[y] = worker[y]) /\ worker'[x] = w
  BY <1>1 DEF BuildIInv, BuildTypeOK
<1>6. Progress(x)'
  BY <1>1, <1>2, <1>5 DEF Progress, Pub, vars, Idle, BuildIInv
<1>. QED
  BY <1>2, <1>4, <1>5, <1>6, SilentKeeps DEF BuildIInv

\* The lock is taken, a row updated.
LEMMA GoKeeps ==
  ASSUME BuildIInv, NEW x \in Workers, TakeLock(x) \/ UpdateRow(x)
  PROVE  BuildIInv'
<1>. DEFINE p == Pub(x)
<1>1. PICK pc \in InTry :
        /\ Go(x, pc) /\ worker[x].pc # "idle"
        /\ \/ /\ worker[x].pc = "lock" /\ pc = "pin" /\ lock[p] = None
              /\ lock' = [lock EXCEPT ![p] = x]
           \/ /\ state[p] \in Unfinished /\ lock' = lock
              /\ <<worker[x].pc, pc>> \in {<<"confirm", "lock">>, <<"pin", "prepare">>,
                                           <<"register", "dbt">>, <<"merge", "seal">>}
  <2>1. CASE TakeLock(x)
    BY <2>1 DEF TakeLock, At, InTry, LockFree
  <2>2. CASE UpdateRow(x)
    <3>1. worker[x].pc \in {"confirm", "pin", "register", "merge"}
      BY <2>2 DEF UpdateRow, Following
    <3>. QED
      BY <2>2, <3>1 DEF UpdateRow, Following, InTry
  <2>. QED
    BY <2>1, <2>2
<1>2. UNCHANGED <<vars, source, pinned, captured, tables, sealedAs, breaks>>
  BY DEF TakeLock, UpdateRow
<1>. DEFINE w == [worker[x] EXCEPT !.pc = pc]
<1>3. /\ worker' = [worker EXCEPT ![x] = w] /\ worker' \in [Workers -> Record]
      /\ w.pc = pc /\ w.pub = p /\ w.receipt = worker[x].receipt
  <2>1. BuildTypeOK /\ pc \in {"idle", "retry", "failing"} \cup InTry
    BY DEF BuildIInv
  <2>2. worker[x] \in Record
    BY <2>1, WorkerType
  <2>3. w.pc = pc /\ w.pub = p /\ w.receipt = worker[x].receipt
    BY <2>2 DEF Record, Pub
  <2>. QED
    BY <1>1, <2>1, <2>3, GoType
<1>4. p \in Pubs
  BY <1>1 DEF BuildIInv, Progress
<1>5. (\A y \in Workers \ {x} : worker'[y] = worker[y]) /\ worker'[x] = w
  BY <1>3 DEF BuildIInv, BuildTypeOK
<1>6. BuildTypeOK'
  <2>1. \A q \in Pubs, y \in Workers :
          lock'[q] = y <=> worker'[y].pub = q /\ worker'[y].pc \in Locked
    <3>1. CASE lock' = lock
      BY <1>1, <1>3, <3>1, LockKept, BuildNoneAssumption DEF BuildIInv, Locked, Pub, BuildTypeOK
    <3>2. CASE worker[x].pc = "lock" /\ pc = "pin" /\ lock[p] = None
               /\ lock' = [lock EXCEPT ![p] = x]
      <4>. TAKE q \in Pubs, y \in Workers
      <4>1. lock[q] = y <=> worker[y].pub = q /\ worker[y].pc \in Locked
        BY DEF BuildIInv, BuildTypeOK
      <4>2. lock'[q] = IF q = p THEN x ELSE lock[q]
        BY <1>4, <3>2 DEF BuildIInv, BuildTypeOK
      <4>3. worker[x].pc \notin Locked /\ w.pc \in Locked
        BY <1>3, <3>2 DEF Locked
      <4>4. None # y
        BY BuildNoneAssumption
      <4>. QED
        BY <1>3, <1>5, <3>2, <4>1, <4>2, <4>3, <4>4
    <3>. QED
      BY <1>1, <3>1, <3>2
  <2>2. lock' \in [Pubs -> Workers \cup {None}]
    BY <1>1, <1>4 DEF BuildIInv, BuildTypeOK
  <2>3. [BuildNext]_allVars
    BY DEF BuildNext, WorkerStep
  <2>. QED
    BY <1>2, <1>3, <2>1, <2>2, <2>3, BuildTypes DEF BuildIInv, BuildTypeOK
<1>7. Progress(x)'
  <2>1. Progress(x)
    BY DEF BuildIInv
  <2>. QED
    BY <1>1, <1>2, <1>3, <1>4, <1>5, <2>1 DEF Progress, Pub, vars
<1>. QED
  BY <1>2, <1>5, <1>6, <1>7, SilentKeeps DEF BuildIInv

-----------------------------------------------------------------------------
(* Steps that change the candidate *)

\* The types of a step, given the ones of all it writes.
LEMMA TypesOfStep ==
  ASSUME BuildIInv, [BuildNext]_allVars,
         worker' \in [Workers -> Record], lock' \in [Pubs -> Workers \cup {None}],
         \A p \in Pubs, y \in Workers :
           lock'[p] = y <=> worker'[y].pub = p /\ worker'[y].pc \in Locked,
         source' \in Sources,
         pinned' \in [Pubs -> Sources \cup {None}],
         captured' \in [Pubs -> Sources \cup {None}],
         tables' \in [Pubs -> Tables], sealedAs' \in [Pubs -> Tables],
         UNCHANGED breaks
  PROVE  BuildTypeOK'
<1>1. TypeOK'
  BY StepIsRegistry, TypeKept DEF BuildIInv, BuildTypeOK
<1>. QED
  BY <1>1 DEF BuildIInv, BuildTypeOK, Record

\* A step of x on its candidate leaves every other process what it relies on.
LEMMA OthersKeep ==
  ASSUME BuildIInv, NEW x \in Workers, NEW p \in Pubs,
         \A y \in Workers \ {x} : worker'[y] = worker[y],
         pinned' = pinned,
         \A q \in Pubs \ {p} : /\ state'[q] = state[q] /\ spaces'[q] = spaces[q]
                               /\ captured'[q] = captured[q] /\ tables'[q] = tables[q],
         state'[p] # "absent",
         \/ lock[p] \in {None, x}
         \/ /\ state[p] \in Unfinished => state'[p] \in Unfinished
            /\ UNCHANGED <<spaces, captured, tables>>
  PROVE  \A y \in Workers \ {x} : Progress(y)'
<1>. TAKE y \in Workers \ {x}
<1>1. Progress(y) /\ worker'[y] = worker[y]
  BY DEF BuildIInv
<1>2. ASSUME worker[y].pc # "idle" PROVE Leaves(y)
  <2>. DEFINE q == Pub(y)
  <2>1. q \in Pubs /\ state[q] # "absent"
    BY <1>1, <1>2 DEF Progress
  <2>2. CASE q # p
    BY <1>1, <2>1, <2>2 DEF Leaves
  <2>3. CASE q = p /\ worker[y].pc \notin Locked
    BY <1>1, <2>1, <2>3 DEF Leaves
  <2>4. CASE q = p /\ worker[y].pc \in Locked
    <3>1. lock[p] \notin {None, x}
      BY <2>4, Exclusive DEF Pub
    <3>. QED
      BY <1>1, <2>1, <2>4, <3>1 DEF Leaves
  <2>. QED
    BY <2>2, <2>3, <2>4
<1>. QED
  BY <1>1, <1>2, ProgressStays

\* Reserving a candidate: nobody has worked on it.
LEMMA BuildNewKeeps ==
  ASSUME BuildIInv, NEW x \in Workers, NEW p \in Pubs, NEW s \in Sources, BuildNew(x, p, s)
  PROVE  BuildIInv'
<1>. DEFINE w == [pc |-> "capture", pub |-> p, fresh |-> TRUE, receipt |-> NoTables]
<1>1. /\ worker' = [worker EXCEPT ![x] = w] /\ worker' \in [Workers -> Record]
      /\ worker[x].pc = "idle"
  BY BeginType DEF BuildNew, BuildIInv, At
<1>2. (\A y \in Workers \ {x} : worker'[y] = worker[y]) /\ worker'[x] = w
  BY <1>1 DEF BuildIInv, BuildTypeOK
<1>3. /\ state[p] = "absent" /\ state' = [state EXCEPT ![p] = "building"]
      /\ pinned' = [pinned EXCEPT ![p] = s]
      /\ UNCHANGED <<spaces, lock, source, captured, tables, sealedAs, breaks>>
  BY DEF BuildNew, Reserve
<1>4. /\ state'[p] = "building" /\ \A q \in Pubs \ {p} : state'[q] = state[q] /\ pinned'[q] = pinned[q]
      /\ pinned' \in [Pubs -> Sources \cup {None}]
  BY <1>3 DEF BuildIInv, BuildTypeOK, TypeOK
<1>5. BuildTypeOK'
  <2>1. \A q \in Pubs, y \in Workers :
          lock'[q] = y <=> worker'[y].pub = q /\ worker'[y].pc \in Locked
    BY <1>1, <1>3, LockKept DEF BuildIInv, Locked
  <2>2. [BuildNext]_allVars
    BY DEF BuildNext
  <2>. QED
    BY <1>1, <1>3, <1>4, <2>1, <2>2, TypesOfStep DEF BuildIInv, BuildTypeOK
<1>6. CapturedAsPinned'
  BY <1>3, <1>4 DEF BuildIInv, CapturedAsPinned
<1>7. ASSUME NEW y \in Workers PROVE Progress(y)'
  <2>1. CASE y = x
    BY <1>2, <1>4, <2>1 DEF Progress, Pub
  <2>2. CASE y # x
    <3>1. worker'[y] = worker[y] /\ Progress(y)
      BY <1>2, <2>2 DEF BuildIInv
    <3>2. worker[y].pc # "idle" => Leaves(y)
      BY <1>3, <1>4, <3>1 DEF Progress, Leaves
    <3>. QED
      BY <3>1, <3>2, ProgressStays
  <2>. QED
    BY <2>1, <2>2
<1>8. SealedIsValidated'
  BY <1>3, <1>4 DEF BuildIInv, SealedIsValidated
<1>. QED
  BY <1>5, <1>6, <1>7, <1>8 DEF BuildIInv

\* A process goes to another step, and the registry or the workspace of its
\* candidate with it: what is left to show of the actions below.
LEMMA WorkKeeps ==
  ASSUME BuildIInv, NEW x \in Workers, NEW w \in Record, NEW p \in Pubs,
         [BuildNext]_allVars,
         worker' = [worker EXCEPT ![x] = w], p = Pub(x), w.pc \in Locked => w.pub = p,
         \/ lock' = lock /\ (w.pc \in Locked <=> worker[x].pc \in Locked)
         \/ lock' = Unlocked(x) /\ w.pc \notin Locked,
         UNCHANGED <<source, pinned, breaks>>,
         \A q \in Pubs \ {p} :
           /\ state'[q] = state[q] /\ spaces'[q] = spaces[q]
           /\ captured'[q] = captured[q] /\ tables'[q] = tables[q] /\ sealedAs'[q] = sealedAs[q],
         captured' \in [Pubs -> Sources \cup {None}],
         tables' \in [Pubs -> Tables], sealedAs' \in [Pubs -> Tables],
         state'[p] # "absent",
         \/ lock[p] \in {None, x}
         \/ /\ state[p] \in Unfinished => state'[p] \in Unfinished
            /\ UNCHANGED <<spaces, captured, tables>>,
         captured'[p] # None => captured'[p] = pinned[p],
         state'[p] \in {"sealed", "retained"} =>
           /\ sealedAs'[p].done /\ sealedAs'[p].from = pinned[p] /\ tables'[p] = sealedAs'[p],
         worker'[x] = w => Progress(x)'
  PROVE  BuildIInv'
<1>1. (\A y \in Workers \ {x} : worker'[y] = worker[y]) /\ worker'[x] = w
      /\ worker' \in [Workers -> Record]
  BY DEF BuildIInv, BuildTypeOK, Record
<1>2. BuildTypeOK'
  <2>1. /\ \A q \in Pubs, y \in Workers :
             lock'[q] = y <=> worker'[y].pub = q /\ worker'[y].pc \in Locked
        /\ lock' \in [Pubs -> Workers \cup {None}]
    <3>1. CASE lock' = lock /\ (w.pc \in Locked <=> worker[x].pc \in Locked)
      BY <3>1, LockKept DEF BuildIInv, BuildTypeOK, Pub
    <3>2. CASE lock' = Unlocked(x) /\ w.pc \notin Locked
      BY <3>2, LockDropped DEF BuildIInv
    <3>. QED
      BY <3>1, <3>2
  <2>. QED
    BY <1>1, <2>1, TypesOfStep DEF BuildIInv, BuildTypeOK
<1>3. CapturedAsPinned'
  BY DEF BuildIInv, CapturedAsPinned
<1>4. SealedIsValidated'
  BY DEF BuildIInv, SealedIsValidated
<1>5. \A y \in Workers \ {x} : Progress(y)'
  BY <1>1, OthersKeep
<1>. QED
  BY <1>1, <1>2, <1>3, <1>4, <1>5 DEF BuildIInv

\* What a process at work knows of itself.
LEMMA AtWork ==
  ASSUME BuildIInv, NEW x \in Workers, worker[x].pc # "idle"
  PROVE  /\ Pub(x) \in Pubs /\ state[Pub(x)] # "absent" /\ Progress(x)
         /\ worker[x] \in Record
         /\ worker[x].pc \in Locked <=> lock[Pub(x)] = x
         /\ captured[Pub(x)] # None => captured[Pub(x)] = pinned[Pub(x)]
         /\ captured \in [Pubs -> Sources \cup {None}]
         /\ tables \in [Pubs -> Tables] /\ sealedAs \in [Pubs -> Tables]
<1>1. Pub(x) \in Pubs /\ state[Pub(x)] # "absent" /\ Progress(x)
  BY DEF BuildIInv, Progress
<1>2. worker[x] \in Record
  BY WorkerType DEF BuildIInv
<1>3. worker[x].pc \in Locked <=> lock[Pub(x)] = x
  BY <1>1 DEF BuildIInv, BuildTypeOK, Pub
<1>4. captured[Pub(x)] # None => captured[Pub(x)] = pinned[Pub(x)]
  BY <1>1 DEF BuildIInv, CapturedAsPinned
<1>5. /\ captured \in [Pubs -> Sources \cup {None}]
      /\ tables \in [Pubs -> Tables] /\ sealedAs \in [Pubs -> Tables]
  BY DEF BuildIInv, BuildTypeOK
<1>. QED
  BY <1>1, <1>2, <1>3, <1>4, <1>5

\* The record of a process that goes on.
LEMMA Moved ==
  ASSUME BuildIInv, NEW x \in Workers, NEW pc \in {"idle", "retry", "failing"} \cup InTry
  PROVE  LET w == [worker[x] EXCEPT !.pc = pc]
         IN w \in Record /\ w.pc = pc /\ w.pub = Pub(x) /\ w.receipt = worker[x].receipt
<1>1. worker[x] \in Record
  BY WorkerType DEF BuildIInv
<1>. QED
  BY <1>1 DEF Record, Pub

\* A retry makes the candidate be built again.
LEMMA ReviveKeeps ==
  ASSUME BuildIInv, NEW x \in Workers, Revive(x)
  PROVE  BuildIInv'
<1>. DEFINE p == Pub(x)
            w == [worker[x] EXCEPT !.pc = AfterRetry(x)]
<1>1. worker[x].pc = "retry" /\ AfterRetry(x) \in {"capture", "lock"}
  BY DEF Revive, At, AfterRetry
<1>2. /\ p \in Pubs /\ w \in Record /\ w.pc = AfterRetry(x) /\ w.pub = p
      /\ captured[p] # None => captured[p] = pinned[p]
  <2>1. AfterRetry(x) \in {"idle", "retry", "failing"} \cup InTry
    BY <1>1 DEF InTry
  <2>2. w \in Record /\ w.pc = AfterRetry(x) /\ w.pub = p
    BY <2>1, Moved
  <2>. QED
    BY <1>1, <2>2, AtWork
<1>3. /\ worker' = [worker EXCEPT ![x] = w]
      /\ state[p] \in Unfinished /\ state' = [state EXCEPT ![p] = "building"]
      /\ UNCHANGED <<spaces, lock, source, pinned, captured, tables, sealedAs, breaks>>
  BY DEF Revive, Retry, Go
<1>4. /\ state'[p] = "building" /\ \A q \in Pubs \ {p} : state'[q] = state[q]
  BY <1>2, <1>3 DEF BuildIInv, BuildTypeOK, TypeOK
<1>5. worker'[x] = w => Progress(x)'
  BY <1>1, <1>2, <1>4 DEF Progress, Pub
<1>6. [BuildNext]_allVars
  BY DEF BuildNext, WorkerStep
<1>7. w.pc \notin Locked /\ worker[x].pc \notin Locked /\ worker[x].pc # "idle"
  BY <1>1, <1>2 DEF Locked
<1>. HIDE DEF w
<1>. QED
  BY <1>2, <1>3, <1>4, <1>5, <1>6, <1>7, AtWork, WorkKeeps DEF Unfinished

\* The inputs are the ones the candidate was reserved for.
LEMMA CaptureKeeps ==
  ASSUME BuildIInv, NEW x \in Workers, Capture(x)
  PROVE  BuildIInv'
<1>. DEFINE p == Pub(x)
            w == [worker[x] EXCEPT !.pc = "confirm"]
<1>1. worker[x].pc = "capture"
  BY DEF Capture, At
<1>2. p \in Pubs /\ w \in Record /\ w.pc = "confirm" /\ w.pub = p
  <2>1. w \in Record /\ w.pc = "confirm" /\ w.pub = p
    BY Moved DEF InTry
  <2>. QED
    BY <1>1, <2>1, AtWork
<1>3. /\ worker' = [worker EXCEPT ![x] = w]
      /\ state[p] = "building" /\ lock[p] = None /\ source = pinned[p] /\ state' = state
      /\ spaces' = [spaces EXCEPT ![p] = {"workspace"}]
      /\ captured' = [captured EXCEPT ![p] = source]
      /\ UNCHANGED <<lock, source, pinned, tables, sealedAs, breaks>>
  BY DEF Capture, CanCapture, SourceMatches, LockFree, Build, Go
<1>4. /\ captured'[p] = pinned[p] /\ captured' \in [Pubs -> Sources \cup {None}]
      /\ \A q \in Pubs \ {p} : captured'[q] = captured[q] /\ spaces'[q] = spaces[q]
  BY <1>2, <1>3 DEF BuildIInv, BuildTypeOK, TypeOK
<1>5. worker'[x] = w => Progress(x)'
  BY <1>2, <1>3 DEF Progress, Pub
<1>6. [BuildNext]_allVars
  BY DEF BuildNext, WorkerStep
<1>7. w.pc \notin Locked /\ worker[x].pc \notin Locked /\ worker[x].pc # "idle"
  BY <1>1, <1>2 DEF Locked
<1>. HIDE DEF w
<1>. QED
  BY <1>2, <1>3, <1>4, <1>5, <1>6, <1>7, AtWork, WorkKeeps

\* The schemas are prepared under the lock.
LEMMA PrepareKeeps ==
  ASSUME BuildIInv, NEW x \in Workers, PrepareSchemas(x)
  PROVE  BuildIInv'
<1>. DEFINE p == Pub(x)
            w == [worker[x] EXCEPT !.pc = "register"]
<1>1. worker[x].pc = "prepare"
  BY DEF PrepareSchemas, At
<1>2. /\ p \in Pubs /\ w \in Record /\ w.pc = "register" /\ w.pub = p /\ lock[p] = x
      /\ captured[p] # None => captured[p] = pinned[p]
  <2>1. w \in Record /\ w.pc = "register" /\ w.pub = p
    BY Moved DEF InTry
  <2>2. worker[x].pc \in Locked
    BY <1>1 DEF Locked
  <2>. QED
    BY <1>1, <2>1, <2>2, AtWork
<1>3. /\ worker' = [worker EXCEPT ![x] = w] /\ captured[p] # None
      /\ state[p] = "building" /\ state' = state
      /\ spaces' = [spaces EXCEPT ![p] = {"workspace"}]
      /\ UNCHANGED <<lock, source, pinned, captured, tables, sealedAs, breaks>>
  BY DEF PrepareSchemas, Build, Go
<1>4. /\ spaces'[p] = {"workspace"} /\ \A q \in Pubs \ {p} : spaces'[q] = spaces[q]
  BY <1>2, <1>3 DEF BuildIInv, BuildTypeOK, TypeOK
<1>5. worker'[x] = w => Progress(x)'
  BY <1>2, <1>3, <1>4 DEF Progress, Pub, Unfinished
<1>6. [BuildNext]_allVars
  BY DEF BuildNext, WorkerStep
<1>7. w.pc \in Locked /\ worker[x].pc \in Locked /\ worker[x].pc # "idle"
  BY <1>1, <1>2 DEF Locked
<1>. HIDE DEF w
<1>. QED
  BY <1>2, <1>3, <1>4, <1>5, <1>6, <1>7, AtWork, WorkKeeps

\* dbt replaces the tables, from what is captured.
LEMMA DbtKeeps ==
  ASSUME BuildIInv, NEW x \in Workers, DbtBegin(x) \/ DbtEnd(x)
  PROVE  BuildIInv'
<1>. DEFINE p == Pub(x)
<1>1. worker[x].pc \in {"dbt", "testing"}
  BY DEF DbtBegin, DbtEnd, At
<1>2. /\ p \in Pubs /\ lock[p] = x /\ Progress(x)
      /\ captured[p] # None => captured[p] = pinned[p]
      /\ state[p] \in Unfinished /\ state[p] # "absent" /\ captured[p] \in Sources
      /\ tables[p] \in Tables
  <2>1. p \in Pubs /\ lock[p] = x /\ Progress(x) /\ (captured[p] # None => captured[p] = pinned[p])
    BY <1>1, AtWork DEF Locked
  <2>. QED
    BY <1>1, <2>1 DEF Progress, BuildIInv, BuildTypeOK, Unfinished
<1>3. PICK t \in Tables, pc \in {"testing", "measure"} :
        /\ tables' = [tables EXCEPT ![p] = t] /\ t.from = captured[p]
        /\ pc = "measure" => t.done
        /\ worker' = [worker EXCEPT ![x] = [worker[x] EXCEPT !.pc = pc]]
  <2>1. CASE DbtBegin(x)
    <3>1. [by |-> x, from |-> captured[p], done |-> FALSE] \in Tables
      BY <1>2 DEF Tables
    <3>. QED
      BY <2>1, <3>1 DEF DbtBegin, Go
  <2>2. CASE DbtEnd(x)
    <3>1. tables[p].from = captured[p]
      BY <1>2, <2>2 DEF Progress, DbtEnd, At
    <3>2. [tables[p] EXCEPT !.done = TRUE] \in Tables
          /\ [tables[p] EXCEPT !.done = TRUE].from = captured[p]
          /\ [tables[p] EXCEPT !.done = TRUE].done
      BY <1>2, <3>1 DEF Tables
    <3>. QED
      BY <2>2, <3>2 DEF DbtEnd, Go
  <2>. QED
    BY <2>1, <2>2
<1>. DEFINE w == [worker[x] EXCEPT !.pc = pc]
<1>4. w \in Record /\ w.pc = pc /\ w.pub = p
  BY Moved DEF InTry
<1>5. UNCHANGED <<state, spaces, lock, source, pinned, captured, sealedAs, breaks>>
  BY DEF DbtBegin, DbtEnd, vars
<1>6. /\ tables'[p] = t /\ tables' \in [Pubs -> Tables]
      /\ \A q \in Pubs \ {p} : tables'[q] = tables[q]
  BY <1>2, <1>3 DEF BuildIInv, BuildTypeOK
<1>7. worker'[x] = w => Progress(x)'
  <2>1. spaces[p] = {"workspace"} /\ captured[p] # None
    BY <1>1, <1>2 DEF Progress
  <2>. QED
    BY <1>2, <1>3, <1>4, <1>5, <1>6, <2>1 DEF Progress, Pub
<1>8. [BuildNext]_allVars
  BY DEF BuildNext, WorkerStep
<1>9. /\ w.pc \in Locked /\ worker[x].pc \in Locked /\ worker[x].pc # "idle"
      /\ state'[p] \notin {"sealed", "retained"}
  BY <1>1, <1>2, <1>4, <1>5 DEF Locked, Unfinished
<1>10. worker' = [worker EXCEPT ![x] = w]
  BY <1>3
<1>11. /\ captured' \in [Pubs -> Sources \cup {None}] /\ sealedAs' \in [Pubs -> Tables]
       /\ lock' = lock /\ (w.pc \in Locked <=> worker[x].pc \in Locked)
       /\ lock[p] \in {None, x}
       /\ captured'[p] # None => captured'[p] = pinned[p]
       /\ state'[p] # "absent"
  BY <1>2, <1>5, <1>9 DEF BuildIInv, BuildTypeOK
<1>12. \A q \in Pubs \ {p} :
         /\ state'[q] = state[q] /\ spaces'[q] = spaces[q]
         /\ captured'[q] = captured[q] /\ tables'[q] = tables[q] /\ sealedAs'[q] = sealedAs[q]
  BY <1>5, <1>6
<1>13. state'[p] \in {"sealed", "retained"} =>
         /\ sealedAs'[p].done /\ sealedAs'[p].from = pinned[p] /\ tables'[p] = sealedAs'[p]
  BY <1>9
<1>14. UNCHANGED <<source, pinned, breaks>>
  BY <1>5
<1>15. p = Pub(x) /\ p \in Pubs /\ w \in Record /\ w.pub = p
  BY <1>2, <1>4
<1>. HIDE DEF w, p
<1>. QED
  BY <1>6, <1>7, <1>8, <1>10, <1>11, <1>12, <1>13, <1>14, <1>15, WorkKeeps

\* The receipt is what the tables are.
LEMMA MeasureKeeps ==
  ASSUME BuildIInv, NEW x \in Workers, Measure(x)
  PROVE  BuildIInv'
<1>. DEFINE p == Pub(x)
            w == [worker[x] EXCEPT !.receipt = tables[p], !.pc = "merge"]
<1>1. worker[x].pc = "measure"
  BY DEF Measure, At
<1>2. /\ p \in Pubs /\ Progress(x) /\ worker[x] \in Record /\ lock[p] = x
      /\ captured[p] # None => captured[p] = pinned[p]
      /\ state[p] # "absent"
  BY <1>1, AtWork DEF Locked
<1>3. tables[p].done /\ tables[p].from = pinned[p] /\ tables[p] \in Tables
      /\ state[p] \in Unfinished
  BY <1>1, <1>2 DEF Progress, BuildIInv, BuildTypeOK
<1>4. w \in Record /\ w.pc = "merge" /\ w.pub = p /\ w.receipt = tables[p]
  BY <1>2, <1>3 DEF Record, Pub, InTry
<1>5. /\ worker' = [worker EXCEPT ![x] = w] /\ lock' = Unlocked(x)
      /\ UNCHANGED <<state, spaces, source, pinned, captured, tables, sealedAs, breaks>>
  BY DEF Measure, vars
<1>6. worker'[x] = w => Progress(x)'
  BY <1>2, <1>3, <1>4, <1>5 DEF Progress, Pub
<1>7. [BuildNext]_allVars
  BY DEF BuildNext, WorkerStep
<1>8. w.pc \notin Locked /\ worker[x].pc # "idle" /\ state[p] \notin {"sealed", "retained"}
  BY <1>1, <1>3, <1>4 DEF Locked, Unfinished
<1>. HIDE DEF w
<1>. QED
  BY <1>2, <1>3, <1>4, <1>5, <1>6, <1>7, <1>8, AtWork, WorkKeeps

\* Only what the receipt describes is sealed.
LEMMA SealKeeps ==
  ASSUME BuildIInv, NEW x \in Workers, SealBuilt(x)
  PROVE  BuildIInv'
<1>. DEFINE p == Pub(x)
            r == worker[x].receipt
<1>1. worker[x].pc = "seal"
  BY DEF SealBuilt, At
<1>2. /\ p \in Pubs /\ r.done /\ r.from = pinned[p] /\ r \in Tables
      /\ captured[p] # None => captured[p] = pinned[p]
  BY <1>1, AtWork DEF Progress, Record
<1>3. /\ lock[p] = None /\ tables[p] = r
      /\ state' = [state EXCEPT ![p] = "sealed"] /\ spaces' = [spaces EXCEPT ![p] = Sealed]
      /\ sealedAs' = [sealedAs EXCEPT ![p] = r]
      /\ worker' = [worker EXCEPT ![x] = Idle]
      /\ UNCHANGED <<lock, source, pinned, captured, tables, breaks>>
  BY DEF SealBuilt, CanSeal, LockFree, Seal
<1>4. /\ state'[p] = "sealed" /\ sealedAs'[p] = r /\ sealedAs' \in [Pubs -> Tables]
      /\ \A q \in Pubs \ {p} : state'[q] = state[q] /\ spaces'[q] = spaces[q]
                               /\ sealedAs'[q] = sealedAs[q]
  BY <1>2, <1>3 DEF BuildIInv, BuildTypeOK, TypeOK
<1>5. worker'[x] = Idle => Progress(x)'
  BY DEF Progress, Idle
<1>6. [BuildNext]_allVars
  BY DEF BuildNext, WorkerStep
<1>7. Idle \in Record /\ Idle.pc \notin Locked /\ worker[x].pc \notin Locked /\ worker[x].pc # "idle"
  BY <1>1, IdleType DEF Idle, Locked
<1>8. state'[p] \in {"sealed", "retained"} =>
        /\ sealedAs'[p].done /\ sealedAs'[p].from = pinned[p] /\ tables'[p] = sealedAs'[p]
  BY <1>2, <1>3, <1>4
<1>9. /\ captured' \in [Pubs -> Sources \cup {None}] /\ tables' \in [Pubs -> Tables]
      /\ lock' = lock /\ lock[p] \in {None, x}
      /\ captured'[p] # None => captured'[p] = pinned[p]
      /\ state'[p] # "absent"
  BY <1>2, <1>3, <1>4 DEF BuildIInv, BuildTypeOK
<1>10. \A q \in Pubs \ {p} :
         /\ state'[q] = state[q] /\ spaces'[q] = spaces[q]
         /\ captured'[q] = captured[q] /\ tables'[q] = tables[q] /\ sealedAs'[q] = sealedAs[q]
  BY <1>3, <1>4
<1>11. p = Pub(x) /\ p \in Pubs /\ worker' = [worker EXCEPT ![x] = Idle]
       /\ UNCHANGED <<source, pinned, breaks>>
  BY <1>2, <1>3
<1>. HIDE DEF r, p
<1>. QED
  BY <1>4, <1>5, <1>6, <1>7, <1>8, <1>9, <1>10, <1>11, WorkKeeps

\* A failure is recorded of an unfinished candidate only.
LEMMA ReportKeeps ==
  ASSUME BuildIInv, NEW x \in Workers, Report(x)
  PROVE  BuildIInv'
<1>. DEFINE p == Pub(x)
<1>1. worker[x].pc = "failing"
  BY DEF Report, At
<1>2. p \in Pubs /\ (captured[p] # None => captured[p] = pinned[p]) /\ state[p] # "absent"
  BY <1>1, AtWork
<1>3. /\ worker' = [worker EXCEPT ![x] = Idle]
      /\ UNCHANGED <<spaces, lock, source, pinned, captured, tables, sealedAs, breaks>>
      /\ \/ state[p] \in Unfinished /\ state' = [state EXCEPT ![p] = "failed"]
         \/ state[p] \notin Unfinished /\ state' = state
  BY DEF Report, MarkFailed, vars
<1>4. /\ \A q \in Pubs \ {p} : state'[q] = state[q]
      /\ \/ state[p] \in Unfinished /\ state'[p] = "failed"
         \/ state[p] \notin Unfinished /\ state'[p] = state[p]
  BY <1>2, <1>3 DEF BuildIInv, BuildTypeOK, TypeOK
<1>5. state'[p] \in {"sealed", "retained"} =>
        sealedAs[p].done /\ sealedAs[p].from = pinned[p] /\ tables[p] = sealedAs[p]
  BY <1>2, <1>4 DEF BuildIInv, SealedIsValidated
<1>6. worker'[x] = Idle => Progress(x)'
  BY DEF Progress, Idle
<1>7. [BuildNext]_allVars
  BY DEF BuildNext, WorkerStep
<1>8. Idle \in Record /\ Idle.pc \notin Locked /\ worker[x].pc \notin Locked /\ worker[x].pc # "idle"
  BY <1>1, IdleType DEF Idle, Locked
<1>. QED
  BY <1>2, <1>3, <1>4, <1>5, <1>6, <1>7, <1>8, AtWork, WorkKeeps DEF Unfinished

\* Discarding needs the lock of the candidate, and drops its tables.
LEMMA DiscardKeeps ==
  ASSUME BuildIInv, NEW p \in Pubs, DiscardCandidate(p)
  PROVE  BuildIInv'
<1>1. /\ lock[p] = None /\ state[p] \in CandidateStates
      /\ state' = [state EXCEPT ![p] = "discarded"] /\ spaces' = [spaces EXCEPT ![p] = {}]
      /\ tables' = [tables EXCEPT ![p] = NoTables]
      /\ UNCHANGED <<lock, source, pinned, captured, sealedAs, worker, breaks>>
  BY DEF DiscardCandidate, LockFree, Discard
<1>2. /\ state'[p] = "discarded" /\ state[p] # "absent"
      /\ \A q \in Pubs \ {p} : state'[q] = state[q] /\ spaces'[q] = spaces[q]
                               /\ tables'[q] = tables[q]
      /\ tables' \in [Pubs -> Tables]
  <2>1. NoTables \in Tables
    BY DEF NoTables, Tables
  <2>. QED
    BY <1>1, <2>1 DEF BuildIInv, BuildTypeOK, TypeOK, CandidateStates, Unfinished
<1>3. BuildTypeOK'
  <2>1. [BuildNext]_allVars
    BY DEF BuildNext
  <2>. QED
    BY <1>1, <1>2, <2>1, TypesOfStep DEF BuildIInv, BuildTypeOK, Record
<1>4. CapturedAsPinned' /\ SealedIsValidated'
  BY <1>1, <1>2 DEF BuildIInv, CapturedAsPinned, SealedIsValidated
<1>5. ASSUME NEW y \in Workers PROVE Progress(y)'
  <2>1. Progress(y) /\ worker'[y] = worker[y]
    BY <1>1 DEF BuildIInv
  <2>2. ASSUME worker[y].pc # "idle" PROVE Leaves(y)
    <3>1. Pub(y) \in Pubs /\ state[Pub(y)] # "absent"
      BY <2>1, <2>2 DEF Progress
    <3>2. CASE Pub(y) # p
      BY <1>1, <1>2, <2>1, <3>1, <3>2 DEF Leaves
    <3>3. CASE Pub(y) = p
      <4>1. worker[y].pc \notin Locked
        BY <1>1, <3>3, Exclusive, BuildNoneAssumption DEF Pub, BuildIInv, BuildTypeOK
      <4>. QED
        BY <1>1, <1>2, <2>1, <3>3, <4>1 DEF Leaves
    <3>. QED
      BY <3>2, <3>3
  <2>. QED
    BY <2>1, <2>2, ProgressStays
<1>. QED
  BY <1>3, <1>4, <1>5 DEF BuildIInv

\* The warehouse moves on; nothing captured follows it.
LEMMA WarehouseMovesKeeps ==
  ASSUME BuildIInv, NEW s \in Sources, WarehouseMoves(s)
  PROVE  BuildIInv'
<1>1. source' = s /\ UNCHANGED <<vars, lock, pinned, captured, tables, sealedAs, worker, breaks>>
  BY DEF WarehouseMoves
<1>2. BuildTypeOK'
  <2>1. [BuildNext]_allVars
    BY DEF BuildNext
  <2>. QED
    BY <1>1, <2>1, TypesOfStep DEF BuildIInv, BuildTypeOK, Record
<1>. QED
  BY <1>1, <1>2, SilentKeeps DEF BuildIInv

\* Activation, cleanup and time leave the unfinished candidates alone and make
\* nothing servable that was not.
LEMMA RegistryMovesStep ==
  ASSUME TypeOK, RegistryMoves, NEW p \in Pubs
  PROVE  /\ state[p] \in Unfinished => state'[p] = state[p] /\ spaces'[p] = spaces[p]
         /\ state[p] # "absent" => state'[p] # "absent"
         /\ state'[p] \in {"sealed", "retained"} => state[p] \in {"sealed", "retained"}
<1>1. CASE \E o \in Operators : Inspect(o)
  BY <1>1 DEF Inspect, catalogVars
<1>2. ASSUME NEW q \in Pubs, NEW kind \in {"activation", "restoration"},
             NEW e \in Expectations(q), Activate(q, e, kind)
      PROVE  /\ state[p] \in Unfinished => state'[p] = state[p] /\ spaces'[p] = spaces[p]
             /\ state[p] # "absent" => state'[p] # "absent"
             /\ state'[p] \in {"sealed", "retained"} => state[p] \in {"sealed", "retained"}
  BY <1>2 DEF Activate, TypeOK, Unfinished
<1>3. ASSUME NEW chosen \in SUBSET Pubs, Cleanup(chosen)
      PROVE  /\ state[p] \in Unfinished => state'[p] = state[p] /\ spaces'[p] = spaces[p]
             /\ state[p] # "absent" => state'[p] # "absent"
             /\ state'[p] \in {"sealed", "retained"} => state[p] \in {"sealed", "retained"}
  BY <1>3 DEF Cleanup, Eligible, Retained, TypeOK, Unfinished
<1>4. CASE Tick
  BY <1>4 DEF Tick
<1>. QED
  BY <1>1, <1>2, <1>3, <1>4 DEF RegistryMoves

LEMMA RegistryMovesKeeps ==
  ASSUME BuildIInv, RegistryMoves
  PROVE  BuildIInv'
<1>1. UNCHANGED <<lock, source, pinned, captured, tables, sealedAs, worker, breaks>>
  BY DEF RegistryMoves, buildVars
<1>2. \A p \in Pubs :
        /\ state[p] \in Unfinished => state'[p] = state[p] /\ spaces'[p] = spaces[p]
        /\ state[p] # "absent" => state'[p] # "absent"
        /\ state'[p] \in {"sealed", "retained"} => state[p] \in {"sealed", "retained"}
  BY RegistryMovesStep DEF BuildIInv, BuildTypeOK
<1>3. BuildTypeOK'
  <2>1. [BuildNext]_allVars
    BY DEF BuildNext
  <2>. QED
    BY <1>1, <2>1, TypesOfStep DEF BuildIInv, BuildTypeOK, Record
<1>4. CapturedAsPinned' /\ SealedIsValidated'
  BY <1>1, <1>2 DEF BuildIInv, CapturedAsPinned, SealedIsValidated
<1>5. ASSUME NEW y \in Workers PROVE Progress(y)'
  BY <1>1, <1>2 DEF BuildIInv, Progress, Pub
<1>. QED
  BY <1>3, <1>4, <1>5 DEF BuildIInv

-----------------------------------------------------------------------------
(* The theorems *)

\* Every process is where its candidate lets it be, whatever the others do: the
\* strengthening that the properties of builds follow from.
THEOREM BuildInductive == BuildSpec => []BuildIInv
<1>1. BuildInit => BuildIInv
  <2>. SUFFICES ASSUME BuildInit PROVE BuildIInv
    OBVIOUS
  <2>1. TypeOK
    BY InitType DEF BuildInit
  <2>2. NoTables \in Tables /\ Idle \in Record /\ Idle.pc = "idle" /\ 0 \in 0 .. MaxBreaks
    BY IdleType, MaxBreaksAssumption DEF NoTables, Tables, Idle
  <2>3. BuildTypeOK
    BY <2>1, <2>2, BuildNoneAssumption DEF BuildInit, BuildTypeOK, Record, Locked
  <2>. QED
    BY <2>2, <2>3 DEF BuildInit, Init, BuildIInv, CapturedAsPinned, Progress, SealedIsValidated
<1>2. BuildIInv /\ [BuildNext]_allVars => BuildIInv'
  <2>. SUFFICES ASSUME BuildIInv, [BuildNext]_allVars PROVE BuildIInv'
    OBVIOUS
  <2>1. CASE UNCHANGED allVars
    BY <2>1 DEF allVars, vars, buildVars, BuildIInv, BuildTypeOK, TypeOK, CapturedAsPinned,
                Progress, Pub, SealedIsValidated
  <2>2. ASSUME NEW x \in Workers, NEW p \in Pubs,
               (\E s \in Sources : BuildNew(x, p, s)) \/ BuildAgain(x, p) \/ RetryRead(x, p)
        PROVE  BuildIInv'
    BY <2>2, BuildNewKeeps, BeginKeeps
  <2>3. ASSUME NEW x \in Workers, WorkerStep(x) \/ Break(x) \/ Crash(x)
        PROVE  BuildIInv'
    BY <2>3, ReviveKeeps, StopKeeps, CaptureKeeps, GoKeeps, PrepareKeeps, DbtKeeps,
       MeasureKeeps, SealKeeps, ReportKeeps DEF WorkerStep
  <2>. QED
    BY <2>1, <2>2, <2>3, DiscardKeeps, WarehouseMovesKeeps, RegistryMovesKeeps DEF BuildNext
<1>. QED
  BY <1>1, <1>2, PTL DEF BuildSpec

\* What is sealed is one process's complete, tested build of the Silver version
\* reserved for it.
THEOREM SealsWhatWasTested == BuildSpec => []SealedIsValidated
<1>1. BuildIInv => SealedIsValidated
  BY DEF BuildIInv
<1>. QED
  BY <1>1, BuildInductive, PTL

\* Nobody takes the workspace from under a live build.
THEOREM BuildsUndisturbed == BuildSpec => []LiveBuildUndisturbed
<1>1. BuildIInv => LiveBuildUndisturbed
  BY DEF BuildIInv, Progress, LiveBuildUndisturbed
<1>. QED
  BY <1>1, BuildInductive, PTL

\* The builders are written as users of the registry: every behaviour of theirs is one
\* of it, and what the registry promises carries over.
LEMMA BuildersUseRegistry == BuildSpec => Spec
<1>1. BuildInit => Init
  BY DEF BuildInit
<1>2. BuildIInv /\ [BuildNext]_allVars => [Next]_vars
  BY StepIsRegistry
<1>. QED
  BY <1>1, <1>2, BuildInductive, PTL DEF BuildSpec, Spec

\* So whoever builds, retries, fails or crashes, a pinned reader keeps what it
\* reads and activations are decided in order.
THEOREM BuildsKeepPromise == BuildSpec => ConsumerPromise
  BY BuildersUseRegistry, KeepsPromise, PTL
==============================================================================
