------------------------- MODULE PublicationLifecycle -------------------------
(***************************************************************************)
(* The registry of analytical publications: publication/store.py,          *)
(* publication/lifecycle.py and publication/readers.py.  Every operation   *)
(* is one PostgreSQL transaction that takes the global publication lock    *)
(* (PublicationStore.transaction and _lock, store.py:51-71), so each is    *)
(* one atomic action here; a transaction that raises leaves everything     *)
(* unchanged and is not an action.                                         *)
(*                                                                         *)
(* Time is PostgreSQL's clock.  The registry stores instants and only ever *)
(* compares them with the present one, so the model stores what is left    *)
(* until the instant: retainLeft[p] is retain_until - now and a reader's   *)
(* `left` is operation_expires_at - now, both counted down by Tick and     *)
(* stopping at 0, "the instant has come".                                  *)
(***************************************************************************)
EXTENDS Naturals, FiniteSets, Sequences

CONSTANTS
  Pubs,            \* publication identities, each used at most once
  Operators,       \* processes that inspect the registry and then activate
  Readers,         \* consumers that pin one publication for an operation
  MaxRetained,     \* MAX_RETAINED (models.py:32)
  RetentionTicks,  \* RETENTION_HOURS, in ticks
  OperationTicks,  \* OPERATION_SECONDS, in ticks
  MaxGeneration,   \* bound on activations, for model checking
  None             \* SQL NULL

ASSUME RetainedAssumption == MaxRetained \in Nat \ {0}

\* 24 hours of retention against one hour of operation (models.py:33-34).
ASSUME TicksAssumption ==
  /\ RetentionTicks \in Nat
  /\ OperationTicks \in Nat \ {0}
  /\ OperationTicks <= RetentionTicks

ASSUME GenerationAssumption == MaxGeneration \in Nat

ASSUME NoneAssumption == None \notin Pubs /\ None \notin Nat

ASSUME PubsAssumption == IsFiniteSet(Pubs)

VARIABLES
  state,        \* publications.state; "absent" is no row
  everActive,   \* publications.ever_activated
  retainLeft,   \* publications.retain_until - now, None for NULL
  spaces,       \* schemas of a publication: private workspace, data, read
  expected,     \* (expected_publication_id, expected_generation) at reserve
  active,       \* active.publication_id
  previous,     \* active.previous_id
  generation,   \* active.generation
  activations,  \* the activations table, by generation; `basis` is not a
                \* column: it records the generation the caller had decided on
  seen,         \* what each operator read in its last inspect, or None
  pin           \* each reader's descriptor, or None

catalogVars == <<state, everActive, retainLeft, spaces, expected>>
pointerVars == <<active, previous, generation, activations>>
vars == <<state, everActive, retainLeft, spaces, expected,
          active, previous, generation, activations, seen, pin>>

-----------------------------------------------------------------------------
(* Vocabulary *)

States == {"absent", "building", "failed", "sealed",
           "retained", "pruned", "discarded"}
Unfinished == {"building", "failed"}
CandidateStates == Unfinished \cup {"sealed"}
Namespaces == {"workspace", "data", "read"}
Sealed == {"data", "read"}       \* the two namespaces seal leaves behind

Expectation == [id : Pubs \cup {None}, gen : Nat]
Event == [pub : Pubs, prev : Pubs \cup {None},
          kind : {"activation", "restoration"}, basis : Nat]
Descriptor == [pub : Pubs, left : 0 .. OperationTicks, step : {"idle", "reading"}]

\* NULL is not a descriptor.
ASSUME NullAssumption == None \notin Descriptor

Candidates == {p \in Pubs : state[p] \in CandidateStates}
Retained == {p \in Pubs : state[p] = "retained"}
Protected == {active, previous} \ {None}

\* Types of the columns, of the journal and of what operators and readers hold.
TypeOK ==
  /\ state \in [Pubs -> States]
  /\ everActive \in [Pubs -> BOOLEAN]
  /\ retainLeft \in [Pubs -> (0 .. RetentionTicks) \cup {None}]
  /\ spaces \in [Pubs -> SUBSET Namespaces]
  /\ expected \in [Pubs -> Expectation \cup {None}]
  /\ active \in Pubs \cup {None}
  /\ previous \in Pubs \cup {None}
  /\ generation \in Nat
  /\ activations \in Seq(Event)
  /\ seen \in [Operators -> Expectation \cup {None}]
  /\ pin \in [Readers -> Descriptor \cup {None}]

Init ==
  /\ state = [p \in Pubs |-> "absent"]
  /\ everActive = [p \in Pubs |-> FALSE]
  /\ retainLeft = [p \in Pubs |-> None]
  /\ spaces = [p \in Pubs |-> {}]
  /\ expected = [p \in Pubs |-> None]
  /\ active = None
  /\ previous = None
  /\ generation = 0
  /\ activations = <<>>
  /\ seen = [o \in Operators |-> None]
  /\ pin = [r \in Readers |-> None]

Pointer == [id |-> active, gen |-> generation]

-----------------------------------------------------------------------------
(* The candidate: reserve, build, fail, retry, seal, discard *)

\* Variant: one too many.
HasCapacityOffByOne == Cardinality(Retained) <= MaxRetained
HasCapacity == Cardinality(Retained) < MaxRetained

\* A second candidate, or a reservation that would leave no room to retain
\* what it builds, is refused.  The reservation pins the active pointer.
Reserve(p) ==
  /\ state[p] = "absent"
  /\ Candidates = {}
  /\ HasCapacity
  /\ state' = [state EXCEPT ![p] = "building"]
  /\ expected' = [expected EXCEPT ![p] = Pointer]
  /\ UNCHANGED <<everActive, retainLeft, spaces, pointerVars, seen, pin>>

\* Capture and dbt write the four private schemas of the candidate, which
\* must be `building` when they begin.
Build(p) ==
  /\ state[p] = "building"
  /\ spaces' = [spaces EXCEPT ![p] = {"workspace"}]
  /\ UNCHANGED <<state, everActive, retainLeft, expected, pointerVars, seen, pin>>

MarkFailed(p) ==
  /\ state[p] \in Unfinished
  /\ state' = [state EXCEPT ![p] = "failed"]
  /\ UNCHANGED <<everActive, retainLeft, spaces, expected, pointerVars, seen, pin>>

\* Variant: a publication that failed stays so.
RetryOnlyBuilding(p) == state[p] = "building" /\ UNCHANGED vars
\* Variant: whatever is not published may be built again.
RetryPruned(p) ==
  /\ state[p] \in Unfinished \cup {"pruned"}
  /\ state' = [state EXCEPT ![p] = "building"]
  /\ UNCHANGED <<everActive, retainLeft, spaces, expected, pointerVars, seen, pin>>
Retry(p) ==
  /\ state[p] \in Unfinished
  /\ state' = [state EXCEPT ![p] = "building"]
  /\ UNCHANGED <<everActive, retainLeft, spaces, expected, pointerVars, seen, pin>>

\* seal accepts a candidate another process has marked failed meanwhile: only
\* the receipt and the built relations decide (store.py:368).
Seal(p) ==
  /\ state[p] \in Unfinished
  /\ "workspace" \in spaces[p]
  /\ state' = [state EXCEPT ![p] = "sealed"]
  /\ spaces' = [spaces EXCEPT ![p] = Sealed]
  /\ UNCHANGED <<everActive, retainLeft, expected, pointerVars, seen, pin>>

Discard(p) ==
  /\ ~everActive[p]
  /\ state[p] \in CandidateStates
  /\ state' = [state EXCEPT ![p] = "discarded"]
  /\ spaces' = [spaces EXCEPT ![p] = {}]
  /\ UNCHANGED <<everActive, retainLeft, expected, pointerVars, seen, pin>>

-----------------------------------------------------------------------------
(* Activation and restoration *)

Inspect(o) ==
  /\ seen' = [seen EXCEPT ![o] = Pointer]
  /\ UNCHANGED <<catalogVars, pointerVars, pin>>

\* The expectations a caller can present to activate p: what some operator
\* inspected, or what the reservation of p recorded and its build printed.
Expectations(p) == ({seen[o] : o \in Operators} \cup {expected[p]}) \ {None}

\* Variant: the generation is not compared.
ExpectationHoldsById(e) == e.id = active
ExpectationHolds(e) == e = Pointer

\* Variant: what stops being the rollback target is forgotten.
ExtendingOnlyActive(p) == {active} \ {None}

\* The publications whose minimum retention starts again when p takes over:
\* the one being deactivated and whatever stops being protected.
Extending(p) == (Protected \ ({p, active} \ {None})) \cup ({active} \ {None})

\* greatest(coalesce(retain_until, '-infinity'), now + 24 hours)
Extended(left) == IF left # None /\ left > RetentionTicks THEN left ELSE RetentionTicks

\* Activating what is already active is a no-op and leaves no event.
Activate(p, e, kind) ==
  /\ generation < MaxGeneration
  /\ state[p] \in {"sealed", "retained"}
  /\ active # p
  /\ ExpectationHolds(e)
  /\ kind = "restoration" => everActive[p]
  /\ state[p] = "sealed" => HasCapacity
  /\ retainLeft' = [q \in Pubs |-> IF q \in Extending(p) THEN Extended(retainLeft[q])
                                   ELSE retainLeft[q]]
  /\ active' = p
  /\ previous' = active
  /\ generation' = generation + 1
  /\ state' = [state EXCEPT ![p] = "retained"]
  /\ everActive' = [everActive EXCEPT ![p] = TRUE]
  /\ activations' = Append(activations, [pub |-> p, prev |-> active,
                                         kind |-> kind, basis |-> e.gen])
  /\ spaces' = [spaces EXCEPT ![p] = @ \ {"workspace"}]
  /\ UNCHANGED <<expected, seen, pin>>

-----------------------------------------------------------------------------
(* Cleanup *)

\* Variant: the rollback target is not protected.
EligibleIgnoringPrevious ==
  {p \in Retained : retainLeft[p] = 0 /\ p # active}
Eligible == {p \in Retained : retainLeft[p] = 0 /\ p \notin {active, previous}}

Cleanup(chosen) ==
  /\ chosen \subseteq Eligible
  /\ state' = [p \in Pubs |-> IF p \in chosen THEN "pruned" ELSE state[p]]
  /\ spaces' = [p \in Pubs |-> IF p \in chosen THEN spaces[p] \ Sealed ELSE spaces[p]]
  /\ UNCHANGED <<everActive, retainLeft, expected, pointerVars, seen, pin>>

-----------------------------------------------------------------------------
(* Readers *)

\* Variant: some retention left is taken for enough.
HasHorizonLoose(p) ==
  p \in Protected \/ (retainLeft[p] # None /\ retainLeft[p] > 0)
HasHorizon(p) ==
  p \in Protected \/ (retainLeft[p] # None /\ retainLeft[p] >= OperationTicks)

\* A publication can be pinned only if it stays for the whole operation.
Resolve(r, p) ==
  /\ pin[r] = None
  /\ everActive[p] /\ state[p] = "retained"
  /\ HasHorizon(p)
  /\ pin' = [pin EXCEPT ![r] = [pub |-> p, left |-> OperationTicks, step |-> "idle"]]
  /\ UNCHANGED <<catalogVars, pointerVars, seen>>

\* The first transaction of a read: the descriptor must not have expired and
\* the catalog must still hold the publication.
Validate(r) ==
  /\ pin[r] # None /\ pin[r].step = "idle"
  /\ pin[r].left > 0
  /\ state[pin[r].pub] = "retained"
  /\ pin' = [pin EXCEPT ![r].step = "reading"]
  /\ UNCHANGED <<catalogVars, pointerVars, seen>>

\* The second one: the bounded statement over the pinned namespace, which no
\* registry lock protects.  With the namespace gone it raises.
Fetch(r) ==
  /\ pin[r] # None /\ pin[r].step = "reading"
  /\ pin' = [pin EXCEPT ![r].step = "idle"]
  /\ UNCHANGED <<catalogVars, pointerVars, seen>>

\* The operation ends, or its descriptor has expired and it starts again.
Release(r) ==
  /\ pin[r] # None
  /\ pin' = [pin EXCEPT ![r] = None]
  /\ UNCHANGED <<catalogVars, pointerVars, seen>>

Less(n) == IF n = 0 THEN 0 ELSE n - 1

Tick ==
  /\ retainLeft' = [p \in Pubs |-> IF retainLeft[p] = None THEN None
                                   ELSE Less(retainLeft[p])]
  /\ pin' = [r \in Readers |-> IF pin[r] = None THEN None
                               ELSE [pin[r] EXCEPT !.left = Less(@)]]
  /\ UNCHANGED <<state, everActive, spaces, expected, pointerVars, seen>>

-----------------------------------------------------------------------------
Next ==
  \/ \E p \in Pubs : Reserve(p) \/ Build(p) \/ MarkFailed(p) \/ Retry(p)
                       \/ Seal(p) \/ Discard(p)
  \/ \E o \in Operators : Inspect(o)
  \/ \E p \in Pubs, kind \in {"activation", "restoration"} :
        \E e \in Expectations(p) : Activate(p, e, kind)
  \/ \E chosen \in SUBSET Pubs \ {{}} : Cleanup(chosen)
  \/ \E r \in Readers, p \in Pubs : Resolve(r, p)
  \/ \E r \in Readers : Validate(r) \/ Fetch(r) \/ Release(r)
  \/ Tick

Spec == Init /\ [][Next]_vars

-----------------------------------------------------------------------------
(* Safety *)

\* A candidate keeps room for itself: retained publications and the candidate
\* together never exceed the limit, so no sealed candidate is ever refused
\* with PUBLICATION_CAPACITY when it is activated (lifecycle.py:84).
RetentionRoom == Cardinality(Retained) + Cardinality(Candidates) <= MaxRetained

\* Every publication that can be served has both its namespaces, and a closed
\* one has left nothing behind: seal, activate, cleanup and discard each move
\* the namespaces and the state together.
NamespacesMatchState ==
  \A p \in Pubs :
    /\ state[p] \in {"sealed", "retained"} => spaces[p] = Sealed
    /\ state[p] \in Unfinished => spaces[p] \subseteq {"workspace"}
    /\ state[p] \in {"absent", "pruned", "discarded"} => spaces[p] = {}

\* The active publication and the one an operator would roll back to are
\* always still there.
ProtectedAvailable == \A p \in Protected : state[p] = "retained" /\ spaces[p] = Sealed

\* A reader inside its hour never finds its namespace gone, whatever was
\* activated, restored or cleaned up since it pinned it.
PinnedReadable ==
  \A r \in Readers :
    pin[r] # None /\ pin[r].left > 0 =>
      state[pin[r].pub] = "retained" /\ "read" \in spaces[pin[r].pub]

\* Every activation was decided on the pointer its predecessor left: nobody's
\* activation is overwritten by a caller that had not seen it, not even when
\* the same publication is active again (A, then C, then A).
DecisionsInOrder ==
  /\ Len(activations) = generation
  /\ \A g \in 1 .. generation :
        /\ activations[g].basis = g - 1
        /\ activations[g].prev = IF g = 1 THEN None ELSE activations[g - 1].pub
  /\ active = IF generation = 0 THEN None ELSE activations[generation].pub
  /\ previous = IF generation = 0 THEN None ELSE activations[generation].prev

\* Why PinnedReadable holds: what a live descriptor pins is either protected
\* from cleanup or retained for longer than the descriptor will live.
PinnedHorizon ==
  \A r \in Readers :
    pin[r] # None /\ pin[r].left > 0 =>
      LET p == pin[r].pub IN
        /\ state[p] = "retained"
        /\ p \in Protected \/ (retainLeft[p] # None /\ retainLeft[p] >= pin[r].left)

\* The inductive strengthening of the safety properties.
IInv ==
  /\ TypeOK
  /\ NamespacesMatchState
  /\ ProtectedAvailable
  /\ PinnedHorizon
  /\ DecisionsInOrder

-----------------------------------------------------------------------------
(* Steps *)

\* Whoever is deactivated, and whoever stops being the immediate previous one,
\* has a full retention period ahead of it.
RetentionRestarts ==
  [][\A p \in Protected :
       (p = active /\ p # active') \/ p \notin Protected' =>
         retainLeft'[p] # None /\ retainLeft'[p] >= RetentionTicks]_vars

-----------------------------------------------------------------------------
(* What consumers are promised *)

\* A reader holds its publication as long as its descriptor has time left.
Held == [r \in Readers |-> IF pin[r] # None /\ pin[r].left > 0
                           THEN pin[r].pub ELSE None]

Promise == INSTANCE PublishedAnalytics WITH
  latest <- active,
  available <- Retained,
  retired <- {p \in Pubs : state[p] = "pruned"},
  held <- Held

\* The registry implements the consumers' abstract view: a pinned publication
\* is never retired, and a retired one is never served again.
ConsumerPromise == Promise!Spec
=============================================================================
