--------------------------- MODULE PublicationBuild ---------------------------
(***************************************************************************)
(* The processes that build a candidate publication (publication/cli.py    *)
(* _build, capture.py, build.py) over the registry of                      *)
(* PublicationLifecycle, next to operators that discard and activate.      *)
(*                                                                         *)
(* Every registry operation is a transaction and so one action, but a      *)
(* build is a long sequence of them: it holds the candidate's advisory     *)
(* lock only from run_candidate_build's first statement until its receipt  *)
(* is computed, and reserve, retry, capture and seal only try that lock    *)
(* for the length of their own transaction.  Everything else can happen in *)
(* between, a crash of the process included: its session ends and          *)
(* PostgreSQL releases its lock.                                           *)
(***************************************************************************)
EXTENDS PublicationLifecycle

CONSTANTS
  Workers,   \* processes running `secop-publication build` or `retry`
  Sources,   \* Silver versions the warehouse can have active
  MaxBreaks  \* bound on failures that are nobody's refusal, for checking

ASSUME MaxBreaksAssumption == MaxBreaks \in Nat
ASSUME BuildNoneAssumption == None \notin Workers \cup Sources

VARIABLES
  lock,      \* session holder of candidate_lock_id(p), or None
  source,    \* the warehouse's active Silver identity
  pinned,    \* metadata.silver_version_id of a candidate, from reserve
  captured,  \* what the input namespace holds, None until captured_at is set
  tables,    \* the analytics tables: what they were built from, how far
  sealedAs,  \* the receipt stored by seal
  worker,    \* each process: where it is, on what, with which receipt
  breaks     \* failures so far

buildVars == <<lock, source, pinned, captured, tables, sealedAs, worker, breaks>>
allVars == <<vars, buildVars>>

NoTables == [by |-> None, from |-> None, done |-> FALSE]
Tables == [by : Workers \cup {None}, from : Sources \cup {None}, done : BOOLEAN]
Idle == [pc |-> "idle", pub |-> None, fresh |-> FALSE, receipt |-> NoTables]

\* Where a process can be, in the order of _build and _run_candidate_build.
InTry == {"capture", "confirm", "lock", "pin", "prepare", "register",
          "dbt", "testing", "measure", "merge", "seal"}
Locked == {"pin", "prepare", "register", "dbt", "testing", "measure"}

\* Types, and the session lock: whoever holds a candidate's lock is working on
\* it, and nobody works on it without.
BuildTypeOK ==
  /\ TypeOK
  /\ lock \in [Pubs -> Workers \cup {None}]
  /\ source \in Sources
  /\ pinned \in [Pubs -> Sources \cup {None}]
  /\ captured \in [Pubs -> Sources \cup {None}]
  /\ tables \in [Pubs -> Tables]
  /\ sealedAs \in [Pubs -> Tables]
  /\ worker \in [Workers -> [pc : {"idle", "retry", "failing"} \cup InTry,
                             pub : Pubs \cup {None}, fresh : BOOLEAN, receipt : Tables]]
  /\ breaks \in 0 .. MaxBreaks
  /\ \A p \in Pubs, x \in Workers :
        lock[p] = x <=> worker[x].pub = p /\ worker[x].pc \in Locked

BuildInit ==
  /\ Init
  /\ lock = [p \in Pubs |-> None]
  /\ source \in Sources
  /\ pinned = [p \in Pubs |-> None]
  /\ captured = [p \in Pubs |-> None]
  /\ tables = [p \in Pubs |-> NoTables]
  /\ sealedAs = [p \in Pubs |-> NoTables]
  /\ worker = [x \in Workers |-> Idle]
  /\ breaks = 0

At(x, pc) == worker[x].pc = pc
Pub(x) == worker[x].pub
Go(x, pc) == worker' = [worker EXCEPT ![x].pc = pc]
Begin(x, pc, p, fresh) ==
  worker' = [worker EXCEPT ![x] = [pc |-> pc, pub |-> p, fresh |-> fresh, receipt |-> NoTables]]

Unlocked(x) == [p \in Pubs |-> IF lock[p] = x THEN None ELSE lock[p]]

\* pg_try_advisory_xact_lock within one transaction of x.
LockFree(p) == lock[p] = None
-----------------------------------------------------------------------------
(* Starting *)

BuildNew(x, p, s) ==
  /\ At(x, "idle")
  /\ Reserve(p)
  /\ pinned' = [pinned EXCEPT ![p] = s]
  /\ Begin(x, "capture", p, TRUE)
  /\ UNCHANGED <<lock, source, captured, tables, sealedAs, breaks>>

\* build with the identity of an unfinished candidate whose metadata are still
\* the reserved ones: reserve returns the row it finds, whatever its state.
BuildAgain(x, p) ==
  /\ At(x, "idle")
  /\ state[p] \in Unfinished /\ captured[p] = None
  /\ Begin(x, "capture", p, TRUE)
  /\ UNCHANGED <<vars, lock, source, pinned, captured, tables, sealedAs, breaks>>

\* retry reads the row in one transaction and revives it in the next; whether
\* the inputs were captured is decided by what the first one saw.
RetryRead(x, p) ==
  /\ At(x, "idle")
  /\ state[p] # "absent"
  /\ Begin(x, "retry", p, captured[p] = None)
  /\ UNCHANGED <<vars, lock, source, pinned, captured, tables, sealedAs, breaks>>

AfterRetry(x) == IF worker[x].fresh THEN "capture" ELSE "lock"

Revive(x) ==
  /\ At(x, "retry")
  /\ LockFree(Pub(x))
  /\ Retry(Pub(x))
  /\ Go(x, AfterRetry(x))
  /\ UNCHANGED <<lock, source, pinned, captured, tables, sealedAs, breaks>>

\* A refused retry raises before the handler that marks failures.
ReviveRefused(x) ==
  /\ At(x, "retry")
  /\ ~(LockFree(Pub(x)) /\ state[Pub(x)] \in Unfinished)
  /\ worker' = [worker EXCEPT ![x] = Idle]
  /\ UNCHANGED <<vars, lock, source, pinned, captured, tables, sealedAs, breaks>>

-----------------------------------------------------------------------------
(* Capturing the inputs *)

\* Variant: the warehouse is not compared.
SourceMatchesUnchecked(p) == TRUE
SourceMatches(p) == source = pinned[p]

CanCapture(p) ==
  /\ LockFree(p)
  /\ state[p] = "building"
  /\ SourceMatches(p)
  /\ captured[p] = None

Capture(x) ==
  LET p == Pub(x) IN
  /\ At(x, "capture")
  /\ CanCapture(p)
  /\ Build(p)
  /\ captured' = [captured EXCEPT ![p] = source]
  /\ Go(x, "confirm")
  /\ UNCHANGED <<lock, source, pinned, tables, sealedAs, breaks>>

-----------------------------------------------------------------------------
(* Building under the candidate lock *)

TakeLock(x) ==
  LET p == Pub(x) IN
  /\ At(x, "lock")
  /\ LockFree(p)
  /\ lock' = [lock EXCEPT ![p] = x]
  /\ Go(x, "pin")
  /\ UNCHANGED <<vars, source, pinned, captured, tables, sealedAs, breaks>>

\* update_metadata and register_expected_nodes: they only ask that the
\* candidate is unfinished.
Following == [confirm |-> "lock", pin |-> "prepare", register |-> "dbt", merge |-> "seal"]

UpdateRow(x) ==
  /\ worker[x].pc \in DOMAIN Following
  /\ state[Pub(x)] \in Unfinished
  /\ Go(x, Following[worker[x].pc])
  /\ UNCHANGED <<vars, lock, source, pinned, captured, tables, sealedAs, breaks>>

PrepareSchemas(x) ==
  LET p == Pub(x) IN
  /\ At(x, "prepare")
  /\ captured[p] # None
  /\ Build(p)
  /\ Go(x, "register")
  /\ UNCHANGED <<lock, source, pinned, captured, tables, sealedAs, breaks>>

\* dbt build --full-refresh replaces the tables one by one ...
DbtBegin(x) ==
  LET p == Pub(x) IN
  /\ At(x, "dbt")
  /\ "workspace" \in spaces[p]
  /\ tables' = [tables EXCEPT ![p] = [by |-> x, from |-> captured[p], done |-> FALSE]]
  /\ Go(x, "testing")
  /\ UNCHANGED <<vars, lock, source, pinned, captured, sealedAs, breaks>>

\* ... and its tests pass over the whole of them.
DbtEnd(x) ==
  LET p == Pub(x) IN
  /\ At(x, "testing")
  /\ "workspace" \in spaces[p]
  /\ tables' = [tables EXCEPT ![p].done = TRUE]
  /\ Go(x, "measure")
  /\ UNCHANGED <<vars, lock, source, pinned, captured, sealedAs, breaks>>

\* The receipt is the inventory of what is there; then the lock is let go.
Measure(x) ==
  LET p == Pub(x) IN
  /\ At(x, "measure")
  /\ "workspace" \in spaces[p]
  /\ worker' = [worker EXCEPT ![x].receipt = tables[p], ![x].pc = "merge"]
  /\ lock' = Unlocked(x)
  /\ UNCHANGED <<vars, source, pinned, captured, tables, sealedAs, breaks>>

-----------------------------------------------------------------------------
(* Sealing *)

\* Variant: nobody looks at the lock.
CanSealUnlocked(x) ==
  LET p == Pub(x) IN
  state[p] \in Unfinished /\ "workspace" \in spaces[p] /\ tables[p] = worker[x].receipt

CanSeal(x) ==
  LET p == Pub(x) IN
  /\ LockFree(p)
  /\ state[p] \in Unfinished
  /\ "workspace" \in spaces[p]
  /\ tables[p] = worker[x].receipt

\* The transaction of seal.  Its no-op over a publication sealed with the same
\* receipt is out of reach: every measured build has a receipt of its own, which
\* its command offers once.
SealBuilt(x) ==
  LET p == Pub(x) IN
  /\ At(x, "seal")
  /\ CanSeal(x)
  /\ Seal(p)
  /\ sealedAs' = [sealedAs EXCEPT ![p] = worker[x].receipt]
  /\ worker' = [worker EXCEPT ![x] = Idle]
  /\ UNCHANGED <<lock, source, pinned, captured, tables, breaks>>
-----------------------------------------------------------------------------
(* Refusals, failures and crashes *)

\* What the next statement of x would raise on.
Refused(x) ==
  LET p == Pub(x) IN
  \/ At(x, "capture") /\ ~CanCapture(p)
  \/ At(x, "lock") /\ ~LockFree(p)
  \/ worker[x].pc \in DOMAIN Following /\ state[p] \notin Unfinished
  \/ At(x, "prepare") /\ ~(state[p] = "building" /\ captured[p] # None)
  \/ worker[x].pc \in {"dbt", "testing", "measure"} /\ "workspace" \notin spaces[p]
  \/ At(x, "seal") /\ ~CanSeal(x)

\* A refusal closes the guard connection and leaves for the handler.
Refuse(x) ==
  /\ worker[x].pc \in InTry /\ Refused(x)
  /\ lock' = Unlocked(x)
  /\ Go(x, "failing")
  /\ UNCHANGED <<vars, source, pinned, captured, tables, sealedAs, breaks>>

\* dbt, a test, a budget, a timeout or the connection fails.
Break(x) ==
  /\ worker[x].pc \in InTry
  /\ breaks < MaxBreaks
  /\ breaks' = breaks + 1
  /\ lock' = Unlocked(x)
  /\ Go(x, "failing")
  /\ UNCHANGED <<vars, source, pinned, captured, tables, sealedAs>>

\* The handler records the failure, which a candidate that is not unfinished
\* ignores; it does not look at who holds the candidate lock.
Report(x) ==
  LET p == Pub(x) IN
  /\ At(x, "failing")
  /\ IF state[p] \in Unfinished THEN MarkFailed(p) ELSE UNCHANGED vars
  /\ worker' = [worker EXCEPT ![x] = Idle]
  /\ UNCHANGED <<lock, source, pinned, captured, tables, sealedAs, breaks>>

Crash(x) ==
  /\ worker[x].pc # "idle"
  /\ breaks < MaxBreaks
  /\ breaks' = breaks + 1
  /\ lock' = Unlocked(x)
  /\ worker' = [worker EXCEPT ![x] = Idle]
  /\ UNCHANGED <<vars, source, pinned, captured, tables, sealedAs>>

-----------------------------------------------------------------------------
(* Everybody else *)

DiscardCandidate(p) ==
  /\ LockFree(p)
  /\ Discard(p)
  /\ tables' = [tables EXCEPT ![p] = NoTables]
  /\ UNCHANGED <<lock, source, pinned, captured, sealedAs, worker, breaks>>

\* The warehouse loads another Silver version.
WarehouseMoves(s) ==
  /\ source # s
  /\ source' = s
  /\ UNCHANGED <<vars, lock, pinned, captured, tables, sealedAs, worker, breaks>>

RegistryMoves ==
  /\ \/ \E o \in Operators : Inspect(o)
     \/ \E p \in Pubs, kind \in {"activation", "restoration"} :
           \E e \in Expectations(p) : Activate(p, e, kind)
     \/ \E chosen \in SUBSET Pubs \ {{}} : Cleanup(chosen)
     \/ Tick
  /\ UNCHANGED buildVars

WorkerStep(x) ==
  \/ Revive(x) \/ ReviveRefused(x) \/ Capture(x) \/ TakeLock(x) \/ UpdateRow(x)
  \/ PrepareSchemas(x) \/ DbtBegin(x) \/ DbtEnd(x) \/ Measure(x)
  \/ SealBuilt(x) \/ Refuse(x) \/ Report(x)

BuildNext ==
  \/ \E x \in Workers, p \in Pubs :
        (\E s \in Sources : BuildNew(x, p, s)) \/ BuildAgain(x, p) \/ RetryRead(x, p)
  \/ \E x \in Workers : WorkerStep(x) \/ Break(x) \/ Crash(x)
  \/ \E p \in Pubs : DiscardCandidate(p)
  \/ \E s \in Sources : WarehouseMoves(s)
  \/ RegistryMoves

BuildSpec == BuildInit /\ [][BuildNext]_allVars

-----------------------------------------------------------------------------
(* Safety *)

\* What is sealed is one process's complete, tested build of the Silver version
\* reserved for it, however many processes retried, crashed or failed on it and
\* wherever the warehouse has moved since.
SealedIsValidated ==
  \A p \in Pubs :
    state[p] \in {"sealed", "retained"} =>
      /\ sealedAs[p].done /\ sealedAs[p].from = pinned[p]
      /\ tables[p] = sealedAs[p]

\* Nobody takes the workspace from under a live build: while a process works
\* under the candidate lock its schemas are neither sealed nor discarded.
LiveBuildUndisturbed ==
  \A x \in Workers :
    worker[x].pc \in {"register", "dbt", "testing", "measure"} =>
      spaces[Pub(x)] = {"workspace"} /\ state[Pub(x)] \in Unfinished

\* What a process has done on its candidate when it is where it is: the schemas
\* and the tables are its own while it holds the lock.
Progress(x) ==
  LET p == Pub(x)
      pc == worker[x].pc
  IN /\ pc # "idle" => p \in Pubs /\ state[p] # "absent"
     /\ pc \in {"prepare", "register", "dbt", "testing", "measure"} => state[p] \in Unfinished
     /\ pc \in {"register", "dbt", "testing", "measure"} =>
          spaces[p] = {"workspace"} /\ captured[p] # None
     /\ pc \in {"testing", "measure"} => tables[p].from = captured[p]
     /\ pc = "measure" => tables[p].done
     /\ pc \in {"merge", "seal"} =>
          worker[x].receipt.done /\ worker[x].receipt.from = pinned[p]

\* A captured input is the one the candidate was reserved for.
CapturedAsPinned ==
  \A p \in Pubs : captured[p] # None => captured[p] = pinned[p] /\ state[p] # "absent"

\* The inductive strengthening of SealedIsValidated and LiveBuildUndisturbed.
BuildIInv ==
  /\ BuildTypeOK
  /\ CapturedAsPinned
  /\ \A x \in Workers : Progress(x)
  /\ SealedIsValidated

\* A candidate whose inputs are captured is never lost: however its builds fail
\* or crash, retrying it leads to a sealed publication, unless it is discarded.
CapturedConcludes ==
  \A p \in Pubs :
    (state[p] \in Unfinished /\ captured[p] # None) ~> state[p] \notin Unfinished
=============================================================================
