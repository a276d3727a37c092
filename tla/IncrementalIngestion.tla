-------------------------- MODULE IncrementalIngestion --------------------------
(***************************************************************************)
(* The two acquisitions of Bronze that take no grant: the incremental run  *)
(* (runner.py, query.py), which pages through what the source updated in a *)
(* window and moves the checkpoint, and the identity refresh (refresh.py), *)
(* which asks for given contracts in batches.  Both stage pages, publish   *)
(* them by a rename, commit them to SQLite (state.py) and only then mark   *)
(* the manifest.  The source moves under both of them.                     *)
(*                                                                         *)
(* A run works under the dataset lock, which is not waited for: there is at *)
(* most one, it holds its manifest in memory, and clean-staging takes no   *)
(* lock.  Death at any step leaves the files and the database.  A page is  *)
(* written before the state that names it, and a page without a name is    *)
(* written over: the two are one step.                                     *)
(***************************************************************************)
EXTENDS Integers, FiniteSets

CONSTANTS
  Runs,
  Rows,       \* contract ids, in the order of id_contrato
  Signed,     \* [Rows -> time]: fecha_de_firma
  MaxTime,    \* bound on source time, for model checking
  Requests,   \* the <<from, to>> that operators ask for
  Batches,    \* the ids that operators refresh, in batches of page_size
  Overlaps,   \* the overlap_days that commands are configured with
  PageSize,
  MaxRows,
  MaxChanges, \* bound on changes of the source, for model checking
  MaxFaults,  \* bound on deaths, errors and clean-staging commands, for model checking
  None

Absent == -1 \* not in the source yet
Null == 0    \* no ultima_actualizacion

ASSUME TimeAssumption ==
  /\ Rows \subseteq Nat /\ IsFiniteSet(Rows) /\ MaxTime \in Nat
  /\ Signed \in [Rows -> 1 .. MaxTime]
  /\ Requests \subseteq (1 .. MaxTime) \X (1 .. MaxTime)
  /\ \A request \in Requests : request[1] <= request[2]
  /\ \A ids \in Batches : ids \subseteq Rows
ASSUME LimitAssumption ==
  /\ {MaxChanges, MaxFaults} \subseteq Nat /\ Overlaps \subseteq Nat
  /\ {PageSize, MaxRows} \subseteq Nat \ {0}
  /\ PageSize <= MaxRows

VARIABLES
  updated,    \* the source: ultima_actualizacion of each contract
  staged,     \* staging/<run>/page-state.json, or None
  work,       \* the manifest in the memory of the process that holds the lock
  pc,
  published,  \* runs/<run>/manifest.json, by run
  committed,  \* the published manifests that say so
  lost,       \* the runs whose page files are gone
  headless,   \* the published runs whose manifest.json is gone
  cleaning,   \* the directory clean-staging has opened, or None
  database,   \* table runs
  index,      \* table observations
  checkpoint, \* table checkpoints; 0 before the first
  moved,      \* history: contracts that moved since a run was created
  changes, faults

files == <<staged, published, committed, lost, headless>>
sqlite == <<database, index, checkpoint>>
vars == <<updated, files, work, pc, cleaning, sqlite, moved, changes, faults>>

-----------------------------------------------------------------------------
(* The window and the queries *)

\* build_run_window(): what was completed before, less the overlap, is not asked
\* for again; the requested range is never left.
EffectiveFrom(from, overlap) ==
  LET overlapped == checkpoint - overlap
  IN IF checkpoint = 0 \/ overlapped < from THEN from ELSE overlapped

Parameters(request, overlap) ==
  [from |-> request[1], to |-> request[2], overlap |-> overlap,
   effective |-> EffectiveFrom(request[1], overlap)]

\* A place in a lane: (ultima_actualizacion, id_contrato), or (0, id_contrato).
Place(r) == <<updated[r], r>>

After(place, cursor) ==
  place[1] > cursor[1] \/ (place[1] = cursor[1] /\ place[2] > cursor[2])

\* primary_query and null_watermark_query, without their cursor.
Matches(r, lane, window) ==
  IF lane = "primary"
  THEN updated[r] > Null /\ window.effective <= updated[r] /\ updated[r] <= window.to
  ELSE updated[r] = Null /\ window.from <= Signed[r] /\ Signed[r] <= window.to

\* Variant: the next page of the primary lane starts after the last timestamp.
PageAfterTime(manifest, lane, limit) ==
  LET cursor == manifest.cursor[lane]
      rest == {r \in Rows : /\ Matches(r, lane, manifest.window)
                            /\ IF lane = "primary" THEN updated[r] > cursor[1]
                               ELSE After(Place(r), cursor)}
  IN {r \in rest : Cardinality({s \in rest : After(Place(r), Place(s))}) < limit}

\* The first `limit` rows of the lane after the cursor.
Page(manifest, lane, limit) ==
  LET rest == {r \in Rows : /\ Matches(r, lane, manifest.window)
                            /\ After(Place(r), manifest.cursor[lane])}
  IN {r \in rest : Cardinality({s \in rest : After(Place(r), Place(s))}) < limit}

-----------------------------------------------------------------------------
(* Manifests *)

Lanes == {"primary", "null_watermark"}

NewIncremental(run, request, overlap) ==
  [run |-> run, purpose |-> "incremental", window |-> Parameters(request, overlap),
   before |-> checkpoint, cursor |-> [lane \in Lanes |-> <<Null, -1>>],
   done |-> {}, got |-> {}, ids |-> {}, truncated |-> FALSE, complete |-> FALSE]

\* `done`: the batches that were asked for, next_id_offset.
NewRefresh(run, ids) ==
  [run |-> run, purpose |-> "identity_refresh", window |-> Parameters(<<1, 1>>, 0),
   before |-> checkpoint, cursor |-> [lane \in Lanes |-> <<Null, -1>>],
   done |-> {}, got |-> {}, ids |-> ids, truncated |-> FALSE, complete |-> FALSE]

End == pc' = "idle" /\ work' = None

Fresh(run) == staged[run] = None /\ run \notin DOMAIN published \cup lost

\* _finish(): all lanes, and nothing was cut off.
RangeComplete(manifest) ==
  IF manifest.purpose = "incremental"
  THEN manifest.done = Lanes /\ ~manifest.truncated
  ELSE manifest.done = manifest.ids

Candidate(manifest) ==
  IF manifest.window.to > manifest.before THEN manifest.window.to ELSE manifest.before

Prepared == DOMAIN published \ (committed \cup headless)

Init ==
  /\ updated \in [Rows -> {Absent, Null, 1}]
  /\ staged = [run \in Runs |-> None]
  /\ work = None
  /\ pc = "idle"
  /\ published = [run \in {} |-> None]
  /\ committed = {}
  /\ lost = {}
  /\ headless = {}
  /\ cleaning = None
  /\ database = {}
  /\ index = {}
  /\ checkpoint = 0
  /\ moved = [run \in Runs |-> {}]
  /\ changes = 0
  /\ faults = 0

-----------------------------------------------------------------------------
(* A command: take the lock, reconcile, create or resume *)

Lock ==
  /\ pc = "idle"
  /\ pc' = "reconcile"
  /\ UNCHANGED <<updated, files, work, cleaning, sqlite, moved, changes, faults>>

\* Variant: the checkpoint is moved by runs that were cut off, too.
CommitAny(manifest) ==
  /\ database' = database \cup {manifest.run}
  /\ index' = index \cup manifest.got
  /\ checkpoint' = IF manifest.purpose = "incremental" THEN Candidate(manifest) ELSE checkpoint

\* The transaction of IngestionState.commit, which a repeated call leaves alone.
Commit(manifest) ==
  /\ database' = database \cup {manifest.run}
  /\ index' = index \cup manifest.got
  /\ checkpoint' = IF manifest.purpose = "incremental" /\ manifest.complete
                   THEN Candidate(manifest) ELSE checkpoint

\* reconcile_prepared(): a run that a dead process published is committed, or
\* only marked when the database has it.
ReconcileCommit ==
  /\ pc = "reconcile"
  /\ Prepared \cap lost = {}
  /\ \E run \in Prepared \ database : Commit(published[run])
  /\ UNCHANGED <<updated, files, work, pc, cleaning, moved, changes, faults>>

ReconcileMark ==
  /\ pc = "reconcile"
  /\ Prepared \cap lost = {}
  /\ \E run \in Prepared \cap database : committed' = committed \cup {run}
  /\ UNCHANGED <<updated, staged, published, lost, headless, work, pc, cleaning, sqlite, moved,
                 changes, faults>>

Stage(manifest) ==
  /\ work' = manifest
  /\ staged' = [staged EXCEPT ![manifest.run] = manifest]

\* A new run, unless the overlap begins after the requested range.
Create(run, request, overlap) ==
  /\ pc = "reconcile" /\ Prepared = {}
  /\ Fresh(run)
  /\ EffectiveFrom(request[1], overlap) <= request[2]
  /\ Stage(NewIncremental(run, request, overlap))
  /\ moved' = [moved EXCEPT ![run] = {}]
  /\ pc' = "extract"
  /\ UNCHANGED <<updated, published, committed, lost, headless, cleaning, sqlite, changes, faults>>

CreateRefresh(run, ids) ==
  /\ pc = "reconcile" /\ Prepared = {}
  /\ Fresh(run)
  /\ Stage(NewRefresh(run, ids))
  /\ moved' = [moved EXCEPT ![run] = {}]
  /\ pc' = "extract"
  /\ UNCHANGED <<updated, published, committed, lost, headless, cleaning, sqlite, changes, faults>>

\* Variant: the parameters of a resumed run are the requested ones.
SameRequest(manifest, request) ==
  manifest.window.from = request[1] /\ manifest.window.to = request[2]

SameParameters(manifest, request) ==
  /\ manifest.window = Parameters(request, manifest.window.overlap)
  /\ manifest.window.effective <= request[2]

Resume(run) ==
  /\ pc = "reconcile" /\ Prepared = {}
  /\ staged[run] # None /\ run \notin lost
  /\ \/ /\ staged[run].purpose = "incremental"
        /\ \E request \in Requests : SameParameters(staged[run], request)
        /\ work' = staged[run]
     \/ /\ staged[run].purpose = "identity_refresh"
        /\ work' = [staged[run] EXCEPT !.truncated = FALSE]
  /\ pc' = "extract"
  /\ UNCHANGED <<updated, files, cleaning, sqlite, moved, changes, faults>>

-----------------------------------------------------------------------------
(* Extraction *)

NextLane(manifest) ==
  IF "primary" \in manifest.done THEN "null_watermark" ELSE "primary"

Least(a, b) == IF a < b THEN a ELSE b

\* A page of the current lane: a short one ends it.
FetchPage ==
  /\ pc = "extract" /\ work.purpose = "incremental"
  /\ work.done # Lanes
  /\ Cardinality(work.got) < MaxRows
  /\ LET lane == NextLane(work)
         limit == Least(PageSize, MaxRows - Cardinality(work.got))
         rows == Page(work, lane, limit)
         places == {Place(r) : r \in rows}
         last == IF rows = {} THEN work.cursor[lane]
                 ELSE CHOOSE x \in places : \A y \in places : x = y \/ After(x, y)
     IN Stage([work EXCEPT
          !.got = @ \cup {<<r, updated[r]>> : r \in rows},
          !.cursor[lane] = last,
          !.done = IF Cardinality(rows) < limit THEN @ \cup {lane} ELSE @])
  /\ UNCHANGED <<updated, pc, published, committed, lost, headless, cleaning, sqlite, moved,
                 changes, faults>>

\* The lanes are exhausted, or the limit on rows ends the run.
Extracted ==
  /\ pc = "extract" /\ work.purpose = "incremental"
  /\ \/ work.done = Lanes /\ work' = [work EXCEPT !.complete = RangeComplete(work)]
     \/ /\ work.done # Lanes /\ Cardinality(work.got) >= MaxRows
        /\ LET cut == [work EXCEPT !.truncated = TRUE]
           IN work' = [cut EXCEPT !.complete = RangeComplete(cut)]
  /\ pc' = "publish"
  /\ UNCHANGED <<updated, files, cleaning, sqlite, moved, changes, faults>>

\* _extract_ids(): the next batch, of which the source returns what it has.
FetchBatch ==
  /\ pc = "extract" /\ work.purpose = "identity_refresh"
  /\ work.done # work.ids
  /\ LET rest == work.ids \ work.done
         batch == {r \in rest : Cardinality({s \in rest : s < r}) < PageSize}
     IN Stage([work EXCEPT
          !.got = @ \cup {<<r, updated[r]>> : r \in {s \in batch : updated[s] # Absent}},
          !.done = @ \cup batch])
  /\ UNCHANGED <<updated, pc, published, committed, lost, headless, cleaning, sqlite, moved,
                 changes, faults>>

\* RequestBudgetExceeded: the invocation ends, the refresh stays resumable.
PauseRefresh ==
  /\ pc = "extract" /\ work.purpose = "identity_refresh"
  /\ work.done # work.ids
  /\ staged' = [staged EXCEPT ![work.run] = [work EXCEPT !.truncated = TRUE]]
  /\ End
  /\ UNCHANGED <<updated, published, committed, lost, headless, cleaning, sqlite, moved, changes, faults>>

ExtractedIds ==
  /\ pc = "extract" /\ work.purpose = "identity_refresh"
  /\ work.done = work.ids
  /\ work' = [work EXCEPT !.complete = RangeComplete(work)]
  /\ pc' = "publish"
  /\ UNCHANGED <<updated, files, cleaning, sqlite, moved, changes, faults>>

-----------------------------------------------------------------------------
(* Publication *)

\* prepare(): verify the pages, write the manifest, rename the directory.
Publish ==
  /\ pc = "publish"
  /\ work.run \notin lost
  /\ published' = [run \in DOMAIN published \cup {work.run} |->
                      IF run = work.run THEN work ELSE published[run]]
  /\ staged' = [staged EXCEPT ![work.run] = None]
  /\ pc' = "commit"
  /\ UNCHANGED <<updated, committed, lost, headless, work, cleaning, sqlite, moved,
                 changes, faults>>

\* Variant: the manifest is marked before the transaction.
MarkEarly ==
  /\ pc = "commit"
  /\ committed' = committed \cup {work.run}
  /\ headless' = headless \ {work.run}
  /\ End
  /\ UNCHANGED <<updated, staged, published, lost, cleaning, sqlite, moved,
                 changes, faults>>

\* observations_from_pages() reads the pages again.
CommitWork ==
  /\ pc = "commit"
  /\ work.run \notin lost
  /\ Commit(work)
  /\ pc' = "mark"
  /\ UNCHANGED <<updated, files, work, cleaning, moved, changes, faults>>

\* mark_committed() writes the manifest, whether it is still there or not.
Mark ==
  /\ pc = "mark"
  /\ committed' = committed \cup {work.run}
  /\ headless' = headless \ {work.run}
  /\ End
  /\ UNCHANGED <<updated, staged, published, lost, cleaning, sqlite, moved,
                 changes, faults>>

\* The command is refused: a window, a resumption or a prepared run that cannot
\* be read, or pages that are missing.
Refuse ==
  /\ \/ pc = "reconcile"
     \/ pc \in {"publish", "commit"} /\ work.run \in lost
  /\ End
  /\ UNCHANGED <<updated, files, cleaning, sqlite, moved, changes, faults>>

\* The process dies, or a request, a write or a transaction raises.
Fail ==
  /\ pc \notin {"idle", "reconcile"}
  /\ faults < MaxFaults
  /\ faults' = faults + 1
  /\ End
  /\ UNCHANGED <<updated, files, cleaning, sqlite, moved, changes>>

-----------------------------------------------------------------------------
(* What happens meanwhile *)

Underway(run) ==
  staged[run] # None \/ (pc \in {"extract", "publish"} /\ work.run = run)

\* A contract appears, or is updated: never to an earlier time, but rows become
\* visible in any order.
SourceChanges(r, time) ==
  /\ changes < MaxChanges
  /\ time > updated[r]
  /\ updated' = [updated EXCEPT ![r] = time]
  /\ moved' = [run \in Runs |-> IF Underway(run) THEN moved[run] \cup {r} ELSE {}]
  /\ changes' = changes + 1
  /\ UNCHANGED <<files, work, pc, cleaning, sqlite, faults>>

\* clean_staging(): rmtree opens a staging directory...
CleanOpens(run) ==
  /\ cleaning = None
  /\ staged[run] # None
  /\ faults < MaxFaults
  /\ faults' = faults + 1
  /\ cleaning' = run
  /\ UNCHANGED <<updated, files, work, pc, sqlite, moved, changes>>

\* ... and empties what it opened, wherever a rename has put it since, of the
\* manifest.json too if that was written before it read the directory.
CleanEmpties ==
  /\ cleaning # None
  /\ staged' = [staged EXCEPT ![cleaning] = None]
  /\ LET manifest == IF staged[cleaning] # None THEN staged[cleaning] ELSE published[cleaning]
     IN lost' = IF manifest.got # {} THEN lost \cup {cleaning} ELSE lost
  /\ \/ UNCHANGED <<committed, headless>>
     \/ /\ cleaning \in DOMAIN published
        /\ headless' = headless \cup {cleaning}
        /\ committed' = committed \ {cleaning}
  /\ cleaning' = None
  /\ UNCHANGED <<updated, published, work, pc, sqlite, moved, changes, faults>>

Step ==
  \/ Lock \/ ReconcileCommit \/ ReconcileMark \/ FetchPage \/ Extracted \/ FetchBatch
  \/ ExtractedIds \/ Publish \/ CommitWork \/ Mark

Next ==
  \/ Step \/ PauseRefresh \/ Refuse \/ Fail \/ CleanEmpties
  \/ \E run \in Runs :
       \/ Resume(run) \/ CleanOpens(run)
       \/ \E request \in Requests, overlap \in Overlaps : Create(run, request, overlap)
       \/ \E ids \in Batches : CreateRefresh(run, ids)
  \/ \E r \in Rows, time \in 0 .. MaxTime : SourceChanges(r, time)

Spec == Init /\ [][Next]_vars

-----------------------------------------------------------------------------
(* Properties *)

\* Types, and no run is staged and published at once.
TypeOK ==
  /\ updated \in [Rows -> -1 .. MaxTime]
  /\ committed \subseteq DOMAIN published /\ DOMAIN published \subseteq Runs
  /\ lost \subseteq Runs /\ headless \subseteq DOMAIN published
  /\ cleaning \in Runs \cup {None}
  /\ database \subseteq Runs
  /\ checkpoint \in 0 .. MaxTime
  /\ pc \in {"idle", "reconcile", "extract", "publish", "commit", "mark"}
  /\ \A run \in Runs : staged[run] = None \/ run \notin DOMAIN published

\* What a run is to bring of the source as it is.
Owed(manifest) ==
  IF manifest.purpose = "incremental"
  THEN {r \in Rows : \E lane \in Lanes : Matches(r, lane, manifest.window)}
  ELSE {r \in manifest.ids : updated[r] # Absent}

\* A run that is published as complete has every contract that stood in its
\* window all the time: through pages that end between two contracts of the same
\* instant, contracts that move behind or ahead of the cursor, deaths and
\* resumptions; a complete refresh has every contract it was asked for and that
\* the source had (runner.py:190-272, query.py:39-53, refresh.py:228-275).
RunHoldsItsRange ==
  [][\A run \in DOMAIN published' \ DOMAIN published :
       published'[run].complete
       => \A r \in Owed(published'[run]) \ moved[run] :
            <<r, updated[r]>> \in published'[run].got]_vars

\* The run went through its whole window.
Concluded(manifest) ==
  manifest.purpose = "incremental" /\ manifest.done = Lanes /\ ~manifest.truncated

\* The checkpoint is the upper limit of a complete run of the database.  It does move
\* back, when an older run is resumed after a newer one was committed, but by no more
\* than the overlap of that run (runner.py:164-188, 304-312, state.py:197-207).
CheckpointHeld ==
  [][checkpoint' # checkpoint =>
       /\ \E run \in database' : Concluded(published'[run]) /\ published'[run].window.to = checkpoint'
       /\ \E run \in database' \ database :
            checkpoint' >= checkpoint - published'[run].window.overlap]_vars

\* A complete run asked the source for what was updated at this time.
Asked(time) ==
  \E run \in database :
    Concluded(published[run])
    /\ published[run].window.effective <= time /\ time <= published[run].window.to

\* From `first` on operators ask for no window that begins beyond what the
\* checkpoint said was complete.
Contiguous(first) ==
  \A run \in database : Concluded(published[run]) =>
    LET before == published[run].before
    IN published[run].window.from <= IF before < first THEN first ELSE before + 1

Unbroken(until) ==
  \A first \in 1 .. MaxTime : Contiguous(first) => \A time \in first .. until : Asked(time)

\* If operators ask for contiguous windows, no time up to the checkpoint was skipped:
\* whatever the overlap of each command, a complete run asked the source for every one
\* of them, through deaths, truncated runs and runs that are resumed after others were
\* committed (config.py:123-142, runner.py:164-188, 304-312, state.py:193-207).  The
\* code takes any window: one that begins later leaves a gap that the checkpoint
\* passes, and that no later window asks for.
NoWindowSkipped == Unbroken(checkpoint)

\* The manifest never says more than the database, nor the database more than
\* what is published; the index is what the runs of the database brought, each of
\* them once whatever the process died after (state.py:134-208,
\* runner.py:104-138, 313-325).
CommittedIsIndexed ==
  /\ committed \subseteq database
  /\ database \subseteq DOMAIN published
  /\ index = UNION {published[run].got : run \in database}

\* A time that a complete run of the database went up to, or no time.
Reached(time) ==
  \/ time = 0
  \/ \E run \in database : Concluded(published[run]) /\ published[run].window.to = time

\* A manifest of a run, wherever it is kept.
ManifestOf(run, manifest) ==
  /\ DOMAIN manifest = {"run", "purpose", "window", "before", "cursor", "done", "got",
                        "ids", "truncated", "complete"}
  /\ manifest.run = run
  /\ manifest.purpose \in {"incremental", "identity_refresh"}
  /\ manifest.before \in 0 .. MaxTime /\ Reached(manifest.before) /\ Unbroken(manifest.before)
  /\ manifest.purpose = "incremental" =>
       LET window == manifest.window
       IN /\ {window.from, window.to} \subseteq 1 .. MaxTime /\ window.overlap \in Nat
          /\ window.effective \in Int /\ window.effective <= window.to
          /\ window.effective <= window.from \/ window.effective <= manifest.before
          /\ manifest.complete => Concluded(manifest)

\* It asks for no less than what the checkpoint of now leaves open.
Abreast(manifest) ==
  manifest.purpose = "incremental" =>
    manifest.window.effective >= checkpoint - manifest.window.overlap

Pending == DOMAIN published \ (database \cup headless)

\* Which step goes with which state of the files and of the database: at most
\* one published run is not in the database, and none while another is made.
StepsMatch ==
  /\ pc \notin {"idle", "reconcile"} => work.run \in Runs /\ ManifestOf(work.run, work)
  /\ pc \in {"extract", "publish"} => Pending = {} /\ work.run \notin DOMAIN published
  /\ pc \in {"extract", "publish", "commit"} => Abreast(work)
  /\ pc \in {"commit", "mark"} => work.run \in DOMAIN published /\ published[work.run] = work
  /\ pc = "commit" => Pending \subseteq {work.run} /\ work.run \notin database
  /\ pc = "mark" => Pending = {} /\ work.run \in database
  /\ \A a, b \in Pending : a = b

\* The inductive strengthening of CommittedIsIndexed, CheckpointHeld and
\* NoWindowSkipped.
IInv ==
  /\ TypeOK
  /\ DOMAIN staged = Runs
  /\ \A run \in Runs : staged[run] # None => ManifestOf(run, staged[run])
  /\ \A run \in DOMAIN published : ManifestOf(run, published[run])
  /\ \A run \in Pending : Abreast(published[run])
  /\ Reached(checkpoint)
  /\ NoWindowSkipped
  /\ StepsMatch
  /\ CommittedIsIndexed

\* The cursor has passed the contract, or the lane has come to its end.
Passed(manifest, lane, r) ==
  lane \in manifest.done \/ ~After(Place(r), manifest.cursor[lane])

\* What is to be found in a run that is not yet published.
Brought(run, manifest) ==
  /\ manifest.purpose = "incremental" =>
       /\ IsFiniteSet(manifest.got) /\ manifest.done \subseteq Lanes
       /\ manifest.cursor \in [Lanes -> Int \X Int]
       /\ \A lane \in Lanes, r \in Rows \ moved[run] :
            Matches(r, lane, manifest.window) /\ Passed(manifest, lane, r)
            => <<r, updated[r]>> \in manifest.got
  /\ manifest.purpose = "identity_refresh" =>
       /\ manifest.ids \subseteq Rows /\ manifest.done \subseteq manifest.ids
       /\ manifest.complete => manifest.done = manifest.ids
       /\ \A r \in manifest.done \ moved[run] :
            updated[r] # Absent => <<r, updated[r]>> \in manifest.got

\* The inductive strengthening of RunHoldsItsRange.
RangeIInv ==
  /\ DOMAIN moved = Runs
  /\ \A run \in Runs : staged[run] # None => Brought(run, staged[run])
  /\ pc \in {"extract", "publish"} => Brought(work.run, work)

================================================================================
