# Verification of observatorio-secop

TLA+ modules for the parts of this repository that keep state: they are
translated from the source, model-checked with TLC on small instances and, for
every module but the abstract specifications, proved with TLAPS for every value of
the constants as far as section 5 says.
Paths are relative to `src/observatorio_secop/` unless they begin with another
directory of the repository.

Run a model with `tlc -config <name>.cfg <module>.tla` and check the proofs with
`tlapm <module>_proofs.tla`. `PROJECT.json` has, for every run, its
module and properties; for every definition, the lines it was translated from;
and for every property, a variant of one definition (marked "Variant:" in the
module) that breaks it.

## 1. The system

The program keeps an analytical copy of Colombian public contracts (SECOP).
Data go through six layers, each with a store of its own and none with a
transaction that spans two of them:

    Socrata source --(requests under a budget)--> Bronze runs (files, SQLite)
      --> Silver versions (files) --> warehouse (PostgreSQL, one active version)
      --> candidate publication (dbt, private schemas) --> active publication
      --> consumers that pin a publication for an operation

A *pipeline execution* (Airflow or the command line) drives the layers in order
and keeps a receipt of each stage; operators may also act on every layer alone.

| Component | State | Operations | Hard behaviour |
|---|---|---|---|
| Publication registry (`publication/store.py`, `lifecycle.py`) | rows of `publications`, the `active` pointer with its generation, the `activations` log, schemas | reserve, retry, mark_failed, seal, discard, activate/restore, cleanup | compare-and-swap against stale operators; retention against active readers; capacity |
| Readers (`publication/readers.py`) | a descriptor with a deadline | resolve, validate, fetch | each step is a transaction of its own; cleanup runs in between |
| Publication build (`publication/cli.py`, `capture.py`, `build.py`) | workspace schemas, an advisory lock, a receipt | capture, dbt, measure, seal | process death at any step, two builders, a warehouse that moves |
| Population campaign (`ingestion/campaign.py`, `reconcile.py`, `population_plan.py`, `transport.py`, `storage.py`) | ledger of reservations and invocations, pages, the published run, a row in SQLite | invoke, grant, reserve, request, retry, record, pause, finish, commit, clean | answers lost after the charge; resumption under keys and grants; a source that changes under the scan |
| Incremental ingestion and identity refresh (`ingestion/runner.py`, `query.py`, `refresh.py`, `state.py`) | staged pages, published runs, tables `runs`, `observations`, `checkpoints` | run, resume, page, prepare, commit, mark, reconcile | a source that moves between pages; rename, SQLite and manifest written one after another; resumption of an older run |
| Silver versions (`processing/silver/storage.py`, `population.py`) | staging, versions, invalid | build, verify, rename, clean | builders of one deterministic identifier that overlap or die |
| Silver contents and their verifier (`processing/silver/transform.py`, `quality.py`, `conditions.py`, `refresh.py`, `population.py`; `warehouse/bundle.py`, `population_bundle.py`) | what a version says of its runs, table, rejects and lineage | build from runs, continue, refresh, adopt, verify | the writer and the verifier are two programs; runs are chosen again by name, versions continue versions |
| Silver selection (`processing/silver/selection.py`) | current, scope binding, registry, adoptions | select, rollback, restore, adopt | four files written one after another; decisions older than the lock |
| Warehouse (`warehouse/`) | rows, registered versions, active version, history, scope binding, adoption | load, restore, adopt | decisions older than the lock; schemas that an earlier loader left; manifests rewritten under one name |
| Pipeline (`orchestration/`, `dags/`) | receipt, execution lock, workspace binding | run a stage, extend a grant | death between effect and receipt; retries hours later; operators in between |
| Source profile, configuration, identity and formats, SQL of dbt | none, or files of one command | pure computations | -- |

What makes each correct, in a sentence: the registry never overrides a decision
it has not seen and never takes a publication from a reader; a build seals
exactly what was reserved and tested; a campaign never spends more than its
ceilings and never claims a coverage it has no evidence of; a complete run holds
what stood in its window, and the checkpoint passes nothing that contiguous windows
asked for; a Silver version is whole,
immutable, accepted by its verifier and never older than what it continues; what
is authoritative stays one population of one scope, in Silver and in the
warehouse; and a pipeline's receipt says what happened. `PROJECT.json` lists every
component, the unmodelled ones included, and under "hazards" what could go
wrong, at its line, with the properties that would show it.

## 2. The modules

| Module | Models | Checked in |
|---|---|---|
| `PublishedAnalytics` | what consumers are promised: an abstract specification | (refined by the next) |
| `PublicationLifecycle` | the registry and its readers, one action per transaction | `PublicationLifecycle` |
| `PublicationBuild` | the processes that build candidates, over the registry | `PublicationBuild` |
| `PopulationCampaign` | one metered campaign, one action per durable effect | `PopulationCampaign`, `PopulationCampaignCeiling` |
| `IncrementalIngestion` | incremental runs and identity refreshes, with the checkpoint | `IncrementalIngestion` |
| `SilverAssembly` | what a version says, its writer and its verifier | `SilverAssembly` |
| `SilverVersions` | the directories of one version | `SilverVersions`, `SilverVersionsTorn` |
| `AuthoritativePopulation` | what a store of populations promises: an abstract specification | (refined by the next two) |
| `SilverSelection` | which version is authoritative, one action per file | `SilverSelection` |
| `WarehouseLoad` | the same decision in PostgreSQL, one action per transaction | `WarehouseLoad` |
| `PipelineExecution` | executions, receipts and workers, over all the layers | `PipelineExecution`, `PipelineLiveness` |

Eight of them have a module of theorems beside them, `<module>_proofs`: all but the
two abstract specifications, which are what is implemented, and `PublicationLifecycle`,
whose theorems stand before those of the builds, which rest on them, in
`PublicationBuild_proofs`.
The `MC*` modules give constants their values and, where section 4 says so, choose a
behaviour of the environment once and for all in `Init`.

### 2.1 Publication registry

*State.* `state`, `everActive`, `retainLeft`, `spaces`, `expected` are columns of
`publications` (and which schemas exist); `active`, `previous`, `generation` the
row of `active`; `activations` the table of that name. `seen` is what an operator
read before it decides, `pin` a reader's descriptor.

*Granularity.* Every operation is one PostgreSQL transaction under the global
publication lock (store.py:51-71), hence one action. A reader's resolve, validate
and fetch are three.

*Time.* The code compares stored instants with `clock_timestamp()`. The model
stores what is left until the instant and `Tick` counts down. Retention (24 h)
and operation (1 h) are constants with the one fact the code relies on: an
operation is not longer than the retention.

*Abstract specification.* `PublishedAnalytics` has a latest publication,
available and retired ones and what each reader holds. `ConsumerPromise` is
its specification under the refinement mapping at the end of
`PublicationLifecycle`: TLC checks it with the invariants, and theorem
`KeepsPromise` proves it.

### 2.2 Publication build

Extends the registry with the processes that build: where each is in `_build` and
`_run_candidate_build`, who holds the candidate's session lock, what the
workspace's tables were built from. `Break` is any failure that nobody refuses
(dbt, PostgreSQL, disk), `Crash` the death of a process, `WarehouseMoves` another
load. Every action is an operation of the registry with what the process does beside
it, or leaves the registry alone, so that what is proved of the registry holds of the
builds too (`BuildsKeepPromise`).

### 2.3 Population campaign

One action is what happens up to the next durable effect or exchange with the
source. `page` is the durable manifest with its ledger, `files` the pages, `run`
the published directory, `m` the manifest in memory. The source is metered and
mutable: when a query reaches it, it may hold any of `Versions`. An answer is the
first `limit` contracts after the cursor. `Verified` is
`verify_population_run` without the hashes: pages follow the plan, receipts match
pages, grants and ceilings are respected. `Manifest` has the types of what is kept;
`NoRun` is the directory before the rename, with the fields of a run so that what is
said of its manifest has a meaning before there is one.

A campaign comes into being in two steps: `Start` makes the directory, `Create` writes
the first page state, and a process that dies in between leaves it `Stranded`: every
later command finds a directory without page state and refuses (reconcile.py:84-85).
`clean-staging` takes no lock and deletes file by file while the campaign goes on
(`CleanOpens`, `CleanUnlinks`, `CleanEnds`); `removal` says whether it is under way and
whether the rename of the campaign has overtaken it, in which case it goes on under
`runs/`.

### 2.4 Incremental ingestion and identity refresh

*State.* `staged` is the page state of each run in staging, `published` the manifests
under `runs/`, `committed` the ones that say so; `database`, `index` and `checkpoint`
are the tables of `state.py`; `work` and `pc` are the process that holds the dataset
lock, of which there is at most one. `updated` is the source's clock for each contract:
a contract may appear or be updated between any two pages, and rows become visible in
any order of their timestamps.

*Steps.* A command reconciles what a dead process published, creates or resumes its run
with the window of `build_run_window`, takes pages from the `primary` and the
`null_watermark` lane after a cursor of (timestamp, identifier), or the batches of a
refresh, publishes by one rename, reads the pages again, commits to SQLite and marks the
manifest. Each of these is an action, and a death or an error may come at every one.
`clean-staging` takes no lock: it opens a directory in one action and empties what it
opened in another, wherever a rename has put it since (`lost`), of its `manifest.json`
too if that was there when it read the directory (`headless`): reconciliation no longer
sees such a run, and `mark_committed` would write the manifest again.

*Windows.* Each command has an overlap of its own, as the configuration may change
between two of them; it is kept in the run's window, which a resumption compares.

*History.* `moved` collects the contracts that changed while a run was made; what a
complete run owes is about the others.

### 2.5 What a Silver version says

`SilverAssembly` has the committed runs (`bronze`), the promoted versions and the
adoptions. A row is an identifier in some spelling, the source's clock, a date and its
defects; that is what rejection, keys, collisions, the order of versions, accounting,
conditions and drift tell apart. `Promote` is what the writer does after its own
controls; `Verified` is `verify_manifest_bundle` and the verifiers it calls, written from
the warehouse's code and not from the writer's, so that `WrittenIsVerified` compares two
translations. Files, bytes and digests are identities. There are one scope, one source
profile and one configuration, and one page per run and lane: the order of the pages
within a run is `IncrementalIngestion`'s and `PopulationCampaign`'s.

### 2.6 Silver's directories and its selection

`SilverVersions` looks at one deterministic identifier: directories are numbered
objects that paths (`staging`, `version`, `invalid`) point to, because a rename
carries a directory that another process still holds. `Remove` is
`shutil.rmtree`, which unlinks files one by one. `schedule` says whether the
commands run one at a time, as the DAG's writer pool runs them, or overlap; it is
chosen in `Init`, because some properties hold only of the first.

`SilverSelection` takes whole versions. A command first reads what it needs
without the lock (`Populate`, `Rollback`, `Restore`, `Adopt`), then waits, decides
under the lock (`Decide`), and writes its files one action at a time
(`WriteAdoption`, `WriteScope`, `WriteCurrent`, `WriteRegistry`). `Interrupt` is a
death or an `OSError` at any of these points.

### 2.7 Warehouse

Every command is one transaction whose first statement waits for the advisory lock,
and later statements read what was committed before: `Load`, `Restore` and `Adopt` are
one action each, and a failure is no action. The interleavings left are between commands, so
a version may be loaded or restored at any time with any expectation. `Init` ranges over
a new schema and over the ones an earlier loader leaves, without the activation
relations, which the first command migrates (`Ensured`). A version is the identity of a manifest,
of which two may share a directory name (`Id`). A row carries the version it was
last written from and whether it is stamped with that manifest's contract hash.

*Abstract specification.* `AuthoritativePopulation` has a current version, the ones
ever chosen and the scope; it binds, advances to a child of what is current, or returns to
something chosen. `PopulationSpec` states in `SilverSelection` and in `WarehouseLoad`
that each implements it. In `SilverSelection` the files of the Silver root are the state; in
`WarehouseLoad` `current` is what the first command would find active and `chosen` the
registered versions.

### 2.8 Pipeline

A worker takes an execution's lock, writes its intent (`Begin`), runs the stage in
as many actions as it has transactions (`candidate`: reserve, capture, seal;
`activate`: read the row, read the pointer, swap; `silver`: publish, select), and
writes the receipt (`Finish`). It works on its own copy of the receipt, as the
code does, so that a lost update is possible if the lock fails. `Crash` happens
between any two actions. Producers appear as what their own modules promise:
a campaign commits when its grants suffice, Silver and the warehouse move only
to a child of what is current, the registry swaps a pointer. A campaign whose worker
died within `create_staging` is `stranded`: its identifier is the execution's, so only
an operator who cleans staging brings it on. Operators activate,
discard and restore in each layer at any step, and load a published version into the
warehouse themselves, whether Silver has selected it or not (`OperatorLoads`,
`docs/population-recovery.md:44,60`).

Left out: campaigns and versions that operators make on their own, outside of any
execution; a removal that a rename overtakes, which is `PopulationCampaign`'s; a changed recipe or input, which is refused before any effect
(worker.py:105); the workspace binding, which is complete from `Init` on; and
retention capacity, which is the registry's.

## 3. What is checked

All bounds are constants of the modules or values in the `.cfg` files.

| Run | Instance | What it shows |
|---|---|---|
| `registry` | 4 publications, 3 slots, 1 operator, 1 reader, 4 activations | capacity, protection, pinned reads, order of decisions; the registry implements `PublishedAnalytics` |
| `build` | 2 candidates, 2 processes, 2 Silver versions, 1 failure; or one process alone and 2 failures | what is sealed is one validated build of what was reserved; alone, every captured candidate is concluded |
| `campaign` | 5 contracts, page size 2, ceilings of 8 rows and 6 attempts, grants of 3 and 5, 2 keys, 2 invocations, 1 crash or clean-staging, at any file; or one patient operator with whole grants | charges and ceilings, resumption, coverage, finality; a patient operator's campaign is committed unless it was stranded |
| `campaign_cleaned_ledger` | the same, 1 clean-staging | *violated*: see section 6 |
| `ingestion` | 2 runs, 2 contracts, windows 1-3 and 2-2, overlaps 0 and 1, pages of 1, at most 3 rows, 1 change, 1 death or clean-staging | a complete run holds its range; the checkpoint moves back by no more than an overlap and, with contiguous windows, skips nothing; files, database and index agree |
| `silver_assembly` | 3 runs and 3 versions; one contract under two spellings and another one | the verifier accepts what the writer promotes; nothing older, no hidden reject, no drift |
| `silver_versions` | 2 builders, 3 builds, 2 crashes, 1 cleaning, serial and overlapping | serial: a version is whole and a repeated build ends; always: no file of a version is altered |
| `silver_versions_torn` | 2 overlapping builders | *violated*: see section 6 |
| `silver_selection` | 7 versions of 2 scopes, 2 processes, 1 interruption | one population, one scope, no stale move, an interrupted selection can be repeated; implements `AuthoritativePopulation` |
| `warehouse` | 10 versions of 2 scopes, a history of 9 | rows are the active version's, the history explains it, nothing registered is lost; implements `AuthoritativePopulation` |
| `pipeline` | 2 rival executions, 2 workers, 1 failure or death, 1 intervention | receipts are true, activations as decided, lineage through all layers |
| `pipeline_liveness` | 1 execution, 3 failures, an exhausted grant | repeating the unfinished stage ends with its publication active, unless its campaign is stranded |

*Why these bounds.*

* Registry: four publications are the fewest with which three slots are full and a
  fourth waits; two activations and a restoration need three.
* Campaign: two versions of the source, one losing and one gaining a contract, with a
  scope of three and pages of two, make a page end inside, at and after the scope.
  `MaxFaults` joins crash and clean-staging: one or the other happens, not both.
* Ingestion: windows that nest let an older run be resumed after a newer one was committed,
  which is the only way the checkpoint moves back. 2-2 begins beyond the first window that
  an empty database leaves open: the behaviours that begin with it have the gap that
  `NoWindowSkipped` does not promise to close, the others are contiguous. Pages of one row put a page
  boundary between two contracts of one instant; three rows are fewer than two lanes
  can bring, so a run may be truncated. One death at any step of the publication
  leaves every state that reconciliation finds, one removal under way at any step every
  directory it may meet; `MaxFaults` joins the two, as in the campaign.
* Silver assembly: three runs are an incremental one, a refresh or campaign that
  corrects or contradicts it, and a campaign after that; three versions make a lineage
  in which a version continues one that continues another. `Focus` leaves out runs
  that nothing will use: at most two wait for a version, each version has the last
  run, and only the last campaign is cut short.
* Warehouse: a legacy version with an heir, its child and a rival; a root, its heir, one
  of another scope, a preview and a manifest rewritten under an existing name
  (`twin`). A history of nine lets any of them be left and come back.
* Silver and pipeline: two processes are enough for every stale read and for one that
  removes a directory while the other renames it. Two executions give every rivalry for
  one pointer and one slot. One failure at any step, with everything repeatable, gives
  each step's crash; liveness has two or three because repair itself may fail.

Symmetry is used only in runs without liveness, over model values that no
definition names.

*Deadlock* is checked except where commands simply end (`SilverVersions*`),
executions may all be concluded and bounds exhausted (`Pipeline*`), or all runs and
versions have been made (`SilverAssembly`).

## 4. Fairness

* `build`, when `alone`: one process is left, which goes on, and whoever operates an
  unfinished candidate retries it (strong fairness: a retry may be refused while
  a build is alive). With two retrying processes this is not enough: each may
  refuse and fail the other for ever. The other behaviours of the run have no fairness.
* `campaign`, when `patient`: a process goes on, the source answers or times out, and the
  operator repeats the one command with its key and a grant of everything, as
  `docs/population-recovery.md` describes, and does not clean staging meanwhile. A death
  within `create_staging` makes all of it in vain, so the property excepts `Stranded`,
  the one state from which the command does not go on. With small
  grants the property would be false: a batch that is larger than the grant pauses
  forever. The other behaviours have no fairness.
* `silver_versions`: commands end, and a build without a version is asked for
  again.
* `pipeline_liveness`: a worker goes on; the scheduler or an operator repeats the
  first stage without success, and extends an exhausted grant
  (`docs/pipeline-orchestration.md`, "Reintentar conservando el insumo"). Strong
  fairness, because another worker may hold the lock now and then. Nobody is said to
  clean staging, so an execution may end `stranded`, and the property says so.

Failures, crashes and interventions are never fair: they are only bounded.

## 5. What is proved

Assumptions: the `ASSUME`s of each module, nothing else. TLC evaluates them in
every run, and has checked each inductive invariant on the instance of the module's
run. Every type invariant is proved, and therefore not repeated in the runs.

### 5.1 Publication registry

`PublicationBuild_proofs`, for any number of publications, readers and
operators, any `MaxRetained > 0` and any retention not shorter than an operation:

| Theorem | States |
|---|---|
| `TypeCorrect` | `TypeOK` is an invariant |
| `Inductive` | the inductive invariant `IInv` |
| `PinnedStaysReadable` | a reader inside its hour finds its namespace |
| `RollbackAvailable` | the active publication and its rollback target are complete |
| `NoActivationLost` | every activation was decided on the generation it replaced |
| `CapacityReserved` | retained publications and the candidate never exceed `MaxRetained` |
| `LeavingRestartsRetention` | leaving protection restarts the whole retention |
| `KeepsPromise` | every behaviour of the registry is one of `PublishedAnalytics` |

*The argument.* `PinnedReadable` is not inductive: that a reader finds its schema
tomorrow depends on how long the publication will be kept. `IInv` strengthens it
with `PinnedHorizon`: the publication a reader has pinned is either protected, or
its `retainLeft` is at least what is left of the reader's operation. Activation
keeps it because what leaves protection gets the whole retention, which by
`TicksAssumption` is at least an operation; `Tick` keeps it because both count
down together; `Cleanup` keeps it because only `retainLeft = 0` is eligible. With
`NamespacesMatchState` (which schemas a state has), `ProtectedAvailable` and
`DecisionsInOrder` it is inductive. `CapacityReserved` is proved separately, from
finiteness of the publications: reservation demands a free slot and no other
candidate, so the candidate's slot is already counted when it is activated, and
activate's own capacity check (lifecycle.py:84) can never fail. `KeepsPromise` maps
each action to an abstract one or a stutter, `IInv` supplying the guards of
`Retire` and `Pin`.

### 5.2 Publication build

`PublicationBuild_proofs`, for any number of candidates and processes, any failures,
crashes and movements of the warehouse:

| Theorem | States |
|---|---|
| `BuildInductive` | the inductive invariant `BuildIInv` |
| `SealsWhatWasTested` | what is sealed is one complete, tested build of the version reserved |
| `BuildsUndisturbed` | the workspace of a build under the candidate lock is not taken from it |
| `BuildsKeepPromise` | every behaviour is one of `PublishedAnalytics` |

*The argument.* `SealBuilt` runs after the candidate lock is released, from a receipt in
memory, so that what is sealed matches the reservation is not a fact about that step. `Progress`
says at each step of a process what its candidate is: between registering and measuring,
the tables and schemas are the process's own, because the candidate's lock is held by
one process and `DiscardCandidate` and a second build need it; from `merge` on, its receipt is of
a finished build from the pinned version. `CapturedAsPinned` connects the capture
to the reservation. The types include that a lock's holder is a process whose step holds
it. `BuildsKeepPromise` follows from `KeepsPromise`, since each action is one of the
registry's or leaves its variables alone (`BuildersUseRegistry`).

### 5.3 Population campaign

`PopulationCampaign_proofs`, for any source, scope, baseline, ceilings, grants, keys,
page size and retries:

| Theorem | States |
|---|---|
| `AlwaysCharged` | the durable ledger covers whatever the source was asked and served, and stays under the ceilings |
| `LedgerInductive`, `ChargedInductive` | its inductive invariants `LedgerIInv` and `ChargedIInv` |
| `HistoryAccepted` | a campaign rejects of its own history only a directory that never had a page state: all else that is staged or published passes the verification (`ResumeAccepted`) |
| `AcquisitionShown` | an acquired campaign came to the end of both lanes and saw everything the source had all along; it has the pages to show for it, unless a removal was overtaken by its rename (`CompleteAcquisition`) |
| `EvidenceInductive` | their inductive invariant `EvidenceIInv` |
| `TypeCorrect` | types; a request is attempted at most `max_retries + 1` times |
| `KeyInductive`, `KeysHold` | a process works only under the invocation of its own key and grant |
| `PublishedInductive`, `PublicationIsFinal` | what is published keeps its manifest, is committed once, and nothing is staged or asked after it; nothing but an overtaken removal takes a file from it |

*The argument.* `DurablyCharged` compares two counts that different steps move: the
ledger's when a request is reserved and when its answer is recorded, the source's when
it answers, and a process may die in between. `ChargedIInv` adds what is still open:
what the source has been asked plus what the request under way may still cost
(`Pending`) is at most what the ledger says. Sending moves a part of `Pending` to the
other side; a retry reserves one more attempt before it sends; recording lowers the
last reservation to the rows received, and those were counted when they were sent; a
death only takes `Pending` away. For this the manifest in memory must have the durable
ledger, and the last reservation must be the request's own (`Asking`). That the ledger
stays under the ceilings needs that every manifest kept is within its grants
(`LedgerIInv`): `NewGrant` gives a grant no more than what the ceilings leave, and the total
over all invocations grows only in the last one. The sums are `Folds` over the
ledger's indices; that one entry more adds its cost, and that one rewritten changes the
sum by the difference, is proved from the definition of a fold over a finite set by
minimal counterexample (the library's well-foundedness of strict subsets), since
induction theorems proper cannot be instantiated.

The verification walks the pages of a whole history; the proof needs one page. `Follows`
says of a number of scans that they come first, each from the cursor the earlier ones
reached, all but the last full, then the fixed batches, and what lane progress follows; a
new page extends it by one scan (`ScanContinues`) or one batch (`BatchContinues`), because
the request was computed from that same progress (`Asking`). A receipt is matched when it
is recorded: its page is one past the others, so it names no page that had a receipt
(`RecordedReceipts`), and a reservation still open names none (`ReservedReceipts`). The
process works on the durable pages, and the file of a page is written before the
manifest names it, under a number no page has. What the pages cover is an invariant of
its own (`Covered`): the first rows after the cursor leave out nothing up to the last of
them, and a short answer leaves out nothing at all (`FirstCounts`, `FirstIsClosed`), so a
contract that every version of the source holds is in some page once the cursor is past
it, or the scan is done; a batch is what lies between two offsets of the baseline
(`BatchCounts`). `EvidenceIInv` holds of every manifest kept, whether or not
clean-staging ran; what it says of files holds until clean-staging takes them. Before the
first page state there are no files, and no process but the one that made the directory,
so the directory that a death leaves there is empty; after the rename only `removal = "run"`
touches them. A campaign
is cut short only while its plan has something left to ask (`EndOfPlan`), so that no
truncated campaign was complete.

What a process works under was decided by `load` from a ledger that
another may have extended since; `KeyIInv` says that from `grant` on, whatever matches the
process's key in its manifest is its last invocation, with the limits it asked for, and
that every ledger kept is a sequence. `PublishedIInv` says where a process may be beside a
published run: before the decision to start or after the rename, and that a removal
is under way in staging before it and in `runs/` after it. A second staging then
has no step to come from.

### 5.4 Incremental ingestion

`IncrementalIngestion_proofs`, for any contracts, windows, overlaps, page size and limit,
any number of runs, deaths and changes of the source:

| Theorem | States |
|---|---|
| `IngestionInductive` | the inductive invariant `IInv` |
| `IndexIsCommitted` | manifests never say more than the database, nor the database more than what is published; the index is what its runs brought, once |
| `RangeInductive`, `CompleteHoldsItsRange` | a complete run holds every contract that stood in its window while it was made (`RangeIInv`) |
| `CheckpointMovesLittle` | the checkpoint is what a complete run went up to, and moves back by no more than the overlap of the run that moves it |
| `NothingIsSkipped` | with contiguous windows, complete runs asked the source for every time up to the checkpoint (`NoWindowSkipped`) |

*The argument.* The commit writes the candidate checkpoint of a run that may have been
created long before, so that it is not monotone. `Abreast` bounds what it loses: a run
that may still be committed asked for no less than what the checkpoint of now leaves
open, because no other is committed meanwhile and a resumed run must have the window of
now; the checkpoint becomes the end of its window, or more. That
nothing is skipped up to the checkpoint of now does not suffice for a run that was
created under another one: `Unbroken` says it of the checkpoint that every manifest was
made with (`before`), and stays true because later commits only ask for more. The
run itself asked from `before` or from its own beginning on, which contiguous windows put
no later than the instant after `before`; so it closes what is left up to its end
(`CompleteExtends`). `StepsMatch` ties each step of the process to what is on disk
and in the database: at most one published run is not in the database, and none while
another is made, because every command first reconciles.

`RunHoldsItsRange` is about what many pages brought together. `RangeIInv` says it of every
moment of a run: what did not move and what the cursor of a lane has passed has been
brought (`Brought`). A page keeps it because it takes the first rows of the order after
the cursor and the cursor stops at the last of them, so nothing is passed over; a short
page ends its lane because then nothing is left. A contract that is updated meanwhile
leaves the statement (`moved`). The first rows of a finite set in an order are found as
the minimal member of a family of sets (`MinimalMember`, `Precedence`, `FirstMembers`).

### 5.5 Silver versions

`SilverVersions_proofs`, for any number of builders, cleaners, builds and deaths:

| Theorem | States |
|---|---|
| `SerialInductive` | types, whatever overlaps; alone, the phases of a build (`SerialIInv`) |
| `VersionNeverAltered` | however commands overlap, no file of a version is written or replaced: at most it is lost |
| `SerialIsWhole` | commands run one at a time leave no torn version, wherever they die |

*The argument.* Alone, staging holds what the builder's own steps wrote: `Phase` lists it
step by step, and a rename moves what `Filled` says is complete. Beginning a build empties
staging first, so nothing is needed of what a dead process left there.

Overlapping builders have no such theorem (section 6). What remains true is
`NeverAltered`: builders write by the path of staging, which a rename takes from the
directory that becomes the version, and a rename replaces no version that has a file left; a
removal goes on in the directory it opened, but only unlinks. It is not true that one content is ever
selected: with three overlapping builders and a `clean-staging`, a version can be selected,
emptied by a removal that began before its rename, and built again with other
data. Serially that cannot happen (`SelectedStays`, in `WholeWhenSerial`).

### 5.6 Silver contents

`SilverAssembly_proofs`, for any contracts, rows, scope and answers of the source, any
limit on rejections and any number of runs and versions:

| Theorem | States |
|---|---|
| `AssemblyInductive` | the inductive invariant `IInv` |
| `AlwaysVerified` | the verifier accepts every version the writer promoted |
| `NeverOlder` | a version has every contract of what it continues or refreshes, no older |
| `NeverHiddenReject` | no contract without a later invalid observation has one, unless the version says it could not attribute |
| `NeverDrifted` | behind an authoritative version no campaign saw a member outside the scope |

*The argument.* Runs and versions are only added, so what a version was made from stays
as it was: `VersionSound` says of each version what the verifier asks and what the other
properties follow from, `RunSound` of each run what the source's queries guarantee. The
verifier recurs along the lineage, a version before each of its nodes, and its
recursive function is determined by the identifiers that grow; that it returns TRUE
everywhere is shown by the least version where it would not. The writer chooses, among the
observations of one contract, the newest in an order of updates, extractions and
positions, and the verifier looks for that row again; the order is total on what a run
holds, which gives the choice on both sides and, for a larger set of runs, `NeverOlder`.
Rejects are counted with the cardinality of finite sets. A reject that names a
contract is linked to it or counted as unattributable, and the state of the condition
is derived from those links: `NeverHiddenReject`.

### 5.7 Silver selection

`SilverSelection_proofs`, for any manifests that satisfy `ManifestAssumption`, any
number of processes, commands and interruptions:

| Theorem | States |
|---|---|
| `TypeCorrect` | types, and one process at a time past the selection lock |
| `Inductive` | the inductive invariant `IInv` |
| `PopulationIsOne` | everything ever authoritative descends from one root |
| `ScopeIsOne` | everything authoritative has the scope of the workspace |
| `NoStaleMove` | the pointer moves to a child of what it leaves, or by a restoration that names it |
| `RepairAccepted` | repeating an interrupted selection is never refused |
| `Implements` | every write is a step of `AuthoritativePopulation`, or none |

*The argument.* A command decides first and writes later, file by file. `IInv` adds
`CommandSound`: what a process knew when it decided still holds at each file it
writes, because the selection lock is its own until it ends or dies. `WriteCurrent`
then keeps `OnePopulation`, since the target is registered or a child of what is
current, and `OneScope`, since the scope was bound before. The other part is
`current = None => chosen = {}`: only the first selection of a workspace has no
predecessor, so a second root cannot appear. A death between two files needs
nothing else, because every file is written in an order in which what is already
written is true without the rest.

### 5.8 Warehouse

`WarehouseLoad_proofs`, for any bundles that satisfy `BundleAssumption` and
`RecordAssumption` and a history of any length:

| Theorem | States |
|---|---|
| `TypeCorrect` | types |
| `InductiveHolds` | the inductive invariant `Inductive` |
| `RowsAreActive` | the rows are exactly the active version's |
| `HistoryExplains` | the history is one chain that ends in the active version |
| `WayOn` | repeating the active version, or restoring a registered one by naming it, is never refused |
| `Implements` | every command is a step of `AuthoritativePopulation`, or none |

*The argument.* A load updates only the rows that differ, so the table could keep
something of an older version; it does not because the comparison covers every column
but two. `Inductive` splits the states: before the migration (`Earlier`) the rows are of one
registered version; after it the history explains the pointer (`Explained`) and everything
registered keeps its evidence (`Kept`). `WayOn` unfolds the guards of `load` and `restore` and
shows each from those parts; it is what an operator relies on after a connection lost
at COMMIT.

### 5.9 Pipeline

`PipelineExecution_proofs`, for any number of executions and workers, any baselines
and grants, any number of deaths, failures and interventions of operators:

| Theorem | States |
|---|---|
| `TypeCorrect` | types, and one worker at a time runs an execution |
| `Inductive` | the inductive invariant `IInv` |
| `ReceiptsTrue` | what a receipt calls a success has happened |
| `ActivationsAsDecided` | an execution replaces exactly what was active when it was validated, once |
| `LineageHolds` | what consumers read was loaded and selected, and whatever is loaded or selected was built from a committed campaign |
| `SuccessesStay` | no receipt is overwritten from an old copy |

*The argument.* A worker writes back a copy that it took when it began, so the
receipts are safe only if the copy is not old. `IInv` says so in `CopySound`: the copy
is the receipt, but for the stage the worker runs, and it pins the pointer the
receipt pins. `StepSound` says what the worker has done at each step of its stage,
and `ReceiptSound` what stands behind each success. Steps of others keep these facts because
what they speak of does not go back (`Lasting`): a campaign stays committed, a
version stays selected or loaded, a row never returns to be built, the journal of
activations only grows. The swap appends to that journal only if the pointer is the
pinned one, so the entry before it is what the execution was validated against; for
the same reason it cannot succeed twice. `LayersSound` links the layers: a candidate's
copy is of its own version, which was selected and loaded, in this order by the execution
and in any by operators; both sets hold only what Silver published, from a committed
campaign.

### 5.10 Only model-checked

* Liveness (`AloneConcludes`, `PatienceCommits`, `EventuallyBuilt`, `EventuallyPublished`), which
  depends on fairness and `ENABLED`, out of the prover's reach.

## 6. Findings

* `silver_versions_torn`. `create_staging` (storage.py:56-63) removes
  `staging/<id>` although it may belong to a running builder of the same
  identifier; no lock covers `verify_staging`, `os.replace` and `rmtree`. TLC
  finds a rename of a directory that the other process is deleting: the immutable
  version of `docs/silver-quality.md:128` loses files after its verification.
* `campaign_cleaned_ledger`. `clean_staging` (ingestion/storage.py:138-144) deletes
  the only copy of a named campaign's ledger; the same campaign and key then start
  with whole ceilings, although `docs/population-recovery.md:83` says that repeating
  them neither adds an invocation nor recharges rows or requests.

Behaviours worth knowing that contradict no statement of the repository, or only by
omission (the hazards in `PROJECT.json` have the lines):

* a candidate refused as stale keeps the only candidate slot until it is discarded;
* running an earlier stage after the outcome takes the receipt's status back from
  `success`;
* a Silver version that was current but not registered before a crash, and was then
  superseded, cannot be restored;
* grants smaller than a member batch pause without progress;
* the checkpoint moves back when an older incremental run is resumed after a newer one,
  and the next window asks again for what was already committed;
* a window that begins beyond the checkpoint is accepted, moves it, and leaves a gap:
  a later window over the gap begins at the checkpoint less the overlap
  (config.py:123-142), so that nothing asks for it any more;
* a death between `mkdir` and the first `page-state.json` (ingestion/storage.py:58-60)
  leaves a campaign that every later command refuses (reconcile.py:84-85), until
  `clean-staging` or a hand removes the directory; nothing was asked or charged by then. A
  pipeline execution, whose campaign's name is fixed, stands still meanwhile;
* `clean-staging` of Bronze takes no lock and may empty a directory that its run has already
  renamed into `runs/`, although `docs/bronze-ingestion.md:84` says that published runs
  are not removed. The commit of an incremental run then refuses it (`lost`), so the database
  and the index stay true, and so does the reconciliation that begins every later command
  (runner.py:104-138), until the operator takes the directory away; if the manifest went too
  (`headless`), no command sees the run any more. A campaign may be committed or not,
  with files missing (`removal = "run"`), and what its manifest says stays true;
* rows that the earlier warehouse loader wrote keep a null contract hash after adoption and
  until a load changes them (warehouse/migration.py:32-49); `stamped` is that bit;
* a refresh may be acquired against the baseline of a population, but no Silver version
  can use it (refresh.py accepts what the population build then refuses).

## 7. Not modelled

* *SQL and dbt* (projections, grants, inventory, Gold models and tests): PostgreSQL
  evaluates them. `PublicationBuild` has the schemas they fill and that they may fail.
* *Conversions of single columns*, pyarrow and Spark, hashes and canonical JSON: a row is
  what the rules tell apart, a hash is equality of what it hashes.
* *Pipeline binding* (orchestration/binding.py): four root files and a database row, written
  under both root locks and compared before they are written. `PipelineExecution`
  begins in a bound workspace.
* *Source profile*: a development tool whose output is reviewed by hand.
* *Configuration and contract documents, identity and source formats*: read once, without
  state.
* *HTTP, command-line parsing, CI scripts and images*; the `api` and `scoring` packages are
  empty.
* *An orphaned dbt*, which goes on after its command was killed: what it does to the
  database depends on the operating system.
* In the pipeline: a changed recipe or input, which is refused before any effect
  (worker.py:105), and retention capacity, which is the registry's.

What could follow: a module for the binding, whose hazard is a death between two of its
writes.
