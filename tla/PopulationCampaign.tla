--------------------------- MODULE PopulationCampaign ---------------------------
(***************************************************************************)
(* One signing-population campaign: ingestion/reconcile.py, campaign.py,   *)
(* population_plan.py, transport.py and the parts of storage.py and        *)
(* state.py they call.  A campaign asks a metered, mutable source for      *)
(* metadata, for every contract signed in a window (keyset pagination) and *)
(* for the members of an earlier baseline (fixed batches).  Every physical *)
(* attempt is charged to a finite campaign ceiling and to the grant of the *)
(* invocation that makes it.                                               *)
(*                                                                         *)
(* An action is what happens up to the next durable effect (an fsynced     *)
(* file, a rename, an SQLite commit) or the next exchange with the source; *)
(* the process may die between any two.  DatasetLock (state.py:35-53)      *)
(* admits one process: a second one is refused and changes nothing.        *)
(*                                                                         *)
(* Contracts are numbers because the campaign uses only their order.       *)
(***************************************************************************)
EXTENDS Integers, Sequences, FiniteSets, Functions

CONSTANTS
  Versions,        \* what the source may hold when a query reaches it
  InScope,         \* contracts signed inside the campaign's window
  Baseline,        \* contracts of the pinned Silver version
  PageSize,        \* config.page_size
  MaxRetries,      \* config.max_retries
  Ceilings,        \* [rows, attempts] of the whole campaign
  Grants,          \* the [rows, attempts] operators may offer
  Keys,            \* --invocation-key values
  NoKey,           \* a legacy invocation without a key
  MaxInvocations,  \* bound on granted invocations, for model checking
  MaxCrashes,      \* bound on process deaths, for model checking
  MaxCleans,       \* bound on clean-staging commands, for model checking
  MaxFaults,       \* bound on deaths and clean-staging commands together
  None

Contracts == InScope \cup Baseline \cup UNION Versions
Budget == [rows : Nat \ {0}, attempts : Nat \ {0}]
Kinds == {"rows", "attempts"}

ASSUME SourceAssumption == Contracts \subseteq Nat \ {0} /\ IsFiniteSet(Contracts)
ASSUME BudgetAssumption == Ceilings \in Budget /\ Grants \subseteq Budget
ASSUME TransportAssumption == PageSize \in Nat \ {0} /\ MaxRetries \in Nat
\* reservation_mode is part of the plan: all invocations are named or none is.
ASSUME KeysAssumption == NoKey \notin Keys \/ Keys = {NoKey}

VARIABLES
  staged,     \* the directory staging/<campaign_id> exists
  page,       \* its page-state.json, the durable manifest, or None
  files,      \* staging pages/<lane>-<sequence>.json, by sequence; metadata.json at 0
  run,        \* runs/<campaign_id>: [manifest, files, status], or NoRun
  committed,  \* the campaign has its row in SQLite runs
  pc,         \* where the process is; "off" when there is none
  args,       \* --invocation-key and the offered grant
  m,          \* the manifest in memory
  query,      \* the request under way: lane, $limit, attempt and answer
  outcome,    \* the terminal state being published
  asked,      \* what the source has served: [attempts, rows]
  removal,    \* clean-staging's rmtree: under way in staging, or overtaken by the rename
  crashes, cleans

staging == <<staged, page, files>>
disk == <<staging, run, committed>>
process == <<pc, args, m, query, outcome>>
bounds == <<crashes, cleans>>
vars == <<disk, process, asked, removal, bounds>>

-----------------------------------------------------------------------------
(* The manifest: the plan's lanes and pages, and the ledger *)

Lanes == {"metadata", "scope_scan", "baseline_check"}
States == {"planned", "extracting", "interrupted", "paused_budget", "failed_recoverable",
           "acquired", "truncated"}
Page == [lane : Lanes, limit : Nat, cursor : Nat, rows : SUBSET Contracts]
Receipt == [invocation : Nat, lane : Lanes, max : Nat, charged : Nat,
            state : {"uncertain", "response"}, page : Nat \cup {None}]
Invocation == [key : Keys, grant : Grants, state : States, consumed : [Kinds -> Nat]]
Manifest ==
  [verified : BOOLEAN, scanned : BOOLEAN, cursor : Nat, offset : Nat,
   returned : SUBSET Contracts, pages : Seq(Page), reservations : Seq(Receipt),
   invocations : Seq(Invocation), complete : BOOLEAN, state : States]

\* None stands for the absence of a manifest, a refusal, a lane or a page number.
ASSUME NoneAssumption ==
  None \notin Manifest /\ None \notin {"campaign", "invocation"} \cup Lanes \cup Nat

-----------------------------------------------------------------------------
(* The ledger *)

Charge(r, kind) == IF kind = "rows" THEN r.charged ELSE 1

\* What the given invocations have consumed.
Consumed(x, invocations, kind) ==
  SumFunctionOnSet([i \in DOMAIN x.reservations |-> Charge(x.reservations[i], kind)],
                   {i \in DOMAIN x.reservations :
                      x.reservations[i].invocation \in invocations})

Total(x, kind) == Consumed(x, DOMAIN x.invocations, kind)
Usage(x, i) == [kind \in Kinds |-> Consumed(x, {i}, kind)]

Current(x) == Len(x.invocations)
Last(x) == x.invocations[Current(x)]
CampaignLeft(x, kind) == Ceilings[kind] - Total(x, kind)
GrantLeft(x, kind) == Last(x).grant[kind] - Consumed(x, {Current(x)}, kind)
Least(a, b) == IF a <= b THEN a ELSE b
Left(x, kind) == Least(CampaignLeft(x, kind), GrantLeft(x, kind))

\* require() examines rows before attempts, the campaign before the grant.
Refusal(x, rows) ==
  IF rows > CampaignLeft(x, "rows") THEN "campaign"
  ELSE IF rows > Left(x, "rows") THEN "invocation"
  ELSE IF 1 > CampaignLeft(x, "attempts") THEN "campaign"
  ELSE IF 1 > Left(x, "attempts") THEN "invocation"
  ELSE None

Reservation(x, q) ==
  [invocation |-> Current(x), lane |-> q.lane, max |-> q.limit,
   charged |-> q.limit, state |-> "uncertain", page |-> None]

\* Variant: the usage is not refreshed.
RecordStateOnly(x, state) ==
  IF x.invocations = <<>> THEN x
  ELSE [x EXCEPT !.invocations[Current(x)].state = state]

\* The state an invocation is left in, with its usage, by every persist.
RecordInvocation(x, state) ==
  IF x.invocations = <<>> THEN x
  ELSE [x EXCEPT !.invocations[Current(x)].consumed = Usage(x, Current(x)),
                 !.invocations[Current(x)].state = state]

-----------------------------------------------------------------------------
(* The plan *)

\* The first n members of a set of contracts, in identity order.
First(S, n) == {c \in S : Cardinality({d \in S : d <= c}) <= n}
Greatest(S) == CHOOSE c \in S : \A d \in S : d <= c
Batch(offset) == First(Baseline, offset + PageSize) \ First(Baseline, offset)
MembersDone(x) == x.offset = Cardinality(Baseline)
Complete(x) == x.scanned /\ MembersDone(x)
Missing(x) == First(Baseline, x.offset) \ x.returned

Lane(x) ==
  CASE ~x.verified -> "metadata"
    [] x.verified /\ ~x.scanned -> "scope_scan"
    [] x.verified /\ x.scanned /\ ~MembersDone(x) -> "baseline_check"
    [] OTHER -> None

Limit(x) ==
  CASE Lane(x) = "metadata" -> 0
    [] Lane(x) = "scope_scan" -> Least(PageSize, Left(x, "rows"))
    [] Lane(x) = "baseline_check" -> Cardinality(Batch(x.offset))

\* The scan asks for at least one row before it computes its $limit.
Needed(x) == IF Lane(x) = "scope_scan" THEN 1 ELSE Limit(x)

\* The source applies the query's predicates, order and limit.
Answer(x, lane, limit, version) ==
  CASE lane = "metadata" -> {}
    [] lane = "scope_scan" ->
         First({c \in version \cap InScope : c > x.cursor}, limit)
    [] lane = "baseline_check" -> version \cap Batch(x.offset)

\* A page with fewer rows than it had room for shows there is no more.
Short(p) == Cardinality(p.rows) < p.limit

\* Page, receipt and lane progress, recorded together in memory.
Recorded(x, q) ==
  LET sequence == Len(x.pages) + 1
      receipt == IF q.lane = "metadata" THEN None ELSE sequence
      y == [x EXCEPT
              !.reservations[Len(x.reservations)].state = "response",
              !.reservations[Len(x.reservations)].charged = Cardinality(q.answer),
              !.reservations[Len(x.reservations)].page = receipt]
      p == [lane |-> q.lane, limit |-> q.limit, cursor |-> x.cursor, rows |-> q.answer]
  IN CASE q.lane = "metadata" -> [y EXCEPT !.verified = TRUE]
       [] q.lane = "scope_scan" ->
            [y EXCEPT !.pages = Append(@, p),
                      !.cursor = IF q.answer = {} THEN @ ELSE Greatest(q.answer),
                      !.scanned = Short(p)]
       [] q.lane = "baseline_check" ->
            [y EXCEPT !.pages = Append(@, p),
                      !.offset = @ + q.limit,
                      !.returned = @ \cup q.answer]

-----------------------------------------------------------------------------
(* What every resume and every publication verify *)

\* What pages hold, and the cursor after the first i of them.
ScanPages(x) == {i \in DOMAIN x.pages : x.pages[i].lane = "scope_scan"}
RowsOf(x, numbers) == UNION {x.pages[i].rows : i \in numbers}
CursorAfter(x, i) ==
  IF RowsOf(x, 1 .. i) = {} THEN 0 ELSE Greatest(RowsOf(x, 1 .. i))

\* Lane progress as the durable pages, read in order, establish it: scans up to
\* a short one, then the fixed batches of members.
Follows(x, scans) ==
  LET members == Len(x.pages) - scans
      scanned == scans > 0 /\ Short(x.pages[scans])
      batch(i) == Batch((i - scans - 1) * PageSize)
  IN /\ \A i \in DOMAIN x.pages : x.pages[i].limit \in 1 .. PageSize
     /\ \A i \in 1 .. scans :
          /\ x.pages[i].lane = "scope_scan"
          /\ x.pages[i].cursor = CursorAfter(x, i - 1)
          /\ \A c \in x.pages[i].rows : c \in InScope /\ c > x.pages[i].cursor
          /\ i < scans => ~Short(x.pages[i])
     /\ \A i \in scans + 1 .. Len(x.pages) :
          /\ x.pages[i].lane = "baseline_check"
          /\ x.pages[i].limit = Cardinality(batch(i))
          /\ x.pages[i].rows \subseteq batch(i)
     /\ members > 0 => scanned
     /\ x.scanned = scanned
     /\ x.cursor = CursorAfter(x, scans)
     /\ x.offset = Least(members * PageSize, Cardinality(Baseline))
     /\ x.returned = RowsOf(x, scans + 1 .. Len(x.pages))

PagesFollowPlan(x) == Follows(x, Cardinality(ScanPages(x)))

\* Every page has one receipt that charged exactly its rows; every other
\* reservation that was not answered keeps its whole charge.
ReceiptsMatch(x) ==
  LET receipts(n) == {i \in DOMAIN x.reservations : x.reservations[i].page = n}
      answered(i) == x.reservations[i].state = "response"
      metadata(i) == x.reservations[i].lane = "metadata"
  IN /\ \A n \in DOMAIN x.pages :
          \E i \in DOMAIN x.reservations :
            /\ receipts(n) = {i}
            /\ answered(i)
            /\ x.reservations[i].lane = x.pages[n].lane
            /\ x.reservations[i].max = x.pages[n].limit
            /\ x.reservations[i].charged = Cardinality(x.pages[n].rows)
     /\ \A i \in DOMAIN x.reservations :
          /\ x.reservations[i].charged \in 0 .. x.reservations[i].max
          /\ x.reservations[i].page
               \in IF answered(i) /\ ~metadata(i) THEN DOMAIN x.pages ELSE {None}
          /\ ~answered(i) => x.reservations[i].charged = x.reservations[i].max
          /\ metadata(i) => x.reservations[i].max = 0
          /\ i > 1 => x.reservations[i - 1].invocation <= x.reservations[i].invocation
     /\ Cardinality({i \in DOMAIN x.reservations : metadata(i) /\ answered(i)})
          = IF x.verified THEN 1 ELSE 0

GrantsRespected(x) ==
  /\ \A i \in DOMAIN x.invocations :
       /\ x.invocations[i].consumed = Usage(x, i)
       /\ \A kind \in Kinds : Usage(x, i)[kind] <= x.invocations[i].grant[kind]
       /\ x.invocations[i].key # NoKey =>
            \A j \in DOMAIN x.invocations :
              x.invocations[j].key = x.invocations[i].key => j = i
  /\ \A kind \in Kinds : Total(x, kind) <= Ceilings[kind]

\* validate_acquisition: an acquired campaign observed both terminal outcomes.
AcquisitionValid(x) == x.state = "acquired" => Complete(x) /\ x.pages # <<>>

\* Variant: the page files are not read.
VerifiedByManifest(x, pageFiles) ==
  PagesFollowPlan(x) /\ ReceiptsMatch(x) /\ GrantsRespected(x) /\ AcquisitionValid(x)

\* The files are those that the manifest names.
PagesFiled(x, pageFiles) ==
  \A n \in DOMAIN x.pages : n \in DOMAIN pageFiles /\ pageFiles[n] = x.pages[n].rows

Filed(x, pageFiles) ==
  /\ PagesFiled(x, pageFiles)
  /\ x.verified => 0 \in DOMAIN pageFiles

\* load_staging, load_published and verify_population_run together.
Verified(x, pageFiles) ==
  /\ Filed(x, pageFiles)
  /\ PagesFollowPlan(x)
  /\ ReceiptsMatch(x)
  /\ GrantsRespected(x)
  /\ AcquisitionValid(x)
  /\ x.complete = Complete(x)

-----------------------------------------------------------------------------
(* The process *)

NoArgs == [key |-> None, grant |-> None]
NoQuery == [lane |-> None, limit |-> 0, attempt |-> 0, answer |-> {}]

Planned ==
  [verified |-> FALSE, scanned |-> FALSE, cursor |-> 0, offset |-> 0, returned |-> {},
   pages |-> <<>>, reservations |-> <<>>, invocations |-> <<>>,
   complete |-> FALSE, state |-> "planned"]

NoRun == [manifest |-> None, files |-> <<>>, status |-> "absent"]

Init ==
  /\ staged = FALSE /\ page = None /\ files = <<>> /\ run = NoRun /\ committed = FALSE
  /\ pc = "off" /\ args = NoArgs /\ m = None /\ query = NoQuery /\ outcome = None
  /\ asked = [attempts |-> 0, rows |-> 0]
  /\ removal = "none" /\ crashes = 0 /\ cleans = 0

\* The process ends; what it held in memory is gone.
Exit ==
  /\ pc' = "off" /\ args' = NoArgs /\ m' = None /\ query' = NoQuery /\ outcome' = None

Goto(step) == pc' = step /\ UNCHANGED <<args, query, outcome>>

\* persist(): completeness, invocation, acquisition, then one durable write,
\* which recreates the staging directory if it is gone (storage.py:26).
Persisted(x, state) ==
  [RecordInvocation(x, state) EXCEPT !.state = state, !.complete = Complete(x)]

Write(x) == page' = x /\ staged' = TRUE /\ UNCHANGED <<files, run, committed>>
Persist(x, state) == Write(Persisted(x, state))

\* An exception: recorded as recoverable if staging is still there.
Raise(x) ==
  /\ IF staged THEN Persist(x, "failed_recoverable") ELSE UNCHANGED disk
  /\ Exit

\* Variant: the campaign's end is taken for a pause.
StopPausing(x, refusal) == Persist(x, "paused_budget") /\ Exit

\* CampaignBudgetExceeded: the campaign's end, or a pause.
Stop(x, refusal) ==
  \/ /\ refusal = "campaign"
     /\ m' = x /\ pc' = "finish" /\ outcome' = "truncated" /\ query' = NoQuery
     /\ UNCHANGED <<disk, args>>
  \/ /\ refusal = "invocation"
     /\ Persist(x, "paused_budget")
     /\ Exit

Invoke(key, grant) ==
  /\ pc = "off"
  /\ page # None =>
       \/ Current(page) < MaxInvocations
       \/ \E i \in DOMAIN page.invocations : page.invocations[i].key = key /\ key # NoKey
  /\ pc' = "open"
  /\ args' = [key |-> key, grant |-> grant]
  /\ UNCHANGED <<disk, m, query, outcome, asked, removal, bounds>>

-----------------------------------------------------------------------------
(* A command finds what earlier ones left *)

\* prepared_runs() passes over a directory whose manifest is not there.
Prepared == run # NoRun /\ run.status = "prepared"

\* reconcile_prepared(): the run is verified again before it is committed.
Reconcile ==
  /\ pc = "open" /\ Prepared
  /\ IF Verified(run.manifest, run.files) THEN Goto("reconcile") /\ UNCHANGED m ELSE Exit
  /\ UNCHANGED <<disk, asked, removal, bounds>>

\* The SQLite transaction, once, of the observations in the pages: which must be there.
CommitRun ==
  /\ pc \in {"reconcile", "commit"} /\ ~committed
  /\ IF PagesFiled(run.manifest, run.files)
     THEN committed' = TRUE /\ UNCHANGED process
     ELSE Exit /\ UNCHANGED committed
  /\ UNCHANGED <<staging, run, asked, removal, bounds>>

MarkCommitted ==
  /\ pc \in {"reconcile", "commit"} /\ committed
  /\ run' = [run EXCEPT !.status = "committed"]
  /\ IF pc = "reconcile" THEN Goto("open") /\ UNCHANGED m ELSE Exit
  /\ UNCHANGED <<staging, committed, asked, removal, bounds>>

Matches(x) == {i \in DOMAIN x.invocations :
                 args.key # NoKey /\ x.invocations[i].key = args.key}

\* Variant: a superseded key is accepted.
ChangedGrantRefused(x) == \E i \in Matches(x) : x.invocations[i].grant # args.grant

\* A named grant is changed or superseded: ResumeError.
KeyRefused(x) ==
  \E i \in Matches(x) : x.invocations[i].grant # args.grant \/ i # Current(x)

\* A committed campaign is returned, or its key, manifest or pages refused.
AlreadyPublished ==
  /\ pc = "open"
  /\ run # NoRun /\ ~Prepared
  /\ Exit
  /\ UNCHANGED <<disk, asked, removal, bounds>>

\* Variant: only staging is looked at.
StartAgain ==
  /\ pc = "open"
  /\ ~staged
  /\ staged' = TRUE
  /\ Goto("create")
  /\ UNCHANGED <<page, files, run, committed, m, asked, removal, bounds>>

\* create_staging(): the directory first...
Start ==
  /\ pc = "open"
  /\ run = NoRun /\ ~staged
  /\ staged' = TRUE
  /\ Goto("create")
  /\ UNCHANGED <<page, files, run, committed, m, asked, removal, bounds>>

\* ... and then its page state.
Create ==
  /\ pc = "create"
  /\ Write(Planned) /\ m' = Planned
  /\ Goto("grant")
  /\ UNCHANGED <<asked, removal, bounds>>

\* A directory is refused when its page state or a page is missing or disagrees.
Load ==
  /\ pc = "open"
  /\ run = NoRun /\ staged
  /\ IF page = None
     THEN Exit
     ELSE IF ~Verified(page, files) \/ KeyRefused(page)
     THEN Exit
     ELSE /\ m' = page
          /\ IF page.complete
             THEN /\ pc' = "recovered" /\ outcome' = "acquired"
                  /\ UNCHANGED <<args, query>>
             ELSE Goto("grant")
  /\ UNCHANGED <<disk, asked, removal, bounds>>

-----------------------------------------------------------------------------
(* Granting, and asking the source *)

\* An invocation that died while extracting is closed before the next one.
Interrupted(x) ==
  IF x.invocations # <<>> /\ Last(x).state = "extracting"
  THEN [x EXCEPT !.invocations[Current(x)].state = "interrupted"] ELSE x

Opened(x) == Append(Interrupted(x).invocations,
  [key |-> args.key, grant |-> args.grant, state |-> "extracting",
   consumed |-> [kind \in Kinds |-> 0]])

Granted(x) == [x EXCEPT !.invocations = Opened(x)]

\* The matching named invocation is resumed with what is left of its grant.
ResumeGrant ==
  /\ pc = "grant" /\ Matches(m) # {}
  /\ m' = Persisted(m, "extracting") /\ Write(m')
  /\ Goto("plan")
  /\ UNCHANGED <<asked, removal, bounds>>

\* The campaign has nothing left; or the grant asks for more than is left,
\* which is a configuration error; or it becomes the current invocation.
NewGrant ==
  /\ pc = "grant" /\ Matches(m) = {}
  /\ \/ /\ \E kind \in Kinds : CampaignLeft(m, kind) <= 0
        /\ Stop(m, "campaign")
     \/ /\ \A kind \in Kinds : CampaignLeft(m, kind) > 0
        /\ \E kind \in Kinds : args.grant[kind] > CampaignLeft(m, kind)
        /\ Raise(m)
     \/ /\ \A kind \in Kinds : args.grant[kind] <= CampaignLeft(m, kind)
        /\ m' = Persisted(Granted(m), "extracting") /\ Write(m')
        /\ Goto("plan")
  /\ UNCHANGED <<asked, removal, bounds>>

\* Variant: the charge is persisted with the answer.
ReserveInMemory(q) ==
  /\ m' = Persisted([m EXCEPT !.reservations = Append(@, Reservation(m, q))], "extracting")
  /\ query' = q
  /\ pc' = "reserved"
  /\ UNCHANGED <<disk, args, outcome>>

\* reserve(): the charge is durable before the attempt is made.
Reserve(q) ==
  /\ m' = Persisted([m EXCEPT !.reservations = Append(@, Reservation(m, q))], "extracting")
  /\ Write(m')
  /\ query' = q
  /\ pc' = "reserved"
  /\ UNCHANGED <<args, outcome>>

Request ==
  /\ pc = "plan" /\ Lane(m) # None
  /\ LET q == [lane |-> Lane(m), limit |-> Limit(m), attempt |-> 1, answer |-> {}]
     IN IF Refusal(m, Needed(m)) # None
        THEN Stop(m, Refusal(m, Needed(m)))
        ELSE Reserve(q)
  /\ UNCHANGED <<asked, removal, bounds>>

\* The plan is exhausted.
Finish ==
  /\ pc = "plan" /\ Lane(m) = None
  /\ pc' = "finish" /\ outcome' = "acquired"
  /\ UNCHANGED <<disk, args, m, query, asked, removal, bounds>>

\* The attempt is made; the source serves it whether or not the answer
\* ever arrives.
Send(version) ==
  LET rows == Answer(m, query.lane, query.limit, version)
  IN /\ pc = "reserved"
     /\ query' = [query EXCEPT !.answer = rows]
     /\ asked' = [attempts |-> asked.attempts + 1, rows |-> asked.rows + Cardinality(rows)]
     /\ pc' = "waiting"
     /\ UNCHANGED <<disk, args, m, outcome, removal, bounds>>

\* A transient failure: another attempt, with a reservation of its own.
Retry ==
  /\ pc = "waiting"
  /\ query.attempt <= MaxRetries
  /\ IF Refusal(m, query.limit) # None
     THEN Stop(m, Refusal(m, query.limit))
     ELSE Reserve([query EXCEPT !.attempt = @ + 1, !.answer = {}])
  /\ UNCHANGED <<asked, removal, bounds>>

\* A permanent failure, the last transient one, or evidence that is refused.
Fail ==
  /\ pc = "waiting"
  /\ Raise(m)
  /\ UNCHANGED <<asked, removal, bounds>>

\* The answer is valid; its bytes are durable before the manifest names them.
Sequence == IF query.lane = "metadata" THEN 0 ELSE Len(m.pages) + 1

WritePage ==
  /\ pc = "waiting"
  /\ files' = [i \in DOMAIN files \cup {Sequence} |->
                 IF i = Sequence THEN query.answer ELSE files[i]]
  /\ staged' = TRUE
  /\ Goto("received")
  /\ UNCHANGED <<page, run, committed, m, asked, removal, bounds>>

Record ==
  /\ pc = "received"
  /\ m' = Persisted(Recorded(m, query), "extracting")
  /\ Write(m')
  /\ pc' = "plan" /\ query' = NoQuery
  /\ UNCHANGED <<args, outcome, asked, removal, bounds>>

-----------------------------------------------------------------------------
(* Publication *)

\* _finish_campaign(): verify, write the prepared manifest and move staging
\* to its place with one rename.  Evidence that fails the verification is an
\* exception; only the end reached by asking is inside the try that records it.
Published(x) == [RecordInvocation(x, outcome) EXCEPT !.state = outcome]

Prepare ==
  /\ pc \in {"finish", "recovered"}
  /\ IF Verified(Published(m), files)
     THEN /\ run' = [manifest |-> Published(m), files |-> files, status |-> "prepared"]
          /\ staged' = FALSE /\ page' = None /\ files' = <<>>
          /\ removal' = IF removal = "staging" THEN "run" ELSE removal
          /\ m' = None /\ query' = NoQuery /\ outcome' = None
          /\ pc' = "commit"
          /\ UNCHANGED <<committed, args>>
     ELSE /\ IF pc = "finish" /\ outcome = "acquired"
             THEN Raise(Published(m)) ELSE Exit /\ UNCHANGED disk
          /\ UNCHANGED removal
  /\ UNCHANGED <<asked, bounds>>

Crash ==
  /\ pc # "off"
  /\ crashes < MaxCrashes /\ crashes + cleans < MaxFaults
  /\ crashes' = crashes + 1
  /\ Exit
  /\ UNCHANGED <<disk, asked, removal, cleans>>

\* secop-ingest clean-staging (cli.py:155-158) takes no lock: rmtree opens a
\* staging directory...
CleanOpens ==
  /\ cleans < MaxCleans /\ crashes + cleans < MaxFaults
  /\ staged /\ removal = "none"
  /\ removal' = "staging" /\ cleans' = cleans + 1
  /\ UNCHANGED <<disk, process, asked, crashes>>

Unlinked(pages) == {Restrict(pages, DOMAIN pages \ {n}) : n \in DOMAIN pages}

\* ... removes what it finds in it, file by file, wherever the rename has put it...
CleanUnlinks ==
  /\ \/ /\ removal = "staging"
        /\ \/ page # None /\ page' = None /\ UNCHANGED files
           \/ files' \in Unlinked(files) /\ UNCHANGED page
        /\ UNCHANGED run
     \/ /\ removal = "run"
        /\ run' \in {[run EXCEPT !.status = "unreadable"]}
                     \cup {[run EXCEPT !.files = pages] : pages \in Unlinked(run.files)}
        /\ UNCHANGED <<page, files>>
  /\ UNCHANGED <<staged, committed, process, asked, removal, bounds>>

\* ... and last the directory, unless something was written behind it or it died.
CleanEnds ==
  /\ removal = "staging"
  /\ removal' = "none"
  /\ staged' \in {staged} \cup IF page = None /\ files = <<>> THEN {FALSE} ELSE {}
  /\ UNCHANGED <<page, files, run, committed, process, asked, bounds>>

Clean == CleanOpens \/ CleanUnlinks \/ CleanEnds

Work ==
  \/ Reconcile \/ CommitRun \/ MarkCommitted \/ AlreadyPublished
  \/ Start \/ Create \/ Load
  \/ ResumeGrant \/ NewGrant \/ Request \/ Finish
  \/ WritePage \/ Record \/ Prepare

Exchange ==
  \/ \E v \in Versions : Send(v)
  \/ Retry
  \/ Fail

Next ==
  \/ \E key \in Keys, grant \in Grants : Invoke(key, grant)
  \/ Work
  \/ Exchange
  \/ Crash
  \/ Clean

Spec == Init /\ [][Next]_vars

-----------------------------------------------------------------------------
(* Properties *)

\* Types, and no request is tried more often than max_retries allows.
TypeOK ==
  /\ {staged, committed} \subseteq BOOLEAN
  /\ removal \in {"none", "staging", "run"}
  /\ pc \in {"off", "open", "reconcile", "create", "grant", "plan", "reserved", "waiting", "received",
             "finish", "recovered", "commit"}
  /\ DOMAIN query = DOMAIN NoQuery /\ query.attempt \in 0 .. MaxRetries + 1
  /\ outcome \in {None, "acquired", "truncated"}

Durable == IF run # NoRun THEN run.manifest ELSE page

\* Whatever dies and whenever, the durable ledger has already charged every
\* attempt the source was sent and every row it served, lost answers included,
\* and the ledger stays under the ceilings, as long as clean-staging does not
\* delete it (campaign.py:101-117, docs/population-recovery.md:21).
DurablyCharged ==
  cleans = 0 =>
    IF Durable = None THEN asked = [attempts |-> 0, rows |-> 0]
    ELSE \A kind \in Kinds :
           asked[kind] <= Total(Durable, kind) /\ Total(Durable, kind) <= Ceilings[kind]

\* A manifest whose reservations are all of its own invocations, within their grants.
Within(x) ==
  /\ x \in Manifest
  /\ \A i \in DOMAIN x.reservations : x.reservations[i].invocation \in DOMAIN x.invocations
  /\ GrantsRespected(x)

Requesting == {"reserved", "waiting", "received"}
Working == Requesting \cup {"grant", "plan", "finish", "recovered"}

\* The request under way is what the plan asks for, and the last reservation its charge.
Asking ==
  /\ query.lane = Lane(m) /\ query.lane \in Lanes
  /\ query.limit \in IF query.lane = "scope_scan" THEN 1 .. PageSize ELSE {Limit(m)}
  /\ m.reservations # <<>> /\ m.reservations[Len(m.reservations)] = Reservation(m, query)
  /\ IF pc = "reserved" THEN query.answer = {}
     ELSE \E v \in Versions : query.answer = Answer(m, query.lane, query.limit, v)

\* Every manifest, on the disk and in memory, is within its grants.
LedgerIInv ==
  /\ pc # "off" => args.key \in Keys /\ args.grant \in Grants
  /\ page # None => Within(page)
  /\ run # NoRun => Within(run.manifest)
  /\ pc \in Working => Within(m)
  /\ pc \in Requesting => Asking
  /\ pc \in {"finish", "recovered"} => outcome \in {"acquired", "truncated"}

\* What the request under way is charged for and the source has not yet given.
Pending ==
  [attempts |-> IF pc = "reserved" THEN 1 ELSE 0,
   rows |-> IF pc \in Requesting THEN query.limit - Cardinality(query.answer) ELSE 0]

\* With LedgerIInv, the inductive strengthening of DurablyCharged: the process works
\* on the ledger that is durable, which covers what is asked and what is pending.
ChargedIInv ==
  /\ cleans \in Nat
  /\ cleans = 0 =>
       /\ asked \in [attempts : Nat, rows : Nat]
       /\ pc \in Working =>
            page # None /\ m.reservations = page.reservations /\ Current(m) = Current(page)
       /\ IF Durable = None THEN asked = [attempts |-> 0, rows |-> 0]
          ELSE \A kind \in Kinds : asked[kind] + Pending[kind] <= Total(Durable, kind)

\* No sequence of retries, crashes, resumptions and new grants makes the source
\* serve more than the campaign was allowed (docs/population-recovery.md:19,83).
CeilingsHold == \A kind \in Kinds : asked[kind] <= Ceilings[kind]

\* The evidence left by a crash at any point passes the verification that the next
\* invocation, or the reconciliation of prepared runs, performs on it, as long as
\* clean-staging did not take files from it (population_plan.py:106-330).  One thing
\* that a crash leaves is refused: a directory without page state, which is empty,
\* and made before the source was asked for anything (storage.py:58-59, DurablyCharged).
ResumeAccepted ==
  /\ cleans = 0 /\ staged =>
       IF page # None THEN Verified(page, files) ELSE files = <<>>
  /\ run # NoRun /\ removal # "run" => Verified(run.manifest, run.files)

\* What the source holds whenever it is asked.
Stable == {c \in Contracts : \A v \in Versions : c \in v}

\* A published campaign says what it saw, and has the pages to show for it unless a
\* clean-staging that was under way was overtaken by the rename.  It is acquired
\* exactly when both lanes came to their end; then it saw every contract in scope that
\* the source had all along, and every baseline member is accounted for:
\* returned, or missing only if some version of the source lacked it.
CompleteAcquisition ==
  run # NoRun =>
    LET x == run.manifest
    IN /\ removal # "run" => PagesFiled(x, run.files)
       /\ x.state = "acquired" <=> Complete(x)
       /\ x.state = "acquired" =>
            /\ Stable \cap InScope \subseteq RowsOf(x, ScanPages(x))
            /\ x.returned \cup Missing(x) = Baseline
            /\ Missing(x) \cap Stable = {}

\* What a manifest has to show for the answers it recorded.
Evident(x) ==
  /\ PagesFollowPlan(x) /\ ReceiptsMatch(x)
  /\ x.pages # <<>> => x.verified
  /\ \A c \in Stable \cap InScope : x.scanned \/ c <= x.cursor => c \in RowsOf(x, ScanPages(x))
  /\ First(Baseline, x.offset) \cap Stable \subseteq x.returned

\* With LedgerIInv and ChargedIInv, the inductive strengthening of ResumeAccepted and
\* CompleteAcquisition: every manifest is evident, its files are written before it
\* names them, and no end is taken for another.
EvidenceIInv ==
  /\ page # None =>
       Evident(page) /\ page.state # "acquired" /\ page.complete = Complete(page)
  /\ pc \in Working => Evident(m)
  /\ pc = "grant" \/ (pc = "finish" /\ outcome = "truncated") => ~Complete(m)
  /\ pc = "recovered" => outcome = "acquired"
  /\ cleans = 0 =>
       /\ staged /\ page = None => pc \in {"off", "open", "create"} /\ files = <<>>
       /\ page # None => Filed(page, files)
       /\ pc \in Working => m.pages = page.pages /\ m.verified = page.verified
       /\ pc = "received" => Sequence \in DOMAIN files /\ files[Sequence] = query.answer
  /\ run # NoRun =>
       /\ Evident(run.manifest)
       /\ removal # "run" => Verified(run.manifest, run.files)
       /\ run.manifest.state = IF Complete(run.manifest) THEN "acquired" ELSE "truncated"

\* While a process works under a key, the current invocation is the one that
\* key was granted, with the limits it asked for; a superseded key never works
\* again (reconcile.py:132-160, docs/population-recovery.md:85).
KeyHoldsGrant ==
  pc \in {"plan", "reserved", "waiting", "received"} =>
    /\ Last(m).key = args.key
    /\ Last(m).grant = args.grant

\* The ledger of a manifest: its invocations, one after another.
HasLedger(x) ==
  /\ DOMAIN x = DOMAIN Planned
  /\ x.invocations \in Seq({x.invocations[i] : i \in DOMAIN x.invocations})
  /\ \A i \in DOMAIN x.invocations :
       DOMAIN x.invocations[i] = {"key", "grant", "state", "consumed"}

\* The inductive strengthening of KeyHoldsGrant: what load accepts is the current
\* invocation, or none of that key.
KeyIInv ==
  /\ page # None => HasLedger(page)
  /\ pc \notin {"off", "open", "reconcile", "create", "commit"} => HasLedger(m)
  /\ pc = "grant" =>
       \A i \in Matches(m) : i = Current(m) /\ m.invocations[i].grant = args.grant
  /\ pc \in {"reserved", "waiting", "received"} =>
       query.lane \in {"metadata", "scope_scan", "baseline_check"}
  /\ pc \in {"plan", "reserved", "waiting", "received"} => m.invocations # <<>>
  /\ KeyHoldsGrant

\* What is published stays as published, is committed once, and no staging comes
\* back beside it: repeating a finished campaign changes nothing (reconcile.py:79-83,
\* docs/population-recovery.md:83).  A clean-staging that the rename overtook may still
\* take files from it, and does nothing else.
PublishedForGood ==
  [][run # NoRun =>
       /\ ~staged' /\ page' = None
       /\ committed => committed'
       /\ run'.manifest = run.manifest
       /\ run'.status = "committed" => committed
       /\ run.status = "committed" => UNCHANGED asked
       /\ \A n \in DOMAIN run'.files : n \in DOMAIN run.files /\ run'.files[n] = run.files[n]
       /\ run' # run /\ removal # "run" =>
            run' = [run EXCEPT !.status = "committed"] /\ run.status # "committed"]_vars

\* Its inductive strengthening: whoever runs beside a published campaign is
\* before the decision to start or after the rename.
PublishedIInv ==
  /\ ~staged => page = None /\ files = <<>>
  /\ removal \in {"none", IF run # NoRun THEN "run" ELSE "staging"}
  /\ run # NoRun =>
       /\ ~staged /\ pc \in {"off", "open", "reconcile", "commit"}
       /\ run = [manifest |-> run.manifest, files |-> run.files, status |-> run.status]
       /\ run.status \in {"prepared", "committed", "unreadable"}
       /\ run.status = "committed" => committed
  /\ pc \in {"reconcile", "commit"} => run # NoRun
  /\ pc = "create" => page = None /\ files = <<>>

\* A process died between making the staging directory and its first state: the
\* commands that follow are refused.
Stranded == pc = "off" /\ staged /\ page = None

\* The campaign ends as a committed run, acquired or truncated
\* (reconcile.py:109-119), unless it is stranded before it asked for anything.
EventuallyCommitted == <>(Stranded \/ (run # NoRun /\ run.status = "committed"))

=============================================================================
