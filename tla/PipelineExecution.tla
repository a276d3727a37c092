--------------------------- MODULE PipelineExecution ---------------------------
(***************************************************************************)
(* The pipeline's executions: orchestration/worker.py runs one stage of    *)
(* one execution under the execution's lock, with a durable receipt before *)
(* the producer's effect and another after it (receipts.py, recovery.py);  *)
(* operations.py and publication.py adapt the producers.  Workers come     *)
(* from the scheduler's retries and from operators, and die anywhere.      *)
(*                                                                         *)
(* Each producer is here as what its own module promises of it: a campaign *)
(* that commits once its grants suffice, unless its creation was cut short *)
(* (PopulationCampaign), a selection that only moves to a child of the     *)
(* current version or to a registered one (SilverSelection; the warehouse  *)
(* guards its rows in the same way), and a publication registry whose      *)
(* activation is a compare-and-swap of the pointer (PublicationLifecycle). *)
(* Versions and publications have the name of the execution that makes     *)
(* them.                                                                   *)
(***************************************************************************)
EXTENDS Integers, Sequences

CONSTANTS
  Executions,
  Base,             \* the version authoritative at first, and its publication
  Baseline,         \* parameters.baseline_version
  GrantsNeeded,     \* grants after which an execution's campaign is complete
  Workers,
  MaxGrants,        \* bound on an execution's grants
  MaxFailures,      \* bound on dying workers and failing producers
  MaxInterventions, \* bound on what operators do to the layers directly
  None

Versions == Executions \cup {Base}

ASSUME BaselineAssumption == Baseline \in [Executions -> Versions]
ASSUME GrantAssumption ==
  /\ MaxGrants \in Nat \ {0}
  /\ GrantsNeeded \in [Executions -> 1 .. MaxGrants]
ASSUME BoundAssumption == MaxFailures \in Nat /\ MaxInterventions \in Nat

VARIABLES
  receipt,      \* receipt.json of each execution, None before the first
  work,         \* what each worker holds: its stage and its copy of the receipt
  campaign,     \* Bronze: "none", "open", "committed" or "stranded"
  silver,       \* Silver: published versions, the current one, all ever current
  raw,          \* warehouse: the active version, all ever active
  pubState,     \* publications.state; "building" is also `failed`
  pinned,       \* the pointer a publication was reserved at
  captured,     \* the version a candidate has its copy of, None before capture
  active,
  activations,  \* by generation: the publication, and who activated it
  failures,
  interventions

producers == <<campaign, silver, raw>>
registry == <<pubState, pinned, captured, active, activations>>
bounds == <<failures, interventions>>
vars == <<receipt, work, producers, registry, bounds>>

-----------------------------------------------------------------------------

STAGES == <<"validate", "acquire", "silver", "warehouse",
            "candidate", "activate", "outcome">>
Stages == {STAGES[i] : i \in DOMAIN STAGES}
Before(s) == {STAGES[i] : i \in {j \in DOMAIN STAGES :
                \E k \in DOMAIN STAGES : STAGES[k] = s /\ j < k}}

Statuses == {"none", "running", "success", "failed"}
Pointers == [id : Versions, gen : Nat]
Receipt ==
  [stages : [Stages -> Statuses], expected : Pointers \cup {None},
   grant : 1 .. MaxGrants, incomplete : BOOLEAN, version : BOOLEAN,
   status : {"running", "failed", "incomplete", "success"}]
ASSUME NoneAssumption ==
  /\ None \notin Versions /\ None \notin Pointers /\ None \notin Receipt
  /\ Base \notin Executions

Pointer == [id |-> active, gen |-> Len(activations)]
Activated == {activations[i].pub : i \in DOMAIN activations}

\* Receipts.create(): the receipt of an execution nobody has started.
NewReceipt ==
  [stages |-> [s \in Stages |-> "none"], expected |-> None, grant |-> 1,
   incomplete |-> FALSE, version |-> FALSE, status |-> "running"]

Idle == [step |-> "idle"]

\* A bound workspace, with one population authoritative in every layer.
Init ==
  /\ receipt = [e \in Executions |-> None]
  /\ work = [w \in Workers |-> Idle]
  /\ campaign = [e \in Executions |-> "none"]
  /\ silver = [published |-> {Base}, current |-> Base, chosen |-> {Base}]
  /\ raw = [active |-> Base, loaded |-> {Base}]
  /\ pubState = [p \in Versions |-> IF p = Base THEN "retained" ELSE "absent"]
  /\ pinned = [p \in Versions |-> None]
  /\ captured = [p \in Versions |-> IF p = Base THEN Base ELSE None]
  /\ active = Base
  /\ activations = <<[pub |-> Base, by |-> "operator"]>>
  /\ failures = 0
  /\ interventions = 0

-----------------------------------------------------------------------------
(* The worker *)

At(w, step) == work[w].step = step

Working(w) == work[w].step # "idle"

LockFree(e) == \A w \in Workers : Working(w) => work[w].exec # e

\* Variant: the stages before must have been attempted.
UpstreamAttempted(doc, s) == \A prior \in Before(s) : doc.stages[prior] # "none"
UpstreamComplete(doc, s) == \A prior \in Before(s) : doc.stages[prior] = "success"

Document(e) == IF receipt[e] = None THEN NewReceipt ELSE receipt[e]

\* Variant: a stage that is already running is left to whoever runs it.
BeginOnce(w, e, s) ==
  /\ ~Working(w)
  /\ LockFree(e)
  /\ s # "validate" => receipt[e] # None
  /\ UpstreamComplete(Document(e), s)
  /\ Document(e).stages[s] # "running"
  /\ LET doc == [Document(e) EXCEPT !.stages[s] = "running",
                                    !.incomplete = @ /\ s # "acquire"]
     IN /\ receipt' = [receipt EXCEPT ![e] = doc]
        /\ work' = [work EXCEPT ![w] =
                      [step |-> s, exec |-> e, stage |-> s, doc |-> doc, ever |-> FALSE]]
  /\ UNCHANGED <<producers, registry, bounds>>

\* run(): the intent is durable before the producer's effect.
Begin(w, e, s) ==
  /\ ~Working(w)
  /\ LockFree(e)
  /\ s # "validate" => receipt[e] # None
  /\ UpstreamComplete(Document(e), s)
  /\ LET doc == [Document(e) EXCEPT !.stages[s] = "running",
                                    !.incomplete = @ /\ s # "acquire"]
     IN /\ receipt' = [receipt EXCEPT ![e] = doc]
        /\ work' = [work EXCEPT ![w] =
                      [step |-> s, exec |-> e, stage |-> s, doc |-> doc, ever |-> FALSE]]
  /\ UNCHANGED <<producers, registry, bounds>>

Goto(w, step) == work' = [work EXCEPT ![w].step = step]

Succeed(w, doc) ==
  work' = [work EXCEPT ![w].step = "finish",
             ![w].doc = [doc EXCEPT !.stages[work[w].stage] = "success",
                           !.status = IF work[w].stage = "outcome" THEN "success"
                                      ELSE "running"]]

Fail(w, status) ==
  LET doc == work[w].doc
      stopped == status = "incomplete" /\ work[w].stage = "acquire"
  IN work' = [work EXCEPT ![w].step = "finish",
                ![w].doc = [doc EXCEPT !.stages[work[w].stage] = "failed",
                              !.incomplete = doc.incomplete \/ stopped,
                              !.status = status]]

\* The `finally` of run() writes the receipt; the lock goes with the worker.
Finish(w) ==
  /\ work[w].step = "finish"
  /\ receipt' = [receipt EXCEPT ![work[w].exec] = work[w].doc]
  /\ work' = [work EXCEPT ![w] = Idle]
  /\ UNCHANGED <<producers, registry, bounds>>

\* Killed by a timeout, a cancellation, or the fault after an effect: no
\* `finally` runs, and what the producers did stays.
Crash(w) ==
  /\ Working(w)
  /\ failures < MaxFailures
  /\ failures' = failures + 1
  /\ work' = [work EXCEPT ![w] = Idle]
  /\ UNCHANGED <<receipt, producers, registry, interventions>>

\* Killed inside create_staging: the directory of the campaign is there and its
\* state is not, and no invocation under the execution's name resumes that.
CrashCreating(w) ==
  LET e == work[w].exec
  IN /\ At(w, "acquire") /\ campaign[e] = "none"
     /\ failures < MaxFailures
     /\ failures' = failures + 1
     /\ campaign' = [campaign EXCEPT ![e] = "stranded"]
     /\ work' = [work EXCEPT ![w] = Idle]
     /\ UNCHANGED <<receipt, silver, raw, registry, interventions>>

\* The producer raises, for a reason the model does not have.
ProducerFails(w) ==
  /\ Working(w) /\ work[w].step # "finish"
  /\ failures < MaxFailures
  /\ failures' = failures + 1
  /\ Fail(w, "failed")
  /\ UNCHANGED <<receipt, producers, registry, interventions>>

\* extend_grant(): a new grant, after the last attempt ended incomplete.
ExtendGrant(e) ==
  /\ receipt[e] # None
  /\ LockFree(e)
  /\ receipt[e].incomplete
  /\ receipt[e].grant < MaxGrants
  /\ receipt' = [receipt EXCEPT ![e].grant = @ + 1]
  /\ UNCHANGED <<work, producers, registry, bounds>>

-----------------------------------------------------------------------------
(* The stages *)

\* Variant: every validation starts the receipt anew.
ValidateAnew(w) ==
  /\ At(w, "validate")
  /\ IF Baseline[work[w].exec] \in silver.published
     THEN Succeed(w, [NewReceipt EXCEPT !.expected = Pointer])
     ELSE Fail(w, "failed")
  /\ UNCHANGED <<receipt, producers, registry, bounds>>

Pin(doc) == IF doc.expected = None THEN [doc EXCEPT !.expected = Pointer] ELSE doc

Validate(w) ==
  /\ At(w, "validate")
  /\ IF Baseline[work[w].exec] \in silver.published
     THEN Succeed(w, Pin(work[w].doc))
     ELSE Fail(w, "failed")
  /\ UNCHANGED <<receipt, producers, registry, bounds>>

\* acquisition(): a campaign that is complete is only inspected, and one whose
\* directory has no state is refused.
Acquire(w) ==
  LET e == work[w].exec
      complete == campaign[e] = "committed" \/ work[w].doc.grant >= GrantsNeeded[e]
  IN /\ At(w, "acquire")
     /\ \/ /\ campaign[e] # "stranded" /\ complete
           /\ campaign' = [campaign EXCEPT ![e] = "committed"]
           /\ Succeed(w, work[w].doc)
        \/ /\ campaign[e] # "stranded" /\ ~complete
           /\ campaign' = [campaign EXCEPT ![e] = "open"]
           /\ Fail(w, "incomplete")
        \/ campaign[e] = "stranded" /\ Fail(w, "failed") /\ UNCHANGED campaign
     /\ UNCHANGED <<receipt, silver, raw, registry, bounds>>

\* silver(): a version this receipt names is only verified; otherwise it is built
\* from the committed run, published and then selected, which are two steps for
\* others and for a crash.
Silver(w) ==
  /\ At(w, "silver")
  /\ \/ work[w].doc.version /\ Succeed(w, work[w].doc) /\ UNCHANGED silver
     \/ /\ ~work[w].doc.version /\ campaign[work[w].exec] = "committed"
        /\ silver' = [silver EXCEPT !.published = @ \cup {work[w].exec}]
        /\ Goto(w, "select")
     \/ /\ ~work[w].doc.version /\ campaign[work[w].exec] # "committed"
        /\ Fail(w, "failed") /\ UNCHANGED silver
  /\ UNCHANGED <<receipt, campaign, raw, registry, bounds>>

Continues(e, current) == current \in {e, Baseline[e]}

Select(w) ==
  LET e == work[w].exec
  IN /\ At(w, "select")
     /\ IF Continues(e, silver.current)
        THEN /\ silver' = [silver EXCEPT !.current = e, !.chosen = @ \cup {e}]
             /\ Succeed(w, [work[w].doc EXCEPT !.version = TRUE])
        ELSE Fail(w, "failed") /\ UNCHANGED silver
     /\ UNCHANGED <<receipt, campaign, raw, registry, bounds>>

Warehouse(w) ==
  LET e == work[w].exec
  IN /\ At(w, "warehouse")
     /\ IF work[w].doc.version /\ Continues(e, raw.active)
        THEN /\ raw' = [active |-> e, loaded |-> raw.loaded \cup {e}]
             /\ Succeed(w, work[w].doc)
        ELSE Fail(w, "failed") /\ UNCHANGED raw
     /\ UNCHANGED <<receipt, campaign, silver, registry, bounds>>

Candidates == {p \in Versions : pubState[p] \in {"building", "sealed"}}

\* candidate(): the row, reserved at the pointer of the moment if it is new.
Reserve(w) ==
  LET e == work[w].exec
  IN /\ At(w, "candidate")
     /\ \/ /\ work[w].doc.version /\ pubState[e] # "absent"
           /\ Goto(w, "build") /\ UNCHANGED <<pubState, pinned>>
        \/ /\ work[w].doc.version /\ pubState[e] = "absent" /\ Candidates = {}
           /\ pubState' = [pubState EXCEPT ![e] = "building"]
           /\ pinned' = [pinned EXCEPT ![e] = Pointer]
           /\ Goto(w, "build")
        \/ /\ ~work[w].doc.version \/ (pubState[e] = "absent" /\ Candidates # {})
           /\ Fail(w, "failed") /\ UNCHANGED <<pubState, pinned>>
     /\ UNCHANGED <<receipt, producers, captured, active, activations, bounds>>

\* Variant: a candidate is captured from whatever the warehouse has.
CanCaptureAny(e) == pubState[e] = "building"
CanCapture(e) == captured[e] # None \/ raw.active = e

\* A row reserved at another pointer is refused and stays; one that is ready is
\* used as it is; any other is built again from its own copy of the warehouse.
Capture(w) ==
  LET e == work[w].exec
      fresh == pinned[e] = work[w].doc.expected
      ready == pubState[e] \in {"sealed", "retained"}
  IN /\ At(w, "build")
     /\ \/ fresh /\ ready /\ Succeed(w, work[w].doc) /\ UNCHANGED captured
        \/ /\ fresh /\ pubState[e] = "building" /\ CanCapture(e)
           /\ captured' = [captured EXCEPT ![e] = IF @ = None THEN raw.active ELSE @]
           /\ Goto(w, "seal")
        \/ /\ ~fresh \/ ~ready
           /\ ~fresh \/ pubState[e] # "building" \/ ~CanCapture(e)
           /\ Fail(w, "failed") /\ UNCHANGED captured
     /\ UNCHANGED <<receipt, producers, pubState, pinned, active, activations, bounds>>

Seal(w) ==
  LET e == work[w].exec
  IN /\ At(w, "seal")
     /\ IF pubState[e] = "building"
        THEN pubState' = [pubState EXCEPT ![e] = "sealed"] /\ Succeed(w, work[w].doc)
        ELSE Fail(w, "failed") /\ UNCHANGED pubState
     /\ UNCHANGED <<receipt, producers, pinned, captured, active, activations, bounds>>

\* activate() reads the row, then the pointer, then asks for the activation:
\* three transactions.
ReadRow(w) ==
  /\ At(w, "activate")
  /\ work' = [work EXCEPT ![w].step = "pointer", ![w].ever = work[w].exec \in Activated]
  /\ UNCHANGED <<receipt, producers, registry, bounds>>

ReadPointer(w) ==
  /\ At(w, "pointer")
  /\ IF work[w].ever /\ active # work[w].exec THEN Fail(w, "failed") ELSE Goto(w, "swap")
  /\ UNCHANGED <<receipt, producers, registry, bounds>>

\* Variant: what is expected is what is active.
ExpectedNow(w) == Pointer
Expected(w) == work[w].doc.expected

Activates(p, by) ==
  /\ active' = p
  /\ activations' = Append(activations, [pub |-> p, by |-> by])
  /\ pubState' = [pubState EXCEPT ![p] = "retained"]
  /\ UNCHANGED <<pinned, captured>>

\* PublicationStore.activate(): a no-op, a refusal, or the activation.
Activate(w) ==
  LET e == work[w].exec
      available == pubState[e] \in {"sealed", "retained"}
  IN /\ At(w, "swap")
     /\ \/ /\ available /\ active # e /\ Expected(w) = Pointer
           /\ Activates(e, "pipeline")
           /\ Succeed(w, work[w].doc)
        \/ available /\ active = e /\ Succeed(w, work[w].doc) /\ UNCHANGED registry
        \/ /\ ~available \/ (active # e /\ Expected(w) # Pointer)
           /\ Fail(w, "failed") /\ UNCHANGED registry
     /\ UNCHANGED <<receipt, producers, bounds>>

Outcome(w) ==
  /\ At(w, "outcome")
  /\ Succeed(w, work[w].doc)
  /\ UNCHANGED <<receipt, producers, registry, bounds>>

Stage(w) ==
  \/ Validate(w) \/ Acquire(w) \/ Silver(w) \/ Select(w) \/ Warehouse(w)
  \/ Reserve(w) \/ Capture(w) \/ Seal(w)
  \/ ReadRow(w) \/ ReadPointer(w) \/ Activate(w) \/ Outcome(w)

-----------------------------------------------------------------------------
(* Operators, on each layer directly *)

Intervene == interventions < MaxInterventions /\ interventions' = interventions + 1

\* `clean-staging` takes what is not published, the state of a campaign or not.
OperatorCleans(e) ==
  /\ Intervene
  /\ campaign[e] \in {"open", "stranded"}
  /\ campaign' = [campaign EXCEPT ![e] = "none"]
  /\ UNCHANGED <<receipt, work, silver, raw, registry, failures>>

\* `load`: a published child of what the warehouse has, selected in Silver or not.
OperatorLoads(e) ==
  /\ Intervene
  /\ e \in silver.published /\ e # raw.active
  /\ Continues(e, raw.active)
  /\ raw' = [active |-> e, loaded |-> raw.loaded \cup {e}]
  /\ UNCHANGED <<receipt, work, campaign, silver, registry, failures>>

OperatorActivates(p) ==
  /\ Intervene
  /\ pubState[p] \in {"sealed", "retained"} /\ p # active
  /\ Activates(p, "operator")
  /\ UNCHANGED <<receipt, work, producers, failures>>

OperatorDiscards(p) ==
  /\ Intervene
  /\ p \in Candidates
  /\ pubState' = [pubState EXCEPT ![p] = "discarded"]
  /\ captured' = [captured EXCEPT ![p] = None]
  /\ UNCHANGED <<receipt, work, producers, pinned, active, activations, failures>>

OperatorRestores(v) ==
  /\ Intervene
  /\ \/ /\ v \in silver.chosen \ {silver.current}
        /\ silver' = [silver EXCEPT !.current = v] /\ UNCHANGED raw
     \/ /\ v \in raw.loaded \ {raw.active}
        /\ raw' = [raw EXCEPT !.active = v] /\ UNCHANGED silver
  /\ UNCHANGED <<receipt, work, campaign, registry, failures>>

Next ==
  \/ \E w \in Workers :
       \/ \E e \in Executions, s \in Stages : Begin(w, e, s)
       \/ Stage(w) \/ Finish(w) \/ Crash(w) \/ CrashCreating(w) \/ ProducerFails(w)
  \/ \E e \in Executions : ExtendGrant(e) \/ OperatorCleans(e) \/ OperatorLoads(e)
  \/ \E p \in Versions : OperatorActivates(p) \/ OperatorDiscards(p) \/ OperatorRestores(p)

Spec == Init /\ [][Next]_vars

\* Whoever runs an execution repeats its first stage without success.
Continue(w, e) ==
  \E s \in Stages : Document(e).stages[s] # "success" /\ Begin(w, e, s)

FairSpec ==
  /\ Spec
  /\ \A w \in Workers : WF_vars(Stage(w) \/ Finish(w))
  /\ \A e \in Executions : SF_vars(\E w \in Workers : Continue(w, e))
  /\ \A e \in Executions : SF_vars(ExtendGrant(e))

-----------------------------------------------------------------------------
(* Properties *)

Steps == Stages \cup {"select", "build", "seal", "pointer", "swap", "finish"}
Work == [step : Steps, exec : Executions, stage : Stages, doc : Receipt, ever : BOOLEAN]

\* A worker has a copy of a receipt, and its execution to itself.
WorkTypes ==
  /\ receipt \in [Executions -> Receipt \cup {None}]
  /\ work \in [Workers -> Work \cup {Idle}]
  /\ \A v, w \in Workers :
       Working(v) /\ Working(w) /\ work[v].exec = work[w].exec => v = w

LayerTypes ==
  /\ campaign \in [Executions -> {"none", "open", "committed", "stranded"}]
  /\ silver \in [published : SUBSET Versions, current : Versions, chosen : SUBSET Versions]
  /\ raw \in [active : Versions, loaded : SUBSET Versions]
  /\ pubState \in [Versions -> {"absent", "building", "sealed", "retained", "discarded"}]
  /\ pinned \in [Versions -> Pointers \cup {None}]
  /\ captured \in [Versions -> Versions \cup {None}]
  /\ active \in Versions
  /\ activations \in Seq([pub : Versions, by : {"pipeline", "operator"}])
  /\ failures \in Nat
  /\ interventions \in Nat

\* Types, and one worker at a time runs an execution.
TypeOK == WorkTypes /\ LayerTypes

\* What a receipt calls a success has happened, whatever died in between
\* (worker.py:124-149, docs/pipeline-orchestration.md "un resultado ya
\* comprometido se inspecciona y reutiliza").
ReceiptTruthful ==
  \A e \in Executions : receipt[e] # None =>
    LET done(s) == receipt[e].stages[s] = "success"
    IN /\ done("acquire") => campaign[e] = "committed"
       /\ done("silver") => receipt[e].version /\ e \in silver.chosen
       /\ done("warehouse") => e \in raw.loaded
       /\ done("candidate") => pubState[e] \notin {"absent", "building"}
       /\ done("activate") \/ receipt[e].status = "success" => e \in Activated

\* An execution replaces exactly the publication that was active when it was
\* validated: however often it is retried, whatever operators activate or
\* restore meanwhile is never overridden, and it never activates twice
\* (worker.py:76-78, orchestration/publication.py:72-83).
ActivationAsDecided ==
  \A i \in DOMAIN activations : activations[i].by = "pipeline" =>
    /\ i > 1
    /\ receipt[activations[i].pub].expected = [id |-> activations[i - 1].pub, gen |-> i - 1]

\* What consumers read is a copy of the version of its own execution, which Silver
\* selected and the warehouse held; the warehouse holds, and Silver selects, only
\* versions built from a committed campaign, whoever asks and in whatever order
\* (operations.py:77-141, capture.py:104).  What the warehouse holds need not be
\* selected: an operator may load it first.
Lineage ==
  /\ \A p \in Activated : captured[p] = p /\ p \in raw.loaded \cap silver.chosen
  /\ raw.loaded \cup silver.chosen \subseteq silver.published
  /\ \A e \in silver.published \ {Base} : campaign[e] = "committed"

\* What a stage that succeeded has left behind.
Effect(e, s) ==
  /\ s = "acquire" => campaign[e] = "committed"
  /\ s = "silver" => e \in silver.chosen
  /\ s = "warehouse" => e \in raw.loaded
  /\ s = "candidate" => pubState[e] \notin {"absent", "building"}
  /\ s = "activate" => e \in Activated

\* A worker's copy of the receipt is the receipt, but for the stage it runs.
CopySound(w) ==
  LET e == work[w].exec  s == work[w].stage  doc == work[w].doc  r == receipt[e]
  IN /\ r # None /\ r.stages[s] = "running"
     /\ \A t \in Stages \ {s} : doc.stages[t] = r.stages[t]
     /\ UpstreamComplete(doc, s)
     /\ (r.expected # None \/ s # "validate") => doc.expected = r.expected
     /\ doc.version = r.version \/ (doc.version /\ s = "silver" /\ e \in silver.chosen)
     /\ doc.status = "success" => e \in Activated
     /\ doc.stages["validate"] = "success" => doc.expected # None

\* Where a worker is in its stage, and what it has done there.
StepSound(w) ==
  LET e == work[w].exec  s == work[w].stage  doc == work[w].doc  step == work[w].step
  IN /\ step \in Stages => step = s
     /\ step = "select" => s = "silver" /\ e \in silver.published
     /\ step \in {"build", "seal"} => s = "candidate"
     /\ (step = "seal" /\ pubState[e] = "building") => captured[e] = e
     /\ step \in {"pointer", "swap"} => s = "activate"
     /\ step # "finish" => doc.stages[s] = "running"
     /\ (step = "finish" /\ doc.stages[s] = "success") =>
          Effect(e, s) /\ (s = "silver" => doc.version)

ReceiptSound(e) ==
  receipt[e] # None =>
    /\ receipt[e].stages["validate"] = "success" => receipt[e].expected # None
    /\ receipt[e].version => e \in silver.chosen
    /\ receipt[e].status = "success" => e \in Activated
    /\ receipt[e].stages["silver"] = "success" => receipt[e].version
    /\ \A s \in Stages : receipt[e].stages[s] = "success" => Effect(e, s)

\* The layers: what is current was chosen, what is chosen or loaded was published,
\* a row is of a chosen version, and what is sealed or retained is its copy.
LayersSound ==
  /\ silver.current \in silver.chosen
  /\ raw.active \in raw.loaded
  /\ raw.loaded \subseteq silver.published /\ silver.chosen \subseteq silver.published
  /\ \A e \in silver.published \ {Base} : campaign[e] = "committed"
  /\ \A p \in Versions :
       /\ pubState[p] # "absent" => p \in silver.chosen
       /\ captured[p] \in {None, p}
       /\ captured[p] = p => p \in raw.loaded
       /\ pubState[p] \in {"sealed", "retained"} => captured[p] = p
       /\ p \in Activated => pubState[p] = "retained"
  /\ activations # <<>> /\ active = activations[Len(activations)].pub

\* What the pipeline activated is an execution somebody has started.
PipelineActivates ==
  \A i \in DOMAIN activations : activations[i].by = "pipeline" =>
    activations[i].pub \in Executions /\ receipt[activations[i].pub] # None

\* The inductive strengthening of the safety properties.
IInv ==
  /\ TypeOK
  /\ \A w \in Workers : Working(w) => CopySound(w) /\ StepSound(w)
  /\ \A e \in Executions : ReceiptSound(e)
  /\ LayersSound
  /\ PipelineActivates
  /\ ActivationAsDecided

\* The success of a stage is lost only to a new attempt of that stage: no
\* receipt is overwritten from an old copy (receipts.py:29-40, worker.py:97).
NoSuccessLost ==
  [][\A e \in Executions, s \in Stages :
       receipt[e] # None /\ receipt[e].stages[s] = "success" =>
         receipt'[e].stages[s] \in {"success", "running"}]_vars

\* An execution nobody interferes with is published, whatever dies on the way,
\* if the stage that did not succeed is repeated and the campaign gets its grants
\* (docs/pipeline-orchestration.md, "Reintentar conservando el insumo"); all but a
\* death while the campaign's directory is made (ingestion/storage.py:58-59), after
\* which every repetition is refused until an operator cleans.
EventuallyPublished ==
  \A e \in Executions :
    receipt[e] # None ~>
      \/ campaign[e] = "stranded"
      \/ /\ receipt[e] # None
         /\ receipt[e].stages["outcome"] = "success"
         /\ active = e

=============================================================================
