----------------------- MODULE PipelineExecution_proofs -----------------------
(* Proofs about PipelineExecution, for every set of executions and workers,  *)
(* every baseline and number of grants, and any number of deaths, failures   *)
(* and interventions of operators.                                           *)
EXTENDS PipelineExecution, TLAPS

-----------------------------------------------------------------------------
(* Facts about stages and receipts *)

LEMMA StageFacts ==
  /\ Stages = {"validate", "acquire", "silver", "warehouse", "candidate", "activate", "outcome"}
  /\ \A s \in Stages : Before(s) \subseteq Stages \ {s}
  /\ \A s \in Stages \ {"validate"} : "validate" \in Before(s)
  /\ "activate" \in Before("outcome")
<1>1. DOMAIN STAGES = 1 .. 7
  BY DEF STAGES
<1>2. /\ STAGES[1] = "validate" /\ STAGES[2] = "acquire" /\ STAGES[3] = "silver"
      /\ STAGES[4] = "warehouse" /\ STAGES[5] = "candidate" /\ STAGES[6] = "activate"
      /\ STAGES[7] = "outcome"
  BY DEF STAGES
<1>3. 1 .. 7 = {1, 2, 3, 4, 5, 6, 7}
  OBVIOUS
<1>4. Stages = {"validate", "acquire", "silver", "warehouse", "candidate", "activate", "outcome"}
  BY <1>1, <1>2, <1>3 DEF Stages
<1>5. ASSUME NEW s \in Stages PROVE Before(s) \subseteq Stages \ {s}
  <2>. SUFFICES ASSUME NEW t \in Before(s) PROVE t \in Stages \ {s}
    OBVIOUS
  <2>1. PICK i \in 1 .. 7, k \in 1 .. 7 : t = STAGES[i] /\ STAGES[k] = s /\ i < k
    BY <1>1 DEF Before
  <2>. QED
    BY <1>1, <1>2, <1>3, <2>1 DEF Stages
<1>6. ASSUME NEW s \in Stages \ {"validate"} PROVE "validate" \in Before(s)
  <2>1. PICK k \in 2 .. 7 : STAGES[k] = s
    BY <1>1, <1>2, <1>3 DEF Stages
  <2>. QED
    BY <1>1, <1>2, <2>1 DEF Before
<1>7. "activate" \in Before("outcome")
  BY <1>1, <1>2 DEF Before
<1>. QED
  BY <1>4, <1>5, <1>6, <1>7

\* A worker that is not idle holds a stage of an execution.
LEMMA WorkFacts ==
  ASSUME WorkTypes, NEW w \in Workers, Working(w)
  PROVE  /\ work[w] \in Work
         /\ work[w].step \in Steps /\ work[w].exec \in Executions /\ work[w].stage \in Stages
         /\ work[w].doc \in Receipt
         /\ \A v \in Workers : v # w /\ Working(v) => work[v].exec # work[w].exec
<1>1. work[w] \in Work
  BY DEF WorkTypes, Working, Idle
<1>. QED
  BY <1>1 DEF WorkTypes, Work

-----------------------------------------------------------------------------
(* What steps of others leave as it was *)

\* What has happened is not undone.
Lasting ==
  /\ \A e \in Executions : campaign[e] = "committed" => campaign'[e] = "committed"
  /\ silver.published \subseteq silver'.published /\ silver.chosen \subseteq silver'.chosen
  /\ raw.loaded \subseteq raw'.loaded
  /\ \A p \in Versions : pubState[p] \notin {"absent", "building"} =>
                           pubState'[p] \notin {"absent", "building"}
  /\ Activated \subseteq Activated'

\* A candidate being built keeps its copy.
CopyKept(e) == pubState'[e] = "building" => pubState[e] = "building" /\ captured'[e] = captured[e]

LEMMA EffectLasts ==
  ASSUME Lasting, NEW e \in Executions, NEW s, Effect(e, s)
  PROVE  Effect(e, s)'
<1>1. e \in Versions
  BY DEF Versions
<1>. QED
  BY <1>1 DEF Lasting, Effect

\* A receipt nobody writes stays true.
LEMMA ReceiptStays ==
  ASSUME Lasting, NEW e \in Executions, ReceiptSound(e), receipt'[e] = receipt[e]
  PROVE  ReceiptSound(e)'
<1>1. \A s \in Stages : Effect(e, s) => Effect(e, s)'
  BY EffectLasts
<1>. QED
  BY <1>1 DEF ReceiptSound, Lasting

\* A worker that does not move still knows what it knew.
LEMMA WorkerStays ==
  ASSUME WorkTypes, Lasting, NEW w \in Workers, Working(w), CopySound(w), StepSound(w),
         work'[w] = work[w], receipt'[work[w].exec] = receipt[work[w].exec],
         CopyKept(work[w].exec)
  PROVE  CopySound(w)' /\ StepSound(w)'
<1>1. work[w].exec \in Executions /\ work[w].exec \in Versions
  BY WorkFacts DEF Versions
<1>2. CopySound(w)'
  BY <1>1 DEF CopySound, Lasting, UpstreamComplete
<1>3. StepSound(w)'
  <2>1. Effect(work[w].exec, work[w].stage) => Effect(work[w].exec, work[w].stage)'
    BY <1>1, EffectLasts
  <2>. QED
    BY <1>1, <2>1 DEF StepSound, Lasting, CopyKept
<1>. QED
  BY <1>2, <1>3

LEMMA ElementOf ==
  ASSUME NEW S, NEW q \in Seq(S)
  PROVE  DOMAIN q = 1 .. Len(q) /\ \A i \in DOMAIN q : q[i] \in S
  OBVIOUS

LEMMA ActivationFacts ==
  ASSUME LayerTypes
  PROVE  /\ Len(activations) \in Nat /\ DOMAIN activations = 1 .. Len(activations)
         /\ \A i \in DOMAIN activations : activations[i].pub \in Versions
<1>1. activations \in Seq([pub : Versions, by : {"pipeline", "operator"}])
  BY DEF LayerTypes
<1>2. \A i \in DOMAIN activations :
        activations[i] \in [pub : Versions, by : {"pipeline", "operator"}]
  BY <1>1, ElementOf
<1>. QED
  BY <1>1, <1>2

\* What the pipeline activated does not change, nor its receipts.
LEMMA ActivationsStay ==
  ASSUME PipelineActivates, ActivationAsDecided, activations' = activations,
         \A e \in Executions : receipt[e] # None /\ receipt[e].expected # None =>
           receipt'[e] # None /\ receipt'[e].expected = receipt[e].expected,
         LayerTypes, NoneAssumption
  PROVE  PipelineActivates' /\ ActivationAsDecided'
<1>1. ASSUME NEW i \in DOMAIN activations, activations[i].by = "pipeline"
      PROVE  LET e == activations[i].pub
             IN /\ e \in Executions /\ receipt'[e] # None /\ i > 1
                /\ receipt'[e].expected = [id |-> activations[i - 1].pub, gen |-> i - 1]
  <2>1. i \in Nat /\ i - 1 \in DOMAIN activations /\ i > 1
    <3>1. i > 1
      BY <1>1 DEF ActivationAsDecided
    <3>. QED
      BY <3>1, ActivationFacts
  <2>2. activations[i - 1].pub \in Versions
    BY <2>1, ActivationFacts
  <2>3. [id |-> activations[i - 1].pub, gen |-> i - 1] \in Pointers
    BY <2>1, <2>2 DEF Pointers
  <2>. QED
    BY <1>1, <2>1, <2>3 DEF PipelineActivates, ActivationAsDecided, NoneAssumption
<1>. QED
  BY <1>1 DEF PipelineActivates, ActivationAsDecided

-----------------------------------------------------------------------------
(* What a step of one worker leaves of the invariant *)

\* The part of the invariant that is about the layers.
LayersKept == /\ LayerTypes' /\ LayersSound' /\ Lasting
              /\ PipelineActivates' /\ ActivationAsDecided'

\* No receipt loses what it pinned.
PinsKept ==
  \A e \in Executions : receipt[e] # None =>
    receipt'[e] # None /\ (receipt[e].expected # None => receipt'[e].expected = receipt[e].expected)

LEMMA NothingHappens ==
  ASSUME IInv, UNCHANGED <<producers, registry>>, failures' \in Nat, interventions' \in Nat, PinsKept
  PROVE  LayersKept /\ \A e \in Executions : CopyKept(e)
<1>1. /\ LayerTypes' /\ LayersSound' /\ Lasting /\ \A e \in Executions : CopyKept(e)
      /\ activations' = activations
  BY DEF IInv, TypeOK, LayerTypes, LayersSound, Activated, Lasting, CopyKept, producers, registry
<1>2. PipelineActivates' /\ ActivationAsDecided'
  BY <1>1, ActivationsStay, NoneAssumption DEF PinsKept, IInv, TypeOK
<1>. QED
  BY <1>1, <1>2 DEF LayersKept

\* One worker moves within its stage.
LEMMA StageKeeps ==
  ASSUME IInv, NEW w \in Workers, Working(w), NEW new \in Work,
         work' = [work EXCEPT ![w] = new], new.exec = work[w].exec, receipt' = receipt,
         LayersKept, \A e \in Executions \ {work[w].exec} : CopyKept(e),
         CopySound(w)', StepSound(w)'
  PROVE  IInv'
<1>1. \A v \in Workers \ {w} : work'[v] = work[v]
  BY DEF IInv, TypeOK, WorkTypes
<1>2. work'[w] = new
  BY DEF IInv, TypeOK, WorkTypes
<1>3. WorkTypes'
  BY <1>1, <1>2, WorkFacts DEF IInv, TypeOK, WorkTypes, Working
<1>4. ASSUME NEW v \in Workers, Working(v)' PROVE CopySound(v)' /\ StepSound(v)'
  <2>1. CASE v = w
    BY <2>1
  <2>2. CASE v # w
    <3>1. Working(v) /\ work[v].exec \in Executions \ {work[w].exec}
      BY <1>1, <1>4, <2>2, WorkFacts DEF Working, IInv, TypeOK
    <3>. QED
      BY <1>1, <2>2, <3>1, WorkerStays DEF IInv, TypeOK, LayersKept
  <2>. QED
    BY <2>1, <2>2
<1>5. \A e \in Executions : ReceiptSound(e)'
  BY ReceiptStays DEF IInv, LayersKept
<1>. QED
  BY <1>3, <1>4, <1>5 DEF IInv, TypeOK, LayersKept

\* A worker goes on to the next step of its stage.
LEMMA GotoKeeps ==
  ASSUME IInv, NEW w \in Workers, Working(w), NEW step \in Steps \ (Stages \cup {"finish"}),
         NEW ever \in BOOLEAN,
         work' = [work EXCEPT ![w].step = step, ![w].ever = ever], receipt' = receipt,
         work[w].step # "finish", LayersKept,
         \A e \in Executions \ {work[w].exec} : CopyKept(e),
         step = "select" => work[w].stage = "silver" /\ work[w].exec \in silver'.published,
         step \in {"build", "seal"} => work[w].stage = "candidate",
         (step = "seal" /\ pubState'[work[w].exec] = "building") =>
            captured'[work[w].exec] = work[w].exec,
         step \in {"pointer", "swap"} => work[w].stage = "activate"
  PROVE  IInv'
<1>. DEFINE new == [work[w] EXCEPT !.step = step, !.ever = ever]
<1>1. work[w] \in Work /\ CopySound(w) /\ StepSound(w) /\ work[w].exec \in Executions
  BY WorkFacts DEF IInv, TypeOK
<1>2. /\ new \in Work /\ new.exec = work[w].exec /\ new.stage = work[w].stage
      /\ new.doc = work[w].doc /\ new.step = step
  BY <1>1 DEF Work
<1>3. work' = [work EXCEPT ![w] = new] /\ work'[w] = new
  BY <1>1 DEF IInv, TypeOK, WorkTypes
<1>4. CopySound(w)'
  <2>1. /\ work'[w].exec = work[w].exec /\ work'[w].stage = work[w].stage
        /\ work'[w].doc = work[w].doc
    BY <1>2, <1>3
  <2>2. silver.chosen \subseteq silver'.chosen /\ Activated \subseteq Activated'
    BY DEF LayersKept, Lasting
  <2>3. work[w].exec \in Executions /\ receipt' = receipt
    BY <1>1
  <2>4. CopySound(w)
    BY <1>1
  <2>. QED
    BY ONLY <2>1, <2>2, <2>3, <2>4 DEF CopySound, UpstreamComplete
<1>5. StepSound(w)'
  BY <1>1, <1>2, <1>3 DEF StepSound
<1>. QED
  BY <1>2, <1>3, <1>4, <1>5, StageKeeps

\* A stage that succeeds has had its effect.
LEMMA SucceedKeeps ==
  ASSUME IInv, NEW w \in Workers, Working(w), work[w].step # "finish",
         NEW doc \in Receipt, Succeed(w, doc), receipt' = receipt, LayersKept,
         \A f \in Executions \ {work[w].exec} : CopyKept(f),
         doc.stages = work[w].doc.stages, doc.status = work[w].doc.status,
         \/ doc.expected = work[w].doc.expected
         \/ work[w].stage = "validate" /\ work[w].doc.expected = None,
         work[w].stage = "validate" => doc.expected # None,
         \/ doc.version = work[w].doc.version
         \/ doc.version /\ work[w].stage = "silver",
         NEW e, e = work[w].exec, NEW s, s = work[w].stage, Effect(e, s)',
         s = "silver" => doc.version
  PROVE  IInv'
<1>. DEFINE ended == [doc EXCEPT !.stages[s] = "success",
                        !.status = IF s = "outcome" THEN "success" ELSE "running"]
            new == [work[w] EXCEPT !.step = "finish", !.doc = ended]
<1>1. /\ work[w] \in Work /\ CopySound(w) /\ StepSound(w)
      /\ e \in Executions /\ s \in Stages /\ work[w].doc \in Receipt
  BY WorkFacts DEF IInv, TypeOK
<1>2. /\ ended \in Receipt /\ ended.stages[s] = "success"
      /\ \A t \in Stages \ {s} : ended.stages[t] = work[w].doc.stages[t]
      /\ ended.expected = doc.expected /\ ended.version = doc.version
      /\ ended.status = IF s = "outcome" THEN "success" ELSE "running"
  BY <1>1 DEF Receipt, Statuses
<1>3. /\ new \in Work /\ new.exec = e /\ new.stage = s /\ new.doc = ended
      /\ new.step = "finish"
  BY <1>1, <1>2 DEF Work, Steps
<1>4. work' = [work EXCEPT ![w] = new] /\ work'[w] = new
  BY <1>1 DEF IInv, TypeOK, WorkTypes, Succeed
<1>5. /\ work'[w].exec = e /\ work'[w].stage = s /\ work'[w].doc = ended
      /\ work'[w].step = "finish"
  BY <1>3, <1>4
<1>6. s = "outcome" => e \in Activated'
  <2>1. ASSUME s = "outcome" PROVE e \in Activated
    <3>1. "activate" \in Before(s) /\ "activate" \in Stages \ {s}
      BY <2>1, StageFacts
    <3>2. receipt[e] # None /\ receipt[e].stages["activate"] = "success"
      BY <1>1, <3>1 DEF CopySound, UpstreamComplete
    <3>. QED
      BY <1>1, <3>1, <3>2 DEF IInv, ReceiptSound, Effect
  <2>. QED
    BY <2>1 DEF LayersKept, Lasting
<1>7. CopySound(w)'
  <2>. DEFINE old == work[w].doc
              r == receipt[e]
  <2>1. r # None /\ r.stages[s] = "running" /\ receipt'[e] = r
    BY <1>1 DEF CopySound
  <2>2. \A t \in Stages \ {s} : ended.stages[t] = r.stages[t]
    BY <1>1, <1>2 DEF CopySound
  <2>3. UpstreamComplete(ended, s)
    BY <1>1, <1>2, StageFacts DEF CopySound, UpstreamComplete
  <2>4. (r.expected # None \/ s # "validate") => ended.expected = r.expected
    BY <1>1, <1>2 DEF CopySound
  <2>5. ended.version = r.version \/ (ended.version /\ s = "silver" /\ e \in silver'.chosen)
    <3>1. s = "silver" => e \in silver'.chosen
      BY DEF Effect
    <3>. QED
      BY <1>1, <1>2, <3>1 DEF CopySound
  <2>6. ended.status = "success" => e \in Activated'
    BY <1>2, <1>6
  <2>7. ended.stages["validate"] = "success" => ended.expected # None
    <3>1. s # "validate" => "validate" \in Stages \ {s}
      BY StageFacts
    <3>. QED
      BY <1>1, <1>2, <3>1 DEF CopySound
  <2>. QED
    BY <1>5, <2>1, <2>2, <2>3, <2>4, <2>5, <2>6, <2>7 DEF CopySound, UpstreamComplete
<1>8. StepSound(w)'
  <2>1. "finish" \notin Stages
    BY StageFacts
  <2>. QED
    BY <1>2, <1>5, <2>1 DEF StepSound
<1>. QED
  BY <1>3, <1>4, <1>7, <1>8, StageKeeps

\* A stage that fails promises nothing.
LEMMA FailKeeps ==
  ASSUME IInv, NEW w \in Workers, Working(w), work[w].step # "finish",
         NEW status \in {"failed", "incomplete"}, Fail(w, status), receipt' = receipt,
         LayersKept, \A e \in Executions \ {work[w].exec} : CopyKept(e)
  PROVE  IInv'
<1>. DEFINE e == work[w].exec
            s == work[w].stage
            doc == work[w].doc
            inc == doc.incomplete \/ (status = "incomplete" /\ s = "acquire")
            ended == [doc EXCEPT !.stages[s] = "failed", !.incomplete = inc, !.status = status]
            new == [work[w] EXCEPT !.step = "finish", !.doc = ended]
<1>1. /\ work[w] \in Work /\ CopySound(w) /\ StepSound(w)
      /\ e \in Executions /\ s \in Stages /\ doc \in Receipt
  BY WorkFacts DEF IInv, TypeOK
<1>2. /\ ended \in Receipt /\ ended.stages[s] = "failed"
      /\ \A t \in Stages \ {s} : ended.stages[t] = doc.stages[t]
      /\ ended.expected = doc.expected /\ ended.version = doc.version
      /\ ended.status = status
  <2>1. inc \in BOOLEAN /\ "failed" \in Statuses
    BY DEF Statuses
  <2>2. status \in {"running", "failed", "incomplete", "success"}
    OBVIOUS
  <2>. QED
    BY <1>1, <2>1, <2>2 DEF Receipt
<1>3. /\ new \in Work /\ new.exec = e /\ new.stage = s /\ new.doc = ended
      /\ new.step = "finish"
  BY <1>1, <1>2 DEF Work, Steps
<1>4. work' = [work EXCEPT ![w] = new] /\ work'[w] = new
  BY <1>1 DEF IInv, TypeOK, WorkTypes, Fail
<1>5. /\ work'[w].exec = e /\ work'[w].stage = s /\ work'[w].doc = ended
      /\ work'[w].step = "finish"
  BY <1>3, <1>4
<1>7. CopySound(w)'
  <2>. DEFINE r == receipt[e]
  <2>1. r # None /\ r.stages[s] = "running" /\ receipt'[e] = r
    BY <1>1 DEF CopySound
  <2>2. \A t \in Stages \ {s} : ended.stages[t] = r.stages[t]
    BY <1>1, <1>2 DEF CopySound
  <2>3. UpstreamComplete(ended, s)
    BY <1>1, <1>2, StageFacts DEF CopySound, UpstreamComplete
  <2>4. (r.expected # None \/ s # "validate") => ended.expected = r.expected
    BY <1>1, <1>2 DEF CopySound
  <2>5. ended.version = r.version \/ (ended.version /\ s = "silver" /\ e \in silver'.chosen)
    BY <1>1, <1>2 DEF CopySound, LayersKept, Lasting
  <2>6. ended.status # "success"
    BY <1>2
  <2>7. ended.stages["validate"] = "success" => ended.expected # None
    <3>1. s # "validate" => "validate" \in Stages \ {s}
      BY StageFacts
    <3>. QED
      BY <1>1, <1>2, <3>1 DEF CopySound
  <2>. QED
    BY <1>5, <2>1, <2>2, <2>3, <2>4, <2>5, <2>6, <2>7 DEF CopySound, UpstreamComplete
<1>8. StepSound(w)'
  <2>1. "finish" \notin Stages
    BY StageFacts
  <2>. QED
    BY <1>2, <1>5, <2>1 DEF StepSound
<1>. QED
  BY <1>3, <1>4, <1>7, <1>8, StageKeeps

-----------------------------------------------------------------------------
(* Steps that write a receipt, or take or lose the execution's lock *)

LEMMA OwnerKeeps ==
  ASSUME IInv, NEW w \in Workers, NEW e \in Executions,
         work' \in [Workers -> Work \cup {Idle}],
         \A v \in Workers \ {w} : work'[v] = work[v] /\ (Working(v) => work[v].exec # e),
         Working(w)' => work'[w].exec = e /\ CopySound(w)' /\ StepSound(w)',
         receipt' \in [Executions -> Receipt \cup {None}],
         \A f \in Executions \ {e} : receipt'[f] = receipt[f],
         ReceiptSound(e)', PinsKept,
         UNCHANGED <<producers, registry>>, failures' \in Nat, interventions' \in Nat
  PROVE  IInv'
<1>1. LayersKept /\ \A f \in Executions : CopyKept(f)
  BY NothingHappens
<1>2. WorkTypes'
  BY DEF IInv, TypeOK, WorkTypes, Working
<1>3. ASSUME NEW v \in Workers, Working(v)' PROVE CopySound(v)' /\ StepSound(v)'
  <2>1. CASE v = w
    BY <1>3, <2>1
  <2>2. CASE v # w
    <3>1. work'[v] = work[v] /\ Working(v) /\ work[v].exec \in Executions \ {e}
      BY <1>3, <2>2, WorkFacts DEF Working, IInv, TypeOK
    <3>. QED
      BY <1>1, <3>1, WorkerStays DEF IInv, TypeOK, LayersKept
  <2>. QED
    BY <2>1, <2>2
<1>4. ASSUME NEW f \in Executions PROVE ReceiptSound(f)'
  <2>1. CASE f = e
    BY <2>1
  <2>2. CASE f # e
    BY <1>1, <2>2, ReceiptStays DEF IInv, LayersKept
  <2>. QED
    BY <2>1, <2>2
<1>. QED
  BY <1>1, <1>2, <1>3, <1>4 DEF IInv, TypeOK, LayersKept

\* The receipt an execution has, or its first.
LEMMA DocumentFacts ==
  ASSUME IInv, NEW e \in Executions
  PROVE  /\ Document(e) \in Receipt
         /\ Document(e).version => e \in silver.chosen
         /\ Document(e).status = "success" => e \in Activated
         /\ Document(e).stages["validate"] = "success" => Document(e).expected # None
         /\ Document(e).stages["silver"] = "success" => Document(e).version
         /\ \A s \in Stages : Document(e).stages[s] = "success" => Effect(e, s)
<1>1. CASE receipt[e] = None
  <2>1. NewReceipt \in Receipt
    BY GrantAssumption DEF NewReceipt, Receipt, Statuses
  <2>2. \A s \in Stages : NewReceipt.stages[s] = "none"
    BY DEF NewReceipt
  <2>. QED
    BY <1>1, <2>1, <2>2, StageFacts DEF Document, NewReceipt
<1>2. CASE receipt[e] # None
  BY <1>2 DEF Document, IInv, TypeOK, WorkTypes, ReceiptSound
<1>. QED
  BY <1>1, <1>2

LEMMA BeginKeeps ==
  ASSUME IInv, NEW w \in Workers, NEW e \in Executions, NEW s \in Stages, Begin(w, e, s)
  PROVE  IInv'
<1>. DEFINE old == Document(e)
            inc == old.incomplete /\ s # "acquire"
            doc == [old EXCEPT !.stages[s] = "running", !.incomplete = inc]
            new == [step |-> s, exec |-> e, stage |-> s, doc |-> doc, ever |-> FALSE]
<1>1. /\ receipt' = [receipt EXCEPT ![e] = doc] /\ work' = [work EXCEPT ![w] = new]
      /\ UNCHANGED <<producers, registry, bounds>>
      /\ LockFree(e) /\ UpstreamComplete(old, s)
  BY DEF Begin
<1>2. /\ doc \in Receipt /\ doc.stages[s] = "running"
      /\ \A t \in Stages \ {s} : doc.stages[t] = old.stages[t]
      /\ doc.expected = old.expected /\ doc.version = old.version /\ doc.status = old.status
  BY DocumentFacts DEF Receipt, Statuses
<1>3. new \in Work /\ new.exec = e /\ new.step = s /\ new.stage = s /\ new.doc = doc
  BY <1>2 DEF Work, Steps
<1>4. /\ work'[w] = new /\ receipt'[e] = doc
      /\ work' \in [Workers -> Work \cup {Idle}]
      /\ receipt' \in [Executions -> Receipt \cup {None}]
      /\ \A v \in Workers \ {w} : work'[v] = work[v]
      /\ \A f \in Executions \ {e} : receipt'[f] = receipt[f]
  BY <1>1, <1>2, <1>3 DEF IInv, TypeOK, WorkTypes
<1>5. doc # None
  BY <1>2, NoneAssumption
<1>6. PinsKept
  BY <1>2, <1>4, <1>5 DEF PinsKept, Document
<1>7. failures' \in Nat /\ interventions' \in Nat
  BY <1>1 DEF bounds, IInv, TypeOK, LayerTypes
<1>8. \A f \in Executions : Lasting /\ CopyKept(f)
  BY <1>1, <1>6, <1>7, NothingHappens DEF LayersKept
<1>9. ReceiptSound(e)'
  <2>1. doc.version => e \in silver'.chosen
    BY <1>2, <1>8, DocumentFacts DEF Lasting
  <2>2. doc.status = "success" => e \in Activated'
    BY <1>2, <1>8, DocumentFacts DEF Lasting
  <2>3. \A t \in Stages : doc.stages[t] = "success" => Effect(e, t)'
    BY <1>2, <1>8, DocumentFacts, EffectLasts
  <2>4. doc.stages["validate"] = "success" => doc.expected # None
    BY <1>2, DocumentFacts, StageFacts
  <2>5. doc.stages["silver"] = "success" => doc.version
    BY <1>2, DocumentFacts, StageFacts
  <2>. QED
    BY <1>4, <2>1, <2>2, <2>3, <2>4, <2>5 DEF ReceiptSound
<1>10. CopySound(w)'
  <2>1. UpstreamComplete(doc, s)
    BY <1>1, <1>2, StageFacts DEF UpstreamComplete
  <2>2. doc.status = "success" => e \in Activated'
    BY <1>2, <1>8, DocumentFacts DEF Lasting
  <2>3. doc.stages["validate"] = "success" => doc.expected # None
    BY <1>2, DocumentFacts, StageFacts
  <2>4. /\ work'[w].exec = e /\ work'[w].stage = s /\ work'[w].doc = doc
        /\ receipt'[e] = doc /\ doc # None /\ doc.stages[s] = "running"
    BY <1>2, <1>3, <1>4, <1>5
  <2>. QED
    BY ONLY <2>1, <2>2, <2>3, <2>4 DEF CopySound, UpstreamComplete
<1>11. StepSound(w)'
  BY <1>2, <1>3, <1>4, StageFacts DEF StepSound
<1>12. \A v \in Workers \ {w} : Working(v) => work[v].exec # e
  BY <1>1 DEF LockFree
<1>. QED
  BY <1>1, <1>3, <1>4, <1>6, <1>7, <1>9, <1>10, <1>11, <1>12, OwnerKeeps

LEMMA FinishKeeps ==
  ASSUME IInv, NEW w \in Workers, NEW e, e = work[w].exec, Finish(w)
  PROVE  IInv'
<1>. DEFINE s == work[w].stage
            doc == work[w].doc
            r == receipt[e]
<1>1. /\ receipt' = [receipt EXCEPT ![e] = doc] /\ work' = [work EXCEPT ![w] = Idle]
      /\ UNCHANGED <<producers, registry, bounds>> /\ work[w].step = "finish" /\ Working(w)
  BY DEF Finish, Working
<1>2. /\ work[w] \in Work /\ e \in Executions /\ s \in Stages /\ doc \in Receipt
      /\ CopySound(w) /\ StepSound(w)
      /\ \A v \in Workers : v # w /\ Working(v) => work[v].exec # e
  BY <1>1, WorkFacts DEF IInv, TypeOK
<1>3. /\ work'[w] = Idle /\ receipt'[e] = doc
      /\ work' \in [Workers -> Work \cup {Idle}]
      /\ receipt' \in [Executions -> Receipt \cup {None}]
      /\ \A v \in Workers \ {w} : work'[v] = work[v]
      /\ \A f \in Executions \ {e} : receipt'[f] = receipt[f]
  BY <1>1, <1>2 DEF IInv, TypeOK, WorkTypes
<1>4. ~Working(w)'
  BY <1>3 DEF Working, Idle
<1>5. PinsKept
  BY <1>2, <1>3, NoneAssumption DEF PinsKept, CopySound
<1>6. failures' \in Nat /\ interventions' \in Nat
  BY <1>1 DEF bounds, IInv, TypeOK, LayerTypes
<1>7. Lasting
  BY <1>1, <1>5, <1>6, NothingHappens DEF LayersKept
<1>8. ReceiptSound(e)'
  <2>1. doc.version => e \in silver.chosen
    BY <1>2 DEF CopySound, IInv, ReceiptSound
  <2>2. doc.status = "success" => e \in Activated
    BY <1>2 DEF CopySound
  <2>3. ASSUME NEW t \in Stages, doc.stages[t] = "success" PROVE Effect(e, t)
    <3>1. CASE t = s
      BY <1>1, <1>2, <2>3, <3>1 DEF StepSound
    <3>2. CASE t # s
      BY <1>2, <2>3, <3>2 DEF CopySound, IInv, ReceiptSound
    <3>. QED
      BY <3>1, <3>2
  <2>4. doc.stages["validate"] = "success" => doc.expected # None
    BY <1>2 DEF CopySound
  <2>5. doc.stages["silver"] = "success" => doc.version
    <3>1. CASE s = "silver"
      BY <1>1, <1>2, <3>1 DEF StepSound
    <3>2. CASE s # "silver"
      BY <1>2, <3>2, StageFacts DEF CopySound, IInv, ReceiptSound
    <3>. QED
      BY <3>1, <3>2
  <2>6. \A t \in Stages : doc.stages[t] = "success" => Effect(e, t)'
    BY <1>2, <1>7, <2>3, EffectLasts
  <2>7. (doc.version => e \in silver'.chosen) /\ (doc.status = "success" => e \in Activated')
    BY <1>7, <2>1, <2>2 DEF Lasting
  <2>. QED
    BY <1>3, <2>4, <2>5, <2>6, <2>7 DEF ReceiptSound
<1>9. UNCHANGED <<producers, registry>>
  BY <1>1
<1>10. \A v \in Workers \ {w} : work'[v] = work[v] /\ (Working(v) => work[v].exec # e)
  BY <1>2, <1>3
<1>. QED
  BY <1>2, <1>3, <1>4, <1>5, <1>6, <1>8, <1>9, <1>10, OwnerKeeps

LEMMA CrashKeeps ==
  ASSUME IInv, NEW w \in Workers, NEW e, e = work[w].exec, Crash(w)
  PROVE  IInv'
<1>1. /\ e \in Executions /\ Working(w) /\ work' = [work EXCEPT ![w] = Idle] /\ receipt' = receipt
      /\ UNCHANGED <<producers, registry>>
      /\ \A v \in Workers : v # w /\ Working(v) => work[v].exec # e
  BY WorkFacts DEF Crash, IInv, TypeOK
<1>2. /\ work'[w] = Idle /\ work' \in [Workers -> Work \cup {Idle}]
      /\ \A v \in Workers \ {w} : work'[v] = work[v]
  BY <1>1 DEF IInv, TypeOK, WorkTypes
<1>3. ~Working(w)' /\ PinsKept
  BY <1>1, <1>2 DEF Working, Idle, PinsKept
<1>4. failures' \in Nat /\ interventions' \in Nat
  BY DEF Crash, IInv, TypeOK, LayerTypes
<1>5. ReceiptSound(e)'
  BY <1>1, <1>3, <1>4, NothingHappens, ReceiptStays DEF IInv, LayersKept
<1>6. receipt' \in [Executions -> Receipt \cup {None}]
  BY <1>1 DEF IInv, TypeOK, WorkTypes
<1>. QED
  BY <1>1, <1>2, <1>3, <1>4, <1>5, <1>6, OwnerKeeps

\* A new grant touches nothing else, and nobody has a copy of the receipt.
LEMMA GrantKeeps ==
  ASSUME IInv, NEW e \in Executions, ExtendGrant(e)
  PROVE  IInv'
<1>. DEFINE old == receipt[e]
            doc == [old EXCEPT !.grant = old.grant + 1]
<1>1. /\ old # None /\ old \in Receipt /\ LockFree(e) /\ old.grant < MaxGrants
      /\ receipt' = [receipt EXCEPT ![e] = doc]
      /\ UNCHANGED <<work, producers, registry, bounds>>
  BY DEF ExtendGrant, IInv, TypeOK, WorkTypes
<1>2. /\ doc \in Receipt /\ doc # None
      /\ doc.stages = old.stages /\ doc.expected = old.expected
      /\ doc.version = old.version /\ doc.status = old.status
  <2>1. doc \in Receipt
    BY <1>1, GrantAssumption DEF Receipt
  <2>. QED
    BY <1>1, <2>1, NoneAssumption DEF Receipt
<1>3. /\ receipt'[e] = doc /\ receipt' \in [Executions -> Receipt \cup {None}]
      /\ \A f \in Executions \ {e} : receipt'[f] = receipt[f]
  BY <1>1, <1>2 DEF IInv, TypeOK, WorkTypes
<1>4. PinsKept
  BY <1>2, <1>3 DEF PinsKept
<1>5. failures' \in Nat /\ interventions' \in Nat /\ UNCHANGED <<producers, registry>>
  BY <1>1 DEF bounds, IInv, TypeOK, LayerTypes
<1>6. LayersKept /\ \A f \in Executions : CopyKept(f)
  BY <1>4, <1>5, NothingHappens
<1>7. WorkTypes'
  BY <1>1, <1>3 DEF IInv, TypeOK, WorkTypes, Working
<1>8. ASSUME NEW v \in Workers, Working(v)' PROVE CopySound(v)' /\ StepSound(v)'
  <2>1. work'[v] = work[v] /\ Working(v) /\ work[v].exec \in Executions \ {e}
    BY <1>1, <1>8, WorkFacts DEF Working, IInv, TypeOK, LockFree
  <2>. QED
    BY <1>3, <1>6, <2>1, WorkerStays DEF IInv, TypeOK, LayersKept
<1>9. ASSUME NEW f \in Executions PROVE ReceiptSound(f)'
  <2>1. CASE f = e
    <3>1. \A s \in Stages : old.stages[s] = "success" => Effect(e, s)'
      BY <1>1, <1>6, EffectLasts DEF IInv, ReceiptSound, LayersKept
    <3>2. /\ old.version => e \in silver'.chosen
          /\ old.status = "success" => e \in Activated'
      BY <1>1, <1>6 DEF IInv, ReceiptSound, LayersKept, Lasting
    <3>3. /\ old.stages["validate"] = "success" => old.expected # None
          /\ old.stages["silver"] = "success" => old.version
      BY <1>1 DEF IInv, ReceiptSound
    <3>. QED
      BY <1>2, <1>3, <2>1, <3>1, <3>2, <3>3 DEF ReceiptSound
  <2>2. CASE f # e
    BY <1>3, <1>6, <2>2, ReceiptStays DEF IInv, LayersKept
  <2>. QED
    BY <2>1, <2>2
<1>. QED
  BY <1>6, <1>7, <1>8, <1>9 DEF IInv, TypeOK, LayersKept

-----------------------------------------------------------------------------
(* The stages *)

LEMMA ProducerFailsKeeps ==
  ASSUME IInv, NEW w \in Workers, ProducerFails(w)
  PROVE  IInv'
<1>1. /\ UNCHANGED <<producers, registry>> /\ receipt' = receipt /\ Working(w)
      /\ work[w].step # "finish" /\ Fail(w, "failed")
  BY DEF ProducerFails
<1>2. failures' \in Nat /\ interventions' \in Nat /\ PinsKept
  BY DEF ProducerFails, IInv, TypeOK, LayerTypes, PinsKept
<1>. QED
  BY <1>1, <1>2, NothingHappens, FailKeeps

\* A step that does nothing to the layers.
LEMMA QuietStep ==
  ASSUME IInv, UNCHANGED <<receipt, producers, registry, bounds>>
  PROVE  LayersKept /\ \A e \in Executions : CopyKept(e)
<1>1. failures' \in Nat /\ interventions' \in Nat /\ PinsKept
  BY DEF bounds, IInv, TypeOK, LayerTypes, PinsKept
<1>. QED
  BY <1>1, NothingHappens

\* What a worker at a step of a stage knows.
LEMMA StepFacts ==
  ASSUME IInv, NEW w \in Workers, NEW step \in Steps \ {"finish"}, At(w, step)
  PROVE  /\ Working(w) /\ work[w].step # "finish"
         /\ work[w] \in Work /\ work[w].exec \in Executions /\ work[w].exec \in Versions
         /\ work[w].stage \in Stages /\ work[w].doc \in Receipt
         /\ CopySound(w) /\ StepSound(w)
         /\ step \in Stages => work[w].stage = step
         /\ work[w].doc.version => work[w].exec \in silver.chosen
<1>1. Working(w) /\ work[w].step # "finish"
  BY StageFacts DEF At, Working, Steps
<1>2. /\ work[w] \in Work /\ work[w].exec \in Executions
      /\ work[w].stage \in Stages /\ work[w].doc \in Receipt
      /\ CopySound(w) /\ StepSound(w)
  BY <1>1, WorkFacts DEF IInv, TypeOK
<1>3. step \in Stages => work[w].stage = step
  BY <1>2 DEF StepSound, At
<1>4. work[w].doc.version => work[w].exec \in silver.chosen
  BY <1>2 DEF CopySound, IInv, ReceiptSound
<1>. QED
  BY <1>1, <1>2, <1>3, <1>4 DEF Versions

LEMMA ValidateKeeps ==
  ASSUME IInv, NEW w \in Workers, Validate(w)
  PROVE  IInv'
<1>1. At(w, "validate") /\ UNCHANGED <<receipt, producers, registry, bounds>>
  BY DEF Validate
<1>2. /\ Working(w) /\ work[w].step # "finish" /\ work[w].doc \in Receipt
      /\ work[w].stage = "validate"
  BY <1>1, StepFacts, StageFacts DEF Steps
<1>3. CASE Fail(w, "failed")
  BY <1>1, <1>2, <1>3, QuietStep, FailKeeps
<1>4. CASE Succeed(w, Pin(work[w].doc))
  <2>. DEFINE old == work[w].doc
              doc == Pin(old)
  <2>1. Pointer \in Pointers /\ Pointer # None
    BY ActivationFacts, NoneAssumption DEF Pointer, Pointers, IInv, TypeOK, LayerTypes
  <2>2. /\ doc \in Receipt /\ doc.expected # None
        /\ doc.stages = old.stages /\ doc.status = old.status /\ doc.version = old.version
        /\ doc.expected = old.expected \/ old.expected = None
    BY <1>2, <2>1 DEF Pin, Receipt
  <2>3. \A e : Effect(e, "validate")'
    BY DEF Effect
  <2>. QED
    BY <1>1, <1>2, <1>4, <2>2, <2>3, QuietStep, SucceedKeeps
<1>. QED
  BY <1>3, <1>4 DEF Validate

\* A step of a producer that activates nothing.
LEMMA ChangeKeeps ==
  ASSUME IInv, UNCHANGED <<receipt, activations>>, LayerTypes', LayersSound', Lasting
  PROVE  LayersKept
<1>1. PipelineActivates' /\ ActivationAsDecided'
  BY ActivationsStay, NoneAssumption DEF IInv, TypeOK
<1>. QED
  BY <1>1 DEF LayersKept

LEMMA LaterSteps ==
  {"select", "build", "seal", "pointer", "swap"} \subseteq Steps \ (Stages \cup {"finish"})
  BY StageFacts DEF Steps

\* Going on changes the step and nothing else.
LEMMA GotoIs ==
  ASSUME IInv, NEW w \in Workers, work[w] \in Work, NEW step, Goto(w, step)
  PROVE  /\ work' = [work EXCEPT ![w].step = step, ![w].ever = work[w].ever]
         /\ work[w].ever \in BOOLEAN
  BY DEF Goto, Work, IInv, TypeOK, WorkTypes

\* A campaign moves: the layers are sound as long as it was not committed, or is.
LEMMA CampaignChanges ==
  ASSUME IInv, NEW e \in Executions, NEW state \in {"none", "open", "committed", "stranded"},
         campaign' = [campaign EXCEPT ![e] = state],
         campaign[e] = "committed" => state = "committed",
         UNCHANGED <<receipt, silver, raw, registry>>, failures' \in Nat, interventions' \in Nat
  PROVE  LayersKept /\ \A f \in Executions : CopyKept(f)
<1>1. /\ campaign' \in [Executions -> {"none", "open", "committed", "stranded"}]
      /\ \A f \in Executions : campaign[f] = "committed" => campaign'[f] = "committed"
  BY DEF IInv, TypeOK, LayerTypes
<1>2. LayerTypes'
  BY <1>1 DEF IInv, TypeOK, LayerTypes, registry
<1>3. LayersSound'
  <2>1. \A f \in silver'.published \ {Base} : campaign'[f] = "committed"
    BY <1>1 DEF IInv, TypeOK, LayerTypes, LayersSound, Versions
  <2>. QED
    BY <2>1 DEF IInv, LayersSound, registry, Activated
<1>4. Lasting /\ \A f \in Executions : CopyKept(f)
  BY <1>1 DEF Lasting, CopyKept, registry, Activated
<1>. QED
  BY <1>2, <1>3, <1>4, ChangeKeeps DEF registry

LEMMA AcquireKeeps ==
  ASSUME IInv, NEW w \in Workers, NEW e, e = work[w].exec, Acquire(w)
  PROVE  IInv'
<1>. DEFINE complete == campaign[e] = "committed" \/ work[w].doc.grant >= GrantsNeeded[e]
<1>1. At(w, "acquire") /\ UNCHANGED <<receipt, silver, raw, registry, bounds>>
  BY DEF Acquire
<1>2. /\ Working(w) /\ work[w].step # "finish" /\ work[w].doc \in Receipt
      /\ work[w].stage = "acquire" /\ e \in Executions
  BY <1>1, StepFacts, StageFacts DEF Steps
<1>. HIDE DEF complete
<1>3. CASE /\ complete /\ campaign' = [campaign EXCEPT ![e] = "committed"]
           /\ Succeed(w, work[w].doc)
  <2>1. LayersKept /\ \A f \in Executions : CopyKept(f)
    BY <1>1, <1>2, <1>3, CampaignChanges DEF IInv, TypeOK, LayerTypes, bounds
  <2>2. Effect(e, "acquire")'
    BY <1>2, <1>3 DEF Effect, IInv, TypeOK, LayerTypes
  <2>. QED
    BY <1>1, <1>2, <1>3, <2>1, <2>2, SucceedKeeps
<1>4. CASE /\ ~complete /\ campaign' = [campaign EXCEPT ![e] = "open"]
           /\ Fail(w, "incomplete")
  <2>1. campaign[e] # "committed"
    BY <1>4 DEF complete
  <2>2. LayersKept /\ \A f \in Executions : CopyKept(f)
    BY <1>1, <1>2, <1>4, <2>1, CampaignChanges DEF IInv, TypeOK, LayerTypes, bounds
  <2>. QED
    BY <1>1, <1>2, <1>4, <2>2, FailKeeps
<1>5. CASE Fail(w, "failed") /\ UNCHANGED campaign
  BY <1>1, <1>2, <1>5, QuietStep, FailKeeps DEF producers
<1>. QED
  BY <1>3, <1>4, <1>5 DEF Acquire, complete

\* A worker dies while the directory of its campaign is made.
LEMMA CrashCreatingKeeps ==
  ASSUME IInv, NEW w \in Workers, CrashCreating(w)
  PROVE  IInv'
<1>. DEFINE e == work[w].exec
<1>1. /\ At(w, "acquire") /\ campaign[e] = "none"
      /\ campaign' = [campaign EXCEPT ![e] = "stranded"]
      /\ work' = [work EXCEPT ![w] = Idle] /\ receipt' = receipt
      /\ UNCHANGED <<silver, raw, registry>>
      /\ failures' \in Nat /\ interventions' \in Nat
  BY DEF CrashCreating, IInv, TypeOK, LayerTypes
<1>2. e \in Executions
  BY <1>1, StepFacts, StageFacts DEF Steps
<1>3. LayersKept /\ \A f \in Executions : CopyKept(f)
  BY <1>1, <1>2, CampaignChanges
<1>4. /\ work' \in [Workers -> Work \cup {Idle}] /\ work'[w] = Idle
      /\ \A v \in Workers \ {w} : work'[v] = work[v]
  BY <1>1 DEF IInv, TypeOK, WorkTypes
<1>5. WorkTypes'
  BY <1>1, <1>4 DEF IInv, TypeOK, WorkTypes, Working, Idle
<1>6. ASSUME NEW v \in Workers, Working(v)' PROVE CopySound(v)' /\ StepSound(v)'
  <2>1. Working(v) /\ work'[v] = work[v] /\ work[v].exec \in Executions
    BY <1>4, <1>6, WorkFacts DEF Working, Idle, IInv, TypeOK
  <2>. QED
    BY <1>1, <1>3, <2>1, WorkerStays DEF IInv, TypeOK, LayersKept
<1>7. \A f \in Executions : ReceiptSound(f)'
  BY <1>1, <1>3, ReceiptStays DEF IInv, LayersKept
<1>. QED
  BY <1>3, <1>5, <1>6, <1>7 DEF IInv, TypeOK, LayersKept

\* A change of Silver keeps the layers sound if it publishes what is committed and
\* selects what is published.
LEMMA SilverChanges ==
  ASSUME IInv, UNCHANGED <<receipt, campaign, raw, registry, bounds>>,
         silver' \in [published : SUBSET Versions, current : Versions, chosen : SUBSET Versions],
         silver.published \subseteq silver'.published, silver.chosen \subseteq silver'.chosen,
         silver'.current \in silver'.chosen, silver'.chosen \subseteq silver'.published,
         \A f \in silver'.published \ (silver.published \cup {Base}) : campaign[f] = "committed"
  PROVE  LayersKept /\ \A e \in Executions : CopyKept(e)
<1>1. LayerTypes'
  BY DEF IInv, TypeOK, LayerTypes, registry, bounds
<1>2. LayersSound'
  BY DEF IInv, LayersSound, registry, Activated
<1>3. Lasting /\ \A e \in Executions : CopyKept(e)
  BY DEF Lasting, CopyKept, registry, Activated
<1>. QED
  BY <1>1, <1>2, <1>3, ChangeKeeps DEF registry

LEMMA SilverKeeps ==
  ASSUME IInv, NEW w \in Workers, NEW e, e = work[w].exec, Silver(w)
  PROVE  IInv'
<1>1. At(w, "silver") /\ UNCHANGED <<receipt, campaign, raw, registry, bounds>>
  BY DEF Silver
<1>2. /\ Working(w) /\ work[w].step # "finish" /\ work[w] \in Work /\ work[w].doc \in Receipt
      /\ work[w].stage = "silver" /\ e \in Executions /\ e \in Versions
      /\ work[w].doc.version => e \in silver.chosen
  BY <1>1, StepFacts, StageFacts DEF Steps
<1>3. CASE work[w].doc.version /\ Succeed(w, work[w].doc) /\ UNCHANGED silver
  <2>1. Effect(e, "silver")'
    BY <1>2, <1>3 DEF Effect
  <2>. QED
    BY <1>1, <1>2, <1>3, <2>1, QuietStep, SucceedKeeps DEF producers
<1>4. CASE Fail(w, "failed") /\ UNCHANGED silver
  BY <1>1, <1>2, <1>4, QuietStep, FailKeeps DEF producers
<1>5. CASE /\ campaign[e] = "committed" /\ Goto(w, "select")
           /\ silver' = [silver EXCEPT !.published = @ \cup {e}]
  <2>1. /\ silver'.chosen = silver.chosen /\ silver'.current = silver.current
        /\ silver'.published = silver.published \cup {e}
        /\ silver' \in [published : SUBSET Versions, current : Versions, chosen : SUBSET Versions]
    BY <1>2, <1>5 DEF IInv, TypeOK, LayerTypes
  <2>2. LayersKept /\ \A f \in Executions : CopyKept(f)
    BY <1>1, <1>5, <2>1, SilverChanges DEF IInv, LayersSound
  <2>3. /\ work' = [work EXCEPT ![w].step = "select", ![w].ever = work[w].ever]
        /\ work[w].ever \in BOOLEAN
    BY <1>2, <1>5, GotoIs
  <2>4. e \in silver'.published /\ receipt' = receipt
    BY <1>1, <2>1
  <2>5. "select" \in Steps \ (Stages \cup {"finish"})
    BY LaterSteps
  <2>. QED
    BY <1>2, <2>2, <2>3, <2>4, <2>5, GotoKeeps
<1>. QED
  BY <1>1, <1>3, <1>4, <1>5 DEF Silver

LEMMA SelectKeeps ==
  ASSUME IInv, NEW w \in Workers, NEW e, e = work[w].exec, Select(w)
  PROVE  IInv'
<1>1. At(w, "select") /\ UNCHANGED <<receipt, campaign, raw, registry, bounds>>
  BY DEF Select
<1>2. /\ Working(w) /\ work[w].step # "finish" /\ work[w] \in Work /\ work[w].doc \in Receipt
      /\ e \in Executions /\ e \in Versions
      /\ work[w].stage = "silver" /\ e \in silver.published
  <2>1. /\ Working(w) /\ work[w].step # "finish" /\ work[w] \in Work /\ work[w].doc \in Receipt
        /\ e \in Executions /\ e \in Versions /\ StepSound(w)
    BY <1>1, StepFacts DEF Steps
  <2>. QED
    BY <1>1, <2>1 DEF StepSound, At
<1>3. CASE Fail(w, "failed") /\ UNCHANGED silver
  BY <1>1, <1>2, <1>3, QuietStep, FailKeeps DEF producers
<1>4. CASE /\ silver' = [silver EXCEPT !.current = e, !.chosen = @ \cup {e}]
           /\ Succeed(w, [work[w].doc EXCEPT !.version = TRUE])
  <2>1. /\ silver'.chosen = silver.chosen \cup {e} /\ silver'.current = e
        /\ silver'.published = silver.published
        /\ silver' \in [published : SUBSET Versions, current : Versions, chosen : SUBSET Versions]
    BY <1>2, <1>4 DEF IInv, TypeOK, LayerTypes
  <2>2. LayersKept /\ \A f \in Executions : CopyKept(f)
    BY <1>1, <1>2, <2>1, SilverChanges DEF IInv, LayersSound
  <2>. DEFINE doc == [work[w].doc EXCEPT !.version = TRUE]
  <2>3. /\ doc \in Receipt /\ doc.version /\ doc.stages = work[w].doc.stages
        /\ doc.status = work[w].doc.status /\ doc.expected = work[w].doc.expected
    BY <1>2 DEF Receipt
  <2>4. Effect(e, "silver")'
    BY <2>1 DEF Effect
  <2>. QED
    BY <1>1, <1>2, <1>4, <2>2, <2>3, <2>4, SucceedKeeps
<1>. QED
  BY <1>3, <1>4 DEF Select

\* The warehouse loads what is published.
LEMMA LoadKeeps ==
  ASSUME IInv, NEW e \in Versions, e \in silver.published,
         raw' = [active |-> e, loaded |-> raw.loaded \cup {e}],
         UNCHANGED <<receipt, campaign, silver, registry>>,
         failures' \in Nat, interventions' \in Nat
  PROVE  LayersKept /\ \A f \in Executions : CopyKept(f)
<1>1. raw'.active = e /\ raw'.loaded = raw.loaded \cup {e}
  OBVIOUS
<1>2. LayerTypes'
  BY DEF IInv, TypeOK, LayerTypes, registry
<1>3. LayersSound'
  BY <1>1 DEF IInv, LayersSound, registry, Activated
<1>4. Lasting /\ \A f \in Executions : CopyKept(f)
  BY <1>1 DEF Lasting, CopyKept, registry, Activated
<1>. QED
  BY <1>2, <1>3, <1>4, ChangeKeeps DEF registry

LEMMA WarehouseKeeps ==
  ASSUME IInv, NEW w \in Workers, NEW e, e = work[w].exec, Warehouse(w)
  PROVE  IInv'
<1>1. At(w, "warehouse") /\ UNCHANGED <<receipt, campaign, silver, registry, bounds>>
  BY DEF Warehouse
<1>2. /\ Working(w) /\ work[w].step # "finish" /\ work[w].doc \in Receipt
      /\ e \in Executions /\ e \in Versions
      /\ work[w].stage = "warehouse" /\ (work[w].doc.version => e \in silver.chosen)
  BY <1>1, StepFacts, StageFacts DEF Steps
<1>3. CASE Fail(w, "failed") /\ UNCHANGED raw
  BY <1>1, <1>2, <1>3, QuietStep, FailKeeps DEF producers
<1>4. CASE /\ work[w].doc.version /\ Succeed(w, work[w].doc)
           /\ raw' = [active |-> e, loaded |-> raw.loaded \cup {e}]
  <2>1. LayersKept /\ \A f \in Executions : CopyKept(f)
    BY <1>1, <1>2, <1>4, LoadKeeps DEF IInv, TypeOK, LayerTypes, LayersSound, bounds
  <2>2. Effect(e, "warehouse")'
    BY <1>4 DEF Effect
  <2>. QED
    BY <1>1, <1>2, <1>4, <2>1, <2>2, SucceedKeeps
<1>. QED
  BY <1>3, <1>4 DEF Warehouse

\* A change of the candidates: what is ready stays, and is a copy of itself.
LEMMA CandidatesChange ==
  ASSUME IInv, UNCHANGED <<receipt, producers, active, activations>>,
         failures' \in Nat, interventions' \in Nat,
         pubState' \in [Versions -> {"absent", "building", "sealed", "retained", "discarded"}],
         pinned' \in [Versions -> Pointers \cup {None}],
         captured' \in [Versions -> Versions \cup {None}],
         \A p \in Versions :
           /\ pubState[p] \notin {"absent", "building"} =>
                pubState'[p] \notin {"absent", "building"}
           /\ pubState[p] = "retained" => pubState'[p] = "retained"
           /\ captured'[p] \in {None, p}
           /\ captured'[p] = p => p \in raw.loaded
           /\ pubState'[p] \in {"sealed", "retained"} => captured'[p] = p
           /\ pubState'[p] # "absent" => p \in silver.chosen
  PROVE  LayersKept
<1>1. LayerTypes'
  BY DEF IInv, TypeOK, LayerTypes, producers
<1>2. LayersSound'
  BY DEF IInv, LayersSound, producers, Activated
<1>3. Lasting
  BY DEF Lasting, producers, Activated
<1>. QED
  BY <1>1, <1>2, <1>3, ChangeKeeps

LEMMA CandidateFacts ==
  ASSUME IInv, NEW p \in Versions
  PROVE  /\ captured[p] \in {None, p}
         /\ captured[p] = p => p \in raw.loaded
         /\ pubState[p] \in {"sealed", "retained"} => captured[p] = p
         /\ pubState[p] # "absent" => p \in silver.chosen
         /\ pubState[p] \in {"absent", "building", "sealed", "retained", "discarded"}
  BY DEF IInv, LayersSound, TypeOK, LayerTypes

LEMMA ReserveKeeps ==
  ASSUME IInv, NEW w \in Workers, NEW e, e = work[w].exec, Reserve(w)
  PROVE  IInv'
<1>1. At(w, "candidate") /\ UNCHANGED <<receipt, producers, captured, active, activations, bounds>>
  BY DEF Reserve
<1>2. /\ Working(w) /\ work[w].step # "finish" /\ work[w] \in Work
      /\ e \in Executions /\ e \in Versions /\ work[w].stage = "candidate"
      /\ (work[w].doc.version => e \in silver.chosen)
  BY <1>1, StepFacts, StageFacts DEF Steps
<1>3. CASE Fail(w, "failed") /\ UNCHANGED <<pubState, pinned>>
  BY <1>1, <1>2, <1>3, QuietStep, FailKeeps DEF registry
<1>4. ASSUME Goto(w, "build"), LayersKept, \A f \in Executions \ {e} : CopyKept(f)
      PROVE  IInv'
  <2>1. /\ work' = [work EXCEPT ![w].step = "build", ![w].ever = work[w].ever]
        /\ work[w].ever \in BOOLEAN
    BY <1>2, <1>4, GotoIs
  <2>2. "build" \in Steps \ (Stages \cup {"finish"})
    BY LaterSteps
  <2>. QED
    BY <1>1, <1>2, <1>4, <2>1, <2>2, GotoKeeps
<1>5. CASE Goto(w, "build") /\ UNCHANGED <<pubState, pinned>>
  BY <1>1, <1>4, <1>5, QuietStep DEF registry
<1>6. CASE /\ work[w].doc.version /\ pubState[e] = "absent" /\ pubState' = [pubState EXCEPT ![e] = "building"]
           /\ pinned' = [pinned EXCEPT ![e] = Pointer] /\ Goto(w, "build")
  <2>1. Pointer \in Pointers
    BY ActivationFacts DEF Pointer, Pointers, IInv, TypeOK, LayerTypes
  <2>2. /\ pubState' \in [Versions -> {"absent", "building", "sealed", "retained", "discarded"}]
        /\ pinned' \in [Versions -> Pointers \cup {None}]
        /\ captured' \in [Versions -> Versions \cup {None}]
        /\ pubState'[e] = "building" /\ \A p \in Versions \ {e} : pubState'[p] = pubState[p]
    BY <1>1, <1>2, <1>6, <2>1 DEF IInv, TypeOK, LayerTypes
  <2>3. failures' \in Nat /\ interventions' \in Nat
    BY <1>1 DEF bounds, IInv, TypeOK, LayerTypes
  <2>4. LayersKept
    BY <1>1, <1>2, <1>6, <2>2, <2>3, CandidateFacts, CandidatesChange
  <2>5. \A f \in Executions \ {e} : CopyKept(f)
    BY <1>1, <2>2 DEF CopyKept, Versions
  <2>. QED
    BY <1>4, <1>6, <2>4, <2>5
<1>. QED
  BY <1>3, <1>5, <1>6 DEF Reserve

LEMMA CaptureKeeps ==
  ASSUME IInv, NEW w \in Workers, NEW e, e = work[w].exec, Capture(w)
  PROVE  IInv'
<1>1. /\ At(w, "build")
      /\ UNCHANGED <<receipt, producers, pubState, pinned, active, activations, bounds>>
  BY DEF Capture
<1>2. /\ Working(w) /\ work[w].step # "finish" /\ work[w] \in Work /\ work[w].doc \in Receipt
      /\ e \in Executions /\ e \in Versions /\ work[w].stage = "candidate"
  <2>1. /\ Working(w) /\ work[w].step # "finish" /\ work[w] \in Work /\ work[w].doc \in Receipt
        /\ e \in Executions /\ e \in Versions /\ StepSound(w)
    BY <1>1, StepFacts DEF Steps
  <2>. QED
    BY <1>1, <2>1 DEF StepSound, At
<1>3. CASE Fail(w, "failed") /\ UNCHANGED captured
  BY <1>1, <1>2, <1>3, QuietStep, FailKeeps DEF registry
<1>4. CASE pubState[e] \in {"sealed", "retained"} /\ Succeed(w, work[w].doc) /\ UNCHANGED captured
  <2>1. Effect(e, "candidate")'
    BY <1>1, <1>4 DEF Effect
  <2>. QED
    BY <1>1, <1>2, <1>4, <2>1, QuietStep, SucceedKeeps DEF registry
<1>5. CASE /\ pubState[e] = "building" /\ CanCapture(e) /\ Goto(w, "seal")
           /\ captured' = [captured EXCEPT ![e] = IF @ = None THEN raw.active ELSE @]
  <2>1. raw.active \in raw.loaded /\ raw.active \in Versions
    BY DEF IInv, LayersSound, TypeOK, LayerTypes
  <2>2. /\ captured' \in [Versions -> Versions \cup {None}] /\ captured'[e] = e
        /\ \A p \in Versions \ {e} : captured'[p] = captured[p]
        /\ e \in raw.loaded
    BY <1>2, <1>5, <2>1, CandidateFacts DEF IInv, TypeOK, LayerTypes, CanCapture
  <2>3. /\ pubState' \in [Versions -> {"absent", "building", "sealed", "retained", "discarded"}]
        /\ pinned' \in [Versions -> Pointers \cup {None}]
        /\ failures' \in Nat /\ interventions' \in Nat
    BY <1>1 DEF bounds, IInv, TypeOK, LayerTypes
  <2>4. LayersKept
    BY <1>1, <1>5, <2>2, <2>3, CandidateFacts, CandidatesChange
  <2>5. \A f \in Executions \ {e} : CopyKept(f)
    BY <1>1, <2>2 DEF CopyKept, Versions
  <2>6. /\ work' = [work EXCEPT ![w].step = "seal", ![w].ever = work[w].ever]
        /\ work[w].ever \in BOOLEAN
    BY <1>2, <1>5, GotoIs
  <2>7. "seal" \in Steps \ (Stages \cup {"finish"})
    BY LaterSteps
  <2>. QED
    BY <1>1, <1>2, <2>2, <2>4, <2>5, <2>6, <2>7, GotoKeeps
<1>. QED
  BY <1>3, <1>4, <1>5 DEF Capture

LEMMA SealKeeps ==
  ASSUME IInv, NEW w \in Workers, NEW e, e = work[w].exec, Seal(w)
  PROVE  IInv'
<1>1. /\ At(w, "seal")
      /\ UNCHANGED <<receipt, producers, pinned, captured, active, activations, bounds>>
  BY DEF Seal
<1>2. /\ Working(w) /\ work[w].step # "finish" /\ work[w].doc \in Receipt
      /\ e \in Executions /\ e \in Versions /\ work[w].stage = "candidate"
      /\ pubState[e] = "building" => captured[e] = e
  <2>1. /\ Working(w) /\ work[w].step # "finish" /\ work[w].doc \in Receipt
        /\ e \in Executions /\ e \in Versions /\ StepSound(w)
    BY <1>1, StepFacts DEF Steps
  <2>. QED
    BY <1>1, <2>1 DEF StepSound, At
<1>3. CASE Fail(w, "failed") /\ UNCHANGED pubState
  BY <1>1, <1>2, <1>3, QuietStep, FailKeeps DEF registry
<1>4. CASE /\ pubState[e] = "building" /\ Succeed(w, work[w].doc)
           /\ pubState' = [pubState EXCEPT ![e] = "sealed"]
  <2>1. /\ pubState' \in [Versions -> {"absent", "building", "sealed", "retained", "discarded"}]
        /\ pinned' \in [Versions -> Pointers \cup {None}]
        /\ captured' \in [Versions -> Versions \cup {None}]
        /\ failures' \in Nat /\ interventions' \in Nat
        /\ pubState'[e] = "sealed" /\ \A p \in Versions \ {e} : pubState'[p] = pubState[p]
    BY <1>1, <1>2, <1>4 DEF bounds, IInv, TypeOK, LayerTypes
  <2>2. LayersKept
    BY <1>1, <1>2, <1>4, <2>1, CandidateFacts, CandidatesChange
  <2>3. \A f \in Executions \ {e} : CopyKept(f)
    BY <1>1, <2>1 DEF CopyKept, Versions
  <2>4. Effect(e, "candidate")'
    BY <2>1 DEF Effect
  <2>. QED
    BY <1>1, <1>2, <1>4, <2>2, <2>3, <2>4, SucceedKeeps
<1>. QED
  BY <1>3, <1>4 DEF Seal

\* The registry's pointer moves to a copy that is ready, and the pipeline moves
\* it only from where the receipt says.
LEMMA ActivatesKeeps ==
  ASSUME IInv, NEW p \in Versions, NEW by \in {"pipeline", "operator"}, Activates(p, by),
         pubState[p] \in {"sealed", "retained"},
         UNCHANGED <<receipt, producers>>, failures' \in Nat, interventions' \in Nat,
         by = "pipeline" =>
           p \in Executions /\ receipt[p] # None /\ receipt[p].expected = Pointer
  PROVE  LayersKept /\ (\A f \in Executions : CopyKept(f)) /\ p \in Activated'
<1>. DEFINE n == Len(activations)
            new == [pub |-> p, by |-> by]
<1>1. /\ n \in Nat /\ DOMAIN activations = 1 .. n /\ activations # <<>>
      /\ active = activations[n].pub
      /\ activations \in Seq([pub : Versions, by : {"pipeline", "operator"}])
  BY ActivationFacts DEF IInv, TypeOK, LayerTypes, LayersSound
<1>2. n >= 1
  BY <1>1
<1>3. /\ activations' = Append(activations, new) /\ active' = p
      /\ pubState' = [pubState EXCEPT ![p] = "retained"] /\ UNCHANGED <<pinned, captured>>
  BY DEF Activates
<1>4. new \in [pub : Versions, by : {"pipeline", "operator"}] /\ new.pub = p /\ new.by = by
  OBVIOUS
<1>. HIDE DEF new
<1>5. /\ activations' \in Seq([pub : Versions, by : {"pipeline", "operator"}])
      /\ Len(activations') = n + 1 /\ DOMAIN activations' = 1 .. (n + 1)
      /\ \A i \in 1 .. n : activations'[i] = activations[i]
      /\ activations'[n + 1] = new
  BY <1>1, <1>3, <1>4
<1>6. Activated' = Activated \cup {p}
  <2>1. Activated = {activations[i].pub : i \in 1 .. n}
    BY <1>1 DEF Activated
  <2>2. Activated' = {activations'[i].pub : i \in 1 .. (n + 1)}
    BY <1>5 DEF Activated
  <2>3. 1 .. (n + 1) = (1 .. n) \cup {n + 1}
    BY <1>1
  <2>. QED
    BY <1>4, <1>5, <2>1, <2>2, <2>3
<1>7. /\ pubState' \in [Versions -> {"absent", "building", "sealed", "retained", "discarded"}]
      /\ pubState'[p] = "retained"
      /\ \A q \in Versions \ {p} : pubState'[q] = pubState[q]
  BY <1>3 DEF IInv, TypeOK, LayerTypes
<1>8. LayerTypes'
  BY <1>3, <1>5, <1>7 DEF IInv, TypeOK, LayerTypes, producers
<1>9. LayersSound'
  <2>1. activations' # <<>> /\ active' = activations'[Len(activations')].pub
    BY <1>1, <1>3, <1>4, <1>5
  <2>2. \A q \in Versions :
          /\ captured'[q] \in {None, q}
          /\ captured'[q] = q => q \in raw'.loaded
          /\ pubState'[q] \in {"sealed", "retained"} => captured'[q] = q
          /\ q \in Activated' => pubState'[q] = "retained"
          /\ pubState'[q] # "absent" => q \in silver'.chosen
    BY <1>3, <1>6, <1>7, CandidateFacts DEF IInv, LayersSound, producers
  <2>. QED
    BY <2>1, <2>2 DEF IInv, LayersSound, producers
<1>10. Lasting
  BY <1>6, <1>7 DEF Lasting, producers
<1>11. PipelineActivates' /\ ActivationAsDecided'
  <2>1. ASSUME NEW i \in DOMAIN activations', activations'[i].by = "pipeline"
        PROVE  LET e == activations'[i].pub
               IN /\ e \in Executions /\ receipt'[e] # None /\ i > 1
                  /\ receipt'[e].expected = [id |-> activations'[i - 1].pub, gen |-> i - 1]
    <3>1. CASE i \in 1 .. n
      <4>1. i > 1 /\ activations[i].by = "pipeline"
        BY <1>1, <1>5, <2>1, <3>1 DEF IInv, ActivationAsDecided
      <4>2. i - 1 \in 1 .. n
        BY <1>1, <3>1, <4>1
      <4>. QED
        BY <1>1, <1>5, <3>1, <4>1, <4>2 DEF IInv, ActivationAsDecided, PipelineActivates
    <3>2. CASE i = n + 1
      <4>1. i > 1 /\ i - 1 = n /\ n \in 1 .. n
        BY <1>1, <1>2, <3>2
      <4>2. p \in Executions /\ receipt[p] # None
            /\ receipt[p].expected = [id |-> activations[n].pub, gen |-> n]
        BY <1>1, <1>4, <1>5, <2>1, <3>2 DEF Pointer
      <4>. QED
        BY <1>4, <1>5, <3>2, <4>1, <4>2
    <3>. QED
      BY <1>1, <1>5, <3>1, <3>2
  <2>. QED
    BY <2>1 DEF PipelineActivates, ActivationAsDecided
<1>12. \A f \in Executions : CopyKept(f)
  BY <1>3, <1>7 DEF CopyKept, Versions
<1>. QED
  BY <1>6, <1>8, <1>9, <1>10, <1>11, <1>12 DEF LayersKept

LEMMA ReadRowKeeps ==
  ASSUME IInv, NEW w \in Workers, NEW e, e = work[w].exec, ReadRow(w)
  PROVE  IInv'
<1>1. /\ At(w, "activate") /\ UNCHANGED <<receipt, producers, registry, bounds>>
      /\ work' = [work EXCEPT ![w].step = "pointer", ![w].ever = (e \in Activated)]
  BY DEF ReadRow
<1>2. Working(w) /\ work[w].step # "finish" /\ work[w].stage = "activate" /\ e \in Executions
  BY <1>1, StepFacts, StageFacts DEF Steps
<1>3. "pointer" \in Steps \ (Stages \cup {"finish"}) /\ (e \in Activated) \in BOOLEAN
  BY LaterSteps
<1>. QED
  BY <1>1, <1>2, <1>3, QuietStep, GotoKeeps

LEMMA ReadPointerKeeps ==
  ASSUME IInv, NEW w \in Workers, ReadPointer(w)
  PROVE  IInv'
<1>1. At(w, "pointer") /\ UNCHANGED <<receipt, producers, registry, bounds>>
  BY DEF ReadPointer
<1>2. /\ Working(w) /\ work[w].step # "finish" /\ work[w] \in Work /\ work[w].stage = "activate"
  <2>1. Working(w) /\ work[w].step # "finish" /\ work[w] \in Work /\ StepSound(w)
    BY <1>1, StepFacts DEF Steps
  <2>. QED
    BY <1>1, <2>1 DEF StepSound, At
<1>3. CASE Fail(w, "failed")
  BY <1>1, <1>2, <1>3, QuietStep, FailKeeps
<1>4. CASE Goto(w, "swap")
  <2>1. /\ work' = [work EXCEPT ![w].step = "swap", ![w].ever = work[w].ever]
        /\ work[w].ever \in BOOLEAN
    BY <1>2, <1>4, GotoIs
  <2>2. "swap" \in Steps \ (Stages \cup {"finish"})
    BY LaterSteps
  <2>. QED
    BY <1>1, <1>2, <2>1, <2>2, QuietStep, GotoKeeps
<1>. QED
  BY <1>3, <1>4 DEF ReadPointer

LEMMA ActivateKeeps ==
  ASSUME IInv, NEW w \in Workers, NEW e, e = work[w].exec, Activate(w)
  PROVE  IInv'
<1>1. At(w, "swap") /\ UNCHANGED <<receipt, producers, bounds>>
  BY DEF Activate
<1>2. /\ Working(w) /\ work[w].step # "finish" /\ work[w] \in Work /\ work[w].doc \in Receipt
      /\ e \in Executions /\ e \in Versions /\ work[w].stage = "activate"
      /\ CopySound(w)
  <2>1. /\ Working(w) /\ work[w].step # "finish" /\ work[w] \in Work /\ work[w].doc \in Receipt
        /\ e \in Executions /\ e \in Versions /\ StepSound(w) /\ CopySound(w)
    BY <1>1, StepFacts DEF Steps
  <2>. QED
    BY <1>1, <2>1 DEF StepSound, At
<1>3. CASE Fail(w, "failed") /\ UNCHANGED registry
  BY <1>1, <1>2, <1>3, QuietStep, FailKeeps
<1>4. CASE active = e /\ Succeed(w, work[w].doc) /\ UNCHANGED registry
  <2>1. e \in Activated
    <3>1. /\ activations \in Seq([pub : Versions, by : {"pipeline", "operator"}])
          /\ activations # <<>> /\ active = activations[Len(activations)].pub
      BY DEF IInv, LayersSound, TypeOK, LayerTypes
    <3>2. Len(activations) \in DOMAIN activations
      BY <3>1
    <3>. QED
      BY <1>4, <3>1, <3>2 DEF Activated
  <2>2. Effect(e, "activate")'
    BY <1>4, <2>1 DEF Effect, Activated, registry
  <2>. QED
    BY <1>1, <1>2, <1>4, <2>2, QuietStep, SucceedKeeps
<1>5. CASE /\ pubState[e] \in {"sealed", "retained"} /\ Expected(w) = Pointer
           /\ Activates(e, "pipeline") /\ Succeed(w, work[w].doc)
  <2>1. receipt[e] # None /\ receipt[e].expected = Pointer
    BY <1>2, <1>5 DEF CopySound, Expected
  <2>2. failures' \in Nat /\ interventions' \in Nat
    BY <1>1 DEF bounds, IInv, TypeOK, LayerTypes
  <2>3. LayersKept /\ (\A f \in Executions : CopyKept(f)) /\ e \in Activated'
    BY <1>1, <1>2, <1>5, <2>1, <2>2, ActivatesKeeps
  <2>4. Effect(e, "activate")'
    BY <2>3 DEF Effect
  <2>. QED
    BY <1>1, <1>2, <1>5, <2>3, <2>4, SucceedKeeps
<1>. QED
  BY <1>3, <1>4, <1>5 DEF Activate

LEMMA OutcomeKeeps ==
  ASSUME IInv, NEW w \in Workers, Outcome(w)
  PROVE  IInv'
<1>1. /\ At(w, "outcome") /\ Succeed(w, work[w].doc)
      /\ UNCHANGED <<receipt, producers, registry, bounds>>
  BY DEF Outcome
<1>2. /\ Working(w) /\ work[w].step # "finish" /\ work[w].doc \in Receipt
      /\ work[w].stage = "outcome"
  BY <1>1, StepFacts, StageFacts DEF Steps
<1>3. \A e : Effect(e, "outcome")'
  BY DEF Effect
<1>. QED
  BY <1>1, <1>2, <1>3, QuietStep, SucceedKeeps

-----------------------------------------------------------------------------
(* Operators *)

LEMMA OperatorKeeps ==
  ASSUME IInv, UNCHANGED <<receipt, work>>, LayersKept, \A e \in Executions : CopyKept(e)
  PROVE  IInv'
<1>1. WorkTypes'
  BY DEF IInv, TypeOK, WorkTypes, Working
<1>2. ASSUME NEW v \in Workers, Working(v)' PROVE CopySound(v)' /\ StepSound(v)'
  <2>1. Working(v) /\ work'[v] = work[v] /\ work[v].exec \in Executions
    BY <1>2, WorkFacts DEF Working, IInv, TypeOK
  <2>. QED
    BY <2>1, WorkerStays DEF IInv, TypeOK, LayersKept
<1>3. \A e \in Executions : ReceiptSound(e)'
  BY ReceiptStays DEF IInv, LayersKept
<1>. QED
  BY <1>1, <1>2, <1>3 DEF IInv, TypeOK, LayersKept

LEMMA InterventionsKeep ==
  ASSUME IInv, NEW p \in Versions,
         OperatorActivates(p) \/ OperatorDiscards(p) \/ OperatorRestores(p)
  PROVE  IInv'
<1>1. failures' \in Nat /\ interventions' \in Nat /\ UNCHANGED <<receipt, work, failures>>
  BY DEF OperatorActivates, OperatorDiscards, OperatorRestores, Intervene, IInv, TypeOK, LayerTypes
<1>2. CASE OperatorActivates(p)
  <2>1. /\ pubState[p] \in {"sealed", "retained"} /\ Activates(p, "operator")
        /\ UNCHANGED <<receipt, producers>>
    BY <1>2 DEF OperatorActivates
  <2>. QED
    BY <1>1, <2>1, ActivatesKeeps, OperatorKeeps
<1>3. CASE OperatorDiscards(p)
  <2>1. /\ pubState[p] \in {"building", "sealed"}
        /\ pubState' = [pubState EXCEPT ![p] = "discarded"]
        /\ captured' = [captured EXCEPT ![p] = None]
        /\ UNCHANGED <<receipt, producers, pinned, active, activations>>
    BY <1>3 DEF OperatorDiscards, Candidates
  <2>2. /\ pubState' \in [Versions -> {"absent", "building", "sealed", "retained", "discarded"}]
        /\ pinned' \in [Versions -> Pointers \cup {None}]
        /\ captured' \in [Versions -> Versions \cup {None}]
        /\ pubState'[p] = "discarded" /\ captured'[p] = None /\ p # None
        /\ \A q \in Versions \ {p} : pubState'[q] = pubState[q] /\ captured'[q] = captured[q]
    BY <2>1, NoneAssumption DEF IInv, TypeOK, LayerTypes
  <2>3. LayersKept
    BY <1>1, <2>1, <2>2, CandidateFacts, CandidatesChange
  <2>4. \A e \in Executions : CopyKept(e)
    BY <2>2 DEF CopyKept, Versions
  <2>. QED
    BY <1>1, <2>3, <2>4, OperatorKeeps
<1>4. CASE OperatorRestores(p)
  <2>1. /\ UNCHANGED <<receipt, work, campaign, registry, failures>>
        /\ \/ p \in silver.chosen /\ silver' = [silver EXCEPT !.current = p] /\ UNCHANGED raw
           \/ p \in raw.loaded /\ raw' = [raw EXCEPT !.active = p] /\ UNCHANGED silver
    BY <1>4 DEF OperatorRestores
  <2>2. /\ silver' \in [published : SUBSET Versions, current : Versions, chosen : SUBSET Versions]
        /\ raw' \in [active : Versions, loaded : SUBSET Versions]
        /\ silver'.chosen = silver.chosen /\ silver'.current \in silver.chosen
        /\ silver'.published = silver.published
        /\ raw'.loaded = raw.loaded /\ raw'.active \in raw.loaded
    BY <2>1 DEF IInv, LayersSound, TypeOK, LayerTypes
  <2>3. LayerTypes'
    BY <1>1, <2>1, <2>2 DEF IInv, TypeOK, LayerTypes, registry
  <2>4. LayersSound'
    BY <2>1, <2>2 DEF IInv, LayersSound, registry, Activated
  <2>5. Lasting /\ \A e \in Executions : CopyKept(e)
    BY <2>1, <2>2 DEF Lasting, CopyKept, registry, Activated
  <2>6. LayersKept
    BY <2>1, <2>3, <2>4, <2>5, ChangeKeeps DEF registry
  <2>. QED
    BY <1>1, <2>5, <2>6, OperatorKeeps
<1>. QED
  BY <1>2, <1>3, <1>4

LEMMA OperatorCleansKeeps ==
  ASSUME IInv, NEW e \in Executions, OperatorCleans(e)
  PROVE  IInv'
<1>1. /\ campaign' = [campaign EXCEPT ![e] = "none"] /\ campaign[e] # "committed"
      /\ UNCHANGED <<receipt, work, silver, raw, registry>>
      /\ failures' \in Nat /\ interventions' \in Nat
  BY DEF OperatorCleans, Intervene, IInv, TypeOK, LayerTypes
<1>. QED
  BY <1>1, CampaignChanges, OperatorKeeps

LEMMA OperatorLoadsKeeps ==
  ASSUME IInv, NEW e \in Executions, OperatorLoads(e)
  PROVE  IInv'
<1>1. /\ raw' = [active |-> e, loaded |-> raw.loaded \cup {e}] /\ e \in silver.published
      /\ UNCHANGED <<receipt, work, campaign, silver, registry>>
      /\ failures' \in Nat /\ interventions' \in Nat
  BY DEF OperatorLoads, Intervene, IInv, TypeOK, LayerTypes
<1>2. e \in Versions
  BY DEF Versions
<1>. QED
  BY <1>1, <1>2, LoadKeeps, OperatorKeeps

-----------------------------------------------------------------------------
(* The inductive invariant *)

LEMMA WorkerKeeps ==
  ASSUME IInv, NEW w \in Workers,
         Stage(w) \/ Finish(w) \/ Crash(w) \/ CrashCreating(w) \/ ProducerFails(w)
  PROVE  IInv'
<1>1. CASE Stage(w)
  BY <1>1, ValidateKeeps, AcquireKeeps, SilverKeeps, SelectKeeps, WarehouseKeeps, ReserveKeeps,
     CaptureKeeps, SealKeeps, ReadRowKeeps, ReadPointerKeeps, ActivateKeeps, OutcomeKeeps DEF Stage
<1>. QED
  BY <1>1, FinishKeeps, CrashKeeps, CrashCreatingKeeps, ProducerFailsKeeps

\* Whatever the interleaving, and wherever workers die, IInv holds.
THEOREM Inductive == Spec => []IInv
<1>1. Init => IInv
  <2>. SUFFICES ASSUME Init PROVE IInv
    OBVIOUS
  <2>1. Base \in Versions /\ Base \notin Executions /\ \A e \in Executions : e # Base
    BY NoneAssumption DEF Versions
  <2>2. LET one == [pub |-> Base, by |-> "operator"]
        IN /\ one \in [pub : Versions, by : {"pipeline", "operator"}]
           /\ activations = <<one>> /\ one.pub = Base /\ one.by = "operator"
    BY <2>1 DEF Init
  <2>3. /\ activations \in Seq([pub : Versions, by : {"pipeline", "operator"}])
        /\ Len(activations) = 1 /\ activations # <<>> /\ DOMAIN activations = {1}
        /\ activations[1].pub = Base /\ activations[1].by = "operator"
    BY <2>2
  <2>4. \A w \in Workers : ~Working(w)
    BY DEF Init, Working, Idle
  <2>5. WorkTypes
    BY <2>4 DEF Init, WorkTypes
  <2>6. LayerTypes
    BY <2>1, <2>3 DEF Init, LayerTypes
  <2>7. \A e \in Executions : ReceiptSound(e)
    BY DEF Init, ReceiptSound
  <2>8. Activated = {Base}
    BY <2>3 DEF Activated
  <2>9. LayersSound
    <3>1. activations # <<>> /\ active = activations[Len(activations)].pub
      BY <2>3 DEF Init
    <3>2. \A p \in Versions :
            /\ captured[p] \in {None, p}
            /\ captured[p] = p => p = Base
            /\ pubState[p] # "absent" => p = Base
      BY NoneAssumption DEF Init
    <3>3. captured[Base] = Base /\ pubState[Base] = "retained"
      BY <2>1 DEF Init
    <3>. QED
      BY <2>1, <2>8, <3>1, <3>2, <3>3 DEF Init, LayersSound
  <2>10. PipelineActivates /\ ActivationAsDecided
    BY <2>3 DEF PipelineActivates, ActivationAsDecided
  <2>. QED
    BY <2>4, <2>5, <2>6, <2>7, <2>9, <2>10 DEF IInv, TypeOK
<1>2. IInv /\ [Next]_vars => IInv'
  <2>. SUFFICES ASSUME IInv, [Next]_vars PROVE IInv'
    OBVIOUS
  <2>1. ASSUME NEW w \in Workers, NEW e \in Executions, NEW s \in Stages, Begin(w, e, s)
        PROVE  IInv'
    BY <2>1, BeginKeeps
  <2>2. ASSUME NEW w \in Workers,
               Stage(w) \/ Finish(w) \/ Crash(w) \/ CrashCreating(w) \/ ProducerFails(w)
        PROVE  IInv'
    BY <2>2, WorkerKeeps
  <2>3. ASSUME NEW e \in Executions, ExtendGrant(e) PROVE IInv'
    BY <2>3, GrantKeeps
  <2>4. ASSUME NEW p \in Versions,
               OperatorActivates(p) \/ OperatorDiscards(p) \/ OperatorRestores(p)
        PROVE  IInv'
    BY <2>4, InterventionsKeep
  <2>5. ASSUME NEW e \in Executions, OperatorCleans(e) \/ OperatorLoads(e) PROVE IInv'
    BY <2>5, OperatorCleansKeeps, OperatorLoadsKeeps
  <2>6. CASE UNCHANGED vars
    BY <2>6, QuietStep, OperatorKeeps DEF vars
  <2>. QED
    BY <2>1, <2>2, <2>3, <2>4, <2>5, <2>6 DEF Next
<1>. QED
  BY <1>1, <1>2, PTL DEF Spec

-----------------------------------------------------------------------------
(* What follows from it *)

\* Types, and one worker at a time runs an execution (worker.py:97).
THEOREM TypeCorrect == Spec => []TypeOK
  BY Inductive, PTL DEF IInv

\* What a receipt calls a success has happened (worker.py:124-149).
THEOREM ReceiptsTrue == Spec => []ReceiptTruthful
<1>1. IInv => ReceiptTruthful
  <2>. SUFFICES ASSUME IInv, NEW e \in Executions, receipt[e] # None
                PROVE  LET done(s) == receipt[e].stages[s] = "success"
                       IN /\ done("acquire") => campaign[e] = "committed"
                          /\ done("silver") => receipt[e].version /\ e \in silver.chosen
                          /\ done("warehouse") => e \in raw.loaded
                          /\ done("candidate") => pubState[e] \notin {"absent", "building"}
                          /\ done("activate") \/ receipt[e].status = "success" => e \in Activated
    BY DEF ReceiptTruthful
  <2>. QED
    BY StageFacts DEF IInv, ReceiptSound, Effect
<1>. QED
  BY <1>1, Inductive, PTL

\* An execution replaces exactly what was active when it was validated
\* (worker.py:76-78, orchestration/publication.py:72-83).
THEOREM ActivationsAsDecided == Spec => []ActivationAsDecided
  BY Inductive, PTL DEF IInv

\* What consumers read is a copy of its own execution's version, which Silver
\* selected and the warehouse held; what either holds comes from a committed
\* campaign, also what an operator loads before it is selected
\* (operations.py:77-141, capture.py:104, warehouse/cli.py:62).
THEOREM LineageHolds == Spec => []Lineage
<1>1. IInv => Lineage
  <2>. SUFFICES ASSUME IInv PROVE Lineage
    OBVIOUS
  <2>1. Activated \subseteq Versions
    BY ActivationFacts DEF Activated, IInv, TypeOK
  <2>. QED
    BY <2>1 DEF Lineage, IInv, LayersSound
<1>. QED
  BY <1>1, Inductive, PTL

\* No receipt is overwritten from an old copy (receipts.py:29-40, worker.py:97).
THEOREM SuccessesStay == Spec => NoSuccessLost
<1>. DEFINE Kept == \A e \in Executions, s \in Stages :
              receipt[e] # None /\ receipt[e].stages[s] = "success" =>
                receipt'[e].stages[s] \in {"success", "running"}
<1>1. IInv /\ [Next]_vars => Kept
  <2>. SUFFICES ASSUME IInv, [Next]_vars, NEW e \in Executions, NEW s \in Stages,
                       receipt[e] # None, receipt[e].stages[s] = "success"
                PROVE  receipt'[e].stages[s] \in {"success", "running"}
    OBVIOUS
  <2>1. receipt \in [Executions -> Receipt \cup {None}] /\ receipt[e] \in Receipt
    BY DEF IInv, TypeOK, WorkTypes
  <2>2. CASE receipt' = receipt
    BY <2>2
  <2>3. ASSUME NEW w \in Workers, NEW f \in Executions, NEW t \in Stages, Begin(w, f, t)
        PROVE  receipt'[e].stages[s] \in {"success", "running"}
    BY <2>1, <2>3 DEF Begin, Document, Receipt
  <2>4. ASSUME NEW w \in Workers, Finish(w)
        PROVE  receipt'[e].stages[s] \in {"success", "running"}
    <3>1. CASE work[w].exec = e
      <4>1. Working(w) /\ receipt'[e] = work[w].doc
        BY <2>1, <2>4, <3>1 DEF Finish, Working
      <4>2. s # work[w].stage /\ work[w].doc.stages[s] = "success"
        BY <3>1, <4>1 DEF IInv, CopySound
      <4>. QED
        BY <4>1, <4>2
    <3>2. CASE work[w].exec # e
      BY <2>1, <2>4, <3>2 DEF Finish
    <3>. QED
      BY <3>1, <3>2
  <2>5. ASSUME NEW f \in Executions, ExtendGrant(f)
        PROVE  receipt'[e].stages[s] \in {"success", "running"}
    BY <2>1, <2>5 DEF ExtendGrant, Receipt
  <2>. QED
    BY <2>2, <2>3, <2>4, <2>5
    DEF Next, vars, Stage, Crash, CrashCreating, ProducerFails, Validate, Acquire, Silver, Select, Warehouse,
        Reserve, Capture, Seal, ReadRow, ReadPointer, Activate, Outcome,
        OperatorActivates, OperatorDiscards, OperatorRestores, OperatorCleans, OperatorLoads
<1>2. IInv /\ [Next]_vars => [Kept]_vars
  BY <1>1
<1>. QED
  BY <1>2, Inductive, PTL DEF Spec, NoSuccessLost

=============================================================================
