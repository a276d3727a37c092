-------------------------- MODULE MCPublicationBuild --------------------------
(* Two building processes; or one that goes on alone, for what it can conclude. *)
EXTENDS PublicationBuild, TLC

CONSTANT a

\* Whether the process a is the only one that builds.
VARIABLE alone

MCInit == BuildInit /\ alone \in BOOLEAN

MCSpec ==
  /\ MCInit
  /\ [][/\ BuildNext /\ UNCHANGED alone
        /\ IF alone THEN (\A x \in Workers \ {a} : worker'[x] = Idle) /\ generation' = 0
           ELSE breaks' <= 1]_<<allVars, alone>>
  /\ WF_allVars(alone /\ WorkerStep(a))
  /\ \A p \in Pubs : SF_allVars(alone /\ RetryRead(a, p))

\* One process that keeps retrying brings every captured candidate to a sealed
\* publication, whatever failed or crashed before, unless it is discarded
\* (cli.py:99-139, store.py:322-342): no failure leaves a candidate that a retry
\* cannot conclude.
AloneConcludes == alone => CapturedConcludes
=============================================================================
