--------------------------- MODULE MCPopulationCampaign ---------------------------
(* Small instances of PopulationCampaign. *)
EXTENDS PopulationCampaign

CONSTANT k1

\* Whether the operator is one who only repeats the key k1 with a grant of all.
VARIABLE patient

\* Contract 2 may leave the source and 5 may join it between two queries.
MCVersions == {{1, 2, 3, 4}, {1, 3, 4, 5}}
MCInScope == {1, 2, 3}
MCBaseline == {2, 3, 4}
MCCeilings == [rows |-> 8, attempts |-> 6]
PartGrants == {[rows |-> 3, attempts |-> 3], [rows |-> 5, attempts |-> 5]}
MCGrants == PartGrants \cup {MCCeilings}

MCInit == Init /\ patient \in BOOLEAN

MCSpec ==
  /\ MCInit
  /\ [][/\ Next /\ UNCHANGED patient
        /\ pc = "off" /\ pc' = "open" =>
             IF patient THEN args'.key = k1 /\ args'.grant = MCCeilings
                        ELSE args'.grant \in PartGrants
        /\ patient => cleans' = 0]_<<vars, patient>>
  /\ WF_vars(patient /\ Work) /\ WF_vars(patient /\ Exchange)
  /\ WF_vars(patient /\ Invoke(k1, MCCeilings))

\* Repeating one campaign and key with the whole grant ends in a committed run,
\* whatever fails, is lost or dies on the way, but for a death within create_staging:
\* no pause, refusal or other crash leaves a campaign that the same command cannot
\* bring to an end (reconcile.py:78-119).
PatienceCommits == patient => EventuallyCommitted

=============================================================================
