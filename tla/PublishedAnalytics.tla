-------------------------- MODULE PublishedAnalytics --------------------------
(***************************************************************************)
(* What the publication registry promises its consumers, without saying    *)
(* how (publication/readers.py and docs/analytical-publication.md): there  *)
(* is one latest publication; a consumer pins a publication that is        *)
(* available and keeps it until its operation ends; a publication is       *)
(* retired only when it is neither the latest one nor pinned by anybody,   *)
(* and never comes back once retired.                                      *)
(***************************************************************************)
EXTENDS Naturals

CONSTANTS Pubs, Readers, None

VARIABLES
  latest,     \* the publication the stable views show
  available,  \* publications whose namespace can be read
  retired,    \* publications removed for good
  held        \* what each reader has pinned, or None

vars == <<latest, available, retired, held>>

Init ==
  /\ latest = None
  /\ available = {}
  /\ retired = {}
  /\ held = [r \in Readers |-> None]

Publish(p) ==
  /\ p \notin retired
  /\ latest' = p
  /\ available' = available \cup {p}
  /\ UNCHANGED <<retired, held>>

Retire(chosen) ==
  /\ chosen \subseteq available \ {latest}
  /\ \A r \in Readers : held[r] \notin chosen
  /\ available' = available \ chosen
  /\ retired' = retired \cup chosen
  /\ UNCHANGED <<latest, held>>

Pin(r, p) ==
  /\ held[r] = None
  /\ p \in available
  /\ held' = [held EXCEPT ![r] = p]
  /\ UNCHANGED <<latest, available, retired>>

\* Operations end, several at once when their common deadline passes.
Unpin(done) ==
  /\ held' = [r \in Readers |-> IF r \in done THEN None ELSE held[r]]
  /\ UNCHANGED <<latest, available, retired>>

Next ==
  \/ \E p \in Pubs : Publish(p)
  \/ \E chosen \in SUBSET Pubs : Retire(chosen)
  \/ \E r \in Readers, p \in Pubs : Pin(r, p)
  \/ \E done \in SUBSET Readers : Unpin(done)

Spec == Init /\ [][Next]_vars
=============================================================================
