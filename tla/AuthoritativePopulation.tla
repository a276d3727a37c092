------------------------ MODULE AuthoritativePopulation ------------------------
(***************************************************************************)
(* What a store of populations promises, whether its state is the Silver   *)
(* root's files (SilverSelection) or a PostgreSQL schema (WarehouseLoad):  *)
(* one version is authoritative, it is bound to one scope for good, it     *)
(* advances to a population that continues it, or returns to a version it  *)
(* had before.  docs/population-recovery.md:43-58.                         *)
(***************************************************************************)

CONSTANTS Versions, Mode, Parent, Scope, Scopes, None

VARIABLES
  current, \* the authoritative version, or None
  chosen,  \* the versions that are or were authoritative
  bound    \* the scope of the store, or None

vars == <<current, chosen, bound>>

Legacy == {v \in Versions : Mode[v] = "legacy"}
Candidates == {v \in Versions : Mode[v] = "candidate"}

\* A new store, or one that an earlier writer left, with no scope yet.
Init ==
  /\ chosen \in SUBSET Legacy
  /\ current \in chosen \cup {None}
  /\ current = None => chosen = {}
  /\ bound = None

\* The scope comes with the first population, or with the adoption of the
\* legacy version that is authoritative.
Bind(s) ==
  /\ bound = None
  /\ current \notin Candidates
  /\ bound' = s
  /\ UNCHANGED <<current, chosen>>

Advance(v) ==
  /\ v \in Candidates
  /\ Parent[v] = current
  /\ bound = Scope[v] \/ (current = None /\ bound = None)
  /\ current' = v
  /\ chosen' = chosen \cup {v}
  /\ bound' = Scope[v]

Return(v) ==
  /\ v \in chosen
  /\ v \in Candidates => Scope[v] = bound
  /\ current' = v
  /\ UNCHANGED <<chosen, bound>>

Next ==
  \/ \E v \in Versions : Advance(v) \/ Return(v)
  \/ \E s \in Scopes : Bind(s)

Spec == Init /\ [][Next]_vars

=============================================================================
