----------------------------- MODULE WarehouseLoad -----------------------------
(***************************************************************************)
(* The contracts of a verified Silver bundle in PostgreSQL: loader.py,     *)
(* activation.py, population.py, migration.py and quality.py of the        *)
(* warehouse, and the commands load, restore and adopt.                    *)
(*                                                                         *)
(* A command is one transaction.  Its first statement waits for the        *)
(* advisory lock that every command takes, each later statement reads what *)
(* was committed before, and an error, a kill or a lost connection rolls   *)
(* all of it back: a command is one step, or no step.  What is left to     *)
(* interleave is what an operator or another store decided before: any     *)
(* version may be loaded at any time, with any expectation.  A connection  *)
(* lost at COMMIT leaves the operator to repeat a command that took effect.*)
(*                                                                         *)
(* A version is the identity of a manifest: directory name and hash.       *)
(***************************************************************************)
EXTENDS Integers, Sequences

CONSTANTS
  Versions,
  Id,      \* the directory name of a version; a rewritten manifest shares it
  Mode,    \* [Versions -> {"legacy", "preview", "candidate"}]
  Parent,  \* expected_parent and baseline of a version's receipt, or None
  Scope,   \* scope of a population, None for a legacy version
  Table,   \* [Versions -> [contract keys -> contents]]
  Record,  \* the scope Silver adopted a legacy version under, or None
  Scopes,
  MaxEvents, \* bound on the history, for model checking
  None

Legacy == {v \in Versions : Mode[v] = "legacy"}
Candidates == {v \in Versions : Mode[v] = "candidate"}
Previews == {v \in Versions : Mode[v] = "preview"}

ASSUME NoneAssumption == None \notin Versions \cup Scopes

\* What verify_manifest_bundle has established of a bundle: a population has a
\* scope and keeps the members of its baseline.
ASSUME BundleAssumption ==
  /\ Mode \in [Versions -> {"legacy", "preview", "candidate"}]
  /\ Parent \in [Versions -> Versions \cup {None}]
  /\ Scope \in [Versions -> Scopes \cup {None}]
  /\ \A v \in Versions : Scope[v] = None <=> v \in Legacy
  /\ \A v \in Versions :
       Parent[v] # None => DOMAIN Table[Parent[v]] \subseteq DOMAIN Table[v]

\* validate_adoption: Silver adopts legacy versions only.
ASSUME RecordAssumption ==
  /\ Record \in [Versions -> Scopes \cup {None}]
  /\ \A v \in Versions : Record[v] # None => v \in Legacy

VARIABLES
  rows,     \* contract_current: [contract keys -> row]
  audit,    \* the registered versions
  migrated, \* whether the activation relations exist
  active,   \* the one row of _active, or None
  events,   \* _activation, oldest first
  bound,    \* the one row of _population_binding, or None
  adopted,  \* _population_adoption: a scope, or None
  evidence  \* the versions with a row in _population and in _quality

vars == <<rows, audit, migrated, active, events, bound, adopted, evidence>>

-----------------------------------------------------------------------------
(* Relations *)

\* `stamped`: source_contract_sha256 is the one of the manifest.
Row(v, content, stamped) ==
  [id |-> Id[v], manifest |-> v, content |-> content, stamped |-> stamped]

Incoming(v) == [k \in DOMAIN Table[v] |-> Row(v, Table[v][k], TRUE)]

\* Variant: the comparison leaves the version of the row out.
SameContent(old, new) == old.content = new.content /\ old.stamped = new.stamped

\* to_jsonb(row) - 'silver_manifest_sha256' - 'loaded_at'
SameRow(old, new) ==
  /\ old.id = new.id
  /\ old.content = new.content
  /\ old.stamped = new.stamped

\* DELETE what is not incoming, INSERT ... ON CONFLICT DO UPDATE what differs.
Replaced(v) ==
  [k \in DOMAIN Table[v] |->
     IF k \in DOMAIN rows /\ SameRow(rows[k], Incoming(v)[k])
     THEN rows[k] ELSE Incoming(v)[k]]

Event(v, previous, kind) == [version |-> v, previous |-> previous, kind |-> kind]

\* The versions whose rows an unmigrated schema holds.
Groups == {rows[k].manifest : k \in DOMAIN rows}

\* ensure(): what _active says, or the baseline of the first migration.
Ensured ==
  IF migrated \/ Groups = {} THEN [active |-> active, events |-> events]
  ELSE LET v == CHOOSE w \in Groups : TRUE
       IN [active |-> v, events |-> <<Event(v, None, "legacy_baseline")>>]

\* _read_active() and _legacy_baseline() refuse a schema that contradicts itself.
Readable ==
  IF migrated
  THEN /\ active = (IF events = <<>> THEN None ELSE events[Len(events)].version)
       /\ active = None => DOMAIN rows = {}
  ELSE \A v, w \in Groups : v = w /\ v \in audit

Unique(v) == \A w \in audit : Id[w] = Id[v] => w = v

\* _verify_existing(): what persist() recorded of an immutable bundle is equal to
\* what the bundle says, so only its absence can differ.
EvidenceKept(v) == v \in evidence

\* persist() of population.py and of quality.py: once, and compared after.
RecordEvidence(v) == evidence' = evidence \cup {v}

-----------------------------------------------------------------------------
(* Guards *)

RestoreGuard(v, expected) == v \in audit /\ expected = Ensured.active

LegacyGuard(v, restore, expected) ==
  /\ v # Ensured.active => restore /\ RestoreGuard(v, expected)
  /\ bound # None => adopted[v] = bound /\ v \in audit

\* Variant: the parent need not be the version that is active.
ContinuesRegistered(v) ==
  /\ Parent[v] \in audit \cup {None}
  /\ Ensured.active # None => bound # None

Continues(v) ==
  /\ Parent[v] = Ensured.active
  /\ Ensured.active # None =>
       /\ bound # None
       /\ DOMAIN rows \subseteq DOMAIN Table[v]
       /\ DOMAIN rows = DOMAIN Table[Parent[v]]

PopulationGuard(v, restore, expected) ==
  /\ v \in audit => bound # None
  /\ bound \in {None, Scope[v]}
  /\ \/ v = Ensured.active /\ EvidenceKept(v)
     \/ v # Ensured.active /\ restore /\ RestoreGuard(v, expected) /\ EvidenceKept(v)
     \/ v # Ensured.active /\ ~restore /\ Continues(v)

Loadable(v, restore, expected) ==
  /\ v \notin Previews
  /\ Readable
  /\ Unique(v)
  /\ IF v \in Legacy THEN LegacyGuard(v, restore, expected)
     ELSE PopulationGuard(v, restore, expected)

-----------------------------------------------------------------------------
(* Commands *)

\* A schema that is new, or that the loader of envelopes 1 and 2 left: one
\* legacy snapshot, stamped by the later of those loaders only.
Init ==
  /\ \E old \in SUBSET Legacy, stamped \in BOOLEAN :
       /\ audit = old
       /\ \A v, w \in old : Id[v] = Id[w] => v = w
       /\ IF old = {} THEN rows = <<>>
          ELSE \E v \in old : DOMAIN Table[v] # {} /\
                 rows = [k \in DOMAIN Table[v] |-> Row(v, Table[v][k], stamped)]
  /\ migrated = FALSE
  /\ active = None
  /\ events = <<>>
  /\ bound = None
  /\ adopted = [v \in Versions |-> None]
  /\ evidence = {}

\* The version is already active: only its evidence is recorded.
Repeat(v) ==
  /\ v = Ensured.active
  /\ active' = v
  /\ events' = Ensured.events
  /\ UNCHANGED <<rows, audit, bound>>

\* Variant: whether the version is registered is read after its registration.
ApplyAsRestoration(v) ==
  /\ v # Ensured.active
  /\ Len(Ensured.events) < MaxEvents
  /\ rows' = Replaced(v)
  /\ audit' = audit \cup {v}
  /\ active' = v
  /\ events' = Append(Ensured.events,
       Event(v, Ensured.active, IF v \in audit' THEN "restoration" ELSE "activation"))
  /\ bound' = IF v \in Candidates THEN Scope[v] ELSE bound

Apply(v) ==
  /\ v # Ensured.active
  /\ Len(Ensured.events) < MaxEvents
  /\ rows' = Replaced(v)
  /\ audit' = audit \cup {v}
  /\ active' = v
  /\ events' = Append(Ensured.events,
       Event(v, Ensured.active, IF v \in audit THEN "restoration" ELSE "activation"))
  /\ bound' = IF v \in Candidates THEN Scope[v] ELSE bound

\* Variant: a load that replaces the rows does not record its evidence.
LoadWithoutEvidence(v, restore, expected) ==
  /\ Loadable(v, restore, expected)
  /\ Repeat(v) \/ Apply(v)
  /\ migrated' = TRUE
  /\ evidence' = IF v = Ensured.active THEN evidence \cup {v} ELSE evidence
  /\ UNCHANGED adopted

Load(v, restore, expected) ==
  /\ Loadable(v, restore, expected)
  /\ Repeat(v) \/ Apply(v)
  /\ migrated' = TRUE
  /\ RecordEvidence(v)
  /\ UNCHANGED adopted

\* The rows are the ones of the verified bundle, in every column.
RowsVerified(v) ==
  /\ DOMAIN rows = DOMAIN Table[v]
  /\ \A k \in DOMAIN rows : SameRow(rows[k], Incoming(v)[k])

Adoptable(v) ==
  /\ Record[v] # None
  /\ Readable
  /\ v = Ensured.active
  /\ bound \in {None, Record[v]}
  /\ RowsVerified(v)
  /\ adopted[v] \in {None, Record[v]}

Adopt(v) ==
  /\ Adoptable(v)
  /\ bound' = Record[v]
  /\ adopted' = [adopted EXCEPT ![v] = Record[v]]
  /\ RecordEvidence(v)
  /\ migrated' = TRUE
  /\ active' = v
  /\ events' = Ensured.events
  /\ UNCHANGED <<rows, audit>>

Next ==
  \E v \in Versions :
    \/ Load(v, FALSE, None)
    \/ \E expected \in Versions : Load(v, TRUE, expected)
    \/ Adopt(v)

Spec == Init /\ [][Next]_vars

-----------------------------------------------------------------------------
(* Properties *)

\* Types of the relations, and of the history.
TypeOK ==
  /\ DOMAIN rows \subseteq UNION {DOMAIN Table[v] : v \in Versions}
  /\ audit \in SUBSET Versions
  /\ migrated \in BOOLEAN
  /\ active \in Versions \cup {None}
  /\ events \in Seq([version : Versions, previous : Versions \cup {None},
                     kind : {"legacy_baseline", "activation", "restoration"}])
  /\ bound \in Scopes \cup {None}
  /\ adopted \in [Versions -> Scopes \cup {None}]
  /\ evidence \in SUBSET Versions

\* What a reader of contract_current sees is exactly the snapshot of the version
\* that is active: its members, each with its content and its name, whatever the
\* rows went through before (loader.py:221-250, activation.py:111-134).
SnapshotIsActive ==
  /\ active = None /\ migrated => DOMAIN rows = {}
  /\ active # None =>
       /\ DOMAIN rows = DOMAIN Table[active]
       /\ \A k \in DOMAIN rows :
            /\ rows[k].id = Id[active]
            /\ rows[k].manifest = active
            /\ rows[k].content = Table[active][k]

\* A history in which each event continues the one before it.
Chain(history) ==
  \A i \in DOMAIN history :
    LET e == history[i]
        earlier == {history[j].version : j \in 1 .. (i - 1)}
    IN /\ e.version \in audit
       /\ e.previous = IF i = 1 THEN None ELSE history[i - 1].version
       /\ e.kind = "legacy_baseline" => i = 1
       /\ e.kind = "activation" => e.version \notin earlier
       /\ e.kind = "restoration" => e.version \in earlier \cup Legacy

\* The history accounts for the active version: it starts from nothing, each
\* event leaves the version the one before it brought, the last one is active,
\* and only a version that was registered before is restored
\* (activation.py:162-192, loader.py:269-278).
HistoryIsChain == Readable /\ Chain(events)

\* No operator is left without a way on.  Whoever does not know whether a load
\* took effect repeats it and is not refused; and every registered population,
\* and every legacy version of the bound scope, can be restored by naming what is
\* active (population.py:127-141, docs/population-recovery.md:47-58).
Recoverable ==
  /\ active # None => Loadable(active, FALSE, None)
  /\ \A v \in audit :
       v \in Candidates \/ bound \in {None, adopted[v]}
       => Loadable(v, TRUE, Ensured.active)

Population == INSTANCE AuthoritativePopulation
  WITH current <- Ensured.active, chosen <- audit

\* The schema is one authoritative population, whatever Silver selects
\* (docs/population-recovery.md:58).
PopulationSpec == Population!Spec

-----------------------------------------------------------------------------
(* The inductive invariant *)

\* The rows are the ones of v, each with its name.
Snapshot(v) ==
  /\ DOMAIN rows = DOMAIN Table[v]
  /\ \A k \in DOMAIN rows :
       /\ rows[k].id = Id[v]
       /\ rows[k].manifest = v
       /\ rows[k].content = Table[v][k]

\* A schema that no command of this release has seen.
Earlier ==
  /\ active = None /\ events = <<>> /\ bound = None
  /\ audit \subseteq Legacy
  /\ \/ audit = {} /\ DOMAIN rows = {}
     \/ \E v \in audit : DOMAIN Table[v] # {} /\ Snapshot(v)

\* The history of a migrated schema ends with the active version, and explains
\* every registered population.
Explained ==
  /\ active \in audit /\ Snapshot(active)
  /\ events # <<>> /\ events[Len(events)].version = active
  /\ Chain(events)
  /\ \A v \in audit \ Legacy : \E i \in DOMAIN events : events[i].version = v

\* What makes every registered version loadable again.
Kept ==
  /\ \A v, w \in audit : Id[v] = Id[w] => v = w
  /\ \A v \in audit : v \in Legacy \/ (v \in Candidates /\ v \in evidence /\ bound = Scope[v])
  /\ active \in Legacy /\ bound # None => adopted[active] = bound

Inductive ==
  /\ TypeOK
  /\ ~migrated => Earlier
  /\ migrated => Explained
  /\ Kept

=============================================================================
