------------------------- MODULE WarehouseLoad_proofs -------------------------
(* Proofs about WarehouseLoad, for every set of versions, scopes and bundles   *)
(* and a history of any length.                                                *)
EXTENDS WarehouseLoad, TLAPS

Recorded == [version : Versions, previous : Versions \cup {None},
             kind : {"legacy_baseline", "activation", "restoration"}]

\* What a command reads of the schema: nothing, or the version that is active,
\* its rows and the history that brought it.
Empty ==
  /\ Ensured.active = None /\ Ensured.events = <<>>
  /\ audit = {} /\ DOMAIN rows = {} /\ bound = None

Holds ==
  /\ Ensured.active \in audit /\ Snapshot(Ensured.active)
  /\ Ensured.events \in Seq(Recorded) /\ Ensured.events # <<>>
  /\ Ensured.events[Len(Ensured.events)].version = Ensured.active
  /\ Chain(Ensured.events)
  /\ \A v \in audit \ Legacy :
       \E i \in DOMAIN Ensured.events : Ensured.events[i].version = v

-----------------------------------------------------------------------------
(* Facts about versions *)

\* A version is of one kind, and a population has a scope.
LEMMA Kinds ==
  ASSUME NEW v \in Versions
  PROVE  /\ v \in Legacy \/ v \in Candidates \/ v \in Previews
         /\ v \in Candidates => v \notin Legacy /\ v \notin Previews
         /\ v \in Legacy => v \notin Previews
         /\ v \notin Legacy => Scope[v] \in Scopes /\ Scope[v] # None
         /\ v # None
  BY BundleAssumption, NoneAssumption DEF Legacy, Candidates, Previews

\* Silver adopts legacy versions, each under a scope.
LEMMA Adoptions ==
  ASSUME NEW v \in Versions, Record[v] # None
  PROVE  v \in Legacy /\ Record[v] \in Scopes
  BY RecordAssumption

-----------------------------------------------------------------------------
(* What a command reads *)

\* An earlier schema is empty, or has the rows of one version.
LEMMA Unmigrated ==
  ASSUME TypeOK, Earlier, ~migrated
  PROVE  /\ Readable
         /\ Empty \/ Holds
         /\ Ensured.active # None => Ensured.active \in Legacy
<1>1. CASE audit = {} /\ DOMAIN rows = {}
  <2>1. Groups = {}
    BY <1>1 DEF Groups
  <2>2. Empty
    BY <1>1, <2>1 DEF Empty, Ensured, Earlier
  <2>. QED
    BY <2>1, <2>2 DEF Readable, Empty
<1>2. CASE \E v \in audit : DOMAIN Table[v] # {} /\ Snapshot(v)
  <2>1. PICK v \in audit : DOMAIN Table[v] # {} /\ Snapshot(v)
    BY <1>2
  <2>2. Groups = {v}
    BY <2>1 DEF Groups, Snapshot
  <2>3. v \in Versions /\ v \in Legacy
    BY <2>1 DEF Earlier, Legacy
  <2>. DEFINE H == <<Event(v, None, "legacy_baseline")>>
  <2>4. Ensured = [active |-> v, events |-> H]
    BY <2>2 DEF Ensured
  <2>5. H \in Seq(Recorded) /\ H # <<>> /\ Len(H) = 1 /\ DOMAIN H = {1}
        /\ H[1] = Event(v, None, "legacy_baseline")
    BY <2>3 DEF Event, Recorded
  <2>6. Chain(H)
    BY <2>1, <2>5 DEF Chain, Event
  <2>7. Holds
    BY <2>1, <2>4, <2>5, <2>6 DEF Holds, Event, Earlier
  <2>. QED
    BY <2>1, <2>2, <2>3, <2>4, <2>7 DEF Readable
<1>. QED
  BY <1>1, <1>2 DEF Earlier

\* A schema of this release says what is active.
LEMMA Migrated ==
  ASSUME TypeOK, Explained, migrated
  PROVE  Readable /\ Holds /\ Ensured.active = active /\ Ensured.events = events
<1>1. Ensured.active = active /\ Ensured.events = events
  BY DEF Ensured
<1>2. active # None
  BY Kinds DEF Explained, TypeOK
<1>3. events \in Seq(Recorded)
  BY DEF TypeOK, Recorded
<1>. QED
  BY <1>1, <1>2, <1>3 DEF Readable, Holds, Explained

LEMMA Reads ==
  ASSUME Inductive
  PROVE  /\ Readable
         /\ Empty \/ Holds
         /\ ~migrated => bound = None
  BY Unmigrated, Migrated DEF Inductive, Earlier

-----------------------------------------------------------------------------
(* Commands keep the invariant *)

\* The history that a step leaves ends with the version it leaves active.
LEMMA Established ==
  ASSUME Inductive, Holds,
         migrated' = TRUE, active' = Ensured.active, events' = Ensured.events,
         UNCHANGED <<rows, audit>>
  PROVE  Explained'
<1>. DEFINE H == Ensured.events
<1>1. Chain(events)'
  <2>1. Chain(H) /\ events' = H /\ audit' = audit
    BY DEF Holds
  <2>. HIDE DEF H
  <2>. QED
    BY <2>1 DEF Chain
<1>2. Snapshot(active)'
  BY DEF Holds, Snapshot
<1>. QED
  BY <1>1, <1>2 DEF Explained, Holds

\* Repeating the active version records its evidence.
LEMMA RepeatKeeps ==
  ASSUME Inductive, NEW v \in Versions, NEW restore, NEW expected,
         Loadable(v, restore, expected), Repeat(v), migrated' = TRUE, RecordEvidence(v),
         UNCHANGED adopted
  PROVE  Inductive'
<1>1. Holds /\ v = Ensured.active /\ v \in audit
  BY Reads, Kinds DEF Repeat, Empty, Holds
<1>2. Explained'
  BY <1>1, Established DEF Repeat
<1>3. TypeOK'
  BY <1>1 DEF Inductive, TypeOK, Repeat, RecordEvidence, Holds, Recorded
<1>4. v \in Legacy /\ bound # None => adopted[v] = bound
  BY DEF Loadable, LegacyGuard
<1>5. Kept'
  BY <1>4 DEF Inductive, Kept, Repeat, RecordEvidence
<1>. QED
  BY <1>2, <1>3, <1>5 DEF Inductive

\* No row of the replaced version stays: its name is another one.
LEMMA RowsReplaced ==
  ASSUME Inductive, NEW v \in Versions, Unique(v), v # Ensured.active
  PROVE  /\ DOMAIN Replaced(v) = DOMAIN Table[v]
         /\ \A k \in DOMAIN Table[v] :
              /\ Replaced(v)[k].id = Id[v]
              /\ Replaced(v)[k].manifest = v
              /\ Replaced(v)[k].content = Table[v][k]
<1>1. \A k \in DOMAIN rows : rows[k].id # Id[v]
  <2>1. CASE Empty
    BY <2>1 DEF Empty
  <2>2. CASE Holds
    BY <2>2 DEF Holds, Snapshot, Unique
  <2>. QED
    BY <2>1, <2>2, Reads
<1>2. ASSUME NEW k \in DOMAIN Table[v]
      PROVE  Replaced(v)[k] = Row(v, Table[v][k], TRUE)
  <2>1. Incoming(v)[k] = Row(v, Table[v][k], TRUE)
    BY DEF Incoming
  <2>2. Row(v, Table[v][k], TRUE).id = Id[v]
    BY DEF Row
  <2>3. k \in DOMAIN rows => ~SameRow(rows[k], Incoming(v)[k])
    BY <1>1, <2>1, <2>2 DEF SameRow
  <2>. QED
    BY <2>1, <2>3 DEF Replaced
<1>3. ASSUME NEW k \in DOMAIN Table[v]
      PROVE  LET r == Row(v, Table[v][k], TRUE)
             IN r.id = Id[v] /\ r.manifest = v /\ r.content = Table[v][k]
  BY DEF Row
<1>4. DOMAIN Replaced(v) = DOMAIN Table[v]
  BY DEF Replaced
<1>. QED
  BY <1>2, <1>3, <1>4

\* The event of an application continues the history.
LEMMA ChainGrows ==
  ASSUME Inductive, NEW v \in Versions, Apply(v)
  PROVE  /\ Chain(events)'
         /\ events' \in Seq(Recorded) /\ events' # <<>>
         /\ events'[Len(events')].version = v
         /\ \A w \in audit' \ Legacy : \E i \in DOMAIN events' : events'[i].version = w
<1>. DEFINE H == Ensured.events
            kind == IF v \in audit THEN "restoration" ELSE "activation"
            e == Event(v, Ensured.active, kind)
<1>1. events' = Append(H, e) /\ audit' = audit \cup {v}
  BY DEF Apply
<1>2. H \in Seq(Recorded) /\ e \in Recorded
  <2>1. Empty \/ Holds
    BY Reads
  <2>2. H \in Seq(Recorded) /\ Ensured.active \in Versions \cup {None}
    <3>1. CASE Empty
      BY <3>1 DEF Empty
    <3>2. CASE Holds
      BY <3>2 DEF Holds, Inductive, TypeOK
    <3>. QED
      BY <2>1, <3>1, <3>2
  <2>. QED
    BY <2>2 DEF Event, Recorded
<1>3. /\ events' \in Seq(Recorded) /\ Len(events') = Len(H) + 1
      /\ \A i \in 1 .. Len(H) : events'[i] = H[i]
      /\ events'[Len(H) + 1] = e
      /\ Len(H) \in Nat /\ DOMAIN H = 1 .. Len(H) /\ DOMAIN events' = 1 .. (Len(H) + 1)
  <2>. HIDE DEF H, e
  <2>1. Len(H) \in Nat /\ DOMAIN H = 1 .. Len(H)
    BY <1>2
  <2>. QED
    BY <1>1, <1>2, <2>1
<1>4. e.version = v /\ e.previous = Ensured.active /\ e.kind = kind
  BY DEF Event
<1>5. /\ Chain(H)
      /\ Ensured.active = IF Len(H) = 0 THEN None ELSE H[Len(H)].version
      /\ \A w \in audit \ Legacy : \E i \in DOMAIN H : H[i].version = w
  <2>1. CASE Empty
    BY <2>1 DEF Empty, Chain
  <2>2. CASE Holds
    BY <2>2, <1>2, <1>3 DEF Holds
  <2>. QED
    BY <2>1, <2>2, Reads
<1>. HIDE DEF H, e
<1>6. \A i \in 1 .. Len(H) : H[i].version \in audit
  BY <1>3, <1>5 DEF Chain
<1>7. Chain(events)'
  <2>. SUFFICES ASSUME NEW i \in DOMAIN events'
                PROVE  LET f == events'[i]
                           earlier == {events'[j].version : j \in 1 .. (i - 1)}
                       IN /\ f.version \in audit'
                          /\ f.previous = IF i = 1 THEN None ELSE events'[i - 1].version
                          /\ f.kind = "legacy_baseline" => i = 1
                          /\ f.kind = "activation" => f.version \notin earlier
                          /\ f.kind = "restoration" => f.version \in earlier \cup Legacy
    BY DEF Chain
  <2>1. CASE i \in 1 .. Len(H)
    <3>1. events'[i] = H[i] /\ (i # 1 => events'[i - 1] = H[i - 1])
          /\ {events'[j].version : j \in 1 .. (i - 1)} = {H[j].version : j \in 1 .. (i - 1)}
      BY <1>3, <2>1
    <3>. QED
      BY <1>1, <1>3, <1>5, <2>1, <3>1 DEF Chain
  <2>2. CASE i = Len(H) + 1
    <3>1. {events'[j].version : j \in 1 .. (i - 1)} = {H[j].version : j \in 1 .. Len(H)}
      BY <1>3, <2>2
    <3>2. v \in audit \ Legacy => v \in {H[j].version : j \in 1 .. Len(H)}
      BY <1>3, <1>5
    <3>3. {H[j].version : j \in 1 .. Len(H)} \subseteq audit
      BY <1>6
    <3>4. e.previous = IF i = 1 THEN None ELSE events'[i - 1].version
      BY <1>3, <1>4, <1>5, <2>2
    <3>. QED
      BY <1>1, <1>3, <1>4, <2>2, <3>1, <3>2, <3>3, <3>4
  <2>. QED
    BY <1>3, <2>1, <2>2
<1>8. \A w \in audit' \ Legacy : \E i \in DOMAIN events' : events'[i].version = w
  <2>. TAKE w \in audit' \ Legacy
  <2>1. CASE w = v
    BY <1>3, <1>4, <2>1
  <2>2. CASE w # v
    <3>1. PICK i \in DOMAIN H : H[i].version = w
      BY <1>1, <1>5, <2>2
    <3>. QED
      BY <1>3, <3>1
  <2>. QED
    BY <2>1, <2>2
<1>. QED
  BY <1>3, <1>4, <1>7, <1>8

\* An application leaves the rows of its version, bound to its scope.
LEMMA ApplyKeeps ==
  ASSUME Inductive, NEW v \in Versions, NEW restore \in BOOLEAN, NEW expected,
         Loadable(v, restore, expected), Apply(v), migrated' = TRUE, RecordEvidence(v),
         UNCHANGED adopted
  PROVE  Inductive'
<1>1. /\ v # Ensured.active /\ Unique(v) /\ v \notin Previews
      /\ rows' = Replaced(v) /\ audit' = audit \cup {v} /\ active' = v
      /\ bound' = IF v \in Candidates THEN Scope[v] ELSE bound
  BY DEF Loadable, Apply
<1>2. Snapshot(active)'
  BY <1>1, RowsReplaced DEF Snapshot
<1>3. Explained'
  BY <1>1, <1>2, ChainGrows DEF Explained
<1>4. TypeOK'
  <2>1. events' \in Seq(Recorded)
    BY ChainGrows
  <2>2. DOMAIN rows' \subseteq UNION {DOMAIN Table[w] : w \in Versions}
    BY <1>1, <1>2 DEF Snapshot
  <2>3. bound' \in Scopes \cup {None} /\ audit' \in SUBSET Versions /\ evidence' \in SUBSET Versions
    BY <1>1, Kinds DEF Inductive, TypeOK, RecordEvidence
  <2>. QED
    BY <1>1, <2>1, <2>2, <2>3 DEF Inductive, TypeOK, Recorded
<1>5. v \in Candidates => bound \in {None, Scope[v]}
  BY Kinds DEF Loadable, PopulationGuard
<1>6. v \in Legacy /\ bound # None => adopted[v] = bound
  BY DEF Loadable, LegacyGuard
<1>7. \A w \in audit' : w \in Legacy \/ (w \in Candidates /\ w \in evidence' /\ bound' = Scope[w])
  <2>. TAKE w \in audit'
  <2>1. CASE w = v
    BY <1>1, <2>1, Kinds DEF RecordEvidence
  <2>2. CASE w # v
    <3>1. w \in audit /\ w \in Versions
      BY <1>1, <2>2 DEF Inductive, TypeOK
    <3>2. w \in Legacy \/ (w \in Candidates /\ w \in evidence /\ bound = Scope[w] /\ bound # None)
      BY <3>1, Kinds DEF Inductive, Kept
    <3>. QED
      BY <1>1, <1>5, <3>2 DEF RecordEvidence
  <2>. QED
    BY <2>1, <2>2
<1>8. \A w, u \in audit' : Id[w] = Id[u] => w = u
  BY <1>1 DEF Inductive, Kept, Unique
<1>9. active' \in Legacy /\ bound' # None => adopted'[active'] = bound'
  BY <1>1, <1>6, Kinds
<1>. QED
  BY <1>3, <1>4, <1>7, <1>8, <1>9 DEF Inductive, Kept

\* An adoption binds the schema to the scope its active version was given.
LEMMA AdoptKeeps ==
  ASSUME Inductive, NEW v \in Versions, Adopt(v)
  PROVE  Inductive'
<1>1. /\ v = Ensured.active /\ v \in Legacy /\ Record[v] \in Scopes
      /\ bound \in {None, Record[v]} /\ bound' = Record[v]
      /\ audit' = audit /\ active' = v /\ rows' = rows
      /\ adopted' = [adopted EXCEPT ![v] = Record[v]]
      /\ evidence' = evidence \cup {v}
  BY Adoptions DEF Adopt, Adoptable, RecordEvidence
<1>2. Empty \/ Holds
  BY Reads
<1>3. Holds
  BY <1>1, <1>2, Kinds DEF Empty
<1>4. Explained'
  BY <1>1, <1>3, Established DEF Adopt
<1>5. TypeOK'
  <2>1. events' \in Seq(Recorded) /\ migrated' = TRUE
    BY <1>3 DEF Holds, Adopt
  <2>2. adopted' \in [Versions -> Scopes \cup {None}]
    BY <1>1 DEF Inductive, TypeOK
  <2>. QED
    BY <1>1, <2>1, <2>2 DEF Inductive, TypeOK, Recorded
<1>6. \A w \in audit : w \in Legacy \/ (w \in Candidates /\ w \in evidence /\ bound' = Scope[w])
  <2>. TAKE w \in audit
  <2>1. w \in Versions
    BY DEF Inductive, TypeOK
  <2>. QED
    BY <1>1, <2>1, Kinds DEF Inductive, Kept
<1>7. adopted'[v] = bound'
  BY <1>1 DEF Inductive, TypeOK
<1>8. Kept'
  BY <1>1, <1>6, <1>7 DEF Inductive, Kept
<1>. QED
  BY <1>4, <1>5, <1>8 DEF Inductive, Adopt

LEMMA LoadKeeps ==
  ASSUME Inductive, NEW v \in Versions, NEW restore \in BOOLEAN, NEW expected,
         Load(v, restore, expected)
  PROVE  Inductive'
  BY RepeatKeeps, ApplyKeeps DEF Load

-----------------------------------------------------------------------------
(* The inductive invariant *)

\* A new schema, or the one an earlier loader left.
LEMMA InitHolds ==
  ASSUME Init
  PROVE  Inductive
<1>1. audit \in SUBSET Legacy /\ audit \in SUBSET Versions
      /\ \A v, w \in audit : Id[v] = Id[w] => v = w
  BY DEF Init, Legacy
<1>2. \/ audit = {} /\ DOMAIN rows = {}
      \/ \E v \in audit : DOMAIN Table[v] # {} /\ Snapshot(v)
  <2>1. PICK stamped \in BOOLEAN :
          IF audit = {} THEN rows = <<>>
          ELSE \E v \in audit : DOMAIN Table[v] # {} /\
                 rows = [k \in DOMAIN Table[v] |-> Row(v, Table[v][k], stamped)]
    BY DEF Init
  <2>2. CASE audit = {}
    BY <2>1, <2>2
  <2>3. CASE audit # {}
    BY <2>1, <2>3 DEF Snapshot, Row
  <2>. QED
    BY <2>2, <2>3
<1>3. Earlier
  BY <1>1, <1>2 DEF Init, Earlier
<1>4. TypeOK
  <2>1. DOMAIN rows \subseteq UNION {DOMAIN Table[v] : v \in Versions}
    BY <1>1, <1>2 DEF Snapshot
  <2>2. events \in Seq(Recorded)
    BY DEF Init
  <2>3. adopted \in [Versions -> Scopes \cup {None}]
    BY DEF Init
  <2>4. migrated \in BOOLEAN /\ active = None /\ bound = None /\ evidence = {}
    BY DEF Init
  <2>. QED
    BY <1>1, <2>1, <2>2, <2>3, <2>4 DEF TypeOK, Recorded
<1>5. Kept
  BY <1>1, NoneAssumption DEF Init, Kept
<1>. QED
  BY <1>3, <1>4, <1>5 DEF Init, Inductive

\* Whatever is loaded, restored or adopted, and in whatever order.
THEOREM InductiveHolds == Spec => []Inductive
<1>1. Init => Inductive
  BY InitHolds
<1>2. Inductive /\ [Next]_vars => Inductive'
  <2>. SUFFICES ASSUME Inductive, [Next]_vars PROVE Inductive'
    OBVIOUS
  <2>1. CASE UNCHANGED vars
    <3>1. TypeOK'
      BY <2>1 DEF vars, Inductive, TypeOK
    <3>2. Kept'
      BY <2>1 DEF vars, Inductive, Kept
    <3>3. CASE ~migrated
      BY <2>1, <3>1, <3>2, <3>3 DEF vars, Inductive, Earlier, Snapshot
    <3>4. CASE migrated
      <4>1. Explained
        BY <3>4 DEF Inductive
      <4>2. Chain(events)' /\ Snapshot(active)'
        BY <2>1, <4>1 DEF vars, Explained, Chain, Snapshot
      <4>3. Explained'
        BY <2>1, <4>1, <4>2 DEF vars, Explained
      <4>. QED
        BY <2>1, <3>1, <3>2, <3>4, <4>3 DEF vars, Inductive
    <3>. QED
      BY <3>3, <3>4
  <2>2. ASSUME NEW v \in Versions, NEW restore \in BOOLEAN, NEW expected, Load(v, restore, expected)
        PROVE  Inductive'
    BY <2>2, LoadKeeps
  <2>3. ASSUME NEW v \in Versions, Adopt(v) PROVE Inductive'
    BY <2>3, AdoptKeeps
  <2>. QED
    BY <2>1, <2>2, <2>3 DEF Next
<1>. QED
  BY <1>1, <1>2, PTL DEF Spec

-----------------------------------------------------------------------------
(* What follows from it *)

\* The relations and the history keep their types, whatever is loaded.
THEOREM TypeCorrect == Spec => []TypeOK
  BY InductiveHolds, PTL DEF Inductive

\* The rows that a reader sees are the ones of the active version
\* (loader.py:221-250, activation.py:111-134).
THEOREM RowsAreActive == Spec => []SnapshotIsActive
<1>1. Inductive => SnapshotIsActive
  <2>. SUFFICES ASSUME Inductive PROVE SnapshotIsActive
    OBVIOUS
  <2>1. active # None => Snapshot(active)
    BY DEF Inductive, Earlier, Explained
  <2>2. migrated => active # None
    BY Kinds DEF Inductive, TypeOK, Explained
  <2>. QED
    BY <2>1, <2>2 DEF SnapshotIsActive, Snapshot
<1>. QED
  BY <1>1, InductiveHolds, PTL

\* The history explains the active version
\* (activation.py:162-192, loader.py:269-278).
THEOREM HistoryExplains == Spec => []HistoryIsChain
<1>1. Inductive => HistoryIsChain
  <2>. SUFFICES ASSUME Inductive PROVE HistoryIsChain
    OBVIOUS
  <2>1. Chain(events)
    BY DEF Inductive, Earlier, Explained, Chain
  <2>. QED
    BY <2>1, Reads DEF HistoryIsChain
<1>. QED
  BY <1>1, InductiveHolds, PTL

\* No operator is left without a way on
\* (population.py:127-141, docs/population-recovery.md:47-58).
THEOREM WayOn == Spec => []Recoverable
<1>1. Inductive => Recoverable
  <2>. SUFFICES ASSUME Inductive PROVE Recoverable
    OBVIOUS
  <2>1. Readable /\ audit \in SUBSET Versions
    BY Reads DEF Inductive, TypeOK
  <2>2. ASSUME NEW v \in audit
        PROVE  /\ v \notin Previews /\ Unique(v)
               /\ \/ v \in Legacy /\ v \notin Candidates
                  \/ /\ v \in Candidates /\ v \notin Legacy /\ EvidenceKept(v)
                     /\ bound = Scope[v] /\ bound # None
    BY <2>1, <2>2, Kinds DEF Inductive, Kept, Unique, EvidenceKept
  <2>3. ASSUME active # None PROVE Loadable(active, FALSE, None)
    <3>1. active \in audit /\ active = Ensured.active
      BY <2>3 DEF Inductive, Earlier, Explained, Ensured
    <3>2. active \in Legacy /\ bound # None => adopted[active] = bound
      BY DEF Inductive, Kept
    <3>. QED
      BY <2>1, <2>2, <3>1, <3>2 DEF Loadable, LegacyGuard, PopulationGuard
  <2>4. ASSUME NEW v \in audit, v \in Candidates \/ bound \in {None, adopted[v]}
        PROVE  Loadable(v, TRUE, Ensured.active)
    BY <2>1, <2>2, <2>4 DEF Loadable, LegacyGuard, PopulationGuard, RestoreGuard
  <2>. QED
    BY <2>3, <2>4 DEF Recoverable
<1>. QED
  BY <1>1, InductiveHolds, PTL

-----------------------------------------------------------------------------
(* The implementation of the promise *)

\* A load advances to the population it continues, or returns to one it had.
LEMMA LoadRefines ==
  ASSUME Inductive, NEW v \in Versions, NEW restore \in BOOLEAN, NEW expected,
         Load(v, restore, expected)
  PROVE  [Population!Next]_(Population!vars)
<1>1. Loadable(v, restore, expected) /\ Ensured.active' = v
  BY DEF Load, Repeat, Apply, Ensured
<1>2. CASE Repeat(v)
  BY <1>1, <1>2 DEF Repeat, Population!vars
<1>3. CASE Apply(v)
  <2>1. /\ v # Ensured.active /\ audit' = audit \cup {v}
        /\ bound' = IF v \in Candidates THEN Scope[v] ELSE bound
    BY <1>3 DEF Apply
  <2>2. CASE v \in Legacy
    <3>1. v \in audit /\ v \notin Candidates
      BY <1>1, <2>1, <2>2, Kinds DEF Loadable, LegacyGuard, RestoreGuard
    <3>2. Population!Return(v)
      BY <1>1, <2>1, <3>1 DEF Population!Return, Population!Candidates, Candidates
    <3>. QED
      BY <3>2 DEF Population!Next
  <2>3. CASE v \notin Legacy
    <3>1. v \in Candidates /\ PopulationGuard(v, restore, expected)
      BY <1>1, <2>3, Kinds DEF Loadable
    <3>2. bound' = Scope[v] /\ bound \in {None, Scope[v]} /\ (v \in audit => bound = Scope[v])
      BY <2>1, <3>1 DEF PopulationGuard
    <3>3. CASE restore
      <4>1. v \in audit
        BY <2>1, <3>1, <3>3 DEF PopulationGuard, RestoreGuard
      <4>2. Population!Return(v)
        BY <1>1, <2>1, <3>2, <4>1 DEF Population!Return
      <4>. QED
        BY <4>2 DEF Population!Next
    <3>4. CASE ~restore
      <4>1. Parent[v] = Ensured.active /\ (Ensured.active # None => bound # None)
        BY <2>1, <3>1, <3>4 DEF PopulationGuard, Continues
      <4>2. Population!Advance(v)
        BY <1>1, <2>1, <3>1, <3>2, <4>1
        DEF Population!Advance, Population!Candidates, Candidates
      <4>. QED
        BY <4>2 DEF Population!Next
    <3>. QED
      BY <3>3, <3>4
  <2>. QED
    BY <2>2, <2>3
<1>. QED
  BY <1>2, <1>3 DEF Load

\* An adoption binds the scope, once.
LEMMA AdoptRefines ==
  ASSUME NEW v \in Versions, Adopt(v)
  PROVE  [Population!Next]_(Population!vars)
<1>1. /\ v = Ensured.active /\ Record[v] \in Scopes /\ v \in Legacy
      /\ bound \in {None, Record[v]} /\ bound' = Record[v]
      /\ audit' = audit /\ Ensured.active' = v
  BY Adoptions DEF Adopt, Adoptable, Ensured
<1>2. CASE bound' = bound
  BY <1>1, <1>2 DEF Population!vars
<1>3. CASE bound' # bound
  <2>1. Population!Bind(Record[v])
    BY <1>1, <1>3, Kinds DEF Population!Bind, Population!Candidates, Candidates
  <2>. QED
    BY <1>1, <2>1 DEF Population!Next
<1>. QED
  BY <1>2, <1>3

\* The schema is one authoritative population
\* (loader.py:124-166, docs/population-recovery.md:43-58).
THEOREM Implements == Spec => PopulationSpec
<1>1. Init => Population!Init
  <2>. SUFFICES ASSUME Init PROVE Population!Init
    OBVIOUS
  <2>1. audit \in SUBSET Population!Legacy /\ bound = None
    BY DEF Init, Population!Legacy, Legacy
  <2>2. Empty \/ Holds
    BY InitHolds, Reads
  <2>3. Ensured.active \in audit \cup {None} /\ (Ensured.active = None => audit = {})
    <3>1. CASE Empty
      BY <3>1 DEF Empty
    <3>2. CASE Holds
      BY <2>1, <3>2, Kinds DEF Holds, Population!Legacy
    <3>. QED
      BY <2>2, <3>1, <3>2
  <2>. QED
    BY <2>1, <2>3 DEF Population!Init
<1>2. Inductive /\ [Next]_vars => [Population!Next]_(Population!vars)
  <2>. SUFFICES ASSUME Inductive, [Next]_vars PROVE [Population!Next]_(Population!vars)
    OBVIOUS
  <2>1. CASE UNCHANGED vars
    <3>1. Ensured' = Ensured
      BY <2>1 DEF vars, Ensured, Groups
    <3>. QED
      BY <2>1, <3>1 DEF vars, Population!vars
  <2>2. ASSUME NEW v \in Versions, NEW restore \in BOOLEAN, NEW expected, Load(v, restore, expected)
        PROVE  [Population!Next]_(Population!vars)
    BY <2>2, LoadRefines
  <2>3. ASSUME NEW v \in Versions, Adopt(v) PROVE [Population!Next]_(Population!vars)
    BY <2>3, AdoptRefines
  <2>. QED
    BY <2>1, <2>2, <2>3 DEF Next
<1>. QED
  BY <1>1, <1>2, InductiveHolds, PTL DEF Spec, PopulationSpec, Population!Spec

=============================================================================
