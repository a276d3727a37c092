---------------------------- MODULE SilverAssembly ----------------------------
(***************************************************************************)
(* What a Silver version says: processing/silver (transform, quality,      *)
(* conditions, refresh, population) writes contracts and the evidence of   *)
(* where they come from, and warehouse (bundle, population_bundle) and     *)
(* population/ verify both, years later and without the writer.            *)
(*                                                                         *)
(* A version is what its manifest, its table and its evidence say; the     *)
(* bytes are in SilverVersions, the selection in SilverSelection.  There   *)
(* is one scope, one source profile and one configuration; the department  *)
(* is the one every query asks for.  A row is what the rules tell apart.   *)
(* Runs are numbered in the order of their acquisition, which is that of   *)
(* their identifiers; a run has one page, a campaign one of each lane.     *)
(***************************************************************************)
EXTENDS Integers, Sequences, FiniteSets

CONSTANTS
  KeyOf,       \* [raw identifiers -> contract keys, or None for a blank one]
  Responses,   \* the pages that each lane may get: sequences of rows
  Dates,
  InScope,     \* the dates of the population's half-open interval
  Undated,     \* a row without signing date
  Unreadable,  \* a date that is not the midnight of a day: DATE_INVALID
  MaxRejectionPercent,
  MaxRuns, MaxVersions, \* bounds for model checking
  None

ASSUME ScopeAssumption == InScope \subseteq Dates
ASSUME MarkAssumption == Undated \notin Dates /\ Unreadable \notin Dates /\ Undated # Unreadable
ASSUME RateAssumption == MaxRejectionPercent \in 0..100
RawRows == [id : DOMAIN KeyOf, updated : Nat,
            signed : Dates \cup {Undated, Unreadable}, defects : SUBSET STRING]

ASSUME RowAssumption ==
  \A lane \in {"primary", "identity", "scope_scan", "baseline_check"} :
    Responses[lane] \subseteq Seq(RawRows)

VARIABLES
  bronze,    \* the committed runs, in the order of their identifiers
  versions,  \* versions/, in the order of their promotion
  adopted    \* population_adoptions/

vars == <<bronze, versions, adopted>>

Ids == DOMAIN KeyOf
RunIds == DOMAIN bronze
VersionIds == DOMAIN versions

Init ==
  /\ bronze = <<>>
  /\ versions = <<>>
  /\ adopted = {}

-----------------------------------------------------------------------------
(* Observations: a row of a run, by its place *)

Observations(runs) == UNION {{r} \X (DOMAIN bronze[r].rows) : r \in runs}

Row(o) == bronze[o[1]].rows[o[2]]
Key(o) == KeyOf[Row(o).id]
Checked(o) == o[2] > bronze[o[1]].scanned
Fetched(o) == 2 * o[1] + (IF Checked(o) THEN 1 ELSE 0)

\* A row is kept as rejected for its codes, all of them.
Codes(o) ==
  (IF Key(o) = None THEN {"IDENTIFIER_NULL"} ELSE {})
    \cup (IF Row(o).signed = Unreadable THEN {"DATE_INVALID"} ELSE {})
    \cup Row(o).defects

Rejected(runs) == {o \in Observations(runs) : Codes(o) # {}}
Accepted(runs) == {o \in Observations(runs) : Codes(o) = {}}

Contains(date) == date \in InScope

\* The order of versions: the source's clock (0 where it is null), then the
\* place of the observation.
Newer(o, p) ==
  \/ Row(o).updated > Row(p).updated
  \/ /\ Row(o).updated = Row(p).updated
     /\ \/ Fetched(o) > Fetched(p)
        \/ Fetched(o) = Fetched(p) /\ o[2] > p[2]

\* transform_bronze(): the contracts, each with the observation that is its row.
Table(runs) ==
  LET accepted == Accepted(runs)
  IN [k \in {Key(o) : o \in accepted} |->
        CHOOSE o \in accepted :
          Key(o) = k /\ \A p \in accepted \ {o} : Key(p) = k => Newer(o, p)]

Counts(runs) ==
  LET accepted == Accepted(runs)
      payloads == {Row(o) : o \in accepted}
      output == {KeyOf[row.id] : row \in payloads}
  IN [input |-> Cardinality(Observations(runs)),
      output |-> Cardinality(output),
      rejected |-> Cardinality(Rejected(runs)),
      exact |-> Cardinality(accepted) - Cardinality(payloads),
      superseded |-> Cardinality(payloads) - Cardinality(output)]

\* Two accepted raw identifiers of one contract.
Collide(runs) ==
  LET accepted == {Row(o).id : o \in Accepted(runs)}
  IN \E i, j \in accepted : i # j /\ KeyOf[i] = KeyOf[j]

\* validate_quality(): the controls whose failure leaves no valid version.
QualityPasses(runs) ==
  LET c == Counts(runs)
  IN /\ ~Collide(runs)
     /\ c.input = c.output + c.rejected + c.exact + c.superseded
     /\ 100 * c.rejected <= MaxRejectionPercent * c.input
     /\ c.output > 0

-----------------------------------------------------------------------------
(* Rejected observations and the contracts they are about *)

\* Variant: the chronology of the source instead of that of the acquisition.
RelationBySource(o, w) ==
  IF Row(o).updated > Row(w).updated THEN "LATER"
  ELSE IF Row(o).updated = Row(w).updated THEN "EQUAL" ELSE "EARLIER"

Relation(o, w) ==
  IF Fetched(o) > Fetched(w) THEN "LATER"
  ELSE IF Fetched(o) = Fetched(w) THEN "EQUAL" ELSE "EARLIER"

\* A reject is attributed by its raw identifier, and only where no other raw
\* identifier reads the same.
Links(runs, table) ==
  LET raw == {Row(o).id : o \in Observations(runs)}
      alone == {i \in raw : \A j \in raw \ {i} : KeyOf[j] # KeyOf[i]}
      attributed == {o \in Rejected(runs) : Row(o).id \in alone /\ Key(o) \in DOMAIN table}
  IN {[key |-> Key(o), reject |-> o, relation |-> Relation(o, table[Key(o)])] : o \in attributed}

State(links, k) ==
  LET Has(relation) == \E l \in links : l.key = k /\ l.relation = relation
  IN IF Has("LATER") THEN "LATER_INVALID_OBSERVED"
     ELSE IF Has("EQUAL") THEN "TEMPORAL_ORDER_INDETERMINATE"
     ELSE "NO_LATER_INVALID_OBSERVED"

-----------------------------------------------------------------------------
(* Verification: a bundle, alone and with the versions it depends on *)

Members(v) == {Row(versions[v].table[k]).id : k \in DOMAIN versions[v].table}
Keys(v) == DOMAIN versions[v].table
Refreshes(runs) == {r \in runs : bronze[r].purpose = "identity_refresh"}
Campaigns(runs) == {r \in runs : bronze[r].purpose = "population_reconciliation"}

RowsInScope(table) == \A k \in DOMAIN table : Contains(Row(table[k]).signed)

\* A baseline's authority: it is a complete population, or adopted.
Authority(v) == versions[v].mode = "authoritative" \/ v \in adopted

\* _verify_table(): the rows are this version's.
TableHolds(m) == \A k \in DOMAIN m.table : m.table[k][1] \in m.runs

\* verify_quality_summary(): every observation is accounted for once.
AccountingHolds(m) ==
  LET c == m.counts
  IN /\ c.output = Cardinality(DOMAIN m.table)
     /\ c.input = c.output + c.rejected + c.exact + c.superseded

\* _verify_identity(): what a version may be made of.
PurposesHold(m) ==
  m.envelope = 2 =>
    Campaigns(m.runs) = {} /\ (Refreshes(m.runs) # {} => m.refreshed # 0)

\* verify_manifest_bundle(verify_refresh=False), without the evidence.
BundleHolds(v) ==
  TableHolds(versions[v]) /\ AccountingHolds(versions[v]) /\ PurposesHold(versions[v])

\* _verify_refresh(): same members, every dependency, every refresh declared.
RefreshHolds(v) ==
  LET m == versions[v]
  IN m.refreshed # 0 =>
       /\ m.refreshed # v
       /\ BundleHolds(m.refreshed)
       /\ Keys(v) = Keys(m.refreshed)
       /\ m.dependencies = versions[m.refreshed].runs
       /\ m.dependencies \subseteq m.runs
       /\ m.refreshes # {} /\ m.refreshes = Refreshes(m.runs)

\* validate_coverage(): only completed campaigns are complete coverage.
CoverageHolds(m) ==
  /\ m.campaigns # {} /\ m.campaigns \subseteq m.runs
  /\ LET complete == \A r \in m.campaigns : bronze[r].complete
     IN /\ complete => \A r \in m.campaigns : bronze[r].base = m.base
        /\ m.mode = "authoritative" => complete

\* validate_reconciliation(): the rejects that nothing is said about are counted.
ReconciliationHolds(m) ==
  /\ m.counts.input >= m.counts.output + m.counts.rejected
  /\ m.unattributable <= m.counts.rejected

\* validate_condition_set(): one summary per contract, one link per reject.
ConditionsHold(m) ==
  /\ DOMAIN m.states = DOMAIN m.table
  /\ \A k \in DOMAIN m.table : m.states[k] = State(m.links, k)
  /\ \A l \in m.links :
       l.key \in DOMAIN m.table /\ l.relation = Relation(l.reject, m.table[l.key])
  /\ \A l, other \in m.links : l.reject = other.reject => l = other

\* _baseline() of the verifier; verified says which of the earlier versions are.
BaselineHolds(m, verified) ==
  /\ m.base = 0 => m.baseKeys = {} /\ m.dependencies = {} /\ m.drift = {}
  /\ m.base # 0 =>
       /\ verified[m.base]
       /\ m.baseKeys = Keys(m.base)
       /\ m.dependencies = versions[m.base].runs
       /\ m.dependencies \subseteq m.runs
       /\ {Row(o).id : o \in m.drift} \subseteq Members(m.base)
       /\ Authority(m.base)

\* _refresh_nodes() of the verifier: the nodes prove exactly the refreshes used.
NodesHold(m, verified) ==
  /\ \A node \in m.nodes :
       /\ verified[node.version]
       /\ versions[node.version].refreshed # 0
       /\ node.refreshes = versions[node.version].refreshes
       /\ versions[node.version].runs \subseteq m.runs
  /\ UNION {node.refreshes : node \in m.nodes} = Refreshes(m.runs)

\* verify_population_bundle(): the documents, and what they say of each other.
PopulationHolds(m, verified) ==
  /\ CoverageHolds(m) /\ ReconciliationHolds(m) /\ ConditionsHold(m)
  /\ m.campaigns \subseteq Campaigns(m.runs)
  /\ m.unconfirmed = UNION {bronze[r].missing : r \in m.campaigns}
  /\ m.unattributable = m.counts.rejected - Cardinality(m.links)
  /\ \A l \in m.links : l.reject[1] \in m.runs
  /\ \A o \in m.drift : o[1] \in m.campaigns /\ ~Contains(Row(o).signed)
  /\ BaselineHolds(m, verified)
  /\ NodesHold(m, verified)
  /\ m.mode = "authoritative" =>
       m.drift = {} /\ m.baseKeys \subseteq DOMAIN m.table /\ RowsInScope(m.table)

\* verify_manifest_bundle(): which versions the warehouse would accept.  What a
\* version depends on was promoted before it.
Verified ==
  LET verified[v \in 0..Len(versions)] ==
        v # 0 /\ BundleHolds(v) /\ IF versions[v].envelope = 2
                                   THEN RefreshHolds(v)
                                   ELSE PopulationHolds(versions[v], verified)
  IN verified

-----------------------------------------------------------------------------
(* Acquisition: what the ingestion module lets a committed run hold *)

Distinct(rows) == \A i, j \in DOMAIN rows : rows[i].id = rows[j].id => i = j
IdsOf(rows) == {rows[i].id : i \in DOMAIN rows}

Commit(run) ==
  /\ bronze' = Append(bronze, run)
  /\ UNCHANGED <<versions, adopted>>

CommitIncremental(rows) ==
  Commit([purpose |-> "incremental", rows |-> rows, scanned |-> Len(rows),
          base |-> 0, missing |-> {}, complete |-> TRUE])

\* A run pins a baseline that is verified, or none.
Pinned == {v \in VersionIds : Verified[v]}

\* An identity refresh asks for members of the version it pins.
CommitRefresh(v, asked, rows) ==
  /\ asked # {} /\ asked \subseteq Members(v)
  /\ Distinct(rows) /\ IdsOf(rows) \subseteq asked
  /\ Commit([purpose |-> "identity_refresh", rows |-> rows, scanned |-> Len(rows),
             base |-> v, missing |-> asked \ IdsOf(rows), complete |-> TRUE])

\* validate_rows(): the scan answers the scope, the check answers its batch.
ScanAccepted(rows) ==
  /\ Distinct(rows) /\ None \notin {KeyOf[i] : i \in IdsOf(rows)}
  /\ \A i \in DOMAIN rows : rows[i].signed \in InScope \cup {Unreadable}

CheckAccepted(rows, batch) == Distinct(rows) /\ IdsOf(rows) \subseteq batch

\* A campaign ends acquired, or truncated: then its scan or its check stopped.
CommitCampaign(v, scan, check, batch, complete) ==
  /\ ScanAccepted(scan)
  /\ CheckAccepted(check, batch)
  /\ batch \subseteq (IF v = 0 THEN {} ELSE Members(v))
  /\ complete /\ v # 0 => batch = Members(v)
  /\ Commit([purpose |-> "population_reconciliation", rows |-> scan \o check,
             scanned |-> Len(scan), base |-> v,
             missing |-> batch \ IdsOf(check), complete |-> complete])

-----------------------------------------------------------------------------
(* SilverPipeline.run *)

Promote(m) ==
  /\ \A v \in VersionIds : versions[v] # m
  /\ versions' = Append(versions, m)
  /\ UNCHANGED <<bronze, adopted>>

\* refresh_baseline(): the baselines that every refresh they lack extends.
Extended(runs) ==
  {v \in {bronze[r].base : r \in Refreshes(runs)} :
     LET additions == Refreshes(runs) \ versions[v].runs
     IN additions # {} /\ \A r \in additions : bronze[r].base = v}

\* reconcile_refresh(): a refresh neither adds nor loses a contract.
BaselineOfRefresh(runs, v) ==
  IF Refreshes(runs) = {} THEN v = 0
  ELSE /\ \A r \in Refreshes(runs) : Verified[bronze[r].base]
       /\ Extended(runs) = {v}
       /\ versions[v].runs \subseteq runs
       /\ DOMAIN Table(runs) = Keys(v)

Standalone(runs, mode, v) ==
  [envelope |-> 2, mode |-> mode, runs |-> runs, campaigns |-> {}, base |-> 0,
   refreshed |-> v, refreshes |-> Refreshes(runs), table |-> Table(runs),
   counts |-> Counts(runs), dependencies |-> IF v = 0 THEN {} ELSE versions[v].runs,
   baseKeys |-> {}, nodes |-> {}, drift |-> {}, unconfirmed |-> {}, links |-> {},
   states |-> <<>>, unattributable |-> 0]

\* A version of the earlier release, before this one wrote any, or a preview.
BuildStandalone(runs, mode, v) ==
  /\ runs # {} /\ Campaigns(runs) = {}
  /\ mode = "legacy" => \A w \in VersionIds : versions[w].mode = "legacy"
  /\ BaselineOfRefresh(runs, v)
  /\ QualityPasses(runs)
  /\ Promote(Standalone(runs, mode, v))

\* adopt(), of the one legacy version that is current.
Adopt(v) ==
  /\ adopted = {}
  /\ Verified[v]
  /\ versions[v].mode = "legacy"
  /\ RowsInScope(versions[v].table)
  /\ adopted' = {v}
  /\ UNCHANGED <<bronze, versions>>

-----------------------------------------------------------------------------
(* run_population *)

\* visit(): a version and all it was built from.
Lineage(v) ==
  LET line[w \in 0..Len(versions)] ==
        IF w = 0 THEN {}
        ELSE {w} \cup line[versions[w].refreshed] \cup line[versions[w].base]
  IN line[v]

Nodes(base) ==
  {[version |-> w, refreshes |-> versions[w].refreshes] :
     w \in {u \in Lineage(base) : versions[u].refreshed # 0}}

\* Variant: any version that verifies is a baseline.
VerifiedBaseline(base) == base # 0 => \A w \in Lineage(base) : Verified[w]

BaselineAccepted(base) ==
  base # 0 => Authority(base) /\ \A w \in Lineage(base) : Verified[w]

\* Variant: only the campaigns, without what the baseline was built from.
ClosureOfCampaigns(base, campaigns) == campaigns

Closure(base, campaigns) == campaigns \cup (IF base = 0 THEN {} ELSE versions[base].runs)

\* Variant: a rejected row says nothing of its contract.
DriftOfAccepted(base, campaigns) ==
  {o \in Accepted(campaigns) :
     base # 0 /\ Row(o).id \in Members(base) /\ ~Contains(Row(o).signed)}

\* What a campaign saw of a member outside the scope, rejected rows included.
Drift(base, campaigns) ==
  {o \in Observations(campaigns) :
     /\ base # 0 /\ Row(o).id \in Members(base)
     /\ Row(o).signed # Unreadable /\ ~Contains(Row(o).signed)}

Population(mode, base, campaigns) ==
  LET runs == Closure(base, campaigns)
      table == Table(runs)
      links == Links(runs, table)
  IN [envelope |-> 3, mode |-> mode, runs |-> runs, campaigns |-> campaigns,
      base |-> base, refreshed |-> 0, refreshes |-> {}, table |-> table,
      counts |-> Counts(runs),
      dependencies |-> IF base = 0 THEN {} ELSE versions[base].runs,
      baseKeys |-> IF base = 0 THEN {} ELSE Keys(base),
      nodes |-> Nodes(base),
      drift |-> Drift(base, campaigns),
      unconfirmed |-> UNION {bronze[r].missing : r \in campaigns},
      links |-> links,
      states |-> [k \in DOMAIN table |-> State(links, k)],
      unattributable |-> Cardinality(Rejected(runs)) - Cardinality({l.reject : l \in links})]

\* _verify_refresh_nodes(): the lineage proves every refresh it brings.
RefreshesProved(m) == Refreshes(m.runs) \subseteq UNION {node.refreshes : node \in m.nodes}

\* The controls that only an authoritative candidate has.
PopulationPasses(m) ==
  m.mode = "authoritative" =>
    /\ \A r \in m.campaigns : bronze[r].complete
    /\ m.baseKeys \subseteq DOMAIN m.table
    /\ RowsInScope(m.table) /\ m.drift = {}

BuildPopulation(mode, base, campaigns) ==
  /\ campaigns # {}
  /\ \A r \in campaigns :
       bronze[r].purpose = "population_reconciliation" /\ bronze[r].base = base
  /\ BaselineAccepted(base)
  /\ LET m == Population(mode, base, campaigns)
     IN /\ RefreshesProved(m)
        /\ QualityPasses(m.runs)
        /\ PopulationPasses(m)
        /\ Promote(m)

-----------------------------------------------------------------------------

Acquire ==
  /\ Len(bronze) < MaxRuns
  /\ \/ \E rows \in Responses["primary"] : CommitIncremental(rows)
     \/ \E v \in Pinned, rows \in Responses["identity"] :
          \E asked \in SUBSET Members(v) : CommitRefresh(v, asked, rows)
     \/ \E v \in {0} \cup Pinned, complete \in BOOLEAN,
           scan \in Responses["scope_scan"], check \in Responses["baseline_check"] :
          \E batch \in SUBSET (IF v = 0 THEN {} ELSE Members(v)) :
            CommitCampaign(v, scan, check, batch, complete)

Build ==
  /\ Len(versions) < MaxVersions
  /\ \/ \E runs \in SUBSET RunIds, mode \in {"legacy", "preview"},
           v \in {0} \cup VersionIds :
          BuildStandalone(runs, mode, v)
     \/ \E campaigns \in SUBSET RunIds, mode \in {"preview", "authoritative"},
           base \in {0} \cup VersionIds :
          BuildPopulation(mode, base, campaigns)

Next == Acquire \/ Build \/ \E v \in VersionIds : Adopt(v)

Spec == Init /\ [][Next]_vars

-----------------------------------------------------------------------------
(* Properties *)

\* Every version the writer promotes is one the warehouse's verifier accepts,
\* then and after everything that is acquired, built or adopted later: the two
\* programs read the same lineage, members, drift and accounting
\* (population.py:124-305 against bundle.py:121-216 and population_bundle.py).
WrittenIsVerified == \A v \in VersionIds : Verified[v]

\* A version keeps every contract of the one it refreshes or continues, with the
\* same observation or a newer one, although its runs are chosen again by name
\* and the source may answer with older data (population.py:60-74,
\* refresh.py:26-47).
NothingOlder ==
  \A v \in VersionIds : \A b \in {versions[v].base, versions[v].refreshed} \ {0} :
    \A k \in Keys(b) :
      /\ k \in Keys(v)
      /\ \/ versions[v].table[k] = versions[b].table[k]
         \/ Newer(versions[v].table[k], versions[b].table[k])

\* A contract reported without later invalid observation has none at or after its
\* row, unless the version says that some reject could not be attributed
\* (conditions.py:14-90, population.py:217-232).
NoHiddenReject ==
  \A v \in VersionIds :
    versions[v].envelope = 3 /\ versions[v].unattributable = 0 =>
      \A k \in Keys(v) : versions[v].states[k] = "NO_LATER_INVALID_OBSERVED" =>
        \A o \in Rejected(versions[v].runs) :
          Key(o) = k => Fetched(o) < Fetched(versions[v].table[k])

\* No campaign anywhere in what an authoritative version was built from saw a
\* member outside the scope, not even in a row that was rejected
\* (population.py:162-169, 241-250).
DriftBlocks ==
  \A v \in VersionIds : versions[v].mode = "authoritative" =>
    \A o \in Observations(Campaigns(versions[v].runs)) :
      Row(o).signed = Unreadable \/ Contains(Row(o).signed)

\* A version that came before, or none.
Before(v) == 0 .. v - 1

\* What a run holds of the source.
RunSound(r) ==
  LET run == bronze[r]
      OfMember(row) == run.base # 0 /\ row.id \in Members(run.base)
      Scanned(row) == Contains(row.signed) \/ row.signed = Unreadable
  IN /\ run.rows \in Seq(RawRows)
     /\ run.base \in {0} \cup VersionIds
     /\ run.purpose \in {"incremental", "identity_refresh", "population_reconciliation"}
     /\ run.purpose = "identity_refresh" => run.base # 0
     /\ run.purpose = "population_reconciliation" =>
          \A i \in DOMAIN run.rows :
            IF i <= run.scanned THEN Scanned(run.rows[i]) ELSE OfMember(run.rows[i])

\* Each contract of a version is an accepted observation of its runs, the newest.
TableSound(m) ==
  /\ DOMAIN m.table = {Key(o) : o \in Accepted(m.runs)}
  /\ \A k \in DOMAIN m.table :
       /\ m.table[k] \in Accepted(m.runs) /\ Key(m.table[k]) = k
       /\ \A o \in Accepted(m.runs) :
            Key(o) = k => o = m.table[k] \/ Newer(m.table[k], o)

\* A version that refreshes another has its contracts, and says which refreshes.
Refreshing(m) ==
  m.refreshed # 0 =>
    /\ BundleHolds(m.refreshed)
    /\ DOMAIN m.table = Keys(m.refreshed)
    /\ m.dependencies = versions[m.refreshed].runs
    /\ m.refreshes # {} /\ m.refreshes = Refreshes(m.runs)

\* A population says of its baseline, campaigns and rejects what they hold.
Reconciling(m) ==
  /\ m.runs = Closure(m.base, m.campaigns)
  /\ \A r \in m.campaigns : bronze[r].base = m.base
  /\ PopulationHolds(m, [w \in 0 .. Len(versions) |-> w # 0])
  /\ m.drift = Drift(m.base, m.campaigns)
  /\ m.counts.rejected = Cardinality(Rejected(m.runs))
  /\ \A l \in m.links : l.reject \in Rejected(m.runs) /\ l.key = Key(l.reject)

\* A version and what it was built from, as it was written.
VersionSound(v, m) ==
  /\ m.runs \subseteq RunIds
  /\ m.base \in Before(v) /\ m.refreshed \in Before(v)
  /\ \A b \in {m.base, m.refreshed} \ {0} : versions[b].runs \subseteq m.runs
  /\ \A node \in m.nodes : node.version \in Before(v)
  /\ TableSound(m) /\ TableHolds(m) /\ AccountingHolds(m) /\ PurposesHold(m)
  /\ \/ m.envelope = 2 /\ m.mode \in {"legacy", "preview"} /\ m.base = 0 /\ Refreshing(m)
     \/ /\ m.envelope = 3 /\ m.mode \in {"preview", "authoritative"} /\ m.refreshed = 0
        /\ Reconciling(m)

Listed(s) == s \in Seq({s[i] : i \in DOMAIN s})

\* The inductive strengthening of the four invariants.
IInv ==
  /\ Listed(bronze) /\ Listed(versions)
  /\ \A r \in RunIds : RunSound(r)
  /\ \A v \in VersionIds : VersionSound(v, versions[v])
  /\ adopted \subseteq {v \in VersionIds : versions[v].mode = "legacy"}

=============================================================================
