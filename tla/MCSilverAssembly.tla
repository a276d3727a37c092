--------------------------- MODULE MCSilverAssembly ---------------------------
(* One contract under two spellings of its identifier, another contract; rows  *)
(* that are older, newer, drifted, undated, unreadable or otherwise defective. *)
EXTENDS SilverAssembly

CONSTANTS a, aa, b, ka, kb

MCKeyOf == [i \in {a, aa, b} |-> IF i = b THEN kb ELSE ka]

MCRow(i, u, s, d) == [id |-> i, updated |-> u, signed |-> s, defects |-> d]

MCResponses ==
  LET old == MCRow(a, 1, 1, {})
      new == MCRow(a, 2, 1, {})
      other == MCRow(b, 0, 1, {})
      drifted == MCRow(a, 2, 2, {"AMOUNT_NULL"})
      unreadable == MCRow(a, 0, Unreadable, {})
      spelled == MCRow(aa, 2, 1, {"AMOUNT_NULL"})
  IN [primary |-> {<<old>>, <<old, drifted>>},
      identity |-> {<<new>>, <<unreadable>>},
      scope_scan |-> {<<>>, <<spelled, new>>, <<unreadable, other>>},
      baseline_check |-> {<<>>, <<new>>, <<drifted>>}]

\* At most two runs wait for a version, a version has the last run, and only the
\* last campaign is cut short: nothing continues a version of such a campaign.
Focus ==
  /\ Len(bronze') < MaxRuns => \A r \in DOMAIN bronze' : bronze'[r].complete
  /\ bronze' # bronze =>
       Cardinality(RunIds \ UNION {versions[v].runs : v \in VersionIds}) < 2
  /\ versions' # versions => Len(bronze) \in versions'[Len(versions')].runs

MCSpec == Init /\ [][Next /\ Focus]_vars
=============================================================================
