--------------------------- MODULE MCSilverSelection ---------------------------
(* A legacy version and a population that continues it; a root population and  *)
(* two that continue it; one of another scope, and a preview.                  *)
EXTENDS SilverSelection, TLC

CONSTANTS p1, p2, l1, root, next, rival, heir, other, draft, s1, s2

MCMode == [v \in Versions |->
  CASE v = l1 -> "legacy" [] v = draft -> "preview" [] OTHER -> "candidate"]
MCParent == [v \in Versions |->
  CASE v \in {next, rival, draft} -> root [] v = heir -> l1 [] OTHER -> None]
MCScope == [v \in Versions |->
  CASE v = l1 -> None [] v = other -> s2 [] OTHER -> s1]
MCFits == [v \in Versions |-> IF v = l1 THEN {s1, s2} ELSE {}]

Interchangeable == Permutations(Processes)
=============================================================================
