---------------------------- MODULE MCWarehouseLoad ----------------------------
(* Two legacy versions, one adopted by Silver; a population that continues it,  *)
(* one that continues that and a rival; a root population and its heir in the   *)
(* same scope, one of another scope, a preview, and a manifest rewritten under  *)
(* the name of another.                                                         *)
EXTENDS WarehouseLoad

CONSTANTS l1, l2, heir, next, rival, root, after, twin, other, draft, k1, k2, s1, s2

MCId == [v \in Versions |-> IF v = twin THEN after ELSE v]
MCMode == [v \in Versions |->
  CASE v \in {l1, l2} -> "legacy" [] v = draft -> "preview" [] OTHER -> "candidate"]
MCParent == [v \in Versions |->
  CASE v = heir -> l1 [] v \in {next, rival} -> heir
    [] v \in {after, twin, draft} -> root [] OTHER -> None]
MCScope == [v \in Versions |->
  CASE v \in {l1, l2} -> None [] v = other -> s2 [] OTHER -> s1]
MCTable == [v \in Versions |->
  CASE v \in {l1, root} -> [k \in {k1} |-> 1]
    [] v = l2 -> [k \in {k2} |-> 1]
    [] v \in {heir, after} -> [k \in {k1, k2} |-> 1]
    [] v = next -> [k \in {k1, k2} |-> IF k = k1 THEN 2 ELSE 1]
    [] OTHER -> [k \in {k1, k2} |-> 2]]
MCRecord == [v \in Versions |-> CASE v = l1 -> s1 [] v = l2 -> s2 [] OTHER -> None]
=============================================================================
