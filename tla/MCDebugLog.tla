----------------------------- MODULE MCDebugLog -----------------------------
(***************************************************************************)
(* Two metrics, an attribute whose key the parser reads and one whose key  *)
(* it does not, and a value that a ')' cuts to another one.                *)
(***************************************************************************)
EXTENDS DebugLog

MCMetrics == {"executions", "sessions"}
MCAttrValues == {"", "A", "A)"}
MCCut == [v \in MCAttrValues |-> IF v = "A)" THEN "A" ELSE v]
MCNumbers == {"12", "1"}
=============================================================================
