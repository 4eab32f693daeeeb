------------------------- MODULE MC_ArgoCollector -------------------------
(***************************************************************************)
(* Model-checking instance of ArgoCollector: one application, two git      *)
(* revisions, up to three syncs.                                           *)
(***************************************************************************)
EXTENDS ArgoCollector
=============================================================================
