------------------------------ MODULE MCHistory ------------------------------
(***************************************************************************)
(* Small instances of ImportDeployHistory for TLC.                         *)
(***************************************************************************)
EXTENDS HistoryInvariant, MCImportDeploy
=============================================================================
