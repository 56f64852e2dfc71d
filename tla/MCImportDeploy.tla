---------------------------- MODULE MCImportDeploy ---------------------------
(***************************************************************************)
(* Small instances of ImportDeploy for TLC.                                *)
(***************************************************************************)
EXTENDS DocumentedClaims, ImportDeployInvariant, TLC

CONSTANTS i1, i2, i3

\* Names by which pages are sorted: all different, or all equal.
DistinctNames == (i1 :> 1) @@ (i2 :> 2) @@ (i3 :> 3)
OneId == (i1 :> 1)
TwoDistinct == (i1 :> 1) @@ (i2 :> 2)
TwoTied == (i1 :> 1) @@ (i2 :> 1)

ReadOnly == {{"r"}}
ReadOrAll == {{"r"}, Rights}
ReqSymmetry == Permutations(Reqs)
=============================================================================
