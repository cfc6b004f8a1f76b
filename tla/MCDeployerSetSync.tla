-------------------------- MODULE MCDeployerSetSync ---------------------------
(***************************************************************************)
(* Instances of DeployerSetSync for TLC: two Deployers of equal spec, told *)
(* apart by their presence and by which of them is the default.            *)
(***************************************************************************)
EXTENDS DeployerSetSync

CONSTANTS d1, d2, s1

TwoDeployers == {d1, d2}
OneSpec == {s1}
=============================================================================
