----------------------------- MODULE MCBurnIdle -----------------------------
(* An instance of BurnIdle: a dim phase of three moments, one of one, and  *)
(* none at all (equal thresholds).                                         *)
EXTENDS BurnIdle

MCConfigs == [dim : {2}, off : {2, 3, 5}, active : {70}, dimmed : {20}]
=============================================================================
