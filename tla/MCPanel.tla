------------------------------ MODULE MCPanel -------------------------------
(* An instance of Panel with a dim phase of one tick and fades of two      *)
(* callback periods; three brightness levels, as the fade must pass one.   *)
EXTENDS Panel

MCCfg == [dim |-> 1, off |-> 2, active |-> 4, dimmed |-> 2]
=============================================================================
