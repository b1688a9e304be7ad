---------------------------- MODULE MCHostCache -----------------------------
(* The operations on each file, with whatever else touches that file, and  *)
(* the operations of the longest step sequences all together.              *)
EXTENDS HostCache

MCMenus == {{"add", "update", "remove", "clear"},
            {"bump", "record", "remove", "clear"},
            {"claim", "clear"}}
=============================================================================
