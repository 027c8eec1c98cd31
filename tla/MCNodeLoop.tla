----------------------------- MODULE MCNodeLoop -----------------------------
(* Model-checking instance of NodeLoop: the constants are in the cfg files. *)
EXTENDS NodeLoop
=============================================================================
