------------------------------ MODULE MCUplink ------------------------------
(* Model-checking instance of Uplink: the constants are in the cfg files.  *)
EXTENDS Uplink
=============================================================================
