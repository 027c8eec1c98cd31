----------------------------- MODULE MCBridges -----------------------------
(* All the programs, each with its own queue.                              *)
EXTENDS Bridges

MCPrograms == Ftp \cup {Influx}
=============================================================================
