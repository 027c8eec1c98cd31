----------------------------- MODULE MCConsole -----------------------------
EXTENDS Console

MCCells == {"ok", "CS", "EUI", "rep=", "11", "CR", "LF", "BS"}
MCNumberOf == ("11" :> 11)
=============================================================================
