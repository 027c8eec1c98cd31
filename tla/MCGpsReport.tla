---------------------------- MODULE MCGpsReport ----------------------------
(***************************************************************************)
(* GpsReport for TLC: one fix more than the ring has room for.             *)
(***************************************************************************)
EXTENDS GpsReport

MCFixes == 1..MaxFixes
=============================================================================
