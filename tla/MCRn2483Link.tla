--------------------------- MODULE MCRn2483Link ---------------------------
(***************************************************************************)
(* Rn2483Link for TLC.  Downlinks shorter, as long as and longer than the  *)
(* buffers; six lines are more than the two answers of a transmission, so  *)
(* late answers of several calls may pile up.                              *)
(***************************************************************************)
EXTENDS Rn2483Link

MCDownlinks == {<<1>>, <<2, 3, 4>>}
=============================================================================
