------------------------------ MODULE MCUblox ------------------------------
(* Short payloads; those of even frames make 0xB5 the last byte of the     *)
(* checksum.                                                               *)
EXTENDS Ublox

MCPvtPayload(n) == <<n, IF n % 2 = 0 THEN 132 - 2 * n ELSE Sync1>>
MCPrtPayload == <<0>>
=============================================================================
