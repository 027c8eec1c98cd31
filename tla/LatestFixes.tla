---------------------------- MODULE LatestFixes ----------------------------
(***************************************************************************)
(* What the buffer of GPS fixes is for: it keeps the Size latest ones.     *)
(***************************************************************************)
EXTENDS Naturals

CONSTANTS
  Size,   \* GPS_FIX_LIFO_RING_BUFFER_SIZE
  Fixes,  \* the records that may be pushed
  NoFix   \* a record after init()

VARIABLE latest  \* the k-th latest fix at k, the newest at 0

Init == latest = [k \in 0..(Size - 1) |-> NoFix]

Push(v) == latest' = [k \in 0..(Size - 1) |-> IF k = 0 THEN v ELSE latest[k - 1]]

Next == \E v \in Fixes : Push(v)

Spec == Init /\ [][Next]_latest
=============================================================================
