------------------------------ MODULE FixRing ------------------------------
(***************************************************************************)
(* The last-in-first-out ring buffer of GPS fixes of the SodaqOneDevice    *)
(* node (GpsFixLiFoRingBuffer.cpp).                                        *)
(***************************************************************************)
EXTENDS Integers

CONSTANTS Size, Fixes, NoFix

ASSUME SizeAssumption == Size \in Nat \ {0, 1}
ASSUME FixesAssumption == NoFix \notin Fixes

VARIABLES
  data,            \* _data
  top, bottom,     \* _top, _bottom
  validItemCount   \* _validItemCount

ring == <<data, top, bottom, validItemCount>>

Slots == 0..(Size - 1)

RingTypeOK ==
  /\ data \in [Slots -> Fixes \cup {NoFix}]
  /\ top \in Slots /\ bottom \in Slots
  /\ validItemCount \in 0..Size

\* gpsFixLiFoRingBuffer_init()
RingInit ==
  /\ data = [i \in Slots |-> NoFix]
  /\ top = 0 /\ bottom = 0 /\ validItemCount = 0

\* Variant of RingPush: the record goes where the last one went.
RingPushBefore(v) ==
  /\ top' = (top + 1) % Size
  /\ data' = [data EXCEPT ![top] = v]
  /\ validItemCount' = IF validItemCount = Size THEN Size ELSE validItemCount + 1
  /\ bottom' = IF validItemCount = Size THEN (bottom + 1) % Size ELSE bottom

\* gpsFixLiFoRingBuffer_push()
RingPush(v) ==
  /\ top' = (top + 1) % Size
  /\ data' = [data EXCEPT ![(top + 1) % Size] = v]
  /\ validItemCount' = IF validItemCount = Size THEN Size ELSE validItemCount + 1
  /\ bottom' = IF validItemCount = Size THEN (bottom + 1) % Size ELSE bottom

\* The remainder as C computes it, with the sign of the dividend.
CRem(a, b) == IF a >= 0 THEN a % b ELSE -((-a) % b)

\* gpsFixLiFoRingBuffer_peek(): whether it gives a record, and the index of it.
\* top - offset is an int, and the index may be below zero.
CanPeek(offset) == validItemCount # 0 /\ offset <= validItemCount
PeekIndex(offset) == CRem(top - offset, Size)

\* What the ring stands for: the k-th latest fix.
Kept ==
  [k \in Slots |-> IF k < validItemCount THEN data[(top - k) % Size] ELSE NoFix]

RingSpec == RingInit /\ [][\E v \in Fixes : RingPush(v)]_ring

\* The ring holds the latest fixes, at least if it is read at the right index.
Latest == INSTANCE LatestFixes WITH latest <- Kept
RingKeepsLatest == Latest!Spec
=============================================================================
