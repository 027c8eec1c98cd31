------------------------------ MODULE GasGauge ------------------------------
(***************************************************************************)
(* The charge drawn from the battery as the LTC2943 gas gauge counts it    *)
(* and LTC::Update() (LTC2943.cpp) adds it up.  The chip counts from the   *)
(* moment it gets power and forgets its count when the battery is taken    *)
(* out; the node, which goes on, keeps the sum of the earlier counts as    *)
(* the charge offset of its parameters.                                    *)
(*                                                                         *)
(* The count rises as charge is drawn, as chargeReading, which is not      *)
(* signed, requires, and one unit of it is one mAh; it stays below the     *)
(* register's width.                                                       *)
(***************************************************************************)
EXTENDS Naturals

CONSTANTS
  MaxDrawn,     \* bounds the charge that is drawn
  MaxMishaps    \* bounds how often the battery is taken out, an alert is
                \* raised, the bus fails or the node is reset

ASSUME DrawAssumption == MaxDrawn \in Nat /\ MaxMishaps \in Nat

VARIABLES
  powered,      \* the battery is in, and the chip answers
  count,        \* the charge register, relative to where it starts
  alerts,       \* the bits of the status register
  charge,       \* LTC::charge
  chargeState,  \* LTC::chargeState: the last Update() could read the chip
  valid,        \* LTC::valid
  offset,       \* params.getChargeOffset()
  flashOffset,  \* the same in flash
  read,         \* history: what the chip had counted when it was last read
  drawn,        \* history: all the charge the node has read from the chip
  disturbed,    \* history: something has happened that Update() misjudges
  mishaps       \* counts up to MaxMishaps

chipVars == <<powered, count, alerts>>
gaugeVars == <<charge, chargeState, valid, offset>>
historyVars == <<read, drawn, disturbed>>
chargeVars == <<chipVars, gaugeVars, flashOffset, historyVars, mishaps>>

Uvlo == "undervoltage lockout"
Alerts == {Uvlo, "another alert"}

\* What Update() reads and writes over the bus.  The write is not among it:
\* Wire.write() counts the bytes it has queued, whether the chip takes them or not.
Reads == {"charge", "voltage", "current", "temperature", "status"}

GaugeTypeOK ==
  /\ powered \in BOOLEAN /\ count \in Nat /\ alerts \in SUBSET Alerts
  /\ charge \in Nat /\ chargeState \in BOOLEAN /\ valid \in BOOLEAN
  /\ offset \in Nat /\ flashOffset \in Nat
  /\ read \in Nat /\ drawn \in Nat /\ disturbed \in BOOLEAN
  /\ mishaps \in 0..MaxMishaps

GaugeInit ==
  /\ powered = TRUE /\ count = 0 /\ alerts = {Uvlo}
  /\ charge = 0 /\ chargeState = FALSE /\ valid = FALSE
  /\ offset = 0 /\ flashOffset = 0
  /\ read = 0 /\ drawn = 0 /\ disturbed = FALSE /\ mishaps = 0

Mishap == mishaps < MaxMishaps /\ mishaps' = mishaps + 1

-----------------------------------------------------------------------------
(* The chip                                                                *)

Draw ==
  /\ powered
  /\ drawn + count < MaxDrawn
  /\ count' = count + 1
  /\ UNCHANGED <<powered, alerts, gaugeVars, flashOffset, historyVars, mishaps>>

TakeOut ==
  /\ powered
  /\ Mishap
  /\ powered' = FALSE
  /\ UNCHANGED <<count, alerts, gaugeVars, flashOffset, historyVars>>

PutIn ==
  /\ ~powered
  /\ powered' = TRUE
  /\ count' = 0
  /\ alerts' = {Uvlo}
  /\ read' = 0
  /\ UNCHANGED <<gaugeVars, flashOffset, drawn, disturbed, mishaps>>

Alert ==
  /\ powered
  /\ Mishap
  /\ alerts' = Alerts
  /\ UNCHANGED <<powered, count, gaugeVars, flashOffset, historyVars>>

-----------------------------------------------------------------------------
(* LTC::Update()                                                           *)

\* The reads that fail: all of them without power, any on a disturbed bus.
Failing(failed) ==
  /\ failed \subseteq Reads
  /\ ~powered => failed = Reads
  /\ IF powered /\ failed # {} THEN Mishap ELSE UNCHANGED mishaps

\* Reading the status register clears it.
StatusRead(failed) == alerts' = IF "status" \in failed THEN alerts ELSE {}

\* Variant of Counted: an alert does not save the charge.
CountedOnly ==
  /\ charge' = offset + count
  /\ chargeState' = TRUE
  /\ valid' = TRUE
  /\ drawn' = drawn + (count - read)
  /\ read' = count
  /\ disturbed' = (disturbed \/ (alerts # {} /\ read # 0))
  /\ UNCHANGED offset

\* Case 1 and 2: everything has been read.  Any alert passes for the loss of power.
Counted ==
  LET base == IF alerts # {} THEN charge ELSE offset
  IN  /\ offset' = base
      /\ charge' = base + count
      /\ chargeState' = TRUE
      /\ valid' = TRUE
      /\ drawn' = drawn + (count - read)
      /\ read' = count
      /\ disturbed' = (disturbed \/ (alerts # {} /\ read # 0))

\* Case 3 and 4: the first failure after a success passes for the loss of power.
NotCounted ==
  /\ offset' = IF chargeState THEN charge ELSE offset
  /\ chargeState' = FALSE
  /\ valid' = FALSE
  /\ disturbed' = (disturbed \/ (powered /\ chargeState /\ read # 0))
  /\ UNCHANGED <<charge, read, drawn>>

Update(failed) ==
  /\ Failing(failed)
  /\ StatusRead(failed)
  /\ IF failed = {} THEN Counted ELSE NotCounted
  /\ UNCHANGED <<powered, count>>

-----------------------------------------------------------------------------
(* The rest of the node, as far as the offset goes                         *)

\* params.commit(true), which only writing the frame counters leads to.
Commit == flashOffset' = offset'

\* A reset: charge starts from zero, which is what an alert before the first
\* count after it saves.
Restart ==
  /\ Mishap
  /\ charge' = 0 /\ chargeState' = FALSE /\ valid' = FALSE
  /\ offset' = flashOffset
  /\ disturbed' = TRUE
  /\ UNCHANGED <<chipVars, flashOffset, read, drawn>>

Chip == Draw \/ TakeOut \/ PutIn \/ Alert

GaugeNext ==
  \/ Chip
  \/ \E failed \in SUBSET Reads : Update(failed) /\ (Commit \/ UNCHANGED flashOffset)
  \/ Restart

GaugeSpec == GaugeInit /\ [][GaugeNext]_chargeVars

-----------------------------------------------------------------------------
(* As long as nothing has happened that passes for a loss of power without *)
(* being one (an alert of another kind, a read that fails while the chip   *)
(* goes on counting) and the node was not reset, a valid charge is all the *)
(* charge read from the chip, over however many batteries.                 *)
ChargeIsTotal == valid /\ ~disturbed => charge = drawn

(* Whatever happens to the battery and on the bus, the charge the node     *)
(* reports never goes back, but by a reset.                                *)
ChargeNeverFalls == [][charge' >= charge \/ (~chargeState' /\ charge' = 0)]_chargeVars
=============================================================================
