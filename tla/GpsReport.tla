----------------------------- MODULE GpsReport -----------------------------
(***************************************************************************)
(* The GPS report of the SodaqOneDevice node: getGpsFixAndTransmit() waits *)
(* for a fix, the delegate of the u-blox parser sets the clock and fills   *)
(* the report meanwhile, the fix goes into the ring of fixes, and          *)
(* updateGpsSendBuffer() puts the report and earlier fixes together.       *)
(*                                                                         *)
(* The position of the n-th fix is n.  Times are taken modulo ClockMod, as *)
(* the code takes them modulo 2^32.  A cell of the send buffer stands for  *)
(* a field, or for all position or all navigation fields of a record.      *)
(***************************************************************************)
EXTENDS FixRing, Sequences

CONSTANTS
  ClockMod,     \* 2^32
  GpsTimeout,   \* params.getGpsFixTimeout()
  NoTimeToFix,  \* 0xFF: the time to fix of a report without one
  MaxOffset,    \* MAX_RTC_EPOCH_OFFSET
  UploadCounts, \* what params.getCoordinateUploadCount() may be
  MaxFixes,     \* bound on the fixes
  MaxReports,   \* bound on the reports
  Garbage       \* a position that is read outside the ring

ASSUME TimesAssumption ==
  /\ ClockMod \in Nat /\ GpsTimeout \in Nat /\ MaxOffset \in Nat
  /\ GpsTimeout + 1 < ClockMod
  /\ NoTimeToFix \in Nat /\ NoTimeToFix > GpsTimeout + 1
ASSUME CountsAssumption == UploadCounts \subseteq 1..Size
ASSUME BoundsAssumption == MaxReports \in Nat /\ MaxFixes \in Nat
ASSUME PositionsAssumption == Fixes = 1..MaxFixes /\ NoFix = 0 /\ Garbage \notin Nat

VARIABLES
  pc,
  clock,          \* getNow()
  startTime,
  pending,        \* pendingReportDataRecord: position, navigation, time to fix
  isNew,          \* isPendingReportDataRecordNew, and isSuccessful after the loop
  funcNavPvt,     \* ublox.funcNavPvt is set
  uploadCount,    \* params.getCoordinateUploadCount()
  sendBuffer, sendBufferSize,
  reports,        \* how many reports there have been
  fixes,          \* history: how many fixes the receiver has delivered
  before,         \* history: how many of them when the acquisition began
  elapsed         \* history: time since the acquisition began

times == <<clock, startTime, elapsed>>
buffer == <<sendBuffer, sendBufferSize>>
vars == <<pc, ring, times, pending, isNew, funcNavPvt, uploadCount, buffer,
          reports, fixes, before>>

Since(t) == (clock - t) % ClockMod

\* The layout of the buffer.  The time to fix is the last field of the report;
\* a fix record is the age of the fix and its position.
OwnCells == 4
FixCells == 2
BufferCells == OwnCells + FixCells * (Size - 1)
Cell(kind, val) == [kind |-> kind, val |-> val]

Init ==
  /\ RingInit
  /\ pc = "idle"
  /\ clock = 0 /\ startTime = 0 /\ elapsed = 0
  /\ pending = [pos |-> NoFix, nav |-> NoFix, timeToFix |-> 0]
  /\ isNew = FALSE /\ funcNavPvt = FALSE
  /\ uploadCount \in UploadCounts
  /\ sendBuffer = [i \in 1..BufferCells |-> Cell("none", 0)] /\ sendBufferSize = 0
  /\ reports = 0 /\ fixes = 0 /\ before = 0

-----------------------------------------------------------------------------
(* The receiver and the delegate                                           *)

Abs(i) == IF i < 0 THEN -i ELSE i

\* delegateNavPvt() sets the clock if the time received is valid and far off.
SyncClock ==
  \/ UNCHANGED clock
  \/ \E epoch \in 0..(ClockMod - 1) :
       clock' = IF Abs(clock - epoch) > MaxOffset THEN epoch ELSE clock

\* Variant of FillReport: the position is left to a later message.
FillNavigation ==
  \/ UNCHANGED <<fixes, pending, isNew>>
  \/ /\ fixes < MaxFixes /\ fixes' = fixes + 1
     /\ pending' = [pending EXCEPT !.nav = fixes']
     /\ isNew' = TRUE

\* It fills the report if there is a fix.
FillReport ==
  \/ UNCHANGED <<fixes, pending, isNew>>
  \/ /\ fixes < MaxFixes /\ fixes' = fixes + 1
     /\ pending' = [pending EXCEPT !.pos = fixes', !.nav = fixes']
     /\ isNew' = TRUE

\* Time goes on, while nothing is to do and while a fix is waited for.
Tick ==
  /\ \/ pc = "idle" /\ reports < MaxReports /\ UNCHANGED elapsed
     \/ pc = "acquire" /\ Since(startTime) <= GpsTimeout /\ elapsed' = elapsed + 1
  /\ clock' = (clock + 1) % ClockMod
  /\ UNCHANGED <<pc, ring, startTime, pending, isNew, funcNavPvt, uploadCount,
                 buffer, reports, fixes, before>>

\* setGpsActive(true) and the start of the loop.  If the receiver answers, the
\* delegate is set; a message may come in before the answer, and reaches the
\* delegate if an earlier acquisition has set it.
Start ==
  /\ pc = "idle" /\ reports < MaxReports
  /\ pc' = "acquire"
  /\ reports' = reports + 1
  /\ IF funcNavPvt THEN SyncClock /\ FillReport
                   ELSE UNCHANGED <<clock, fixes, pending, isNew>>
  /\ funcNavPvt' \in {funcNavPvt, TRUE}
  /\ startTime' = clock' /\ elapsed' = 0 /\ before' = fixes'
  /\ UNCHANGED <<ring, uploadCount, buffer>>

\* Variant of GetPeriodic: the start time stays where it was.
GetPeriodicOnly ==
  /\ pc = "acquire" /\ funcNavPvt
  /\ SyncClock /\ FillReport /\ UNCHANGED startTime
  /\ pc' = IF fixes' > fixes THEN "report" ELSE "acquire"
  /\ UNCHANGED <<ring, elapsed, funcNavPvt, uploadCount, buffer, reports, before>>

\* A turn of the loop with a NAV-PVT message in it.  The start time follows the
\* clock (rtcEpochDelta).  The limit may pass after the loop has looked at it.
GetPeriodic ==
  /\ pc = "acquire" /\ funcNavPvt
  /\ SyncClock /\ FillReport
  /\ startTime' = (startTime + clock' - clock) % ClockMod
  /\ pc' = IF fixes' > fixes THEN "report" ELSE "acquire"
  /\ UNCHANGED <<ring, elapsed, funcNavPvt, uploadCount, buffer, reports, before>>

\* Variant of GiveUp: the limit is looked at when a message comes in.
GiveUpOnMessage ==
  /\ pc = "acquire" /\ Since(startTime) > GpsTimeout /\ funcNavPvt
  /\ pc' = "report"
  /\ isNew' = FALSE
  /\ UNCHANGED <<ring, times, pending, funcNavPvt, uploadCount, buffer, reports,
                 fixes, before>>

GiveUp ==
  /\ pc = "acquire" /\ Since(startTime) > GpsTimeout
  /\ pc' = "report"
  /\ isNew' = FALSE
  /\ UNCHANGED <<ring, times, pending, funcNavPvt, uploadCount, buffer, reports,
                 fixes, before>>

-----------------------------------------------------------------------------
(* The report                                                              *)

\* Without a fix the report has the position of the latest one, if there is one.
FillRest ==
  /\ IF isNew THEN RingPush(pending.pos) ELSE UNCHANGED ring
  /\ pending' = [pending EXCEPT
       !.timeToFix = IF isNew THEN Since(startTime) % (NoTimeToFix + 1) ELSE NoTimeToFix,
       !.pos = IF isNew THEN @ ELSE IF CanPeek(0) THEN data[PeekIndex(0)] ELSE NoFix]

\* What a peek gives.  Outside the ring that may be anything.
Peeked(offset) ==
  IF ~CanPeek(offset) THEN {NoFix}
  ELSE IF PeekIndex(offset) \in Slots THEN {data[PeekIndex(offset)]}
  ELSE {NoFix, Garbage}

\* The records that follow the report: those that the peeks after the first
\* give, up to one that there is not or that is not valid.
Earlier ==
  {s \in UNION {[1..n -> Fixes \cup {Garbage}] : n \in 0..(uploadCount - 1)} :
     /\ \A i \in DOMAIN s : s[i] \in Peeked(i)
     /\ Len(s) < uploadCount - 1 => NoFix \in Peeked(Len(s) + 1)}

Own == <<Cell("time", 0), Cell("pos", pending.pos), Cell("nav", pending.nav),
         Cell("ttf", pending.timeToFix)>>
FixCell(s, i) ==
  IF i % FixCells = 0 THEN Cell("age", 0) ELSE Cell("pos", s[1 + i \div FixCells])

\* The buffer once the records s are copied to it from its cell at on.
CopiedTo(at, s) ==
  [i \in 1..BufferCells |->
     IF at <= i /\ i < at + FixCells * Len(s) THEN FixCell(s, i - at)
     ELSE IF i <= OwnCells THEN Own[i] ELSE sendBuffer[i]]

\* Variant of Copied: two before the end.
CopiedEarlier(s) == CopiedTo(OwnCells - 1, s)

\* Each of them is copied to sendBufferSize - 1: the first over the time to fix,
\* and what is sent ends with a cell of an earlier report.
Copied(s) == CopiedTo(OwnCells, s)

FillReportRecord ==
  /\ pc = "report" /\ pc' = "copy"
  /\ FillRest
  /\ UNCHANGED <<times, isNew, funcNavPvt, uploadCount, buffer, reports, fixes, before>>

\* updateGpsSendBuffer()
UpdateGpsSendBuffer ==
  /\ pc = "copy" /\ pc' = "transmit"
  /\ \E s \in Earlier :
       /\ sendBuffer' = Copied(s)
       /\ sendBufferSize' = OwnCells + FixCells * Len(s)
  /\ UNCHANGED <<ring, times, pending, isNew, funcNavPvt, uploadCount, reports,
                 fixes, before>>

\* transmit() is over, and the main loop goes on.
Transmitted ==
  /\ pc = "transmit" /\ pc' = "idle"
  /\ UNCHANGED <<ring, times, pending, isNew, funcNavPvt, uploadCount, buffer,
                 reports, fixes, before>>

Next ==
  \/ Tick \/ Start \/ GetPeriodic \/ GiveUp
  \/ FillReportRecord \/ UpdateGpsSendBuffer \/ Transmitted

Spec == Init /\ [][Next]_vars

\* Time goes on and the processor executes; the receiver need not send anything.
FairSpec ==
  Spec /\ WF_vars(Tick) /\ WF_vars(GiveUp \/ FillReportRecord \/ UpdateGpsSendBuffer \/ Transmitted)

-----------------------------------------------------------------------------
(* Properties                                                              *)

TypeOK ==
  /\ RingTypeOK
  /\ pc \in {"idle", "acquire", "report", "copy", "transmit"}
  /\ clock \in 0..(ClockMod - 1) /\ startTime \in 0..(ClockMod - 1)
  /\ elapsed \in 0..(GpsTimeout + 1)
  /\ pending.pos \in {NoFix} \cup Fixes /\ pending.nav \in {NoFix} \cup Fixes
  /\ pending.timeToFix \in 0..NoTimeToFix
  /\ isNew \in BOOLEAN /\ funcNavPvt \in BOOLEAN
  /\ uploadCount \in UploadCounts
  /\ sendBufferSize \in 0..BufferCells
  /\ fixes \in 0..MaxFixes /\ before \in 0..fixes /\ reports \in 0..MaxReports

\* What is sent, as its receiver takes it apart: the cells that are positions.
PositionCells == {c \in 1..sendBufferSize : sendBuffer[c].kind = "pos"}

\* The report's fields arrive, and the positions sent are as many of the latest
\* fixes as were asked for, latest first, unless the ring has been filled up
\* (then peek() reads outside of it).
PositionsSent ==
  pc = "transmit" =>
    /\ sendBuffer[1].kind = "time"
    /\ sendBuffer[2].val = pending.pos /\ sendBuffer[3].val = pending.nav
    /\ validItemCount \in 1..(Size - 1) =>
         LET n == IF validItemCount > uploadCount THEN uploadCount ELSE validItemCount
         IN  \E at \in [1..n -> PositionCells] :
               /\ \A i, j \in 1..n : i < j => at[i] < at[j]
               /\ \A c \in PositionCells : \E i \in 1..n : at[i] = c
               /\ \A i \in 1..n : sendBuffer[at[i]].val = Kept[i - 1]

\* A report with a time to fix is of a fix of its own acquisition, and the
\* navigation fields are of the same fix as the position.
FixIsOfThisReport ==
  pc \in {"copy", "transmit"} /\ pending.timeToFix # NoTimeToFix =>
    /\ pending.pos > before
    /\ pending.nav = pending.pos

\* The time to fix is the time that has passed, however often the receiver has
\* set the clock meanwhile.
TimeToFixIsElapsed ==
  pc \in {"copy", "transmit"} /\ pending.timeToFix # NoTimeToFix =>
    pending.timeToFix = elapsed

\* Whatever the receiver sends, or if it sends nothing: the node comes back to
\* the main loop.
AcquisitionEnds == pc = "acquire" ~> pc = "idle"

=============================================================================
