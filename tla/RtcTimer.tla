------------------------------ MODULE RtcTimer ------------------------------
(***************************************************************************)
(* The event table of the SodaqOneDevice node: RTCTimer, the events the    *)
(* firmware keeps in it, and the clock they run by.                        *)
(*                                                                         *)
(* timer.update() reads the clock once and walks over the slots; an event  *)
(* that is due skips the periods gone by and runs its callback.  The       *)
(* callback may send a report, and that takes a while: time goes on, the   *)
(* GPS may set the clock, and an over-the-air configuration may clear and  *)
(* refill the very table being walked over.  The walk then goes on with    *)
(* the time from before.                                                   *)
(*                                                                         *)
(* Times are minutes from an origin far above zero: the RTC starts at the  *)
(* year 2000, and the code's branches for a clock or a last time of zero   *)
(* are never taken.                                                        *)
(***************************************************************************)
EXTENDS Integers

CONSTANTS
  NumSlots,  \* MAX_NUMBER_OF_RTCEVENTS
  Configs,   \* the fix intervals and time spans that may be configured
  Day,       \* minutes of a day
  MaxTime,   \* bound on the clock
  MaxSets    \* bound on how often the GPS sets the clock

Slots == 1..NumSlots
Kinds == {"default", "alternative", "extend"}

\* Room for one event of each kind.
ASSUME SlotsAssumption == NumSlots \in Nat /\ NumSlots >= 3
ASSUME DayAssumption == Day \in Nat \ {0}
ASSUME ConfigsAssumption == Configs \subseteq [def : Nat, alt : Nat, from : Nat, to : Nat]
ASSUME BoundsAssumption == MaxTime \in Nat /\ MaxSets \in Nat

VARIABLES
  pc,         \* where the program is, as far as the timer is concerned
  events,     \* _events: kind, _lastEventTime and _period of each slot
  clock,      \* getNow()
  synced,     \* isRtcInitialized
  cfg,        \* the intervals and the span in params
  gps,        \* params.getIsGpsEnabled()
  loraUp,     \* isLoraInitialized
  now,        \* the time update() has read
  slot,       \* the slot it has come to; 0 outside update()
  sets,       \* how often the clock has been set
  added,      \* history: when the table was filled, in the time of today's clock
  runs,       \* history: how often each slot's event has run since then
  reports,    \* history: fix reports sent by this walk
  spanMoved,  \* history: the alternative span began or ended during this walk
  setBack     \* history: the clock was once set back behind a walk's time

mode == <<gps, loraUp>>
table == <<events, added, runs>>
walk == <<now, slot>>
time == <<clock, synced, sets, setBack>>
vars == <<pc, table, cfg, mode, walk, time, reports, spanMoved>>

Free == [kind |-> "none", last |-> 0, period |-> 0]
Events == [kind : Kinds \cup {"none"}, last : Int, period : Nat]

TypeOK ==
  /\ pc \in {"idle", "scan", "catchup", "report", "loopReport"}
  /\ events \in [Slots -> Events]
  /\ clock \in 0..MaxTime /\ synced \in BOOLEAN
  /\ cfg \in Configs
  /\ gps \in BOOLEAN /\ loraUp \in BOOLEAN
  /\ now \in 0..MaxTime
  /\ slot \in 0..(NumSlots + 1)
  /\ sets \in 0..MaxSets
  /\ added \in Int
  /\ runs \in [Slots -> Nat]
  /\ reports \in Nat
  /\ spanMoved \in BOOLEAN /\ setBack \in BOOLEAN

Active(s) == events[s].kind # "none"

-----------------------------------------------------------------------------
(* The table                                                               *)

FreeSlots(tab) == {s \in Slots : tab[s].kind = "none"}

FindFreeEventIndex(tab) ==
  CHOOSE s \in FreeSlots(tab) : \A other \in FreeSlots(tab) : s <= other

\* every(): take the first free slot, if there is one.
Every(tab, kind, period, t) ==
  IF FreeSlots(tab) = {} THEN tab
  ELSE [tab EXCEPT ![FindFreeEventIndex(tab)] =
          [kind |-> kind, last |-> t, period |-> period]]

\* clearAllEvents()
Cleared(tab) == [s \in Slots |-> [tab[s] EXCEPT !.kind = "none"]]

\* The events that resetRtcTimerEvents() adds.
Refill(tab, c, lora, t) ==
  LET default == Every(tab, "default", c.def, t)
      alternative == IF c.alt > 0 THEN Every(default, "alternative", c.alt, t) ELSE default
  IN  IF lora THEN alternative ELSE Every(alternative, "extend", Day, t)

\* resetRtcTimerEvents()
ResetRtcTimerEvents(c) ==
  /\ events' = Refill(Cleared(events), c, loraUp, clock)
  /\ added' = clock
  /\ runs' = [s \in Slots |-> 0]

\* setup(): initRtcTimer() fills the table; the boot report is on its way.
Init ==
  /\ pc = "report" /\ slot = 0 /\ now = 0
  /\ gps \in BOOLEAN /\ loraUp \in BOOLEAN /\ cfg \in Configs
  /\ clock = 0 /\ synced = FALSE /\ sets = 0
  /\ events = Refill([s \in Slots |-> Free], cfg, loraUp, clock)
  /\ added = 0 /\ runs = [s \in Slots |-> 0]
  /\ reports = 0 /\ spanMoved = FALSE /\ setBack = FALSE

-----------------------------------------------------------------------------
(* The clock                                                               *)

\* isAlternativeFixEventApplicable(), by the clock itself, not by now.
Applicable ==
  /\ synced
  /\ cfg.alt > 0
  /\ cfg.to - cfg.from >= cfg.alt
  /\ clock % Day \in cfg.from..(cfg.to - 1)

NoteSpan == spanMoved' = (spanMoved \/ Applicable' # Applicable)

Tick ==
  /\ clock < MaxTime
  /\ clock' = clock + 1
  /\ UNCHANGED <<pc, table, cfg, mode, walk, synced, sets, setBack, reports>>
  /\ NoteSpan

\* Variant of Adjust: the last event times stay behind.
AdjustNothing(diff) ==
  /\ added' = added + diff
  /\ UNCHANGED <<events, runs>>

\* adjust(): the last event times move along with the clock.
Adjust(diff) ==
  /\ events' = [s \in Slots |->
                  IF Active(s) THEN [events[s] EXCEPT !.last = @ + diff] ELSE events[s]]
  /\ added' = added + diff
  /\ UNCHANGED runs

\* setNow(), called by the GPS delegate while a fix report waits for its fix.
SetNow ==
  /\ pc = "report" /\ gps
  /\ sets < MaxSets
  /\ sets' = sets + 1
  /\ clock' \in 0..MaxTime \ {clock}
  /\ Adjust(clock' - clock)
  /\ synced' = TRUE
  /\ setBack' = (setBack \/ (slot # 0 /\ clock' < now))
  /\ UNCHANGED <<pc, cfg, mode, walk, reports>>
  /\ NoteSpan

-----------------------------------------------------------------------------
(* timer.update()                                                          *)

\* RTCEvent::update()'s test.
Due(s, t) == Active(s) /\ t >= events[s].last + events[s].period

\* The loop has seen minuteFlag.
Update ==
  /\ pc = "idle"
  /\ pc' = "scan"
  /\ now' = clock
  /\ slot' = 1
  /\ reports' = 0
  /\ spanMoved' = FALSE
  /\ UNCHANGED <<table, cfg, mode, time>>

\* Variant of Visit: the walk ends at the first event that is not due.
VisitOrStop ==
  /\ pc = "scan"
  /\ slot <= NumSlots
  /\ IF Due(slot, now)
       THEN pc' = "catchup" /\ UNCHANGED slot
       ELSE slot' = NumSlots + 1 /\ UNCHANGED pc
  /\ UNCHANGED <<table, cfg, mode, now, time, reports, spanMoved>>

Visit ==
  /\ pc = "scan"
  /\ slot <= NumSlots
  /\ IF Due(slot, now)
       THEN pc' = "catchup" /\ UNCHANGED slot
       ELSE slot' = slot + 1 /\ UNCHANGED pc
  /\ UNCHANGED <<table, cfg, mode, now, time, reports, spanMoved>>

\* Variants of CatchUp: a period too many; no progress.
CatchUpTwice ==
  /\ pc = "catchup"
  /\ Due(slot, now)
  /\ events' = [events EXCEPT ![slot].last = @ + 2 * events[slot].period]
  /\ UNCHANGED <<pc, added, runs, cfg, mode, walk, time, reports, spanMoved>>

CatchUpNot ==
  /\ pc = "catchup"
  /\ Due(slot, now)
  /\ UNCHANGED vars

\* Skip one period that is in the past.
CatchUp ==
  /\ pc = "catchup"
  /\ Due(slot, now)
  /\ events' = [events EXCEPT ![slot].last = @ + events[slot].period]
  /\ UNCHANGED <<pc, added, runs, cfg, mode, walk, time, reports, spanMoved>>

\* Variant of SendsReport: the default event does not yield to the alternative.
SendsReportAlways(kind) ==
  kind = "default" \/ (kind = "alternative" /\ Applicable)

\* runDefaultFixEvent() and runAlternativeFixEvent() exclude each other;
\* runLoraModuleSleepExtendEvent() sends nothing.
SendsReport(kind) ==
  \/ kind = "default" /\ ~Applicable
  \/ kind = "alternative" /\ Applicable

RunCallback ==
  /\ pc = "catchup"
  /\ ~Due(slot, now)
  /\ runs' = [runs EXCEPT ![slot] = @ + 1]
  /\ IF SendsReport(events[slot].kind)
       THEN pc' = "report" /\ reports' = reports + 1 /\ UNCHANGED slot
       ELSE pc' = "scan" /\ slot' = slot + 1 /\ UNCHANGED reports
  /\ UNCHANGED <<events, added, cfg, mode, now, time, spanMoved>>

EndWalk ==
  /\ pc = "scan"
  /\ slot > NumSlots
  /\ pc' = "idle"
  /\ slot' = 0
  /\ UNCHANGED <<table, cfg, mode, now, time, reports, spanMoved>>

-----------------------------------------------------------------------------
(* Reports                                                                 *)

\* Variant of ConfigOverTheAir: the table is left as it is.
ConfigOverTheAirOnly ==
  \E c \in Configs :
    /\ cfg' = c
    /\ UNCHANGED table
    /\ NoteSpan

\* updateConfigOverTheAir(): the configuration and the table change together.
ConfigOverTheAir ==
  \E c \in Configs :
    /\ cfg' = c
    /\ ResetRtcTimerEvents(c)
    /\ NoteSpan

\* getDataAndTransmit() returns, to setup() or to the walk.
ReportReturns ==
  /\ pc = "report"
  /\ IF slot = 0 THEN pc' = "idle" /\ UNCHANGED slot
                 ELSE pc' = "scan" /\ slot' = slot + 1
  /\ UNCHANGED <<mode, now, time, reports>>
  /\ ConfigOverTheAir \/ UNCHANGED <<cfg, table, spanMoved>>

\* The loop reports a switch, a movement or the power.
LoopReport ==
  /\ pc = "idle" /\ ~gps
  /\ pc' = "loopReport"
  /\ UNCHANGED <<table, cfg, mode, walk, time, reports, spanMoved>>

\* ... and a switch or move report that went well resets the events.
LoopReportReturns ==
  /\ pc = "loopReport"
  /\ pc' = "idle"
  /\ UNCHANGED <<mode, walk, time, reports>>
  /\ \/ ConfigOverTheAir
     \/ ResetRtcTimerEvents(cfg) /\ UNCHANGED <<cfg, spanMoved>>
     \/ UNCHANGED <<cfg, table, spanMoved>>

-----------------------------------------------------------------------------
Walk == Visit \/ CatchUp \/ RunCallback \/ EndWalk

Next ==
  \/ Walk \/ Update \/ ReportReturns \/ LoopReport \/ LoopReportReturns
  \/ Tick \/ SetNow

Spec == Init /\ [][Next]_vars

\* The processor executes, transmit() returns, and the minute alarm brings the
\* loop to update() again and again.
FairSpec ==
  /\ Spec
  /\ WF_vars(Walk) /\ WF_vars(ReportReturns) /\ WF_vars(LoopReportReturns)
  /\ SF_vars(Update)

-----------------------------------------------------------------------------
(* Properties                                                              *)

\* What the events should be, given the parameters.
WantedEvents ==
  {<<"default", cfg.def>>}
    \cup (IF cfg.alt > 0 THEN {<<"alternative", cfg.alt>>} ELSE {})
    \cup (IF loraUp THEN {} ELSE {<<"extend", Day>>})

\* However often the table is cleared and refilled, in the middle of a walk or
\* not, it holds each event the parameters ask for, once.
TableMatchesConfig ==
  /\ {<<events[s].kind, events[s].period>> : s \in {s \in Slots : Active(s)}} = WantedEvents
  /\ \A s, t \in Slots : Active(s) /\ events[s].kind = events[t].kind => s = t

\* No event believes it ran in the future (it would then stay silent until the
\* clock got there), unless the clock was set back behind the time a walk goes
\* by.
NoLastTimeAhead ==
  \A s \in Slots : Active(s) => events[s].last <= clock \/ setBack

\* An event runs at most once per period since the table was filled, although
\* a late one is caught up on and the clock may be set in between.
NeverTooOften ==
  \A s \in Slots :
    Active(s) => runs[s] * events[s].period <= clock - added \/ setBack

\* One walk sends one fix report at most, unless the alternative span begins or
\* ends while the report is on its way.
OneReportPerUpdate == reports <= 1 \/ spanMoved

\* An event that has come due is run, or scheduled anew.
DueIsServed == \A s \in Slots : Due(s, clock) ~> ~Due(s, clock)

\* "Skip all the events that are in the past": the skipping comes to an end.
SkippingEnds == pc = "catchup" ~> pc # "catchup"
=============================================================================
