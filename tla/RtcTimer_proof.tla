--------------------------- MODULE RtcTimer_proof ---------------------------
(***************************************************************************)
(* Proofs about RtcTimer.  The arguments rest on two facts: what a refill  *)
(* puts where (Layout), and how the last time of an event relates to the   *)
(* clock, to the walk's time and to the number of its runs.                *)
(***************************************************************************)
EXTENDS RtcTimer, TLAPS

-----------------------------------------------------------------------------
(* The table                                                               *)

\* every() keeps the table a table.
LEMMA EveryType ==
  ASSUME NEW tab \in [Slots -> Events], NEW kind \in Kinds, NEW period \in Nat, NEW t \in Int
  PROVE  Every(tab, kind, period, t) \in [Slots -> Events]
BY DEF Every, Events

\* The first slot after the ones taken is the free one with the least index.
LEMMA FirstFree ==
  ASSUME NEW tab, NEW k \in Slots, \A s \in Slots : tab[s].kind = "none" <=> s >= k
  PROVE  k \in FreeSlots(tab) /\ FindFreeEventIndex(tab) = k
<1>1. k \in FreeSlots(tab) /\ \A other \in FreeSlots(tab) : k <= other
  BY SlotsAssumption DEF FreeSlots, Slots
<1>2. ASSUME NEW s \in FreeSlots(tab), \A other \in FreeSlots(tab) : s <= other
      PROVE  s = k
  BY <1>1, <1>2, SlotsAssumption DEF FreeSlots, Slots
<1>3. QED BY <1>1, <1>2 DEF FindFreeEventIndex

\* What resetRtcTimerEvents() puts into a slot.
KindAt(c, lora, s) ==
  IF s = 1 THEN "default"
  ELSE IF s = 2 /\ c.alt > 0 THEN "alternative"
  ELSE IF ~lora /\ s = (IF c.alt > 0 THEN 3 ELSE 2) THEN "extend"
  ELSE "none"

PeriodOf(c, kind) ==
  IF kind = "default" THEN c.def ELSE IF kind = "alternative" THEN c.alt ELSE Day

Layout(tab, c, lora) ==
  \A s \in Slots :
    /\ tab[s].kind = KindAt(c, lora, s)
    /\ tab[s].kind # "none" => tab[s].period = PeriodOf(c, tab[s].kind)

\* A refilled table is laid out that way, and its events start now.
LEMMA RefillLayout ==
  ASSUME NEW tab \in [Slots -> Events], \A s \in Slots : tab[s].kind = "none",
         NEW c \in Configs, NEW lora \in BOOLEAN, NEW t \in Int
  PROVE  /\ Refill(tab, c, lora, t) \in [Slots -> Events]
         /\ Layout(Refill(tab, c, lora, t), c, lora)
         /\ \A s \in Slots : Refill(tab, c, lora, t)[s].kind # "none" =>
                              Refill(tab, c, lora, t)[s].last = t
<1> DEFINE one == Every(tab, "default", c.def, t)
           two == IF c.alt > 0 THEN Every(one, "alternative", c.alt, t) ELSE one
           k == IF c.alt > 0 THEN 3 ELSE 2
           three == IF lora THEN two ELSE Every(two, "extend", Day, t)
<1>1. /\ c.def \in Nat /\ c.alt \in Nat /\ Day \in Nat
      /\ 1 \in Slots /\ 2 \in Slots /\ 3 \in Slots /\ k \in Slots
      /\ Slots \subseteq Nat \ {0}
      /\ {"default", "alternative", "extend"} = Kinds
  BY ConfigsAssumption, DayAssumption, SlotsAssumption DEF Slots, Kinds
<1>2. /\ one \in [Slots -> Events]
      /\ one = [tab EXCEPT ![1] = [kind |-> "default", last |-> t, period |-> c.def]]
  <2>1. \A s \in Slots : tab[s].kind = "none" <=> s >= 1
    BY <1>1
  <2>2. one = [tab EXCEPT ![1] = [kind |-> "default", last |-> t, period |-> c.def]]
    <3>1. 1 \in FreeSlots(tab) /\ FindFreeEventIndex(tab) = 1
      BY <1>1, <2>1, FirstFree
    <3>2. QED BY <3>1 DEF Every
  <2>3. one \in [Slots -> Events]
    BY <1>1, EveryType
  <2>4. QED BY <2>2, <2>3
<1>3. /\ two \in [Slots -> Events]
      /\ two = IF c.alt > 0
                 THEN [one EXCEPT ![2] = [kind |-> "alternative", last |-> t, period |-> c.alt]]
                 ELSE one
  <2>1. \A s \in Slots : one[s].kind = "none" <=> s >= 2
    BY <1>1, <1>2
  <2>2. CASE c.alt > 0
    <3>1. Every(one, "alternative", c.alt, t) =
            [one EXCEPT ![2] = [kind |-> "alternative", last |-> t, period |-> c.alt]]
      <4>1. 2 \in FreeSlots(one) /\ FindFreeEventIndex(one) = 2
        BY <1>1, <2>1, FirstFree
      <4>2. QED BY <4>1 DEF Every
    <3>2. Every(one, "alternative", c.alt, t) \in [Slots -> Events]
      BY <1>1, <1>2, EveryType
    <3>3. QED BY <2>2, <3>1, <3>2
  <2>3. CASE ~(c.alt > 0)
    BY <1>2, <2>3
  <2>4. QED BY <2>2, <2>3
<1>4. /\ three \in [Slots -> Events]
      /\ three = IF lora THEN two
                   ELSE [two EXCEPT ![k] = [kind |-> "extend", last |-> t, period |-> Day]]
  <2>1. \A s \in Slots : two[s].kind = "none" <=> s >= k
    BY <1>1, <1>2, <1>3
  <2>2. CASE ~lora
    <3>1. Every(two, "extend", Day, t) =
            [two EXCEPT ![k] = [kind |-> "extend", last |-> t, period |-> Day]]
      <4>1. k \in FreeSlots(two) /\ FindFreeEventIndex(two) = k
        <5> HIDE DEF k, two
        <5>1. QED BY <1>1, <2>1, FirstFree
      <4>2. QED BY <4>1 DEF Every
    <3>2. Every(two, "extend", Day, t) \in [Slots -> Events]
      BY <1>1, <1>3, EveryType
    <3>3. QED BY <2>2, <3>1, <3>2
  <2>3. CASE lora
    BY <1>3, <2>3
  <2>4. QED BY <2>2, <2>3
<1>5. Refill(tab, c, lora, t) = three
  BY DEF Refill
<1>6. Layout(three, c, lora)
  BY <1>1, <1>2, <1>3, <1>4 DEF Layout, KindAt, PeriodOf
<1>7. \A s \in Slots : three[s].kind # "none" => three[s].last = t
  BY <1>1, <1>2, <1>3, <1>4
<1>8. QED BY <1>4, <1>5, <1>6, <1>7

-----------------------------------------------------------------------------
(* Types, and the layout of the table                                      *)

\* Where the walk's slot can be.
SlotPlaced ==
  /\ pc \in {"idle", "loopReport"} => slot = 0
  /\ pc = "scan" => slot # 0
  /\ pc = "report" => slot <= NumSlots
  /\ pc = "catchup" => slot \in Slots

LayoutInv == Layout(events, cfg, loraUp)

TypeInv == TypeOK /\ SlotPlaced /\ LayoutInv

\* The table as resetRtcTimerEvents() leaves it.
LEMMA ResetTable ==
  ASSUME TypeOK, NEW c \in Configs, ResetRtcTimerEvents(c)
  PROVE  /\ events' \in [Slots -> Events] /\ Layout(events', c, loraUp)
         /\ \A s \in Slots : events'[s].kind # "none" => events'[s].last = clock
         /\ added' = clock /\ runs' = [s \in Slots |-> 0]
<1> DEFINE old == Cleared(events)
<1>1. old \in [Slots -> Events] /\ \A s \in Slots : old[s].kind = "none"
  BY DEF TypeOK, Cleared, Events
<1>2. clock \in Int /\ loraUp \in BOOLEAN
  BY BoundsAssumption DEF TypeOK
<1>3. events' = Refill(old, c, loraUp, clock)
  BY DEF ResetRtcTimerEvents
<1> HIDE DEF old
<1>4. QED BY <1>1, <1>2, <1>3, RefillLayout DEF ResetRtcTimerEvents

\* A report returns with the table as it was, or refilled for the parameters
\* that hold from then on.
LEMMA Returned ==
  ASSUME TypeOK, ReportReturns \/ LoopReportReturns
  PROVE  \/ UNCHANGED <<cfg, table, spanMoved>>
         \/ /\ cfg' \in Configs /\ ResetRtcTimerEvents(cfg')
            /\ NoteSpan \/ UNCHANGED <<cfg, spanMoved>>
BY DEF ReportReturns, LoopReportReturns, ConfigOverTheAir, TypeOK

LEMMA InitType == Init => TypeInv
<1> SUFFICES ASSUME Init PROVE TypeInv
  OBVIOUS
<1> DEFINE empty == [s \in Slots |-> Free]
<1>1. empty \in [Slots -> Events] /\ \A s \in Slots : empty[s].kind = "none"
  BY DEF Free, Events
<1>2. events = Refill(empty, cfg, loraUp, 0) /\ cfg \in Configs /\ loraUp \in BOOLEAN
  BY DEF Init
<1> HIDE DEF empty
<1>3. events \in [Slots -> Events] /\ Layout(events, cfg, loraUp)
  BY <1>1, <1>2, RefillLayout
<1>4. TypeOK /\ SlotPlaced
  <2>1. /\ pc = "report" /\ slot = 0 /\ now = 0 /\ clock = 0 /\ sets = 0 /\ added = 0
        /\ reports = 0 /\ runs = [s \in Slots |-> 0] /\ cfg \in Configs
    BY DEF Init
  <2>2. gps \in BOOLEAN /\ loraUp \in BOOLEAN /\ synced \in BOOLEAN
        /\ spanMoved \in BOOLEAN /\ setBack \in BOOLEAN
    BY DEF Init
  <2>3. QED
    BY <1>3, <2>1, <2>2, SlotsAssumption, BoundsAssumption DEF TypeOK, SlotPlaced
<1>5. QED BY <1>3, <1>4 DEF TypeInv, LayoutInv

LEMMA NextType == TypeInv /\ [Next]_vars => TypeInv'
<1> SUFFICES ASSUME TypeInv, [Next]_vars PROVE TypeInv'
  OBVIOUS
<1> USE SlotsAssumption, BoundsAssumption
<1>1. ASSUME ReportReturns \/ LoopReportReturns PROVE TypeInv'
  <2>1. /\ cfg' \in Configs /\ events' \in [Slots -> Events]
        /\ added' \in Int /\ runs' \in [Slots -> Nat]
        /\ Layout(events', cfg', loraUp')
    <3>1. CASE UNCHANGED <<cfg, table, spanMoved>>
      BY <1>1, <3>1 DEF TypeInv, TypeOK, LayoutInv, table, mode, ReportReturns, LoopReportReturns
    <3>2. CASE cfg' \in Configs /\ ResetRtcTimerEvents(cfg')
      <4>1. loraUp' = loraUp /\ clock \in Int
        BY <1>1 DEF TypeInv, TypeOK, mode, ReportReturns, LoopReportReturns
      <4>2. QED BY <3>2, <4>1, ResetTable DEF TypeInv
    <3>3. QED BY <1>1, <3>1, <3>2, Returned DEF TypeInv
  <2>2. spanMoved' \in BOOLEAN
    BY <1>1, Returned DEF TypeInv, TypeOK, NoteSpan
  <2>3. pc' \in {"idle", "scan"} /\ slot' \in 0..(NumSlots + 1) /\ SlotPlaced'
    BY <1>1 DEF TypeInv, TypeOK, SlotPlaced, walk, Slots, ReportReturns, LoopReportReturns
  <2>4. UNCHANGED <<mode, now, time, reports>>
    BY <1>1 DEF walk, ReportReturns, LoopReportReturns
  <2>5. QED BY <2>1, <2>2, <2>3, <2>4 DEF TypeInv, TypeOK, LayoutInv, mode, time
<1>2. CASE SetNow
  <2>1. /\ events' \in [Slots -> Events] /\ added' \in Int
        /\ \A s \in Slots : /\ events'[s].kind = events[s].kind
                            /\ events'[s].period = events[s].period
    BY <1>2 DEF SetNow, Adjust, TypeInv, TypeOK, Events
  <2>2. LayoutInv'
    BY <1>2, <2>1 DEF TypeInv, LayoutInv, Layout, SetNow, mode
  <2>3. QED
    BY <1>2, <2>1, <2>2 DEF SetNow, Adjust, NoteSpan, TypeInv, TypeOK, SlotPlaced, mode, walk
<1>3. CASE CatchUp
  <2>1. slot \in Slots /\ events[slot] \in Events
    BY <1>3 DEF CatchUp, TypeInv, TypeOK, SlotPlaced
  <2>2. /\ events' \in [Slots -> Events]
        /\ \A s \in Slots : /\ events'[s].kind = events[s].kind
                            /\ events'[s].period = events[s].period
    BY <1>3, <2>1 DEF CatchUp, TypeInv, TypeOK, Events
  <2>3. LayoutInv'
    BY <1>3, <2>2 DEF TypeInv, LayoutInv, Layout, CatchUp, mode
  <2>4. QED
    BY <1>3, <2>2, <2>3 DEF CatchUp, TypeInv, TypeOK, SlotPlaced, mode, walk, time
<1>4. CASE Tick
  BY <1>4 DEF Tick, NoteSpan, TypeInv, TypeOK, SlotPlaced, LayoutInv, table, mode, walk
<1>5. CASE Update
  <2>1. LayoutInv'
    BY <1>5 DEF Update, TypeInv, LayoutInv, table, mode
  <2>2. spanMoved' \in BOOLEAN
    BY <1>5 DEF Update
  <2>3. QED
    BY <1>5, <2>1, <2>2 DEF Update, TypeInv, TypeOK, SlotPlaced, table, mode, time
<1>6. CASE Visit
  BY <1>6 DEF Visit, TypeInv, TypeOK, SlotPlaced, Slots, LayoutInv, table, mode, time
<1>7. CASE RunCallback
  BY <1>7 DEF RunCallback, TypeInv, TypeOK, SlotPlaced, Slots, LayoutInv, mode, time
<1>8. CASE EndWalk \/ LoopReport
  BY <1>8 DEF EndWalk, LoopReport, TypeInv, TypeOK, SlotPlaced, LayoutInv, table, mode, walk, time
<1>9. CASE UNCHANGED vars
  BY <1>9 DEF vars, TypeInv, TypeOK, SlotPlaced, LayoutInv, table, mode, walk, time
<1>10. QED
  BY <1>1, <1>2, <1>3, <1>4, <1>5, <1>6, <1>7, <1>8, <1>9 DEF Next, Walk

\* Every variable of the timer keeps its type; the walk never leaves the table
\* by more than the step that ends it.
THEOREM TypeCorrect == Spec => []TypeOK
<1>1. Spec => []TypeInv
  BY InitType, NextType, PTL DEF Spec
<1>2. QED BY <1>1, PTL DEF TypeInv

\* The table holds the events the parameters ask for, each once: a refill in
\* the middle of a walk neither doubles an event nor fills the table up.
THEOREM TableKept == Spec => []TableMatchesConfig
<1>1. Spec => []TypeInv
  BY InitType, NextType, PTL DEF Spec
<1>2. ASSUME TypeInv PROVE TableMatchesConfig
  <2>1. /\ 1 \in Slots /\ 2 \in Slots /\ 3 \in Slots /\ Slots \subseteq Nat
        /\ cfg.alt \in Nat /\ loraUp \in BOOLEAN
    BY <1>2, SlotsAssumption, ConfigsAssumption DEF TypeInv, TypeOK, Slots
  <2>2. ASSUME NEW s \in Slots
        PROVE  /\ events[s].kind = KindAt(cfg, loraUp, s)
               /\ Active(s) => events[s].period = PeriodOf(cfg, events[s].kind)
    BY <1>2 DEF TypeInv, LayoutInv, Layout, Active
  <2>3. ASSUME NEW s \in Slots, NEW t \in Slots, Active(s), events[s].kind = events[t].kind
        PROVE  s = t
    <3>1. KindAt(cfg, loraUp, s) = KindAt(cfg, loraUp, t) /\ KindAt(cfg, loraUp, s) # "none"
      BY <2>2, <2>3 DEF Active
    <3>2. s \in Nat /\ t \in Nat
      BY <2>1
    <3>3. QED BY <2>1, <3>1, <3>2 DEF KindAt
  <2> DEFINE held == {<<events[s].kind, events[s].period>> : s \in {s \in Slots : Active(s)}}
  <2>4. ASSUME NEW e \in held PROVE e \in WantedEvents
    <3>1. PICK s \in Slots : Active(s) /\ e = <<events[s].kind, events[s].period>>
      BY <2>4
    <3>2. /\ KindAt(cfg, loraUp, s) # "none"
          /\ e = <<KindAt(cfg, loraUp, s), PeriodOf(cfg, KindAt(cfg, loraUp, s))>>
      BY <3>1, <2>2 DEF Active
    <3>3. \/ KindAt(cfg, loraUp, s) = "default"
          \/ KindAt(cfg, loraUp, s) = "alternative" /\ cfg.alt > 0
          \/ KindAt(cfg, loraUp, s) = "extend" /\ ~loraUp
      BY <3>2, <2>1 DEF KindAt
    <3>4. QED BY <3>2, <3>3 DEF PeriodOf, WantedEvents
  <2>5. ASSUME NEW s \in Slots, NEW kind, KindAt(cfg, loraUp, s) = kind, kind # "none"
        PROVE  <<kind, PeriodOf(cfg, kind)>> \in held
    <3>1. events[s].kind = kind /\ Active(s)
      BY <2>2, <2>5 DEF Active
    <3>2. events[s].period = PeriodOf(cfg, kind)
      BY <2>2, <3>1
    <3>3. QED BY <3>1, <3>2
  <2>6. ASSUME NEW e \in WantedEvents PROVE e \in held
    <3> HIDE DEF held
    <3>1. CASE e = <<"default", cfg.def>>
      <4>1. KindAt(cfg, loraUp, 1) = "default" /\ PeriodOf(cfg, "default") = cfg.def
        BY DEF KindAt, PeriodOf
      <4>2. QED BY <2>1, <2>5, <3>1, <4>1
    <3>2. CASE cfg.alt > 0 /\ e = <<"alternative", cfg.alt>>
      <4>1. KindAt(cfg, loraUp, 2) = "alternative" /\ PeriodOf(cfg, "alternative") = cfg.alt
        BY <3>2 DEF KindAt, PeriodOf
      <4>2. QED BY <2>1, <2>5, <3>2, <4>1
    <3>3. CASE ~loraUp /\ e = <<"extend", Day>>
      <4>1. PICK k \in Slots : KindAt(cfg, loraUp, k) = "extend"
        <5>1. CASE cfg.alt > 0
          <6>1. KindAt(cfg, loraUp, 3) = "extend"
            BY <3>3, <5>1 DEF KindAt
          <6>2. QED BY <2>1, <6>1
        <5>2. CASE ~(cfg.alt > 0)
          <6>1. KindAt(cfg, loraUp, 2) = "extend"
            BY <3>3, <5>2 DEF KindAt
          <6>2. QED BY <2>1, <6>1
        <5>3. QED BY <5>1, <5>2
      <4>2. PeriodOf(cfg, "extend") = Day
        BY DEF PeriodOf
      <4>3. QED BY <2>5, <3>3, <4>1, <4>2
    <3>4. \/ e = <<"default", cfg.def>>
          \/ cfg.alt > 0 /\ e = <<"alternative", cfg.alt>>
          \/ ~loraUp /\ e = <<"extend", Day>>
      BY <2>6 DEF WantedEvents
    <3>5. QED BY <3>1, <3>2, <3>3, <3>4
  <2>7. held = WantedEvents
    <3> HIDE DEF held
    <3>1. QED BY <2>4, <2>6
  <2>8. QED BY <2>3, <2>7 DEF TableMatchesConfig
<1>3. QED BY <1>1, <1>2, PTL

-----------------------------------------------------------------------------
(* Last times and the clock                                                *)

\* The time a walk goes by, and the last times, are behind the clock.
TimeInv ==
  /\ slot # 0 => now <= clock \/ setBack
  /\ \A s \in Slots : Active(s) => events[s].last <= clock \/ setBack

\* What a returning report does to the table, without its details.
LEMMA ReturnedTable ==
  ASSUME TypeOK, ReportReturns \/ LoopReportReturns
  PROVE  /\ UNCHANGED <<mode, now, time, reports>>
         /\ \/ UNCHANGED table
            \/ /\ \A s \in Slots : Active(s)' => events'[s].last = clock
               /\ added' = clock /\ runs' = [s \in Slots |-> 0]
<1>1. UNCHANGED <<mode, now, time, reports>>
  BY DEF ReportReturns, LoopReportReturns, walk
<1>2. CASE UNCHANGED <<cfg, table, spanMoved>>
  BY <1>1, <1>2
<1>3. CASE cfg' \in Configs /\ ResetRtcTimerEvents(cfg')
  BY <1>1, <1>3, ResetTable DEF Active
<1>4. QED BY <1>2, <1>3, Returned

\* A clock set moves every last time by as much as the clock.
LEMMA Adjusted ==
  ASSUME TypeOK, SetNow
  PROVE  /\ clock' \in Int /\ clock \in Int
         /\ \A s \in Slots : /\ Active(s)' = Active(s)
                             /\ events'[s].period = events[s].period
                             /\ Active(s) => events'[s].last = events[s].last + (clock' - clock)
         /\ added' = added + (clock' - clock) /\ runs' = runs
<1>1. clock' \in Int /\ clock \in Int /\ events \in [Slots -> Events]
  BY BoundsAssumption DEF TypeOK, SetNow
<1>2. /\ events' = [s \in Slots |->
                     IF Active(s) THEN [events[s] EXCEPT !.last = @ + (clock' - clock)]
                                  ELSE events[s]]
      /\ added' = added + (clock' - clock) /\ runs' = runs
  BY DEF SetNow, Adjust
<1>3. ASSUME NEW s \in Slots
      PROVE  /\ events'[s].kind = events[s].kind /\ events'[s].period = events[s].period
             /\ Active(s) => events'[s].last = events[s].last + (clock' - clock)
  BY <1>1, <1>2 DEF Events
<1>4. QED BY <1>1, <1>2, <1>3 DEF Active

\* A period is skipped in the slot at hand only.
LEMMA Skipped ==
  ASSUME TypeInv, CatchUp
  PROVE  /\ slot \in Slots /\ Active(slot)
         /\ events[slot].last \in Int /\ events[slot].period \in Nat
         /\ events[slot].last + events[slot].period <= now
         /\ events'[slot].last = events[slot].last + events[slot].period
         /\ \A s \in Slots : /\ Active(s)' = Active(s)
                             /\ events'[s].period = events[s].period
                             /\ s # slot => events'[s].last = events[s].last
<1>1. /\ slot \in Slots /\ events \in [Slots -> Events] /\ now \in Int
      /\ Due(slot, now)
      /\ events' = [events EXCEPT ![slot].last = @ + events[slot].period]
  BY BoundsAssumption DEF CatchUp, TypeInv, TypeOK, SlotPlaced
<1>2. events[slot].last \in Int /\ events[slot].period \in Nat
  BY <1>1 DEF Events
<1>3. Active(slot) /\ events[slot].last + events[slot].period <= now
  BY <1>1, <1>2 DEF Due
<1>4. events'[slot].last = events[slot].last + events[slot].period
  BY <1>1 DEF Events
<1>5. \A s \in Slots : /\ events'[s].kind = events[s].kind
                       /\ events'[s].period = events[s].period
                       /\ s # slot => events'[s].last = events[s].last
  BY <1>1 DEF Events
<1>6. QED BY <1>1, <1>2, <1>3, <1>4, <1>5 DEF Active

LEMMA InitTime == Init => TimeInv
<1> SUFFICES ASSUME Init PROVE TimeInv
  OBVIOUS
<1> DEFINE empty == [s \in Slots |-> Free]
<1>1. empty \in [Slots -> Events] /\ \A s \in Slots : empty[s].kind = "none"
  BY DEF Free, Events
<1>2. events = Refill(empty, cfg, loraUp, 0) /\ cfg \in Configs /\ loraUp \in BOOLEAN
  BY DEF Init
<1> HIDE DEF empty
<1>3. \A s \in Slots : Active(s) => events[s].last = 0
  BY <1>1, <1>2, RefillLayout DEF Active
<1>4. slot = 0 /\ clock = 0
  BY DEF Init
<1>5. QED BY <1>3, <1>4 DEF TimeInv

LEMMA NextTime == TypeInv /\ TimeInv /\ [Next]_vars => TimeInv'
<1> SUFFICES ASSUME TypeInv, TimeInv, [Next]_vars PROVE TimeInv'
  OBVIOUS
<1>1. /\ clock \in Int /\ now \in Int /\ slot \in Int /\ events \in [Slots -> Events]
      /\ \A s \in Slots : events[s].last \in Int /\ events[s].period \in Nat
  BY BoundsAssumption, SlotsAssumption DEF TypeInv, TypeOK, Events
<1>2. ASSUME ReportReturns \/ LoopReportReturns PROVE TimeInv'
  <2>1. slot' # 0 => slot # 0
    BY <1>2 DEF ReportReturns, LoopReportReturns, walk
  <2>2. UNCHANGED <<now, clock, setBack>>
    BY <1>2, ReturnedTable DEF TypeInv, time
  <2>3. \A s \in Slots : Active(s)' => events'[s].last <= clock \/ setBack
    BY <1>1, <1>2, ReturnedTable DEF TypeInv, TimeInv, Active, table
  <2>4. QED BY <2>1, <2>2, <2>3 DEF TimeInv
<1>3. CASE SetNow
  <2>1. setBack' = (setBack \/ (slot # 0 /\ clock' < now)) /\ UNCHANGED <<now, slot>>
    BY <1>3 DEF SetNow, walk
  <2>2. clock' \in Int
    BY <1>3, Adjusted DEF TypeInv
  <2>3. /\ setBack => setBack'
        /\ slot # 0 /\ clock' < now => setBack'
    BY <2>1
  <2>4. slot' # 0 => now' <= clock' \/ setBack'
    <3>1. CASE setBack'
      BY <3>1
    <3>2. CASE ~setBack' /\ slot # 0
      <4>1. ~(clock' < now)
        BY <2>3, <3>2
      <4>2. QED BY <1>1, <2>1, <2>2, <4>1
    <3>3. CASE slot = 0
      BY <2>1, <3>3
    <3>4. QED BY <3>1, <3>2, <3>3
  <2>5. ASSUME NEW s \in Slots, Active(s)' PROVE events'[s].last <= clock' \/ setBack'
    <3>1. Active(s) /\ events'[s].last = events[s].last + (clock' - clock)
      BY <1>3, <2>5, Adjusted DEF TypeInv
    <3>2. CASE setBack
      BY <2>3, <3>2
    <3>3. CASE events[s].last <= clock
      <4>1. events'[s].last <= clock'
        BY <1>1, <2>2, <3>1, <3>3
      <4>2. QED BY <4>1
    <3>4. QED BY <3>1, <3>2, <3>3 DEF TimeInv
  <2>6. QED BY <2>4, <2>5 DEF TimeInv
<1>4. CASE CatchUp
  <2>1. UNCHANGED <<now, slot, clock, setBack>>
    BY <1>4 DEF CatchUp, walk, time
  <2>2. slot # 0
    BY <1>4, SlotsAssumption DEF CatchUp, TypeInv, SlotPlaced, Slots
  <2>3. ASSUME NEW s \in Slots, Active(s)' PROVE events'[s].last <= clock \/ setBack
    <3>1. CASE s = slot
      BY <1>1, <1>4, <2>2, <3>1, Skipped DEF TimeInv
    <3>2. CASE s # slot
      BY <1>4, <2>3, <3>2, Skipped DEF TimeInv
    <3>3. QED BY <3>1, <3>2
  <2>4. QED BY <2>1, <2>3 DEF TimeInv
<1>5. CASE Tick
  BY <1>1, <1>5 DEF Tick, TimeInv, Active, table, walk
<1>6. CASE Update
  BY <1>1, <1>6 DEF Update, TimeInv, Active, table, time
<1>7. CASE Visit \/ EndWalk \/ LoopReport
  <2>1. UNCHANGED <<events, now, clock, setBack>> /\ (slot' # 0 => slot # 0)
    BY <1>7 DEF Visit, EndWalk, LoopReport, TypeInv, SlotPlaced, table, walk, time
  <2>2. QED BY <2>1 DEF TimeInv, Active
<1>8. CASE RunCallback
  <2>1. UNCHANGED <<events, now, clock, setBack>> /\ slot # 0
    BY <1>8, SlotsAssumption DEF RunCallback, TypeInv, SlotPlaced, Slots, time
  <2>2. QED BY <2>1 DEF TimeInv, Active
<1>9. CASE UNCHANGED vars
  BY <1>9 DEF vars, TimeInv, Active, table, walk, time
<1>10. QED
  BY <1>2, <1>3, <1>4, <1>5, <1>6, <1>7, <1>8, <1>9 DEF Next, Walk

\* No event believes it ran in the future: neither catching up on missed
\* periods nor setting the clock brings a last time ahead of it, unless the
\* clock went back behind a walk.
THEOREM NotAhead == Spec => []NoLastTimeAhead
<1>1. Spec => [](TypeInv /\ TimeInv)
  BY InitType, NextType, InitTime, NextTime, PTL DEF Spec
<1>2. TypeInv /\ TimeInv => NoLastTimeAhead
  BY DEF TimeInv, NoLastTimeAhead
<1>3. QED BY <1>1, <1>2, PTL

-----------------------------------------------------------------------------
(* How often an event runs                                                 *)

\* The last time keeps pace with the runs: each of them took a period.  In the
\* catch-up loop it may be a period ahead, for the run to come.
RateInv ==
  /\ \A s \in Slots :
       Active(s) => events[s].last >= added + runs[s] * events[s].period
  /\ pc = "catchup" =>
       /\ Active(slot)
       /\ \/ Due(slot, now)
          \/ events[slot].last >= added + (runs[slot] + 1) * events[slot].period

\* One run more is one period more.
LEMMA OneMore ==
  ASSUME NEW n \in Nat, NEW p \in Nat
  PROVE  n * p \in Nat /\ (n + 1) * p = n * p + p /\ 0 * p = 0
OBVIOUS

LEMMA InitRate == Init => RateInv
<1> SUFFICES ASSUME Init PROVE RateInv
  OBVIOUS
<1> DEFINE empty == [s \in Slots |-> Free]
<1>1. empty \in [Slots -> Events] /\ \A s \in Slots : empty[s].kind = "none"
  BY DEF Free, Events
<1>2. events = Refill(empty, cfg, loraUp, 0) /\ cfg \in Configs /\ loraUp \in BOOLEAN
  BY DEF Init
<1> HIDE DEF empty
<1>3. /\ \A s \in Slots : Active(s) => events[s].last = 0
      /\ events \in [Slots -> Events]
  BY <1>1, <1>2, RefillLayout DEF Active
<1>4. added = 0 /\ runs = [s \in Slots |-> 0] /\ pc # "catchup"
  BY DEF Init
<1>5. ASSUME NEW s \in Slots, Active(s)
      PROVE  events[s].last >= added + runs[s] * events[s].period
  <2>1. events[s].period \in Nat /\ runs[s] = 0
    BY <1>3, <1>4 DEF Events
  <2>2. runs[s] * events[s].period = 0
    BY <2>1, OneMore
  <2>3. QED BY <1>3, <1>4, <1>5, <2>2
<1>6. QED BY <1>4, <1>5 DEF RateInv

LEMMA NextRate == TypeInv /\ TypeInv' /\ RateInv /\ [Next]_vars => RateInv'
<1> SUFFICES ASSUME TypeInv, TypeInv', RateInv, [Next]_vars PROVE RateInv'
  OBVIOUS
<1>1. /\ events \in [Slots -> Events] /\ events' \in [Slots -> Events]
      /\ runs \in [Slots -> Nat] /\ added \in Int /\ clock \in Int /\ now \in Int
  BY BoundsAssumption DEF TypeInv, TypeOK
<1>2. \A s \in Slots : /\ events[s].last \in Int /\ events'[s].last \in Int
                       /\ events[s].period \in Nat /\ events'[s].period \in Nat
                       /\ runs[s] \in Nat /\ runs[s] * events[s].period \in Nat
  <2>1. \A s \in Slots : /\ events[s].last \in Int /\ events'[s].last \in Int
                         /\ events[s].period \in Nat /\ events'[s].period \in Nat
                         /\ runs[s] \in Nat
    BY <1>1 DEF Events
  <2>2. QED BY <2>1, OneMore
<1>3. ASSUME ReportReturns \/ LoopReportReturns PROVE RateInv'
  <2>1. pc' # "catchup"
    BY <1>3 DEF ReportReturns, LoopReportReturns
  <2>2. CASE UNCHANGED table
    BY <2>1, <2>2 DEF RateInv, Active, table
  <2>3. CASE /\ \A s \in Slots : Active(s)' => events'[s].last = clock
             /\ added' = clock /\ runs' = [s \in Slots |-> 0]
    <3>1. ASSUME NEW s \in Slots, Active(s)'
          PROVE  events'[s].last >= added' + runs'[s] * events'[s].period
      <4>1. runs'[s] = 0 /\ events'[s].last = clock
        BY <2>3, <3>1
      <4>2. runs'[s] * events'[s].period = 0
        BY <1>2, <4>1, OneMore
      <4>3. QED BY <1>1, <2>3, <4>1, <4>2
    <3>2. QED BY <2>1, <3>1 DEF RateInv
  <2>4. QED BY <1>3, <2>2, <2>3, ReturnedTable DEF TypeInv
<1>4. CASE SetNow
  <2>1. pc' # "catchup"
    BY <1>4 DEF SetNow
  <2>2. clock' \in Int /\ added' = added + (clock' - clock) /\ runs' = runs
    BY <1>4, Adjusted DEF TypeInv
  <2>3. ASSUME NEW s \in Slots, Active(s)'
        PROVE  events'[s].last >= added' + runs'[s] * events'[s].period
    <3>1. /\ Active(s) /\ events'[s].last = events[s].last + (clock' - clock)
          /\ events'[s].period = events[s].period
      BY <1>4, <2>3, Adjusted DEF TypeInv
    <3>2. events[s].last >= added + runs[s] * events[s].period
      BY <3>1 DEF RateInv
    <3>3. runs'[s] * events'[s].period = runs[s] * events[s].period
      BY <2>2, <3>1
    <3>4. QED BY <1>1, <1>2, <2>2, <3>1, <3>2, <3>3
  <2>4. QED BY <2>1, <2>3 DEF RateInv
<1>5. CASE CatchUp
  <2>1. UNCHANGED <<pc, added, runs, slot, now>>
    BY <1>5 DEF CatchUp, walk
  <2>2. /\ slot \in Slots /\ Active(slot)' /\ events'[slot].period = events[slot].period
        /\ events'[slot].last >= added + (runs[slot] + 1) * events[slot].period
        /\ events'[slot].last >= added + runs[slot] * events[slot].period
    <3>1. /\ slot \in Slots /\ Active(slot)
          /\ events'[slot].last = events[slot].last + events[slot].period
      BY <1>5, Skipped
    <3>2. events[slot].last >= added + runs[slot] * events[slot].period
      BY <3>1 DEF RateInv
    <3>3. (runs[slot] + 1) * events[slot].period
            = runs[slot] * events[slot].period + events[slot].period
      BY <1>2, <3>1, OneMore
    <3>4. Active(slot)' /\ events'[slot].period = events[slot].period
      BY <1>5, <2>1, <3>1, Skipped DEF Active
    <3>5. QED BY <1>1, <1>2, <3>1, <3>2, <3>3, <3>4
  <2>3. ASSUME NEW s \in Slots, Active(s)'
        PROVE  events'[s].last >= added + runs[s] * events'[s].period
    <3>1. CASE s = slot
      BY <2>2, <3>1
    <3>2. CASE s # slot
      BY <1>5, <2>3, <3>2, Skipped DEF RateInv
    <3>3. QED BY <3>1, <3>2
  <2>4. QED BY <2>1, <2>2, <2>3 DEF RateInv
<1>6. CASE RunCallback
  <2>1. /\ pc = "catchup" /\ ~Due(slot, now) /\ pc' # "catchup" /\ slot \in Slots
        /\ runs' = [runs EXCEPT ![slot] = @ + 1] /\ UNCHANGED <<events, added>>
    BY <1>6 DEF RunCallback, TypeInv, SlotPlaced
  <2>2. ASSUME NEW s \in Slots, Active(s)'
        PROVE  events'[s].last >= added' + runs'[s] * events'[s].period
    <3>1. CASE s = slot
      <4>1. events[slot].last >= added + (runs[slot] + 1) * events[slot].period
        BY <2>1 DEF RateInv
      <4>2. runs'[slot] = runs[slot] + 1
        BY <1>1, <2>1
      <4>3. QED BY <2>1, <3>1, <4>1, <4>2
    <3>2. CASE s # slot
      <4>1. runs'[s] = runs[s] /\ Active(s)
        BY <1>1, <2>1, <2>2, <3>2 DEF Active
      <4>2. QED BY <2>1, <4>1 DEF RateInv
    <3>3. QED BY <3>1, <3>2
  <2>3. QED BY <2>1, <2>2 DEF RateInv
<1>7. CASE Visit
  <2>1. UNCHANGED <<events, added, runs, now>>
    BY <1>7 DEF Visit, table
  <2>2. pc' = "catchup" => slot' = slot /\ Due(slot, now)
    BY <1>7 DEF Visit
  <2>3. QED BY <2>1, <2>2 DEF RateInv, Active, Due
<1>8. CASE Tick
  BY <1>8 DEF Tick, RateInv, Active, Due, table, walk
<1>9. CASE Update \/ EndWalk \/ LoopReport
  BY <1>9 DEF Update, EndWalk, LoopReport, RateInv, Active, table
<1>10. CASE UNCHANGED vars
  BY <1>10 DEF vars, RateInv, Active, Due, table, walk
<1>11. QED
  BY <1>3, <1>4, <1>5, <1>6, <1>7, <1>8, <1>9, <1>10 DEF Next, Walk

\* An event runs at most once per period since the table was filled, for any
\* periods, however late the walks are and whenever the clock is set (unless it
\* is set back behind a walk).
THEOREM RateKept == Spec => []NeverTooOften
<1>1. Spec => [](TypeInv /\ TimeInv /\ RateInv)
  BY InitType, NextType, InitTime, NextTime, InitRate, NextRate, PTL DEF Spec
<1>2. ASSUME TypeInv, TimeInv, RateInv PROVE NeverTooOften
  <2>1. ASSUME NEW s \in Slots, Active(s), ~setBack
        PROVE  runs[s] * events[s].period <= clock - added
    <3>1. /\ events[s].last >= added + runs[s] * events[s].period
          /\ events[s].last <= clock
      BY <1>2, <2>1 DEF TimeInv, RateInv
    <3>2. /\ events[s].last \in Int /\ added \in Int /\ clock \in Int
          /\ events[s].period \in Nat /\ runs[s] \in Nat
      BY <1>2, BoundsAssumption DEF TypeInv, TypeOK, Events
    <3>3. runs[s] * events[s].period \in Nat
      BY <3>2, OneMore
    <3>4. QED BY <3>1, <3>2, <3>3
  <2>2. QED BY <2>1 DEF NeverTooOften
<1>3. QED BY <1>1, <1>2, PTL

-----------------------------------------------------------------------------
(* Reports of a walk                                                       *)

\* The slot the walk has come to, or comes to when the report returns.
Ahead == IF pc = "report" THEN slot + 1 ELSE slot

\* After a report, and with the span as it was, the walk is past every slot
\* whose event would report: the first, or inside the span the second.
ReportsInv ==
  /\ reports <= 1 \/ spanMoved
  /\ slot # 0 /\ reports >= 1 /\ ~spanMoved => Ahead >= IF Applicable THEN 3 ELSE 2

LEMMA NextReports == TypeInv /\ TypeInv' /\ ReportsInv /\ [Next]_vars => ReportsInv'
<1> SUFFICES ASSUME TypeInv, TypeInv', ReportsInv, [Next]_vars PROVE ReportsInv'
  OBVIOUS
<1>1. slot \in Nat /\ slot' \in Nat /\ reports \in Nat /\ spanMoved \in BOOLEAN
  BY SlotsAssumption DEF TypeInv, TypeOK
\* What a step that sends nothing and goes no step back leaves true.
<1>2. ASSUME reports' = reports, slot' # 0 => slot # 0 /\ Ahead' = Ahead,
             spanMoved => spanMoved', Applicable' # Applicable => spanMoved'
      PROVE  ReportsInv'
  <2>1. reports' <= 1 \/ spanMoved'
    BY <1>2 DEF ReportsInv
  <2>2. ASSUME slot' # 0, reports' >= 1, ~spanMoved'
        PROVE  Ahead' >= IF Applicable' THEN 3 ELSE 2
    <3>1. Applicable <=> Applicable'
      BY <1>2, <2>2 DEF Applicable
    <3>2. Ahead >= IF Applicable THEN 3 ELSE 2
      BY <1>2, <2>2 DEF ReportsInv
    <3>3. QED BY <1>2, <2>2, <3>1, <3>2
  <2>3. QED BY <2>1, <2>2 DEF ReportsInv
<1>3. CASE ReportReturns
  <2>1. reports' = reports /\ UNCHANGED time
    BY <1>3 DEF ReportReturns
  <2>2. slot' # 0 => slot # 0 /\ Ahead' = Ahead
    <3>1. CASE slot = 0
      BY <1>3, <3>1 DEF ReportReturns
    <3>2. CASE slot # 0
      <4>1. pc = "report" /\ pc' = "scan" /\ slot' = slot + 1
        BY <1>3, <3>2 DEF ReportReturns
      <4>2. Ahead = slot + 1 /\ Ahead' = slot + 1
        BY <1>1, <4>1 DEF Ahead
      <4>3. QED BY <3>2, <4>2
    <3>3. QED BY <3>1, <3>2
  <2>3. NoteSpan \/ UNCHANGED <<cfg, spanMoved>>
    BY <1>3 DEF ReportReturns, ConfigOverTheAir
  <2>4. /\ spanMoved => spanMoved'
        /\ Applicable' # Applicable => spanMoved'
    <3>1. CASE NoteSpan
      BY <3>1 DEF NoteSpan
    <3>2. CASE UNCHANGED <<cfg, spanMoved>>
      BY <2>1, <3>2 DEF Applicable, time
    <3>3. QED BY <2>3, <3>1, <3>2
  <2>5. QED BY <1>2, <2>1, <2>2, <2>4
<1>4. CASE LoopReportReturns
  <2>1. slot' = 0 /\ reports' = reports
    BY <1>4 DEF LoopReportReturns, TypeInv, SlotPlaced, walk
  <2>2. spanMoved => spanMoved'
    BY <1>4 DEF LoopReportReturns, ConfigOverTheAir, NoteSpan
  <2>3. QED BY <2>1, <2>2 DEF ReportsInv
<1>5. CASE Tick \/ SetNow
  <2>1. reports' = reports /\ slot' = slot /\ pc' = pc /\ NoteSpan
    BY <1>5 DEF Tick, SetNow, walk
  <2>2. /\ Ahead' = Ahead
        /\ spanMoved => spanMoved'
        /\ Applicable' # Applicable => spanMoved'
    BY <2>1 DEF Ahead, NoteSpan
  <2>3. QED BY <1>2, <2>1, <2>2
<1>6. CASE RunCallback
  <2>1. /\ pc = "catchup" /\ slot \in Slots /\ slot # 0 /\ spanMoved' = spanMoved
        /\ (Applicable <=> Applicable')
    BY <1>6, SlotsAssumption
       DEF RunCallback, TypeInv, SlotPlaced, Slots, Applicable, time
  <2>2. CASE SendsReport(events[slot].kind)
    <3>1. pc' = "report" /\ reports' = reports + 1 /\ slot' = slot
      BY <1>6, <2>2 DEF RunCallback
    <3>2. /\ ~Applicable => slot = 1
          /\ Applicable => slot = 2
      <4>1. events[slot].kind = KindAt(cfg, loraUp, slot)
        BY <2>1 DEF TypeInv, LayoutInv, Layout
      <4>2. /\ ~Applicable => KindAt(cfg, loraUp, slot) = "default"
            /\ Applicable => KindAt(cfg, loraUp, slot) = "alternative"
        BY <2>2, <4>1 DEF SendsReport
      <4>3. QED BY <1>1, <2>1, <4>2 DEF KindAt
    <3>3. reports >= 1 => spanMoved
      <4>1. ASSUME reports >= 1, ~spanMoved PROVE FALSE
        <5>1. slot >= IF Applicable THEN 3 ELSE 2
          BY <2>1, <4>1 DEF ReportsInv, Ahead
        <5>2. QED BY <1>1, <3>2, <5>1
      <4>2. QED BY <4>1
    <3>4. reports' <= 1 \/ spanMoved'
      BY <1>1, <2>1, <3>1, <3>3
    <3>5. Ahead' >= IF Applicable' THEN 3 ELSE 2
      BY <1>1, <2>1, <3>1, <3>2 DEF Ahead
    <3>6. QED BY <3>4, <3>5 DEF ReportsInv
  <2>3. CASE ~SendsReport(events[slot].kind)
    <3>1. pc' = "scan" /\ reports' = reports /\ slot' = slot + 1
      BY <1>6, <2>3 DEF RunCallback
    <3>2. reports' <= 1 \/ spanMoved'
      BY <2>1, <3>1 DEF ReportsInv
    <3>3. ASSUME reports' >= 1, ~spanMoved'
          PROVE  Ahead' >= IF Applicable' THEN 3 ELSE 2
      <4>1. slot >= IF Applicable THEN 3 ELSE 2
        BY <2>1, <3>1, <3>3 DEF ReportsInv, Ahead
      <4>2. Ahead' = slot + 1
        BY <1>1, <3>1 DEF Ahead
      <4>3. QED BY <1>1, <2>1, <4>1, <4>2
    <3>4. QED BY <3>2, <3>3 DEF ReportsInv
  <2>4. QED BY <2>2, <2>3
<1>7. CASE Visit
  <2>1. /\ pc = "scan" /\ slot # 0 /\ reports' = reports /\ spanMoved' = spanMoved
        /\ (Applicable <=> Applicable')
        /\ pc' # "report" /\ (slot' = slot \/ slot' = slot + 1)
    BY <1>7 DEF Visit, TypeInv, SlotPlaced, Applicable, time
  <2>2. Ahead = slot /\ Ahead' = slot'
    BY <2>1 DEF Ahead
  <2>3. reports' <= 1 \/ spanMoved'
    BY <2>1 DEF ReportsInv
  <2>4. ASSUME reports' >= 1, ~spanMoved'
        PROVE  slot' >= IF Applicable' THEN 3 ELSE 2
    <3>1. slot >= IF Applicable THEN 3 ELSE 2
      BY <2>1, <2>2, <2>4 DEF ReportsInv
    <3>2. slot' = slot \/ slot' = slot + 1
      BY <2>1
    <3>3. CASE Applicable
      <4>1. slot >= 3
        BY <3>1, <3>3
      <4>2. slot' >= 3
        BY <1>1, <3>2, <4>1
      <4>3. QED BY <2>1, <3>3, <4>2
    <3>4. CASE ~Applicable
      <4>1. slot >= 2
        BY <3>1, <3>4
      <4>2. slot' >= 2
        BY <1>1, <3>2, <4>1
      <4>3. QED BY <2>1, <3>4, <4>2
    <3>5. QED BY <3>3, <3>4
  <2>5. QED BY <2>2, <2>3, <2>4 DEF ReportsInv
<1>8. CASE Update
  BY <1>8 DEF Update, ReportsInv
<1>9. CASE EndWalk
  BY <1>9 DEF EndWalk, ReportsInv
<1>10. CASE CatchUp
  <2>1. UNCHANGED <<pc, slot, reports, spanMoved, cfg, time>>
    BY <1>10 DEF CatchUp, walk
  <2>2. Ahead' = Ahead /\ (Applicable <=> Applicable')
    BY <2>1 DEF Ahead, Applicable, time
  <2>3. QED BY <2>1, <2>2 DEF ReportsInv
<1>11. CASE LoopReport
  <2>1. slot' = 0 /\ UNCHANGED <<reports, spanMoved>>
    BY <1>11 DEF LoopReport, TypeInv, SlotPlaced, walk
  <2>2. QED BY <2>1 DEF ReportsInv
<1>12. CASE UNCHANGED vars
  BY <1>12 DEF vars, ReportsInv, Ahead, Applicable, walk, time
<1>13. QED
  BY <1>3, <1>4, <1>5, <1>6, <1>7, <1>8, <1>9, <1>10, <1>11, <1>12 DEF Next, Walk

\* One walk sends one fix report at most while the alternative span neither
\* begins nor ends: not even a report that refills the table under the walk
\* makes a second event report.
THEOREM OneReport == Spec => []OneReportPerUpdate
<1>1. Init => ReportsInv
  BY DEF Init, ReportsInv
<1>2. Spec => [](TypeInv /\ ReportsInv)
  BY <1>1, InitType, NextType, NextReports, PTL DEF Spec
<1>3. ReportsInv => OneReportPerUpdate
  BY DEF ReportsInv, OneReportPerUpdate
<1>4. QED BY <1>2, <1>3, PTL
=============================================================================
