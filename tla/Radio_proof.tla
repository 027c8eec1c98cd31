---------------------------- MODULE Radio_proof ----------------------------
(***************************************************************************)
(* Proofs about the radio: the SodaqWAN firmware that sends by it, and the *)
(* driver of the RN2483, which both firmwares use.                         *)
(*                                                                         *)
(* WanHal: between attempts a node is not silent for too long.  What has   *)
(* passed of the interval bounds the silence since the last attempt, by a  *)
(* tick: the attempt may have lasted until the clock came round, so that   *)
(* nothing seems to have passed of an interval that began before it.       *)
(*                                                                         *)
(* Rn2483Link: the driver keeps DriverPromise, no search for an error code *)
(* leaves the table in time, and a downlink is given once and whole.  As   *)
(* long as no limit is missed, the lines on the way are exactly the        *)
(* answers the call in progress still has to read.                         *)
(***************************************************************************)
EXTENDS WanHal, Rn2483Link, SequenceTheorems, TLAPS

-----------------------------------------------------------------------------
(* The SodaqWAN firmware                                                   *)

Clock == 0..(Wrap - 1)

\* Ticks since the interval began, as the node can tell.
Elapsed == (clock - previousMillis) % Wrap

WanTypeOK ==
  /\ pc \in {"update", "compass", "switch", "move", "alive", "send", "accept", "answer", "sent", "delay"}
  /\ caller \in {"none", "switch", "move", "alive"}
  /\ clock \in Clock /\ previousMillis \in Clock /\ silence \in Nat
  /\ timePassed \in BOOLEAN /\ isHalInitialized \in BOOLEAN

\* A node without a radio does not count.
NoRadio == ~isHalInitialized => silence = 0 /\ ~Attempts

\* The silence has lasted for no more than a tick longer than the interval.
KeepsUp == silence <= Elapsed + 1

\* Where the node is in loop(), what has passed, and how long it has been silent.
AtUpdate == pc = "update" => ~timePassed /\ KeepsUp /\ silence <= AliveInterval + 1
AtCheck ==
  pc \in {"switch", "move", "alive"} =>
    /\ silence <= AliveInterval + 1
    /\ timePassed \/ silence = 0 \/ (Elapsed < AliveInterval /\ KeepsUp)
AtSend ==
  /\ pc = "send" => silence <= AliveInterval + 1
  /\ pc \in {"accept", "answer", "sent"} => silence = 0
  /\ pc \in {"send", "accept", "answer", "sent"} => (caller = "alive" => ~timePassed)
AtDelay ==
  pc = "delay" => ~timePassed /\ (silence = 0 \/ (Elapsed < AliveInterval /\ KeepsUp))

WanInv == WanTypeOK /\ NoRadio /\ AtUpdate /\ AtCheck /\ AtSend /\ AtDelay

-----------------------------------------------------------------------------
(* Numbers                                                                 *)

LEMMA ModBelow ==
  ASSUME NEW n \in Nat \ {0}, NEW x \in 0..(n - 1)
  PROVE  x % n = x
OBVIOUS

LEMMA ModNegative ==
  ASSUME NEW n \in Nat \ {0}, NEW x \in Int, -n <= x, x < 0
  PROVE  x % n = x + n
OBVIOUS

LEMMA ModAbove ==
  ASSUME NEW n \in Nat \ {0}, NEW x \in Int, n <= x, x < 2 * n
  PROVE  x % n = x - n
OBVIOUS

LEMMA WrapIsFar == Wrap \in Nat \ {0} /\ AliveInterval \in Nat \ {0} /\ AliveInterval < Wrap
BY BoundsAssumption

LEMMA ClockGoesOn ==
  ASSUME NEW c \in Clock, NEW t \in Nat
  PROVE  (c + t) % Wrap \in Clock
BY WrapIsFar DEF Clock

\* The difference of two times, around the wrap.
Span(c, p) == IF p <= c THEN c - p ELSE c - p + Wrap

LEMMA SpanIsMod ==
  ASSUME NEW c \in Clock, NEW p \in Clock
  PROVE  (c - p) % Wrap = Span(c, p) /\ Span(c, p) \in Clock
<1>1. CASE p <= c
  BY <1>1, ModBelow, WrapIsFar DEF Clock, Span
<1>2. CASE ~(p <= c)
  <2>1. c - p \in Int /\ -Wrap <= c - p /\ c - p < 0
    BY <1>2, WrapIsFar DEF Clock
  <2>2. (c - p) % Wrap = c - p + Wrap
    BY <2>1, ModNegative, WrapIsFar
  <2>3. QED BY <1>2, <2>2, WrapIsFar DEF Clock, Span
<1>3. QED BY <1>1, <1>2

\* What passes is added to it, if it stays below the wrap.
LEMMA SpanGrows ==
  ASSUME NEW c \in Clock, NEW p \in Clock, NEW t \in Nat, Span(c, p) + t < Wrap
  PROVE  (c + t) % Wrap \in Clock /\ Span((c + t) % Wrap, p) = Span(c, p) + t
<1> DEFINE e == (c + t) % Wrap
<1>1. t < Wrap /\ c + t \in Nat
  BY SpanIsMod, WrapIsFar DEF Clock
<1>2. e = IF c + t < Wrap THEN c + t ELSE c + t - Wrap
  <2>1. CASE c + t < Wrap
    BY <1>1, <2>1, ModBelow, WrapIsFar
  <2>2. CASE ~(c + t < Wrap)
    <3>1. c + t \in Int /\ Wrap <= c + t /\ c + t < 2 * Wrap
      BY <1>1, <2>2, WrapIsFar DEF Clock
    <3>2. PICK x \in Int : x = c + t
      BY <3>1
    <3>3. x % Wrap = x - Wrap
      BY <3>1, <3>2, ModAbove, WrapIsFar
    <3>4. e = x % Wrap
      BY <3>2
    <3>5. e = c + t - Wrap
      BY <1>1, <3>2, <3>3, <3>4, WrapIsFar DEF Clock
    <3>6. QED BY <2>2, <3>5
  <2>3. QED BY <2>1, <2>2
<1>3. e \in Clock
  BY <1>1, <1>2, WrapIsFar DEF Clock
<1>4. Span(e, p) = Span(c, p) + t
  <2>1. CASE c + t < Wrap
    <3>1. e = c + t
      BY <1>2, <2>1
    <3>2. CASE p <= c
      BY <3>1, <3>2, WrapIsFar DEF Clock, Span
    <3>3. CASE ~(p <= c)
      BY <3>1, <3>3, WrapIsFar DEF Clock, Span
    <3>4. QED BY <3>2, <3>3
  <2>2. CASE ~(c + t < Wrap)
    <3>1. e = c + t - Wrap
      BY <1>2, <2>2
    <3>2. CASE p <= c
      BY <2>2, <3>1, <3>2, WrapIsFar DEF Clock, Span
    <3>3. CASE ~(p <= c)
      BY <2>2, <3>1, <3>3, WrapIsFar DEF Clock, Span
    <3>4. QED BY <3>2, <3>3
  <2>3. QED BY <2>1, <2>2
<1>5. QED BY <1>3, <1>4

\* The same of what has passed of the interval.
LEMMA ElapsedType ==
  ASSUME WanTypeOK
  PROVE  Elapsed \in Clock
BY SpanIsMod DEF WanTypeOK, Elapsed

LEMMA ElapsedGrows ==
  ASSUME WanTypeOK, NEW t \in Nat, Elapsed + t < Wrap,
         clock' = (clock + t) % Wrap, previousMillis' = previousMillis
  PROVE  clock' \in Clock /\ Elapsed' = Elapsed + t
<1>1. Elapsed = Span(clock, previousMillis)
  BY SpanIsMod DEF WanTypeOK, Elapsed
<1>2. clock' \in Clock /\ Span(clock', previousMillis) = Elapsed + t
  BY <1>1, SpanGrows DEF WanTypeOK
<1>3. Elapsed' = Span(clock', previousMillis)
  BY <1>2, SpanIsMod DEF WanTypeOK, Elapsed
<1>4. QED BY <1>2, <1>3

-----------------------------------------------------------------------------
(* The invariant                                                           *)

LEMMA InitWan == WanInit => WanInv
<1> SUFFICES ASSUME WanInit PROVE WanInv
  OBVIOUS
<1>1. WanTypeOK
  <2>1. 0 \in Clock
    BY WrapIsFar DEF Clock
  <2>2. QED BY <2>1 DEF WanInit, WanTypeOK
<1>2. AtUpdate
  BY <1>1, ElapsedType, WrapIsFar DEF WanInit, AtUpdate, KeepsUp, Clock
<1>3. NoRadio /\ AtCheck /\ AtSend /\ AtDelay
  BY DEF WanInit, NoRadio, Attempts, Waits, AtCheck, AtSend, AtDelay
<1>4. QED BY <1>1, <1>2, <1>3 DEF WanInv

\* An interval that is over is told of, and begins anew.
LEMMA UpdateKeeps ==
  ASSUME WanInv, Update
  PROVE  WanInv'
<1>1. /\ pc = "update" /\ pc' \in {"switch", "compass"} /\ clock' = clock /\ silence' = silence
      /\ caller' = caller /\ isHalInitialized' = isHalInitialized
  BY DEF Update, time, sending
<1>2. \/ previousMillis' = clock /\ timePassed' = TRUE
      \/ Elapsed < AliveInterval /\ previousMillis' = previousMillis /\ timePassed' = timePassed
  <2>1. Elapsed \in Nat
    BY ElapsedType DEF WanInv, Clock
  <2>2. QED BY <2>1, WrapIsFar DEF Update, AliveUpdate, alive, Elapsed
<1>3. WanTypeOK'
  BY <1>1, <1>2 DEF WanInv, WanTypeOK
<1>4. AtCheck'
  <2>1. silence <= AliveInterval + 1 /\ KeepsUp
    BY <1>1 DEF WanInv, AtUpdate
  <2>2. CASE timePassed'
    BY <1>1, <2>1, <2>2 DEF AtCheck
  <2>3. CASE Elapsed < AliveInterval /\ previousMillis' = previousMillis
    BY <1>1, <2>1, <2>3 DEF AtCheck, KeepsUp, Elapsed
  <2>4. QED BY <1>2, <2>2, <2>3
<1>5. NoRadio' /\ AtUpdate' /\ AtSend' /\ AtDelay'
  BY <1>1 DEF WanInv, NoRadio, Attempts, Waits, AtUpdate, AtSend, AtDelay
<1>6. QED BY <1>3, <1>4, <1>5 DEF WanInv

\* A compass that does not answer: time passes, and nothing else is done.
LEMMA AwaitKeeps ==
  ASSUME WanInv, AwaitCompass
  PROVE  WanInv'
<1>1. /\ pc = "compass" /\ pc' = pc
      /\ UNCHANGED <<previousMillis, timePassed, isHalInitialized, caller>>
  BY DEF AwaitCompass, alive, sending
<1>2. clock' \in Clock /\ silence' \in Nat /\ (~isHalInitialized => silence' = 0)
  BY ClockGoesOn DEF AwaitCompass, Passes, WanInv, WanTypeOK
<1>3. WanTypeOK'
  BY <1>1, <1>2 DEF WanInv, WanTypeOK
<1>4. NoRadio' /\ AtUpdate' /\ AtCheck' /\ AtSend' /\ AtDelay'
  BY <1>1, <1>2 DEF NoRadio, Attempts, Waits, AtUpdate, AtCheck, AtSend, AtDelay
<1>5. QED BY <1>3, <1>4 DEF WanInv

\* A message that is to be sent, with a radio and without.
LEMMA SendKeeps ==
  ASSUME WanInv, NEW from \in {"switch", "move", "alive"}, pc = from,
         NEW m, Send(m, from), previousMillis' = previousMillis,
         timePassed' \in BOOLEAN, from = "alive" => ~timePassed'
  PROVE  WanInv'
<1>1. /\ clock' = clock /\ silence' = silence /\ isHalInitialized' = isHalInitialized
      /\ caller' = from /\ pc' = IF isHalInitialized THEN "send" ELSE "sent"
  BY DEF Send, time
<1>2. silence <= AliveInterval + 1
  BY DEF WanInv, AtCheck
<1>3. WanTypeOK'
  BY <1>1 DEF WanInv, WanTypeOK
<1>4. AtSend' /\ NoRadio'
  BY <1>1, <1>2 DEF WanInv, NoRadio, Attempts, Waits, AtSend
<1>5. AtUpdate' /\ AtCheck' /\ AtDelay'
  BY <1>1 DEF AtUpdate, AtCheck, AtDelay
<1>6. QED BY <1>3, <1>4, <1>5 DEF WanInv

\* Nothing is to be sent.
LEMMA PassKeeps ==
  ASSUME WanInv, NEW next, Pass(next),
         \/ pc = "switch" /\ next = "move"
         \/ pc = "move" /\ next = "alive"
         \/ pc = "alive" /\ next = "delay" /\ ~timePassed
  PROVE  WanInv'
<1>1. /\ pc' = next /\ Elapsed' = Elapsed
      /\ UNCHANGED <<clock, previousMillis, silence, timePassed, isHalInitialized, caller>>
  BY DEF Pass, time, alive, sending, Elapsed
<1>2. WanTypeOK'
  BY <1>1 DEF WanInv, WanTypeOK
<1>3. AtCheck' /\ AtDelay'
  BY <1>1 DEF WanInv, AtCheck, AtDelay, KeepsUp
<1>4. NoRadio' /\ AtUpdate' /\ AtSend'
  BY <1>1 DEF WanInv, NoRadio, Attempts, Waits, AtUpdate, AtSend
<1>5. QED BY <1>2, <1>3, <1>4 DEF WanInv

LEMMA ActKeeps ==
  ASSUME WanInv, Act
  PROVE  WanInv'
<1>1. timePassed \in BOOLEAN
  BY DEF WanInv, WanTypeOK
<1>2. CASE CheckSwitch
  <2>1. pc = "switch"
    BY <1>2 DEF CheckSwitch
  <2>2. CASE Pass("move")
    BY <2>1, <2>2, PassKeeps
  <2>3. CASE Send(SwitchMessage, "switch") /\ UNCHANGED alive
    BY <1>1, <2>1, <2>3, SendKeeps DEF alive
  <2>4. QED BY <1>2, <2>2, <2>3 DEF CheckSwitch
<1>3. CASE CheckMoved
  <2>1. pc = "move"
    BY <1>3 DEF CheckMoved
  <2>2. CASE Pass("alive")
    BY <2>1, <2>2, PassKeeps
  <2>3. CASE Send(MoveMessage, "move") /\ UNCHANGED alive
    BY <1>1, <2>1, <2>3, SendKeeps DEF alive
  <2>4. QED BY <1>3, <2>2, <2>3 DEF CheckMoved
<1>4. CASE CheckAlive
  <2>1. pc = "alive"
    BY <1>4 DEF CheckAlive
  <2>2. CASE ~timePassed /\ Pass("delay")
    BY <2>1, <2>2, PassKeeps
  <2>3. CASE timePassed' = FALSE /\ Send(AliveMessage, "alive") /\ UNCHANGED previousMillis
    BY <2>1, <2>3, SendKeeps
  <2>4. QED BY <1>4, <2>2, <2>3 DEF CheckAlive
<1>5. QED BY <1>2, <1>3, <1>4 DEF Act

\* However long a step of an attempt lasts: the node is not silent in it.
LEMMA AttemptStep ==
  ASSUME WanInv, Attempts, pc' \in {"send", "accept", "answer", "sent"},
         NEW t \in Nat, clock' = (clock + t) % Wrap, silence' = 0,
         UNCHANGED <<previousMillis, timePassed, isHalInitialized, caller>>
  PROVE  WanInv'
<1>1. clock' \in Clock
  BY ClockGoesOn DEF WanInv, WanTypeOK
<1>2. WanTypeOK'
  BY <1>1 DEF WanInv, WanTypeOK
<1>3. NoRadio'
  BY DEF WanInv, NoRadio
<1>4. AtSend'
  <2>1. caller = "alive" => ~timePassed
    BY DEF WanInv, AtSend, Attempts, Waits
  <2>2. QED BY <2>1, WrapIsFar DEF AtSend
<1>5. AtUpdate' /\ AtCheck' /\ AtDelay'
  BY DEF AtUpdate, AtCheck, AtDelay
<1>6. QED BY <1>2, <1>3, <1>4, <1>5 DEF WanInv

LEMMA WaitForStep ==
  ASSUME WanInv, Attempts, NEW wait \in {"accept", "answer"}, NEW t \in Nat, WaitFor(wait, t),
         UNCHANGED <<alive, isHalInitialized>>
  PROVE  WanInv'
BY AttemptStep DEF WaitFor, alive, sending

LEMMA ReturnStep ==
  ASSUME WanInv, Attempts, NEW code1, NEW t \in Nat, Return(code1, t),
         UNCHANGED <<alive, isHalInitialized>>
  PROVE  WanInv'
<1> DEFINE u == t + Sleeps(code1)
<1>1. u \in Nat
  BY BoundsAssumption DEF Sleeps
<1>2. clock' = (clock + u) % Wrap /\ silence' = 0
  BY DEF Return, Passes
<1>3. pc' \in {"send", "sent"} /\ caller' = caller
  BY DEF Return
<1> HIDE DEF u
<1>4. QED BY <1>1, <1>2, <1>3, AttemptStep DEF alive

LEMMA AttemptKeeps ==
  ASSUME WanInv, Attempt
  PROVE  WanInv'
<1>1. ReadTimeout \in Nat
  BY BoundsAssumption
<1>2. CASE MacTransmit
  BY <1>2, WaitForStep DEF MacTransmit, Attempts
<1>3. CASE ReadNothing
  <2>1. Attempts /\ pc' = pc /\ pc \in {"accept", "answer"}
    BY <1>3 DEF ReadNothing, Attempts, Waits
  <2>2. clock' = (clock + ReadTimeout) % Wrap /\ silence' = 0
    BY <1>3, <2>1 DEF ReadNothing, Passes
  <2>3. QED BY <1>1, <1>3, <2>1, <2>2, AttemptStep DEF ReadNothing, alive, sending
<1>4. CASE ReadAnswer
  <2>1. Attempts /\ UNCHANGED <<alive, isHalInitialized>>
    BY <1>4 DEF ReadAnswer, Attempts
  <2>2. PICK t \in 0..ReadTimeout : WaitFor("answer", t) \/ \E c \in Codes : Return(c, t)
    BY <1>4 DEF ReadAnswer, ErrorCodes
  <2>3. t \in Nat
    BY <1>1
  <2>4. CASE WaitFor("answer", t)
    BY <2>1, <2>3, <2>4, WaitForStep
  <2>5. CASE \E c \in Codes : Return(c, t)
    BY <2>1, <2>3, <2>5, ReturnStep
  <2>6. QED BY <2>2, <2>4, <2>5
<1>5. CASE WaitOver
  <2>1. Attempts /\ UNCHANGED <<alive, isHalInitialized>>
    BY <1>5 DEF WaitOver, Attempts
  <2>2. \E c \in Codes : Return(c, 0)
    BY <1>5 DEF WaitOver, ErrorCodes, Codes
  <2>3. QED BY <2>1, <2>2, ReturnStep
<1>6. QED BY <1>2, <1>3, <1>4, <1>5 DEF Attempt

\* After a switch or a move message the interval begins anew.
LEMMA SentKeeps ==
  ASSUME WanInv, Sent
  PROVE  WanInv'
<1>1. /\ pc = "sent" /\ clock' = clock /\ silence' = silence /\ timePassed' = timePassed
      /\ isHalInitialized' = isHalInitialized /\ caller' = "none"
  BY DEF Sent, time
<1>2. \/ pc' \in {"move", "alive"} /\ previousMillis' = clock
      \/ caller = "alive" /\ pc' = "delay" /\ previousMillis' = previousMillis
  BY DEF Sent
<1>3. silence = 0 /\ (caller = "alive" => ~timePassed)
  BY <1>1 DEF WanInv, AtSend
<1>4. WanTypeOK'
  BY <1>1, <1>2 DEF WanInv, WanTypeOK
<1>5. AtCheck' /\ AtDelay'
  BY <1>1, <1>2, <1>3, WrapIsFar DEF AtCheck, AtDelay
<1>6. NoRadio' /\ AtUpdate' /\ AtSend'
  BY <1>1, <1>2, <1>3 DEF NoRadio, Attempts, Waits, AtUpdate, AtSend
<1>7. QED BY <1>4, <1>5, <1>6 DEF WanInv

\* A tick more of both; but if the interval comes round, the silence has just begun.
LEMMA DelayKeeps ==
  ASSUME WanInv, Delay
  PROVE  WanInv'
<1>1. PICK t \in {0, 1} : Passes(t)
  BY DEF Delay
<1>2. /\ pc = "delay" /\ pc' = "update"
      /\ UNCHANGED <<previousMillis, timePassed, isHalInitialized, caller>>
  BY DEF Delay, alive, sending
<1>3. /\ ~timePassed /\ Elapsed \in Clock /\ silence \in Nat
      /\ silence = 0 \/ (Elapsed < AliveInterval /\ KeepsUp)
  BY <1>2, ElapsedType DEF WanInv, WanTypeOK, AtDelay
<1>4. t \in Nat /\ clock' = (clock + t) % Wrap
  BY <1>1 DEF Passes
<1>5. silence' \in Nat /\ silence' <= silence + t /\ (~isHalInitialized => silence' = 0)
  BY <1>1, <1>3 DEF Passes
<1>6. WanTypeOK'
  BY <1>2, <1>4, <1>5, ClockGoesOn DEF WanInv, WanTypeOK
<1>7. AtUpdate'
  <2>1. CASE silence = 0
    <3>1. Elapsed' \in Clock
      BY <1>6, SpanIsMod DEF WanTypeOK, Elapsed
    <3>2. silence' \in Nat /\ silence' <= 1
      BY <1>5, <2>1
    <3>3. PICK e \in Nat : e = Elapsed'
      BY <3>1 DEF Clock
    <3>4. silence' <= e + 1 /\ silence' <= AliveInterval + 1
      BY <3>2, WrapIsFar
    <3>5. QED BY <1>2, <1>3, <3>3, <3>4 DEF AtUpdate, KeepsUp
  <2>2. CASE Elapsed < AliveInterval /\ KeepsUp
    <3>1. Elapsed' = Elapsed + t
      BY <1>2, <1>3, <1>4, <2>2, ElapsedGrows, WrapIsFar DEF WanInv, Clock
    <3>2. silence' <= Elapsed' + 1 /\ silence' <= AliveInterval + 1
      BY <1>3, <1>5, <2>2, <3>1, WrapIsFar DEF KeepsUp, Clock
    <3>3. QED BY <1>2, <1>3, <3>2 DEF AtUpdate, KeepsUp
  <2>3. QED BY <1>3, <2>1, <2>2
<1>8. NoRadio' /\ AtCheck' /\ AtSend' /\ AtDelay'
  BY <1>2, <1>5 DEF NoRadio, Attempts, Waits, AtCheck, AtSend, AtDelay
<1>9. QED BY <1>6, <1>7, <1>8 DEF WanInv

LEMMA OthersKeep ==
  ASSUME WanInv, MoveSwitch \/ UNCHANGED wanVars
  PROVE  WanInv'
<1>1. UNCHANGED <<clock, previousMillis, silence, timePassed, isHalInitialized, pc, caller>>
  BY DEF MoveSwitch, wanVars, time, alive, sending
<1>2. QED BY <1>1 DEF WanInv, WanTypeOK, NoRadio, Attempts, Waits, AtUpdate, AtCheck, AtSend, AtDelay,
                      KeepsUp, Elapsed

LEMMA WanInvMeans == WanInv => NoSilence
<1> SUFFICES ASSUME WanInv, pc # "compass" PROVE silence <= AliveInterval + 1
  BY DEF NoSilence
<1>1. CASE pc = "delay"
  <2>1. silence = 0 \/ (Elapsed < AliveInterval /\ silence <= Elapsed + 1)
    BY <1>1 DEF WanInv, AtDelay, KeepsUp
  <2>2. QED BY <2>1, ElapsedType, WrapIsFar DEF WanInv, WanTypeOK, Clock
<1>2. CASE pc # "delay"
  BY <1>2, WrapIsFar DEF WanInv, WanTypeOK, AtUpdate, AtCheck, AtSend
<1>3. QED BY <1>1, <1>2

-----------------------------------------------------------------------------
(* What the node's loop keeps, for every interval that is shorter than the *)
(* wrap, and all limits, delays and numbers of retries.                    *)
THEOREM LoopInvariant == WanSpec => []WanInv
<1>1. WanInv /\ [WanNext]_wanVars => WanInv'
  <2> SUFFICES ASSUME WanInv, [WanNext]_wanVars PROVE WanInv'
    OBVIOUS
  <2>1. CASE Update
    BY <2>1, UpdateKeeps
  <2>2. CASE AwaitCompass
    BY <2>2, AwaitKeeps
  <2>3. CASE Act
    BY <2>3, ActKeeps
  <2>4. CASE Attempt
    BY <2>4, AttemptKeeps
  <2>5. CASE Sent
    BY <2>5, SentKeeps
  <2>6. CASE Delay
    BY <2>6, DelayKeeps
  <2>7. CASE MoveSwitch \/ UNCHANGED wanVars
    BY <2>7, OthersKeep
  <2>8. QED BY <2>1, <2>2, <2>3, <2>4, <2>5, <2>6, <2>7 DEF WanNext, Loop
<1>2. QED BY <1>1, InitWan, PTL DEF WanSpec

(* A node with a radio (CheckAndAct() and sendMessage() in Hal.cpp,        *)
(* Alive::Update()) makes the next attempt to send within the interval and *)
(* a tick from the end of the last one, also if millis() wraps around and  *)
(* however long the last one took: unless the compass has stopped it.      *)
THEOREM NeverSilent == WanSpec => []NoSilence
BY LoopInvariant, WanInvMeans, PTL

-----------------------------------------------------------------------------
(* The driver of the RN2483                                                *)

\* The steps of the programs, and of setFsbChannels().
Steps ==
  {s \in [cmd : {"reset", "set", "join", "save", "get", "tx", "ch", "await"},
          want : {"ok", "RN", "any", "response", "accepted"}, must : BOOLEAN] :
     /\ s.want = "RN" <=> s.cmd = "reset"
     /\ s.want = "any" <=> s.cmd = "get"
     /\ s.want \in {"response", "accepted"} <=> s.cmd = "await"
     /\ s.cmd \in {"tx", "join", "await"} => s.must}

\* A second answer is waited for after a transmission or a join, and only then.
Succeeds(s, t) ==
  /\ s.cmd = "tx" <=> t.want = "response"
  /\ s.cmd = "join" <=> t.want = "accepted"
WellFormed(p) ==
  /\ p \in Seq(Steps)
  /\ \A i \in 1..(Len(p) - 1) : Succeeds(p[i], p[i + 1])
  /\ p # <<>> => p[Len(p)].cmd \notin {"tx", "join"}

\* What the module may say.
Texts ==
  {"ok", "value", "accepted", "denied", "not_joined", "mac_tx_ok", "mac_rx", "mac_err",
   "invalid_param", "busy", "RN2483", "RN2903"}
Line == [text : Texts, data : {<<>>} \cup Downlinks]
ReturnCodes == {"InternalError", "NotConnected", "Busy", "NetworkFatalError",
          "PayloadSizeError", "NoAcknowledgment",
          "NoError", "NoResponse", "Timeout", "Overrun"}

LinkTypeOK ==
  /\ active \in BOOLEAN /\ waiting \in BOOLEAN /\ packetReceived \in BOOLEAN
  /\ did \in BOOLEAN /\ taken \in BOOLEAN
  /\ op \in Calls \cup {"none"}
  /\ ret \in [call : Calls \cup {"none"}, val : BOOLEAN]
  /\ code \in ReturnCodes /\ inputBuffer \in Texts \cup {NoLine}
  /\ line \in Seq(Line) /\ pending \in Seq(Line)
  /\ receivedPayloadBuffer \in [1..PayloadCap -> {0} \cup UNION {Range(d) : d \in Downlinks}]
  /\ missed \in 0..MaxMissed /\ calls \in 0..MaxCalls

\* Where a call is, and what it has still to do.
Programmed ==
  /\ WellFormed(todo)
  /\ op = "none" <=> todo = <<>>
  /\ waiting => todo # <<>>
  /\ ~waiting /\ todo # <<>> => Head(todo).cmd # "await"
  /\ op \in Transmits => todo[Len(todo)].want = "response"

\* Between calls.
Idle ==
  /\ ret.call # "none" => op = "none"
  /\ ~active => op = "none" /\ code = "NoError"

\* Lines that are the answer scr to a command.
AreTexts(lines, scr) ==
  Len(lines) = Len(scr) /\ \A i \in 1..Len(scr) : lines[i].text = scr[i]

\* The module has done so far what matters to the call.
DidSo(done) == op # "setCntr" => (did <=> done)

\* What is on the way if no limit has been missed.
InSync ==
  missed = 0 =>
    /\ code # "Overrun"
    /\ ~waiting => line \o pending = <<>> /\ (op # "none" => DidSo(TRUE))
    /\ waiting /\ Head(todo).cmd # "await" =>
         \E scr \in Scripts(Head(todo).cmd) :
           /\ AreTexts(line \o pending, scr)
           /\ DidSo(Head(todo).must => Done(Head(todo).cmd, scr))
    /\ waiting /\ Head(todo) .want = "response" =>
         \E r \in {"mac_tx_ok", "mac_rx", "mac_err"} :
           AreTexts(line \o pending, <<r>>) /\ DidSo(r # "mac_err")
    /\ waiting /\ Head(todo).want = "accepted" =>
         \E r \in {"accepted", "denied"} :
           AreTexts(line \o pending, <<r>>) /\ DidSo(r = "accepted")

\* A downlink that was heard is in the buffer, and not taken when send() returns.
PacketKept ==
  /\ \A i \in 1..Len(line) : line[i].text = "mac_rx" => line[i].data \in Downlinks
  /\ packetReceived =>
       /\ heard \in Downlinks
       /\ \A i \in 1..PayloadCap :
            /\ i <= Len(heard) => receivedPayloadBuffer[i] = heard[i]
            /\ i = Len(heard) + 1 => receivedPayloadBuffer[i] = 0
  /\ todo # <<>> /\ Head(todo) .want = "response" => ~packetReceived
  /\ ret.call \in Transmits /\ ret.val /\ packetReceived => ~taken

LinkInv == LinkTypeOK /\ Programmed /\ Idle /\ InSync /\ PacketKept

-----------------------------------------------------------------------------
(* The programs of the calls                                               *)

LEMMA LenEmpty == Len(<<>>) = 0
BY EmptySeq

\* What may be left after a step.
Follows(s, rest) ==
  /\ WellFormed(rest)
  /\ rest # <<>> => Succeeds(s, Head(rest))
  /\ s.cmd \in {"tx", "join"} => rest # <<>>

LEMMA EmptyProgram == WellFormed(<<>>)
BY LenEmpty DEF WellFormed

LEMMA TailFollows ==
  ASSUME NEW p, WellFormed(p), p # <<>>
  PROVE  /\ Head(p) \in Steps
         /\ Follows(Head(p), Tail(p))
         /\ Tail(p) # <<>> => Tail(p)[Len(Tail(p))] = p[Len(p)]
<1>1. /\ p \in Seq(Steps) /\ Head(p) \in Steps /\ Head(p) = p[1]
      /\ Tail(p) \in Seq(Steps) /\ Len(p) \in Nat \ {0} /\ Len(Tail(p)) = Len(p) - 1
      /\ \A i \in 1..(Len(p) - 1) : Tail(p)[i] = p[i + 1]
  BY HeadTailProperties, EmptySeq DEF WellFormed
<1>2. Tail(p) # <<>> => Len(Tail(p)) \in Nat \ {0}
  BY <1>1, EmptySeq
<1>3. Tail(p) # <<>> => Tail(p)[Len(Tail(p))] = p[Len(p)] /\ Head(Tail(p)) = p[2]
  BY <1>1, <1>2
<1>4. WellFormed(Tail(p))
  <2>1. \A i \in 1..(Len(Tail(p)) - 1) : Succeeds(Tail(p)[i], Tail(p)[i + 1])
    <3> SUFFICES ASSUME NEW i \in 1..(Len(Tail(p)) - 1) PROVE Succeeds(Tail(p)[i], Tail(p)[i + 1])
      OBVIOUS
    <3>1. i + 1 \in 1..(Len(p) - 1) /\ i \in 1..(Len(p) - 1)
      BY <1>1
    <3>2. Tail(p)[i] = p[i + 1] /\ Tail(p)[i + 1] = p[(i + 1) + 1]
      BY <1>1, <3>1
    <3>3. QED BY <3>1, <3>2 DEF WellFormed
  <2>2. QED BY <1>1, <1>3, <2>1 DEF WellFormed
<1>5. Tail(p) # <<>> => Succeeds(Head(p), Head(Tail(p)))
  BY <1>1, <1>2, <1>3 DEF WellFormed
<1>6. Tail(p) = <<>> => Head(p).cmd \notin {"tx", "join"}
  <2>1. ASSUME Tail(p) = <<>> PROVE Len(p) = 1
    <3>1. Len(Tail(p)) = 0
      BY <2>1, LenEmpty
    <3>2. Len(p) \in Nat /\ Len(Tail(p)) = Len(p) - 1
      BY <1>1
    <3>3. QED BY <3>1, <3>2
  <2>2. QED BY <1>1, <2>1 DEF WellFormed
<1>7. QED BY <1>1, <1>3, <1>4, <1>5, <1>6 DEF Follows

\* The channels of an RN2903 are set before the rest.
LEMMA FsbFollows ==
  ASSUME NEW p, WellFormed(p), p # <<>>, Head(p).cmd = "reset"
  PROVE  LET rest == SetFsbChannels \o Tail(p)
         IN  /\ Follows(Head(p), rest)
             /\ Tail(p) # <<>> => rest # <<>> /\ rest[Len(rest)] = p[Len(p)]
<1> DEFINE ch == Step("ch", "ok", FALSE)
           t == Tail(p)
           q == SetFsbChannels \o t
<1>1. Channels \in Nat /\ ch \in Steps
  BY SizesAssumption DEF Steps, Step
<1>2. SetFsbChannels \in Seq(Steps) /\ Len(SetFsbChannels) = Channels
      /\ \A i \in 1..Channels : SetFsbChannels[i] = ch
  <2>1. SetFsbChannels = [i \in 1..Channels |-> ch]
    BY DEF SetFsbChannels
  <2> HIDE DEF ch
  <2>2. QED BY <1>1, <2>1
<1>3. /\ Head(p) \in Steps /\ Follows(Head(p), t) /\ t \in Seq(Steps) /\ Len(t) \in Nat
      /\ t # <<>> => t[Len(t)] = p[Len(p)] /\ Len(t) \in Nat \ {0} /\ Head(t) = t[1]
  BY TailFollows, EmptySeq, LenProperties DEF Follows, WellFormed
<1>4. /\ q \in Seq(Steps) /\ Len(q) = Channels + Len(t)
      /\ \A i \in 1..(Channels + Len(t)) : q[i] = IF i <= Channels THEN ch ELSE t[i - Channels]
  <2>1. \A i \in 1..(Channels + Len(t)) : i <= Channels => SetFsbChannels[i] = ch
    <3> HIDE DEF ch, t
    <3>1. QED BY <1>1, <1>2, <1>3
  <2>2. QED BY <1>1, <1>2, <1>3, <2>1, ConcatProperties
<1>5. \A s \in {Head(p), ch} : t # <<>> => Succeeds(s, t[1])
  <2>1. t # <<>> => Succeeds(Head(p), t[1])
    BY <1>3 DEF Follows
  <2>2. ch.cmd = "ch"
    BY DEF Step
  <2>3. QED BY <2>1, <2>2 DEF Succeeds
<1>6. \A s \in {Head(p), ch} : Succeeds(s, ch)
  BY DEF Succeeds, Step
<1> HIDE DEF ch, t, q
<1>7. \A i \in 1..(Len(q) - 1) : Succeeds(q[i], q[i + 1])
  <2> SUFFICES ASSUME NEW i \in 1..(Len(q) - 1) PROVE Succeeds(q[i], q[i + 1])
    OBVIOUS
  <2>1. CASE i < Channels
    <3>1. q[i] = ch /\ q[i + 1] = ch
      BY <1>1, <1>3, <1>4, <2>1
    <3>2. QED BY <3>1, <1>6
  <2>2. CASE i = Channels
    <3>1. q[i] = ch /\ q[i + 1] = t[1] /\ t # <<>>
      BY <1>1, <1>3, <1>4, <2>2
    <3>2. QED BY <3>1, <1>5
  <2>3. CASE i > Channels
    <3>1. i - Channels \in 1..(Len(t) - 1) /\ q[i] = t[i - Channels]
          /\ q[i + 1] = t[(i - Channels) + 1]
      BY <1>1, <1>3, <1>4, <2>3
    <3>2. QED BY <3>1, <1>3 DEF Follows, WellFormed
  <2>4. QED BY <1>1, <2>1, <2>2, <2>3
<1>8. t # <<>> => q # <<>> /\ q[Len(q)] = p[Len(p)]
  BY <1>1, <1>3, <1>4
<1>9. q # <<>> => q[Len(q)].cmd \notin {"tx", "join"}
  <2>1. CASE t = <<>>
    <3>1. q # <<>> => q[Len(q)] = ch
      <4>1. Len(t) = 0
        BY <2>1
      <4>2. q # <<>> => Len(q) \in Nat \ {0}
        BY <1>4, EmptySeq
      <4>3. QED BY <4>1, <4>2, <1>1, <1>4
    <3>2. QED BY <3>1 DEF ch, Step
  <2>2. CASE t # <<>>
    BY <2>2, <1>8 DEF WellFormed
  <2>3. QED BY <2>1, <2>2
<1>10. q # <<>> => Succeeds(Head(p), Head(q))
  <2>1. q # <<>> => Len(q) \in Nat \ {0} /\ Head(q) = q[1]
    BY <1>4, EmptySeq
  <2>2. CASE Channels = 0
    <3>1. q # <<>> => Head(q) = t[1] /\ t # <<>>
      BY <2>1, <2>2, <1>3, <1>4
    <3>2. QED BY <3>1, <1>5
  <2>3. CASE Channels # 0
    <3>1. q # <<>> => Head(q) = ch
      BY <2>1, <2>3, <1>1, <1>3, <1>4
    <3>2. QED BY <3>1, <1>6
  <2>4. QED BY <2>2, <2>3
<1>11. Head(p).cmd \notin {"tx", "join"}
  OBVIOUS
<1>12. Follows(Head(p), q)
  BY <1>4, <1>7, <1>9, <1>10, <1>11 DEF Follows, WellFormed
<1>13. QED BY <1>8, <1>12 DEF q, t

LEMMA IsStep ==
  ASSUME NEW cmd \in {"reset", "set", "join", "save", "get", "tx", "ch", "await"},
         NEW want \in {"ok", "RN", "any", "response", "accepted"}, NEW must \in BOOLEAN,
         want = "RN" <=> cmd = "reset", want = "any" <=> cmd = "get",
         want \in {"response", "accepted"} <=> cmd = "await", cmd \in {"tx", "join", "await"} => must
  PROVE  Step(cmd, want, must) \in Steps
BY DEF Step, Steps

LEMMA TupleOfSeven ==
  ASSUME NEW S, NEW a \in S, NEW b \in S, NEW c \in S, NEW d \in S, NEW e \in S,
         NEW f \in S, NEW g \in S
  PROVE  <<a, b, c, d, e, f, g>> \in Seq(S)
OBVIOUS

LEMMA ActivationWellFormed ==
  WellFormed(Activation) /\ Activation # <<>> /\ Head(Activation).cmd # "await"
<1>1. /\ Step("reset", "RN", TRUE) \in Steps /\ Set(TRUE) \in Steps
      /\ Step("join", "ok", TRUE) \in Steps /\ Step("await", "accepted", TRUE) \in Steps
  BY IsStep DEF Set
<1>2. Activation \in Seq(Steps)
  BY <1>1, TupleOfSeven DEF Activation
<1>3. /\ Len(Activation) = 7 /\ Activation # <<>>
      /\ \A i \in 1..6 : i = 1 \/ i = 2 \/ i = 3 \/ i = 4 \/ i = 5 \/ i = 6
  BY DEF Activation
<1>4. Head(Activation).cmd = "reset" /\ Activation[7].cmd \notin {"tx", "join"}
  <2>1. Head(Activation) = Step("reset", "RN", TRUE) /\ Activation[7] = Step("await", "accepted", TRUE)
    BY DEF Activation
  <2>2. Step("reset", "RN", TRUE).cmd = "reset" /\ Step("await", "accepted", TRUE).cmd = "await"
    BY DEF Step
  <2>3. QED BY <2>1, <2>2
<1>5. /\ Succeeds(Activation[1], Activation[2]) /\ Succeeds(Activation[2], Activation[3])
      /\ Succeeds(Activation[3], Activation[4]) /\ Succeeds(Activation[4], Activation[5])
      /\ Succeeds(Activation[5], Activation[6]) /\ Succeeds(Activation[6], Activation[7])
  BY DEF Activation, Step, Succeeds, Set
<1>6. \A i \in 1..6 : Succeeds(Activation[i], Activation[i + 1])
  BY <1>3, <1>5
<1>7. \A i \in 1..(Len(Activation) - 1) : Succeeds(Activation[i], Activation[i + 1])
  BY <1>3, <1>6
<1>8. Activation[Len(Activation)].cmd \notin {"tx", "join"}
  BY <1>3, <1>4
<1>9. QED BY <1>2, <1>3, <1>4, <1>7, <1>8 DEF WellFormed

LEMMA ConcatOfThree ==
  ASSUME NEW S, NEW a \in S, NEW b \in S, NEW c \in S
  PROVE  <<a, b, c>> = <<a>> \o <<b, c>>
<1>1. <<a>> \in Seq(S) /\ <<b, c>> \in Seq(S)
  OBVIOUS
<1>2. QED BY <1>1, ConcatProperties, SeqEqual

\* A program of up to three steps.
LEMMA OneStepWellFormed ==
  ASSUME NEW a \in Steps, a.cmd \notin {"tx", "join"}
  PROVE  WellFormed(<<a>>) /\ <<a>> # <<>> /\ Head(<<a>>) = a
BY DEF WellFormed

LEMMA TwoStepsWellFormed ==
  ASSUME NEW a \in Steps, NEW b \in Steps, Succeeds(a, b), b.cmd \notin {"tx", "join"}
  PROVE  WellFormed(<<a, b>>) /\ <<a, b>> # <<>> /\ Head(<<a, b>>) = a /\ <<a, b>>[2] = b /\ Len(<<a, b>>) = 2
<1>1. \A i \in 1..1 : i = 1
  OBVIOUS
<1>2. QED BY <1>1 DEF WellFormed

LEMMA ThreeStepsWellFormed ==
  ASSUME NEW a \in Steps, NEW b \in Steps, NEW c \in Steps,
         Succeeds(a, b), Succeeds(b, c), c.cmd \notin {"tx", "join"}
  PROVE  /\ WellFormed(<<a, b, c>>) /\ <<a, b, c>> # <<>> /\ Head(<<a, b, c>>) = a
         /\ <<a, b, c>>[3] = c /\ Len(<<a, b, c>>) = 3
<1> DEFINE p == <<a, b, c>>
<1>2. p \in Seq(Steps) /\ Len(p) = 3 /\ p # <<>> /\ Head(p) = a
      /\ p[1] = a /\ p[2] = b /\ p[3] = c
  OBVIOUS
<1> HIDE DEF p
<1>3. \A i \in 1..2 : i = 1 \/ i = 2
  OBVIOUS
<1>4. \A i \in 1..2 : Succeeds(p[i], p[i + 1])
  BY <1>2, <1>3
<1>5. WellFormed(p) /\ p # <<>> /\ Head(p) = a /\ p[3] = c /\ Len(p) = 3
  BY <1>2, <1>4 DEF WellFormed
<1>6. QED BY <1>5 DEF p

LEMMA ProgramsWellFormed ==
  ASSUME NEW o \in Calls
  PROVE  /\ WellFormed(Program[o]) /\ Program[o] # <<>> /\ Head(Program[o]).cmd # "await"
         /\ o \in Transmits => Program[o][Len(Program[o])].want = "response"
<1> DEFINE tx == Step("tx", "ok", TRUE)
           response == Step("await", "response", TRUE)
           good(p) == WellFormed(p) /\ p # <<>> /\ Head(p).cmd # "await"
<1>1. o \in {"init", "setCntr", "save", "get", "send", "sendReqAck"}
  BY DEF Calls, Program
<1>2. /\ Set(FALSE) \in Steps /\ tx \in Steps /\ response \in Steps /\ Step("get", "any", TRUE) \in Steps
      /\ Step("save", "ok", TRUE) \in Steps /\ Step("save", "ok", FALSE) \in Steps
  BY IsStep DEF Set
<1>3. good(Program["init"])
  BY ActivationWellFormed DEF Program
<1>4. good(Program["setCntr"])
  <2>1. Succeeds(Set(FALSE), Step("save", "ok", FALSE))
    BY DEF Succeeds, Set, Step
  <2>2. Program["setCntr"] = <<Set(FALSE), Step("save", "ok", FALSE)>>
    BY DEF Program
  <2>3. Step("save", "ok", FALSE).cmd = "save" /\ Set(FALSE).cmd = "set"
    BY DEF Set, Step
  <2> DEFINE p == <<Set(FALSE), Step("save", "ok", FALSE)>>
  <2>4. WellFormed(p) /\ p # <<>> /\ Head(p) = Set(FALSE)
    BY <1>2, <2>1, <2>3, TwoStepsWellFormed
  <2>5. QED BY <2>2, <2>3, <2>4
<1>5. good(Program["save"]) /\ good(Program["get"])
  <2>1. Step("save", "ok", TRUE).cmd = "save" /\ Step("get", "any", TRUE).cmd = "get"
    BY DEF Step
  <2>2. Program["save"] = <<Step("save", "ok", TRUE)>> /\ Program["get"] = <<Step("get", "any", TRUE)>>
    BY DEF Program
  <2>3. QED BY <1>2, <2>1, <2>2, OneStepWellFormed
<1>6. Succeeds(Set(FALSE), tx) /\ Succeeds(tx, response) /\ response.cmd = "await"
      /\ response.want = "response" /\ tx.cmd # "await" /\ Set(FALSE).cmd # "await"
  BY DEF Succeeds, Set, Step
<1> HIDE DEF tx, response
<1>7. good(Program["send"]) /\ Program["send"][Len(Program["send"])] = response
  <2>1. Program["send"] = <<tx, response>>
    BY DEF Program, Transmission, tx, response
  <2>2. WellFormed(<<tx, response>>) /\ <<tx, response>> # <<>> /\ Head(<<tx, response>>) = tx
        /\ <<tx, response>>[2] = response /\ Len(<<tx, response>>) = 2
    BY <1>2, <1>6, TwoStepsWellFormed
  <2>3. QED BY <1>6, <2>1, <2>2
<1>8. good(Program["sendReqAck"]) /\ Program["sendReqAck"][Len(Program["sendReqAck"])] = response
  <2> DEFINE p == <<Set(FALSE), tx, response>>
  <2>1. Program["sendReqAck"] = p
    <3>1. Program["sendReqAck"] = <<Set(FALSE)>> \o <<tx, response>>
      BY DEF Program, Transmission, tx, response
    <3>2. QED BY <1>2, <3>1, ConcatOfThree
  <2>2. WellFormed(p) /\ p # <<>> /\ Head(p) = Set(FALSE) /\ p[3] = response /\ Len(p) = 3
    BY <1>2, <1>6, ThreeStepsWellFormed
  <2> HIDE DEF p
  <2>3. QED BY <1>6, <2>1, <2>2
<1>9. QED BY <1>1, <1>3, <1>4, <1>5, <1>6, <1>7, <1>8 DEF Transmits

-----------------------------------------------------------------------------
(* The answers of the module                                               *)

LEMMA ScriptCases ==
  ASSUME NEW cmd, NEW scr \in Scripts(cmd)
  PROVE  \/ /\ cmd = "reset" /\ \E t \in DeviceTypes : scr = <<t>>
         \/ /\ cmd = "get" /\ scr = <<"value">>
         \/ /\ cmd = "join" /\ \E r \in {"accepted", "denied"} : scr = <<"ok", r>>
         \/ /\ cmd = "join" /\ scr = <<"not_joined">>
         \/ /\ cmd = "tx" /\ \E r \in {"mac_tx_ok", "mac_rx", "mac_err"} : scr = <<"ok", r>>
         \/ /\ cmd = "tx" /\ \E r \in Refusals : scr = <<r>>
         \/ /\ cmd \notin {"reset", "get", "join", "tx"}
            /\ \E r \in {"ok", "invalid_param"} : scr = <<r>>
BY DEF Scripts

LEMMA LastOf ==
  ASSUME NEW S, NEW t \in S
  PROVE  <<t>> \in Seq(S) /\ Len(<<t>>) = 1 /\ Last(<<t>>) = t /\ <<t>>[1] = t
BY DEF Last

LEMMA LastOfTwo ==
  ASSUME NEW S, NEW t \in S, NEW u \in S
  PROVE  /\ <<t, u>> \in Seq(S) /\ Len(<<t, u>>) = 2 /\ Last(<<t, u>>) = u
         /\ <<t, u>>[1] = t /\ <<t, u>>[2] = u
BY DEF Last

\* The same, by their lines.
LEMMA ScriptParts ==
  ASSUME NEW cmd, NEW scr \in Scripts(cmd)
  PROVE  /\ scr \in Seq(Texts)
         /\ \/ /\ Len(scr) = 1 /\ Last(scr) = scr[1]
               /\ \/ cmd = "reset" /\ scr[1] \in DeviceTypes
                  \/ cmd = "get" /\ scr[1] = "value"
                  \/ cmd = "join" /\ scr[1] = "not_joined"
                  \/ cmd = "tx" /\ scr[1] \in Refusals
                  \/ cmd \notin {"reset", "get", "join", "tx"} /\ scr[1] \in {"ok", "invalid_param"}
            \/ /\ Len(scr) = 2 /\ Last(scr) = scr[2] /\ scr[1] = "ok"
               /\ \/ cmd = "join" /\ scr[2] \in {"accepted", "denied"}
                  \/ cmd = "tx" /\ scr[2] \in {"mac_tx_ok", "mac_rx", "mac_err"}
<1>1. ASSUME NEW t \in Texts
      PROVE  <<t>> \in Seq(Texts) /\ Len(<<t>>) = 1 /\ Last(<<t>>) = t /\ <<t>>[1] = t
  BY LastOf
<1>2. ASSUME NEW t \in Texts, NEW u \in Texts
      PROVE  /\ <<t, u>> \in Seq(Texts) /\ Len(<<t, u>>) = 2 /\ Last(<<t, u>>) = u
             /\ <<t, u>>[1] = t /\ <<t, u>>[2] = u
  BY LastOfTwo
<1>3. CASE cmd = "reset" /\ \E t \in DeviceTypes : scr = <<t>>
  <2>1. PICK t \in DeviceTypes : scr = <<t>>
    BY <1>3
  <2>2. t \in Texts
    BY DevicesAssumption DEF Texts
  <2>3. QED BY <1>1, <1>3, <2>1, <2>2
<1>4. CASE cmd = "get" /\ scr = <<"value">>
  BY <1>1, <1>4 DEF Texts
<1>5. CASE cmd = "join" /\ \E r \in {"accepted", "denied"} : scr = <<"ok", r>>
  <2>1. PICK r \in {"accepted", "denied"} : scr = <<"ok", r>>
    BY <1>5
  <2>2. "ok" \in Texts /\ r \in Texts
    BY DEF Texts
  <2>3. /\ scr \in Seq(Texts) /\ Len(scr) = 2 /\ Last(scr) = r
        /\ scr[1] = "ok" /\ scr[2] = r
    BY <1>2, <2>1, <2>2
  <2>4. QED BY <1>5, <2>3
<1>6. CASE cmd = "join" /\ scr = <<"not_joined">>
  BY <1>1, <1>6 DEF Texts
<1>7. CASE cmd = "tx" /\ \E r \in {"mac_tx_ok", "mac_rx", "mac_err"} : scr = <<"ok", r>>
  <2>1. PICK r \in {"mac_tx_ok", "mac_rx", "mac_err"} : scr = <<"ok", r>>
    BY <1>7
  <2>2. "ok" \in Texts /\ r \in Texts
    BY DEF Texts
  <2>3. /\ scr \in Seq(Texts) /\ Len(scr) = 2 /\ Last(scr) = r
        /\ scr[1] = "ok" /\ scr[2] = r
    BY <1>2, <2>1, <2>2
  <2>4. QED BY <1>7, <2>3
<1>8. CASE cmd = "tx" /\ \E r \in Refusals : scr = <<r>>
  BY <1>1, <1>8 DEF Refusals, Texts
<1>9. CASE cmd \notin {"reset", "get", "join", "tx"} /\ \E r \in {"ok", "invalid_param"} : scr = <<r>>
  BY <1>1, <1>9 DEF Texts
<1>10. QED BY <1>3, <1>4, <1>5, <1>6, <1>7, <1>8, <1>9, ScriptCases

\* A second line follows an "ok" to a transmission or a join, and no other line.
LEMMA SecondAnswer ==
  ASSUME NEW s \in Steps, s.cmd # "await", NEW scr \in Seq(Texts), scr \in Scripts(s.cmd), Len(scr) # 1
  PROVE  /\ Len(scr) = 2 /\ Matches(scr[1], s.want) /\ s.must
         /\ \/ /\ s.cmd = "tx" /\ scr[2] \in {"mac_tx_ok", "mac_rx", "mac_err"}
               /\ Done(s.cmd, scr) <=> scr[2] # "mac_err"
            \/ /\ s.cmd = "join" /\ scr[2] \in {"accepted", "denied"}
               /\ Done(s.cmd, scr) <=> scr[2] = "accepted"
<1>1. /\ Len(scr) = 2 /\ Last(scr) = scr[2] /\ scr[1] = "ok"
      /\ \/ s.cmd = "join" /\ scr[2] \in {"accepted", "denied"}
         \/ s.cmd = "tx" /\ scr[2] \in {"mac_tx_ok", "mac_rx", "mac_err"}
  BY ScriptParts
<1>2. s.want = "ok" /\ s.must
  BY <1>1 DEF Steps
<1>3. Matches(scr[1], s.want)
  BY <1>1, <1>2 DEF Matches
<1>4. QED BY <1>1, <1>2, <1>3, DevicesAssumption DEF Done

\* A single line is what was waited for exactly if the module has done it.
LEMMA OnlyAnswer ==
  ASSUME NEW s \in Steps, s.cmd # "await", NEW scr \in Seq(Texts), scr \in Scripts(s.cmd), Len(scr) = 1
  PROVE  /\ Matches(scr[1], s.want) <=> Done(s.cmd, scr)
         /\ Matches(scr[1], s.want) => s.cmd \notin {"tx", "join"}
         /\ s.cmd = "tx" => scr[1] \in Refusals
<1>1. Last(scr) = scr[1]
  BY ScriptParts
<1>2. CASE s.cmd = "reset" /\ scr[1] \in DeviceTypes
  <2>1. s.want = "RN"
    BY <1>2 DEF Steps
  <2>2. QED BY <1>1, <1>2, <2>1 DEF Matches, Done
<1>3. CASE s.cmd = "get" /\ scr[1] = "value"
  <2>1. s.want = "any"
    BY <1>3 DEF Steps
  <2>2. QED BY <1>1, <1>3, <2>1 DEF Matches, Done
<1>4. CASE /\ s.cmd \notin {"reset", "get"} /\ scr[1] \in {"not_joined", "ok", "invalid_param", "busy"}
           /\ s.cmd \in {"tx", "join"} => scr[1] # "ok"
  <2>1. s.want = "ok"
    BY <1>4 DEF Steps
  <2>2. Matches(scr[1], s.want) <=> scr[1] = "ok"
    BY <1>4, <2>1 DEF Matches
  <2>3. Done(s.cmd, scr) <=> scr[1] = "ok"
    BY <1>1, <1>4, DevicesAssumption DEF Done
  <2>4. s.cmd = "tx" => scr[1] \in Refusals
    BY ScriptParts
  <2>5. QED BY <1>4, <2>2, <2>3, <2>4
<1>5. \/ s.cmd = "reset" /\ scr[1] \in DeviceTypes
      \/ s.cmd = "get" /\ scr[1] = "value"
      \/ s.cmd = "join" /\ scr[1] = "not_joined"
      \/ s.cmd = "tx" /\ scr[1] \in Refusals
      \/ s.cmd \notin {"reset", "get", "join", "tx"} /\ scr[1] \in {"ok", "invalid_param"}
  BY ScriptParts
<1>6. QED BY <1>2, <1>3, <1>4, <1>5 DEF Refusals

LEMMA LookupFacts ==
  ASSUME NEW text \in Texts \cup {NoLine}
  PROVE  /\ LookupMacTransmitError(text) \in ReturnCodes \ {"NoError"}
         /\ text \in Refusals \cup {"mac_err"} => LookupMacTransmitError(text) # "Overrun"
<1>1. \A t \in DOMAIN ErrorTable : ErrorTable[t] \in ReturnCodes \ {"NoError", "Overrun"}
  <2>1. DOMAIN ErrorTable =
          {"invalid_param", "not_joined", "no_free_ch", "silent", "frame_counter_err_rejoin_needed",
           "busy", "mac_paused", "invalid_data_len", "mac_err"}
    BY DEF ErrorTable
  <2>2. /\ ErrorTable["invalid_param"] = "InternalError" /\ ErrorTable["not_joined"] = "NotConnected"
        /\ ErrorTable["no_free_ch"] = "Busy" /\ ErrorTable["silent"] = "Busy"
        /\ ErrorTable["frame_counter_err_rejoin_needed"] = "NetworkFatalError"
        /\ ErrorTable["busy"] = "Busy" /\ ErrorTable["mac_paused"] = "InternalError"
        /\ ErrorTable["invalid_data_len"] = "PayloadSizeError"
        /\ ErrorTable["mac_err"] = "NoAcknowledgment"
    BY DEF ErrorTable
  <2>3. QED BY <2>1, <2>2 DEF ReturnCodes
<1>2. Refusals \cup {"mac_err"} \subseteq DOMAIN ErrorTable
  BY DEF ErrorTable, Refusals
<1>3. QED BY <1>1, <1>2 DEF LookupMacTransmitError, ReturnCodes

-----------------------------------------------------------------------------
(* The lines on the way                                                    *)

\* The first line read is the first answer, and the others stay on the way.
LEMMA FirstRead ==
  ASSUME LinkTypeOK, line # <<>>, NEW scr, AreTexts(line \o pending, scr)
  PROVE  /\ Head(line).text = scr[1]
         /\ Len(scr) = 1 => Tail(line) \o pending = <<>>
         /\ Len(scr) = 2 => AreTexts(Tail(line) \o pending, <<scr[2]>>)
<1> DEFINE out == line \o pending
           rest == Tail(line) \o pending
<1>0. line \in Seq(Line) /\ pending \in Seq(Line)
  BY DEF LinkTypeOK
<1>1. /\ line \in Seq(Line) /\ pending \in Seq(Line) /\ Tail(line) \in Seq(Line)
      /\ Head(line) = line[1] /\ Len(line) \in Nat \ {0} /\ Len(pending) \in Nat
      /\ Len(Tail(line)) = Len(line) - 1
      /\ \A i \in 1..(Len(line) - 1) : Tail(line)[i] = line[i + 1]
  BY <1>0, HeadTailProperties, EmptySeq
<1>2. /\ out \in Seq(Line) /\ Len(out) = Len(line) + Len(pending) /\ out[1] = line[1]
      /\ \A i \in 1..(Len(line) + Len(pending)) : out[i] = IF i <= Len(line) THEN line[i] ELSE pending[i - Len(line)]
  BY <1>1, ConcatProperties
<1>3. /\ rest \in Seq(Line) /\ Len(rest) = Len(out) - 1
      /\ \A i \in 1..(Len(out) - 1) : rest[i] = out[i + 1]
  <2>1. /\ rest \in Seq(Line) /\ Len(rest) = Len(out) - 1
        /\ \A i \in 1..(Len(out) - 1) :
             rest[i] = IF i <= Len(line) - 1 THEN Tail(line)[i] ELSE pending[i - (Len(line) - 1)]
    BY <1>1, <1>2, ConcatProperties
  <2> SUFFICES ASSUME NEW i \in 1..(Len(out) - 1) PROVE rest[i] = out[i + 1]
    BY <2>1
  <2>2. CASE i <= Len(line) - 1
    BY <1>1, <1>2, <2>1, <2>2
  <2>3. CASE ~(i <= Len(line) - 1)
    <3>1. i - (Len(line) - 1) = (i + 1) - Len(line)
      BY <1>1
    <3>2. QED BY <1>1, <1>2, <2>1, <2>3, <3>1
  <2>4. QED BY <2>2, <2>3
<1> HIDE DEF out, rest
<1>4. Len(out) = Len(scr) /\ Len(scr) \in Nat \ {0} /\ \A i \in 1..Len(scr) : out[i].text = scr[i]
  BY <1>1, <1>2 DEF AreTexts, out
<1>5. Len(scr) = 1 => rest = <<>>
  BY <1>3, <1>4, EmptySeq
<1>6. Len(scr) = 2 => AreTexts(rest, <<scr[2]>>)
  BY <1>3, <1>4 DEF AreTexts
<1>7. QED BY <1>1, <1>2, <1>4, <1>5, <1>6 DEF rest

\* What the module hands over was on the way before.
LEMMA HandedOver ==
  ASSUME LinkTypeOK, ModuleAnswers
  PROVE  /\ line' \in Seq(Line) /\ pending' \in Seq(Line)
         /\ line # <<>> => Head(line') = Head(line)
         /\ line \o pending # <<>>
         /\ \A scr : AreTexts(line \o pending, scr) => AreTexts(line' \o pending', scr)
         /\ \E l \in Line : line' = Append(line, l) /\ (l.text = "mac_rx" => l.data \in Downlinks)
<1>1. line \in Seq(Line) /\ pending \in Seq(Line)
  BY DEF LinkTypeOK
<1>2. PICK d \in Payloads(Head(pending).text) :
        pending # <<>> /\ line' = Append(line, [Head(pending) EXCEPT !.data = d]) /\ pending' = Tail(pending)
  BY DEF ModuleAnswers
<1> DEFINE l == [Head(pending) EXCEPT !.data = d]
<1>3. /\ Head(pending) \in Line /\ Head(pending) = pending[1] /\ pending' \in Seq(Line)
      /\ Len(pending) \in Nat \ {0} /\ Len(line) \in Nat /\ Len(pending') = Len(pending) - 1
      /\ \A i \in 1..(Len(pending) - 1) : pending'[i] = pending[i + 1]
  BY <1>1, <1>2, HeadTailProperties, EmptySeq
<1>4. d \in {<<>>} \cup Downlinks /\ (Head(pending).text = "mac_rx" => d \in Downlinks)
  BY <1>2 DEF Payloads
<1>5. l \in Line /\ l.text = Head(pending).text /\ l.data = d
  BY <1>3, <1>4 DEF Line
<1> HIDE DEF l
<1>6. /\ line' = Append(line, l) /\ line' \in Seq(Line) /\ Len(line') = Len(line) + 1 /\ line'[Len(line) + 1] = l
      /\ \A i \in 1..Len(line) : line'[i] = line[i]
  BY <1>1, <1>2, <1>5, AppendProperties DEF l
<1>7. line # <<>> => Head(line') = Head(line)
  BY <1>1, <1>5, <1>6, HeadTailAppend
<1> DEFINE out == line \o pending
           next == line' \o pending'
<1>8. /\ Len(out) = Len(line) + Len(pending)
      /\ \A i \in 1..(Len(line) + Len(pending)) : out[i] = IF i <= Len(line) THEN line[i] ELSE pending[i - Len(line)]
  BY <1>1, <1>3, ConcatProperties
<1>9. /\ Len(next) = Len(line) + Len(pending)
      /\ \A i \in 1..(Len(line) + Len(pending)) :
           next[i] = IF i <= Len(line) + 1 THEN line'[i] ELSE pending'[i - (Len(line) + 1)]
  BY <1>3, <1>6, ConcatProperties
<1> HIDE DEF out, next
<1>10. \A i \in 1..(Len(line) + Len(pending)) : next[i].text = out[i].text
  <2> SUFFICES ASSUME NEW i \in 1..(Len(line) + Len(pending)) PROVE next[i].text = out[i].text
    OBVIOUS
  <2>1. CASE i <= Len(line)
    <3>1. out[i] = line[i]
      BY <1>3, <1>8, <2>1
    <3>2. next[i] = line'[i] /\ line'[i] = line[i]
      BY <1>3, <1>6, <1>9, <2>1
    <3>3. QED BY <3>1, <3>2
  <2>2. CASE i = Len(line) + 1
    <3>1. out[i] = pending[1] /\ next[i] = l
      BY <1>3, <1>6, <1>8, <1>9, <2>2
    <3>2. QED BY <1>3, <1>5, <3>1
  <2>3. CASE i > Len(line) + 1
    <3>1. i - (Len(line) + 1) \in 1..(Len(pending) - 1) /\ i - Len(line) = (i - (Len(line) + 1)) + 1
      BY <1>3, <2>3
    <3>2. next[i] = pending'[i - (Len(line) + 1)] /\ out[i] = pending[i - Len(line)]
      BY <1>3, <1>8, <1>9, <2>3
    <3>3. QED BY <1>3, <3>1, <3>2
  <2>4. QED BY <1>3, <2>1, <2>2, <2>3
<1>11. \A scr : AreTexts(out, scr) => AreTexts(next, scr)
  BY <1>8, <1>9, <1>10 DEF AreTexts
<1>12. out # <<>>
  BY <1>3, <1>8, EmptySeq
<1>13. QED BY <1>3, <1>4, <1>5, <1>6, <1>7, <1>11, <1>12 DEF out, next

\* What the module answers is on the way.
LEMMA Answered ==
  ASSUME LinkTypeOK, NEW scr \in Seq(Texts),
         pending' = pending \o [i \in DOMAIN scr |-> [text |-> scr[i], data |-> <<>>]], line' = line
  PROVE  /\ pending' \in Seq(Line)
         /\ line \o pending = <<>> => AreTexts(line' \o pending', scr)
<1> DEFINE new == [i \in DOMAIN scr |-> [text |-> scr[i], data |-> <<>>]]
<1>1. line \in Seq(Line) /\ pending \in Seq(Line)
  BY DEF LinkTypeOK
<1>2. Len(scr) \in Nat /\ DOMAIN scr = 1..Len(scr) /\ \A i \in 1..Len(scr) : scr[i] \in Texts
  BY LenProperties, ElementOfSeq
<1>3. new \in [1..Len(scr) -> Line]
  BY <1>2 DEF Line
<1>4. new \in Seq(Line) /\ Len(new) = Len(scr) /\ \A i \in 1..Len(scr) : new[i].text = scr[i]
  <2>1. \A i \in 1..Len(scr) : new[i].text = scr[i]
    BY <1>2
  <2> HIDE DEF new
  <2>2. QED BY <1>2, <1>3, <2>1
<1> HIDE DEF new
<1>5. pending' = pending \o new
  BY DEF new
<1>6. pending' \in Seq(Line)
  BY <1>1, <1>4, <1>5, ConcatProperties
<1>7. ASSUME line \o pending = <<>> PROVE AreTexts(line' \o pending', scr)
  <2>1. line = <<>> /\ pending = <<>>
    BY <1>1, <1>7, ConcatEqualIffEmpty
  <2>2. line' \o pending' = new
    BY <1>4, <1>5, <2>1, ConcatEmptySeq
  <2>3. QED BY <1>4, <2>2 DEF AreTexts
<1>8. QED BY <1>6, <1>7

-----------------------------------------------------------------------------
(* How a call goes on and ends                                             *)

LEMMA LinesEmpty == <<>> \o <<>> = <<>>
BY ConcatEmptySeq, EmptySeq

LEMMA LinkInit == Init => LinkInv
<1> SUFFICES ASSUME Init PROVE LinkInv
  OBVIOUS
<1>1. LinkTypeOK
  <2>1. receivedPayloadBuffer \in [1..PayloadCap -> {0} \cup UNION {Range(d) : d \in Downlinks}]
    BY DEF Init
  <2>2. ret \in [call : Calls \cup {"none"}, val : BOOLEAN]
    BY DEF Init, NoReturn
  <2>3. missed \in 0..MaxMissed /\ calls \in 0..MaxCalls
    BY SizesAssumption DEF Init
  <2>4. line \in Seq(Line) /\ pending \in Seq(Line)
    BY EmptySeq DEF Init
  <2>5. QED BY <2>1, <2>2, <2>3, <2>4 DEF Init, LinkTypeOK, ReturnCodes
<1>2. Programmed
  BY EmptyProgram DEF Init, Programmed, Transmits
<1>3. Idle
  BY DEF Init, Idle
<1>4. InSync
  <2>1. line \o pending = <<>>
    BY LinesEmpty DEF Init
  <2>2. QED BY <2>1 DEF Init, InSync, DidSo
<1>5. PacketKept
  BY LenEmpty DEF Init, PacketKept, NoReturn, Transmits
<1>6. QED BY <1>1, <1>2, <1>3, <1>4, <1>5 DEF LinkInv

LEMMA FinishFacts ==
  ASSUME LinkInv, todo # <<>>, NEW v \in BOOLEAN, Finish(v)
  PROVE  /\ Programmed' /\ waiting' = FALSE /\ op' = "none" /\ todo' = <<>>
         /\ ret' \in [call : Calls \cup {"none"}, val : BOOLEAN]
         /\ ret'.call = op /\ ret'.val = v
<1>1. ret' = [call |-> op, val |-> v] /\ op \in Calls \cup {"none"}
  BY DEF Finish, LinkInv, LinkTypeOK
<1>2. op' = "none" /\ todo' = <<>> /\ waiting' = FALSE
  BY DEF Finish
<1>3. Programmed'
  BY <1>2, EmptyProgram DEF Programmed, Transmits
<1>4. QED BY <1>1, <1>2, <1>3

\* What a step leaves of the program, when its answer or none has come.
Rests(rest) ==
  /\ Follows(Head(todo), rest)
  /\ op \in Transmits => rest # <<>> /\ rest[Len(rest)].want = "response"

LEMMA RestFacts ==
  ASSUME LinkInv, todo # <<>>, Head(todo).want # "response"
  PROVE  /\ Rests(Tail(todo))
         /\ Head(todo).want = "RN" => Rests(SetFsbChannels \o Tail(todo))
<1>1. /\ WellFormed(todo) /\ Head(todo) \in Steps
      /\ op \in Transmits => todo[Len(todo)].want = "response"
  BY TailFollows DEF LinkInv, Programmed
<1>2. op \in Transmits => Tail(todo) # <<>>
  <2>1. todo \in Seq(Steps)
    BY <1>1 DEF WellFormed
  <2>2. /\ Len(todo) \in Nat \ {0} /\ Len(Tail(todo)) = Len(todo) - 1 /\ Head(todo) = todo[1]
    BY <2>1, HeadTailProperties, EmptySeq
  <2>3. Tail(todo) = <<>> => Len(todo) = 1
    BY <2>2, LenEmpty
  <2>4. QED BY <1>1, <2>2, <2>3
<1>3. /\ Follows(Head(todo), Tail(todo))
      /\ Tail(todo) # <<>> => Tail(todo)[Len(Tail(todo))] = todo[Len(todo)]
  BY <1>1, TailFollows
<1>4. Rests(Tail(todo))
  BY <1>1, <1>2, <1>3 DEF Rests
<1>5. ASSUME Head(todo).want = "RN" PROVE Rests(SetFsbChannels \o Tail(todo))
  <2>1. Head(todo).cmd = "reset"
    BY <1>1, <1>5 DEF Steps
  <2>2. QED BY <1>1, <1>2, <2>1, FsbFollows DEF Rests
<1>6. QED BY <1>4, <1>5

LEMMA GoOnFacts ==
  ASSUME LinkInv, todo # <<>>, NEW rest, Rests(rest), GoOnWith(rest)
  PROVE  /\ Programmed' /\ todo' = rest
         /\ rest = <<>> => /\ ~waiting' /\ op' = "none" /\ op \notin Transmits
                           /\ ret'.call = op /\ ret'.val = TRUE
         /\ rest # <<>> => /\ op' = op /\ ret' = ret /\ Head(rest) \in Steps
                           /\ waiting' <=> Head(rest).cmd = "await"
         /\ ret' \in [call : Calls \cup {"none"}, val : BOOLEAN]
<1>1. WellFormed(rest) /\ (op \in Transmits => rest # <<>> /\ rest[Len(rest)].want = "response")
  BY DEF Rests, Follows
<1>2. CASE rest = <<>>
  <2>1. Finish(TRUE)
    BY <1>2 DEF GoOnWith
  <2>2. QED BY <1>1, <1>2, <2>1, FinishFacts
<1>3. CASE rest # <<>>
  <2>1. todo' = rest /\ op' = op /\ ret' = ret /\ waiting' = (Head(rest).cmd = "await")
    BY <1>3 DEF GoOnWith
  <2>2. Head(rest) \in Steps
    BY <1>1, <1>3, HeadTailProperties DEF WellFormed
  <2>3. op # "none" /\ ret \in [call : Calls \cup {"none"}, val : BOOLEAN]
    BY DEF LinkInv, Programmed, LinkTypeOK
  <2>4. Programmed'
    BY <1>1, <1>3, <2>1, <2>3 DEF Programmed
  <2>5. QED BY <1>3, <2>1, <2>2, <2>3, <2>4
<1>4. QED BY <1>2, <1>3

-----------------------------------------------------------------------------
(* The steps, one by one                                                   *)

LEMMA CallKeeps ==
  ASSUME LinkInv, NEW o \in Calls, Call(o)
  PROVE  LinkInv'
<1> USE DEF LinkInv, Call, packet
<1>1. LinkTypeOK'
  <2>1. ret' \in [call : Calls \cup {"none"}, val : BOOLEAN]
    BY DEF NoReturn
  <2>2. /\ line' \in Seq(Line) /\ pending' \in Seq(Line)
        /\ missed' \in 0..MaxMissed
    <3>1. CASE o = "init"
      BY <3>1, EmptySeq, SizesAssumption DEF NothingToCome
    <3>2. CASE o # "init"
      BY <3>2 DEF LinkTypeOK
    <3>3. QED BY <3>1, <3>2
  <2>3. calls' \in 0..MaxCalls
    BY SizesAssumption DEF LinkTypeOK
  <2>4. QED BY <2>1, <2>2, <2>3 DEF LinkTypeOK, ReturnCodes
<1>2. todo = <<>> /\ ~waiting /\ o # "none"
  BY DEF Programmed, Calls, Program
<1>3. Programmed'
  BY <1>2, ProgramsWellFormed DEF Programmed
<1>4. Idle'
  BY DEF Idle, NoReturn
<1>5. InSync'
  <2>1. CASE o = "init"
    <3>1. line' \o pending' = <<>>
      BY <2>1, LinesEmpty DEF NothingToCome
    <3>2. QED BY <1>2, <3>1 DEF InSync, DidSo
  <2>2. CASE o # "init"
    BY <1>2, <2>2 DEF InSync, DidSo
  <2>3. QED BY <2>1, <2>2
<1>6. PacketKept'
  <2>1. \A i \in 1..Len(line') : line'[i].text = "mac_rx" => line'[i].data \in Downlinks
    BY LenEmpty DEF PacketKept, NothingToCome
  <2>2. Head(todo').want # "response"
    <3>1. todo' # <<>> /\ Head(todo').cmd # "await" /\ Head(todo') \in Steps
      BY ProgramsWellFormed, HeadTailProperties DEF WellFormed
    <3>2. QED BY <3>1 DEF Steps
  <2>3. ret'.call \notin Transmits
    BY DEF NoReturn, Transmits
  <2>4. QED BY <2>1, <2>2, <2>3 DEF PacketKept
<1>7. QED BY <1>1, <1>3, <1>4, <1>5, <1>6

LEMMA WakeUpKeeps ==
  ASSUME LinkInv, WakeUp
  PROVE  LinkInv'
<1> USE DEF LinkInv, WakeUp, NothingToCome, call, packet
<1>1. LinkTypeOK'
  BY EmptySeq, SizesAssumption DEF LinkTypeOK
<1>2. Programmed' /\ Idle' /\ op = "none" /\ code = "NoError" /\ ~waiting
  BY DEF Programmed, Idle
<1>3. InSync'
  BY <1>2, LinesEmpty DEF InSync
<1>4. PacketKept'
  BY LenEmpty DEF PacketKept
<1>5. QED BY <1>1, <1>2, <1>3, <1>4

LEMMA SleepKeeps ==
  ASSUME LinkInv, Sleep
  PROVE  LinkInv'
<1> USE DEF LinkInv, Sleep, packet
<1>1. LinkTypeOK'
  BY DEF LinkTypeOK, NoReturn, ReturnCodes
<1>2. Programmed' /\ Idle'
  BY DEF Programmed, Idle, NoReturn
<1>3. InSync'
  BY DEF InSync, DidSo
<1>4. PacketKept'
  BY DEF PacketKept, NoReturn, Transmits
<1>5. QED BY <1>1, <1>2, <1>3, <1>4

LEMMA ReceiveKeeps ==
  ASSUME LinkInv, Receive
  PROVE  LinkInv'
<1> USE DEF LinkInv, Receive, packet
<1>1. LinkTypeOK'
  BY DEF LinkTypeOK, NoReturn
<1>2. Programmed' /\ Idle'
  BY DEF Programmed, Idle, NoReturn
<1>3. InSync'
  BY DEF InSync, DidSo
<1>4. PacketKept'
  BY DEF PacketKept, NoReturn, Transmits
<1>5. QED BY <1>1, <1>2, <1>3, <1>4

LEMMA ModuleAnswersKeeps ==
  ASSUME LinkInv, ModuleAnswers
  PROVE  LinkInv'
<1>1. UNCHANGED <<active, call, code, inputBuffer, packet, got, did, taken, missed, calls>>
  BY DEF ModuleAnswers
<1> USE DEF LinkInv, call, packet
<1>2. LinkTypeOK'
  BY <1>1, HandedOver DEF LinkTypeOK
<1>3. Programmed' /\ Idle'
  BY <1>1 DEF Programmed, Idle
<1>4. InSync'
  BY <1>1, HandedOver DEF InSync, DidSo
<1>5. PacketKept'
  <2>1. PICK l \in Line : line' = Append(line, l) /\ (l.text = "mac_rx" => l.data \in Downlinks)
    BY HandedOver
  <2>2. line \in Seq(Line)
    BY DEF LinkTypeOK
  <2>3. \A i \in 1..Len(line') : line'[i].text = "mac_rx" => line'[i].data \in Downlinks
    <3> SUFFICES ASSUME NEW i \in 1..Len(line'), line'[i].text = "mac_rx"
                 PROVE  line'[i].data \in Downlinks
      OBVIOUS
    <3>1. Len(line) \in Nat /\ Len(line') = Len(line) + 1 /\ line'[Len(line) + 1] = l
          /\ \A j \in 1..Len(line) : line'[j] = line[j]
      BY <2>1, <2>2, AppendProperties, LenProperties
    <3>2. CASE i = Len(line) + 1
      BY <2>1, <3>1, <3>2
    <3>3. CASE i \in 1..Len(line)
      BY <3>1, <3>3 DEF PacketKept
    <3>4. QED BY <3>1, <3>2, <3>3
  <2>4. QED BY <1>1, <2>3 DEF PacketKept
<1>6. QED BY <1>2, <1>3, <1>4, <1>5

LEMMA PrintCommandKeeps ==
  ASSUME LinkInv, PrintCommand
  PROVE  LinkInv'
<1> DEFINE s == Head(todo)
<1>1. PICK scr \in Scripts(s.cmd) :
        /\ pending' = pending \o [i \in DOMAIN scr |-> [text |-> scr[i], data |-> <<>>]]
        /\ did' = (did /\ (s.must \/ op = "setCntr" => Done(s.cmd, scr)))
  BY DEF PrintCommand
<1>2. /\ todo # <<>> /\ ~waiting /\ waiting' = TRUE
      /\ UNCHANGED <<active, op, todo, ret, code, inputBuffer, got, line, taken, missed, calls>>
      /\ UNCHANGED <<packetReceived, receivedPayloadBuffer, heard>>
  BY DEF PrintCommand, packet
<1> USE DEF LinkInv
<1>3. /\ s.cmd # "await" /\ op # "none" /\ s \in Steps
  BY <1>2, HeadTailProperties DEF Programmed, WellFormed
<1>4. scr \in Seq(Texts)
  BY <1>1, ScriptParts
<1>5. /\ pending' \in Seq(Line)
      /\ line \o pending = <<>> => AreTexts(line' \o pending', scr)
  BY <1>1, <1>2, <1>4, Answered
<1>6. LinkTypeOK'
  <2>1. did' \in BOOLEAN
    BY <1>1
  <2>2. QED BY <1>2, <1>5, <2>1 DEF LinkTypeOK
<1>7. Programmed' /\ Idle'
  BY <1>2 DEF Programmed, Idle
<1>8. InSync'
  <2> SUFFICES ASSUME missed' = 0 PROVE InSync'
    BY DEF InSync
  <2>1. /\ code' # "Overrun" /\ line \o pending = <<>> /\ DidSo(TRUE)
    BY <1>2, <1>3 DEF InSync
  <2>2. AreTexts(line' \o pending', scr)
    BY <1>5, <2>1
  <2>3. op' # "setCntr" => (did' <=> (s.must => Done(s.cmd, scr)))
    BY <1>1, <1>2, <2>1 DEF DidSo
  <2>4. Head(todo') = s /\ s.want \notin {"response", "accepted"}
    BY <1>2, <1>3 DEF Steps
  <2>5. QED BY <1>1, <1>2, <1>3, <2>1, <2>2, <2>3, <2>4 DEF InSync, DidSo
<1>9. PacketKept'
  BY <1>2 DEF PacketKept
<1>10. QED BY <1>6, <1>7, <1>8, <1>9

\* The ways to take a line: the end of a transmission, the text waited for, and
\* another one, which ends the call or does not.
LEMMA ReadCases ==
  ASSUME LinkInv, ReadLine
  PROVE  LET s == Head(todo)
             text == Head(line).text
         IN  /\ waiting /\ todo # <<>> /\ op # "none" /\ active /\ s \in Steps
             /\ 1 \in 1..Len(line) /\ line # <<>> /\ Head(line) \in Line /\ Head(line) = line[1]
             /\ line' = Tail(line) /\ Tail(line) \in Seq(Line)
             /\ \A i \in 1..Len(line') : i + 1 \in 1..Len(line) /\ line'[i] = line[i + 1]
             /\ inputBuffer' = text
             /\ UNCHANGED <<active, got, pending, did, missed, calls>>
             /\ \/ s.want = "response" /\ Response(Head(line))
                \/ /\ s.want # "response" /\ Matches(text, s.want)
                   /\ \E rest : Rests(rest) /\ GoOnWith(rest)
                   /\ packetReceived' = (packetReceived /\ s.cmd # "tx")
                   /\ UNCHANGED <<receivedPayloadBuffer, heard, code, taken>>
                \/ /\ s.want # "response" /\ ~Matches(text, s.want)
                   /\ s.must /\ Finish(FALSE)
                   /\ code' = IF s.cmd = "tx" THEN LookupMacTransmitError(text) ELSE code
                   /\ UNCHANGED <<packetReceived, receivedPayloadBuffer, heard, taken>>
                \/ /\ s.want # "response" /\ ~Matches(text, s.want)
                   /\ ~s.must /\ Rests(Tail(todo)) /\ GoOnWith(Tail(todo))
                   /\ UNCHANGED <<packetReceived, receivedPayloadBuffer, heard, code, taken>>
<1> DEFINE s == Head(todo)
           text == Head(line).text
<1> USE DEF LinkInv
<1>1. waiting /\ todo # <<>> /\ op # "none" /\ active
  BY DEF ReadLine, Programmed, Idle
<1>2. s \in Steps
  BY <1>1, HeadTailProperties DEF Programmed, WellFormed
<1>3. /\ line # <<>> /\ line' = Tail(line) /\ inputBuffer' = text
      /\ UNCHANGED <<active, got, pending, did, missed, calls>>
  BY DEF ReadLine
<1>4. /\ 1 \in 1..Len(line) /\ Head(line) \in Line /\ Head(line) = line[1] /\ Tail(line) \in Seq(Line)
      /\ \A i \in 1..Len(line') : i + 1 \in 1..Len(line) /\ line'[i] = line[i + 1]
  <2>1. line \in Seq(Line)
    BY DEF LinkTypeOK
  <2>2. Len(line) \in Nat \ {0}
    BY <1>3, <2>1, EmptySeq
  <2>3. QED BY <1>3, <2>1, <2>2, HeadTailProperties, LenProperties
<1>5. CASE s.want = "response" /\ Response(Head(line))
  BY <1>1, <1>2, <1>3, <1>4, <1>5
<1>6. CASE s.want # "response" /\ Matches(text, s.want) /\ Acknowledged(s, text) /\ taken' = taken
  <2> DEFINE rest == IF s.want = "RN" /\ text = "RN2903" THEN SetFsbChannels \o Tail(todo) ELSE Tail(todo)
  <2>1. Rests(rest)
    BY <1>1, <1>6, RestFacts
  <2>2. GoOnWith(rest)
    BY <1>6 DEF Acknowledged
  <2>3. /\ packetReceived' = (packetReceived /\ s.cmd # "tx")
        /\ UNCHANGED <<receivedPayloadBuffer, heard, code, taken>>
    BY <1>6 DEF Acknowledged
  <2> HIDE DEF rest
  <2>4. QED BY <1>1, <1>2, <1>3, <1>4, <1>6, <2>1, <2>2, <2>3
<1>7. CASE /\ s.want # "response" /\ ~Matches(text, s.want) /\ Disappointed(s, text)
           /\ UNCHANGED <<packet, taken>>
  <2>1. Rests(Tail(todo))
    BY <1>1, <1>7, RestFacts
  <2>2. QED BY <1>1, <1>2, <1>3, <1>4, <1>7, <2>1 DEF Disappointed, packet
<1>8. QED BY <1>5, <1>6, <1>7 DEF ReadLine

LEMMA ResponseFacts ==
  ASSUME LinkInv, todo # <<>>, NEW l \in Line, Response(l)
  PROVE  /\ code' \in ReturnCodes
         /\ l.text \in {"mac_tx_ok", "mac_rx", "mac_err"} => code' # "Overrun"
         /\ code' = "NoError" <=> l.text \in {"mac_tx_ok", "mac_rx"}
         /\ Finish(code' = "NoError")
         /\ IF l.text = "mac_rx" THEN OnMacRX(l) /\ taken' = FALSE
            ELSE UNCHANGED <<packetReceived, receivedPayloadBuffer, heard, taken>>
<1> DEFINE ends == [mac_rx |-> "NoError", mac_tx_ok |-> "NoError",
                    RN2483 |-> "InternalError", RN2903 |-> "InternalError"]
<1>1. code' = IF l.text \in DOMAIN ends THEN ends[l.text] ELSE LookupMacTransmitError(l.text)
  BY DEF Response
<1>2. /\ DOMAIN ends = {"mac_rx", "mac_tx_ok", "RN2483", "RN2903"}
      /\ ends["mac_rx"] = "NoError" /\ ends["mac_tx_ok"] = "NoError"
      /\ ends["RN2483"] = "InternalError" /\ ends["RN2903"] = "InternalError"
  OBVIOUS
<1> HIDE DEF ends
<1>3. l.text \in Texts
  BY DEF Line
<1>4. /\ LookupMacTransmitError(l.text) \in ReturnCodes \ {"NoError"}
      /\ l.text = "mac_err" => LookupMacTransmitError(l.text) # "Overrun"
  BY <1>3, LookupFacts
<1>5. /\ code' \in ReturnCodes
      /\ l.text \in {"mac_tx_ok", "mac_rx", "mac_err"} => code' # "Overrun"
      /\ code' = "NoError" <=> l.text \in {"mac_tx_ok", "mac_rx"}
  BY <1>1, <1>2, <1>4 DEF ReturnCodes
<1>6. Finish(code' = "NoError")
  BY DEF Response
<1>7. IF l.text = "mac_rx" THEN OnMacRX(l) /\ taken' = FALSE
      ELSE UNCHANGED <<packetReceived, receivedPayloadBuffer, heard, taken>>
  BY DEF Response, packet
<1>8. QED BY <1>5, <1>6, <1>7

\* What is copied out of a downlink.
LEMMA OnMacRXFacts ==
  ASSUME LinkInv, NEW l \in Line, OnMacRX(l), l.data \in Downlinks
  PROVE  /\ packetReceived' = TRUE /\ heard' = l.data
         /\ receivedPayloadBuffer' \in [1..PayloadCap -> {0} \cup UNION {Range(d) : d \in Downlinks}]
         /\ \A i \in 1..PayloadCap :
              /\ i <= Len(heard') => receivedPayloadBuffer'[i] = heard'[i]
              /\ i = Len(heard') + 1 => receivedPayloadBuffer'[i] = 0
<1> DEFINE Bytes == {0} \cup UNION {Range(d) : d \in Downlinks}
<1>1. /\ packetReceived' = TRUE /\ heard' = l.data
      /\ receivedPayloadBuffer' =
           [i \in 1..PayloadCap |->
              IF i <= Len(l.data) THEN l.data[i]
              ELSE IF i = Len(l.data) + 1 THEN 0 ELSE receivedPayloadBuffer[i]]
  BY DEF OnMacRX
<1>2. l.data \in Seq(Nat \ {0}) /\ Len(l.data) \in Nat /\ DOMAIN l.data = 1..Len(l.data)
  BY DownlinksAssumption, LenProperties
<1>3. \A i \in 1..PayloadCap : i <= Len(l.data) => l.data[i] \in Bytes
  <2> SUFFICES ASSUME NEW i \in 1..PayloadCap, i <= Len(l.data) PROVE l.data[i] \in Bytes
    OBVIOUS
  <2>1. l.data[i] \in Range(l.data)
    BY <1>2, SizesAssumption DEF Range
  <2>2. QED BY <2>1
<1>4. \A i \in 1..PayloadCap : receivedPayloadBuffer[i] \in Bytes
  BY DEF LinkInv, LinkTypeOK
<1>5. 0 \in Bytes
  OBVIOUS
<1> HIDE DEF Bytes
<1>6. receivedPayloadBuffer' \in [1..PayloadCap -> Bytes]
  BY <1>1, <1>3, <1>4, <1>5
<1>7. \A i \in 1..PayloadCap :
        /\ i <= Len(l.data) => receivedPayloadBuffer'[i] = l.data[i]
        /\ i = Len(l.data) + 1 => receivedPayloadBuffer'[i] = 0
  BY <1>1, <1>2, SizesAssumption
<1>8. QED BY <1>1, <1>6, <1>7 DEF Bytes

\* The ways to go on after a line that is not the end of a transmission.
LEMMA ReadTyped ==
  ASSUME LinkInv, ReadLine
  PROVE  LinkTypeOK' /\ Programmed' /\ Idle'
<1> DEFINE s == Head(todo)
           text == Head(line).text
           Bytes == {0} \cup UNION {Range(d) : d \in Downlinks}
<1>1. /\ todo # <<>> /\ op # "none" /\ active /\ active' = active
      /\ Head(line) \in Line /\ text \in Texts /\ line' \in Seq(Line) /\ inputBuffer' = text
      /\ UNCHANGED <<got, pending, did, missed, calls>>
  BY ReadCases DEF Line
<1>2. /\ active' \in BOOLEAN /\ inputBuffer' \in Texts \cup {NoLine} /\ line' \in Seq(Line)
      /\ pending' \in Seq(Line) /\ did' \in BOOLEAN /\ missed' \in 0..MaxMissed /\ calls' \in 0..MaxCalls
  BY <1>1 DEF LinkInv, LinkTypeOK
<1>3. SUFFICES /\ waiting' \in BOOLEAN /\ packetReceived' \in BOOLEAN /\ taken' \in BOOLEAN
               /\ op' \in Calls \cup {"none"} /\ ret' \in [call : Calls \cup {"none"}, val : BOOLEAN]
               /\ code' \in ReturnCodes /\ receivedPayloadBuffer' \in [1..PayloadCap -> Bytes]
               /\ Programmed' /\ (ret'.call # "none" => op' = "none")
  BY <1>1, <1>2 DEF LinkTypeOK, Idle
<1>4. /\ packetReceived \in BOOLEAN /\ taken \in BOOLEAN /\ code \in ReturnCodes
      /\ receivedPayloadBuffer \in [1..PayloadCap -> Bytes] /\ op \in Calls
      /\ (ret.call # "none" => op = "none")
  BY <1>1 DEF LinkInv, LinkTypeOK, Idle
<1>0. ASSUME NEW v \in BOOLEAN, Finish(v)
      PROVE  /\ waiting' \in BOOLEAN /\ op' \in Calls \cup {"none"} /\ Programmed'
             /\ ret' \in [call : Calls \cup {"none"}, val : BOOLEAN]
             /\ ret'.call # "none" => op' = "none"
  BY <1>0, <1>1, FinishFacts
<1>5. CASE s.want = "response" /\ Response(Head(line))
  <2>1. code' \in ReturnCodes /\ Finish(code' = "NoError") /\ (code' = "NoError") \in BOOLEAN
    BY <1>1, <1>5, ResponseFacts
  <2>2. /\ packetReceived' \in BOOLEAN /\ taken' \in BOOLEAN
        /\ receivedPayloadBuffer' \in [1..PayloadCap -> Bytes]
    <3>1. CASE text = "mac_rx"
      <4>1. Head(line).data \in Downlinks
        <5>1. 1 \in 1..Len(line) /\ Head(line) = line[1]
          BY ReadCases
        <5>2. QED BY <3>1, <5>1 DEF LinkInv, PacketKept
      <4>2. QED BY <1>1, <1>5, <3>1, <4>1, ResponseFacts, OnMacRXFacts
    <3>2. CASE text # "mac_rx"
      BY <1>1, <1>4, <1>5, <3>2, ResponseFacts
    <3>3. QED BY <3>1, <3>2
  <2>3. QED BY <1>0, <2>1, <2>2
<1>6. ASSUME NEW rest, Rests(rest), GoOnWith(rest)
      PROVE  /\ waiting' \in BOOLEAN /\ op' \in Calls \cup {"none"} /\ Programmed'
             /\ ret' \in [call : Calls \cup {"none"}, val : BOOLEAN]
             /\ ret'.call # "none" => op' = "none"
  <2>1. waiting' \in BOOLEAN
    BY <1>6 DEF GoOnWith, Finish
  <2>2. QED BY <1>1, <1>4, <1>6, <2>1, GoOnFacts
<1>7. CASE s.want # "response" /\ ~(s.must /\ ~Matches(text, s.want))
  <2>1. /\ \E rest : Rests(rest) /\ GoOnWith(rest)
        /\ packetReceived' \in {packetReceived, FALSE}
        /\ UNCHANGED <<receivedPayloadBuffer, code, taken>>
    BY <1>4, <1>7, ReadCases
  <2>2. QED BY <1>4, <1>6, <2>1
<1>8. CASE s.want # "response" /\ s.must /\ ~Matches(text, s.want)
  <2>1. /\ Finish(FALSE) /\ code' = IF s.cmd = "tx" THEN LookupMacTransmitError(text) ELSE code
        /\ UNCHANGED <<packetReceived, receivedPayloadBuffer, taken>>
    BY <1>8, ReadCases
  <2>2. code' \in ReturnCodes
    BY <1>1, <1>4, <2>1, LookupFacts
  <2>3. QED BY <1>0, <1>4, <2>1, <2>2
<1>9. QED BY <1>5, <1>7, <1>8, ReadCases

\* Nothing more is on the way when the module has said all and nothing is awaited.
LEMMA InSyncAfter ==
  ASSUME LinkInv, todo # <<>>, NEW rest, Rests(rest), GoOnWith(rest), code' # "Overrun", op # "none",
         line' \o pending' = <<>>, rest # <<>> => Head(rest).cmd # "await", op # "setCntr" => did'
  PROVE  InSync'
<1>1. ~waiting' /\ op' \in {op, "none"}
  <2>1. CASE rest = <<>>
    BY <2>1, GoOnFacts
  <2>2. CASE rest # <<>>
    BY <2>2, GoOnFacts
  <2>3. QED BY <2>1, <2>2
<1>2. QED BY <1>1 DEF InSync, DidSo

LEMMA ReadInSync ==
  ASSUME LinkInv, ReadLine
  PROVE  InSync'
<1> DEFINE s == Head(todo)
           text == Head(line).text
<1> SUFFICES ASSUME missed' = 0 PROVE InSync'
  BY DEF InSync
<1>1. /\ missed = 0 /\ waiting /\ todo # <<>> /\ op # "none" /\ s \in Steps /\ line # <<>>
      /\ Head(line) \in Line /\ line' \o pending' = Tail(line) \o pending /\ did' = did /\ did \in BOOLEAN
  BY ReadCases DEF LinkInv, LinkTypeOK
<1>2. code # "Overrun"
  BY <1>1 DEF LinkInv, InSync
<1>3. \A scr : AreTexts(line \o pending, scr) =>
        /\ text = scr[1]
        /\ Len(scr) = 1 => Tail(line) \o pending = <<>>
        /\ Len(scr) = 2 => AreTexts(Tail(line) \o pending, <<scr[2]>>)
  BY <1>1, FirstRead DEF LinkInv
<1>4. ASSUME NEW r, AreTexts(line \o pending, <<r>>)
      PROVE  text = r /\ line' \o pending' = <<>>
  <2>1. Len(<<r>>) = 1 /\ <<r>>[1] = r
    OBVIOUS
  <2>2. QED BY <1>1, <1>3, <1>4, <2>1
<1>5. ASSUME NEW v \in BOOLEAN, Finish(v), line' \o pending' = <<>>, code' # "Overrun"
      PROVE  InSync'
  <2>1. op' = "none" /\ waiting' = FALSE
    BY <1>1, <1>5, FinishFacts
  <2>2. QED BY <1>5, <2>1 DEF InSync
\* The end of a transmission.
<1>6. CASE s.want = "response"
  <2>1. PICK r \in {"mac_tx_ok", "mac_rx", "mac_err"} : AreTexts(line \o pending, <<r>>)
    BY <1>1, <1>6 DEF LinkInv, InSync
  <2>2. text = r /\ line' \o pending' = <<>>
    BY <1>4, <2>1
  <2>3. Response(Head(line))
    BY <1>6, ReadCases
  <2>4. code' # "Overrun" /\ Finish(code' = "NoError") /\ (code' = "NoError") \in BOOLEAN
    BY <1>1, <2>2, <2>3, ResponseFacts
  <2>5. QED BY <1>5, <2>2, <2>4
\* The end of a join.
<1>7. CASE s.want = "accepted"
  <2>1. PICK r \in {"accepted", "denied"} : AreTexts(line \o pending, <<r>>) /\ DidSo(r = "accepted")
    BY <1>1, <1>7 DEF LinkInv, InSync
  <2>2. text = r /\ line' \o pending' = <<>>
    BY <1>4, <2>1
  <2>3. s.must /\ s.cmd = "await"
    BY <1>1, <1>7 DEF Steps
  <2>4. Matches(text, s.want) <=> r = "accepted"
    BY <1>7, <2>2 DEF Matches
  <2>5. CASE r = "accepted"
    <3>1. PICK rest : Rests(rest) /\ GoOnWith(rest) /\ code' = code
      BY <1>7, <2>4, <2>5, ReadCases
    <3>2. rest # <<>> => Head(rest).cmd # "await"
      <4>1. rest # <<>> => Head(rest) \in Steps /\ Succeeds(s, Head(rest))
        BY <1>1, <3>1, GoOnFacts DEF Rests, Follows
      <4>2. QED BY <2>3, <4>1 DEF Succeeds, Steps
    <3>3. op # "setCntr" => did'
      BY <1>1, <2>1, <2>5 DEF DidSo
    <3>4. QED BY <1>1, <1>2, <2>2, <3>1, <3>2, <3>3, InSyncAfter
  <2>6. CASE r # "accepted"
    <3>1. Finish(FALSE) /\ code' = code
      BY <1>7, <2>3, <2>4, <2>6, ReadCases
    <3>2. QED BY <1>2, <1>5, <2>2, <3>1
  <2>7. QED BY <2>5, <2>6
\* The first answer to a command.
<1>8. CASE s.want \notin {"response", "accepted"}
  <2>1. s.cmd # "await"
    BY <1>1, <1>8 DEF Steps
  <2>2. PICK scr \in Scripts(s.cmd) :
          AreTexts(line \o pending, scr) /\ DidSo(s.must => Done(s.cmd, scr))
    BY <1>1, <2>1 DEF LinkInv, InSync
  <2>3. text = scr[1] /\ scr \in Seq(Texts)
    BY <1>3, <2>2, ScriptParts
  <2>4. CASE Len(scr) # 1
    <3>1. /\ Len(scr) = 2 /\ Matches(text, s.want) /\ s.must
          /\ \/ /\ s.cmd = "tx" /\ scr[2] \in {"mac_tx_ok", "mac_rx", "mac_err"}
                /\ Done(s.cmd, scr) <=> scr[2] # "mac_err"
             \/ /\ s.cmd = "join" /\ scr[2] \in {"accepted", "denied"}
                /\ Done(s.cmd, scr) <=> scr[2] = "accepted"
      BY <1>1, <2>1, <2>2, <2>3, <2>4, SecondAnswer
    <3>2. AreTexts(line' \o pending', <<scr[2]>>)
      BY <1>1, <1>3, <2>2, <3>1
    <3>3. PICK rest : Rests(rest) /\ GoOnWith(rest) /\ code' = code
      BY <1>8, <3>1, ReadCases
    <3>4. /\ rest # <<>> /\ op' = op /\ todo' = rest /\ Head(rest) \in Steps
          /\ waiting' <=> Head(rest).cmd = "await"
          /\ s.cmd = "tx" <=> Head(rest).want = "response"
          /\ s.cmd = "join" <=> Head(rest).want = "accepted"
      BY <1>1, <3>1, <3>3, GoOnFacts DEF Rests, Follows, Succeeds
    <3>5. Head(rest).cmd = "await" /\ waiting'
      BY <3>1, <3>4 DEF Steps
    <3>6. op # "setCntr" => (did' <=> Done(s.cmd, scr))
      BY <1>1, <2>2, <3>1 DEF DidSo
    <3>7. QED BY <1>2, <3>1, <3>2, <3>3, <3>4, <3>5, <3>6 DEF InSync, DidSo
  <2>5. CASE Len(scr) = 1
    <3>1. /\ Matches(text, s.want) <=> Done(s.cmd, scr)
          /\ Matches(text, s.want) => s.cmd \notin {"tx", "join"}
          /\ s.cmd = "tx" => text \in Refusals
      BY <1>1, <2>1, <2>2, <2>3, <2>5, OnlyAnswer
    <3>2. line' \o pending' = <<>>
      BY <1>1, <1>3, <2>2, <2>5
    <3>3. CASE ~Matches(text, s.want) /\ s.must
      <4>1. Finish(FALSE) /\ code' = IF s.cmd = "tx" THEN LookupMacTransmitError(text) ELSE code
        BY <1>8, <3>3, ReadCases
      <4>2. code' # "Overrun"
        BY <1>1, <1>2, <3>1, <4>1, LookupFacts DEF Line
      <4>3. QED BY <1>5, <3>2, <4>1, <4>2
    <3>4. CASE Matches(text, s.want) \/ ~s.must
      <4>1. PICK rest : Rests(rest) /\ GoOnWith(rest) /\ code' = code
        BY <1>8, <3>4, ReadCases
      <4>2. s.cmd \notin {"tx", "join"}
        BY <1>1, <3>1, <3>4 DEF Steps
      <4>3. rest # <<>> => Head(rest).cmd # "await"
        <5>1. rest # <<>> => Head(rest) \in Steps /\ Succeeds(s, Head(rest))
          BY <1>1, <4>1, GoOnFacts DEF Rests, Follows
        <5>2. QED BY <4>2, <5>1 DEF Succeeds, Steps
      <4>4. op # "setCntr" => did'
        BY <1>1, <2>2, <3>1, <3>4 DEF DidSo
      <4>5. QED BY <1>1, <1>2, <3>2, <4>1, <4>3, <4>4, InSyncAfter
    <3>5. QED BY <3>3, <3>4
  <2>6. QED BY <2>4, <2>5
<1>9. QED BY <1>6, <1>7, <1>8

\* A call that goes on leaves the packet alone, or gets ready for a new one.
LEMMA PacketAfter ==
  ASSUME LinkInv, todo # <<>>, op # "none", Head(todo) \in Steps, NEW rest, Rests(rest), GoOnWith(rest),
         packetReceived' => packetReceived /\ Head(todo).cmd # "tx",
         UNCHANGED <<receivedPayloadBuffer, heard, taken>>,
         \A i \in 1..Len(line') : line'[i].text = "mac_rx" => line'[i].data \in Downlinks
  PROVE  PacketKept'
<1>1. packetReceived' =>
        /\ heard' \in Downlinks
        /\ \A i \in 1..PayloadCap :
             /\ i <= Len(heard') => receivedPayloadBuffer'[i] = heard'[i]
             /\ i = Len(heard') + 1 => receivedPayloadBuffer'[i] = 0
  BY DEF LinkInv, PacketKept
<1>2. todo' # <<>> /\ Head(todo').want = "response" => ~packetReceived'
  BY GoOnFacts DEF Rests, Follows, Succeeds
<1>3. ret'.call \in Transmits /\ ret'.val /\ packetReceived' => ~taken'
  <2>1. CASE rest = <<>>
    BY <2>1, GoOnFacts
  <2>2. CASE rest # <<>>
    BY <2>2, GoOnFacts DEF LinkInv, PacketKept
  <2>3. QED BY <2>1, <2>2
<1>4. QED BY <1>1, <1>2, <1>3 DEF PacketKept

\* A call that ends leaves no step, and if it did not succeed nothing to receive.
LEMMA PacketAfterFinish ==
  ASSUME LinkInv, todo # <<>>, NEW v \in BOOLEAN, Finish(v), v /\ packetReceived' => ~taken',
         packetReceived' =>
           /\ heard' \in Downlinks
           /\ \A i \in 1..PayloadCap :
                /\ i <= Len(heard') => receivedPayloadBuffer'[i] = heard'[i]
                /\ i = Len(heard') + 1 => receivedPayloadBuffer'[i] = 0,
         \A i \in 1..Len(line') : line'[i].text = "mac_rx" => line'[i].data \in Downlinks
  PROVE  PacketKept'
<1>1. todo' = <<>> /\ ret'.val = v
  BY FinishFacts
<1>2. QED BY <1>1 DEF PacketKept

LEMMA ReadPacketKept ==
  ASSUME LinkInv, ReadLine
  PROVE  PacketKept'
<1> DEFINE s == Head(todo)
           text == Head(line).text
<1>1. /\ todo # <<>> /\ op # "none" /\ s \in Steps /\ Head(line) \in Line
      /\ 1 \in 1..Len(line) /\ Head(line) = line[1]
      /\ \A i \in 1..Len(line') : i + 1 \in 1..Len(line) /\ line'[i] = line[i + 1]
  BY ReadCases
<1>2. /\ \A i \in 1..Len(line') : line'[i].text = "mac_rx" => line'[i].data \in Downlinks
      /\ text = "mac_rx" => Head(line).data \in Downlinks
  BY <1>1 DEF LinkInv, PacketKept
<1>3. packetReceived =>
        /\ heard \in Downlinks
        /\ \A i \in 1..PayloadCap :
             /\ i <= Len(heard) => receivedPayloadBuffer[i] = heard[i]
             /\ i = Len(heard) + 1 => receivedPayloadBuffer[i] = 0
  BY DEF LinkInv, PacketKept
<1>4. CASE s.want = "response" /\ Response(Head(line))
  <2>1. /\ Finish(code' = "NoError") /\ (code' = "NoError") \in BOOLEAN
        /\ code' = "NoError" <=> text \in {"mac_tx_ok", "mac_rx"}
    BY <1>1, <1>4, ResponseFacts
  <2>2. CASE text = "mac_rx"
    <3>1. OnMacRX(Head(line)) /\ taken' = FALSE
      BY <1>1, <1>4, <2>2, ResponseFacts
    <3>2. /\ heard' \in Downlinks
          /\ \A i \in 1..PayloadCap :
               /\ i <= Len(heard') => receivedPayloadBuffer'[i] = heard'[i]
               /\ i = Len(heard') + 1 => receivedPayloadBuffer'[i] = 0
      BY <1>1, <1>2, <2>2, <3>1, OnMacRXFacts
    <3>3. QED BY <1>1, <1>2, <2>1, <3>1, <3>2, PacketAfterFinish
  <2>3. CASE text # "mac_rx"
    <3>1. UNCHANGED <<packetReceived, receivedPayloadBuffer, heard, taken>>
      BY <1>1, <1>4, <2>3, ResponseFacts
    <3>2. ~packetReceived
      BY <1>1, <1>4 DEF LinkInv, PacketKept
    <3>3. QED BY <1>1, <1>2, <2>1, <3>1, <3>2, PacketAfterFinish
  <2>4. QED BY <2>2, <2>3
<1>5. CASE s.want # "response" /\ Matches(text, s.want)
  <2>1. /\ \E rest : Rests(rest) /\ GoOnWith(rest)
        /\ packetReceived' = (packetReceived /\ s.cmd # "tx")
        /\ UNCHANGED <<receivedPayloadBuffer, heard, taken>>
    BY <1>5, ReadCases
  <2>2. QED BY <1>1, <1>2, <2>1, PacketAfter
<1>6. CASE s.want # "response" /\ ~Matches(text, s.want) /\ s.must
  <2>1. /\ Finish(FALSE)
        /\ UNCHANGED <<packetReceived, receivedPayloadBuffer, heard, taken>>
    BY <1>6, ReadCases
  <2>2. QED BY <1>1, <1>2, <1>3, <2>1, PacketAfterFinish
<1>7. CASE s.want # "response" /\ ~Matches(text, s.want) /\ ~s.must
  <2>1. /\ Rests(Tail(todo)) /\ GoOnWith(Tail(todo))
        /\ UNCHANGED <<packetReceived, receivedPayloadBuffer, heard, taken>>
    BY <1>7, ReadCases
  <2>2. s.cmd # "tx"
    BY <1>1, <1>7 DEF Steps
  <2>3. QED BY <1>1, <1>2, <2>1, <2>2, PacketAfter
<1>8. QED BY <1>4, <1>5, <1>6, <1>7, ReadCases

LEMMA TimeOutKeeps ==
  ASSUME LinkInv, TimeOut
  PROVE  LinkInv'
<1> DEFINE s == Head(todo)
<1>1. /\ todo # <<>> /\ op \in Calls /\ op # "none" /\ active /\ s \in Steps
      /\ missed' \in 0..MaxMissed /\ missed' # 0
      /\ UNCHANGED <<active, inputBuffer, got, pending, line, did, taken, calls>>
      /\ UNCHANGED <<packetReceived, receivedPayloadBuffer, heard>>
  <2>1. todo # <<>> /\ missed' = missed + 1 /\ missed < MaxMissed
    BY DEF TimeOut, LinkInv, Programmed
  <2>2. s \in Steps /\ op # "none"
    BY <2>1, HeadTailProperties DEF LinkInv, Programmed, WellFormed
  <2>3. missed' \in 0..MaxMissed /\ missed' # 0
    BY <2>1, SizesAssumption DEF LinkInv, LinkTypeOK
  <2>4. QED BY <2>1, <2>2, <2>3 DEF TimeOut, LinkInv, LinkTypeOK, Idle, packet
<1>2. code \in ReturnCodes /\ inputBuffer \in Texts \cup {NoLine}
  BY DEF LinkInv, LinkTypeOK
<1>3. \/ /\ Finish(FALSE) /\ code' \in ReturnCodes
      \/ /\ s.cmd # "tx" /\ code' = code
         /\ Rests(Tail(todo)) /\ GoOnWith(Tail(todo))
  <2>1. CASE s.want = "response"
    BY <2>1 DEF TimeOut, ReturnCodes
  <2>2. CASE s.want # "response" /\ s.must
    BY <1>2, <2>2, LookupFacts DEF TimeOut, Disappointed
  <2>3. CASE s.want # "response" /\ ~s.must
    <3>1. s.cmd # "tx"
      BY <1>1, <2>3 DEF Steps
    <3>2. QED BY <1>1, <2>3, <3>1, RestFacts DEF TimeOut, Disappointed
  <2>4. QED BY <2>1, <2>2, <2>3
<1>4. /\ \A i \in 1..Len(line') : line'[i].text = "mac_rx" => line'[i].data \in Downlinks
      /\ packetReceived =>
           /\ heard \in Downlinks
           /\ \A i \in 1..PayloadCap :
                /\ i <= Len(heard) => receivedPayloadBuffer[i] = heard[i]
                /\ i = Len(heard) + 1 => receivedPayloadBuffer[i] = 0
  BY <1>1 DEF LinkInv, PacketKept
<1>5. /\ waiting' \in BOOLEAN /\ op' \in Calls \cup {"none"} /\ code' \in ReturnCodes /\ Programmed' /\ PacketKept'
      /\ ret' \in [call : Calls \cup {"none"}, val : BOOLEAN] /\ (ret'.call # "none" => op' = "none")
  <2>1. CASE Finish(FALSE) /\ code' \in ReturnCodes
    <3>1. PacketKept'
      BY <1>1, <1>4, <2>1, PacketAfterFinish
    <3>2. QED BY <1>1, <2>1, <3>1, FinishFacts
  <2>2. CASE s.cmd # "tx" /\ code' = code /\ Rests(Tail(todo)) /\ GoOnWith(Tail(todo))
    <3>1. PacketKept'
      BY <1>1, <1>4, <2>2, PacketAfter
    <3>2. waiting' \in BOOLEAN
      BY <2>2 DEF GoOnWith, Finish
    <3>3. ret.call # "none" => op = "none"
      BY DEF LinkInv, Idle
    <3>4. QED BY <1>1, <1>2, <2>2, <3>1, <3>2, <3>3, GoOnFacts
  <2>3. QED BY <1>3, <2>1, <2>2
<1>6. LinkTypeOK'
  BY <1>1, <1>5 DEF LinkInv, LinkTypeOK
<1>7. Idle' /\ InSync'
  BY <1>1, <1>5 DEF Idle, InSync
<1>8. QED BY <1>5, <1>6, <1>7 DEF LinkInv

\* Every call, answer, late answer and time limit of Sodaq_RN2483.cpp keeps the
\* line in step with the call until a limit is missed, and the packet whole.
THEOREM LinkInvariant == Spec => []LinkInv
<1>1. ASSUME LinkInv, [Next]_vars PROVE LinkInv'
  <2>1. CASE \E o \in Calls : Call(o)
    BY <1>1, <2>1, CallKeeps
  <2>2. CASE WakeUp
    BY <1>1, <2>2, WakeUpKeeps
  <2>3. CASE Sleep
    BY <1>1, <2>3, SleepKeeps
  <2>4. CASE PrintCommand
    BY <1>1, <2>4, PrintCommandKeeps
  <2>5. CASE ReadLine
    BY <1>1, <2>5, ReadTyped, ReadInSync, ReadPacketKept DEF LinkInv
  <2>6. CASE TimeOut
    BY <1>1, <2>6, TimeOutKeeps
  <2>7. CASE Receive
    BY <1>1, <2>7, ReceiveKeeps
  <2>8. CASE ModuleAnswers
    BY <1>1, <2>8, ModuleAnswersKeeps
  <2>9. CASE UNCHANGED vars
    BY <1>1, <2>9 DEF LinkInv, LinkTypeOK, Programmed, Idle, InSync, DidSo, PacketKept, vars, call, packet
  <2>10. QED BY <1>1, <2>1, <2>2, <2>3, <2>4, <2>5, <2>6, <2>7, <2>8, <2>9 DEF Next
<1>2. QED BY LinkInit, <1>1, PTL DEF Spec

\* No step of the driver or the module leaves the types of the variables.
THEOREM TypeCorrect == Spec => []TypeOK
<1>1. ReturnCodes \subseteq Range(ErrorTable) \cup {"NoError", "NoResponse", "Timeout", "Overrun"}
  <2>1. \A t \in DOMAIN ErrorTable : ErrorTable[t] \in Range(ErrorTable)
    BY DEF Range
  <2>2. /\ "invalid_param" \in DOMAIN ErrorTable /\ "not_joined" \in DOMAIN ErrorTable
        /\ "busy" \in DOMAIN ErrorTable /\ "mac_err" \in DOMAIN ErrorTable
        /\ "frame_counter_err_rejoin_needed" \in DOMAIN ErrorTable
        /\ "invalid_data_len" \in DOMAIN ErrorTable
    BY DEF ErrorTable
  <2>3. /\ ErrorTable["invalid_param"] = "InternalError" /\ ErrorTable["not_joined"] = "NotConnected"
        /\ ErrorTable["busy"] = "Busy" /\ ErrorTable["mac_err"] = "NoAcknowledgment"
        /\ ErrorTable["frame_counter_err_rejoin_needed"] = "NetworkFatalError"
        /\ ErrorTable["invalid_data_len"] = "PayloadSizeError"
    BY DEF ErrorTable
  <2>4. /\ "InternalError" \in Range(ErrorTable) /\ "NotConnected" \in Range(ErrorTable)
        /\ "Busy" \in Range(ErrorTable) /\ "NoAcknowledgment" \in Range(ErrorTable)
        /\ "NetworkFatalError" \in Range(ErrorTable) /\ "PayloadSizeError" \in Range(ErrorTable)
    BY <2>1, <2>2, <2>3
  <2>5. QED BY <2>4 DEF ReturnCodes
<1>2. LinkInv => TypeOK
  BY <1>1 DEF LinkInv, LinkTypeOK, Programmed, TypeOK
<1>3. QED BY LinkInvariant, <1>2, PTL

\* As long as every answer came in time, lookupMacTransmitError() was given a
\* text that its table has: the search without an end mark ends in the table.
THEOREM OverrunIsLate == Spec => []NoTableOverrun
<1>1. LinkInv => NoTableOverrun
  BY SizesAssumption DEF LinkInv, LinkTypeOK, InSync, NoTableOverrun
<1>2. QED BY LinkInvariant, <1>1, PTL

-----------------------------------------------------------------------------
(* The downlink                                                            *)

LEMMA PrefixFacts ==
  ASSUME NEW S, NEW s \in Seq(S), NEW n \in Nat
  PROVE  /\ Prefix(s, n) \in Seq(S)
         /\ Len(Prefix(s, n)) = IF Len(s) < n THEN Len(s) ELSE n
         /\ \A i \in 1..Len(Prefix(s, n)) : i \in 1..Len(s) /\ Prefix(s, n)[i] = s[i]
<1> DEFINE m == IF Len(s) < n THEN Len(s) ELSE n
<1>1. m \in 0..Len(s) /\ \A i \in 1..m : s[i] \in S /\ i \in 1..Len(s)
  BY LenProperties, ElementOfSeq
<1>2. Prefix(s, n) = SubSeq(s, 1, m)
  BY DEF Prefix
<1> HIDE DEF m
<1>3. /\ SubSeq(s, 1, m) \in Seq(S) /\ Len(SubSeq(s, 1, m)) = m
      /\ \A i \in 1..m : SubSeq(s, 1, m)[i] = s[i]
  BY <1>1, SubSeqProperties
<1>4. QED BY <1>1, <1>2, <1>3 DEF m

\* The first of the numbers of a set that has one.
LEMMA MinIs ==
  ASSUME NEW E \in SUBSET Nat, NEW e \in E, \A i \in E : e <= i
  PROVE  Min(E) = e
<1>1. \E x \in E : \A y \in E : x =< y
  OBVIOUS
<1>2. Min(E) \in E /\ \A y \in E : Min(E) =< y
  BY <1>1, Zenon DEF Min
<1>3. \A x \in E : (\A y \in E : x =< y) => x = e
  OBVIOUS
<1>4. QED BY <1>2, <1>3, Zenon

\* What receive() takes from the buffer is the beginning of the packet in it.
LEMMA ReceivedIsHeard ==
  ASSUME LinkInv, packetReceived
  PROVE  Received = Prefix(heard, IF RecvSize < PayloadCap THEN RecvSize ELSE PayloadCap)
<1> DEFINE cap == IF RecvSize < PayloadCap THEN RecvSize ELSE PayloadCap
           room == Prefix(receivedPayloadBuffer, RecvSize)
           ends == {i \in DOMAIN room : room[i] = 0}
           fit == Prefix(heard, cap)
<1>1. cap \in Nat \ {0} /\ cap <= PayloadCap /\ PayloadCap \in Nat /\ RecvSize \in Nat
  BY SizesAssumption
<1>2. /\ heard \in Seq(Nat \ {0}) /\ Len(heard) \in Nat
      /\ \A i \in 1..Len(heard) : heard[i] \in Nat \ {0}
  BY DownlinksAssumption, LenProperties, ElementOfSeq DEF LinkInv, PacketKept
<1>3. receivedPayloadBuffer \in Seq(Nat) /\ Len(receivedPayloadBuffer) = PayloadCap
  <2>1. {0} \cup UNION {Range(d) : d \in Downlinks} \subseteq Nat
    <3>1. ASSUME NEW d \in Downlinks PROVE Range(d) \subseteq Nat
      BY DownlinksAssumption, LenProperties, ElementOfSeq DEF Range
    <3>2. QED BY <3>1
  <2>2. receivedPayloadBuffer \in [1..PayloadCap -> Nat]
    BY <2>1 DEF LinkInv, LinkTypeOK
  <2>3. QED BY <2>2, <1>1
<1>4. /\ room \in Seq(Nat) /\ Len(room) = cap /\ DOMAIN room = 1..cap
      /\ \A i \in 1..cap : i \in 1..PayloadCap /\ room[i] = receivedPayloadBuffer[i]
  <2>1. receivedPayloadBuffer \in Seq(Nat) /\ RecvSize \in Nat
    BY <1>1, <1>3
  <2>2. /\ room \in Seq(Nat)
        /\ Len(room) = IF Len(receivedPayloadBuffer) < RecvSize THEN Len(receivedPayloadBuffer)
                       ELSE RecvSize
        /\ \A i \in 1..Len(room) :
             i \in 1..Len(receivedPayloadBuffer) /\ room[i] = receivedPayloadBuffer[i]
    BY <2>1, PrefixFacts
  <2>3. Len(room) = cap
    BY <1>1, <1>3, <2>2
  <2> HIDE DEF room, cap
  <2>4. QED BY <1>3, <2>2, <2>3, LenProperties
<1>5. \A i \in 1..cap : /\ i <= Len(heard) => room[i] = heard[i]
                        /\ i = Len(heard) + 1 => room[i] = 0
  BY <1>4 DEF LinkInv, PacketKept
<1>6. /\ fit \in Seq(Nat \ {0}) /\ Len(fit) = IF Len(heard) < cap THEN Len(heard) ELSE cap
      /\ \A i \in 1..Len(fit) : i \in 1..Len(heard) /\ fit[i] = heard[i]
  <2>1. cap \in Nat /\ heard \in Seq(Nat \ {0})
    BY <1>1, <1>2
  <2> HIDE DEF cap
  <2>2. QED BY <2>1, PrefixFacts
<1>7. Received = Prefix(room, IF ends = {} THEN Len(room) ELSE Min(ends) - 1)
  BY DEF Received
<1>8. fit \in Seq(Nat)
  BY <1>6
<1> HIDE DEF cap, room, ends, fit
<1>9. (IF ends = {} THEN Len(room) ELSE Min(ends) - 1) = Len(fit)
  <2>1. CASE Len(heard) < cap
    <3>1. Len(heard) + 1 \in ends /\ ends \in SUBSET Nat
      BY <1>1, <1>2, <1>4, <1>5, <2>1 DEF ends
    <3>2. ASSUME NEW i \in ends PROVE Len(heard) + 1 <= i
      <4>1. i \in 1..cap /\ room[i] = 0
        BY <1>4 DEF ends
      <4>2. ~(i <= Len(heard))
        <5>1. SUFFICES ASSUME i <= Len(heard) PROVE FALSE
          OBVIOUS
        <5>2. room[i] = heard[i] /\ i \in 1..Len(heard)
          BY <1>5, <4>1, <5>1
        <5>3. QED BY <1>2, <4>1, <5>2
      <4>3. QED BY <1>1, <1>2, <4>1, <4>2
    <3>3. Min(ends) = Len(heard) + 1
      BY <3>1, <3>2, MinIs
    <3>4. QED BY <1>2, <1>6, <2>1, <3>1, <3>3
  <2>2. CASE ~(Len(heard) < cap)
    <3>1. ends = {}
      BY <1>1, <1>2, <1>4, <1>5, <2>2 DEF ends
    <3>2. QED BY <1>4, <1>6, <2>2, <3>1
  <2>3. QED BY <2>1, <2>2
<1>10. Len(fit) \in Nat /\ Len(fit) <= cap
  BY <1>1, <1>2, <1>6
<1>11. /\ Received \in Seq(Nat) /\ Len(Received) = Len(fit)
       /\ \A i \in 1..Len(Received) : i \in 1..cap /\ Received[i] = room[i]
  BY <1>4, <1>7, <1>9, <1>10, PrefixFacts
<1>12. \A i \in 1..Len(Received) : Received[i] = fit[i]
  BY <1>2, <1>5, <1>6, <1>11
<1>13. QED BY <1>8, <1>11, <1>12, SeqEqual DEF fit, cap

\* However late the module's lines are, receive() gives a downlink that it has
\* not given yet, and the beginning of it as onMacRX() heard it.
THEOREM DownlinkGivenOnce == Spec => DownlinkOnce
<1>1. ASSUME LinkInv, Receive, got' # <<>>
      PROVE  /\ ~taken
             /\ got' = Prefix(heard, IF RecvSize < PayloadCap THEN RecvSize ELSE PayloadCap)
  BY <1>1, ReceivedIsHeard DEF Receive, LinkInv, PacketKept
<1>2. LinkInv => [Receive /\ got' # <<>> =>
         /\ ~taken
         /\ got' = Prefix(heard, IF RecvSize < PayloadCap THEN RecvSize ELSE PayloadCap)]_vars
  BY <1>1
<1>3. QED BY LinkInvariant, <1>2, PTL DEF DownlinkOnce

-----------------------------------------------------------------------------
(* The promise                                                             *)

\* What a step that ends the call or goes on with it is to the caller.
EndsWith(v) == op' = "none" /\ ret' = [call |-> op, val |-> v]
Continues == UNCHANGED <<op, ret>>

LEMMA FinishEnds ==
  ASSUME NEW v, Finish(v)
  PROVE  EndsWith(v)
BY DEF Finish, EndsWith

LEMMA GoOnEnds ==
  ASSUME NEW rest, GoOnWith(rest)
  PROVE  IF rest = <<>> THEN EndsWith(TRUE) ELSE Continues
BY DEF GoOnWith, Finish, EndsWith, Continues

\* The call returns what the module did.
LEMMA ReadReturns ==
  ASSUME LinkInv, ReadLine
  PROVE  \/ Continues
         \/ \E v \in BOOLEAN : EndsWith(v) /\ (missed = 0 /\ op # "setCntr" => v = did)
<1> DEFINE s == Head(todo)
           text == Head(line).text
<1>1. /\ todo # <<>> /\ waiting /\ s \in Steps /\ line # <<>> /\ Head(line) \in Line
      /\ did \in BOOLEAN
  BY ReadCases DEF LinkInv, LinkTypeOK
<1>2. ASSUME NEW scr, AreTexts(line \o pending, scr)
      PROVE  text = scr[1]
  BY <1>1, <1>2, FirstRead DEF LinkInv
<1>3. CASE s.want = "response"
  <2>1. /\ Finish(code' = "NoError") /\ (code' = "NoError") \in BOOLEAN
        /\ code' = "NoError" <=> text \in {"mac_tx_ok", "mac_rx"}
    BY <1>1, <1>3, ReadCases, ResponseFacts
  <2>2. ASSUME missed = 0, op # "setCntr" PROVE (code' = "NoError") = did
    <3>1. PICK r \in {"mac_tx_ok", "mac_rx", "mac_err"} :
            AreTexts(line \o pending, <<r>>) /\ DidSo(r # "mac_err")
      BY <1>1, <1>3, <2>2 DEF LinkInv, InSync
    <3>2. text = r
      BY <1>2, <3>1
    <3>3. QED BY <1>1, <2>1, <2>2, <3>1, <3>2 DEF DidSo
  <2>3. QED BY <2>1, <2>2, FinishEnds
<1>4. CASE s.want # "response" /\ Matches(text, s.want)
  <2>1. PICK rest : Rests(rest) /\ GoOnWith(rest)
    BY <1>4, ReadCases
  <2>2. CASE rest # <<>>
    BY <2>1, <2>2, GoOnEnds
  <2>3. CASE rest = <<>>
    <3>1. EndsWith(TRUE)
      BY <2>1, <2>3, GoOnEnds
    <3>2. ASSUME missed = 0, op # "setCntr" PROVE did = TRUE
      <4>1. CASE s.want = "accepted"
        <5>1. PICK r \in {"accepted", "denied"} :
                AreTexts(line \o pending, <<r>>) /\ DidSo(r = "accepted")
          BY <1>1, <3>2, <4>1 DEF LinkInv, InSync
        <5>2. text = r
          BY <1>2, <5>1
        <5>3. QED BY <1>1, <1>4, <3>2, <4>1, <5>1, <5>2 DEF DidSo, Matches
      <4>2. CASE s.want # "accepted"
        <5>1. s.cmd # "await"
          BY <1>1, <1>4, <4>2 DEF Steps
        <5>2. PICK scr \in Scripts(s.cmd) :
                AreTexts(line \o pending, scr) /\ DidSo(s.must => Done(s.cmd, scr))
          BY <1>1, <3>2, <5>1 DEF LinkInv, InSync
        <5>3. text = scr[1] /\ scr \in Seq(Texts)
          BY <1>1, <1>2, <5>1, <5>2, ScriptParts
        <5>4. s.cmd \notin {"tx", "join"}
          BY <2>1, <2>3 DEF Rests, Follows
        <5>5. Done(s.cmd, scr)
          <6>1. Len(scr) = 1
            BY <1>1, <5>1, <5>2, <5>3, <5>4, SecondAnswer
          <6>2. QED BY <1>1, <1>4, <5>1, <5>2, <5>3, <6>1, OnlyAnswer
        <5>6. QED BY <1>1, <3>2, <5>2, <5>5 DEF DidSo
      <4>3. QED BY <4>1, <4>2
    <3>3. QED BY <3>1, <3>2
  <2>4. QED BY <2>2, <2>3
<1>5. CASE s.want # "response" /\ ~Matches(text, s.want)
  <2>1. ASSUME missed = 0, op # "setCntr" PROVE did = ~s.must
    <3>1. CASE s.want = "accepted"
      <4>1. PICK r \in {"accepted", "denied"} :
              AreTexts(line \o pending, <<r>>) /\ DidSo(r = "accepted")
        BY <1>1, <2>1, <3>1 DEF LinkInv, InSync
      <4>2. text = r
        BY <1>2, <4>1
      <4>3. QED BY <1>1, <1>5, <2>1, <3>1, <4>1, <4>2 DEF DidSo, Matches, Steps
    <3>2. CASE s.want # "accepted"
      <4>1. s.cmd # "await"
        BY <1>1, <1>5, <3>2 DEF Steps
      <4>2. PICK scr \in Scripts(s.cmd) :
              AreTexts(line \o pending, scr) /\ DidSo(s.must => Done(s.cmd, scr))
        BY <1>1, <2>1, <4>1 DEF LinkInv, InSync
      <4>3. text = scr[1] /\ scr \in Seq(Texts)
        BY <1>1, <1>2, <4>1, <4>2, ScriptParts
      <4>4. ~Done(s.cmd, scr)
        <5>1. Len(scr) = 1
          BY <1>1, <1>5, <4>1, <4>2, <4>3, SecondAnswer
        <5>2. QED BY <1>1, <1>5, <4>1, <4>2, <4>3, <5>1, OnlyAnswer
      <4>5. s.must \in BOOLEAN
        BY <1>1 DEF Steps
      <4>6. QED BY <1>1, <2>1, <4>2, <4>4, <4>5 DEF DidSo
    <3>3. QED BY <3>1, <3>2
  <2>2. CASE s.must
    <3>1. EndsWith(FALSE)
      BY <1>5, <2>2, ReadCases, FinishEnds
    <3>2. QED BY <2>1, <2>2, <3>1
  <2>3. CASE ~s.must
    <3>1. Continues \/ EndsWith(TRUE)
      BY <1>5, <2>3, ReadCases, GoOnEnds
    <3>2. QED BY <2>1, <2>3, <3>1
  <2>4. QED BY <2>2, <2>3
<1>6. QED BY <1>3, <1>4, <1>5

LEMMA LinkStepKept ==
  ASSUME LinkInv, [Next]_vars
  PROVE  [Promise!Next]_Promise!vars
<1>1. did \in BOOLEAN /\ missed \in Nat /\ (~active => op = "none") /\ (ret.call # "none" => op = "none")
  BY SizesAssumption DEF LinkInv, LinkTypeOK, Idle
<1>2. ASSUME NEW o \in Calls, Call(o) PROVE Promise!Call(o)
  <2>1. /\ op = "none" /\ op' = o /\ did' = TRUE /\ ret' = NoReturn
        /\ IF o = "init" THEN missed' = 0 ELSE missed' = missed
    BY <1>2 DEF Call, NothingToCome
  <2>2. (missed' > 0) = (missed > 0 /\ o \notin {"init"})
    BY <1>1, <2>1
  <2>3. QED BY <2>1, <2>2 DEF Promise!Call, Promise!NoReturn, NoReturn
<1>3. ASSUME WakeUp PROVE Promise!WakeUp
  <2>1. op = "none" /\ missed' = 0 /\ UNCHANGED <<op, did, ret>>
    BY <1>1, <1>3 DEF WakeUp, NothingToCome, call
  <2>2. (missed' > 0) = FALSE
    BY <2>1
  <2>3. QED BY <2>1, <2>2 DEF Promise!WakeUp
<1>4. ASSUME Sleep \/ Receive PROVE Promise!Forget
  <2>1. op = "none" /\ ret' = NoReturn /\ UNCHANGED <<op, did, missed>>
    BY <1>1, <1>4 DEF Sleep, Receive, Transmits
  <2>2. QED BY <2>1 DEF Promise!Forget, Promise!NoReturn, NoReturn
<1>5. ASSUME PrintCommand PROVE Promise!Act
  <2>1. op # "none" /\ UNCHANGED <<op, ret, missed>>
    BY <1>5 DEF PrintCommand, LinkInv, Programmed
  <2>2. did' \in {did, FALSE}
    BY <1>1, <1>5 DEF PrintCommand
  <2>3. QED BY <2>1, <2>2 DEF Promise!Act
<1>6. ASSUME NEW v \in BOOLEAN, EndsWith(v), op # "none", did' = did,
             (missed' > 0) \in {missed > 0, TRUE},
             missed' > 0 \/ op \in {"setCntr"} \/ v = did
      PROVE  Promise!Return(v)
  BY <1>6 DEF EndsWith, Promise!Return
<1>7. ASSUME ReadLine PROVE (\E v \in BOOLEAN : Promise!Return(v)) \/ UNCHANGED Promise!vars
  <2>1. op # "none" /\ did' = did /\ missed' = missed
    BY <1>7, ReadCases
  <2>2. CASE Continues
    BY <2>1, <2>2 DEF Continues, Promise!vars
  <2>3. ASSUME NEW v \in BOOLEAN, EndsWith(v), missed = 0 /\ op # "setCntr" => v = did
        PROVE  Promise!Return(v)
    <3>1. missed' > 0 \/ op \in {"setCntr"} \/ v = did
      BY <1>1, <2>1, <2>3
    <3>2. (missed' > 0) \in {missed > 0, TRUE}
      BY <2>1
    <3>3. QED BY <1>6, <2>1, <2>3, <3>1, <3>2
  <2>4. QED BY <1>7, <2>2, <2>3, ReadReturns
<1>8. ASSUME TimeOut PROVE (\E v \in BOOLEAN : Promise!Return(v)) \/ Promise!Miss
  <2>1. op # "none" /\ did' = did /\ missed' = missed + 1
    BY <1>8 DEF TimeOut, LinkInv, Programmed
  <2>2. (missed' > 0) = TRUE
    BY <1>1, <2>1
  <2>3. Continues \/ EndsWith(FALSE) \/ EndsWith(TRUE)
    BY <1>8, FinishEnds, GoOnEnds DEF TimeOut, Disappointed
  <2>4. CASE Continues
    BY <2>1, <2>2, <2>4 DEF Continues, Promise!Miss
  <2>5. ASSUME NEW v \in BOOLEAN, EndsWith(v) PROVE Promise!Return(v)
    BY <1>6, <2>1, <2>2, <2>5
  <2>6. QED BY <2>3, <2>4, <2>5
<1>9. ASSUME ModuleAnswers \/ UNCHANGED vars PROVE UNCHANGED Promise!vars
  BY <1>9 DEF ModuleAnswers, vars, call, Promise!vars
<1>10. QED
  BY <1>2, <1>3, <1>4, <1>5, <1>7, <1>8, <1>9 DEF Next, Promise!Next

\* The driver implements DriverPromise for every set of downlinks and devices and
\* any number of channels: a call returns true exactly if the module did all that
\* was asked, from each wakeUp() until a limit is missed.
THEOREM DriverKeepsPromise == Spec => PromiseKept
<1>1. Init => Promise!Init
  BY DEF Init, Promise!Init, Promise!NoReturn, NoReturn
<1>2. LinkInv /\ [Next]_vars => [Promise!Next]_Promise!vars
  BY LinkStepKept
<1>3. QED BY <1>1, <1>2, LinkInvariant, PTL DEF Spec, PromiseKept, Promise!Spec
=============================================================================
