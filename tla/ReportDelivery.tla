--------------------------- MODULE ReportDelivery ---------------------------
(***************************************************************************)
(* What the main loop, the timer's events and the GPS report rely on when  *)
(* they hand a report to transmit().  It goes out a bounded number of      *)
(* times, each time under a higher counter, and no more once the result is *)
(* decided.  True means that it went out, and arrived if acknowledgments   *)
(* are asked for, unless the radio is down.  The network changes the       *)
(* configuration with the answer to a report that arrived, and nothing     *)
(* else does but a reset, which may also cut off the call.                 *)
(***************************************************************************)
EXTENDS Naturals, FiniteSets

CONSTANTS
  Repeats,       \* how often a report may be repeated
  Acknowledged,  \* reports ask for an acknowledgment
  Counters,      \* frame counters
  Configs        \* what an over-the-air configuration may choose

VARIABLES
  state,     \* "down" (being set up), "ready", "sending", "decided"
  radio,     \* LoRa is initialised
  frames,    \* counters under which the report at hand has gone out
  arrived,   \* the network has it
  verdict,   \* what has been decided to return
  config

vars == <<state, radio, frames, arrived, verdict, config>>

NoReport == frames = {} /\ arrived = FALSE /\ verdict = FALSE
report == <<frames, arrived, verdict>>

Init == state = "down" /\ radio = FALSE /\ NoReport /\ config \in Configs

\* Setting up reads the configuration back, whichever was kept.
SetUp ==
  /\ state = "down" /\ config' \in Configs
  /\ UNCHANGED <<state, radio, report>>

Start ==
  /\ state = "down" /\ state' = "ready"
  /\ radio' \in BOOLEAN
  /\ UNCHANGED <<report, config>>

\* With the radio down the call returns true at once.
Begin ==
  /\ state = "ready"
  /\ state' = IF radio THEN "sending" ELSE "decided"
  /\ verdict' = ~radio
  /\ UNCHANGED <<radio, frames, arrived, config>>

Send(counter) ==
  /\ state = "sending"
  /\ Cardinality(frames) <= Repeats
  /\ \A c \in frames : counter > c
  /\ frames' = frames \cup {counter}
  /\ arrived' \in {arrived, TRUE}
  /\ UNCHANGED <<state, radio, verdict, config>>

Decide(v) ==
  /\ state = "sending" /\ state' = "decided"
  /\ v => frames # {} /\ (Acknowledged => arrived)
  /\ verdict' = v
  /\ config' \in {config} \cup (IF arrived THEN Configs ELSE {})
  /\ UNCHANGED <<radio, frames, arrived>>

Return ==
  /\ state = "decided" /\ state' = "ready"
  /\ NoReport'
  /\ UNCHANGED <<radio, config>>

Reset ==
  /\ state' = "down" /\ radio' = FALSE /\ NoReport'
  /\ config' \in Configs

Next ==
  \/ SetUp \/ Start \/ Begin \/ (\E c \in Counters : Send(c))
  \/ (\E v \in BOOLEAN : Decide(v)) \/ Return \/ Reset

Spec == Init /\ [][Next]_vars
=============================================================================
