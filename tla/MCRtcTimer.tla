----------------------------- MODULE MCRtcTimer -----------------------------
(* Model-checking instance of RtcTimer.                                    *)
EXTENDS RtcTimer

\* No alternative span, one that the default interval straddles, and one that
\* takes up half the day.
SomeConfigs ==
  {[def |-> 2, alt |-> 0, from |-> 0, to |-> 0],
   [def |-> 2, alt |-> 1, from |-> 1, to |-> 3]}

\* What updateConfigOverTheAir() accepts: any interval but 0xFFFF.
ZeroInterval ==
  {[def |-> 1, alt |-> 0, from |-> 0, to |-> 0],
   [def |-> 0, alt |-> 0, from |-> 0, to |-> 0]}
=============================================================================
