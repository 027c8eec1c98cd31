--------------------------- MODULE DriverPromise ---------------------------
(***************************************************************************)
(* What the callers of the LoRa driver rely on: a call makes the radio     *)
(* module do something, and returns true if and only if the module did it. *)
(* Nothing is promised any more once the module has missed a time limit,   *)
(* until it is woken up again.                                             *)
(***************************************************************************)
CONSTANTS
  Calls,      \* the calls of the driver
  Careless,   \* those of them that do not look at what the module answered
  Initial     \* those of them that wake the module up themselves

NoReturn == [call |-> "none", val |-> TRUE]

VARIABLES
  op,    \* the call in progress, or "none"
  did,   \* the module has done all that the call asked for so far
  ret,   \* the last call, and what it returned
  late   \* the module has missed a time limit since it was woken up

vars == <<op, did, ret, late>>

Init == op = "none" /\ did = TRUE /\ ret = NoReturn /\ late = FALSE

Call(c) ==
  /\ op = "none"
  /\ op' = c
  /\ did' = TRUE
  /\ ret' = NoReturn
  /\ late' = (late /\ c \notin Initial)

\* The module carries out a part of the call, or fails to.
Act ==
  /\ op # "none"
  /\ did' \in {did, FALSE}
  /\ UNCHANGED <<op, ret, late>>

Miss ==
  /\ op # "none"
  /\ late' = TRUE
  /\ UNCHANGED <<op, did, ret>>

Return(v) ==
  /\ op # "none"
  /\ late' \in {late, TRUE}
  /\ late' \/ op \in Careless \/ v = did
  /\ op' = "none"
  /\ ret' = [call |-> op, val |-> v]
  /\ UNCHANGED did

WakeUp ==
  /\ op = "none"
  /\ late' = FALSE
  /\ UNCHANGED <<op, did, ret>>

\* The caller is through with what it got.
Forget ==
  /\ op = "none"
  /\ ret' = NoReturn
  /\ UNCHANGED <<op, did, late>>

Next ==
  \/ \E c \in Calls : Call(c)
  \/ \E v \in BOOLEAN : Return(v)
  \/ Act \/ Miss \/ WakeUp \/ Forget

Spec == Init /\ [][Next]_vars
=============================================================================
