----------------------------- MODULE LineEditor -----------------------------
(***************************************************************************)
(* What an operator may rely on when typing into the boot menu, whatever   *)
(* the program is at and whatever time passes: a line ends at a CR or a    *)
(* LF, BS takes a cell back, what does not fit is ignored, an empty line   *)
(* is none, and the lines are executed as they were typed, in order, each  *)
(* once.  Only what has not been executed may be given up.                 *)
(***************************************************************************)
EXTENDS Naturals, SequencesExt

CONSTANTS
  Cells,     \* what may be typed
  LineSize   \* cells that fit in a line

VARIABLES
  unread,    \* typed, not yet read
  open,      \* the line that is being read
  ended,     \* lines that are complete, but not executed
  executed   \* the lines executed

vars == <<unread, open, ended, executed>>

Clear == unread = <<>> /\ open = <<>> /\ ended = <<>> /\ executed = <<>>

\* Complete lines are executed now or later.
HandOver(lines) ==
  \/ executed' = executed /\ ended' = ended \o lines
  \/ executed' = executed \o ended /\ ended' = lines
  \/ executed' = executed \o (ended \o lines) /\ ended' = <<>>

Type(c) ==
  /\ unread' = Append(unread, c)
  /\ UNCHANGED <<open, ended, executed>>

Read ==
  /\ unread # <<>>
  /\ unread' = Tail(unread)
  /\ LET c == Head(unread)
     IN  \/ /\ c \in {"CR", "LF"}
            /\ open' = <<>>
            /\ HandOver(IF open = <<>> THEN <<>> ELSE <<open>>)
         \/ c = "NUL" /\ UNCHANGED <<open, ended, executed>>
         \/ /\ c = "BS"
            /\ open' = IF open = <<>> THEN open ELSE Front(open)
            /\ UNCHANGED <<ended, executed>>
         \/ /\ c \notin {"CR", "LF", "NUL", "BS"}
            /\ open' = IF Len(open) < LineSize THEN Append(open, c) ELSE open
            /\ UNCHANGED <<ended, executed>>

Execute ==
  /\ HandOver(<<>>)
  /\ UNCHANGED <<unread, open>>

\* The operator took too long to go on.
GiveUp ==
  /\ open' = <<>> /\ ended' = <<>>
  /\ UNCHANGED <<unread, executed>>

Reset == Clear'

Init == Clear

Next == (\E c \in Cells : Type(c)) \/ Read \/ Execute \/ GiveUp \/ Reset

Spec == Init /\ [][Next]_vars
=============================================================================
