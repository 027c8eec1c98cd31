------------------------------ MODULE Console ------------------------------
(***************************************************************************)
(* The boot menu (BootMenu.cpp), the command table behind it (Command.cpp, *)
(* Config.cpp) and handleBootUpCommands(): what an operator types on the   *)
(* console, when the menu ends, and with which configuration the node      *)
(* then runs and comes up again.                                           *)
(*                                                                         *)
(* What is typed are cells: CR, LF, BS, NUL, and the texts that lines are  *)
(* made of, a prefix, a number or a key, each of them one cell.  The       *)
(* processor is fast: a tick passes when the menu has nothing to do.       *)
(***************************************************************************)
EXTENDS Integers, SequencesExt, TLC

CONSTANTS
  Cells,         \* what the operator may type
  NumberOf,      \* the numbers among the cells, and their values
  LineSize,      \* cells that fit in a line: a command and its argument
  MenuTimeout,   \* BOOT_MENU_TIMEOUT, in ticks
  MaxPrompts,    \* prompts until the menu ends (250)
  MaxTyped, MaxAhead, MaxResets  \* bounds on what is typed, on what of it is not read yet, on resets

ASSUME BoundsAssumption ==
  /\ LineSize = 2 /\ MenuTimeout \in Nat \ {0, 1} /\ MaxPrompts \in Nat \ {0}
  /\ MaxTyped \in Nat /\ MaxAhead \in Nat /\ MaxResets \in Nat

-----------------------------------------------------------------------------
(* The configuration                                                       *)

\* args[] of Config.cpp: prefix, field, and the width of its number (0: a string).
Command(field, width) == [field |-> field, width |-> width]
CommandTable ==
  ("fi=" :> Command("defaultFixInterval", 2^16)) @@ ("afi=" :> Command("alternativeFixInterval", 2^16)) @@
  ("affh=" :> Command("alternativeFixFromHours", 2^8)) @@ ("affm=" :> Command("alternativeFixFromMinutes", 2^8)) @@
  ("afth=" :> Command("alternativeFixToHours", 2^8)) @@ ("aftm=" :> Command("alternativeFixToMinutes", 2^8)) @@
  ("gft=" :> Command("gpsFixTimeout", 2^16)) @@ ("otaa=" :> Command("isOtaaEnabled", 2^8)) @@
  ("dev=" :> Command("devAddrOrEUI", 0)) @@ ("app=" :> Command("appSKeyOrEUI", 0)) @@
  ("key=" :> Command("nwSKeyOrAppKey", 0)) @@ ("cof=" :> Command("chargeOffset", 2^30)) @@
  ("num=" :> Command("coordinateUploadCount", 2^8)) @@ ("rep=" :> Command("repeatCount", 2^8)) @@
  ("fup=" :> Command("frameUpCount", 2^30)) @@ ("fdw=" :> Command("frameDownCount", 2^30)) @@
  ("led=" :> Command("isLedEnabled", 2^8)) @@ ("gps=" :> Command("isGpsEnabled", 2^8)) @@
  ("ack=" :> Command("isAckEnabled", 2^8)) @@ ("dbg=" :> Command("isDbgEnabled", 2^8))

Keys == {"devAddrOrEUI", "appSKeyOrEUI", "nwSKeyOrAppKey"}
Fields == {CommandTable[c].field : c \in DOMAIN CommandTable}

\* ConfigParams::reset(), without the device's EUI.  The frame counters are left as
\* they were read; a new flash gives 0 here.
Defaults ==
  [f \in Fields |->
     CASE f = "defaultFixInterval" -> 15 [] f = "gpsFixTimeout" -> 120 [] f \in Keys -> "zeros"
       [] f = "coordinateUploadCount" -> 1 [] f = "repeatCount" -> 5 [] OTHER -> 0]

\* ConfigParams::checkConfig(): the tests that can fail; the fields are unsigned.
Limits ==
  [f \in {"alternativeFixFromHours", "alternativeFixToHours"} |-> 0..23] @@
  [f \in {"alternativeFixFromMinutes", "alternativeFixToMinutes"} |-> 0..59] @@
  [f \in {"isOtaaEnabled", "isLedEnabled", "isGpsEnabled", "isAckEnabled", "isDbgEnabled"} |-> {0, 1}] @@
  ("coordinateUploadCount" :> 1..4) @@ ("repeatCount" :> 0..10)

CheckConfig(p) == \A f \in DOMAIN Limits : p[f] \in Limits[f]

\* What flash that does not check is read as.
Unreadable == [Defaults EXCEPT !["repeatCount"] = -1]

VARIABLES
  params, needsCommit,
  flash,                   \* the configuration in flash, or Unreadable
  pc,                      \* "menu", "line" (readLine), "check", "erased", "running"
  inbox,                   \* typed, not yet read
  line, seenCR, lfTimeout, \* readLine(): the time for a LF has passed
  idle,                    \* ticks until ts_max
  needPrompt, nrPrompts,
  afterCommit,             \* where commit() returns to
  typed, resets,           \* how much has been typed since the reset; resets
  executed,                \* history: the lines executed since the reset
  unmarked                 \* history: changed by "EUI" after the last commit

config == <<params, needsCommit, unmarked>>
reader == <<line, seenCR, lfTimeout>>
menu == <<needPrompt, nrPrompts>>
history == <<typed, resets, executed>>
vars == <<config, flash, pc, inbox, reader, idle, menu, afterCommit, history>>

-----------------------------------------------------------------------------
(* The commands                                                            *)

Value(command, arg) ==
  IF command.width = 0 THEN (IF arg = <<>> THEN "" ELSE arg[1])
  ELSE (IF arg = <<>> \/ arg[1] \notin DOMAIN NumberOf THEN 0 ELSE NumberOf[arg[1]]) % command.width

\* commit(), which goes to flash only if it is forced or needed.
Commit(forced, next) ==
  IF forced \/ needsCommit
    THEN pc' = "erased" /\ afterCommit' = next /\ flash' = Unreadable /\ UNCHANGED config
    ELSE pc' = next /\ UNCHANGED <<afterCommit, flash, config>>

WriteFlash ==
  /\ pc = "erased"
  /\ flash' = params /\ needsCommit' = FALSE /\ unmarked' = FALSE
  /\ pc' = afterCommit /\ afterCommit' = "menu"
  /\ UNCHANGED <<params, inbox, reader, idle, menu, history>>

\* setDevAddrOrEUItoHWEUI(): params is changed, needsCommit is not.  Nothing is
\* changed if the radio module has not told its EUI.
SetEUI ==
  /\ \/ params' = [params EXCEPT !["devAddrOrEUI"] = "hwEUI"] /\ unmarked' = TRUE
     \/ UNCHANGED <<params, unmarked>>
  /\ pc' = "menu"
  /\ UNCHANGED <<needsCommit, flash, afterCommit>>

\* set_uint8(), set_uint16(), set_uint32() and set_string(): a number is cut down
\* to the width of its field.
SetParam(command, arg) ==
  /\ params' = [params EXCEPT ![command.field] = Value(command, arg)]
  /\ needsCommit' = TRUE /\ unmarked' = FALSE
  /\ pc' = "menu"
  /\ UNCHANGED <<flash, afterCommit>>

\* A line that is not empty: "ok" and nothing else ends the menu, a command is
\* found by its prefix, first among those of the menu.
ExecLine(l) ==
  LET name == Head(l)
  IN  \/ l = <<"ok">> /\ pc' = "check" /\ UNCHANGED <<config, flash, afterCommit>>
      \/ name = "EUI" /\ SetEUI
      \/ name = "CS" /\ Commit(TRUE, "menu")
      \/ name \in DOMAIN CommandTable /\ SetParam(CommandTable[name], Tail(l))
      \/ /\ l # <<"ok">> /\ name \notin {"EUI", "CS"} \cup DOMAIN CommandTable
         /\ pc' = "menu" /\ UNCHANGED <<config, flash, afterCommit>>

\* Only a command extends the time again.
Extends(l) == Head(l) \in {"EUI", "CS"} \cup DOMAIN CommandTable

-----------------------------------------------------------------------------
(* readLine()                                                              *)

EndLine(l) ==
  /\ line' = <<>> /\ seenCR' = FALSE /\ lfTimeout' = FALSE
  /\ needPrompt' = TRUE /\ UNCHANGED nrPrompts
  /\ UNCHANGED <<typed, resets>>
  /\ IF l = <<>>
       THEN pc' = "menu" /\ UNCHANGED <<config, flash, afterCommit, executed>>
       ELSE ExecLine(l) /\ executed' = Append(executed, l)

\* Variant of AfterCR: what follows the CR is read, not looked at.
AfterCRReading ==
  /\ pc = "line" /\ idle > 0 /\ seenCR
  /\ IF inbox = <<>> THEN lfTimeout ELSE Head(inbox) # "LF"
  /\ EndLine(line)
  /\ inbox' = IF inbox = <<>> THEN inbox ELSE Tail(inbox)
  /\ idle' = IF line # <<>> /\ Extends(line) THEN MenuTimeout ELSE idle

\* After a CR the line ends, at once if something else than a LF follows it.
AfterCR ==
  /\ pc = "line" /\ idle > 0 /\ seenCR
  /\ IF inbox = <<>> THEN lfTimeout ELSE Head(inbox) # "LF"
  /\ EndLine(line)
  /\ idle' = IF line # <<>> /\ Extends(line) THEN MenuTimeout ELSE idle
  /\ UNCHANGED inbox

ReadCell ==
  /\ pc = "line" /\ idle > 0
  /\ inbox # <<>> /\ (seenCR => Head(inbox) = "LF")
  /\ inbox' = Tail(inbox)
  /\ LET c == Head(inbox)
     IN  \/ c = "NUL" /\ UNCHANGED <<reader, idle, menu, config, flash, pc, afterCommit, history>>
         \/ c = "LF" /\ EndLine(line) /\ idle' = MenuTimeout
         \/ /\ c \notin {"NUL", "LF"}
            /\ idle' = MenuTimeout
            /\ seenCR' = (c = "CR") /\ lfTimeout' = FALSE
            /\ line' = CASE c = "CR" -> line
                         [] c = "BS" -> IF line = <<>> THEN line ELSE Front(line)
                         [] OTHER -> IF Len(line) < LineSize THEN Append(line, c) ELSE line
            /\ UNCHANGED <<menu, config, flash, pc, afterCommit, history>>

\* "Timed out. Ignore the input."
DropLine ==
  /\ pc = "line" /\ idle = 0
  /\ line' = <<>> /\ seenCR' = FALSE /\ lfTimeout' = FALSE
  /\ pc' = "menu"
  /\ UNCHANGED <<config, flash, inbox, idle, menu, afterCommit, history>>

-----------------------------------------------------------------------------
(* showBootMenu() and handleBootUpCommands()                               *)

MenuGoesOn == idle > 0 /\ nrPrompts < MaxPrompts

Prompt ==
  /\ pc = "menu" /\ MenuGoesOn /\ needPrompt
  /\ needPrompt' = FALSE /\ nrPrompts' = nrPrompts + 1
  /\ UNCHANGED <<config, flash, pc, inbox, reader, idle, afterCommit, history>>

Available ==
  /\ pc = "menu" /\ MenuGoesOn /\ ~needPrompt /\ inbox # <<>>
  /\ IF Head(inbox) = "NUL" THEN inbox' = Tail(inbox) /\ UNCHANGED pc
                            ELSE pc' = "line" /\ UNCHANGED inbox
  /\ UNCHANGED <<config, flash, reader, idle, menu, afterCommit, history>>

EndMenu ==
  /\ pc = "menu" /\ ~MenuGoesOn
  /\ pc' = "check"
  /\ UNCHANGED <<config, flash, inbox, reader, idle, menu, afterCommit, history>>

StartMenu ==
  /\ idle' = MenuTimeout
  /\ needPrompt' = TRUE /\ nrPrompts' = 0

\* The menu is shown until the configuration checks; then it is committed if that
\* is needed.
HandleBootUpCommands ==
  /\ pc = "check"
  /\ IF CheckConfig(params)
       THEN Commit(FALSE, "running") /\ UNCHANGED <<idle, menu>>
       ELSE pc' = "menu" /\ StartMenu /\ UNCHANGED <<config, flash, afterCommit>>
  /\ UNCHANGED <<inbox, reader, history>>

\* Variant of ReadParams: defaults are not marked to be committed.
ReadParamsUnmarked ==
  \E dev \in {"hwEUI", "zeros"} :
    /\ params' = IF flash = Unreadable THEN [Defaults EXCEPT !["devAddrOrEUI"] = dev] ELSE flash
    /\ needsCommit' = FALSE

\* ConfigParams::read(), and reset() with the device's EUI if the module tells it.
ReadParams ==
  \E dev \in {"hwEUI", "zeros"} :
    /\ params' = IF flash = Unreadable THEN [Defaults EXCEPT !["devAddrOrEUI"] = dev] ELSE flash
    /\ needsCommit' = (flash = Unreadable)

\* A reset or a loss of power at any time; in between erase and write nothing
\* that checks is left in flash.
Reset ==
  /\ resets < MaxResets
  /\ resets' = resets + 1
  /\ ReadParams /\ unmarked' = FALSE
  /\ pc' = "menu" /\ StartMenu
  /\ inbox' = <<>> /\ line' = <<>> /\ seenCR' = FALSE /\ lfTimeout' = FALSE
  /\ afterCommit' = "menu"
  /\ typed' = 0 /\ executed' = <<>>
  /\ UNCHANGED flash

\* The operator types while USB is up.
Type ==
  /\ typed < MaxTyped /\ Len(inbox) < MaxAhead /\ pc # "running"
  /\ typed' = typed + 1
  /\ \E c \in Cells : inbox' = Append(inbox, c)
  /\ UNCHANGED <<config, flash, pc, reader, idle, menu, afterCommit, resets, executed>>

\* Variant of Ticked: the time of the menu begins anew with every look at the console.
TickedAnew == MenuTimeout - 1

Ticked == idle - 1

\* Time goes on while there is nothing to read.  The first tick after a CR is
\* longer than the wait for a LF.
Tick ==
  /\ idle > 0 /\ inbox = <<>> /\ ~lfTimeout
  /\ (pc = "menu" /\ MenuGoesOn /\ ~needPrompt) \/ pc = "line"
  /\ idle' = Ticked
  /\ lfTimeout' = seenCR
  /\ UNCHANGED <<config, flash, pc, inbox, line, seenCR, menu, afterCommit, history>>

\* The flash is new, or "CS" has stored what does not check.
Init ==
  /\ flash \in {Unreadable, [Defaults EXCEPT !["repeatCount"] = 11]}
  /\ params = IF flash = Unreadable THEN Defaults ELSE flash
  /\ needsCommit = (flash = Unreadable) /\ unmarked = FALSE
  /\ pc = "menu" /\ idle = MenuTimeout /\ needPrompt = TRUE /\ nrPrompts = 0
  /\ inbox = <<>> /\ line = <<>> /\ seenCR = FALSE /\ lfTimeout = FALSE
  /\ afterCommit = "menu"
  /\ typed = 0 /\ resets = 0 /\ executed = <<>>

Menu == Prompt \/ Available \/ EndMenu \/ HandleBootUpCommands \/ WriteFlash
ReadLine == AfterCR \/ ReadCell \/ DropLine

Next == Menu \/ ReadLine \/ Tick \/ Type \/ Reset

\* The processor executes and time goes on; nobody need type.
Spec == Init /\ [][Next]_vars /\ WF_vars(Menu \/ ReadLine \/ Tick)

-----------------------------------------------------------------------------
(* However lines are ended and however slowly a LF follows its CR, the     *)
(* console implements LineEditor: each line is executed once and as it was *)
(* typed, unless a timeout drops it.  The last may wait for the LF.        *)
Editor == INSTANCE LineEditor WITH
  unread <- inbox,
  open <- IF seenCR THEN <<>> ELSE line,
  ended <- IF seenCR /\ line # <<>> THEN <<line>> ELSE <<>>
LinesAsTyped == Editor!Spec

(* The node never runs with a configuration that does not check, though    *)
(* "CS" stores one, and it has in flash what it runs with, whatever resets *)
(* came before, but for an EUI that nothing was committed after.           *)
RunsWhatIsStored ==
  pc = "running" =>
    /\ CheckConfig(params)
    /\ unmarked \/ flash = params

(* Once nobody types, the menu ends, unless it waits for the operator to   *)
(* put a configuration right.                                              *)
MenuEnds == typed = MaxTyped ~> (pc = "running" \/ ~CheckConfig(params) \/ typed = 0)
=============================================================================
