--------------------------- MODULE Console_proof ---------------------------
(***************************************************************************)
(* Proofs about Console.  What is not in flash is marked to be committed,  *)
(* or is the EUI that setDevAddrOrEUItoHWEUI() does not mark; and between  *)
(* erase and write nothing changes the configuration that was checked.     *)
(* What is typed becomes lines as LineEditor says, step by step.           *)
(***************************************************************************)
EXTENDS Console, SequenceTheorems, TLAPS

\* Out of commit() what is not marked is stored.
Marked == pc # "erased" /\ ~needsCommit => unmarked \/ flash = params

\* A configuration has been checked that the node runs with, or will run with
\* once commit() has written it.
Checked ==
  /\ pc = "running" => CheckConfig(params) /\ ~needsCommit
  /\ pc = "erased" /\ afterCommit = "running" => CheckConfig(params)

StoredInv == Marked /\ Checked

LEMMA StoredInit == Init => StoredInv
BY DEF Init, StoredInv, Marked, Checked

LEMMA CommitStores ==
  ASSUME StoredInv, pc \notin {"erased", "running"},
         NEW forced \in BOOLEAN, NEW next \in {"menu", "running"}, Commit(forced, next),
         next = "running" => CheckConfig(params)
  PROVE  StoredInv'
<1>1. CASE forced \/ needsCommit
  BY <1>1 DEF Commit, StoredInv, Marked, Checked, config
<1>2. CASE ~(forced \/ needsCommit)
  BY <1>2 DEF Commit, StoredInv, Marked, Checked, config
<1>3. QED BY <1>1, <1>2

LEMMA ExecLineStores ==
  ASSUME StoredInv, pc \notin {"erased", "running"}, NEW l, ExecLine(l)
  PROVE  StoredInv'
<1>1. CASE pc' \in {"menu", "check"} /\ UNCHANGED <<config, flash, afterCommit>>
  BY <1>1 DEF StoredInv, Marked, Checked, config
<1>2. CASE SetEUI
  BY <1>2 DEF SetEUI, StoredInv, Marked, Checked
<1>3. CASE Commit(TRUE, "menu")
  BY <1>3, CommitStores
<1>4. ASSUME NEW command, NEW arg, SetParam(command, arg) PROVE StoredInv'
  BY <1>4 DEF SetParam, StoredInv, Marked, Checked
<1>5. QED BY <1>1, <1>2, <1>3, <1>4 DEF ExecLine

LEMMA EndLineStores ==
  ASSUME StoredInv, pc = "line", EndLine(line)
  PROVE  StoredInv'
<1>1. CASE line = <<>>
  BY <1>1 DEF EndLine, StoredInv, Marked, Checked, config
<1>2. CASE line # <<>>
  BY <1>2, ExecLineStores DEF EndLine
<1>3. QED BY <1>1, <1>2

LEMMA StoredNext == StoredInv /\ [Next]_vars => StoredInv'
<1> SUFFICES ASSUME StoredInv, [Next]_vars PROVE StoredInv'
  OBVIOUS
\* Neither the configuration nor the control is touched by commit().
<1>1. ASSUME UNCHANGED <<config, flash, afterCommit>>, pc' \notin {"erased", "running"}, pc # "erased"
      PROVE  StoredInv'
  BY <1>1 DEF StoredInv, Marked, Checked, config
<1>2. ASSUME UNCHANGED <<config, flash, afterCommit, pc>> PROVE StoredInv'
  BY <1>2 DEF StoredInv, Marked, Checked, config
<1>3. CASE Prompt \/ Tick \/ Type
  BY <1>2, <1>3 DEF Prompt, Tick, Type
<1>4. CASE Available
  BY <1>1, <1>4 DEF Available
<1>5. CASE EndMenu
  BY <1>1, <1>5 DEF EndMenu
<1>6. CASE HandleBootUpCommands
  <2>1. CASE CheckConfig(params)
    BY <1>6, <2>1, CommitStores DEF HandleBootUpCommands
  <2>2. CASE ~CheckConfig(params)
    BY <1>1, <1>6, <2>2 DEF HandleBootUpCommands
  <2>3. QED BY <2>1, <2>2
<1>7. CASE WriteFlash
  BY <1>7 DEF WriteFlash, StoredInv, Marked, Checked
<1>8. CASE AfterCR
  BY <1>8, EndLineStores DEF AfterCR
<1>9. CASE ReadCell
  <2>1. CASE EndLine(line)
    BY <1>9, <2>1, EndLineStores DEF ReadCell
  <2>2. CASE UNCHANGED <<config, flash, afterCommit, pc>>
    BY <1>2, <2>2
  <2>3. QED BY <1>9, <2>1, <2>2 DEF ReadCell
<1>10. CASE DropLine
  BY <1>1, <1>10 DEF DropLine
<1>11. CASE Reset
  BY <1>11 DEF Reset, ReadParams, StoredInv, Marked, Checked
<1>12. CASE UNCHANGED vars
  BY <1>2, <1>12 DEF vars
<1>13. QED BY <1>3, <1>4, <1>5, <1>6, <1>7, <1>8, <1>9, <1>10, <1>11, <1>12 DEF Next, Menu, ReadLine

\* handleBootUpCommands(): whatever commands were typed, however often the menu was
\* shown and whenever a reset came, also within commit(): the node runs with a
\* configuration that checks, and that is in flash but for an EUI not marked.
THEOREM StoredRuns == Spec => []RunsWhatIsStored
<1>1. StoredInv => RunsWhatIsStored
  BY DEF StoredInv, Marked, Checked, RunsWhatIsStored
<1>2. QED BY StoredInit, StoredNext, <1>1, PTL DEF Spec

-----------------------------------------------------------------------------
(* The lines                                                               *)

CellsTyped ==
  /\ inbox \in Seq(Cells) /\ line \in Seq(Cells)
  /\ executed \in Seq(Seq(Cells))
  /\ seenCR \in BOOLEAN

\* The open line and the one that waits for its LF, as LineEditor has them.
Open == IF seenCR THEN <<>> ELSE line
Ended == IF seenCR /\ line # <<>> THEN <<line>> ELSE <<>>

\* The end of a line is what LineEditor makes of it, with the cell that ends it or
\* without, when the CR has been read before.
LEMMA EndLineHandsOver ==
  ASSUME CellsTyped, EndLine(line)
  PROVE  /\ line' = <<>> /\ seenCR' = FALSE /\ executed' \in Seq(Seq(Cells))
         /\ Open' = <<>> /\ Ended' = <<>>
         /\ executed' = executed \o (Ended \o (IF Open = <<>> THEN <<>> ELSE <<Open>>))
<1>1. line' = <<>> /\ seenCR' = FALSE /\ Open' = <<>> /\ Ended' = <<>>
  BY DEF EndLine, Open, Ended
<1>2. executed \in Seq(Seq(Cells)) /\ line \in Seq(Cells) /\ <<line>> \in Seq(Seq(Cells)) /\ <<>> \in Seq(Seq(Cells))
  BY DEF CellsTyped
<1>3. /\ executed \o <<>> = executed /\ <<line>> \o <<>> = <<line>> /\ <<>> \o <<line>> = <<line>>
      /\ <<>> \o <<>> = <<>>
  BY <1>2, ConcatEmptySeq
<1>4. CASE line = <<>>
  <2>1. executed' = executed
    BY <1>4 DEF EndLine
  <2>2. Open = <<>> /\ Ended = <<>>
    BY <1>4 DEF Open, Ended
  <2>3. QED BY <1>1, <1>2, <1>3, <2>1, <2>2
<1>5. CASE line # <<>>
  <2>1. executed' = Append(executed, line)
    BY <1>5 DEF EndLine
  <2>2. executed' = executed \o <<line>> /\ executed' \in Seq(Seq(Cells))
    BY <1>2, <2>1, AppendIsConcat, AppendProperties
  <2>3. CASE seenCR
    BY <1>1, <1>3, <1>5, <2>2, <2>3 DEF Open, Ended
  <2>4. CASE ~seenCR
    BY <1>1, <1>3, <1>5, <2>2, <2>4 DEF Open, Ended
  <2>5. QED BY <2>3, <2>4
<1>6. QED BY <1>4, <1>5

LEMMA LinesStep ==
  ASSUME CellsTyped, [Next]_vars
  PROVE  CellsTyped' /\ [Editor!Next]_Editor!vars
<1>0. <<>> \in Seq(Cells) /\ <<>> \in Seq(Seq(Cells))
  BY EmptySeq
<1>1. /\ inbox \in Seq(Cells) /\ line \in Seq(Cells) /\ executed \in Seq(Seq(Cells))
      /\ seenCR \in BOOLEAN
  BY DEF CellsTyped
<1>2. ASSUME UNCHANGED <<inbox, line, seenCR, executed>>
      PROVE  CellsTyped' /\ [Editor!Next]_Editor!vars
  BY <1>1, <1>2 DEF CellsTyped, Editor!vars
<1>3. ASSUME inbox # <<>>, inbox' = Tail(inbox) PROVE inbox' \in Seq(Cells) /\ Head(inbox) \in Cells
  BY <1>1, <1>3, HeadTailProperties
<1>4. CASE Prompt \/ EndMenu \/ HandleBootUpCommands \/ WriteFlash \/ Tick \/ UNCHANGED vars
  <2>1. UNCHANGED <<inbox, line, seenCR, executed>>
    BY <1>4 DEF Prompt, EndMenu, HandleBootUpCommands, WriteFlash, Tick, vars, reader, history
  <2>2. QED BY <1>2, <2>1
<1>5. CASE Available
  <2>1. CASE Head(inbox) = "NUL"
    <3>1. inbox # <<>> /\ inbox' = Tail(inbox) /\ UNCHANGED <<line, seenCR, executed>>
      BY <1>5, <2>1 DEF Available, reader, history
    <3>2. Editor!Read
      BY <2>1, <3>1 DEF Editor!Read
    <3>3. QED BY <1>1, <1>3, <3>1, <3>2 DEF CellsTyped, Editor!Next
  <2>2. CASE Head(inbox) # "NUL"
    BY <1>2, <1>5, <2>2 DEF Available, reader, history
  <2>3. QED BY <2>1, <2>2
<1>6. CASE Type
  <2>1. PICK c \in Cells : inbox' = Append(inbox, c)
    BY <1>6 DEF Type
  <2>2. UNCHANGED <<line, seenCR, executed>>
    BY <1>6 DEF Type, reader
  <2>3. Editor!Type(c)
    BY <2>1, <2>2 DEF Editor!Type
  <2>4. inbox' \in Seq(Cells)
    BY <1>1, <2>1, AppendProperties
  <2>5. QED BY <1>1, <2>2, <2>3, <2>4 DEF CellsTyped, Editor!Next
<1>7. CASE Reset
  <2>1. inbox' = <<>> /\ line' = <<>> /\ seenCR' = FALSE /\ executed' = <<>>
    BY <1>7 DEF Reset
  <2>2. CellsTyped'
    BY <1>0, <2>1 DEF CellsTyped
  <2>3. Editor!Reset
    BY <2>1 DEF Editor!Reset, Editor!Clear
  <2>4. QED BY <2>2, <2>3 DEF Editor!Next
<1>8. CASE DropLine
  <2>1. line' = <<>> /\ seenCR' = FALSE /\ UNCHANGED <<inbox, executed>>
    BY <1>8 DEF DropLine, history
  <2>2. CellsTyped'
    BY <1>0, <1>1, <2>1 DEF CellsTyped
  <2>3. Editor!GiveUp
    BY <2>1 DEF Editor!GiveUp
  <2>4. QED BY <2>2, <2>3 DEF Editor!Next
\* The CR has been read before.
<1>9. CASE AfterCR
  <2>1. EndLine(line) /\ seenCR /\ inbox' = inbox
    BY <1>9 DEF AfterCR
  <2>2. Open = <<>>
    BY <2>1 DEF Open
  <2>3. /\ line' = <<>> /\ seenCR' = FALSE /\ executed' \in Seq(Seq(Cells))
        /\ Open' = <<>> /\ Ended' = <<>> /\ executed' = executed \o (Ended \o <<>>)
    BY <2>1, <2>2, EndLineHandsOver
  <2>4. Editor!Execute
    BY <2>1, <2>2, <2>3 DEF Editor!Execute, Editor!HandOver, Open, Ended
  <2>5. CellsTyped'
    BY <1>0, <1>1, <2>1, <2>3 DEF CellsTyped
  <2>6. QED BY <2>4, <2>5 DEF Editor!Next
<1>10. CASE ReadCell
  <2> DEFINE c == Head(inbox)
  <2>1. inbox # <<>> /\ inbox' = Tail(inbox) /\ (seenCR => c = "LF")
    BY <1>10 DEF ReadCell
  <2>2. inbox' \in Seq(Cells) /\ c \in Cells
    BY <1>3, <2>1
  <2>3. CASE c = "NUL" /\ UNCHANGED <<line, seenCR, executed>>
    <3>1. Editor!Read
      BY <2>1, <2>3 DEF Editor!Read
    <3>2. QED BY <1>1, <2>2, <2>3, <3>1 DEF CellsTyped, Editor!Next
  <2>4. CASE c = "LF" /\ EndLine(line)
    <3>1. /\ line' = <<>> /\ seenCR' = FALSE /\ executed' \in Seq(Seq(Cells))
          /\ Open' = <<>> /\ Ended' = <<>>
          /\ executed' = executed \o (Ended \o (IF Open = <<>> THEN <<>> ELSE <<Open>>))
      BY <2>4, EndLineHandsOver
    <3>2. Editor!Read
      BY <2>1, <2>4, <3>1 DEF Editor!Read, Editor!HandOver, Open, Ended
    <3>3. QED BY <1>0, <1>1, <2>2, <3>1, <3>2 DEF CellsTyped, Editor!Next
  <2>5. CASE /\ c \notin {"NUL", "LF"} /\ seenCR' = (c = "CR") /\ UNCHANGED executed
             /\ line' = CASE c = "CR" -> line
                          [] c = "BS" -> IF line = <<>> THEN line ELSE Front(line)
                          [] OTHER -> IF Len(line) < LineSize THEN Append(line, c) ELSE line
    <3>1. ~seenCR
      BY <1>1, <2>1, <2>5
    <3>2. CASE c = "CR"
      <4>1. line' = line /\ seenCR' = TRUE
        BY <2>5, <3>2
      <4>2. <<>> \o (IF line = <<>> THEN <<>> ELSE <<line>>) = IF line = <<>> THEN <<>> ELSE <<line>>
        <5>1. <<line>> \in Seq(Seq(Cells)) /\ <<>> \in Seq(Seq(Cells))
          BY <1>1
        <5>2. QED BY <5>1, ConcatEmptySeq
      <4>3. Editor!Read
        BY <2>1, <2>5, <3>1, <3>2, <4>1, <4>2 DEF Editor!Read, Editor!HandOver
      <4>4. QED BY <1>1, <2>2, <2>5, <4>1, <4>3 DEF CellsTyped, Editor!Next
    <3>3. CASE c = "BS"
      <4>1. line' = (IF line = <<>> THEN line ELSE Front(line)) /\ seenCR' = FALSE
        BY <2>5, <3>3
      <4>2. line' \in Seq(Cells)
        <5>1. line # <<>> => Len(line) \in Nat \ {0} /\ \A i \in 1..(Len(line) - 1) : line[i] \in Cells
          BY <1>1, EmptySeq, ElementOfSeq
        <5>2. line # <<>> => SubSeq(line, 1, Len(line) - 1) \in Seq(Cells)
          BY <5>1, SubSeqProperties
        <5>3. QED BY <1>1, <4>1, <5>2 DEF Front
      <4>3. Editor!Read
        <5>1. seenCR = FALSE /\ executed' = executed
          BY <1>1, <2>5, <3>1
        <5>2. CASE line = <<>>
          BY <2>1, <3>3, <4>1, <5>1, <5>2 DEF Editor!Read
        <5>3. CASE line # <<>>
          BY <2>1, <3>3, <4>1, <5>1, <5>3 DEF Editor!Read, Editor!Front, Front
        <5>4. QED BY <5>2, <5>3
      <4>4. QED BY <1>1, <2>2, <2>5, <4>1, <4>2, <4>3 DEF CellsTyped, Editor!Next
    <3>4. CASE c \notin {"CR", "BS"}
      <4>1. line' = (IF Len(line) < LineSize THEN Append(line, c) ELSE line) /\ seenCR' = FALSE
        BY <2>5, <3>4
      <4>2. line' \in Seq(Cells)
        BY <1>1, <2>2, <4>1, AppendProperties
      <4>3. Editor!Read
        BY <2>1, <2>5, <3>1, <3>4, <4>1 DEF Editor!Read
      <4>4. QED BY <1>1, <2>2, <2>5, <4>1, <4>2, <4>3 DEF CellsTyped, Editor!Next
    <3>5. QED BY <3>2, <3>3, <3>4
  <2>6. QED BY <1>10, <2>3, <2>4, <2>5 DEF ReadCell, reader, history
<1>11. QED BY <1>4, <1>5, <1>6, <1>7, <1>8, <1>9, <1>10 DEF Next, Menu, ReadLine

\* readLine() and showBootMenu() implement LineEditor: for cells and lines of any
\* number, and whenever time passes or the node is reset, the lines are executed as
\* they were typed, in order and once.
THEOREM LinesExecuted == Spec => LinesAsTyped
<1>1. Init => CellsTyped /\ Editor!Init
  <2>1. Init => inbox = <<>> /\ line = <<>> /\ seenCR = FALSE /\ executed = <<>>
    BY DEF Init
  <2>2. <<>> \in Seq(Cells) /\ <<>> \in Seq(Seq(Cells))
    BY EmptySeq
  <2>3. QED BY <2>1, <2>2 DEF CellsTyped, Editor!Init, Editor!Clear
<1>2. QED BY <1>1, LinesStep, PTL DEF Spec, LinesAsTyped, Editor!Spec
=============================================================================
