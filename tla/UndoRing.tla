------------------------------ MODULE UndoRing ------------------------------
(***************************************************************************)
(* The undo/redo engine of TCEditor (mainsrc/ceditor.cc): the ring         *)
(* UndoArray, the three indices that walk it, the merging of one-character *)
(* edits into one cell, the grouping of the cells of one command, undo(),  *)
(* redo(), the flush, and the modified flag that saving and undoing move.  *)
(*                                                                         *)
(* UndoBase is the sentinel: the cells after it, up to UndoActual, can be  *)
(* undone; the cells after UndoActual, up to UndoTop, can be redone.       *)
(*                                                                         *)
(* The user interface is one thread, so a handler is one action, except    *)
(* the two that loop over cells: undo() and redo() take one step for each  *)
(* cell, and nothing else runs until they return.  A command that makes    *)
(* several edits is lockUndo, the edits, unlockUndo, one action each.      *)
(*                                                                         *)
(* Left out: the line in edition (bufEdit), selections, lines other than   *)
(* the current one, the block and rectangle edits that save a whole copy,  *)
(* and the purge of trailing spaces.                                       *)
(*                                                                         *)
(* A definition that no action uses, just before one with the same         *)
(* parameters (IncWithLateWrap before IncWithWrap), is a plausible mistake *)
(* in the code of the second; the README lists the property each breaks.   *)
(***************************************************************************)
EXTENDS LineText

CONSTANTS
  MAX_UNDO,   (* the number of cells of UndoArray (256 in ced_exte.h)      *)
  Chars,      (* the characters that can be typed                          *)
  Clips,      (* the texts that can be pasted                              *)
  MaxText,    (* bound: the longest text an edit may produce               *)
  MaxGroup,   (* bound: the cells one command may add                      *)
  MaxEdits,   (* bound: the edits of a behaviour                           *)
  MaxSaves,   (* bound: the saves of a behaviour                           *)
  MaxLeaks,   (* bound: the locks that are left behind                     *)
  Ops         (* the handlers the user interface offers                    *)

ASSUME MaxUndoAssumption == MAX_UNDO \in Nat /\ MAX_UNDO >= 2
ASSUME ClipsAssumption == Clips \subseteq Seq(Chars)
ASSUME BoundsAssumption == MaxText \in Nat /\ MaxGroup \in Nat
                            /\ MaxEdits \in Nat /\ MaxSaves \in Nat /\ MaxLeaks \in Nat

Cells == 0 .. MAX_UNDO - 1

(* The values of UndoState that the modelled handlers record. *)
undoNoUndo == "undoNoUndo"
GroupedTypes == {"undoInMov", "undoPutChar", "undoOvrPutChar",
                 "undoDelChar", "undoDelCharDel"}
UndoTypes == GroupedTypes \cup
             {undoNoUndo, "undoDelete", "undoDeleteBuf", "undoInsert", "undoRectHide"}

(* The bits of UndoCell.Flags that the model follows; the F bits hold the  *)
(* state at the end of the action, the others the state at its start.      *)
FlagBits == {"undoModified", "undoModifiedF", "undoOverWrite", "undoOverWriteF"}

UndoCell == [Type : UndoTypes, Count : Nat, X : Nat, Xf : Nat, s : Seq(Chars),
             s2 : Seq(Chars), OffSet : Nat, Length : Nat, Flags : SUBSET FlagBits]

VARIABLES
  UndoArray,       (* the cells                                             *)
  UndoBase,        (* the cell before the oldest that can be undone         *)
  UndoActual,      (* the last cell done                                    *)
  UndoTop,         (* the last cell that can be redone                      *)
  UndoSt,          (* the type of the cell still open for merging           *)
  undoLockCount,   (* depth of lockUndo()                                   *)
  undoGroupCount,  (* cells added since the outermost lockUndo()            *)
  leaked,          (* calls of lockUndo() whose unlockUndo() never comes    *)
  undoing,         (* calls of undoOneAction that undo() still owes         *)
  redoing,         (* `aux' of the suspended calls of redo(), outer first   *)
  text,            (* the line                                              *)
  cur,             (* the cursor, as an offset in the line                  *)
  overwrite,       (* overwrite mode                                        *)
  modified,        (* the flag that makes closing ask for a save            *)
  noMoveToEnd,     (* staticNoMoveToEndPaste                                *)
  disk,            (* the text in the file                                  *)
  edits,           (* bound: edits so far                                   *)
  saves            (* bound: saves so far                                   *)

ring == <<UndoArray, UndoBase, UndoActual, UndoTop>>
group == <<undoLockCount, undoGroupCount, leaked>>
loops == <<undoing, redoing>>
editor == <<text, cur, overwrite>>
file == <<disk, saves>>
vars == <<ring, UndoSt, group, loops, editor, modified, noMoveToEnd, edits, file>>

-----------------------------------------------------------------------------
(* Walking the ring. *)

IncWithLateWrap(a) == IF a = MAX_UNDO THEN 0 ELSE a + 1
IncWithWrap(a) == IF a + 1 = MAX_UNDO THEN 0 ELSE a + 1
DecWithWrap(a) == IF a = 0 THEN MAX_UNDO - 1 ELSE a - 1

(* The cells met going up from a, which is not one of them, to b. *)
After(a, b) == {i \in Cells : IF a <= b THEN a < i /\ i <= b ELSE a < i \/ i <= b}

Undoable == After(UndoBase, UndoActual)
Redoable == After(UndoActual, UndoTop)
InUse == After(UndoBase, UndoTop)

(* No handler is running: the user may act. *)
Idle == undoing = 0 /\ redoing = <<>>

(* No command of several edits is running: every lock that is held is one  *)
(* that a command has left behind.                                         *)
NoCommand == undoLockCount = leaked

(* freeUndoCell(): the text is released and the type says so.  Flags and   *)
(* Count keep their values for whoever takes the cell next; the fields     *)
(* nobody reads again are dropped.                                         *)
Freed(c) == [c EXCEPT !.Type = undoNoUndo, !.X = 0, !.Xf = 0, !.s = <<>>,
                      !.s2 = <<>>, !.OffSet = 0, !.Length = 0]

StartFlags == (IF modified THEN {"undoModified"} ELSE {})
              \cup (IF overwrite THEN {"undoOverWrite"} ELSE {})
FinalFlags == (IF modified THEN {"undoModifiedF"} ELSE {})
              \cup (IF overwrite THEN {"undoOverWriteF"} ELSE {})

(* UndoSaveFinalState(): the bits are only ever set, never cleared. *)
UndoSaveFinalState(c) == [c EXCEPT !.Xf = cur, !.Flags = @ \cup FinalFlags]

(* UndoSaveStartState() of a cell that starts with the cursor at cur. *)
StartCell(st) ==
  [Type |-> st, Count |-> undoGroupCount, X |-> cur, Xf |-> cur, s |-> <<>>,
   s2 |-> <<>>, OffSet |-> 0, Length |-> 0, Flags |-> StartFlags]

-----------------------------------------------------------------------------
(* addToUndo() *)

Grouping ==
  undoGroupCount' = IF undoLockCount > 0 THEN undoGroupCount + 1 ELSE undoGroupCount

(* The open cell takes this edit in when it has the same type and does not *)
(* belong to an earlier group.                                             *)
MergesByCell(st) == st \in GroupedTypes /\ st = UndoArray[UndoActual].Type
Merges(st) == /\ st \in GroupedTypes
              /\ st = UndoSt
              /\ UndoArray[UndoActual].Count <= undoGroupCount

Merge(c) == /\ UndoArray' = [UndoArray EXCEPT ![UndoActual] = c]
            /\ UNCHANGED <<UndoBase, UndoActual, UndoTop, UndoSt, undoGroupCount>>

(* Where the sentinel stops when the new cell a runs into it: at the first *)
(* cell that starts a group or, when none does, at a again.                *)
EvictTo(a) ==
  {b \in Cells :
     /\ UndoArray[b].Count = 0 \/ b = a
     /\ \A i \in Cells \ {a} :
          (IF a < b THEN a < i /\ i < b ELSE a < i \/ i < b)
            => UndoArray[i].Count # 0}

(* The cells that survive a new cell a when the sentinel goes to b.        *)
KeptWithTail(a, b) == After(b, UndoTop) \cup {b}
Kept(a, b) == IF b = a THEN {} ELSE After(b, UndoActual) \cup {b}

(* A new cell c: the previous one is closed as prev, the sentinel is       *)
(* pushed on when the ring is full, and the cells that could be redone are *)
(* freed, with those the sentinel passed.                                  *)
PushAfter(prev, c) ==
  LET a == IncWithWrap(UndoActual)
      closed == [UndoArray EXCEPT ![UndoActual] = prev]
  IN  \E b \in IF a = UndoBase THEN EvictTo(a) ELSE {UndoBase} :
        /\ UndoArray' = [i \in Cells |-> IF i = a THEN c
                                         ELSE IF i \in Kept(a, b) THEN closed[i]
                                         ELSE Freed(closed[i])]
        /\ UndoBase' = b
        /\ UndoActual' = a
        /\ UndoTop' = a
        /\ UndoSt' = c.Type

Open == UndoArray[UndoActual]

Push(c) == PushAfter(UndoSaveFinalState(Open), c)

(* addToUndo() of a type that is not merged, then of one that may be: c is *)
(* the cell it makes, m what it makes of the open cell.                    *)
AddToUndo(c) == Push(c) /\ Grouping

AddOrMerge(c, m) ==
  \/ Merges(c.Type) /\ Merge(m)
  \/ ~Merges(c.Type) /\ AddToUndo(c)

-----------------------------------------------------------------------------
(* The edits.  Each records itself, then changes the line. *)

MayEdit == /\ Idle
           /\ undoLockCount > 0 => undoGroupCount < MaxGroup
           /\ edits < MaxEdits
Fits(t) == Len(t) <= MaxText

Edited == modified' = TRUE      \* MarkAsModified()

(* What every edit does to the rest. *)
EditFrame == /\ edits' = edits + 1
             /\ UNCHANGED <<undoLockCount, leaked, loops, noMoveToEnd, file>>

(* InsertCharInLine() in insert mode. *)
PutChar(c) ==
  /\ MayEdit /\ ~overwrite
  /\ Fits(Append(text, c))
  /\ AddOrMerge([StartCell("undoPutChar") EXCEPT !.s = <<c>>, !.Length = 1],
                [Open EXCEPT !.s = Append(@, c), !.Length = @ + 1])
  /\ text' = InsertAt(text, cur, <<c>>)
  /\ cur' = cur + 1
  /\ Edited
  /\ EditFrame /\ UNCHANGED overwrite

(* InsertCharInLine() in overwrite mode: the character at the cursor, or   *)
(* nothing at the end of the line, is replaced.  The lock it holds around  *)
(* addToUndo() leaves no trace: unlockUndo() resets the group.             *)
OvrPutChar(c) ==
  LET old == Piece(text, cur, cur + 1)
  IN  /\ MayEdit /\ overwrite
      /\ Fits(OverwriteAt(text, cur, <<c>>))
      /\ AddOrMerge([StartCell("undoOvrPutChar") EXCEPT !.s = <<c>>, !.s2 = old,
                                                       !.Length = 1],
                    [Open EXCEPT !.s = Append(@, c), !.s2 = @ \o old, !.Length = @ + 1])
      /\ text' = OverwriteAt(text, cur, <<c>>)
      /\ cur' = cur + 1
      /\ Edited
      /\ EditFrame /\ UNCHANGED overwrite

(* The same at the end of a line that cannot grow, because it has reached  *)
(* MaxLineLen or there is no memory: AdjustBufEditFor() beeps, and         *)
(* InsertCharInLine() returns without giving back its lock.  From then on  *)
(* every edit belongs to one command that does not end.                    *)
OvrPutCharNoRoom ==
  /\ MayEdit /\ overwrite /\ cur = Len(text)
  /\ leaked < MaxLeaks
  /\ undoLockCount' = undoLockCount + 1
  /\ leaked' = leaked + 1
  /\ UNCHANGED <<ring, UndoSt, undoGroupCount, loops, editor, modified, noMoveToEnd, edits, file>>

(* BackSpace() in the line. *)
BackSpace ==
  LET old == Piece(text, cur - 1, cur)
  IN  /\ MayEdit /\ cur > 0
      /\ AddOrMerge([StartCell("undoDelChar") EXCEPT !.s = old, !.Length = 1],
                    [Open EXCEPT !.s = old \o @, !.Length = @ + 1])
      /\ text' = DeleteRange(text, cur - 1, cur)
      /\ cur' = cur - 1
      /\ Edited
      /\ EditFrame /\ UNCHANGED overwrite

(* cmcDelChar in the line. *)
DelChar ==
  LET old == Piece(text, cur, cur + 1)
  IN  /\ MayEdit /\ cur < Len(text)
      /\ AddOrMerge([StartCell("undoDelCharDel") EXCEPT !.s = old, !.Length = 1],
                    [Open EXCEPT !.s = @ \o old, !.Length = @ + 1])
      /\ text' = DeleteRange(text, cur, cur + 1)
      /\ Edited
      /\ EditFrame /\ UNCHANGED <<cur, overwrite>>

(* A cursor movement: addToUndo(undoInMov), then the cursor moves. *)
Move(x) ==
  /\ MayEdit /\ x # cur
  /\ AddOrMerge(StartCell("undoInMov"), Open)
  /\ cur' = x
  /\ EditFrame /\ UNCHANGED <<text, overwrite, modified>>

(* toggleInsMode(True): undoCutInMov starts a new movement cell, never     *)
(* merged with the one before it.                                          *)
ToggleInsMode ==
  /\ MayEdit
  /\ AddToUndo(StartCell("undoInMov"))
  /\ overwrite' = ~overwrite
  /\ EditFrame /\ UNCHANGED <<text, cur, modified>>

(* deleteRangeLineInEdition(from,to,x): undoPreDelete saves the start      *)
(* state, x moves the cursor when it is not -1, undoDelete completes the   *)
(* cell.  cmcDelEnd and cmcDelWord delete at the cursor and pass -1,       *)
(* cmcDelStart deletes what is left of it and passes 0.                    *)
DeleteRangeLineInEdition(from, to, x) ==
  /\ MayEdit /\ from < to
  /\ AddToUndo([StartCell("undoDelete") EXCEPT !.s = Piece(text, from, to),
                                               !.Length = to - from])
  /\ text' = DeleteRange(text, from, to)
  /\ cur' = x
  /\ Edited
  /\ EditFrame /\ UNCHANGED overwrite

DelEnd == DeleteRangeLineInEdition(cur, Len(text), cur)
DelStart == DeleteRangeLineInEdition(0, cur, 0)

(* deleteRange(from,to) with undo, the way deleting a selection calls it:  *)
(* undoPreDelete, the cursor goes to from, undoDeleteBuf.                  *)
DeleteSelect(from, to) ==
  /\ MayEdit /\ from < to
  /\ AddToUndo([StartCell("undoDeleteBuf") EXCEPT !.s = Piece(text, from, to),
                                                  !.Length = to - from,
                                                  !.OffSet = from])
  /\ text' = DeleteRange(text, from, to)
  /\ cur' = from
  /\ Edited
  /\ EditFrame /\ UNCHANGED overwrite

(* insertBuffer(p,...,True,False,False), the way pasting calls it:         *)
(* undoPreInsert, the insertion, undoInsert; the cursor goes to the end of *)
(* what is inserted unless staticNoMoveToEndPaste.                         *)
InsertBuffer(p) ==
  /\ MayEdit
  /\ Fits(text \o p)
  /\ AddToUndo([StartCell("undoInsert") EXCEPT !.s = p, !.Length = Len(p)])
  /\ text' = InsertAt(text, cur, p)
  /\ cur' = IF noMoveToEnd THEN cur ELSE cur + Len(p)
  /\ Edited
  /\ EditFrame /\ UNCHANGED overwrite

(* cmcSelRectHide: addToUndo(undoRectHide) saves no start state, so that   *)
(* the new cell keeps the Flags of the cell that was there, and writes the *)
(* hidden state into the Length of `un', the previous cell.  Whether the   *)
(* rectangle is hidden is not followed: hided is 0 or 1.                   *)
SelRectHide(hided) ==
  LET a == IncWithWrap(UndoActual)
      prev == [UndoSaveFinalState(Open) EXCEPT !.Length = hided]
  IN  /\ MayEdit
      /\ PushAfter(prev, [StartCell("undoRectHide") EXCEPT
                            !.Flags = UndoArray[a].Flags])
      /\ Grouping
      /\ EditFrame /\ UNCHANGED <<editor, modified>>

(* lockUndo() at the start of a command and unlockUndo() at its end.       *)
LockUndo ==
  /\ Idle /\ NoCommand
  /\ undoLockCount' = undoLockCount + 1
  /\ UNCHANGED <<leaked, ring, UndoSt, undoGroupCount, loops, editor, modified, noMoveToEnd, edits, file>>

UnlockUndo ==
  /\ Idle /\ undoLockCount > leaked
  /\ undoLockCount' = undoLockCount - 1
  /\ undoGroupCount' = IF undoLockCount = 1 THEN 0 ELSE undoGroupCount
  /\ UNCHANGED <<leaked, ring, UndoSt, loops, editor, modified, noMoveToEnd, edits, file>>

-----------------------------------------------------------------------------
(* undo() *)

(* UndoSt=undoNoUndo: nothing merges into the cell undo() or redo() leaves *)
(* at UndoActual.                                                          *)
LeaveOpen == UNCHANGED UndoSt
CloseCell == UndoSt' = undoNoUndo

(* What undoOneAction() makes of the line: the new text and cursor.        *)
Undone(un) ==
  CASE un.Type = "undoInMov" ->
         [text |-> text, cur |-> ClipTo(text, un.X)]
    [] un.Type = "undoPutChar" ->
         [text |-> DeleteRange(text, cur - un.Length, cur),
          cur |-> ClipTo(text, cur - un.Length)]
    [] un.Type = "undoOvrPutChar" ->
         [text |-> Piece(text, 0, un.X) \o Piece(un.s2, 0, un.Length)
                     \o Piece(text, un.X + un.Length, Len(text)),
          cur |-> un.X]
    [] un.Type \in {"undoDelChar", "undoDelCharDel"} ->
         [text |-> InsertAt(text, cur, Piece(un.s, 0, un.Length)), cur |-> un.X]
    [] un.Type = "undoDelete" ->
         [text |-> InsertAt(text, un.Xf, Piece(un.s, 0, un.Length)), cur |-> un.X]
    [] un.Type = "undoDeleteBuf" ->
         [text |-> InsertAt(text, un.OffSet, Piece(un.s, 0, un.Length)), cur |-> un.X]
    [] un.Type = "undoInsert" ->
         [text |-> DeleteRange(text, un.X, un.X + un.Length), cur |-> un.X]
    [] OTHER ->
         [text |-> text, cur |-> cur]

(* undoOneAction(): a cell still open is closed first, then the action is  *)
(* reverted and the flags of its start come back.  It stops at the         *)
(* sentinel.                                                               *)
UndoOneAction ==
  LET un == IF UndoSt # undoNoUndo THEN UndoSaveFinalState(Open) ELSE Open
      line == Undone(un)
  IN  IF UndoActual = UndoBase
      THEN UNCHANGED <<ring, UndoSt, editor, modified>>
      ELSE /\ UndoArray' = [UndoArray EXCEPT ![UndoActual] = un]
           /\ text' = line.text
           /\ cur' = ClipTo(line.text, line.cur)
           /\ modified' = ("undoModified" \in un.Flags)
           /\ overwrite' = ("undoOverWrite" \in un.Flags)
           /\ CloseCell
           /\ UndoActual' = DecWithWrap(UndoActual)
           /\ UNCHANGED <<UndoBase, UndoTop>>

UndoFrame == UNCHANGED <<group, redoing, noMoveToEnd, edits, file>>

(* undo() reads Count before the first call and calls Count more times.    *)
NoMoreCalls == 0
MoreCalls == Open.Count

Undo ==
  /\ Idle /\ NoCommand
  /\ UndoActual # UndoBase
  /\ UndoOneAction
  /\ undoing' = MoreCalls
  /\ UndoFrame

UndoMoreUncounted ==
  /\ undoing > 0
  /\ UndoOneAction
  /\ undoing' = IF UndoActual = UndoBase THEN undoing ELSE undoing - 1
  /\ UndoFrame

UndoMore ==
  /\ undoing > 0
  /\ UndoOneAction
  /\ undoing' = undoing - 1
  /\ UndoFrame

-----------------------------------------------------------------------------
(* redo() *)

(* insertBuffer() of a redo, with moveToEnd False.                         *)
Reinserted(at, s) == [text |-> InsertAt(text, at, s),
                      cur |-> IF noMoveToEnd THEN at ELSE at + Len(s)]

(* What the switch of redo() makes of the line.                            *)
Redone(un) ==
  LET s == Piece(un.s, 0, un.Length)
      X == ClipTo(text, un.X)
  IN
  CASE un.Type = "undoInMov" ->
         [text |-> text, cur |-> un.Xf]
    [] un.Type = "undoPutChar" ->
         Reinserted(X, s)
    [] un.Type = "undoOvrPutChar" ->
         [text |-> OverwriteAt(text, X, s), cur |-> X + Len(s)]
    [] un.Type = "undoDelCharDel" ->
         [text |-> DeleteRange(text, cur, cur + un.Length), cur |-> cur]
    [] un.Type = "undoDelChar" ->
         [text |-> DeleteRange(text, cur - un.Length, cur), cur |-> cur - un.Length]
    [] un.Type = "undoDelete" ->
         [text |-> DeleteRange(text, X, X + un.Length), cur |-> un.Xf]
    [] un.Type = "undoDeleteBuf" ->
         [text |-> DeleteRange(text, un.OffSet, un.OffSet + un.Length), cur |-> un.Xf]
    [] un.Type = "undoInsert" ->
         [text |-> Reinserted(X, s).text, cur |-> un.Xf]
    [] OTHER ->
         [text |-> text, cur |-> cur]

(* One cell done again: the part of redo() before the recursive calls.     *)
RedoOneAction ==
  LET a == IncWithWrap(UndoActual)
      line == Redone(UndoArray[a])
  IN  /\ text' = line.text
      /\ cur' = ClipTo(line.text, line.cur)
      /\ modified' = ("undoModifiedF" \in UndoArray[a].Flags)
      /\ overwrite' = ("undoOverWriteF" \in UndoArray[a].Flags)
      /\ CloseCell
      /\ UndoActual' = a
      /\ UNCHANGED <<UndoArray, UndoBase, UndoTop>>

RedoFrame == UNCHANGED <<group, undoing, noMoveToEnd, edits, file>>

(* A call that reaches UndoTop returns, and every caller breaks its loop;  *)
(* otherwise it enters the loop with aux on the next cell.                 *)
EnterLoop ==
  redoing' = IF UndoActual' = UndoTop THEN <<>>
             ELSE Append(redoing, IncWithWrap(UndoActual'))

(* Redo is not asked for once the text is past MaxText: a redo that does   *)
(* not repeat the edit may let every undo and redo add to the text.        *)
Redo ==
  /\ Idle /\ NoCommand
  /\ Fits(text)
  /\ UndoActual # UndoTop
  /\ RedoOneAction
  /\ EnterLoop
  /\ RedoFrame

(* The loop of the innermost call: it calls redo() again while the cell at *)
(* its aux belongs to a group.                                             *)
Aux == redoing[Len(redoing)]

AlwaysInChain(i) == TRUE
InChain(i) == UndoArray[i].Count # 0

RedoMore ==
  /\ redoing # <<>>
  /\ InChain(Aux)
  /\ RedoOneAction
  /\ EnterLoop
  /\ RedoFrame

(* The loop ends: the caller, if there is one, moves its own aux one cell  *)
(* further and tests again.                                                *)
RedoReturn ==
  LET outer == SubSeq(redoing, 1, Len(redoing) - 1)
  IN  /\ redoing # <<>>
      /\ ~InChain(Aux)
      /\ redoing' = IF outer = <<>> THEN <<>>
                    ELSE [outer EXCEPT ![Len(outer)] = IncWithWrap(@)]
      /\ UNCHANGED <<ring, UndoSt, editor, modified>>
      /\ RedoFrame

-----------------------------------------------------------------------------
(* What happens to the whole buffer *)

(* flushUndoInfo(): every cell from UndoTop down to the sentinel, and the  *)
(* sentinel, is freed.  UndoSt is left alone.                              *)
FlushWithoutActual ==
  /\ UndoArray' = [i \in Cells |-> IF i \in InUse \cup {UndoBase}
                                   THEN Freed(UndoArray[i]) ELSE UndoArray[i]]
  /\ UndoTop' = UndoBase
  /\ UNCHANGED <<UndoBase, UndoActual>>

FlushUndoInfo ==
  /\ UndoArray' = [i \in Cells |-> IF i \in InUse \cup {UndoBase}
                                   THEN Freed(UndoArray[i]) ELSE UndoArray[i]]
  /\ UndoTop' = UndoBase
  /\ UndoActual' = UndoBase
  /\ UNCHANGED UndoBase

(* RemapCodePageBuffer() of the whole buffer, an action without undo: each *)
(* character is replaced by the one f gives.                               *)
RemapCodePageBuffer(f) ==
  /\ Idle /\ NoCommand
  /\ text' = [k \in DOMAIN text |-> f[text[k]]]
  /\ FlushUndoInfo
  /\ Edited
  /\ UNCHANGED <<UndoSt, group, loops, cur, overwrite, noMoveToEnd, edits, file>>

(* reLoadFile(): a flush, then loadFile(), which ends in setBufLen() and   *)
(* its fresh, empty ring in cell 0.                                        *)
ReLoadFile ==
  /\ Idle /\ NoCommand
  /\ UndoArray' = [i \in Cells |->
                     LET c == IF i \in InUse \cup {UndoBase}
                              THEN Freed(UndoArray[i]) ELSE UndoArray[i]
                     IN  IF i = 0 THEN [c EXCEPT !.Type = undoNoUndo, !.X = 0,
                                                 !.Count = 0]
                         ELSE c]
  /\ UndoBase' = 0 /\ UndoActual' = 0 /\ UndoTop' = 0
  /\ UndoSt' = undoNoUndo
  /\ undoLockCount' = 0 /\ undoGroupCount' = 0 /\ leaked' = 0
  /\ text' = disk /\ cur' = 0 /\ modified' = FALSE
  /\ UNCHANGED <<loops, overwrite, noMoveToEnd, edits, file>>

(* RevertModifFlagInUndo(): the start of every cell, freed ones too, is    *)
(* marked as modified.                                                     *)
ForgetFlags == UNCHANGED UndoArray
RevertModifFlagInUndo ==
  UndoArray' = [i \in Cells |->
                  [UndoArray[i] EXCEPT !.Flags = @ \cup {"undoModified"}]]

(* saveFile() when it succeeds. *)
SaveFile ==
  /\ Idle /\ NoCommand
  /\ saves < MaxSaves
  /\ disk' = text
  /\ modified' = FALSE
  /\ RevertModifFlagInUndo
  /\ saves' = saves + 1
  /\ UNCHANGED <<UndoBase, UndoActual, UndoTop, UndoSt, group, loops, editor, noMoveToEnd, edits>>

(* cmcToggleMoveOnPaste *)
ToggleMoveOnPaste ==
  /\ Idle /\ NoCommand
  /\ noMoveToEnd' = ~noMoveToEnd
  /\ UNCHANGED <<ring, UndoSt, group, loops, editor, modified, edits, file>>

-----------------------------------------------------------------------------
EmptyCell == [Type |-> undoNoUndo, Count |-> 0, X |-> 0, Xf |-> 0, s |-> <<>>,
              s2 |-> <<>>, OffSet |-> 0, Length |-> 0, Flags |-> {}]

(* setBufLen() of an empty buffer. *)
Init ==
  /\ UndoArray = [i \in Cells |-> EmptyCell]
  /\ UndoBase = 0 /\ UndoActual = 0 /\ UndoTop = 0
  /\ UndoSt = undoNoUndo
  /\ undoLockCount = 0 /\ undoGroupCount = 0 /\ leaked = 0
  /\ undoing = 0 /\ redoing = <<>>
  /\ text = <<>> /\ cur = 0
  /\ overwrite = FALSE /\ modified = FALSE /\ noMoveToEnd = FALSE
  /\ disk = <<>> /\ edits = 0 /\ saves = 0

Edit ==
  \/ "PutChar" \in Ops /\ \E c \in Chars : PutChar(c)
  \/ "OvrPutChar" \in Ops /\ \E c \in Chars : OvrPutChar(c)
  \/ "BackSpace" \in Ops /\ BackSpace
  \/ "DelChar" \in Ops /\ DelChar
  \/ "Move" \in Ops /\ \E x \in 0 .. Len(text) : Move(x)
  \/ "OvrPutChar" \in Ops /\ ToggleInsMode
  \/ "DelEnd" \in Ops /\ DelEnd
  \/ "DelStart" \in Ops /\ DelStart
  \/ "DeleteSelect" \in Ops /\ \E from, to \in 0 .. Len(text) : DeleteSelect(from, to)
  \/ "InsertBuffer" \in Ops /\ \E p \in Clips : InsertBuffer(p)
  \/ "SelRectHide" \in Ops /\ \E hided \in {0, 1} : SelRectHide(hided)

Group ==
  \/ "LockUndo" \in Ops /\ (LockUndo \/ UnlockUndo)
  \/ "OvrPutCharNoRoom" \in Ops /\ OvrPutCharNoRoom

UndoNext == "Undo" \in Ops /\ (Undo \/ UndoMore)

RedoNext == "Redo" \in Ops /\ (Redo \/ RedoMore \/ RedoReturn)

Whole ==
  \/ "RemapCodePageBuffer" \in Ops /\ \E f \in [Chars -> Chars] : RemapCodePageBuffer(f)
  \/ "ReLoadFile" \in Ops /\ ReLoadFile
  \/ "SaveFile" \in Ops /\ SaveFile
  \/ "ToggleMoveOnPaste" \in Ops /\ ToggleMoveOnPaste

Next == Edit \/ Group \/ UndoNext \/ RedoNext \/ Whole

Spec == Init /\ [][Next]_vars

(* undo() and redo() run to their end once called. *)
Fairness == WF_vars(UndoMore) /\ WF_vars(RedoMore \/ RedoReturn)
FairSpec == Spec /\ Fairness

-----------------------------------------------------------------------------
(* The types of the variables, and the bounds of the two loops. *)
TypeOK ==
  /\ UndoArray \in [Cells -> UndoCell]
  /\ UndoBase \in Cells /\ UndoActual \in Cells /\ UndoTop \in Cells
  /\ UndoSt \in UndoTypes
  /\ undoLockCount \in Nat /\ undoGroupCount \in Nat /\ leaked \in Nat
  /\ undoing \in Nat /\ redoing \in Seq(Cells)
  /\ text \in Seq(Chars) /\ cur \in Nat
  /\ overwrite \in BOOLEAN /\ modified \in BOOLEAN /\ noMoveToEnd \in BOOLEAN
  /\ disk \in Seq(Chars) /\ edits \in Nat /\ saves \in Nat

(* Going up from UndoBase one meets UndoActual before UndoTop, wherever    *)
(* the ring wraps: undo() never runs into cells that are not done and      *)
(* redo() never into cells that were not undone.                           *)
RingInOrder == UndoActual \in After(UndoBase, UndoTop) \cup {UndoBase}

(* addToUndo(), undo() and redo() rely on the type of a cell to know what  *)
(* its text is.  Every cell between the sentinel and UndoTop holds an      *)
(* action, and every other cell but the sentinel has been freed: nothing   *)
(* is lost and nothing is freed too early.                                 *)
CellsAccounted ==
  /\ \A i \in InUse : UndoArray[i].Type # undoNoUndo
  /\ \A i \in Cells \ (InUse \cup {UndoBase}) : UndoArray[i].Type = undoNoUndo

(* UndoSt names an open cell only while the cell at UndoActual is of that  *)
(* type: what is merged into it was allocated for it.                      *)
OpenCellMatches == UndoSt # undoNoUndo => UndoArray[UndoActual].Type = UndoSt

(* Every call of undo() and of redo() returns, however the recursive calls *)
(* of redo() nest.                                                         *)
LoopsEnd == ~Idle ~> Idle
=============================================================================
