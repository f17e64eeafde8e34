----------------------------- MODULE UndoHistory -----------------------------
(***************************************************************************)
(* UndoRing with a memory: for every cell, the line before its first edit  *)
(* and after its last one, and whether it began a command.  The memory     *)
(* only watches; with it one can say what undo() and redo() bring back.    *)
(***************************************************************************)
EXTENDS UndoRing

VARIABLES
  snap,    (* of each cell: the lines around it                             *)
  dirty    (* the running command has changed the text                      *)

hvars == <<vars, snap, dirty>>

doc == [text |-> text, cur |-> cur, overwrite |-> overwrite]

HInit ==
  /\ Init
  /\ snap = [i \in Cells |-> [pre |-> doc, post |-> doc, first |-> TRUE]]
  /\ dirty = FALSE

(* An edit leaves a cell open; undo(), redo() and a reload leave none.     *)
Watch ==
  /\ snap' = IF UndoSt' = undoNoUndo THEN snap
             ELSE [snap EXCEPT ![UndoActual'] =
                     IF UndoActual' # UndoActual
                     THEN [pre |-> doc, post |-> doc', first |-> ~dirty]
                     ELSE [@ EXCEPT !.post = doc']]
  /\ dirty' = (~NoCommand' /\ (dirty \/ text' # text))

HNext == Next /\ Watch

HSpec == HInit /\ [][HNext]_hvars

(* The cell k steps up from a, and the number of steps from a up to b.     *)
Nth(a, k) == (a + k) % MAX_UNDO
Steps(a, b) == IF a <= b THEN b - a ELSE b - a + MAX_UNDO

past == [k \in 1 .. Steps(UndoBase, UndoActual) |-> snap[Nth(UndoBase, k)].pre]
future == [k \in 1 .. Steps(UndoActual, UndoTop) |-> snap[Nth(UndoActual, k)].post]

(* The ring implements the linear history: whatever mixture of edits, undo *)
(* and redo led here, undoing a cell brings back the line and the cursor   *)
(* that were there before it, redoing it brings back what was there after. *)
History == INSTANCE LinearHistory
LinearHistorySpec == History!Spec

(* undo() and redo() leave the text between two commands, never inside     *)
(* one: what could be redone from a state at rest starts a command.        *)
LandsOnCommand ==
  Idle /\ NoCommand /\ UndoActual # UndoTop
    => snap[IncWithWrap(UndoActual)].first

(* The calls redo() makes to itself stay in the chain of the first one:    *)
(* they redo only cells that belong to a group.                            *)
RedoStaysInChain ==
  [][redoing # <<>> /\ UndoActual' # UndoActual
       => UndoArray[UndoActual'].Count # 0]_hvars

(* A buffer that is not marked modified is the one in the file: closing    *)
(* the editor asks for a save whenever there is something to save.         *)
UnmodifiedIsSaved == Idle /\ ~modified => text = disk
=============================================================================
