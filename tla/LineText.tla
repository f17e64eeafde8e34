------------------------------ MODULE LineText ------------------------------
(***************************************************************************)
(* The text the undo engine works on, reduced to what undo and redo can    *)
(* tell apart: one line of characters and a cursor between two of them.    *)
(* A text is a function on 1..n, so that every operator below returns a    *)
(* sequence whatever offsets it is given: the callers compute offsets from *)
(* the cursor and from lengths kept in undo cells, and the point of the    *)
(* model is that those may disagree with the text.                         *)
(***************************************************************************)
EXTENDS Integers, Sequences

Least(a, b) == IF a <= b THEN a ELSE b
Largest(a, b) == IF a >= b THEN a ELSE b

(* MoveCursorTo and GotoOffSet, on a line whose cursor stays in the text. *)
ClipTo(t, p) == Largest(0, Least(p, Len(t)))

(* The characters at offsets from..to-1. *)
Piece(t, from, to) ==
  LET f == ClipTo(t, from)
      e == ClipTo(t, to)
  IN  [k \in 1 .. Largest(0, e - f) |-> t[f + k]]

(* deleteRange(from,to,False): nothing is done unless from < to. *)
DeleteRange(t, from, to) ==
  IF from >= to THEN t
  ELSE Piece(t, 0, from) \o Piece(t, to, Len(t))

(* insertBuffer(s,...) at an offset. *)
InsertAt(t, p, s) == Piece(t, 0, p) \o s \o Piece(t, p, Len(t))

(* InsertCharInLine over the characters of s in overwrite mode. *)
OverwriteAt(t, p, s) == Piece(t, 0, p) \o s \o Piece(t, p + Len(s), Len(t))
=============================================================================
