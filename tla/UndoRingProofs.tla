--------------------------- MODULE UndoRingProofs ---------------------------
(***************************************************************************)
(* Type correctness of the undo engine, for any ring, alphabet and set of  *)
(* handlers: first what the operators of LineText and of UndoRing return,  *)
(* then one lemma per group of handlers, then the theorem.  The second     *)
(* part is the safety of the ring, the third is about the commands that    *)
(* UndoHistory remembers, and the fourth is that the ring implements the   *)
(* linear history of LinearHistory.                                        *)
(***************************************************************************)
EXTENDS UndoHistory, SequenceTheorems, TLAPS

LEMMA ClipToType ==
  ASSUME NEW S, NEW t \in Seq(S), NEW p \in Int
  PROVE  ClipTo(t, p) \in 0 .. Len(t)
BY DEF ClipTo, Least, Largest

LEMMA PieceType ==
  ASSUME NEW S, NEW t \in Seq(S), NEW from \in Int, NEW to \in Int
  PROVE  Piece(t, from, to) \in Seq(S)
<1> DEFINE f == ClipTo(t, from)
           e == ClipTo(t, to)
           n == Largest(0, e - f)
<1>1. f \in 0 .. Len(t) /\ e \in 0 .. Len(t)
  BY ClipToType
<1>2. n \in Nat /\ \A k \in 1 .. n : f + k \in 1 .. Len(t)
  BY <1>1 DEF Largest
<1> HIDE DEF f, e, n
<1>3. [k \in 1 .. n |-> t[f + k]] \in Seq(S)
  BY <1>2
<1> QED
  BY <1>3 DEF Piece, f, e, n

LEMMA EditTypes ==
  ASSUME NEW S, NEW t \in Seq(S), NEW p \in Int, NEW q \in Int, NEW s \in Seq(S)
  PROVE  /\ DeleteRange(t, p, q) \in Seq(S)
         /\ InsertAt(t, p, s) \in Seq(S)
         /\ OverwriteAt(t, p, s) \in Seq(S)
<1>1. Len(t) \in Int /\ Len(s) \in Int /\ 0 \in Int /\ p + Len(s) \in Int
  OBVIOUS
<1>2. /\ Piece(t, 0, p) \in Seq(S)
      /\ Piece(t, q, Len(t)) \in Seq(S)
      /\ Piece(t, p, Len(t)) \in Seq(S)
      /\ Piece(t, p + Len(s), Len(t)) \in Seq(S)
  BY <1>1, PieceType
<1> QED
  BY <1>2 DEF DeleteRange, InsertAt, OverwriteAt

-----------------------------------------------------------------------------
(* Cells and indices. *)

LEMMA Wrap ==
  ASSUME NEW i \in Cells
  PROVE  /\ IncWithWrap(i) \in Cells
         /\ DecWithWrap(i) \in Cells
         /\ IncWithWrap(i) # i
BY MaxUndoAssumption DEF Cells, IncWithWrap, DecWithWrap

LEMMA CellTypes ==
  ASSUME NEW c \in UndoCell, cur \in Nat
  PROVE  /\ Freed(c) \in UndoCell
         /\ UndoSaveFinalState(c) \in UndoCell
         /\ UndoSaveFinalState(c).Type = c.Type
         /\ UndoSaveFinalState(c).Count = c.Count
         /\ Freed(c).Type = undoNoUndo
         /\ Freed(c).Count = c.Count
<1>1. <<>> \in Seq(Chars) /\ undoNoUndo \in UndoTypes
  BY DEF UndoTypes
<1>2. FinalFlags \subseteq FlagBits
  BY DEF FinalFlags, FlagBits
<1> QED
  BY <1>1, <1>2 DEF Freed, UndoSaveFinalState, UndoCell

LEMMA StartCellType ==
  ASSUME NEW st \in UndoTypes, cur \in Nat, undoGroupCount \in Nat
  PROVE  StartCell(st) \in UndoCell
<1>1. <<>> \in Seq(Chars)
  OBVIOUS
<1>2. StartFlags \subseteq FlagBits
  BY DEF StartFlags, FlagBits
<1> QED
  BY <1>1, <1>2 DEF StartCell, UndoCell

LEMMA PushTypes ==
  ASSUME TypeOK, NEW prev \in UndoCell, NEW c \in UndoCell, PushAfter(prev, c)
  PROVE  /\ UndoArray' \in [Cells -> UndoCell]
         /\ UndoBase' \in Cells /\ UndoActual' \in Cells /\ UndoTop' \in Cells
         /\ UndoSt' \in UndoTypes
<1> DEFINE a == IncWithWrap(UndoActual)
           closed == [UndoArray EXCEPT ![UndoActual] = prev]
<1>1. a \in Cells
  BY Wrap DEF TypeOK
<1>2. closed \in [Cells -> UndoCell]
  BY DEF TypeOK
<1>3. \A i \in Cells : Freed(closed[i]) \in UndoCell
  BY <1>2, CellTypes DEF TypeOK
<1>4. PICK b \in IF a = UndoBase THEN EvictTo(a) ELSE {UndoBase} :
        /\ UndoArray' = [i \in Cells |-> IF i = a THEN c
                                         ELSE IF i \in Kept(a, b) THEN closed[i]
                                         ELSE Freed(closed[i])]
        /\ UndoBase' = b /\ UndoActual' = a /\ UndoTop' = a /\ UndoSt' = c.Type
  BY DEF PushAfter
<1>5. b \in Cells
  BY <1>4 DEF EvictTo, TypeOK
<1> HIDE DEF a, closed
<1>6. UndoArray' \in [Cells -> UndoCell]
  BY <1>2, <1>3, <1>4
<1> QED
  BY <1>1, <1>4, <1>5, <1>6 DEF UndoCell

RingTypes ==
  /\ UndoArray \in [Cells -> UndoCell]
  /\ UndoBase \in Cells /\ UndoActual \in Cells /\ UndoTop \in Cells
  /\ UndoSt \in UndoTypes
  /\ undoGroupCount \in Nat

LEMMA RecordTypes ==
  ASSUME TypeOK, NEW c \in UndoCell, NEW m \in UndoCell
  PROVE  /\ AddToUndo(c) => RingTypes'
         /\ AddOrMerge(c, m) => RingTypes'
<1>1. Open \in UndoCell /\ UndoSaveFinalState(Open) \in UndoCell
  BY CellTypes DEF Open, TypeOK
<1>2. AddToUndo(c) => RingTypes'
  BY <1>1, PushTypes DEF AddToUndo, Push, Grouping, RingTypes, TypeOK
<1>3. Merge(m) => RingTypes'
  BY DEF Merge, RingTypes, TypeOK
<1> QED
  BY <1>2, <1>3 DEF AddOrMerge

LEMMA UndoneType ==
  ASSUME TypeOK, NEW un \in UndoCell
  PROVE  Undone(un).text \in Seq(Chars) /\ Undone(un).cur \in Int
<1>1. /\ un.X \in Nat /\ un.Xf \in Nat /\ un.OffSet \in Nat /\ un.Length \in Nat
      /\ un.s \in Seq(Chars) /\ un.s2 \in Seq(Chars)
  BY DEF UndoCell
<1>2. text \in Seq(Chars) /\ cur \in Nat /\ Len(text) \in Nat
  BY DEF TypeOK
<1>int. /\ 0 \in Int /\ cur \in Int /\ cur - un.Length \in Int /\ un.Length \in Int
      /\ un.X \in Int /\ un.Xf \in Int /\ un.OffSet \in Int
      /\ un.X + un.Length \in Int /\ Len(text) \in Int
  BY <1>1, <1>2
<1>3. \A t \in Seq(Chars) : \A p, q \in Int : Piece(t, p, q) \in Seq(Chars)
  BY PieceType
<1>4. \A p, q \in Int : DeleteRange(text, p, q) \in Seq(Chars)
  <2> <<>> \in Seq(Chars)
    OBVIOUS
  <2> QED
    BY <1>2, EditTypes
<1>5. \A p \in Int : InsertAt(text, p, Piece(un.s, 0, un.Length)) \in Seq(Chars)
  <2> Piece(un.s, 0, un.Length) \in Seq(Chars)
    BY <1>1, <1>3, <1>int
  <2> QED
    BY <1>2, <1>int, EditTypes
<1>6. \A p \in Int : ClipTo(text, p) \in Int
  BY <1>2, ClipToType
<1>7. CASE un.Type = "undoInMov"
  BY <1>1, <1>2, <1>6, <1>7 DEF Undone
<1>8. CASE un.Type = "undoPutChar"
  <2> /\ DeleteRange(text, cur - un.Length, cur) \in Seq(Chars)
      /\ ClipTo(text, cur - un.Length) \in Int
    BY <1>4, <1>6, <1>int
  <2> QED
    BY <1>8 DEF Undone
<1>9. CASE un.Type = "undoOvrPutChar"
  <2>1. /\ Piece(text, 0, un.X) \in Seq(Chars)
        /\ Piece(un.s2, 0, un.Length) \in Seq(Chars)
        /\ Piece(text, un.X + un.Length, Len(text)) \in Seq(Chars)
    BY <1>1, <1>2, <1>3, <1>int
  <2> DEFINE head == Piece(text, 0, un.X)
             mid == Piece(un.s2, 0, un.Length)
             tail == Piece(text, un.X + un.Length, Len(text))
  <2>2. Undone(un) = [text |-> head \o mid \o tail, cur |-> un.X]
    BY <1>9 DEF Undone
  <2> HIDE DEF head, mid, tail
  <2>3. head \o mid \o tail \in Seq(Chars)
    BY <2>1 DEF head, mid, tail
  <2> QED
    BY <1>int, <2>2, <2>3
<1>10. CASE un.Type \in {"undoDelChar", "undoDelCharDel"}
  BY <1>1, <1>2, <1>5, <1>10 DEF Undone
<1>11. CASE un.Type = "undoDelete"
  BY <1>1, <1>5, <1>11 DEF Undone
<1>12. CASE un.Type = "undoDeleteBuf"
  BY <1>1, <1>5, <1>12 DEF Undone
<1>13. CASE un.Type = "undoInsert"
  <2> DeleteRange(text, un.X, un.X + un.Length) \in Seq(Chars)
    BY <1>4, <1>int
  <2> QED
    BY <1>int, <1>13 DEF Undone
<1>14. CASE un.Type \notin {"undoInMov", "undoPutChar", "undoOvrPutChar", "undoDelChar",
                           "undoDelCharDel", "undoDelete", "undoDeleteBuf", "undoInsert"}
  BY <1>2, <1>14 DEF Undone
<1> QED
  BY <1>7, <1>8, <1>9, <1>10, <1>11, <1>12, <1>13, <1>14

LEMMA RedoneType ==
  ASSUME TypeOK, NEW un \in UndoCell
  PROVE  Redone(un).text \in Seq(Chars) /\ Redone(un).cur \in Int
<1> DEFINE s == Piece(un.s, 0, un.Length)
           X == ClipTo(text, un.X)
<1>1. /\ un.X \in Nat /\ un.Xf \in Nat /\ un.OffSet \in Nat /\ un.Length \in Nat
      /\ un.s \in Seq(Chars)
  BY DEF UndoCell
<1>2. text \in Seq(Chars) /\ cur \in Nat
  BY DEF TypeOK
<1>int. cur \in Int /\ cur - un.Length \in Int /\ cur + un.Length \in Int /\ un.X \in Int
  BY <1>1, <1>2
<1>3. s \in Seq(Chars) /\ Len(s) \in Nat
  <2>1. s \in Seq(Chars)
    BY <1>1, PieceType
  <2> QED
    BY <2>1
<1>4. X \in Nat /\ X \in Int /\ X + un.Length \in Int
  <2> X \in 0 .. Len(text)
    BY <1>2, <1>int, ClipToType
  <2> QED
    BY <1>1, <1>2
<1> HIDE DEF s, X
<1>5. \A p, q \in Int : DeleteRange(text, p, q) \in Seq(Chars)
  BY <1>2, <1>3, EditTypes
<1>6. InsertAt(text, X, s) \in Seq(Chars) /\ OverwriteAt(text, X, s) \in Seq(Chars)
  BY <1>2, <1>3, <1>4, EditTypes
<1>7. Reinserted(X, s).text \in Seq(Chars) /\ Reinserted(X, s).cur \in Int
  BY <1>3, <1>4, <1>6 DEF Reinserted
<1>8. CASE un.Type = "undoInMov"
  BY <1>1, <1>2, <1>8 DEF Redone
<1>9. CASE un.Type = "undoPutChar"
  BY <1>7, <1>9 DEF Redone, s, X
<1>10. CASE un.Type = "undoOvrPutChar"
  BY <1>3, <1>4, <1>6, <1>10 DEF Redone, s, X
<1>11. CASE un.Type = "undoDelCharDel"
  BY <1>1, <1>2, <1>5, <1>11 DEF Redone
<1>12. CASE un.Type = "undoDelChar"
  <2> DeleteRange(text, cur - un.Length, cur) \in Seq(Chars)
    BY <1>5, <1>int
  <2> QED
    BY <1>int, <1>12 DEF Redone
<1>13. CASE un.Type = "undoDelete"
  <2>1. DeleteRange(text, X, X + un.Length) \in Seq(Chars)
    BY <1>1, <1>4, <1>5
  <2> QED
    BY <1>1, <1>13, <2>1 DEF Redone, X
<1>14. CASE un.Type = "undoDeleteBuf"
  BY <1>1, <1>5, <1>14, SMTT(30) DEF Redone
<1>15. CASE un.Type = "undoInsert"
  BY <1>1, <1>7, <1>15 DEF Redone, s, X
<1>16. CASE un.Type \notin {"undoInMov", "undoPutChar", "undoOvrPutChar", "undoDelChar",
                           "undoDelCharDel", "undoDelete", "undoDeleteBuf", "undoInsert"}
  BY <1>2, <1>16 DEF Redone
<1> QED
  BY <1>8, <1>9, <1>10, <1>11, <1>12, <1>13, <1>14, <1>15, <1>16

-----------------------------------------------------------------------------
(* Type correctness, an action at a time. *)

OtherTypes ==
  /\ undoLockCount \in Nat /\ leaked \in Nat
  /\ undoing \in Nat /\ redoing \in Seq(Cells)
  /\ noMoveToEnd \in BOOLEAN
  /\ disk \in Seq(Chars) /\ edits \in Nat /\ saves \in Nat

LineTypes ==
  /\ text \in Seq(Chars) /\ cur \in Nat
  /\ overwrite \in BOOLEAN /\ modified \in BOOLEAN

LEMMA TypeParts == TypeOK <=> RingTypes /\ OtherTypes /\ LineTypes
BY DEF TypeOK, RingTypes, OtherTypes, LineTypes

LEMMA TypePartsNext ==
  ASSUME RingTypes', OtherTypes', LineTypes'
  PROVE  TypeOK'
BY DEF TypeOK, RingTypes, OtherTypes, LineTypes

LEMMA EditFrameTypes ==
  ASSUME TypeOK, EditFrame
  PROVE  OtherTypes'
BY DEF TypeOK, EditFrame, loops, file, OtherTypes

LEMMA CellOfTypes ==
  ASSUME TypeOK, NEW st \in UndoTypes, NEW s \in Seq(Chars), NEW l \in Nat
  PROVE  /\ [StartCell(st) EXCEPT !.s = s, !.Length = l] \in UndoCell
         /\ \A s2 \in Seq(Chars) :
              [StartCell(st) EXCEPT !.s = s, !.s2 = s2, !.Length = l] \in UndoCell
         /\ \A o \in Nat :
              [StartCell(st) EXCEPT !.s = s, !.Length = l, !.OffSet = o] \in UndoCell
         /\ Open \in UndoCell
         /\ [Open EXCEPT !.s = s, !.Length = @ + 1] \in UndoCell
         /\ \A s2 \in Seq(Chars) :
              [Open EXCEPT !.s = s, !.s2 = s2, !.Length = @ + 1] \in UndoCell
<1>1. StartCell(st) \in UndoCell
  BY StartCellType DEF TypeOK
<1>2. Open \in UndoCell
  BY DEF Open, TypeOK
<1>a. Open.Length + 1 \in Nat
  BY <1>2 DEF UndoCell
<1>3. /\ [StartCell(st) EXCEPT !.s = s, !.Length = l] \in UndoCell
      /\ [Open EXCEPT !.s = s, !.Length = @ + 1] \in UndoCell
  <2>1. [StartCell(st) EXCEPT !.s = s, !.Length = l] \in UndoCell
    BY <1>1 DEF UndoCell
  <2>2. [Open EXCEPT !.s = s, !.Length = Open.Length + 1] \in UndoCell
    BY <1>2, <1>a DEF UndoCell
  <2> QED
    BY <1>2, <2>1, <2>2 DEF UndoCell
<1>4. ASSUME NEW s2 \in Seq(Chars)
      PROVE  /\ [StartCell(st) EXCEPT !.s = s, !.s2 = s2, !.Length = l] \in UndoCell
             /\ [Open EXCEPT !.s = s, !.s2 = s2, !.Length = @ + 1] \in UndoCell
  <2>1. [StartCell(st) EXCEPT !.s = s, !.s2 = s2, !.Length = l] \in UndoCell
    BY <1>1 DEF UndoCell
  <2>2. [Open EXCEPT !.s = s, !.s2 = s2, !.Length = Open.Length + 1] \in UndoCell
    BY <1>2, <1>a DEF UndoCell
  <2> QED
    BY <1>2, <2>1, <2>2 DEF UndoCell
<1>5. ASSUME NEW o \in Nat
      PROVE  [StartCell(st) EXCEPT !.s = s, !.Length = l, !.OffSet = o] \in UndoCell
  BY <1>1 DEF UndoCell
<1> QED
  BY <1>2, <1>3, <1>4, <1>5

LEMMA EditTypeOK ==
  ASSUME TypeOK, Edit
  PROVE  TypeOK'
<1> USE DEF GroupedTypes, UndoTypes
<1>1. /\ text \in Seq(Chars) /\ cur \in Nat /\ overwrite \in BOOLEAN
      /\ modified \in BOOLEAN /\ Len(text) \in Nat /\ cur \in Int /\ cur + 1 \in Int
      /\ cur - 1 \in Int
  BY DEF TypeOK
<1>2. Open \in UndoCell /\ Open.s \in Seq(Chars) /\ Open.s2 \in Seq(Chars)
  BY DEF TypeOK, Open, UndoCell
<1>3. \A p, q \in Int : /\ Piece(text, p, q) \in Seq(Chars)
                       /\ DeleteRange(text, p, q) \in Seq(Chars)
  BY <1>1, PieceType, EditTypes
<1>4. \A p \in Int : \A s \in Seq(Chars) : /\ InsertAt(text, p, s) \in Seq(Chars)
                                         /\ OverwriteAt(text, p, s) \in Seq(Chars)
  BY <1>1, EditTypes
<1>5. ASSUME NEW c \in Chars, PutChar(c)
      PROVE  TypeOK'
  <2>1. <<c>> \in Seq(Chars) /\ Append(Open.s, c) \in Seq(Chars)
    BY <1>2
  <2>2. RingTypes'
    BY <1>5, <2>1, RecordTypes, CellOfTypes DEF PutChar
  <2>a. InsertAt(text, cur, <<c>>) \in Seq(Chars)
    BY <1>1, <1>4, <2>1, Zenon
  <2>3. InsertAt(text, cur, <<c>>) \in Seq(Chars) /\ cur + 1 \in Nat
    BY <1>1, <2>a
  <2>4. LineTypes'
    BY <1>1, <1>5, <2>3 DEF PutChar, Edited, LineTypes
  <2>9. OtherTypes'
    BY <1>5, EditFrameTypes DEF PutChar
  <2> QED
    BY <2>2, <2>4, <2>9, TypePartsNext
<1>6. ASSUME NEW c \in Chars, OvrPutChar(c)
      PROVE  TypeOK'
  <2> DEFINE old == Piece(text, cur, cur + 1)
  <2>1. /\ <<c>> \in Seq(Chars) /\ Append(Open.s, c) \in Seq(Chars)
        /\ old \in Seq(Chars) /\ Open.s2 \o old \in Seq(Chars)
    BY <1>1, <1>2, <1>3
  <2>2. RingTypes'
    BY <1>6, <2>1, RecordTypes, CellOfTypes DEF OvrPutChar
  <2>a. OverwriteAt(text, cur, <<c>>) \in Seq(Chars)
    BY <1>1, <1>4, <2>1, Zenon
  <2>3. OverwriteAt(text, cur, <<c>>) \in Seq(Chars) /\ cur + 1 \in Nat
    BY <1>1, <2>a
  <2>4. LineTypes'
    BY <1>1, <1>6, <2>3 DEF OvrPutChar, Edited, LineTypes
  <2>9. OtherTypes'
    BY <1>6, EditFrameTypes DEF OvrPutChar
  <2> QED
    BY <2>2, <2>4, <2>9, TypePartsNext
<1>7. ASSUME BackSpace
      PROVE  TypeOK'
  <2> DEFINE old == Piece(text, cur - 1, cur)
  <2>1. old \in Seq(Chars) /\ old \o Open.s \in Seq(Chars)
    BY <1>1, <1>2, <1>3
  <2>2. RingTypes'
    BY <1>7, <2>1, RecordTypes, CellOfTypes DEF BackSpace
  <2>3. LineTypes'
    BY <1>1, <1>3, <1>7 DEF BackSpace, Edited, LineTypes
  <2>9. OtherTypes'
    BY <1>7, EditFrameTypes DEF BackSpace
  <2> QED
    BY <2>2, <2>3, <2>9, TypePartsNext
<1>8. ASSUME DelChar
      PROVE  TypeOK'
  <2> DEFINE old == Piece(text, cur, cur + 1)
  <2>1. old \in Seq(Chars) /\ Open.s \o old \in Seq(Chars)
    BY <1>1, <1>2, <1>3
  <2>2. RingTypes'
    BY <1>8, <2>1, RecordTypes, CellOfTypes DEF DelChar
  <2>3. LineTypes'
    BY <1>1, <1>3, <1>8 DEF DelChar, Edited, LineTypes
  <2>9. OtherTypes'
    BY <1>8, EditFrameTypes DEF DelChar
  <2> QED
    BY <2>2, <2>3, <2>9, TypePartsNext
<1>9. ASSUME NEW x \in 0 .. Len(text), Move(x)
      PROVE  TypeOK'
  <2>1. StartCell("undoInMov") \in UndoCell
    BY StartCellType DEF TypeOK
  <2>2. RingTypes'
    BY <1>2, <1>9, <2>1, RecordTypes DEF Move
  <2>3. LineTypes'
    BY <1>1, <1>9 DEF Move, LineTypes
  <2>9. OtherTypes'
    BY <1>9, EditFrameTypes DEF Move
  <2> QED
    BY <2>2, <2>3, <2>9, TypePartsNext
<1>10. ASSUME ToggleInsMode
       PROVE  TypeOK'
  <2>1. StartCell("undoInMov") \in UndoCell
    BY StartCellType DEF TypeOK
  <2>2. RingTypes'
    BY <1>2, <1>10, <2>1, RecordTypes DEF ToggleInsMode
  <2>3. LineTypes'
    BY <1>1, <1>10 DEF ToggleInsMode, LineTypes
  <2>9. OtherTypes'
    BY <1>10, EditFrameTypes DEF ToggleInsMode
  <2> QED
    BY <2>2, <2>3, <2>9, TypePartsNext
<1>11. ASSUME NEW from \in Nat, NEW to \in Nat, NEW x \in Nat,
              DeleteRangeLineInEdition(from, to, x)
       PROVE  TypeOK'
  <2>1. Piece(text, from, to) \in Seq(Chars) /\ to - from \in Nat
    BY <1>3, <1>11, SMTT(30) DEF DeleteRangeLineInEdition
  <2>2. RingTypes'
    BY <1>11, <2>1, RecordTypes, CellOfTypes DEF DeleteRangeLineInEdition
  <2>3. LineTypes'
    BY <1>1, <1>3, <1>11 DEF DeleteRangeLineInEdition, Edited, LineTypes
  <2>9. OtherTypes'
    BY <1>11, EditFrameTypes DEF DeleteRangeLineInEdition
  <2> QED
    BY <2>2, <2>3, <2>9, TypePartsNext
<1>12. ASSUME NEW from \in 0 .. Len(text), NEW to \in 0 .. Len(text),
              DeleteSelect(from, to)
       PROVE  TypeOK'
  <2>a. from \in Nat /\ from \in Int /\ to \in Int /\ from < to
    BY <1>1, <1>12 DEF DeleteSelect
  <2>1. Piece(text, from, to) \in Seq(Chars) /\ to - from \in Nat /\ from \in Nat
    BY <1>3, <2>a
  <2>2. RingTypes'
    BY <1>12, <2>1, RecordTypes, CellOfTypes DEF DeleteSelect
  <2>3. LineTypes'
    BY <1>1, <1>3, <1>12, <2>a DEF DeleteSelect, Edited, LineTypes
  <2>9. OtherTypes'
    BY <1>12, EditFrameTypes DEF DeleteSelect
  <2> QED
    BY <2>2, <2>3, <2>9, TypePartsNext
<1>13. ASSUME NEW p \in Clips, InsertBuffer(p)
       PROVE  TypeOK'
  <2>1. p \in Seq(Chars) /\ Len(p) \in Nat
    BY ClipsAssumption
  <2>2. RingTypes'
    BY <1>13, <2>1, RecordTypes, CellOfTypes DEF InsertBuffer
  <2>3. LineTypes'
    BY <1>1, <1>4, <1>13, <2>1 DEF InsertBuffer, Edited, LineTypes
  <2>9. OtherTypes'
    BY <1>13, EditFrameTypes DEF InsertBuffer
  <2> QED
    BY <2>2, <2>3, <2>9, TypePartsNext
<1>14. ASSUME NEW hided \in {0, 1}, SelRectHide(hided)
       PROVE  TypeOK'
  <2> DEFINE a == IncWithWrap(UndoActual)
             prev == [UndoSaveFinalState(Open) EXCEPT !.Length = hided]
             c == [StartCell("undoRectHide") EXCEPT !.Flags = UndoArray[a].Flags]
  <2>1. UndoArray[a].Flags \subseteq FlagBits
    BY Wrap DEF TypeOK, UndoCell
  <2>2. c \in UndoCell
    <3>1. StartCell("undoRectHide") \in UndoCell
      BY StartCellType DEF TypeOK
    <3> QED
      BY <2>1, <3>1 DEF UndoCell
  <2>3. prev \in UndoCell
    <3>1. UndoSaveFinalState(Open) \in UndoCell /\ hided \in Nat
      BY <1>2, CellTypes DEF TypeOK
    <3> QED
      BY <3>1 DEF UndoCell
  <2>4. PushAfter(prev, c) /\ Grouping
    BY <1>14 DEF SelRectHide
  <2> HIDE DEF a, prev, c
  <2>5. RingTypes'
    BY <2>2, <2>3, <2>4, PushTypes DEF Grouping, TypeOK, RingTypes
  <2>6. LineTypes'
    BY <1>1, <1>14 DEF SelRectHide, LineTypes, editor
  <2>9. OtherTypes'
    BY <1>14, EditFrameTypes DEF SelRectHide
  <2> QED
    BY <2>5, <2>6, <2>9, TypePartsNext
<1>15. CASE DelEnd \/ DelStart
  BY <1>1, <1>11, <1>15 DEF DelEnd, DelStart
<1> QED
  BY <1>5, <1>6, <1>7, <1>8, <1>9, <1>10, <1>12, <1>13, <1>14, <1>15 DEF Edit

LEMMA GroupTypeOK ==
  ASSUME TypeOK, Group
  PROVE  TypeOK'
<1>1. CASE LockUndo
  BY <1>1 DEF LockUndo, TypeOK, ring, loops, editor, file
<1>2. CASE UnlockUndo
  BY <1>2 DEF UnlockUndo, TypeOK, ring, loops, editor, file
<1>3. CASE OvrPutCharNoRoom
  BY <1>3 DEF OvrPutCharNoRoom, TypeOK, ring, loops, editor, file
<1> QED
  BY <1>1, <1>2, <1>3 DEF Group

LEMMA UndoOneActionTypes ==
  ASSUME TypeOK, UndoOneAction
  PROVE  /\ UndoArray' \in [Cells -> UndoCell]
         /\ UndoBase' \in Cells /\ UndoActual' \in Cells /\ UndoTop' \in Cells
         /\ UndoSt' \in UndoTypes
         /\ LineTypes'
<1>1. CASE UndoActual = UndoBase
  BY <1>1 DEF UndoOneAction, TypeOK, ring, editor, LineTypes
<1>2. CASE UndoActual # UndoBase
  <2> DEFINE un == IF UndoSt # undoNoUndo THEN UndoSaveFinalState(Open) ELSE Open
             line == Undone(un)
  <2>1. un \in UndoCell
    BY CellTypes DEF TypeOK, Open
  <2>2. line.text \in Seq(Chars) /\ line.cur \in Int
    BY <2>1, UndoneType
  <2>3. ClipTo(line.text, line.cur) \in Nat
    <3> ClipTo(line.text, line.cur) \in 0 .. Len(line.text)
      BY <2>2, ClipToType
    <3> QED
      BY <2>2
  <2>4. /\ UndoArray' = [UndoArray EXCEPT ![UndoActual] = un]
        /\ text' = line.text
        /\ cur' = ClipTo(line.text, line.cur)
        /\ modified' = ("undoModified" \in un.Flags)
        /\ overwrite' = ("undoOverWrite" \in un.Flags)
        /\ UndoSt' = undoNoUndo
        /\ UndoActual' = DecWithWrap(UndoActual)
        /\ UNCHANGED <<UndoBase, UndoTop>>
    BY <1>2 DEF UndoOneAction, CloseCell
  <2> HIDE DEF un, line
  <2>5. UndoArray' \in [Cells -> UndoCell]
    BY <2>1, <2>4 DEF TypeOK
  <2>6. UndoActual' \in Cells /\ UndoSt' \in UndoTypes
    BY <2>4, Wrap DEF TypeOK, UndoTypes
  <2>7. modified' \in BOOLEAN /\ overwrite' \in BOOLEAN
    <3>1. /\ modified' = ("undoModified" \in un.Flags)
          /\ overwrite' = ("undoOverWrite" \in un.Flags)
      BY <2>4
    <3> QED
      BY <3>1
  <2>8. LineTypes'
    BY <2>2, <2>3, <2>4, <2>7 DEF LineTypes
  <2> QED
    BY <2>4, <2>5, <2>6, <2>8 DEF TypeOK
<1> QED
  BY <1>1, <1>2

LEMMA UndoTypeOK ==
  ASSUME TypeOK, UndoNext
  PROVE  TypeOK'
<1>1. UndoOneAction /\ UndoFrame /\ undoing' \in Nat
  <2>1. CASE Undo
    <3> Open.Count \in Nat
      BY DEF TypeOK, Open, UndoCell
    <3> QED
      BY <2>1 DEF Undo, MoreCalls
  <2>2. CASE UndoMore
    BY <2>2 DEF UndoMore, TypeOK
  <2> QED
    BY <2>1, <2>2 DEF UndoNext
<1>2. RingTypes' /\ LineTypes'
  BY <1>1, UndoOneActionTypes DEF UndoFrame, group, RingTypes, TypeOK
<1>3. OtherTypes'
  BY <1>1 DEF UndoFrame, group, file, OtherTypes, TypeOK
<1> QED
  BY <1>2, <1>3, TypePartsNext

LEMMA RedoOneActionTypes ==
  ASSUME TypeOK, RedoOneAction
  PROVE  /\ UndoArray' \in [Cells -> UndoCell]
         /\ UndoBase' \in Cells /\ UndoActual' \in Cells /\ UndoTop' \in Cells
         /\ UndoSt' \in UndoTypes
         /\ LineTypes'
<1> DEFINE a == IncWithWrap(UndoActual)
           un == UndoArray[a]
           line == Redone(un)
<1>1. a \in Cells
  BY Wrap DEF TypeOK
<1>2. un \in UndoCell
  BY <1>1 DEF TypeOK
<1>3. line.text \in Seq(Chars) /\ line.cur \in Int
  BY <1>2, RedoneType
<1>4. ClipTo(line.text, line.cur) \in Nat
  <2> ClipTo(line.text, line.cur) \in 0 .. Len(line.text)
    BY <1>3, ClipToType
  <2> QED
    BY <1>3
<1>5. /\ text' = line.text
      /\ cur' = ClipTo(line.text, line.cur)
      /\ modified' = ("undoModifiedF" \in un.Flags)
      /\ overwrite' = ("undoOverWriteF" \in un.Flags)
      /\ UndoSt' = undoNoUndo
      /\ UndoActual' = a
      /\ UNCHANGED <<UndoArray, UndoBase, UndoTop>>
  BY DEF RedoOneAction, CloseCell
<1> HIDE DEF a, un, line
<1>6. modified' \in BOOLEAN /\ overwrite' \in BOOLEAN
  <2>1. /\ modified' = ("undoModifiedF" \in un.Flags)
        /\ overwrite' = ("undoOverWriteF" \in un.Flags)
    BY <1>5
  <2> QED
    BY <2>1
<1>7. LineTypes'
  BY <1>3, <1>4, <1>5, <1>6 DEF LineTypes
<1> QED
  BY <1>1, <1>5, <1>7 DEF TypeOK, UndoTypes

LEMMA RedoTypeOK ==
  ASSUME TypeOK, RedoNext
  PROVE  TypeOK'
<1>1. CASE Redo \/ RedoMore
  <2>1. RedoOneAction /\ EnterLoop /\ RedoFrame
    BY <1>1 DEF Redo, RedoMore
  <2>2. RingTypes' /\ LineTypes' /\ UndoActual' \in Cells
    BY <2>1, RedoOneActionTypes DEF RedoFrame, group, RingTypes, TypeOK
  <2>3. IncWithWrap(UndoActual') \in Cells
    BY <2>2, Wrap
  <2>4. redoing' \in Seq(Cells)
    BY <2>1, <2>3 DEF EnterLoop, TypeOK
  <2>5. OtherTypes'
    BY <2>1, <2>4 DEF RedoFrame, group, file, OtherTypes, TypeOK
  <2> QED
    BY <2>2, <2>5, TypePartsNext
<1>2. CASE RedoReturn
  <2> DEFINE outer == SubSeq(redoing, 1, Len(redoing) - 1)
  <2>1. outer \in Seq(Cells)
    BY <1>2 DEF TypeOK, RedoReturn
  <2>2. redoing' = IF outer = <<>> THEN <<>>
                   ELSE [outer EXCEPT ![Len(outer)] = IncWithWrap(@)]
    BY <1>2 DEF RedoReturn
  <2>3. redoing' \in Seq(Cells)
    <3> HIDE DEF outer
    <3>1. CASE outer = <<>>
      BY <2>2, <3>1
    <3>2. CASE outer # <<>>
      <4>1. Len(outer) \in DOMAIN outer /\ outer[Len(outer)] \in Cells
        BY <2>1, <3>2
      <4>2. IncWithWrap(outer[Len(outer)]) \in Cells
        BY <4>1, Wrap
      <4> DEFINE i == IncWithWrap(outer[Len(outer)])
      <4>3. redoing' = [outer EXCEPT ![Len(outer)] = i]
        BY <2>2, <3>2, <4>1
      <4> HIDE DEF i
      <4> QED
        BY <2>1, <4>1, <4>2, <4>3 DEF i
    <3> QED
      BY <3>1, <3>2
  <2>4. UNCHANGED <<ring, UndoSt, editor, modified>> /\ RedoFrame
    BY <1>2 DEF RedoReturn
  <2> QED
    BY <2>3, <2>4 DEF RedoFrame, ring, editor, group, file, TypeOK
<1> QED
  BY <1>1, <1>2 DEF RedoNext

LEMMA WholeTypeOK ==
  ASSUME TypeOK, Whole
  PROVE  TypeOK'
<1>cells. \A i \in Cells : UndoArray[i] \in UndoCell /\ Freed(UndoArray[i]) \in UndoCell
  BY CellTypes DEF TypeOK
<1>1. ASSUME NEW f \in [Chars -> Chars], RemapCodePageBuffer(f)
      PROVE  TypeOK'
  <2>1. text' \in Seq(Chars)
    <3>1. text \in Seq(Chars) /\ DOMAIN text = 1 .. Len(text) /\ Len(text) \in Nat
      BY DEF TypeOK
    <3>2. \A k \in 1 .. Len(text) : f[text[k]] \in Chars
      BY <3>1
    <3>3. text' = [k \in 1 .. Len(text) |-> f[text[k]]]
      BY <1>1, <3>1 DEF RemapCodePageBuffer
    <3> QED
      BY <3>1, <3>2, <3>3
  <2>2. /\ UndoArray' \in [Cells -> UndoCell]
        /\ UndoBase' \in Cells /\ UndoActual' \in Cells /\ UndoTop' \in Cells
    BY <1>1, <1>cells DEF RemapCodePageBuffer, FlushUndoInfo, TypeOK
  <2>3. modified' = TRUE
          /\ UNCHANGED <<UndoSt, group, loops, cur, overwrite, noMoveToEnd, edits, file>>
    BY <1>1 DEF RemapCodePageBuffer, Edited
  <2> QED
    BY <2>1, <2>2, <2>3 DEF TypeOK, group, loops, file
<1>2. ASSUME ReLoadFile
      PROVE  TypeOK'
  <2> DEFINE c(i) == IF i \in InUse \cup {UndoBase} THEN Freed(UndoArray[i])
                     ELSE UndoArray[i]
             d(i) == [c(i) EXCEPT !.Type = undoNoUndo, !.X = 0, !.Count = 0]
  <2>1. \A i \in Cells : c(i) \in UndoCell
    BY <1>cells
  <2> HIDE DEF c
  <2>2. \A i \in Cells : d(i) \in UndoCell
    BY <2>1 DEF UndoCell, UndoTypes
  <2> HIDE DEF d
  <2>3. UndoArray' = [i \in Cells |-> IF i = 0 THEN d(i) ELSE c(i)]
    BY <1>2 DEF ReLoadFile, c, d
  <2>4. UndoArray' \in [Cells -> UndoCell]
    BY <2>1, <2>2, <2>3
  <2>5. 0 \in Cells /\ undoNoUndo \in UndoTypes
    BY MaxUndoAssumption DEF Cells, UndoTypes
  <2> QED
    BY <1>2, <2>4, <2>5 DEF ReLoadFile, TypeOK, loops, file
<1>3. ASSUME SaveFile
      PROVE  TypeOK'
  <2>1. \A i \in Cells : [UndoArray[i] EXCEPT !.Flags = @ \cup {"undoModified"}] \in UndoCell
    BY <1>cells DEF UndoCell, FlagBits
  <2>2. UndoArray' \in [Cells -> UndoCell]
    BY <1>3, <2>1 DEF SaveFile, RevertModifFlagInUndo
  <2>3. /\ disk' = text /\ modified' = FALSE /\ saves' = saves + 1
        /\ UNCHANGED <<UndoBase, UndoActual, UndoTop, UndoSt, group, loops, editor,
                       noMoveToEnd, edits>>
    BY <1>3 DEF SaveFile
  <2>4. RingTypes'
    BY <2>2, <2>3 DEF TypeOK, RingTypes, group
  <2>5. OtherTypes'
    BY <2>3 DEF TypeOK, OtherTypes, group, loops
  <2>6. LineTypes'
    BY <2>3 DEF TypeOK, LineTypes, editor
  <2> QED
    BY <2>4, <2>5, <2>6, TypePartsNext
<1>4. ASSUME ToggleMoveOnPaste
      PROVE  TypeOK'
  BY <1>4 DEF ToggleMoveOnPaste, TypeOK, ring, group, loops, editor, file
<1> QED
  BY <1>1, <1>2, <1>3, <1>4 DEF Whole

LEMMA InitTypeOK == Init => TypeOK
<1>1. 0 \in Cells /\ undoNoUndo \in UndoTypes
  BY MaxUndoAssumption DEF Cells, UndoTypes
<1>2. EmptyCell \in UndoCell
  BY <1>1 DEF EmptyCell, UndoCell
<1> QED
  BY <1>1, <1>2 DEF Init, TypeOK

LEMMA NextTypeOK == TypeOK /\ [Next]_vars => TypeOK'
<1> SUFFICES ASSUME TypeOK, [Next]_vars PROVE TypeOK'
  OBVIOUS
<1>1. CASE UNCHANGED vars
  BY <1>1 DEF vars, ring, group, loops, editor, file, TypeOK
<1> QED
  BY <1>1, EditTypeOK, GroupTypeOK, UndoTypeOK, RedoTypeOK, WholeTypeOK DEF Next

(* Whatever handlers run, in whatever order, the indices stay on the ring  *)
(* and the cells, the text and the counters keep their types: no offset of *)
(* the line and no count ever goes below zero.                             *)
THEOREM TypeCorrect == Spec => []TypeOK
<1>1. Init => TypeOK
  BY InitTypeOK
<1>2. TypeOK /\ [Next]_vars => TypeOK'
  BY NextTypeOK
<1> QED
  BY <1>1, <1>2, PTL DEF Spec

-----------------------------------------------------------------------------
(***************************************************************************)
(* The safety of the undo ring, for any number of cells and any text: the  *)
(* order of the three indices, the accounting of the cells, the group      *)
(* counter and, without the code page remapping, the open cell.            *)
(*                                                                         *)
(* RingInOrder is not inductive: redo() goes to the next cell without      *)
(* looking whether it is past UndoTop, because its callers looked.  The    *)
(* invariant IInv adds what they know: a suspended redo() is short of      *)
(* UndoTop, and undo() and redo() are never both running.                  *)
(***************************************************************************)
RedoShortOfTop == redoing # <<>> => UndoActual # UndoTop /\ undoing = 0

(* A command that is over leaves no count to the next one. *)
GroupAtRest == undoLockCount = 0 => undoGroupCount = 0

IInv == TypeOK /\ RingInOrder /\ RedoShortOfTop /\ CellsAccounted /\ GroupAtRest

(* What an edit does to the ring: a new cell or a merge into the open one. *)
Allocates ==
  \E prev \in UndoCell : \E c :
    /\ prev.Type = Open.Type /\ prev.Count = Open.Count
    /\ c.Type # undoNoUndo /\ c.Count = undoGroupCount
    /\ PushAfter(prev, c) /\ Grouping

MergesIn == \E m \in UndoCell : m.Type = Open.Type /\ m.Count = Open.Count /\ Merge(m)

(* The handlers that change the text in a cell they did not allocate. *)
MergingOps == {"PutChar", "OvrPutChar", "BackSpace", "DelChar"}

EditShape ==
  /\ \/ Allocates
     \/ MergesIn /\ (text' = text \/ Ops \cap MergingOps # {})
  /\ MayEdit /\ edits' = edits + 1
  /\ UNCHANGED <<undoLockCount, leaked, loops>>

-----------------------------------------------------------------------------
(* Walking the ring one cell down, one cell up, and cutting it. *)

LEMMA StepDown ==
  ASSUME NEW b \in Cells, NEW t \in Cells, NEW x \in After(b, t), x # b
  PROVE  DecWithWrap(x) \in After(b, t) \cup {b}
BY MaxUndoAssumption DEF After, Cells, DecWithWrap

LEMMA StepUp ==
  ASSUME NEW b \in Cells, NEW t \in Cells, NEW x \in After(b, t) \cup {b}, x # t
  PROVE  IncWithWrap(x) \in After(b, t)
BY MaxUndoAssumption DEF After, Cells, IncWithWrap

LEMMA AfterMonotone ==
  ASSUME NEW b \in Cells, NEW t \in Cells, NEW x \in After(b, t) \cup {b}
  PROVE  After(b, x) \subseteq After(b, t)
BY MaxUndoAssumption DEF After, Cells

LEMMA AfterNext ==
  ASSUME NEW b \in Cells, NEW x \in Cells, IncWithWrap(x) # b
  PROVE  After(b, IncWithWrap(x)) = After(b, x) \cup {IncWithWrap(x)}
BY MaxUndoAssumption DEF After, Cells, IncWithWrap

LEMMA AfterFull ==
  ASSUME NEW x \in Cells
  PROVE  /\ After(IncWithWrap(x), x) = Cells \ {IncWithWrap(x)}
         /\ After(x, x) = {}
BY MaxUndoAssumption DEF After, Cells, IncWithWrap

-----------------------------------------------------------------------------
LEMMA RecordShape ==
  ASSUME TypeOK, NEW c, c.Type # undoNoUndo, c.Count = undoGroupCount,
         NEW m \in UndoCell, m.Type = Open.Type, m.Count = Open.Count
  PROVE  /\ AddToUndo(c) => Allocates
         /\ AddOrMerge(c, m) => Allocates \/ MergesIn
<1>1. /\ UndoSaveFinalState(Open) \in UndoCell
      /\ UndoSaveFinalState(Open).Type = Open.Type
      /\ UndoSaveFinalState(Open).Count = Open.Count
  BY CellTypes DEF Open, TypeOK
<1>2. AddToUndo(c) => Allocates
  BY <1>1 DEF AddToUndo, Push, Allocates
<1> QED
  BY <1>2 DEF AddOrMerge, MergesIn

LEMMA EditShapes ==
  ASSUME TypeOK, Edit
  PROVE  EditShape
<1>1. /\ Open \in UndoCell /\ Open.s \in Seq(Chars) /\ Open.s2 \in Seq(Chars)
      /\ text \in Seq(Chars) /\ cur \in Int /\ cur + 1 \in Int /\ cur - 1 \in Int
  <2>1. text \in Seq(Chars) /\ cur \in Nat
    BY DEF TypeOK
  <2>2. Open \in UndoCell
    BY DEF TypeOK, Open
  <2> QED
    BY <2>1, <2>2 DEF UndoCell
<1>2. \A p, q \in Int : Piece(text, p, q) \in Seq(Chars)
  BY <1>1, PieceType
<1>3. ASSUME NEW s \in Seq(Chars)
      PROVE  /\ [Open EXCEPT !.s = s, !.Length = @ + 1] \in UndoCell
             /\ [Open EXCEPT !.s = s, !.Length = @ + 1].Type = Open.Type
             /\ [Open EXCEPT !.s = s, !.Length = @ + 1].Count = Open.Count
  <2>1. [Open EXCEPT !.s = s, !.Length = @ + 1] \in UndoCell
    BY <1>3, CellOfTypes DEF UndoTypes
  <2> QED
    BY <1>1, <2>1 DEF UndoCell
<1>4. ASSUME NEW s \in Seq(Chars), NEW s2 \in Seq(Chars)
      PROVE  /\ [Open EXCEPT !.s = s, !.s2 = s2, !.Length = @ + 1] \in UndoCell
             /\ [Open EXCEPT !.s = s, !.s2 = s2, !.Length = @ + 1].Type = Open.Type
             /\ [Open EXCEPT !.s = s, !.s2 = s2, !.Length = @ + 1].Count = Open.Count
  <2>1. [Open EXCEPT !.s = s, !.s2 = s2, !.Length = @ + 1] \in UndoCell
    BY <1>4, CellOfTypes DEF UndoTypes
  <2> QED
    BY <1>1, <2>1 DEF UndoCell
<1>6. EditFrame => edits' = edits + 1 /\ UNCHANGED <<undoLockCount, leaked, loops>>
  BY DEF EditFrame
<1>7. ASSUME "PutChar" \in Ops, NEW c \in Chars, PutChar(c)
      PROVE  EditShape
  <2>1. Append(Open.s, c) \in Seq(Chars)
    BY <1>1
  <2> DEFINE new == [StartCell("undoPutChar") EXCEPT !.s = <<c>>, !.Length = 1]
             m == [Open EXCEPT !.s = Append(@, c), !.Length = @ + 1]
  <2>2. new.Type # undoNoUndo /\ new.Count = undoGroupCount
    BY DEF StartCell, undoNoUndo
  <2>3. m \in UndoCell /\ m.Type = Open.Type /\ m.Count = Open.Count
    BY <1>3, <2>1
  <2>4. AddOrMerge(new, m) /\ MayEdit /\ EditFrame
    BY <1>7 DEF PutChar
  <2> HIDE DEF new, m
  <2> QED
    BY <1>6, <1>7, <2>2, <2>3, <2>4, RecordShape DEF EditShape, MergingOps
<1>8. ASSUME "OvrPutChar" \in Ops, NEW c \in Chars, OvrPutChar(c)
      PROVE  EditShape
  <2> DEFINE old == Piece(text, cur, cur + 1)
             new == [StartCell("undoOvrPutChar") EXCEPT !.s = <<c>>, !.s2 = old,
                                                       !.Length = 1]
             m == [Open EXCEPT !.s = Append(@, c), !.s2 = @ \o old, !.Length = @ + 1]
  <2>1. Append(Open.s, c) \in Seq(Chars) /\ Open.s2 \o old \in Seq(Chars)
    BY <1>1, <1>2
  <2>2. new.Type # undoNoUndo /\ new.Count = undoGroupCount
    BY DEF StartCell, undoNoUndo
  <2>3. m \in UndoCell /\ m.Type = Open.Type /\ m.Count = Open.Count
    BY <1>4, <2>1
  <2>4. AddOrMerge(new, m) /\ MayEdit /\ EditFrame
    BY <1>8 DEF OvrPutChar
  <2> HIDE DEF new, m
  <2> QED
    BY <1>6, <1>8, <2>2, <2>3, <2>4, RecordShape DEF EditShape, MergingOps
<1>9. ASSUME "BackSpace" \in Ops, BackSpace
      PROVE  EditShape
  <2> DEFINE old == Piece(text, cur - 1, cur)
             new == [StartCell("undoDelChar") EXCEPT !.s = old, !.Length = 1]
             m == [Open EXCEPT !.s = old \o @, !.Length = @ + 1]
  <2>1. old \o Open.s \in Seq(Chars)
    BY <1>1, <1>2
  <2>2. new.Type # undoNoUndo /\ new.Count = undoGroupCount
    BY DEF StartCell, undoNoUndo
  <2>3. m \in UndoCell /\ m.Type = Open.Type /\ m.Count = Open.Count
    BY <1>3, <2>1
  <2>4. AddOrMerge(new, m) /\ MayEdit /\ EditFrame
    BY <1>9 DEF BackSpace
  <2> HIDE DEF new, m
  <2> QED
    BY <1>6, <1>9, <2>2, <2>3, <2>4, RecordShape DEF EditShape, MergingOps
<1>10. ASSUME "DelChar" \in Ops, DelChar
       PROVE  EditShape
  <2> DEFINE old == Piece(text, cur, cur + 1)
             new == [StartCell("undoDelCharDel") EXCEPT !.s = old, !.Length = 1]
             m == [Open EXCEPT !.s = @ \o old, !.Length = @ + 1]
  <2>1. Open.s \o old \in Seq(Chars)
    BY <1>1, <1>2
  <2>2. new.Type # undoNoUndo /\ new.Count = undoGroupCount
    BY DEF StartCell, undoNoUndo
  <2>3. m \in UndoCell /\ m.Type = Open.Type /\ m.Count = Open.Count
    BY <1>3, <2>1
  <2>4. AddOrMerge(new, m) /\ MayEdit /\ EditFrame
    BY <1>10 DEF DelChar
  <2> HIDE DEF new, m
  <2> QED
    BY <1>6, <1>10, <2>2, <2>3, <2>4, RecordShape DEF EditShape, MergingOps
<1>11. ASSUME (\E x \in 0 .. Len(text) : Move(x)) \/ ToggleInsMode
       PROVE  EditShape
  <2> DEFINE new == StartCell("undoInMov")
  <2>1. new.Type # undoNoUndo /\ new.Count = undoGroupCount
    BY DEF StartCell, undoNoUndo
  <2>2. (AddOrMerge(new, Open) \/ AddToUndo(new)) /\ MayEdit /\ EditFrame /\ text' = text
    BY <1>11 DEF Move, ToggleInsMode
  <2> HIDE DEF new
  <2> QED
    BY <1>1, <1>6, <2>1, <2>2, RecordShape DEF EditShape
<1>12. ASSUME DelEnd \/ DelStart \/ (\E from, to \in 0 .. Len(text) : DeleteSelect(from, to))
                     \/ (\E p \in Clips : InsertBuffer(p))
       PROVE  EditShape
  <2>1. PICK c : AddToUndo(c) /\ c.Type # undoNoUndo /\ c.Count = undoGroupCount
        /\ MayEdit /\ EditFrame
    <3>1. ASSUME NEW from, NEW to, NEW x, DeleteRangeLineInEdition(from, to, x)
          PROVE  \E c : AddToUndo(c) /\ c.Type # undoNoUndo /\ c.Count = undoGroupCount
        /\ MayEdit /\ EditFrame
      <4> DEFINE new == [StartCell("undoDelete") EXCEPT !.s = Piece(text, from, to),
                                                       !.Length = to - from]
      <4>1. new.Type # undoNoUndo /\ new.Count = undoGroupCount
        BY DEF StartCell, undoNoUndo
      <4>2. AddToUndo(new) /\ MayEdit /\ EditFrame
        BY <3>1 DEF DeleteRangeLineInEdition
      <4> HIDE DEF new
      <4> QED
        BY <4>1, <4>2
    <3>2. ASSUME NEW from, NEW to, DeleteSelect(from, to)
          PROVE  \E c : AddToUndo(c) /\ c.Type # undoNoUndo /\ c.Count = undoGroupCount
        /\ MayEdit /\ EditFrame
      <4> DEFINE new == [StartCell("undoDeleteBuf") EXCEPT !.s = Piece(text, from, to),
                                                          !.Length = to - from,
                                                          !.OffSet = from]
      <4>1. new.Type # undoNoUndo /\ new.Count = undoGroupCount
        BY DEF StartCell, undoNoUndo
      <4>2. AddToUndo(new) /\ MayEdit /\ EditFrame
        BY <3>2 DEF DeleteSelect
      <4> HIDE DEF new
      <4> QED
        BY <4>1, <4>2
    <3>3. ASSUME NEW p, InsertBuffer(p)
          PROVE  \E c : AddToUndo(c) /\ c.Type # undoNoUndo /\ c.Count = undoGroupCount
        /\ MayEdit /\ EditFrame
      <4> DEFINE new == [StartCell("undoInsert") EXCEPT !.s = p, !.Length = Len(p)]
      <4>1. new.Type # undoNoUndo /\ new.Count = undoGroupCount
        BY DEF StartCell, undoNoUndo
      <4>2. AddToUndo(new) /\ MayEdit /\ EditFrame
        BY <3>3 DEF InsertBuffer
      <4> HIDE DEF new
      <4> QED
        BY <4>1, <4>2
    <3> QED
      BY <1>12, <3>1, <3>2, <3>3 DEF DelEnd, DelStart
  <2> QED
    BY <1>1, <1>6, <2>1, RecordShape DEF EditShape
<1>13. ASSUME NEW hided \in {0, 1}, SelRectHide(hided)
       PROVE  EditShape
  <2> DEFINE a == IncWithWrap(UndoActual)
             final == UndoSaveFinalState(Open)
             prev == [final EXCEPT !.Length = hided]
             c == [StartCell("undoRectHide") EXCEPT !.Flags = UndoArray[a].Flags]
  <2>1. /\ final \in UndoCell /\ final.Type = Open.Type /\ final.Count = Open.Count
        /\ hided \in Nat
    BY <1>1, CellTypes DEF TypeOK
  <2>2. c.Type # undoNoUndo /\ c.Count = undoGroupCount
    BY DEF StartCell, undoNoUndo
  <2>3. PushAfter(prev, c) /\ Grouping /\ MayEdit /\ EditFrame
    BY <1>13 DEF SelRectHide
  <2> HIDE DEF final, a, c
  <2>4. prev \in UndoCell /\ prev.Type = Open.Type /\ prev.Count = Open.Count
    BY <2>1 DEF UndoCell
  <2> HIDE DEF prev
  <2> QED
    BY <1>6, <2>2, <2>3, <2>4 DEF EditShape, Allocates
<1> QED
  BY <1>7, <1>8, <1>9, <1>10, <1>11, <1>12, <1>13 DEF Edit

-----------------------------------------------------------------------------
(* A new cell, at the price of the cells that could be redone and, when    *)
(* the ring is full, of the oldest ones.                                   *)
LEMMA PushKeepsRing ==
  ASSUME TypeOK, RingInOrder, CellsAccounted,
         NEW prev \in UndoCell, NEW c,
         prev.Type = Open.Type, c.Type # undoNoUndo, PushAfter(prev, c)
  PROVE  RingInOrder' /\ CellsAccounted'
<1> DEFINE a == IncWithWrap(UndoActual)
           closed == [UndoArray EXCEPT ![UndoActual] = prev]
<1>1. /\ UndoActual \in Cells /\ UndoBase \in Cells /\ UndoTop \in Cells
      /\ a \in Cells /\ a # UndoActual
  BY Wrap DEF TypeOK
<1>2. \A i \in Cells : /\ closed[i].Type = UndoArray[i].Type
                        /\ Freed(closed[i]).Type = undoNoUndo
  <2>1. \A i \in Cells : closed[i] \in UndoCell
    BY DEF TypeOK
  <2>2. \A i \in Cells : Freed(closed[i]).Type = undoNoUndo
    BY <2>1, CellTypes DEF TypeOK
  <2>3. \A i \in Cells : closed[i].Type = UndoArray[i].Type
    BY DEF Open, TypeOK
  <2> QED
    BY <2>2, <2>3
<1>3. PICK b \in IF a = UndoBase THEN EvictTo(a) ELSE {UndoBase} :
        /\ UndoArray' = [i \in Cells |-> IF i = a THEN c
                                         ELSE IF i \in Kept(a, b) THEN closed[i]
                                         ELSE Freed(closed[i])]
        /\ UndoBase' = b /\ UndoActual' = a /\ UndoTop' = a
  BY DEF PushAfter
<1>4. b \in Cells
  BY <1>1, <1>3 DEF EvictTo
<1>5. /\ UndoArray'[a].Type = c.Type
      /\ \A i \in Cells \ {a} :
           /\ i \in Kept(a, b) => UndoArray'[i].Type = UndoArray[i].Type
           /\ i \notin Kept(a, b) => UndoArray'[i].Type = undoNoUndo
  <2> HIDE DEF a, closed
  <2> QED
    BY <1>1, <1>2, <1>3
<1>6. RingInOrder'
  BY <1>1, <1>3, <1>4 DEF RingInOrder, After, Cells
<1>7. CASE b = a
  <2>1. InUse' = {}
    BY <1>1, <1>3, <1>7 DEF InUse, After, Cells
  <2> QED
    BY <1>3, <1>5, <1>6, <1>7, <2>1 DEF CellsAccounted, Kept
<1>8. CASE b # a
  <2> HIDE DEF a, closed
  <2>1. InUse' = After(b, UndoActual) \cup {a}
    BY <1>1, <1>3, <1>4, <1>8, AfterNext DEF InUse, a
  <2>2. Kept(a, b) = After(b, UndoActual) \cup {b}
    BY <1>8 DEF Kept
  <2>3. a \notin After(b, UndoActual)
    BY <1>1, <1>4, MaxUndoAssumption DEF After, a, IncWithWrap, Cells
  <2>4. After(b, UndoActual) \subseteq InUse
    <3>1. After(UndoBase, UndoActual) \subseteq InUse
      BY <1>1, AfterMonotone DEF RingInOrder, InUse
    <3>2. CASE a = UndoBase
      BY <1>1, <2>3, <3>1, <3>2, AfterFull DEF a, After
    <3>3. CASE a # UndoBase
      BY <1>3, <3>1, <3>3
    <3> QED
      BY <3>2, <3>3
  <2>5. \A i \in InUse' : UndoArray'[i].Type # undoNoUndo
    BY <1>5, <2>1, <2>2, <2>3, <2>4 DEF CellsAccounted, After
  <2>6. \A i \in Cells \ (InUse' \cup {UndoBase'}) : UndoArray'[i].Type = undoNoUndo
    BY <1>3, <1>5, <2>1, <2>2
  <2> QED
    BY <1>6, <2>5, <2>6 DEF CellsAccounted
<1> QED
  BY <1>7, <1>8

(* Cells whose types do not change, under indices that do not move the     *)
(* ends of the ring.                                                       *)
LEMMA SameTypesKeepCells ==
  ASSUME CellsAccounted, UNCHANGED <<UndoBase, UndoTop>>,
         \A i \in Cells : UndoArray'[i].Type = UndoArray[i].Type
  PROVE  CellsAccounted'
BY DEF CellsAccounted, InUse, After

LEMMA EditSafe ==
  ASSUME IInv, Edit
  PROVE  (RingInOrder /\ RedoShortOfTop /\ CellsAccounted /\ GroupAtRest)'
<1> USE DEF IInv
<1>1. EditShape
  BY EditShapes
<1>2. RedoShortOfTop'
  BY <1>1 DEF EditShape, MayEdit, Idle, RedoShortOfTop, loops
<1>3. CASE Allocates
  <2>1. RingInOrder' /\ CellsAccounted'
    BY <1>3, PushKeepsRing DEF Allocates
  <2>2. Grouping
    BY <1>3 DEF Allocates
  <2>3. GroupAtRest'
    BY <1>1, <2>2 DEF EditShape, Grouping, GroupAtRest, TypeOK
  <2> QED
    BY <1>2, <2>1, <2>3
<1>4. CASE MergesIn
  <2>1. PICK m \in UndoCell : m.Type = Open.Type /\ Merge(m)
    BY <1>4 DEF MergesIn
  <2>2. /\ UndoArray' = [UndoArray EXCEPT ![UndoActual] = m]
        /\ UNCHANGED <<UndoBase, UndoActual, UndoTop, UndoSt, undoGroupCount>>
    BY <2>1 DEF Merge
  <2>3. \A i \in Cells : UndoArray'[i].Type = UndoArray[i].Type
    BY <2>1, <2>2 DEF Open, TypeOK
  <2>4. CellsAccounted'
    BY <2>2, <2>3, SameTypesKeepCells
  <2>5. RingInOrder'
    BY <2>2 DEF RingInOrder, After
  <2>6. GroupAtRest'
    BY <1>1, <2>2 DEF EditShape, GroupAtRest
  <2> QED
    BY <1>2, <2>4, <2>5, <2>6
<1> QED
  BY <1>1, <1>3, <1>4 DEF EditShape

LEMMA UndoSafe ==
  ASSUME IInv, UndoNext
  PROVE  (RingInOrder /\ RedoShortOfTop /\ CellsAccounted /\ GroupAtRest)'
<1> USE DEF IInv
<1>1. /\ UndoOneAction /\ UndoFrame
      /\ redoing = <<>>
  <2>1. CASE Undo
    BY <2>1 DEF Undo, Idle
  <2>2. CASE UndoMore
    BY <2>2 DEF UndoMore, RedoShortOfTop
  <2> QED
    BY <2>1, <2>2 DEF UndoNext
<1>2. RedoShortOfTop' /\ GroupAtRest'
  BY <1>1 DEF UndoFrame, group, RedoShortOfTop, GroupAtRest
<1>3. CASE UndoActual = UndoBase
  <2> UNCHANGED ring
    BY <1>1, <1>3 DEF UndoOneAction
  <2> QED
    BY <1>2 DEF ring, RingInOrder, CellsAccounted, InUse, After
<1>4. CASE UndoActual # UndoBase
  <2> DEFINE un == IF UndoSt # undoNoUndo THEN UndoSaveFinalState(Open) ELSE Open
  <2>1. un \in UndoCell /\ un.Type = Open.Type
    BY CellTypes DEF TypeOK, Open
  <2>2. /\ UndoArray' = [UndoArray EXCEPT ![UndoActual] = un]
        /\ UndoActual' = DecWithWrap(UndoActual)
        /\ UNCHANGED <<UndoBase, UndoTop>>
    BY <1>1, <1>4 DEF UndoOneAction
  <2> HIDE DEF un
  <2>3. \A i \in Cells : UndoArray'[i].Type = UndoArray[i].Type
    BY <2>1, <2>2 DEF Open, TypeOK
  <2>4. CellsAccounted'
    BY <2>2, <2>3, SameTypesKeepCells
  <2>5. DecWithWrap(UndoActual) \in After(UndoBase, UndoTop) \cup {UndoBase}
    BY <1>4, StepDown DEF RingInOrder, TypeOK
  <2>6. RingInOrder'
    BY <2>2, <2>5 DEF RingInOrder, After
  <2> QED
    BY <1>2, <2>4, <2>6
<1> QED
  BY <1>3, <1>4

LEMMA RedoSafe ==
  ASSUME IInv, RedoNext
  PROVE  (RingInOrder /\ RedoShortOfTop /\ CellsAccounted /\ GroupAtRest)'
<1> USE DEF IInv
<1>1. CASE Redo \/ RedoMore
  <2>1. /\ RedoOneAction /\ EnterLoop /\ RedoFrame
        /\ UndoActual # UndoTop /\ undoing = 0
    BY <1>1 DEF Redo, RedoMore, Idle, RedoShortOfTop
  <2>2. /\ UndoActual' = IncWithWrap(UndoActual)
        /\ UNCHANGED <<UndoArray, UndoBase, UndoTop>>
    BY <2>1 DEF RedoOneAction
  <2>3. IncWithWrap(UndoActual) \in After(UndoBase, UndoTop)
    BY <2>1, StepUp DEF RingInOrder, TypeOK
  <2>4. RingInOrder' /\ CellsAccounted'
    BY <2>2, <2>3 DEF RingInOrder, CellsAccounted, InUse, After
  <2>5. RedoShortOfTop'
    BY <2>1, <2>2 DEF EnterLoop, RedoShortOfTop, RedoFrame
  <2>6. GroupAtRest'
    BY <2>1 DEF RedoFrame, group, GroupAtRest
  <2> QED
    BY <2>4, <2>5, <2>6
<1>2. CASE RedoReturn
  <2>1. redoing # <<>> /\ UNCHANGED ring /\ UNCHANGED <<group, undoing>>
    BY <1>2 DEF RedoReturn, RedoFrame
  <2> QED
    BY <2>1 DEF ring, group, RingInOrder, RedoShortOfTop, CellsAccounted, GroupAtRest,
                InUse, After
<1> QED
  BY <1>1, <1>2 DEF RedoNext

(* An empty ring in cell n whose used cells have all been freed.           *)
LEMMA FlushKeepsRing ==
  ASSUME TypeOK, CellsAccounted, NEW n \in Cells,
         UndoBase' = n, UndoActual' = n, UndoTop' = n,
         \A i \in Cells : i \in InUse \cup {UndoBase} => UndoArray'[i].Type = undoNoUndo,
         \A i \in Cells : i \notin InUse \cup {UndoBase} =>
            UndoArray'[i].Type \in {UndoArray[i].Type, undoNoUndo}
  PROVE  RingInOrder' /\ CellsAccounted'
<1>1. InUse' = {}
  BY AfterFull DEF InUse, After, Cells
<1> QED
  BY <1>1 DEF RingInOrder, CellsAccounted

LEMMA WholeSafe ==
  ASSUME IInv, Whole
  PROVE  (RingInOrder /\ RedoShortOfTop /\ CellsAccounted /\ GroupAtRest)'
<1> USE DEF IInv
<1>freed. \A i \in Cells : Freed(UndoArray[i]).Type = undoNoUndo
  BY CellTypes DEF TypeOK
<1>1. ASSUME NEW f \in [Chars -> Chars], RemapCodePageBuffer(f)
      PROVE  (RingInOrder /\ RedoShortOfTop /\ CellsAccounted /\ GroupAtRest)'
  <2>1. FlushUndoInfo /\ Idle /\ UNCHANGED <<group, loops>>
    BY <1>1 DEF RemapCodePageBuffer
  <2>2. RingInOrder' /\ CellsAccounted'
    BY <1>freed, <2>1, FlushKeepsRing DEF FlushUndoInfo, TypeOK
  <2> QED
    BY <2>1, <2>2 DEF Idle, group, loops, RedoShortOfTop, GroupAtRest
<1>2. ASSUME ReLoadFile
      PROVE  (RingInOrder /\ RedoShortOfTop /\ CellsAccounted /\ GroupAtRest)'
  <2> DEFINE kept == [i \in Cells |-> IF i \in InUse \cup {UndoBase}
                                      THEN Freed(UndoArray[i]) ELSE UndoArray[i]]
  <2>1. ASSUME NEW i \in Cells
        PROVE  /\ i \in InUse \cup {UndoBase} => kept[i].Type = undoNoUndo
               /\ i \notin InUse \cup {UndoBase} => kept[i].Type = UndoArray[i].Type
               /\ kept[i] \in UndoCell
    BY <1>freed, CellTypes DEF TypeOK
  <2>2. /\ Idle /\ UNCHANGED loops
        /\ UndoArray' = [i \in Cells |-> IF i = 0
                            THEN [kept[i] EXCEPT !.Type = undoNoUndo, !.X = 0, !.Count = 0]
                            ELSE kept[i]]
        /\ UndoBase' = 0 /\ UndoActual' = 0 /\ UndoTop' = 0
        /\ undoGroupCount' = 0
    BY <1>2 DEF ReLoadFile
  <2> HIDE DEF kept
  <2>3. ASSUME NEW i \in Cells
        PROVE  UndoArray'[i].Type \in {undoNoUndo, kept[i].Type}
    BY <2>1, <2>2 DEF UndoCell
  <2>4. 0 \in Cells
    BY MaxUndoAssumption DEF Cells
  <2>6. /\ \A i \in Cells : i \in InUse \cup {UndoBase} => UndoArray'[i].Type = undoNoUndo
        /\ \A i \in Cells : i \notin InUse \cup {UndoBase} =>
             UndoArray'[i].Type \in {UndoArray[i].Type, undoNoUndo}
    BY <2>1, <2>3
  <2>7. RingInOrder' /\ CellsAccounted'
    BY <2>2, <2>4, <2>6, FlushKeepsRing
  <2> QED
    BY <2>2, <2>7 DEF Idle, loops, RedoShortOfTop, GroupAtRest
<1>3. ASSUME SaveFile
      PROVE  (RingInOrder /\ RedoShortOfTop /\ CellsAccounted /\ GroupAtRest)'
  <2>1. \A i \in Cells : [UndoArray[i] EXCEPT !.Flags = @ \cup {"undoModified"}].Type
                            = UndoArray[i].Type
    BY DEF TypeOK, UndoCell
  <2>2. \A i \in Cells : UndoArray'[i].Type = UndoArray[i].Type
    BY <1>3, <2>1 DEF SaveFile, RevertModifFlagInUndo
  <2>3. UNCHANGED <<UndoBase, UndoActual, UndoTop, group, loops>>
    BY <1>3 DEF SaveFile
  <2>4. CellsAccounted'
    BY <2>2, <2>3, SameTypesKeepCells
  <2> QED
    BY <2>3, <2>4 DEF group, loops, RingInOrder, RedoShortOfTop, GroupAtRest, After
<1>4. ASSUME ToggleMoveOnPaste
      PROVE  (RingInOrder /\ RedoShortOfTop /\ CellsAccounted /\ GroupAtRest)'
  BY <1>4 DEF ToggleMoveOnPaste, ring, group, loops, RingInOrder, RedoShortOfTop,
              CellsAccounted, GroupAtRest, InUse, After
<1> QED
  BY <1>1, <1>2, <1>3, <1>4 DEF Whole

LEMMA GroupSafe ==
  ASSUME IInv, Group
  PROVE  (RingInOrder /\ RedoShortOfTop /\ CellsAccounted /\ GroupAtRest)'
<1> USE DEF IInv
<1>1. UNCHANGED <<ring, loops>>
  BY DEF Group, LockUndo, UnlockUndo, OvrPutCharNoRoom
<1>2. RingInOrder' /\ RedoShortOfTop' /\ CellsAccounted'
  BY <1>1 DEF ring, loops, RingInOrder, RedoShortOfTop, CellsAccounted, InUse, After
<1>3. GroupAtRest'
  BY DEF Group, LockUndo, UnlockUndo, OvrPutCharNoRoom, GroupAtRest, TypeOK
<1> QED
  BY <1>2, <1>3

LEMMA InitIInv == Init => IInv
<1> SUFFICES ASSUME Init PROVE IInv
  OBVIOUS
<1>1. TypeOK
  BY InitTypeOK
<1>2. 0 \in Cells /\ After(0, 0) = {}
  BY MaxUndoAssumption DEF Cells, After
<1>3. RingInOrder /\ RedoShortOfTop /\ GroupAtRest
  BY DEF Init, RingInOrder, RedoShortOfTop, GroupAtRest
<1>4. CellsAccounted
  BY <1>2 DEF Init, CellsAccounted, InUse, EmptyCell
<1> QED
  BY <1>1, <1>3, <1>4 DEF IInv

LEMMA NextIInv == IInv /\ [Next]_vars => IInv'
<1> SUFFICES ASSUME IInv, [Next]_vars PROVE IInv'
  OBVIOUS
<1>1. TypeOK'
  BY NextTypeOK DEF IInv
<1>2. CASE UNCHANGED vars
  BY <1>1, <1>2 DEF IInv, vars, ring, group, loops, RingInOrder, RedoShortOfTop,
                    CellsAccounted, GroupAtRest, InUse, After
<1> QED
  BY <1>1, <1>2, EditSafe, GroupSafe, UndoSafe, RedoSafe, WholeSafe DEF Next, IInv

(* Whatever the size of the ring and wherever it wraps, UndoActual stays   *)
(* between the sentinel and UndoTop: undo() and redo() never leave the     *)
(* cells that hold their actions.                                          *)
THEOREM RingSafe == Spec => []RingInOrder
<1>1. Init => IInv
  BY InitIInv
<1>2. IInv /\ [Next]_vars => IInv'
  BY NextIInv
<1>3. IInv => RingInOrder
  BY DEF IInv
<1> QED
  BY <1>1, <1>2, <1>3, PTL DEF Spec

(* The cells of the ring hold actions and all the others are free, after   *)
(* any wrap, eviction, flush or reload: freeUndoCell() is called once for  *)
(* each cell that leaves the ring.                                         *)
THEOREM NoCellLost == Spec => []CellsAccounted
<1>1. Init => IInv
  BY InitIInv
<1>2. IInv /\ [Next]_vars => IInv'
  BY NextIInv
<1>3. IInv => CellsAccounted
  BY DEF IInv
<1> QED
  BY <1>1, <1>2, <1>3, PTL DEF Spec

-----------------------------------------------------------------------------
(* The open cell.  flushUndoInfo() alone breaks it, and only the actions   *)
(* without undo call it on a ring that stays in use.                       *)

LEMMA PushOpens ==
  ASSUME TypeOK, NEW prev, NEW c, PushAfter(prev, c)
  PROVE  OpenCellMatches'
<1> DEFINE a == IncWithWrap(UndoActual)
<1>1. a \in Cells
  BY Wrap DEF TypeOK
<1>2. UndoArray'[a] = c /\ UndoActual' = a /\ UndoSt' = c.Type
  BY <1>1 DEF PushAfter
<1> QED
  BY <1>2 DEF OpenCellMatches

LEMMA NextOpenCell ==
  ASSUME "RemapCodePageBuffer" \notin Ops, IInv, OpenCellMatches, [Next]_vars
  PROVE  OpenCellMatches'
<1> USE DEF IInv
<1>1. CASE Edit
  <2>1. CASE Allocates
    BY <2>1, PushOpens DEF Allocates
  <2>2. CASE MergesIn
    BY <2>2 DEF MergesIn, Merge, OpenCellMatches, Open, TypeOK
  <2> QED
    BY <1>1, <2>1, <2>2, EditShapes DEF EditShape
<1>2. CASE UndoNext
  <2>1. UndoOneAction
    BY <1>2 DEF UndoNext, Undo, UndoMore
  <2> QED
    BY <2>1 DEF UndoOneAction, CloseCell, ring, OpenCellMatches
<1>3. CASE RedoNext
  BY <1>3 DEF RedoNext, Redo, RedoMore, RedoReturn, RedoOneAction, CloseCell, ring,
              OpenCellMatches
<1>4. CASE ReLoadFile
  BY <1>4 DEF ReLoadFile, OpenCellMatches
<1>5. CASE SaveFile
  <2>1. UndoArray[UndoActual] \in UndoCell
    BY DEF TypeOK
  <2>2. UndoArray'[UndoActual].Type = UndoArray[UndoActual].Type
    BY <1>5, <2>1 DEF SaveFile, RevertModifFlagInUndo, UndoCell, TypeOK
  <2> QED
    BY <1>5, <2>2 DEF SaveFile, OpenCellMatches
<1>6. CASE Group \/ ToggleMoveOnPaste \/ UNCHANGED vars
  BY <1>6 DEF Group, LockUndo, UnlockUndo, OvrPutCharNoRoom, ToggleMoveOnPaste, vars, ring,
              OpenCellMatches
<1> QED
  BY <1>1, <1>2, <1>3, <1>4, <1>5, <1>6 DEF Next, Whole

(* Without the code page remapping, a one-character edit is only ever      *)
(* merged into a cell of its own type: addToUndo() trusts UndoSt for that  *)
(* and does not look at the cell.                                          *)
THEOREM OpenCellSafe ==
  ASSUME "RemapCodePageBuffer" \notin Ops
  PROVE  Spec => []OpenCellMatches
<1>1. Init => IInv /\ OpenCellMatches
  BY InitIInv DEF Init, OpenCellMatches
<1>2. IInv /\ OpenCellMatches /\ [Next]_vars => (IInv /\ OpenCellMatches)'
  BY NextIInv, NextOpenCell
<1> QED
  BY <1>1, <1>2, PTL DEF Spec

(***************************************************************************)
(* Commands.  The memory of UndoHistory says where each one began.  On a   *)
(* ring that does not fill, with commands of at most two cells, undo() and *)
(* redo() move by whole commands.  Both limits are needed: eviction may    *)
(* forget the cell that starts a command, redo() runs past a command of    *)
(* three, and an edit merged into a cell of the command before changes the *)
(* text inside of a command that has no cell yet.                          *)
(***************************************************************************)
NeverFull == MaxEdits < MAX_UNDO

ShortCommands == /\ "OvrPutCharNoRoom" \notin Ops
                 /\ \/ "LockUndo" \notin Ops
                    \/ MaxGroup <= 2 /\ Ops \cap MergingOps = {}

Docs == [text : Seq(Chars), cur : Nat, overwrite : BOOLEAN]

MemoryOK == /\ snap \in [Cells -> [pre : Docs, post : Docs, first : BOOLEAN]]
            /\ dirty \in BOOLEAN

Count(i) == UndoArray[i].Count

(* The ring as a stack: nothing is evicted and nothing wraps. *)
Flat == UndoBase = 0 /\ UndoActual <= UndoTop /\ UndoTop <= edits /\ edits <= MaxEdits

(* A cell starts a command, or it is the second of one. *)
Chained ==
  \A i \in 1 .. UndoTop :
    \/ Count(i) = 0 /\ snap[i].first
    \/ Count(i) = 1 /\ i > 1 /\ Count(i - 1) = 0

(* What the running command has added is at the top. *)
Grouped ==
  /\ undoLockCount \in {0, 1} /\ leaked = 0
  /\ undoLockCount > 0 => "LockUndo" \in Ops
  /\ undoGroupCount > 0 => UndoActual >= 1 /\ UndoActual = UndoTop
  /\ undoGroupCount = 1 => Count(UndoActual) = 0
  /\ dirty => undoGroupCount > 0

(* undo() still owes the first cell of a command of two. *)
Undoings ==
  undoing > 0 => /\ undoing = 1 /\ redoing = <<>> /\ undoLockCount = 0
                 /\ UndoActual >= 1 /\ Count(UndoActual) = 0

(* redo() looks at the next cell, which may be the second of the command,  *)
(* or has done the second one and looks at the cell after it.              *)
Redoings ==
  redoing # <<>> =>
    /\ undoing = 0 /\ undoLockCount = 0 /\ UndoActual < UndoTop
    /\ \/ redoing = <<UndoActual + 1>>
       \/ redoing = <<UndoActual, UndoActual + 1>> /\ UndoActual >= 1 /\ Count(UndoActual) = 1

(* At rest, the next cell to redo starts a command. *)
Rests == Idle /\ UndoActual < UndoTop => Count(UndoActual + 1) = 0

Commands == Flat /\ Chained /\ Grouped /\ Undoings /\ Redoings /\ Rests

CInv == IInv /\ MemoryOK /\ Commands

LEMMA DocTypes ==
  /\ TypeOK => doc \in Docs
  /\ TypeOK' => doc' \in Docs
BY DEF TypeOK, doc, Docs

(* The memory of a handler that leaves no cell open, and of a command that *)
(* is over.                                                                *)
LEMMA WatchNothing ==
  ASSUME Watch
  PROVE  /\ UndoSt' = undoNoUndo => snap' = snap
         /\ NoCommand' => ~dirty'
<1>1. dirty' = (~NoCommand' /\ (dirty \/ text' # text))
  BY DEF Watch
<1>2. UndoSt' = undoNoUndo => snap' = snap
  BY DEF Watch
<1> QED
  BY <1>1, <1>2, Zenon

LEMMA WatchTypes ==
  ASSUME TypeOK, TypeOK', MemoryOK, Watch
  PROVE  MemoryOK'
<1> DEFINE S == [pre : Docs, post : Docs, first : BOOLEAN]
<1>1. doc \in Docs /\ doc' \in Docs
  BY DocTypes
<1>2. UndoActual' \in Cells
  BY DEF TypeOK
<1>3. dirty' \in BOOLEAN
  BY DEF Watch, MemoryOK
<1>4. ASSUME NEW r \in S PROVE [r EXCEPT !.post = doc'] \in S
  BY <1>1, <1>4
<1>5. [pre |-> doc, post |-> doc', first |-> ~dirty] \in S
  BY <1>1
<1>6. snap \in [Cells -> S]
  BY DEF MemoryOK
<1> HIDE DEF S
<1>7. snap' \in [Cells -> S]
  BY <1>2, <1>4, <1>5, <1>6 DEF Watch
<1> QED
  BY <1>3, <1>7 DEF MemoryOK, S

(* The memory of a cell says for good whether it began a command, until    *)
(* the cell is taken for another.                                          *)
LEMMA WatchFirst ==
  ASSUME TypeOK', MemoryOK, Watch, NEW i \in Cells
  PROVE  \/ snap'[i].first = snap[i].first
         \/ i = UndoActual' /\ UndoActual' # UndoActual /\ snap'[i].first = ~dirty
<1>1. snap[i] \in [pre : Docs, post : Docs, first : BOOLEAN]
  BY DEF MemoryOK
<1>2. [snap[i] EXCEPT !.post = doc'].first = snap[i].first
  BY <1>1
<1>3. snap \in [Cells -> [pre : Docs, post : Docs, first : BOOLEAN]]
  BY DEF MemoryOK
<1>4. CASE UndoSt' = undoNoUndo \/ i # UndoActual'
  BY <1>3, <1>4 DEF Watch
<1>5. CASE UndoSt' # undoNoUndo /\ i = UndoActual' /\ UndoActual' = UndoActual
  BY <1>2, <1>3, <1>5 DEF Watch
<1>6. CASE UndoSt' # undoNoUndo /\ i = UndoActual' /\ UndoActual' # UndoActual
  BY <1>3, <1>6 DEF Watch
<1> QED
  BY <1>4, <1>5, <1>6

(* A new cell on a ring with room. *)
LEMMA PushFlat ==
  ASSUME TypeOK, NeverFull, Flat, edits < MaxEdits,
         NEW prev \in UndoCell, NEW c, prev.Count = Open.Count, PushAfter(prev, c)
  PROVE  /\ UndoActual + 1 \in Cells
         /\ UndoBase' = 0 /\ UndoActual' = UndoActual + 1 /\ UndoTop' = UndoActual + 1
         /\ UndoArray'[UndoActual + 1] = c
         /\ \A i \in Cells : i # UndoActual + 1 => UndoArray'[i].Count = Count(i)
<1> DEFINE a == IncWithWrap(UndoActual)
           closed == [UndoArray EXCEPT ![UndoActual] = prev]
<1>1. /\ a = UndoActual + 1 /\ a \in Cells /\ a # 0 /\ a # UndoBase
      /\ UndoActual \in Cells
  BY MaxUndoAssumption, BoundsAssumption DEF NeverFull, Flat, IncWithWrap, Cells, TypeOK
<1>2. closed \in [Cells -> UndoCell]
  BY DEF TypeOK
<1>3. \A i \in Cells : closed[i].Count = UndoArray[i].Count
  BY DEF Open, TypeOK
<1>4. \A i \in Cells : Freed(closed[i]).Count = UndoArray[i].Count
  BY <1>2, <1>3, CellTypes DEF TypeOK
<1> HIDE DEF closed, a
<1>5. PICK b \in {UndoBase} :
        /\ UndoArray' = [i \in Cells |-> IF i = a THEN c
                                         ELSE IF i \in Kept(a, b) THEN closed[i]
                                         ELSE Freed(closed[i])]
        /\ UndoBase' = b /\ UndoActual' = a /\ UndoTop' = a
  BY <1>1 DEF PushAfter, closed, a
<1>6. UndoBase' = 0
  BY <1>5 DEF Flat
<1>7. \A i \in Cells : i # a => UndoArray'[i].Count = Count(i)
  BY <1>3, <1>4, <1>5 DEF Count
<1> QED
  BY <1>1, <1>5, <1>6, <1>7

LEMMA EditCommands ==
  ASSUME NeverFull, ShortCommands, CInv, MemoryOK', TypeOK', Edit, Watch
  PROVE  Commands'
<1> USE DEF CInv, IInv, Commands
<1>1. EditShape
  BY EditShapes
<1>2. /\ Idle /\ edits < MaxEdits /\ edits' = edits + 1
      /\ UNCHANGED <<undoLockCount, leaked, loops>>
      /\ undoLockCount > 0 => undoGroupCount < MaxGroup
  BY <1>1 DEF EditShape, MayEdit
<1>3. edits \in Nat /\ MaxEdits \in Nat /\ undoGroupCount \in Nat /\ MaxGroup \in Nat
  BY BoundsAssumption DEF TypeOK
<1>4. Idle' /\ Undoings' /\ Redoings'
  BY <1>2 DEF Idle, loops, Undoings, Redoings
<1>5. dirty' => undoLockCount > 0 /\ (dirty \/ text' # text)
  <2>1. dirty' = (~NoCommand' /\ (dirty \/ text' # text))
    BY DEF Watch
  <2>2. ~NoCommand' => undoLockCount > 0
    BY <1>2 DEF NoCommand, Grouped
  <2> QED
    BY <2>1, <2>2, Zenon
<1>6. CASE Allocates
  <2>0. PICK prev \in UndoCell : \E c :
          /\ prev.Type = Open.Type /\ prev.Count = Open.Count
          /\ c.Type # undoNoUndo /\ c.Count = undoGroupCount
          /\ PushAfter(prev, c) /\ Grouping
    BY <1>6 DEF Allocates
  <2>1. PICK c :
          /\ prev.Count = Open.Count
          /\ c.Type # undoNoUndo /\ c.Count = undoGroupCount
          /\ PushAfter(prev, c) /\ Grouping
    BY <2>0
  <2> DEFINE a == UndoActual + 1
  <2>2. /\ a \in Cells /\ UndoBase' = 0 /\ UndoActual' = a /\ UndoTop' = a
        /\ UndoArray'[a].Count = undoGroupCount
        /\ \A i \in Cells : i # a => UndoArray'[i].Count = Count(i)
    <3>1. /\ a \in Cells /\ UndoBase' = 0 /\ UndoActual' = a /\ UndoTop' = a
          /\ UndoArray'[a] = c
          /\ \A i \in Cells : i # a => UndoArray'[i].Count = Count(i)
      BY <1>2, <2>1, PushFlat
    <3> QED
      BY <2>1, <3>1 DEF Count
  <2>3. /\ UndoActual \in Nat /\ UndoTop \in Nat /\ UndoActual <= UndoTop /\ UndoTop <= edits
        /\ \A i \in 1 .. a : i \in Cells /\ i \in Nat
    <3>1. UndoActual \in Nat /\ UndoTop \in Nat /\ MAX_UNDO \in Nat /\ a < MAX_UNDO
      BY <2>2, MaxUndoAssumption DEF TypeOK, Cells
    <3> QED
      BY <3>1 DEF Flat, Cells
  <2>4. Flat'
    BY <1>2, <1>3, <2>2, <2>3 DEF Flat
  <2>5. undoGroupCount = 0 \/ (undoGroupCount = 1 /\ UndoActual >= 1 /\ Count(UndoActual) = 0)
    <3>1. CASE undoLockCount = 0
      <4>1. undoGroupCount = 0
        BY <3>1 DEF GroupAtRest
      <4> QED
        BY <4>1
    <3>2. CASE undoLockCount > 0
      <4>1. "LockUndo" \in Ops /\ undoGroupCount < MaxGroup
        BY <1>2, <3>2 DEF Grouped
      <4>2. undoGroupCount \in {0, 1}
        BY <1>3, <4>1 DEF ShortCommands
      <4> QED
        BY <4>2 DEF Grouped
    <3> QED
      BY <3>1, <3>2 DEF TypeOK
  <2>6. undoGroupCount = 0 => snap'[a].first
    <3>1. UndoActual' # UndoActual
      BY <2>2, <2>3
    <3>2. UndoSt' # undoNoUndo
      BY <2>1 DEF PushAfter
    <3>3. snap'[a].first = ~dirty
      BY <2>2, <3>1, <3>2 DEF Watch, MemoryOK
    <3>4. undoGroupCount = 0 => ~dirty
      BY DEF Grouped
    <3> QED
      BY <3>3, <3>4
  <2>7. Chained'
    <3> SUFFICES ASSUME NEW i \in 1 .. a
                 PROVE  \/ UndoArray'[i].Count = 0 /\ snap'[i].first
                        \/ UndoArray'[i].Count = 1 /\ i > 1 /\ UndoArray'[i - 1].Count = 0
      BY <2>2 DEF Chained, Count
    <3>1. CASE i = a
      <4>1. UndoActual >= 1 => a - 1 = UndoActual /\ UndoActual \in Cells /\ UndoActual # a
        BY <2>3 DEF TypeOK
      <4> QED
        BY <2>2, <2>3, <2>5, <2>6, <3>1, <4>1
    <3>2. CASE i # a
      <4>1. i \in 1 .. UndoTop /\ i \in Cells /\ i # a /\ (i > 1 => i - 1 \in Cells /\ i - 1 # a)
        BY <2>3, <3>2 DEF Cells
      <4>2. snap'[i].first = snap[i].first
        BY <2>2, <4>1, WatchFirst
      <4>3. UndoArray'[i].Count = Count(i) /\ (i > 1 => UndoArray'[i - 1].Count = Count(i - 1))
        BY <2>2, <4>1
      <4> QED
        BY <4>1, <4>2, <4>3 DEF Chained
    <3> QED
      BY <3>1, <3>2
  <2>8. undoGroupCount' = IF undoLockCount > 0 THEN undoGroupCount + 1 ELSE undoGroupCount
    BY <2>1 DEF Grouping
  <2>9. Grouped'
    <3>1. undoGroupCount' = 1 => undoGroupCount = 0
      <4>1. CASE undoLockCount = 0
        BY <2>8, <4>1 DEF GroupAtRest
      <4>2. CASE undoLockCount > 0
        BY <1>3, <2>8, <4>2
      <4> QED
        BY <4>1, <4>2 DEF TypeOK
    <3>2. undoGroupCount' = 1 => Count(UndoActual)' = 0
      BY <2>2, <3>1 DEF Count
    <3>3. dirty' => undoGroupCount' > 0
      BY <1>3, <1>5, <2>8
    <3>4. UndoActual' >= 1 /\ UndoActual' = UndoTop'
      BY <2>2, <2>3
    <3> QED
      BY <1>2, <3>2, <3>3, <3>4 DEF Grouped
  <2>10. Rests'
    BY <2>2 DEF Rests, TypeOK, Cells
  <2> QED
    BY <1>4, <2>4, <2>7, <2>9, <2>10
<1>7. CASE MergesIn /\ (text' = text \/ Ops \cap MergingOps # {})
  <2>1. PICK m \in UndoCell : m.Count = Open.Count /\ Merge(m)
    BY <1>7 DEF MergesIn
  <2>2. /\ UndoArray' = [UndoArray EXCEPT ![UndoActual] = m]
        /\ UNCHANGED <<UndoBase, UndoActual, UndoTop, undoGroupCount>>
    BY <2>1 DEF Merge
  <2>3. \A i \in Cells : UndoArray'[i].Count = Count(i)
    BY <2>1, <2>2 DEF Open, TypeOK, Count
  <2>4. UndoActual \in Cells /\ UndoTop \in Cells
    BY DEF TypeOK
  <2>5. Flat'
    BY <1>2, <1>3, <2>2, <2>4 DEF Flat, Cells
  <2>6. \A i \in Cells : snap'[i].first = snap[i].first
    BY <2>2, WatchFirst
  <2>7. \A i \in 1 .. UndoTop : i \in Cells /\ (i > 1 => i - 1 \in Cells)
    BY <2>4, MaxUndoAssumption DEF Cells
  <2>8. Chained'
    <3> SUFFICES ASSUME NEW i \in 1 .. UndoTop
                 PROVE  \/ UndoArray'[i].Count = 0 /\ snap'[i].first
                        \/ UndoArray'[i].Count = 1 /\ i > 1 /\ UndoArray'[i - 1].Count = 0
      BY <2>2 DEF Chained, Count
    <3> QED
      BY <2>3, <2>6, <2>7 DEF Chained
  <2>9. dirty' => undoGroupCount > 0
    <3>1. undoLockCount > 0 => text' = text
      BY <1>7 DEF Grouped, ShortCommands
    <3> QED
      BY <1>5, <3>1 DEF Grouped
  <2>10. Grouped'
    <3>1. Count(UndoActual)' = Count(UndoActual)
      BY <2>2, <2>3, <2>4 DEF Count
    <3> QED
      BY <1>2, <2>2, <2>9, <3>1 DEF Grouped
  <2>11. Rests'
    <3>1. UndoActual < UndoTop => UndoActual + 1 \in Cells
      BY <2>4, MaxUndoAssumption DEF Cells
    <3>2. UndoActual < UndoTop => Count(UndoActual + 1)' = Count(UndoActual + 1)
      <4> SUFFICES ASSUME UndoActual < UndoTop
                   PROVE  UndoArray'[(UndoActual + 1)'].Count = UndoArray[UndoActual + 1].Count
        BY DEF Count
      <4> QED
        BY <2>2, <2>3, <3>1 DEF Count
    <3> QED
      BY <1>2, <2>2, <3>2 DEF Rests
  <2> QED
    BY <1>4, <2>5, <2>8, <2>10, <2>11
<1> QED
  BY <1>1, <1>6, <1>7 DEF EditShape

(* Handlers that leave the ring alone. *)
LEMMA SameRingCommands ==
  ASSUME CInv, TypeOK', Watch, UNCHANGED <<UndoBase, UndoActual, UndoTop, edits>>,
         \A i \in Cells : UndoArray'[i].Count = Count(i)
  PROVE  /\ Flat' /\ Chained'
         /\ UndoArray'[UndoActual].Count = Count(UndoActual)
         /\ UndoActual < UndoTop => UndoArray'[UndoActual + 1].Count = Count(UndoActual + 1)
         /\ UNCHANGED loops => Rests' /\ (UNCHANGED undoLockCount => Undoings' /\ Redoings')
<1> USE DEF CInv, IInv, Commands
<1>1. UndoActual \in Cells /\ UndoTop \in Cells /\ MAX_UNDO \in Nat
  BY MaxUndoAssumption DEF TypeOK
<1>2. \A i \in 1 .. UndoTop : i \in Cells /\ (i > 1 => i - 1 \in Cells)
  BY <1>1 DEF Cells
<1>3. UndoActual < UndoTop => UndoActual + 1 \in Cells
  BY <1>1 DEF Cells
<1>4. \A i \in Cells : snap'[i].first = snap[i].first
  BY WatchFirst
<1>5. Flat'
  BY DEF Flat
<1>6. Chained'
  <2> SUFFICES ASSUME NEW i \in 1 .. UndoTop
               PROVE  \/ UndoArray'[i].Count = 0 /\ snap'[i].first
                      \/ UndoArray'[i].Count = 1 /\ i > 1 /\ UndoArray'[i - 1].Count = 0
    BY DEF Chained, Count
  <2> QED
    BY <1>2, <1>4 DEF Chained
<1>7. /\ UndoArray'[UndoActual].Count = Count(UndoActual)
      /\ UndoActual < UndoTop => UndoArray'[UndoActual + 1].Count = Count(UndoActual + 1)
  BY <1>1, <1>3
<1>8. UNCHANGED loops => Rests'
  <2>1. UNCHANGED loops => Idle' = Idle
    BY DEF loops, Idle
  <2>2. UndoActual < UndoTop => UndoArray'[UndoActual' + 1].Count = Count(UndoActual + 1)
    BY <1>7
  <2> QED
    BY <2>1, <2>2 DEF Rests, Count
<1>9. UNCHANGED loops /\ UNCHANGED undoLockCount => Undoings' /\ Redoings'
  <2>1. UndoArray'[UndoActual'].Count = Count(UndoActual)
    BY <1>7
  <2> QED
    BY <2>1 DEF loops, Undoings, Redoings, Count
<1> QED
  BY <1>5, <1>6, <1>7, <1>8, <1>9

LEMMA GroupCommands ==
  ASSUME ShortCommands, CInv, TypeOK', Group, Watch
  PROVE  Commands'
<1> USE DEF CInv, IInv, Commands
<1>0. "LockUndo" \in Ops /\ (LockUndo \/ UnlockUndo)
  BY DEF Group, ShortCommands
<1>1. /\ "LockUndo" \in Ops /\ Idle
      /\ UNCHANGED <<UndoArray, UndoBase, UndoActual, UndoTop, edits, leaked, loops, text>>
  BY <1>0 DEF LockUndo, UnlockUndo, ring, editor
<1>2. /\ Flat' /\ Chained' /\ Rests'
      /\ UndoArray'[UndoActual].Count = Count(UndoActual)
  BY <1>1, SameRingCommands DEF Count
<1>3. Undoings' /\ Redoings'
  BY <1>1 DEF Idle, loops, Undoings, Redoings
<1>4. UndoArray'[UndoActual'].Count = Count(UndoActual)
  BY <1>1, <1>2
<1>5. CASE LockUndo
  <2>1. undoLockCount' = 1 /\ undoGroupCount' = undoGroupCount /\ undoGroupCount = 0
    BY <1>5 DEF LockUndo, NoCommand, Grouped, GroupAtRest
  <2>2. dirty' => dirty
    BY <1>1 DEF Watch
  <2>3. ~dirty
    BY <2>1 DEF Grouped
  <2> QED
    BY <1>1, <1>2, <1>3, <2>1, <2>2, <2>3 DEF Grouped
<1>6. CASE UnlockUndo
  <2>1. undoLockCount' = 0 /\ undoGroupCount' = 0
    BY <1>6 DEF UnlockUndo, Grouped
  <2>2. ~dirty'
    BY <1>1, <2>1, WatchNothing DEF NoCommand, Grouped
  <2> QED
    BY <1>1, <1>2, <1>3, <2>1, <2>2 DEF Grouped
<1> QED
  BY <1>0, <1>5, <1>6

(* undo(), a cell down. *)
LEMMA UndoCommands ==
  ASSUME CInv, TypeOK', UndoNext, Watch
  PROVE  Commands'
<1> USE DEF CInv, IInv, Commands
<1>1. /\ UndoOneAction /\ UndoFrame /\ redoing = <<>>
      /\ undoLockCount = 0 /\ UndoActual # UndoBase
  <2>1. CASE Undo
    BY <2>1 DEF Undo, Idle, NoCommand, Grouped
  <2>2. CASE UndoMore
    BY <2>2 DEF UndoMore, Undoings, Flat
  <2> QED
    BY <2>1, <2>2 DEF UndoNext
<1>2. /\ UndoActual \in Nat /\ UndoTop \in Nat /\ UndoActual >= 1 /\ UndoActual <= UndoTop
      /\ UndoTop \in Cells /\ UndoActual \in Cells
  BY <1>1 DEF Flat, TypeOK, Cells
<1>3. /\ UndoActual' = UndoActual - 1 /\ UndoSt' = undoNoUndo
      /\ UNCHANGED <<UndoBase, UndoTop, group, redoing, edits>>
  <2>1. DecWithWrap(UndoActual) = UndoActual - 1
    BY <1>2 DEF DecWithWrap
  <2> QED
    BY <1>1, <2>1 DEF UndoOneAction, CloseCell, UndoFrame
<1>4. \A i \in Cells : UndoArray'[i].Count = Count(i)
  <2> DEFINE un == IF UndoSt # undoNoUndo THEN UndoSaveFinalState(Open) ELSE Open
  <2>1. un.Count = Open.Count
    BY CellTypes DEF TypeOK, Open
  <2>2. UndoArray' = [UndoArray EXCEPT ![UndoActual] = un]
    BY <1>1 DEF UndoOneAction
  <2> HIDE DEF un
  <2> QED
    BY <2>1, <2>2 DEF TypeOK, Open, Count
<1>5. snap' = snap /\ ~dirty'
  BY <1>1, <1>3, WatchNothing DEF group, NoCommand, Grouped
<1>6. \A i \in 1 .. UndoTop : i \in Cells /\ (i > 1 => i - 1 \in Cells)
  BY <1>2, MaxUndoAssumption DEF Cells
<1>7. Flat'
  BY <1>2, <1>3 DEF Flat, TypeOK
<1>8. Chained'
  <2> SUFFICES ASSUME NEW i \in 1 .. UndoTop
               PROVE  \/ UndoArray'[i].Count = 0 /\ snap'[i].first
                      \/ UndoArray'[i].Count = 1 /\ i > 1 /\ UndoArray'[i - 1].Count = 0
    BY <1>3 DEF Chained, Count
  <2> QED
    BY <1>4, <1>5, <1>6 DEF Chained
<1>9. undoGroupCount = 0 /\ undoGroupCount' = 0 /\ undoLockCount' = 0 /\ leaked' = 0
  BY <1>1, <1>3 DEF GroupAtRest, Grouped, group
<1>10. Grouped'
  BY <1>5, <1>9 DEF Grouped
<1>11. Redoings'
  BY <1>1, <1>3 DEF Redoings
<1>12. undoing' = IF Count(UndoActual) = 1 THEN 1 ELSE 0
  <2>1. UndoActual \in 1 .. UndoTop
    BY <1>2
  <2>2. CASE Undo
    <3>1. undoing' = Count(UndoActual)
      BY <2>2 DEF Undo, MoreCalls, Open, Count
    <3> QED
      BY <2>1, <3>1 DEF Chained
  <2>3. CASE UndoMore
    <3>1. undoing' = undoing - 1 /\ undoing = 1 /\ Count(UndoActual) = 0
      BY <2>3 DEF UndoMore, Undoings
    <3> QED
      BY <3>1
  <2> QED
    BY <2>2, <2>3 DEF UndoNext
<1>13. Undoings'
  <2>1. CASE Count(UndoActual) = 1
    <3>1. UndoActual > 1 /\ Count(UndoActual - 1) = 0 /\ UndoActual - 1 \in Cells
      BY <1>2, <1>6, <2>1 DEF Chained
    <3>2. UndoActual' >= 1 /\ UndoArray'[UndoActual'].Count = 0
      BY <1>2, <1>3, <1>4, <3>1
    <3> QED
      BY <1>1, <1>3, <1>9, <1>12, <2>1, <3>2 DEF Undoings, Count
  <2>2. CASE Count(UndoActual) # 1
    BY <1>12, <2>2 DEF Undoings
  <2> QED
    BY <2>1, <2>2
<1>14. Rests'
  <2> SUFFICES ASSUME undoing' = 0
               PROVE  UndoArray'[UndoActual' + 1].Count = 0
    BY DEF Rests, Idle, Count
  <2>1. Count(UndoActual) = 0
    BY <1>2, <1>12 DEF Chained
  <2>2. UndoActual' + 1 = UndoActual
    BY <1>2, <1>3
  <2> QED
    BY <1>2, <1>4, <2>1, <2>2
<1> QED
  BY <1>7, <1>8, <1>10, <1>11, <1>13, <1>14

LEMMA ShortSequences ==
  ASSUME NEW x \in Nat, NEW y \in Nat
  PROVE  /\ Append(<<x>>, y) = <<x, y>>
         /\ SubSeq(<<x, y>>, 1, Len(<<x, y>>) - 1) = <<x>>
         /\ <<x>> # <<>> /\ <<x, y>> # <<>>
<1>1. <<x, y>> \in Seq(Nat) /\ Len(<<x, y>>) = 2 /\ <<x, y>>[1] = x
  OBVIOUS
<1>2. Append(<<x>>, y) = <<x, y>>
  <2> DEFINE s == Append(<<x>>, y)
             t == <<x, y>>
  <2>1. s \in Seq(Nat) /\ Len(s) = 2 /\ s[1] = x /\ s[2] = y
    OBVIOUS
  <2>2. t \in Seq(Nat) /\ Len(t) = 2 /\ t[1] = x /\ t[2] = y
    OBVIOUS
  <2> HIDE DEF s, t
  <2>3. Len(s) = Len(t) /\ \A i \in 1 .. Len(s) : s[i] = t[i]
    BY <2>1, <2>2
  <2> QED
    BY <2>1, <2>2, <2>3, SeqEqual DEF s, t
<1>4. <<x>> # <<>> /\ <<x, y>> # <<>>
  <2>1. Len(<<x>>) = 1 /\ Len(<<x, y>>) = 2 /\ Len(<<>>) = 0
    OBVIOUS
  <2> QED
    BY <2>1
<1>3. SubSeq(<<x, y>>, 1, 1) = <<x>>
  <2> DEFINE s == SubSeq(<<x, y>>, 1, 1)
  <2>1. s \in Seq(Nat) /\ Len(s) = 1 /\ s[1] = x
    BY <1>1
  <2>2. <<x>> \in Seq(Nat) /\ Len(<<x>>) = 1 /\ <<x>>[1] = x
    OBVIOUS
  <2> HIDE DEF s
  <2>3. Len(s) = Len(<<x>>) /\ \A i \in 1 .. Len(s) : s[i] = <<x>>[i]
    BY <2>1, <2>2
  <2> QED
    BY <2>1, <2>2, <2>3, SeqEqual DEF s
<1> QED
  BY <1>1, <1>2, <1>3, <1>4

(* redo(), a cell up, or back to the call that waits. *)
LEMMA RedoCommands ==
  ASSUME CInv, TypeOK', RedoNext, Watch
  PROVE  /\ Commands'
         /\ redoing # <<>> /\ UndoActual' # UndoActual => UndoArray[UndoActual'].Count # 0
<1> USE DEF CInv, IInv, Commands
<1>1. /\ UndoActual \in Nat /\ UndoTop \in Nat /\ UndoTop \in Cells /\ MAX_UNDO \in Nat
      /\ UndoTop < MAX_UNDO
  BY MaxUndoAssumption DEF TypeOK, Cells
<1>2. UNCHANGED <<UndoArray, UndoBase, UndoTop, group, undoing, edits>>
  BY DEF RedoNext, Redo, RedoMore, RedoReturn, RedoOneAction, RedoFrame, ring
<1>3. undoLockCount = 0 /\ undoing = 0 /\ UndoActual < UndoTop
  <2>1. CASE Redo
    BY <1>1, <2>1 DEF Redo, Idle, Flat, NoCommand, Grouped
  <2>2. CASE RedoMore \/ RedoReturn
    BY <2>2 DEF RedoMore, RedoReturn, Redoings
  <2> QED
    BY <2>1, <2>2 DEF RedoNext
<1>4. UndoActual' = UndoActual \/ UndoActual' = UndoActual + 1
  <2>1. IncWithWrap(UndoActual) = UndoActual + 1
    BY <1>1, <1>3 DEF IncWithWrap, Cells
  <2> QED
    BY <2>1 DEF RedoNext, Redo, RedoMore, RedoReturn, RedoOneAction, ring
<1>5. \A i \in 1 .. UndoTop : i \in Cells /\ i \in Nat
  BY <1>1 DEF Cells
<1>6. Flat'
  BY <1>1, <1>2, <1>3, <1>4 DEF Flat
<1>7. ~dirty'
  BY <1>2, <1>3, WatchNothing DEF group, NoCommand, Grouped
<1>8. undoGroupCount' = 0 /\ undoLockCount' = 0 /\ leaked' = 0 /\ undoing' = 0
  BY <1>2, <1>3 DEF GroupAtRest, Grouped, group
<1>9. Grouped' /\ Undoings'
  BY <1>7, <1>8 DEF Grouped, Undoings
<1>10. Chained'
  <2>1. \A i \in Cells : snap'[i].first = snap[i].first
    <3>1. CASE UndoSt' = undoNoUndo
      BY <3>1, WatchNothing
    <3>2. CASE UndoSt' # undoNoUndo
      <4>1. UndoActual' = UndoActual
        BY <3>2 DEF RedoNext, Redo, RedoMore, RedoReturn, RedoOneAction, CloseCell, ring
      <4> QED
        BY <4>1, WatchFirst
    <3> QED
      BY <3>1, <3>2
  <2> SUFFICES ASSUME NEW i \in 1 .. UndoTop
               PROVE  \/ UndoArray[i].Count = 0 /\ snap'[i].first
                      \/ UndoArray[i].Count = 1 /\ i > 1 /\ UndoArray[i - 1].Count = 0
    BY <1>2 DEF Chained, Count
  <2> QED
    BY <1>5, <2>1 DEF Chained, Count
<1>11. ASSUME UndoActual' = UndoActual + 1, UndoActual' # UndoTop
       PROVE  UndoActual' < UndoTop /\ IncWithWrap(UndoActual') = UndoActual' + 1
  <2>1. UndoActual' < UndoTop /\ UndoActual' \in Nat
    BY <1>1, <1>3, <1>11
  <2>2. \A i \in Nat : i < UndoTop => IncWithWrap(i) = i + 1
    BY <1>1 DEF IncWithWrap
  <2> QED
    BY <2>1, <2>2
<1>12. CASE Redo
  <2>1. /\ UndoActual' = UndoActual + 1 /\ redoing = <<>>
        /\ redoing' = IF UndoActual' = UndoTop THEN <<>> ELSE <<IncWithWrap(UndoActual')>>
    <3>1. IncWithWrap(UndoActual) = UndoActual + 1
      BY <1>1, <1>3 DEF IncWithWrap, Cells
    <3>2. redoing = <<>> /\ Append(redoing, IncWithWrap(UndoActual')) = <<IncWithWrap(UndoActual')>>
      BY <1>12 DEF Redo, Idle
    <3> QED
      BY <1>2, <1>12, <3>1, <3>2 DEF Redo, RedoOneAction, EnterLoop
  <2>2. CASE UndoActual' = UndoTop
    <3>1. redoing' = <<>> /\ UndoActual' = UndoTop'
      BY <1>2, <2>1, <2>2
    <3>2. Redoings' /\ Rests'
      BY <1>1, <1>2, <3>1 DEF Redoings, Rests
    <3> QED
      BY <1>6, <1>9, <1>10, <2>1, <3>2
  <2>3. CASE UndoActual' # UndoTop
    <3>1. redoing' = <<UndoActual' + 1>> /\ UndoActual' < UndoTop' /\ redoing' # <<>>
      BY <1>2, <1>11, <2>1, <2>3
    <3>2. Redoings'
      BY <1>8, <3>1 DEF Redoings
    <3>3. Rests'
      BY <3>1 DEF Rests, Idle
    <3> QED
      BY <1>6, <1>9, <1>10, <2>1, <3>2, <3>3
  <2> QED
    BY <2>2, <2>3
<1>13. CASE RedoMore
  <2>1. redoing # <<>> /\ Count(Aux) # 0
    BY <1>13 DEF RedoMore, InChain, Count
  <2>2. Count(UndoActual + 1) = 0 \/ (Count(UndoActual + 1) = 1 /\ Count(UndoActual) = 0)
    <3>1. PICK i \in 1 .. UndoTop : i = UndoActual + 1 /\ i - 1 = UndoActual
      BY <1>1, <1>3
    <3>2. Count(i) = 0 \/ (Count(i) = 1 /\ Count(i - 1) = 0)
      BY DEF Chained
    <3> QED
      BY <3>1, <3>2
  <2>3. redoing = <<UndoActual + 1>> /\ Count(UndoActual + 1) = 1
    <3>1. CASE redoing = <<UndoActual + 1>>
      <4>1. Aux = UndoActual + 1
        BY <3>1 DEF Aux
      <4> QED
        BY <2>1, <2>2, <3>1, <4>1
    <3>2. CASE redoing = <<UndoActual, UndoActual + 1>> /\ UndoActual >= 1 /\ Count(UndoActual) = 1
      <4>1. Aux = UndoActual + 1
        BY <3>2 DEF Aux
      <4> QED
        BY <2>1, <2>2, <3>2, <4>1
    <3> QED
      BY <2>1, <3>1, <3>2 DEF Redoings
  <2>4. /\ UndoActual' = UndoActual + 1
        /\ redoing' = IF UndoActual' = UndoTop THEN <<>>
                      ELSE <<UndoActual + 1, IncWithWrap(UndoActual')>>
    <3>1. IncWithWrap(UndoActual) = UndoActual + 1
      BY <1>1, <1>3 DEF IncWithWrap, Cells
    <3>2. Append(redoing, IncWithWrap(UndoActual')) = <<UndoActual + 1, IncWithWrap(UndoActual')>>
      <4>1. UndoActual + 1 \in Nat /\ IncWithWrap(UndoActual') \in Nat
        BY <1>1, <1>4, MaxUndoAssumption DEF IncWithWrap
      <4> QED
        BY <2>3, <4>1, ShortSequences
    <3> QED
      BY <1>2, <1>13, <3>1, <3>2 DEF RedoMore, RedoOneAction, EnterLoop
  <2>5. UndoArray[UndoActual'].Count # 0
    BY <2>3, <2>4 DEF Count
  <2>6. CASE UndoActual' = UndoTop
    <3>1. redoing' = <<>> /\ UndoActual' = UndoTop'
      BY <1>2, <2>4, <2>6
    <3>2. Redoings' /\ Rests'
      BY <1>1, <1>2, <3>1 DEF Redoings, Rests
    <3> QED
      BY <1>6, <1>9, <1>10, <2>5, <3>2
  <2>7. CASE UndoActual' # UndoTop
    <3>1. redoing' = <<UndoActual', UndoActual' + 1>> /\ UndoActual' < UndoTop' /\ UndoActual' >= 1
      BY <1>1, <1>2, <1>11, <2>4, <2>7
    <3>2. UndoArray'[UndoActual'].Count = 1
      BY <1>2, <2>3, <2>4 DEF Count
    <3>3. redoing' # <<>>
      BY <3>1
    <3>4. Redoings'
      BY <1>8, <3>1, <3>2 DEF Redoings, Count
    <3>5. Rests'
      BY <3>3 DEF Rests, Idle
    <3> QED
      BY <1>6, <1>9, <1>10, <2>5, <3>4, <3>5
  <2> QED
    BY <2>6, <2>7
<1>14. CASE RedoReturn
  <2>1. redoing # <<>> /\ Count(Aux) = 0 /\ UndoActual' = UndoActual
    BY <1>14 DEF RedoReturn, InChain, Count, ring
  <2>2. CASE redoing = <<UndoActual + 1>>
    <3>1. Aux = UndoActual + 1 /\ SubSeq(redoing, 1, Len(redoing) - 1) = <<>>
      BY <2>2 DEF Aux
    <3>2. redoing' = <<>>
      BY <1>14, <3>1 DEF RedoReturn
    <3>3. UndoArray'[UndoActual' + 1].Count = 0
      BY <1>2, <2>1, <3>1 DEF Count
    <3>4. Redoings' /\ Rests'
      BY <3>2, <3>3 DEF Redoings, Rests, Count
    <3> QED
      BY <1>6, <1>9, <1>10, <2>1, <3>4
  <2>3. CASE redoing = <<UndoActual, UndoActual + 1>> /\ UndoActual >= 1 /\ Count(UndoActual) = 1
    <3>1. SubSeq(redoing, 1, Len(redoing) - 1) = <<UndoActual>>
      <4>1. UndoActual + 1 \in Nat
        BY <1>1
      <4> QED
        BY <1>1, <2>3, <4>1, ShortSequences
    <3>2. IncWithWrap(UndoActual) = UndoActual + 1
      BY <1>1, <1>3 DEF IncWithWrap, Cells
    <3>3. redoing' = <<UndoActual + 1>>
      <4>1. <<UndoActual>> # <<>> /\ Len(<<UndoActual>>) = 1
        OBVIOUS
      <4>2. redoing' = [<<UndoActual>> EXCEPT ![1] = IncWithWrap(@)]
        BY <1>14, <3>1, <4>1 DEF RedoReturn
      <4> QED
        BY <3>2, <4>2
    <3>4. redoing' # <<>>
      BY <3>3
    <3>5. Redoings' /\ Rests'
      BY <1>2, <1>3, <1>8, <2>1, <3>3, <3>4 DEF Redoings, Rests, Idle
    <3> QED
      BY <1>6, <1>9, <1>10, <2>1, <3>5
  <2> QED
    BY <2>1, <2>2, <2>3 DEF Redoings
<1> QED
  BY <1>12, <1>13, <1>14 DEF RedoNext

(* What happens to the whole buffer. *)
LEMMA WholeCommands ==
  ASSUME CInv, TypeOK', Whole, Watch
  PROVE  Commands'
<1> USE DEF CInv, IInv, Commands
<1>1. /\ Idle /\ UNCHANGED <<loops, edits>> /\ undoLockCount = 0 /\ undoLockCount' = 0
      /\ leaked' = 0 /\ undoGroupCount' = 0
  <2>1. leaked = 0 /\ (NoCommand => undoLockCount = 0)
    BY DEF Grouped, NoCommand
  <2>2. /\ Idle /\ NoCommand /\ UNCHANGED <<loops, edits>>
        /\ UNCHANGED group \/ (undoLockCount' = 0 /\ undoGroupCount' = 0 /\ leaked' = 0)
    BY DEF Whole, RemapCodePageBuffer, ReLoadFile, SaveFile, ToggleMoveOnPaste
  <2> QED
    BY <2>1, <2>2 DEF group, GroupAtRest
<1>3. ~dirty'
  BY <1>1, WatchNothing DEF NoCommand
<1>4. Grouped' /\ Undoings' /\ Redoings'
  BY <1>1, <1>3 DEF Grouped, Undoings, Redoings, Idle, loops
<1>5. CASE UndoBase' = 0 /\ UndoActual' = 0 /\ UndoTop' = 0
  <2>1. Flat' /\ Rests'
    BY <1>1, <1>5 DEF Flat, Rests, TypeOK
  <2>2. Chained'
    BY <1>5 DEF Chained
  <2> QED
    BY <1>4, <2>1, <2>2
<1>6. CASE \E f \in [Chars -> Chars] : RemapCodePageBuffer(f)
  <2>1. UndoBase' = 0 /\ UndoActual' = 0 /\ UndoTop' = 0
    BY <1>6 DEF RemapCodePageBuffer, FlushUndoInfo, Flat
  <2> QED
    BY <1>5, <2>1
<1>7. CASE ReLoadFile
  BY <1>5, <1>7 DEF ReLoadFile
<1>8. CASE SaveFile \/ ToggleMoveOnPaste
  <2>1. UNCHANGED <<UndoBase, UndoActual, UndoTop>>
    BY <1>8 DEF SaveFile, ToggleMoveOnPaste, ring
  <2>2. \A i \in Cells : UndoArray'[i].Count = Count(i)
    <3>1. CASE SaveFile
      <4>1. \A i \in Cells :
              [UndoArray[i] EXCEPT !.Flags = @ \cup {"undoModified"}].Count = UndoArray[i].Count
        BY DEF TypeOK, UndoCell
      <4> QED
        BY <3>1, <4>1 DEF SaveFile, RevertModifFlagInUndo, Count
    <3>2. CASE ToggleMoveOnPaste
      BY <3>2 DEF ToggleMoveOnPaste, ring, Count
    <3> QED
      BY <1>8, <3>1, <3>2
  <2>3. Flat' /\ Chained' /\ Rests'
    BY <1>1, <2>1, <2>2, SameRingCommands
  <2> QED
    BY <1>4, <2>3
<1> QED
  BY <1>6, <1>7, <1>8 DEF Whole

LEMMA InitCInv == HInit => CInv
<1> SUFFICES ASSUME HInit PROVE CInv
  OBVIOUS
<1>1. IInv /\ TypeOK
  BY InitIInv DEF HInit, IInv
<1>2. doc \in Docs
  BY <1>1, DocTypes
<1>3. MemoryOK
  BY <1>2 DEF HInit, MemoryOK
<1>4. Commands
  BY BoundsAssumption DEF HInit, Init, Commands, Flat, Chained, Grouped, Undoings, Redoings, Rests
<1> QED
  BY <1>1, <1>3, <1>4 DEF CInv

LEMMA NextCInv ==
  ASSUME NeverFull, ShortCommands, CInv, [HNext]_hvars
  PROVE  CInv'
<1>1. CASE UNCHANGED hvars
  BY <1>1 DEF hvars, vars, ring, group, loops, editor, file, CInv, IInv, MemoryOK, Commands,
              Flat, Chained, Grouped, Undoings, Redoings, Rests, Idle, Count, TypeOK,
              RingInOrder, RedoShortOfTop, CellsAccounted, GroupAtRest, InUse, After
<1>2. CASE HNext
  <2>1. IInv' /\ TypeOK' /\ Watch
    BY <1>2, NextIInv DEF HNext, CInv, IInv
  <2>2. MemoryOK'
    BY <2>1, WatchTypes DEF CInv, IInv
  <2>3. Commands'
    BY <1>2, <2>1, <2>2, EditCommands, GroupCommands, UndoCommands, RedoCommands, WholeCommands
       DEF HNext, Next
  <2> QED
    BY <2>1, <2>2, <2>3 DEF CInv
<1> QED
  BY <1>1, <1>2

(* On a ring that does not fill, and with commands of at most two cells    *)
(* that merge nothing, undo() and redo() leave the text between two        *)
(* commands.                                                               *)
THEOREM UndoLandsOnCommand ==
  ASSUME NeverFull, ShortCommands
  PROVE  HSpec => []LandsOnCommand
<1>1. HInit => CInv
  BY InitCInv
<1>2. CInv /\ [HNext]_hvars => CInv'
  BY NextCInv
<1>3. CInv => LandsOnCommand
  <2> SUFFICES ASSUME CInv, Idle, UndoActual # UndoTop
               PROVE  snap[IncWithWrap(UndoActual)].first
    BY DEF LandsOnCommand
  <2>1. UndoActual \in Nat /\ UndoTop \in Cells /\ UndoTop \in Nat /\ MAX_UNDO \in Nat
    BY MaxUndoAssumption DEF CInv, IInv, TypeOK, Cells
  <2>2. UndoActual + 1 \in 1 .. UndoTop /\ IncWithWrap(UndoActual) = UndoActual + 1
        /\ UndoActual < UndoTop
    BY <2>1 DEF CInv, Commands, Flat, IncWithWrap, Cells
  <2>3. Count(UndoActual + 1) = 0
    BY <2>2 DEF CInv, Commands, Rests
  <2> QED
    BY <2>2, <2>3 DEF CInv, Commands, Chained
<1> QED
  BY <1>1, <1>2, <1>3, PTL DEF HSpec

(* There, the calls redo() makes to itself never leave the command the     *)
(* first one began.                                                        *)
THEOREM RedoInChain ==
  ASSUME NeverFull, ShortCommands
  PROVE  HSpec => RedoStaysInChain
<1> DEFINE Stays == redoing # <<>> /\ UndoActual' # UndoActual
                      => UndoArray[UndoActual'].Count # 0
<1>1. HInit => CInv
  BY InitCInv
<1>2. CInv /\ [HNext]_hvars => CInv'
  BY NextCInv
<1>3. CInv /\ [HNext]_hvars => [Stays]_hvars
  <2> SUFFICES ASSUME CInv, HNext, redoing # <<>>, UndoActual' # UndoActual
               PROVE  UndoArray[UndoActual'].Count # 0
    OBVIOUS
  <2>1. CASE RedoNext
    <3>1. TypeOK' /\ Watch
      BY NextIInv DEF HNext, CInv, IInv
    <3> QED
      BY <2>1, <3>1, RedoCommands
  <2>2. CASE Edit
    BY <2>2, EditShapes DEF CInv, IInv, EditShape, MayEdit, Idle
  <2>3. CASE UndoNext
    BY <2>3 DEF UndoNext, Undo, UndoMore, Idle, CInv, Commands, Undoings
  <2>4. CASE Group \/ Whole
    BY <2>4 DEF Group, LockUndo, UnlockUndo, OvrPutCharNoRoom, MayEdit, Whole, RemapCodePageBuffer, ReLoadFile, SaveFile,
                ToggleMoveOnPaste, Idle
  <2> QED
    BY <2>1, <2>2, <2>3, <2>4 DEF HNext, Next
<1> QED
  BY <1>1, <1>2, <1>3, PTL DEF HSpec, RedoStaysInChain

(***************************************************************************)
(* The refinement: the ring of cells implements LinearHistory.  The        *)
(* argument has four parts.                                                *)
(*                                                                         *)
(* - A cell Records how to get from one document to the next: the line is  *)
(*   one text before and after the cursor, the cell holds what came in     *)
(*   between or went away.  undo() and redo() of such a cell are the way   *)
(*   back and the way forth (UndoesRecord, RedoesRecord).                  *)
(* - Every handler that edits the line pushes a cell that records what it  *)
(*   did, or adds it to the open cell (EditRecords).  DelStart,            *)
(*   SelRectHide and ToggleMoveOnPaste do not; Invertible leaves them out. *)
(* - HInv: every cell in use records the step between the documents that   *)
(*   UndoHistory remembers of it, one cell ends where the next begins, and *)
(*   the document now lies between the cell to undo and the cell to redo.  *)
(* - The cells up to UndoActual are the past of LinearHistory, those above *)
(*   are its future; every step moves between the two, or forgets.         *)
(***************************************************************************)

-----------------------------------------------------------------------------
(***************************************************************************)
(* Texts cut in two or three: what the operators of LineText make of the   *)
(* concatenation of the part before the cursor and the part after it.      *)
(***************************************************************************)
LEMMA ConcatFacts ==
  ASSUME NEW a \in Seq(Chars), NEW m \in Seq(Chars), NEW b \in Seq(Chars)
  PROVE  /\ a \o m \in Seq(Chars) /\ Len(a \o m) = Len(a) + Len(m)
         /\ a \o m \o b \in Seq(Chars) /\ Len(a \o m \o b) = Len(a) + Len(m) + Len(b)
         /\ (a \o m) \o b = a \o (m \o b)
         /\ a \o <<>> = a /\ <<>> \o a = a
         /\ \A k \in 1 .. Len(a) : (a \o m)[k] = a[k]
         /\ \A k \in 1 .. Len(m) : (a \o m)[Len(a) + k] = m[k]
<1>1. /\ a \o m \in Seq(Chars) /\ Len(a \o m) = Len(a) + Len(m)
      /\ \A k \in 1 .. Len(a) : (a \o m)[k] = a[k]
      /\ \A k \in 1 .. Len(m) : (a \o m)[Len(a) + k] = m[k]
  OBVIOUS
<1>2. a \o m \o b \in Seq(Chars) /\ Len(a \o m \o b) = Len(a) + Len(m) + Len(b)
  BY <1>1
<1>3. (a \o m) \o b = a \o (m \o b)
  BY ConcatAssociative
<1>4. a \o <<>> = a /\ <<>> \o a = a
  BY ConcatEmptySeq
<1> QED
  BY <1>1, <1>2, <1>3, <1>4

LEMMA ClipInside ==
  ASSUME NEW t \in Seq(Chars), NEW p \in 0 .. Len(t)
  PROVE  ClipTo(t, p) = p
BY DEF ClipTo, Least, Largest

LEMMA ClipBeyond ==
  ASSUME NEW t \in Seq(Chars), NEW p \in Nat, p >= Len(t)
  PROVE  ClipTo(t, p) = Len(t)
BY DEF ClipTo, Least, Largest

(* The middle of a text, whatever is asked beyond its end.                 *)
LEMMA PieceOfMiddle ==
  ASSUME NEW a \in Seq(Chars), NEW m \in Seq(Chars), NEW b \in Seq(Chars), NEW e \in Nat,
         e = Len(a) + Len(m) \/ (Len(b) = 0 /\ e >= Len(a) + Len(m))
  PROVE  Piece(a \o m \o b, Len(a), e) = m
<1> DEFINE t == a \o m \o b
<1>1. /\ t \in Seq(Chars) /\ Len(t) = Len(a) + Len(m) + Len(b)
      /\ a \o m \in Seq(Chars) /\ Len(a \o m) = Len(a) + Len(m)
      /\ Len(a) \in Nat /\ Len(m) \in Nat /\ Len(b) \in Nat
  BY ConcatFacts
<1>2. \A k \in 1 .. Len(m) : t[Len(a) + k] = m[k]
  <2> TAKE k \in 1 .. Len(m)
  <2>1. (a \o m)[Len(a) + k] = m[k]
    BY ConcatFacts
  <2>2. Len(a) + k \in 1 .. Len(a \o m)
    BY <1>1
  <2>3. t[Len(a) + k] = (a \o m)[Len(a) + k]
    BY <1>1, <2>2, ConcatFacts
  <2> QED
    BY <2>1, <2>3
<1> HIDE DEF t
<1>3. ClipTo(t, Len(a)) = Len(a)
  <2>1. Len(a) \in 0 .. Len(t)
    BY <1>1
  <2> QED
    BY <1>1, <2>1, ClipInside
<1>4. ClipTo(t, e) = Len(a) + Len(m)
  <2>1. CASE e = Len(a) + Len(m)
    <3>1. e \in 0 .. Len(t)
      BY <1>1, <2>1
    <3> QED
      BY <1>1, <2>1, <3>1, ClipInside
  <2>2. CASE Len(b) = 0 /\ e >= Len(a) + Len(m)
    <3>1. Len(t) = Len(a) + Len(m) /\ e >= Len(t)
      BY <1>1, <2>2
    <3> QED
      BY <1>1, <3>1, ClipBeyond
  <2> QED
    BY <2>1, <2>2
<1>5. Largest(0, Len(a) + Len(m) - Len(a)) = Len(m)
  BY <1>1 DEF Largest
<1>6. Piece(t, Len(a), e) = [k \in 1 .. Len(m) |-> t[Len(a) + k]]
  BY <1>3, <1>4, <1>5 DEF Piece
<1>7. Piece(t, Len(a), e) = [k \in 1 .. Len(m) |-> m[k]]
  BY <1>2, <1>6
<1>8. m = [k \in 1 .. Len(m) |-> m[k]]
  OBVIOUS
<1> QED
  BY <1>7, <1>8 DEF t

LEMMA PieceOfEnds ==
  ASSUME NEW a \in Seq(Chars), NEW b \in Seq(Chars)
  PROVE  /\ Piece(a \o b, 0, Len(a)) = a
         /\ Piece(a \o b, Len(a), Len(a \o b)) = b
         /\ \A e \in Nat : e >= Len(a) => Piece(a, 0, e) = a
         /\ \A e \in Nat : e >= Len(a) => Piece(a, e, Len(a)) = <<>>
<1> DEFINE z == <<>>
<1>0. z \in Seq(Chars) /\ Len(z) = 0 /\ Len(a) \in Nat /\ Len(b) \in Nat
  OBVIOUS
<1>2. z \o a = a /\ a \o z = a /\ a \o b \in Seq(Chars) /\ (a \o b) \o z = a \o b
  BY ConcatFacts
<1> HIDE DEF z
<1>3. Len(a \o b) = Len(a) + Len(b)
  BY ConcatFacts
<1>4. Piece(a \o b, 0, Len(a)) = a
  <2>1. Len(a) = Len(z) + Len(a)
    BY <1>0
  <2>2. Piece(z \o a \o b, Len(z), Len(a)) = a
    BY <1>0, <2>1, PieceOfMiddle
  <2> QED
    BY <1>0, <1>2, <2>2
<1>5. Piece(a \o b, Len(a), Len(a \o b)) = b
  <2>1. Len(a) + Len(b) \in Nat
    BY <1>0
  <2>2. Piece(a \o b \o z, Len(a), Len(a) + Len(b)) = b
    BY <1>0, <2>1, PieceOfMiddle
  <2> QED
    BY <1>2, <1>3, <2>2
<1>6. ASSUME NEW e \in Nat, e >= Len(a)
      PROVE  Piece(a, 0, e) = a /\ Piece(a, e, Len(a)) = <<>>
  <2>1. Piece(a, 0, e) = a
    <3>1. e >= Len(z) + Len(a)
      BY <1>0, <1>6
    <3>2. Piece(z \o a \o z, Len(z), e) = a
      BY <1>0, <3>1, PieceOfMiddle
    <3> QED
      BY <1>0, <1>2, <3>2
  <2>2. ClipTo(a, e) = Len(a) /\ ClipTo(a, Len(a)) = Len(a)
    BY <1>0, <1>6, ClipBeyond
  <2>3. Piece(a, e, Len(a)) = [k \in 1 .. Largest(0, Len(a) - Len(a)) |-> a[Len(a) + k]]
    BY <2>2 DEF Piece
  <2>4. 1 .. Largest(0, Len(a) - Len(a)) = {}
    BY <1>0 DEF Largest
  <2>5. Piece(a, e, Len(a)) = <<>>
    BY <2>3, <2>4
  <2> QED
    BY <2>1, <2>5
<1> QED
  BY <1>4, <1>5, <1>6

(* Every text is what is before a place and what is after it.              *)
LEMMA SplitAt ==
  ASSUME NEW t \in Seq(Chars), NEW p \in 0 .. Len(t)
  PROVE  \E a, b \in Seq(Chars) : t = a \o b /\ Len(a) = p
<1> DEFINE a == SubSeq(t, 1, p)
           b == SubSeq(t, p + 1, Len(t))
<1>1. a \in Seq(Chars) /\ b \in Seq(Chars) /\ Len(a) = p
  OBVIOUS
<1>2. Len(b) = Len(t) - p /\ \A k \in 1 .. Len(b) : b[k] = t[p + k]
  OBVIOUS
<1>3. \A k \in 1 .. p : a[k] = t[k]
  OBVIOUS
<1> HIDE DEF a, b
<1>4. a \o b \in Seq(Chars) /\ Len(a \o b) = Len(t)
  BY <1>1, <1>2, ConcatProperties
<1>5. \A k \in 1 .. Len(t) : (a \o b)[k] = t[k]
  <2> TAKE k \in 1 .. Len(t)
  <2>1. (a \o b)[k] = IF k <= Len(a) THEN a[k] ELSE b[k - Len(a)]
    BY <1>1, <1>2, ConcatProperties
  <2>2. CASE k <= p
    BY <1>1, <1>3, <2>1, <2>2
  <2>3. CASE ~(k <= p)
    <3>1. k - p \in 1 .. Len(b) /\ p + (k - p) = k
      BY <1>2, <2>3
    <3> QED
      BY <1>1, <1>2, <2>1, <2>3, <3>1
  <2> QED
    BY <2>2, <2>3
<1>6. t = a \o b
  BY <1>4, <1>5, SeqEqual
<1> QED
  BY <1>1, <1>6

LEMMA SplitAtTwo ==
  ASSUME NEW t \in Seq(Chars), NEW p \in Nat, NEW q \in Nat, p <= q, q <= Len(t)
  PROVE  \E a, m, b \in Seq(Chars) : t = a \o m \o b /\ Len(a) = p /\ Len(m) = q - p
<1>0. Len(t) \in Nat /\ q \in 0 .. Len(t)
  OBVIOUS
<1>1. PICK h \in Seq(Chars), b \in Seq(Chars) : t = h \o b /\ Len(h) = q
  BY <1>0, SplitAt
<1>4. p \in 0 .. Len(h)
  BY <1>1
<1>2. PICK a \in Seq(Chars), m \in Seq(Chars) : h = a \o m /\ Len(a) = p
  BY <1>1, <1>4, SplitAt
<1>3. Len(m) = q - p
  <2>1. Len(a \o m) = Len(a) + Len(m) /\ Len(m) \in Nat
    OBVIOUS
  <2> QED
    BY <1>1, <1>2, <2>1
<1> QED
  BY <1>1, <1>2, <1>3

LEMMA InsertBetween ==
  ASSUME NEW a \in Seq(Chars), NEW b \in Seq(Chars), NEW s \in Seq(Chars)
  PROVE  InsertAt(a \o b, Len(a), s) = a \o s \o b
BY PieceOfEnds DEF InsertAt

LEMMA DeleteMiddle ==
  ASSUME NEW a \in Seq(Chars), NEW s \in Seq(Chars), NEW b \in Seq(Chars)
  PROVE  DeleteRange(a \o s \o b, Len(a), Len(a) + Len(s)) = a \o b
<1>1. /\ a \o s \in Seq(Chars) /\ Len(a \o s) = Len(a) + Len(s) /\ s \o b \in Seq(Chars)
      /\ a \o s \o b = a \o (s \o b) /\ Len(a) \in Nat /\ Len(s) \in Nat
  BY ConcatFacts
<1>2. CASE Len(s) = 0
  <2>1. s = <<>> /\ a \o s = a
    BY <1>2, ConcatFacts
  <2> QED
    BY <1>1, <1>2, <2>1 DEF DeleteRange
<1>3. CASE Len(s) # 0
  <2>1. Piece(a \o (s \o b), 0, Len(a)) = a
    BY <1>1, PieceOfEnds
  <2>2. Piece((a \o s) \o b, Len(a \o s), Len((a \o s) \o b)) = b
    <3> DEFINE h == a \o s
    <3>1. h \in Seq(Chars)
      BY <1>1
    <3> HIDE DEF h
    <3>2. Piece(h \o b, Len(h), Len(h \o b)) = b
      BY <3>1, PieceOfEnds
    <3> QED
      BY <3>2 DEF h
  <2>3. ~(Len(a) >= Len(a) + Len(s))
    BY <1>1, <1>3
  <2> QED
    BY <1>1, <2>1, <2>2, <2>3 DEF DeleteRange
<1> QED
  BY <1>2, <1>3

(* The text overwritten is as long as the one that is written, or it ends  *)
(* with the line.                                                          *)
Gives(a, m, b, s) ==
  /\ a \in Seq(Chars) /\ m \in Seq(Chars) /\ b \in Seq(Chars) /\ s \in Seq(Chars)
  /\ Len(m) = Len(s) \/ (Len(b) = 0 /\ Len(m) <= Len(s))

Given(a, m, b, s) ==
  /\ OverwriteAt(a \o m \o b, Len(a), s) = a \o s \o b
  /\ Piece(a \o m \o b, Len(a), Len(a) + Len(s)) = m

LEMMA ReplaceMiddle ==
  ASSUME NEW a, NEW m, NEW b, NEW s, Gives(a, m, b, s)
  PROVE  Given(a, m, b, s)
<1>a. /\ a \in Seq(Chars) /\ m \in Seq(Chars) /\ b \in Seq(Chars) /\ s \in Seq(Chars)
      /\ Len(m) = Len(s) \/ (Len(b) = 0 /\ Len(m) <= Len(s))
  BY DEF Gives
<1> USE <1>a
<1>1. /\ a \o m \in Seq(Chars) /\ Len(a \o m) = Len(a) + Len(m) /\ m \o b \in Seq(Chars)
      /\ a \o m \o b = a \o (m \o b)
      /\ Len(a) \in Nat /\ Len(m) \in Nat /\ Len(s) \in Nat
  BY ConcatFacts
<1>0. Len(b) = 0 => a \o m \o b = a \o m
  <2>1. a \o m \o <<>> = a \o m
    BY <1>1, ConcatFacts
  <2> QED
    BY <2>1
<1>2. Piece(a \o (m \o b), 0, Len(a)) = a
  BY <1>1, PieceOfEnds
<1>3. Piece(a \o m \o b, Len(a) + Len(s), Len(a \o m \o b)) = b
  <2>1. CASE Len(m) = Len(s)
    <3> DEFINE h == a \o m
    <3>1. h \in Seq(Chars) /\ Len(h) = Len(a) + Len(s)
      BY <1>1, <2>1
    <3> HIDE DEF h
    <3>2. Piece(h \o b, Len(h), Len(h \o b)) = b
      BY <3>1, PieceOfEnds
    <3> QED
      BY <3>1, <3>2 DEF h
  <2>2. CASE b = <<>> /\ Len(m) <= Len(s)
    <3> DEFINE h == a \o m
               e == Len(a) + Len(s)
    <3>1. h \in Seq(Chars) /\ e \in Nat /\ e >= Len(h)
      BY <1>1, <2>2
    <3>3. a \o m \o b = h
      BY <1>0, <2>2
    <3> HIDE DEF h, e
    <3>2. Piece(h, e, Len(h)) = <<>>
      BY <3>1, PieceOfEnds
    <3> QED
      BY <2>2, <3>2, <3>3 DEF e
  <2> QED
    BY <2>1, <2>2
<1>4. Piece(a \o m \o b, Len(a), Len(a) + Len(s)) = m
  <2>1. Len(a) + Len(s) \in Nat
    BY <1>1
  <2>2. \/ Len(a) + Len(s) = Len(a) + Len(m)
        \/ Len(b) = 0 /\ Len(a) + Len(s) >= Len(a) + Len(m)
    <3>1. Len(m) <= Len(s) => Len(a) + Len(s) >= Len(a) + Len(m)
      BY <1>1
    <3>2. b = <<>> => Len(b) = 0
      OBVIOUS
    <3> QED
      BY <1>1, <3>1, <3>2
  <2> QED
    BY <2>1, <2>2, PieceOfMiddle
<1> QED
  BY <1>1, <1>2, <1>3, <1>4 DEF OverwriteAt, Given

-----------------------------------------------------------------------------
(***************************************************************************)
(* What a cell says of the edit that made it: c is the cell, p the         *)
(* document before the edit and q the one after it.                        *)
(***************************************************************************)
Moves(c, p, q) == c.Type = "undoInMov" /\ q.text = p.text

Inserts(c, p, q) ==
  /\ c.Type \in {"undoPutChar", "undoInsert"}
  /\ c.Length = Len(c.s)
  /\ \E a, b \in Seq(Chars) :
       /\ p.text = a \o b /\ q.text = a \o c.s \o b
       /\ p.cur = Len(a) /\ q.cur = Len(a) + Len(c.s)

Overwrites(c, p, q) ==
  /\ c.Type = "undoOvrPutChar"
  /\ c.Length = Len(c.s)
  /\ \E a, b \in Seq(Chars) :
       /\ p.text = a \o c.s2 \o b /\ q.text = a \o c.s \o b
       /\ p.cur = Len(a) /\ q.cur = Len(a) + Len(c.s)
       /\ Len(c.s2) = Len(c.s) \/ (Len(b) = 0 /\ Len(c.s2) <= Len(c.s))

Deletes(c, p, q) ==
  /\ c.Length = Len(c.s)
  /\ \/ c.Type = "undoDelChar" /\ p.cur = q.cur + Len(c.s)
     \/ c.Type \in {"undoDelCharDel", "undoDelete"} /\ p.cur = q.cur
     \/ c.Type = "undoDeleteBuf" /\ c.OffSet = q.cur
  /\ \E a, b \in Seq(Chars) :
       p.text = a \o c.s \o b /\ q.text = a \o b /\ q.cur = Len(a)

Records(c, p, q) ==
  /\ c.X = p.cur /\ p.cur <= Len(p.text) /\ q.cur <= Len(q.text)
  /\ "undoOverWrite" \in c.Flags <=> p.overwrite
  /\ Moves(c, p, q) \/ Inserts(c, p, q) \/ Overwrites(c, p, q) \/ Deletes(c, p, q)

(* The state at the end of the edit, saved when the cell is closed. *)
Finished(c, q) == c.Xf = q.cur /\ ("undoOverWriteF" \in c.Flags <=> q.overwrite)

LEMMA CellFields ==
  ASSUME NEW c \in UndoCell
  PROVE  /\ c.X \in Nat /\ c.Xf \in Nat /\ c.OffSet \in Nat /\ c.Length \in Nat
         /\ c.s \in Seq(Chars) /\ c.s2 \in Seq(Chars)
         /\ Len(c.s) \in Nat /\ Len(c.s2) \in Nat
BY DEF UndoCell

LEMMA DocFields ==
  ASSUME NEW d \in Docs
  PROVE  d.text \in Seq(Chars) /\ Len(d.text) \in Nat /\ d.cur \in Nat /\ d.overwrite \in BOOLEAN
BY DEF Docs

LEMMA DocIs ==
  /\ doc.text = text /\ doc.cur = cur /\ doc.overwrite = overwrite
  /\ doc'.text = text' /\ doc'.cur = cur' /\ doc'.overwrite = overwrite'
BY DEF doc

(* The whole of a text, asked by its length. *)
LEMMA PieceOfAll ==
  ASSUME NEW s \in Seq(Chars)
  PROVE  Piece(s, 0, Len(s)) = s
<1>1. Len(s) \in Nat /\ Len(s) >= Len(s)
  OBVIOUS
<1> QED
  BY <1>1, PieceOfEnds

(* undo() of what the cell records brings back the line and the cursor. *)
LEMMA UndoesRecord ==
  ASSUME NEW c \in UndoCell, NEW p \in Docs, NEW q \in Docs, Records(c, p, q),
         c.Xf = q.cur, text = q.text, cur = q.cur
  PROVE  /\ Undone(c).text = p.text
         /\ ClipTo(Undone(c).text, Undone(c).cur) = p.cur
<1>1. /\ c.X \in Nat /\ c.Xf \in Nat /\ c.OffSet \in Nat /\ c.Length \in Nat
      /\ c.s \in Seq(Chars) /\ c.s2 \in Seq(Chars) /\ Len(c.s) \in Nat /\ Len(c.s2) \in Nat
  BY CellFields
<1>2. /\ p.text \in Seq(Chars) /\ q.text \in Seq(Chars) /\ p.cur \in Nat /\ q.cur \in Nat
      /\ Len(p.text) \in Nat /\ Len(q.text) \in Nat
  BY DocFields
<1>3. ClipTo(p.text, p.cur) = p.cur /\ c.X = p.cur
  <2>1. p.cur \in 0 .. Len(p.text)
    BY <1>2 DEF Records
  <2> QED
    BY <1>2, <2>1, ClipInside DEF Records
<1>4. Piece(c.s, 0, Len(c.s)) = c.s
  BY <1>1, PieceOfAll
<1>5. CASE Moves(c, p, q)
  <2>1. Undone(c) = [text |-> text, cur |-> ClipTo(text, c.X)]
    BY <1>5 DEF Undone, Moves
  <2> QED
    BY <1>3, <1>5, <2>1 DEF Moves
<1>6. CASE Inserts(c, p, q)
  <2>1. PICK a \in Seq(Chars), b \in Seq(Chars) :
          /\ p.text = a \o b /\ q.text = a \o c.s \o b
          /\ p.cur = Len(a) /\ q.cur = Len(a) + Len(c.s)
    BY <1>6 DEF Inserts
  <2>2. DeleteRange(q.text, Len(a), Len(a) + Len(c.s)) = a \o b
    BY <1>1, <2>1, DeleteMiddle, ZenonT(60)
  <2>3. Len(a) \in Nat /\ cur - c.Length = Len(a) /\ cur = Len(a) + Len(c.s) /\ c.Length = Len(c.s)
    BY <1>1, <1>6, <2>1 DEF Inserts
  <2>4. CASE c.Type = "undoPutChar"
    <3>1. Undone(c) = [text |-> DeleteRange(text, cur - c.Length, cur),
                       cur |-> ClipTo(text, cur - c.Length)]
      BY <2>4 DEF Undone
    <3>2. ClipTo(text, cur - c.Length) = Len(a)
      <4>1. Len(a) \in 0 .. Len(q.text)
        BY <1>1, <1>2, <2>1, <2>3 DEF Records
      <4> QED
        BY <1>2, <2>3, <4>1, ClipInside
    <3>3. DeleteRange(text, cur - c.Length, cur) = a \o b
      BY <2>2, <2>3, Zenon
    <3>4. /\ Undone(c).text = DeleteRange(text, cur - c.Length, cur)
          /\ Undone(c).cur = ClipTo(text, cur - c.Length)
      BY <3>1
    <3>5. Undone(c).text = p.text /\ Undone(c).cur = p.cur
      BY <2>1, <3>2, <3>3, <3>4, Zenon
    <3> QED
      BY <1>3, <3>5
  <2>5. CASE c.Type = "undoInsert"
    <3>1. Undone(c) = [text |-> DeleteRange(text, c.X, c.X + c.Length), cur |-> c.X]
      BY <2>5 DEF Undone
    <3>2. c.X = Len(a)
      BY <1>3, <2>1
    <3>3. DeleteRange(text, c.X, c.X + c.Length) = a \o b
      BY <2>2, <2>3, <3>2, Zenon
    <3>4. Undone(c).text = DeleteRange(text, c.X, c.X + c.Length) /\ Undone(c).cur = c.X
      BY <3>1
    <3>5. Undone(c).text = p.text /\ Undone(c).cur = p.cur
      BY <1>3, <2>1, <3>3, <3>4, Zenon
    <3> QED
      BY <1>3, <3>5
  <2> QED
    BY <1>6, <2>4, <2>5 DEF Inserts
<1>7. CASE Overwrites(c, p, q)
  <2>1. PICK a \in Seq(Chars), b \in Seq(Chars) :
          /\ p.text = a \o c.s2 \o b /\ q.text = a \o c.s \o b
          /\ p.cur = Len(a) /\ q.cur = Len(a) + Len(c.s)
          /\ Len(c.s2) = Len(c.s) \/ (Len(b) = 0 /\ Len(c.s2) <= Len(c.s))
    BY <1>7 DEF Overwrites
  <2>2. Undone(c) = [text |-> Piece(text, 0, c.X) \o Piece(c.s2, 0, c.Length)
                                \o Piece(text, c.X + c.Length, Len(text)),
                     cur |-> c.X]
    BY <1>7 DEF Undone, Overwrites
  <2>3. c.Length = Len(c.s) /\ Len(c.s) >= Len(c.s2)
    BY <1>1, <1>7, <2>1 DEF Overwrites
  <2>4. Piece(c.s2, 0, c.Length) = c.s2
    BY <1>1, <2>3, PieceOfEnds
  <2> DEFINE h == a \o c.s
             t == c.s \o b
  <2>5. /\ h \in Seq(Chars) /\ Len(h) = Len(a) + Len(c.s)
        /\ t \in Seq(Chars) /\ a \o c.s \o b = a \o t
    <3> DEFINE m == c.s
    <3>1. m \in Seq(Chars)
      BY <1>1
    <3> HIDE DEF m
    <3>2. /\ a \o m \in Seq(Chars) /\ Len(a \o m) = Len(a) + Len(m)
          /\ m \o b \in Seq(Chars) /\ a \o m \o b = a \o (m \o b)
      BY <3>1, ConcatFacts
    <3> QED
      BY <3>2, Zenon DEF m
  <2>6. Piece(text, 0, c.X) = a
    <3> HIDE DEF t
    <3>1. Piece(a \o t, 0, Len(a)) = a
      BY <2>5, PieceOfEnds
    <3> QED
      BY <1>3, <2>1, <2>5, <3>1
  <2>7. Piece(text, c.X + c.Length, Len(text)) = b
    <3>1. text = h \o b /\ c.X + c.Length = Len(h)
      BY <1>3, <2>1, <2>3, <2>5
    <3>2. h \in Seq(Chars)
      BY <2>5
    <3> HIDE DEF h
    <3>3. Piece(h \o b, Len(h), Len(h \o b)) = b
      BY <3>2, PieceOfEnds
    <3> QED
      BY <3>1, <3>3, Zenon
  <2>8. /\ Undone(c).text = Piece(text, 0, c.X) \o Piece(c.s2, 0, c.Length)
                             \o Piece(text, c.X + c.Length, Len(text))
        /\ Undone(c).cur = p.cur
    BY <1>3, <2>2
  <2>9. Undone(c).text = p.text
    BY <2>1, <2>4, <2>6, <2>7, <2>8, Zenon
  <2> QED
    BY <1>3, <2>8, <2>9
<1>8. CASE Deletes(c, p, q)
  <2>1. PICK a \in Seq(Chars), b \in Seq(Chars) :
          p.text = a \o c.s \o b /\ q.text = a \o b /\ q.cur = Len(a)
    BY <1>8 DEF Deletes
  <2>2. InsertAt(a \o b, Len(a), c.s) = a \o c.s \o b
    BY <1>1, InsertBetween
  <2>3. Piece(c.s, 0, c.Length) = c.s
    BY <1>4, <1>8 DEF Deletes
  <2>4. CASE c.Type \in {"undoDelChar", "undoDelCharDel"}
    <3>1. Undone(c) = [text |-> InsertAt(text, cur, Piece(c.s, 0, c.Length)), cur |-> c.X]
      BY <2>4 DEF Undone
    <3>2. InsertAt(text, cur, Piece(c.s, 0, c.Length)) = p.text
      BY <2>1, <2>2, <2>3, Zenon
    <3>3. Undone(c).text = p.text /\ Undone(c).cur = p.cur
      BY <1>3, <3>1, <3>2
    <3> QED
      BY <1>3, <3>3
  <2>5. CASE c.Type = "undoDelete"
    <3>1. Undone(c) = [text |-> InsertAt(text, c.Xf, Piece(c.s, 0, c.Length)), cur |-> c.X]
      BY <2>5 DEF Undone
    <3>2. InsertAt(text, c.Xf, Piece(c.s, 0, c.Length)) = p.text
      BY <2>1, <2>2, <2>3, Zenon
    <3>3. Undone(c).text = p.text /\ Undone(c).cur = p.cur
      BY <1>3, <3>1, <3>2
    <3> QED
      BY <1>3, <3>3
  <2>6. CASE c.Type = "undoDeleteBuf"
    <3>1. Undone(c) = [text |-> InsertAt(text, c.OffSet, Piece(c.s, 0, c.Length)), cur |-> c.X]
      BY <2>6 DEF Undone
    <3>2. c.OffSet = q.cur
      BY <1>8, <2>6 DEF Deletes
    <3>3. InsertAt(text, c.OffSet, Piece(c.s, 0, c.Length)) = p.text
      BY <2>1, <2>2, <2>3, <3>2, Zenon
    <3>4. Undone(c).text = p.text /\ Undone(c).cur = p.cur
      BY <1>3, <3>1, <3>3
    <3> QED
      BY <1>3, <3>4
  <2> QED
    BY <1>8, <2>4, <2>5, <2>6 DEF Deletes
<1> QED
  BY <1>5, <1>6, <1>7, <1>8 DEF Records

(* redo() of what the cell records brings forward the line and the cursor. *)
LEMMA RedoesRecord ==
  ASSUME NEW c \in UndoCell, NEW p \in Docs, NEW q \in Docs, Records(c, p, q),
         c.Xf = q.cur, text = p.text, cur = p.cur, noMoveToEnd = FALSE
  PROVE  /\ Redone(c).text = q.text
         /\ ClipTo(Redone(c).text, Redone(c).cur) = q.cur
<1>1. /\ c.X \in Nat /\ c.Xf \in Nat /\ c.OffSet \in Nat /\ c.Length \in Nat
      /\ c.s \in Seq(Chars) /\ c.s2 \in Seq(Chars) /\ Len(c.s) \in Nat /\ Len(c.s2) \in Nat
  BY CellFields
<1>2. /\ p.text \in Seq(Chars) /\ q.text \in Seq(Chars) /\ p.cur \in Nat /\ q.cur \in Nat
      /\ Len(p.text) \in Nat /\ Len(q.text) \in Nat
  BY DocFields
<1>3. ClipTo(text, c.X) = p.cur /\ ClipTo(q.text, q.cur) = q.cur
  <2>1. p.cur \in 0 .. Len(p.text) /\ q.cur \in 0 .. Len(q.text)
    BY <1>2 DEF Records
  <2> QED
    BY <1>2, <2>1, ClipInside DEF Records
<1>4. Piece(c.s, 0, Len(c.s)) = c.s
  BY <1>1, PieceOfAll
<1>5. CASE Moves(c, p, q)
  <2>1. Redone(c) = [text |-> text, cur |-> c.Xf]
    BY <1>5 DEF Redone, Moves
  <2> QED
    BY <1>3, <1>5, <2>1 DEF Moves
<1>6. CASE Inserts(c, p, q)
  <2>1. PICK a \in Seq(Chars), b \in Seq(Chars) :
          /\ p.text = a \o b /\ q.text = a \o c.s \o b
          /\ p.cur = Len(a) /\ q.cur = Len(a) + Len(c.s)
    BY <1>6 DEF Inserts
  <2>2. InsertAt(text, p.cur, c.s) = q.text
    <3>1. InsertAt(a \o b, Len(a), c.s) = a \o c.s \o b
      BY <1>1, InsertBetween
    <3> QED
      BY <2>1, <3>1, Zenon
  <2>3. Piece(c.s, 0, c.Length) = c.s
    BY <1>4, <1>6 DEF Inserts
  <2>4. Reinserted(ClipTo(text, c.X), Piece(c.s, 0, c.Length))
          = [text |-> q.text, cur |-> q.cur]
    BY <1>3, <2>1, <2>2, <2>3 DEF Reinserted
  <2>5. CASE c.Type = "undoPutChar"
    <3>1. Redone(c) = [text |-> q.text, cur |-> q.cur]
      BY <2>4, <2>5 DEF Redone
    <3> QED
      BY <1>3, <3>1
  <2>6. CASE c.Type = "undoInsert"
    <3>1. Redone(c) = [text |-> q.text, cur |-> c.Xf]
      BY <2>4, <2>6 DEF Redone
    <3> QED
      BY <1>3, <3>1
  <2> QED
    BY <1>6, <2>5, <2>6 DEF Inserts
<1>7. CASE Overwrites(c, p, q)
  <2>1. PICK a \in Seq(Chars), b \in Seq(Chars) :
          /\ p.text = a \o c.s2 \o b /\ q.text = a \o c.s \o b
          /\ p.cur = Len(a) /\ q.cur = Len(a) + Len(c.s)
          /\ Len(c.s2) = Len(c.s) \/ (Len(b) = 0 /\ Len(c.s2) <= Len(c.s))
    BY <1>7 DEF Overwrites
  <2>2. OverwriteAt(text, p.cur, c.s) = q.text
    <3> DEFINE m == c.s2
               s == c.s
    <3>1. m \in Seq(Chars) /\ s \in Seq(Chars) /\ Gives(a, m, b, s)
      BY <1>1, <2>1 DEF Gives
    <3> HIDE DEF m, s
    <3>0. Given(a, m, b, s)
      BY <3>1, ReplaceMiddle
    <3>2. OverwriteAt(a \o m \o b, Len(a), s) = a \o s \o b
      BY <3>0, Zenon DEF Given
    <3>3. p.text = a \o m \o b /\ q.text = a \o s \o b
      BY <2>1 DEF m, s
    <3>4. OverwriteAt(text, p.cur, s) = q.text
      BY <2>1, <3>2, <3>3, Zenon
    <3> QED
      BY <3>4 DEF s
  <2>3. Piece(c.s, 0, c.Length) = c.s
    BY <1>4, <1>7 DEF Overwrites
  <2>4. Redone(c) = [text |-> OverwriteAt(text, ClipTo(text, c.X), Piece(c.s, 0, c.Length)),
                     cur |-> ClipTo(text, c.X) + Len(Piece(c.s, 0, c.Length))]
    BY <1>7 DEF Redone, Overwrites
  <2>5. Redone(c) = [text |-> q.text, cur |-> p.cur + Len(c.s)]
    BY <1>3, <2>2, <2>3, <2>4, Zenon
  <2>6. Redone(c).text = q.text /\ Redone(c).cur = q.cur
    BY <2>1, <2>5
  <2> QED
    BY <1>3, <2>6
<1>8. CASE Deletes(c, p, q)
  <2>1. PICK a \in Seq(Chars), b \in Seq(Chars) :
          p.text = a \o c.s \o b /\ q.text = a \o b /\ q.cur = Len(a)
    BY <1>8 DEF Deletes
  <2>2. DeleteRange(text, q.cur, q.cur + c.Length) = q.text
    <3>1. DeleteRange(a \o c.s \o b, Len(a), Len(a) + Len(c.s)) = a \o b
      BY <1>1, DeleteMiddle
    <3>2. c.Length = Len(c.s)
      BY <1>8 DEF Deletes
    <3> QED
      BY <2>1, <3>1, <3>2, Zenon
  <2>3. c.Length = Len(c.s)
    BY <1>8 DEF Deletes
  <2>4. CASE c.Type = "undoDelChar"
    <3>1. Redone(c) = [text |-> DeleteRange(text, cur - c.Length, cur), cur |-> cur - c.Length]
      BY <2>4 DEF Redone
    <3>2. cur - c.Length = q.cur /\ cur = q.cur + c.Length
      BY <1>1, <1>2, <1>8, <2>3, <2>4 DEF Deletes
    <3> QED
      BY <1>3, <2>2, <3>1, <3>2
  <2>5. CASE c.Type = "undoDelCharDel"
    <3>1. Redone(c) = [text |-> DeleteRange(text, cur, cur + c.Length), cur |-> cur]
      BY <2>5 DEF Redone
    <3>2. cur = q.cur
      BY <1>8, <2>5 DEF Deletes
    <3> QED
      BY <1>3, <2>2, <3>1, <3>2
  <2>6. CASE c.Type = "undoDelete"
    <3>1. Redone(c) = [text |-> DeleteRange(text, ClipTo(text, c.X), ClipTo(text, c.X) + c.Length),
                       cur |-> c.Xf]
      BY <2>6 DEF Redone
    <3>2. ClipTo(text, c.X) = q.cur
      BY <1>3, <1>8, <2>6 DEF Deletes
    <3> QED
      BY <1>3, <2>2, <3>1, <3>2
  <2>7. CASE c.Type = "undoDeleteBuf"
    <3>1. Redone(c) = [text |-> DeleteRange(text, c.OffSet, c.OffSet + c.Length), cur |-> c.Xf]
      BY <2>7 DEF Redone
    <3>2. c.OffSet = q.cur
      BY <1>8, <2>7 DEF Deletes
    <3> QED
      BY <1>3, <2>2, <3>1, <3>2
  <2> QED
    BY <1>8, <2>4, <2>5, <2>6, <2>7 DEF Deletes
<1> QED
  BY <1>5, <1>6, <1>7, <1>8 DEF Records

-----------------------------------------------------------------------------
(* One more character at either end of what an open cell holds. *)

LEMMA SeqFacts ==
  ASSUME NEW a \in Seq(Chars), NEW m \in Seq(Chars), NEW b \in Seq(Chars)
  PROVE  /\ a \o m \in Seq(Chars) /\ Len(a \o m) = Len(a) + Len(m)
         /\ m \o b \in Seq(Chars) /\ (a \o m) \o b = a \o (m \o b)
         /\ a \o m \o b \in Seq(Chars) /\ Len(a \o m \o b) = Len(a) + Len(m) + Len(b)
         /\ Len(a) \in Nat /\ Len(m) \in Nat /\ Len(b) \in Nat
BY ConcatFacts

LEMMA Associates ==
  ASSUME NEW a \in Seq(Chars), NEW m \in Seq(Chars), NEW b \in Seq(Chars)
  PROVE  (a \o m) \o b = a \o (m \o b)
BY ConcatFacts

LEMMA OneMore ==
  ASSUME NEW s \in Seq(Chars), NEW c \in Chars
  PROVE  /\ <<c>> \in Seq(Chars) /\ Len(<<c>>) = 1
         /\ Append(s, c) = s \o <<c>> /\ Append(s, c) \in Seq(Chars)
         /\ Len(Append(s, c)) = Len(s) + 1
<1>1. Append(s, c) = s \o <<c>>
  OBVIOUS
<1> QED
  BY <1>1

LEMMA OneCharacter ==
  ASSUME NEW t \in Seq(Chars), Len(t) = 1
  PROVE  \E x \in Chars : t = <<x>>
<1>1. t[1] \in Chars
  <2>1. 1 \in 1 .. Len(t)
    BY SMT
  <2> QED
    BY <2>1, ElementOfSeq
<1> DEFINE u == <<t[1]>>
<1>2. u \in Seq(Chars) /\ Len(u) = Len(t) /\ \A k \in 1 .. Len(t) : t[k] = u[k]
  BY <1>1
<1> HIDE DEF u
<1>3. t = u
  BY <1>2, SeqEqual
<1> QED
  BY <1>1, <1>3 DEF u

LEMMA FirstOf ==
  ASSUME NEW t \in Seq(Chars), Len(t) > 0
  PROVE  \E x \in Chars : \E b \in Seq(Chars) : t = <<x>> \o b
<1>1. 1 \in 0 .. Len(t)
  OBVIOUS
<1>2. PICK y \in Seq(Chars), b \in Seq(Chars) : t = y \o b /\ Len(y) = 1
  BY <1>1, SplitAt
<1>3. PICK x \in Chars : y = <<x>>
  BY <1>2, OneCharacter
<1> QED
  BY <1>2, <1>3

LEMMA LastOf ==
  ASSUME NEW t \in Seq(Chars), Len(t) > 0
  PROVE  \E x \in Chars : \E a \in Seq(Chars) : t = a \o <<x>> /\ Len(t) = Len(a) + 1
<1> DEFINE k == Len(t) - 1
<1>1. k \in 0 .. Len(t) /\ Len(t) = k + 1 /\ k \in Nat
  OBVIOUS
<1> HIDE DEF k
<1>2. PICK a \in Seq(Chars), b \in Seq(Chars) : t = a \o b /\ Len(a) = k
  BY <1>1, SplitAt
<1>3. Len(a \o b) = Len(a) + Len(b) /\ Len(b) \in Nat
  BY ConcatFacts
<1>4. k + 1 = k + Len(b)
  BY <1>1, <1>2, <1>3, Zenon
<1>5. Len(b) = 1
  <2> DEFINE l == Len(b)
  <2>1. k \in Nat /\ l \in Nat /\ k + 1 = k + l
    BY <1>1, <1>3, <1>4
  <2> HIDE DEF l
  <2>2. l = 1
    BY <2>1
  <2> QED
    BY <2>2 DEF l
<1>6. PICK x \in Chars : b = <<x>>
  BY <1>5, OneCharacter, Zenon
<1>7. t = a \o <<x>> /\ Len(t) = Len(a) + 1
  BY <1>1, <1>2, <1>6, Zenon
<1> QED
  BY <1>7

(* What a character typed after s, between a and b, makes of the text. *)
LEMMA TypedAfter ==
  ASSUME NEW a \in Seq(Chars), NEW s \in Seq(Chars), NEW b \in Seq(Chars), NEW c \in Chars
  PROVE  /\ InsertAt(a \o s \o b, Len(a) + Len(s), <<c>>) = a \o Append(s, c) \o b
         /\ Len(Append(s, c)) = Len(s) + 1 /\ Append(s, c) \in Seq(Chars)
<1> DEFINE h == a \o s
           z == <<c>>
<1>1. h \in Seq(Chars) /\ Len(h) = Len(a) + Len(s) /\ z \in Seq(Chars)
  BY SeqFacts, OneMore
<1>2. Append(s, c) = s \o z /\ Len(Append(s, c)) = Len(s) + 1 /\ Append(s, c) \in Seq(Chars)
  BY OneMore
<1> HIDE DEF z
<1>3. (a \o s) \o z = a \o (s \o z)
  BY <1>1, SeqFacts
<1>4. InsertAt(h \o b, Len(h), z) = h \o z \o b
  <2> HIDE DEF h
  <2> QED
    BY <1>1, InsertBetween
<1> QED
  BY <1>1, <1>2, <1>3, <1>4, Zenon DEF h, z

(* A character typed over: in the middle of the line it replaces one, at   *)
(* the end of it none.                                                     *)
LEMMA ReplaceOne ==
  ASSUME NEW h \in Seq(Chars), NEW y \in Seq(Chars), NEW z \in Seq(Chars), NEW b \in Seq(Chars),
         NEW e \in Nat, e = Len(h) + 1, Len(z) = 1, Len(y) = 1
  PROVE  /\ Piece(h \o y \o b, Len(h), e) = y
         /\ OverwriteAt(h \o y \o b, Len(h), z) = h \o z \o b
<1>1. e = Len(h) + Len(y) /\ Gives(h, y, b, z) /\ Gives(h, y, b, y)
  BY DEF Gives
<1>0. Given(h, y, b, z) /\ Given(h, y, b, y)
  BY <1>1, ReplaceMiddle
<1>2. Piece(h \o y \o b, Len(h), Len(h) + Len(y)) = y
  BY <1>0, Zenon DEF Given
<1>3. OverwriteAt(h \o y \o b, Len(h), z) = h \o z \o b
  BY <1>0, Zenon DEF Given
<1> QED
  BY <1>1, <1>2, <1>3, Zenon

(* The parts of a text, and a place that cuts it in two. *)
Parts(a, s, y, b) ==
  a \in Seq(Chars) /\ s \in Seq(Chars) /\ y \in Seq(Chars) /\ b \in Seq(Chars)

CutAt(t, n, a, b) ==
  a \in Seq(Chars) /\ b \in Seq(Chars) /\ t = a \o b /\ n = Len(a) /\ n \in Nat

(* c typed over y, which follows s. *)
TakesPlace(a, s, y, b, c) ==
  /\ Piece(a \o s \o (y \o b), Len(a) + Len(s), Len(a) + Len(s) + 1) = y
  /\ OverwriteAt(a \o s \o (y \o b), Len(a) + Len(s), <<c>>) = a \o Append(s, c) \o b

LEMMA TypedOverOne ==
  ASSUME NEW a, NEW s, NEW y, NEW b, NEW c, c \in Chars, Parts(a, s, y, b), Len(y) = 1
  PROVE  TakesPlace(a, s, y, b, c)
<1> DEFINE h == a \o s
           z == <<c>>
           e == Len(h) + 1
<1> a \in Seq(Chars) /\ s \in Seq(Chars) /\ y \in Seq(Chars) /\ b \in Seq(Chars)
  BY DEF Parts
<1>1. h \in Seq(Chars) /\ Len(h) = Len(a) + Len(s) /\ e \in Nat
  BY ConcatFacts
<1>2. z \in Seq(Chars) /\ Len(z) = 1 /\ Append(s, c) = s \o z
  BY OneMore
<1>3. e = Len(h) + 1
  OBVIOUS
<1> HIDE DEF z, e
<1>4. (a \o s) \o z = a \o (s \o z)
  BY <1>2, Associates
<1>6. h \o z = a \o Append(s, c)
  BY <1>2, <1>4, Zenon DEF h
<1> HIDE DEF h
<1>5. h \o y \o b = h \o (y \o b)
  BY <1>1, Associates
<1>7. /\ Piece(h \o y \o b, Len(h), e) = y
      /\ OverwriteAt(h \o y \o b, Len(h), z) = h \o z \o b
  <2>1. h \in Seq(Chars) /\ z \in Seq(Chars) /\ e \in Nat /\ e = Len(h) + 1 /\ Len(z) = 1
    BY <1>1, <1>2, <1>3
  <2> QED
    BY <2>1, ReplaceOne, SMTT(60)
<1>8. /\ Piece(h \o (y \o b), Len(h), Len(h) + 1) = y
      /\ OverwriteAt(h \o (y \o b), Len(h), z) = a \o Append(s, c) \o b
  BY <1>3, <1>5, <1>6, <1>7, Zenon
<1> QED
  BY <1>1, <1>8, Zenon DEF h, z, TakesPlace

LEMMA TypedAtEnd ==
  ASSUME NEW a \in Seq(Chars), NEW s \in Seq(Chars), NEW c \in Chars
  PROVE  /\ Piece(a \o s, Len(a) + Len(s), Len(a) + Len(s) + 1) = <<>>
         /\ OverwriteAt(a \o s, Len(a) + Len(s), <<c>>) = a \o Append(s, c)
<1> DEFINE h == a \o s
           z == <<c>>
           e == Len(h) + 1
           n == <<>>
<1>1. h \in Seq(Chars) /\ Len(h) = Len(a) + Len(s) /\ e \in Nat
  BY ConcatFacts
<1>2. z \in Seq(Chars) /\ Len(z) = 1 /\ Append(s, c) = s \o z
  BY OneMore
<1>3. e = Len(h) + 1 /\ Len(h) \in Nat
  BY <1>1
<1> HIDE DEF z, e
<1>4. (a \o s) \o z = a \o (s \o z)
  BY <1>2, Associates
<1>6. h \o z = a \o Append(s, c)
  BY <1>2, <1>4, Zenon DEF h
<1> HIDE DEF h
<1>7. h \o z \in Seq(Chars)
  BY <1>1, <1>2
<1>8. (h \o z) \o n = h \o z
  BY <1>7, ConcatFacts
<1> HIDE DEF n
<1>9. Piece(h, 0, Len(h)) = h
  BY <1>1, PieceOfAll
<1>10. Piece(h, e, Len(h)) = n
  <2>1. e >= Len(h)
    BY <1>3
  <2> QED
    BY <1>1, <2>1, PieceOfEnds DEF n
<1>11. Piece(h, Len(h), e) = n
  <2>1. ClipTo(h, Len(h)) = Len(h) /\ ClipTo(h, e) = Len(h)
    BY <1>1, <1>3 DEF ClipTo, Least, Largest
  <2>2. Piece(h, Len(h), e) = [k \in 1 .. 0 |-> h[Len(h) + k]]
    BY <1>3, <2>1 DEF Piece, Largest
  <2> QED
    BY <2>2 DEF n
<1>12. OverwriteAt(h, Len(h), z) = Piece(h, 0, Len(h)) \o z \o Piece(h, e, Len(h))
  BY <1>2, <1>3 DEF OverwriteAt
<1>13. OverwriteAt(h, Len(h), z) = a \o Append(s, c)
  BY <1>6, <1>8, <1>9, <1>10, <1>12, Zenon
<1>14. Piece(h, Len(h), Len(h) + 1) = n
  BY <1>3, <1>11, Zenon
<1> QED
  BY <1>1, <1>13, <1>14, Zenon DEF h, z, n

-----------------------------------------------------------------------------
(* What a handler records is what it does to the line. *)

Starts(c) == /\ c \in UndoCell /\ c.Type # undoNoUndo /\ c.X = cur
             /\ "undoOverWrite" \in c.Flags <=> overwrite
             /\ "undoOverWriteF" \notin c.Flags

NewRecord(c) == Starts(c) /\ Records(c, doc, doc') /\ AddToUndo(c)

MoreRecord(m) ==
  /\ m \in UndoCell /\ m.Type = Open.Type /\ m.Flags = Open.Flags
  /\ UndoSt # undoNoUndo
  /\ \A p \in Docs : Open.Type = UndoSt /\ Records(Open, p, doc) => Records(m, p, doc')
  /\ Merge(m)

Recording == /\ (\E c : NewRecord(c)) \/ (\E m : MoreRecord(m))
             /\ cur' <= Len(text')

LEMMA StartsFields ==
  ASSUME TypeOK, NEW st \in UndoTypes \ {undoNoUndo}
  PROVE  Starts(StartCell(st)) /\ StartCell(st).Type = st
<1>1. StartCell(st) \in UndoCell
  BY StartCellType DEF TypeOK
<1>2. /\ "undoOverWrite" \in StartFlags <=> overwrite
      /\ "undoOverWriteF" \notin StartFlags
  BY DEF StartFlags
<1>3. /\ StartCell(st).Type = st /\ StartCell(st).X = cur /\ StartCell(st).Flags = StartFlags
  BY DEF StartCell
<1> QED
  BY <1>1, <1>2, <1>3 DEF Starts

(* What handlers that insert, and that delete, have recorded. *)
LEMMA InsertsNew ==
  ASSUME TypeOK, NEW c, Starts(c), c.Type \in {"undoPutChar", "undoInsert"},
         c.Length = Len(c.s), NEW a \in Seq(Chars), NEW b \in Seq(Chars),
         text = a \o b, text' = a \o c.s \o b, cur = Len(a), cur' = Len(a) + Len(c.s)
  PROVE  Records(c, doc, doc') /\ cur' <= Len(text')
<1>1. c.s \in Seq(Chars) /\ Len(c.s) \in Nat
  BY CellFields DEF Starts
<1>2. Inserts(c, doc, doc')
  BY DocIs, Zenon DEF Inserts
<1>3. Len(text) = Len(a) + Len(b)
  BY ConcatFacts
<1>4. Len(text') = Len(a) + Len(c.s) + Len(b)
  <2> DEFINE m == c.s
  <2>1. m \in Seq(Chars)
    BY <1>1
  <2> HIDE DEF m
  <2>2. Len(a \o m \o b) = Len(a) + Len(m) + Len(b)
    BY <2>1, ConcatFacts
  <2> QED
    BY <2>2, Zenon DEF m
<1>5. Len(a) \in Nat /\ Len(b) \in Nat
  OBVIOUS
<1>6. cur <= Len(text) /\ cur' <= Len(text')
  <2> DEFINE i == Len(a)
             j == Len(b)
             k == Len(c.s)
             n == Len(text)
             n2 == Len(text')
  <2>1. /\ i \in Nat /\ j \in Nat /\ k \in Nat /\ n = i + j /\ n2 = i + k + j
        /\ cur = i /\ cur' = i + k
    BY <1>1, <1>3, <1>4, <1>5
  <2> HIDE DEF i, j, k, n, n2
  <2>2. cur <= n /\ cur' <= n2
    BY <2>1
  <2> QED
    BY <2>2 DEF n, n2
<1> QED
  BY <1>2, <1>6, DocIs DEF Records, Starts

LEMMA DeletesNew ==
  ASSUME TypeOK, cur <= Len(text), NEW c, Starts(c), c.Length = Len(c.s),
         NEW a \in Seq(Chars), NEW b \in Seq(Chars),
         text = a \o c.s \o b, text' = a \o b, cur' = Len(a),
         \/ c.Type = "undoDelChar" /\ cur = cur' + Len(c.s)
         \/ c.Type \in {"undoDelCharDel", "undoDelete"} /\ cur = cur'
         \/ c.Type = "undoDeleteBuf" /\ c.OffSet = cur'
  PROVE  Records(c, doc, doc') /\ cur' <= Len(text')
<1>1. Deletes(c, doc, doc')
  <2>1. \/ c.Type = "undoDelChar" /\ doc.cur = doc'.cur + Len(c.s)
        \/ c.Type \in {"undoDelCharDel", "undoDelete"} /\ doc.cur = doc'.cur
        \/ c.Type = "undoDeleteBuf" /\ c.OffSet = doc'.cur
    BY DocIs, Zenon
  <2>2. doc.text = a \o c.s \o b /\ doc'.text = a \o b /\ doc'.cur = Len(a)
    BY DocIs, Zenon
  <2> QED
    BY <2>1, <2>2, Zenon DEF Deletes
<1>3. Len(text') = Len(a) + Len(b) /\ Len(a) \in Nat /\ Len(b) \in Nat
  BY ConcatFacts
<1>4. cur' <= Len(text')
  <2> DEFINE i == Len(a)
             j == Len(b)
             n2 == Len(text')
  <2>1. i \in Nat /\ j \in Nat /\ n2 = i + j /\ cur' = i
    BY <1>3
  <2> HIDE DEF i, j, n2
  <2>2. cur' <= n2
    BY <2>1
  <2> QED
    BY <2>2 DEF n2
<1> QED
  BY <1>1, <1>4, DocIs DEF Records, Starts

-----------------------------------------------------------------------------
(* The handlers, one at a time: what each of them records. *)

LEMMA CutOne ==
  ASSUME NEW a \in Seq(Chars), NEW z \in Seq(Chars), NEW b \in Seq(Chars), Len(z) = 1
  PROVE  /\ Piece(a \o z \o b, Len(a), Len(a) + 1) = z
         /\ DeleteRange(a \o z \o b, Len(a), Len(a) + 1) = a \o b
<1> DEFINE e == Len(a) + Len(z)
<1>1. e = Len(a) + 1 /\ Gives(a, z, b, z)
  BY DEF Gives
<1>2. e = Len(a) + Len(z)
  OBVIOUS
<1> HIDE DEF e
<1>0. Given(a, z, b, z)
  BY <1>1, ReplaceMiddle
<1>3. Piece(a \o z \o b, Len(a), e) = z
  BY <1>0, <1>2, Zenon DEF Given
<1>4. DeleteRange(a \o z \o b, Len(a), e) = a \o b
  BY <1>2, DeleteMiddle, Zenon
<1> QED
  BY <1>1, <1>3, <1>4, Zenon

(* The text before and after a character at either side of the cursor. *)
OneBefore(t, n, a, b) ==
  \E h, z \in Seq(Chars) :
    /\ a = h \o z /\ Len(z) = 1 /\ n = Len(h) + 1 /\ n - 1 = Len(h)
    /\ Piece(t, n - 1, n) = z /\ DeleteRange(t, n - 1, n) = h \o b

OneAfter(t, n, a, b) ==
  \E z, h \in Seq(Chars) :
    /\ b = z \o h /\ Len(z) = 1 /\ t = a \o z \o h
    /\ Piece(t, n, n + 1) = z /\ DeleteRange(t, n, n + 1) = a \o h

LEMMA BeforeCursor ==
  ASSUME NEW a, NEW b, NEW t, NEW n, CutAt(t, n, a, b), n > 0
  PROVE  OneBefore(t, n, a, b)
<1> a \in Seq(Chars) /\ b \in Seq(Chars) /\ t = a \o b /\ n \in Nat /\ n = Len(a)
  BY DEF CutAt
<1>1. PICK x \in Chars, h \in Seq(Chars) : a = h \o <<x>> /\ Len(a) = Len(h) + 1
  BY LastOf
<1> DEFINE z == <<x>>
<1>2. z \in Seq(Chars) /\ Len(z) = 1
  BY OneMore
<1> HIDE DEF z
<1>3. Len(h) \in Nat /\ n = Len(h) + 1
  BY <1>1
<1>4. n - 1 = Len(h)
  BY <1>3
<1>5. /\ Piece(h \o z \o b, Len(h), Len(h) + 1) = z
      /\ DeleteRange(h \o z \o b, Len(h), Len(h) + 1) = h \o b
  BY <1>2, CutOne
<1>6. a = h \o z
  BY <1>1 DEF z
<1>7. Piece(t, n - 1, n) = z /\ DeleteRange(t, n - 1, n) = h \o b
  BY <1>3, <1>4, <1>5, <1>6, Zenon
<1> QED
  BY <1>2, <1>3, <1>4, <1>6, <1>7, Zenon DEF OneBefore

LEMMA AfterCursor ==
  ASSUME NEW a, NEW b, NEW t, NEW n, CutAt(t, n, a, b), Len(b) > 0
  PROVE  OneAfter(t, n, a, b)
<1> a \in Seq(Chars) /\ b \in Seq(Chars) /\ t = a \o b /\ n \in Nat /\ n = Len(a)
  BY DEF CutAt
<1>1. PICK x \in Chars, h \in Seq(Chars) : b = <<x>> \o h
  BY FirstOf
<1> DEFINE z == <<x>>
<1>2. z \in Seq(Chars) /\ Len(z) = 1
  BY OneMore
<1> HIDE DEF z
<1>3. b = z \o h
  BY <1>1 DEF z
<1>4. (a \o z) \o h = a \o (z \o h)
  BY <1>2, Associates
<1>5. /\ Piece(a \o z \o h, Len(a), Len(a) + 1) = z
      /\ DeleteRange(a \o z \o h, Len(a), Len(a) + 1) = a \o h
  BY <1>2, CutOne
<1>6. t = a \o z \o h
  BY <1>3, <1>4, Zenon
<1>7. Piece(t, n, n + 1) = z /\ DeleteRange(t, n, n + 1) = a \o h
  BY <1>5, <1>6, Zenon
<1> QED
  BY <1>2, <1>3, <1>6, <1>7, Zenon DEF OneAfter

(* What a cell records is kept by what is added to it. *)
LEMMA RecordsMore ==
  ASSUME NEW c, NEW m, NEW p \in Docs, NEW q, NEW r, Records(c, p, q),
         m.X = c.X, m.Flags = c.Flags, r.cur <= Len(r.text),
         Moves(m, p, r) \/ Inserts(m, p, r) \/ Overwrites(m, p, r) \/ Deletes(m, p, r)
  PROVE  Records(m, p, r)
BY DEF Records

LEMMA RecordKind ==
  ASSUME NEW c, NEW p, NEW q, Records(c, p, q)
  PROVE  /\ c.Type = "undoInMov" => Moves(c, p, q)
         /\ c.Type \in {"undoPutChar", "undoInsert"} => Inserts(c, p, q)
         /\ c.Type = "undoOvrPutChar" => Overwrites(c, p, q)
         /\ c.Type \in {"undoDelChar", "undoDelCharDel", "undoDelete", "undoDeleteBuf"}
              => Deletes(c, p, q)
BY DEF Records, Moves, Inserts, Overwrites, Deletes

(* The lengths of a text and of a part of it. *)
LEMMA PartLength ==
  ASSUME NEW a \in Seq(Chars), NEW s \in Seq(Chars), NEW b \in Seq(Chars)
  PROVE  /\ Len(a) <= Len(a \o b)
         /\ Len(a) + Len(s) <= Len(a \o s \o b)
<1>1. /\ Len(a \o b) = Len(a) + Len(b) /\ Len(a \o s \o b) = Len(a) + Len(s) + Len(b)
  BY ConcatFacts
<1>2. Len(a) \in Nat /\ Len(b) \in Nat /\ Len(s) \in Nat
  OBVIOUS
<1> DEFINE i == Len(a)
           j == Len(b)
           k == Len(s)
<1> HIDE DEF i, j, k
<1>3. i <= i + j /\ i + k <= i + k + j
  BY <1>2 DEF i, j, k
<1> QED
  BY <1>1, <1>3, Zenon DEF i, j, k

-----------------------------------------------------------------------------
Good == TypeOK /\ cur <= Len(text) /\ noMoveToEnd = FALSE

LEMMA Splits ==
  ASSUME Good
  PROVE  /\ text \in Seq(Chars) /\ cur \in Nat /\ Len(text) \in Nat
         /\ \E a, b \in Seq(Chars) : text = a \o b /\ Len(a) = cur
<1>1. text \in Seq(Chars) /\ cur \in Nat /\ Len(text) \in Nat
  BY DEF Good, TypeOK
<1>2. cur \in 0 .. Len(text)
  BY <1>1 DEF Good
<1> QED
  BY <1>1, <1>2, SplitAt

LEMMA Reassociates ==
  ASSUME NEW h, NEW s, NEW y, NEW e, Parts(h, s, y, e)
  PROVE  h \o s \o (y \o e) = h \o (s \o y) \o e
<1> h \in Seq(Chars) /\ s \in Seq(Chars) /\ y \in Seq(Chars) /\ e \in Seq(Chars)
  BY DEF Parts
<1>1. (h \o s) \o (y \o e) = h \o (s \o (y \o e))
  <2> DEFINE w == y \o e
  <2>1. w \in Seq(Chars)
    OBVIOUS
  <2> HIDE DEF w
  <2>2. (h \o s) \o w = h \o (s \o w)
    BY <2>1, Associates, Zenon
  <2> QED
    BY <2>2 DEF w
<1>2. s \o (y \o e) = (s \o y) \o e
  BY Associates, Zenon
<1> DEFINE w == s \o y
<1>3. w \in Seq(Chars)
  OBVIOUS
<1> HIDE DEF w
<1>4. (h \o w) \o e = h \o (w \o e)
  BY <1>3, Associates, Zenon
<1> QED
  BY <1>1, <1>2, <1>4, Zenon DEF w

TypesOver(h, s, t, s2, c) ==
  \E y, e \in Seq(Chars) :
    /\ Len(y) = 1 /\ Piece(h \o s \o t, Len(h) + Len(s), Len(h) + Len(s) + 1) = y
    /\ OverwriteAt(h \o s \o t, Len(h) + Len(s), <<c>>) = h \o Append(s, c) \o e
    /\ h \o s2 \o t = h \o (s2 \o y) \o e

LEMMA TypedOver ==
  ASSUME NEW h, NEW s, NEW t, NEW s2, NEW c \in Chars, Parts(h, s, s2, t), Len(t) > 0
  PROVE  TypesOver(h, s, t, s2, c)
<1> h \in Seq(Chars) /\ s \in Seq(Chars) /\ s2 \in Seq(Chars) /\ t \in Seq(Chars)
  BY DEF Parts
<1>1. PICK x \in Chars, e \in Seq(Chars) : t = <<x>> \o e
  BY FirstOf
<1> DEFINE y == <<x>>
<1>2. y \in Seq(Chars) /\ Len(y) = 1
  BY OneMore
<1> HIDE DEF y
<1>7. Parts(h, s, y, e) /\ Parts(h, s2, y, e)
  BY <1>2 DEF Parts
<1>8. TakesPlace(h, s, y, e, c)
  BY <1>2, <1>7, TypedOverOne, SMT
<1>3. t = y \o e
  BY <1>1 DEF y
<1>4. Piece(h \o s \o (y \o e), Len(h) + Len(s), Len(h) + Len(s) + 1) = y
  BY <1>8, Zenon DEF TakesPlace
<1>5. OverwriteAt(h \o s \o (y \o e), Len(h) + Len(s), <<c>>) = h \o Append(s, c) \o e
  BY <1>8, Zenon DEF TakesPlace
<1>6. h \o s2 \o (y \o e) = h \o (s2 \o y) \o e
  BY <1>7, Reassociates, SMT
<1> QED
  BY <1>2, <1>3, <1>4, <1>5, <1>6, Zenon DEF TypesOver

LEMMA Joined ==
  ASSUME NEW a \in Seq(Chars), NEW b \in Seq(Chars)
  PROVE  a \o b \in Seq(Chars) /\ Len(a \o b) = Len(a) + Len(b) /\ Len(a) \in Nat /\ Len(b) \in Nat
BY ConcatFacts

LEMMA Kinds ==
  {"undoInMov", "undoPutChar", "undoOvrPutChar", "undoDelChar", "undoDelCharDel",
   "undoDelete", "undoDeleteBuf", "undoInsert"} \subseteq UndoTypes \ {undoNoUndo}
BY DEF UndoTypes, GroupedTypes, undoNoUndo

LEMMA PutCharRecords ==
  ASSUME Good, NEW c \in Chars, PutChar(c)
  PROVE  Recording
<1> DEFINE z == <<c>>
           new == [StartCell("undoPutChar") EXCEPT !.s = z, !.Length = 1]
           s1 == Append(Open.s, c)
           m == [Open EXCEPT !.s = s1, !.Length = @ + 1]
<1>1. PICK a \in Seq(Chars), b \in Seq(Chars) : text = a \o b /\ Len(a) = cur
  BY Splits
<1>2. text' = InsertAt(text, cur, z) /\ cur' = cur + 1 /\ AddOrMerge(new, m)
  BY DEF PutChar
<1>3. z \in Seq(Chars) /\ Len(z) = 1
  BY OneMore
<1>4. Starts(new) /\ new.Type = "undoPutChar" /\ new.s = z /\ new.Length = 1
  <2> HIDE DEF z
  <2>1. /\ StartCell("undoPutChar") \in UndoCell /\ Starts(StartCell("undoPutChar"))
        /\ StartCell("undoPutChar").Type = "undoPutChar"
    BY Kinds, StartsFields DEF Good, Starts
  <2>2. new \in UndoCell
    BY <1>3, Kinds, CellOfTypes DEF Good
  <2>3. /\ new.Type = "undoPutChar" /\ new.s = z /\ new.Length = 1
        /\ new.X = StartCell("undoPutChar").X /\ new.Flags = StartCell("undoPutChar").Flags
    BY <2>1 DEF UndoCell
  <2> HIDE DEF new
  <2> QED
    BY <2>1, <2>2, <2>3 DEF Starts
<1>5. Open \in UndoCell /\ Open.s \in Seq(Chars)
  BY CellFields DEF Good, TypeOK, Open
<1>6. s1 \in Seq(Chars) /\ s1 = Append(Open.s, c) /\ Len(s1) = Len(Open.s) + 1
  BY <1>5, OneMore
<1>7. /\ m \in UndoCell /\ m.s = s1 /\ m.Length = Open.Length + 1
      /\ m.Type = Open.Type /\ m.Flags = Open.Flags /\ m.X = Open.X
  <2>1. m \in UndoCell
    BY <1>6, CellOfTypes DEF Good, UndoTypes
  <2> QED
    BY <1>5, <2>1 DEF UndoCell
<1> HIDE DEF z, new, s1, m
<1>8. text' = a \o z \o b /\ cur = Len(a) /\ cur' = Len(a) + Len(z)
  <2>1. InsertAt(a \o b, Len(a), z) = a \o z \o b
    BY <1>3, InsertBetween
  <2>2. text' = a \o z \o b
    BY <1>1, <1>2, <2>1, Zenon
  <2> QED
    BY <1>1, <1>2, <1>3, <2>2
<1>9. Records(new, doc, doc') /\ cur' <= Len(text')
  <2>1. text' = a \o new.s \o b /\ cur' = Len(a) + Len(new.s) /\ new.Length = Len(new.s)
    BY <1>3, <1>4, <1>8, Zenon
  <2> QED
    BY <1>1, <1>4, <1>8, <2>1, InsertsNew DEF Good
<1>10. ASSUME NEW p \in Docs, Open.Type = "undoPutChar", Records(Open, p, doc)
       PROVE  Records(m, p, doc')
  <2>1. Inserts(Open, p, doc)
    BY <1>10, RecordKind
  <2>2. PICK h \in Seq(Chars), t \in Seq(Chars) :
          /\ p.text = h \o t /\ text = h \o Open.s \o t
          /\ p.cur = Len(h) /\ cur = Len(h) + Len(Open.s)
    BY <2>1, DocIs DEF Inserts
  <2>3. InsertAt(h \o Open.s \o t, Len(h) + Len(Open.s), <<c>>) = h \o Append(Open.s, c) \o t
    BY <1>5, TypedAfter, ZenonT(60)
  <2>4. text' = h \o s1 \o t
    BY <1>2, <1>6, <2>2, <2>3, Zenon DEF z
  <2>5. cur' = Len(h) + Len(s1) /\ Open.Length + 1 = Len(s1)
    <3>1. Open.Length = Len(Open.s)
      BY <2>1 DEF Inserts
    <3>2. Len(Open.s) \in Nat /\ Len(h) \in Nat
      BY <1>5
    <3>3. cur' = Len(h) + Len(Open.s) + 1
      BY <1>2, <2>2
    <3> QED
      BY <1>6, <3>1, <3>2, <3>3
  <2>6. Inserts(m, p, doc')
    BY <1>7, <1>10, <2>2, <2>4, <2>5, DocIs, Zenon DEF Inserts
  <2>7. doc'.cur <= Len(doc'.text)
    BY <1>9, DocIs
  <2> QED
    BY <1>7, <1>10, <2>6, <2>7, RecordsMore
<1>11. CASE Merges(new.Type) /\ Merge(m)
  <2>1. UndoSt = "undoPutChar" /\ UndoSt # undoNoUndo
    BY <1>4, <1>11 DEF Merges, undoNoUndo
  <2>2. MoreRecord(m)
    BY <1>7, <1>10, <1>11, <2>1 DEF MoreRecord
  <2> QED
    BY <1>9, <2>2 DEF Recording
<1>12. CASE AddToUndo(new)
  BY <1>4, <1>9, <1>12 DEF Recording, NewRecord
<1> QED
  BY <1>2, <1>11, <1>12 DEF AddOrMerge

LEMMA OvrPutCharRecords ==
  ASSUME Good, NEW c \in Chars, OvrPutChar(c)
  PROVE  Recording
<1> DEFINE z == <<c>>
           old == Piece(text, cur, cur + 1)
           new == [StartCell("undoOvrPutChar") EXCEPT !.s = z, !.s2 = old, !.Length = 1]
           s1 == Append(Open.s, c)
           o1 == Open.s2 \o old
           m == [Open EXCEPT !.s = s1, !.s2 = o1, !.Length = @ + 1]
<1>0. text' = OverwriteAt(text, cur, z) /\ cur' = cur + 1 /\ AddOrMerge(new, m)
  BY DEF OvrPutChar
<1>1. PICK a \in Seq(Chars), b \in Seq(Chars) : text = a \o b /\ Len(a) = cur
  BY Splits
<1>2. Open \in UndoCell /\ Open.s \in Seq(Chars) /\ Open.s2 \in Seq(Chars)
  BY CellFields DEF Good, TypeOK, Open
<1>3. z \in Seq(Chars) /\ Len(z) = 1
  BY OneMore
<1>4. old \in Seq(Chars)
  <2>1. cur \in Int /\ cur + 1 \in Int /\ text \in Seq(Chars)
    BY Splits
  <2> QED
    BY <2>1, PieceType
<1>5. s1 \in Seq(Chars) /\ Len(s1) = Len(Open.s) + 1 /\ o1 \in Seq(Chars)
  <2> HIDE DEF old
  <2> QED
    BY <1>2, <1>4, OneMore
<1> HIDE DEF z, old, s1, o1
<1>6. Starts(new) /\ new.Type = "undoOvrPutChar" /\ new.s = z /\ new.s2 = old /\ new.Length = 1
  <2>1. /\ StartCell("undoOvrPutChar") \in UndoCell /\ Starts(StartCell("undoOvrPutChar"))
        /\ StartCell("undoOvrPutChar").Type = "undoOvrPutChar"
    BY Kinds, StartsFields DEF Good, Starts
  <2>2. new \in UndoCell
    BY <1>3, <1>4, Kinds, CellOfTypes DEF Good
  <2>3. /\ new.Type = "undoOvrPutChar" /\ new.s = z /\ new.s2 = old /\ new.Length = 1
        /\ new.X = StartCell("undoOvrPutChar").X
        /\ new.Flags = StartCell("undoOvrPutChar").Flags
    BY <2>1 DEF UndoCell
  <2> HIDE DEF new
  <2> QED
    BY <2>1, <2>2, <2>3 DEF Starts
<1>7. /\ m \in UndoCell /\ m.s = s1 /\ m.s2 = o1 /\ m.Length = Open.Length + 1
      /\ m.Type = Open.Type /\ m.Flags = Open.Flags /\ m.X = Open.X
  <2>1. m \in UndoCell
    BY <1>5, CellOfTypes DEF Good, UndoTypes
  <2> QED
    BY <1>2, <2>1 DEF UndoCell
<1> HIDE DEF new, m
(* What the character does after s, which replaced s2. *)
<1>8. ASSUME NEW h \in Seq(Chars), NEW s \in Seq(Chars), NEW t \in Seq(Chars),
             NEW s2 \in Seq(Chars), text = h \o s \o t, cur = Len(h) + Len(s),
             Len(s2) = Len(s) \/ (Len(t) = 0 /\ Len(s2) <= Len(s))
      PROVE  \E e \in Seq(Chars) :
               /\ h \o s2 \o t = h \o (s2 \o old) \o e
               /\ text' = h \o Append(s, c) \o e
               /\ \/ Len(s2 \o old) = Len(Append(s, c))
                  \/ Len(e) = 0 /\ Len(s2 \o old) <= Len(Append(s, c))
  <2>1. Len(Append(s, c)) = Len(s) + 1
    BY OneMore
  <2>2. Len(s2 \o old) = Len(s2) + Len(old)
    BY <1>4, ConcatFacts
  <2>3. CASE Len(t) = 0
    <3>1. /\ Piece(h \o s, Len(h) + Len(s), Len(h) + Len(s) + 1) = <<>>
          /\ OverwriteAt(h \o s, Len(h) + Len(s), <<c>>) = h \o Append(s, c)
      BY TypedAtEnd
    <3> DEFINE n == <<>>
    <3>2. t = n /\ n \in Seq(Chars) /\ Len(n) = 0
      BY <2>3
    <3>3. \A x \in Seq(Chars) : x \o n = x
      BY ConcatFacts
    <3>4. h \o s \in Seq(Chars) /\ h \o Append(s, c) \in Seq(Chars) /\ h \o s2 \in Seq(Chars)
      <4>1. Append(s, c) \in Seq(Chars)
        BY OneMore
      <4> QED
        BY <4>1
    <3>5. Piece(h \o s, Len(h) + Len(s), Len(h) + Len(s) + 1) = n
      BY <3>1
    <3> HIDE DEF n
    <3>6. text = h \o s
      BY <1>8, <3>2, <3>3, <3>4, Zenon
    <3>7. old = n
      BY <1>8, <3>5, <3>6, Zenon DEF old
    <3>8. h \o s2 \o t = h \o (s2 \o old) \o n
      BY <3>2, <3>3, <3>7, Zenon
    <3>9. text' = h \o Append(s, c) \o n
      BY <1>0, <1>8, <3>1, <3>3, <3>4, <3>6, Zenon DEF z
    <3>10. Len(s2 \o old) <= Len(Append(s, c))
      <4>1. Len(old) = 0
        BY <3>2, <3>7
      <4>2. Len(s2) <= Len(s)
        BY <1>8
      <4> DEFINE i == Len(s2)
                 j == Len(s)
      <4>3. i \in Nat /\ j \in Nat
        OBVIOUS
      <4> HIDE DEF i, j
      <4>4. i <= j => i + 0 <= j + 1
        BY <4>3
      <4> QED
        BY <2>1, <2>2, <4>1, <4>2, <4>4, Zenon DEF i, j
    <3> QED
      BY <3>2, <3>8, <3>9, <3>10, Zenon
  <2>4. CASE Len(t) > 0
    <3>0. Parts(h, s, s2, t)
      BY DEF Parts
    <3>1. PICK y \in Seq(Chars), e \in Seq(Chars) :
            /\ Len(y) = 1 /\ Piece(h \o s \o t, Len(h) + Len(s), Len(h) + Len(s) + 1) = y
            /\ OverwriteAt(h \o s \o t, Len(h) + Len(s), <<c>>) = h \o Append(s, c) \o e
            /\ h \o s2 \o t = h \o (s2 \o y) \o e
      <4>1. TypesOver(h, s, t, s2, c)
        BY <2>4, <3>0, TypedOver, SMT
      <4> QED
        BY <4>1, Zenon DEF TypesOver
    <3>5. old = y
      BY <1>8, <3>1, Zenon DEF old
    <3>6. text' = h \o Append(s, c) \o e
      BY <1>0, <1>8, <3>1, Zenon DEF z
    <3>7. h \o s2 \o t = h \o (s2 \o old) \o e
      BY <3>1, <3>5, Zenon
    <3>8. Len(s2 \o old) = Len(Append(s, c))
      <4>1. Len(old) = 1
        BY <3>1, <3>5
      <4>2. Len(s2) = Len(s)
        BY <1>8, <2>4
      <4> QED
        BY <2>1, <2>2, <4>1, <4>2, Zenon
    <3> QED
      BY <3>6, <3>7, <3>8, Zenon
  <2>5. Len(t) = 0 \/ Len(t) > 0
    OBVIOUS
  <2> QED
    BY <2>3, <2>4, <2>5, Zenon
<1>9. PICK e \in Seq(Chars) :
        /\ text = a \o old \o e /\ text' = a \o z \o e
        /\ Len(old) = Len(z) \/ (Len(e) = 0 /\ Len(old) <= Len(z))
  <2> DEFINE n == <<>>
  <2>1. n \in Seq(Chars) /\ Len(n) = 0 /\ Append(n, c) = z
    BY DEF z
  <2>2. \A x \in Seq(Chars) : x \o n = x /\ n \o x = x
    BY ConcatFacts
  <2> HIDE DEF n
  <2>3. text = a \o n \o b
    BY <1>1, <2>2, Zenon
  <2>4. cur = Len(a) + Len(n)
    BY <1>1, <2>1
  <2>5. PICK e \in Seq(Chars) :
          /\ a \o n \o b = a \o (n \o old) \o e
          /\ text' = a \o Append(n, c) \o e
          /\ \/ Len(n \o old) = Len(Append(n, c))
             \/ Len(e) = 0 /\ Len(n \o old) <= Len(Append(n, c))
    BY <1>8, <2>1, <2>3, <2>4, Zenon
  <2>6. n \o old = old
    BY <1>4, <2>2
  <2>7. text = a \o old \o e /\ text' = a \o z \o e
    BY <2>1, <2>3, <2>5, <2>6, Zenon
  <2>8. Len(old) = Len(z) \/ (Len(e) = 0 /\ Len(old) <= Len(z))
    BY <2>1, <2>5, <2>6, Zenon
  <2> QED
    BY <2>7, <2>8, Zenon
<1>10. Len(z) = 1 /\ cur = Len(a) /\ cur' = Len(a) + Len(z)
  BY <1>0, <1>1, <1>3
<1>11. cur' <= Len(text')
  <2>1. Len(a) + Len(z) <= Len(a \o z \o e)
    BY <1>3, PartLength
  <2> QED
    BY <1>9, <1>10, <2>1, Zenon
<1>12. Records(new, doc, doc')
  <2>1. Overwrites(new, doc, doc')
    <3>1. new.Length = Len(new.s)
      BY <1>3, <1>6
    <3>2. /\ doc.text = a \o new.s2 \o e /\ doc'.text = a \o new.s \o e
          /\ doc.cur = Len(a) /\ doc'.cur = Len(a) + Len(new.s)
          /\ Len(new.s2) = Len(new.s) \/ (Len(e) = 0 /\ Len(new.s2) <= Len(new.s))
      BY <1>6, <1>9, <1>10, DocIs, Zenon
    <3> QED
      BY <1>6, <3>1, <3>2, Zenon DEF Overwrites
  <2> QED
    BY <1>6, <1>11, <2>1, DocIs DEF Records, Starts, Good
<1>13. ASSUME NEW p \in Docs, Open.Type = "undoOvrPutChar", Records(Open, p, doc)
       PROVE  Records(m, p, doc')
  <2>1. Overwrites(Open, p, doc)
    BY <1>13, RecordKind
  <2>2. PICK h \in Seq(Chars), t \in Seq(Chars) :
          /\ p.text = h \o Open.s2 \o t /\ text = h \o Open.s \o t
          /\ p.cur = Len(h) /\ cur = Len(h) + Len(Open.s)
          /\ Len(Open.s2) = Len(Open.s) \/ (Len(t) = 0 /\ Len(Open.s2) <= Len(Open.s))
    BY <2>1, DocIs DEF Overwrites
  <2>3. PICK f \in Seq(Chars) :
          /\ h \o Open.s2 \o t = h \o (Open.s2 \o old) \o f
          /\ text' = h \o Append(Open.s, c) \o f
          /\ \/ Len(Open.s2 \o old) = Len(Append(Open.s, c))
             \/ Len(f) = 0 /\ Len(Open.s2 \o old) <= Len(Append(Open.s, c))
    BY <1>2, <1>8, <2>2, Zenon
  <2>4. cur' = Len(h) + Len(s1) /\ Open.Length + 1 = Len(s1)
    <3>1. Open.Length = Len(Open.s)
      BY <2>1 DEF Overwrites
    <3>2. Len(Open.s) \in Nat /\ Len(h) \in Nat
      BY <1>2
    <3>3. cur' = Len(h) + Len(Open.s) + 1
      BY <1>0, <2>2
    <3> QED
      BY <1>5, <3>1, <3>2, <3>3
  <2>5. /\ p.text = h \o o1 \o f /\ text' = h \o s1 \o f
        /\ Len(o1) = Len(s1) \/ (Len(f) = 0 /\ Len(o1) <= Len(s1))
    BY <2>2, <2>3, Zenon DEF o1, s1
  <2>6. Overwrites(m, p, doc')
    <3>1. /\ p.text = h \o m.s2 \o f /\ doc'.text = h \o m.s \o f
          /\ p.cur = Len(h) /\ doc'.cur = Len(h) + Len(m.s)
          /\ Len(m.s2) = Len(m.s) \/ (Len(f) = 0 /\ Len(m.s2) <= Len(m.s))
      BY <1>7, <2>2, <2>4, <2>5, DocIs, Zenon
    <3>2. m.Type = "undoOvrPutChar" /\ m.Length = Len(m.s)
      BY <1>7, <1>13, <2>4, Zenon
    <3> QED
      BY <3>1, <3>2, Zenon DEF Overwrites
  <2>7. doc'.cur <= Len(doc'.text)
    BY <1>11, DocIs
  <2> QED
    BY <1>7, <1>13, <2>6, <2>7, RecordsMore
<1>14. CASE Merges(new.Type) /\ Merge(m)
  <2>1. UndoSt = "undoOvrPutChar" /\ UndoSt # undoNoUndo
    BY <1>6, <1>14 DEF Merges, undoNoUndo
  <2>2. MoreRecord(m)
    BY <1>7, <1>13, <1>14, <2>1 DEF MoreRecord
  <2> QED
    BY <1>11, <2>2 DEF Recording
<1>15. CASE AddToUndo(new)
  BY <1>6, <1>11, <1>12, <1>15 DEF Recording, NewRecord
<1> QED
  BY <1>0, <1>14, <1>15 DEF AddOrMerge

LEMMA BackSpaceRecords ==
  ASSUME Good, BackSpace
  PROVE  Recording
<1> DEFINE z == Piece(text, cur - 1, cur)
           new == [StartCell("undoDelChar") EXCEPT !.s = z, !.Length = 1]
           s1 == z \o Open.s
           m == [Open EXCEPT !.s = s1, !.Length = @ + 1]
<1>1. /\ cur > 0 /\ text' = DeleteRange(text, cur - 1, cur) /\ cur' = cur - 1
      /\ AddOrMerge(new, m)
  BY DEF BackSpace
<1>2. text \in Seq(Chars) /\ cur \in Nat
  BY Splits
<1>3. Open \in UndoCell /\ Open.s \in Seq(Chars)
  BY CellFields DEF Good, TypeOK, Open
<1>4. ASSUME NEW a \in Seq(Chars), NEW b \in Seq(Chars), text = a \o b, cur = Len(a)
      PROVE  \E h \in Seq(Chars) :
               /\ a = h \o z /\ z \in Seq(Chars) /\ Len(z) = 1
               /\ cur = Len(h) + 1 /\ cur' = Len(h) /\ text' = h \o b
  <2>1. PICK h \in Seq(Chars), y \in Seq(Chars) :
          /\ a = h \o y /\ Len(y) = 1 /\ cur = Len(h) + 1 /\ cur - 1 = Len(h)
          /\ Piece(text, cur - 1, cur) = y /\ DeleteRange(text, cur - 1, cur) = h \o b
    <3>1. CutAt(text, cur, a, b)
      BY <1>2, <1>4 DEF CutAt
    <3> QED
      <4>1. OneBefore(text, cur, a, b)
        BY <1>1, <3>1, BeforeCursor, SMT
      <4> QED
        BY <4>1, Zenon DEF OneBefore
  <2>2. z = y
    BY <2>1
  <2> HIDE DEF z
  <2> QED
    BY <1>1, <2>1, <2>2, Zenon
<1>5. PICK a \in Seq(Chars), b \in Seq(Chars) : text = a \o b /\ Len(a) = cur
  BY Splits
<1>6. PICK h \in Seq(Chars) :
        /\ a = h \o z /\ z \in Seq(Chars) /\ Len(z) = 1
        /\ cur = Len(h) + 1 /\ cur' = Len(h) /\ text' = h \o b
  BY <1>4, <1>5, Zenon
<1> HIDE DEF z
<1>7. s1 \in Seq(Chars) /\ Len(s1) = Len(Open.s) + 1
  <2> DEFINE o == Open.s
  <2>1. o \in Seq(Chars)
    BY <1>3
  <2> HIDE DEF o
  <2>2. z \o o \in Seq(Chars) /\ Len(z \o o) = Len(z) + Len(o) /\ Len(o) \in Nat
    BY <1>6, <2>1, Joined
  <2> QED
    BY <1>6, <2>1, <2>2 DEF o
<1>8. Starts(new) /\ new.Type = "undoDelChar" /\ new.s = z /\ new.Length = 1
  <2>1. /\ StartCell("undoDelChar") \in UndoCell /\ Starts(StartCell("undoDelChar"))
        /\ StartCell("undoDelChar").Type = "undoDelChar"
    BY Kinds, StartsFields DEF Good, Starts
  <2>2. new \in UndoCell
    BY <1>6, Kinds, CellOfTypes DEF Good
  <2>3. /\ new.Type = "undoDelChar" /\ new.s = z /\ new.Length = 1
        /\ new.X = StartCell("undoDelChar").X /\ new.Flags = StartCell("undoDelChar").Flags
    BY <2>1 DEF UndoCell
  <2> HIDE DEF new
  <2> QED
    BY <2>1, <2>2, <2>3 DEF Starts
<1> HIDE DEF s1
<1>9. /\ m \in UndoCell /\ m.s = s1 /\ m.Length = Open.Length + 1
      /\ m.Type = Open.Type /\ m.Flags = Open.Flags /\ m.X = Open.X
  <2>1. m \in UndoCell
    BY <1>7, CellOfTypes DEF Good, UndoTypes
  <2> QED
    BY <1>3, <2>1 DEF UndoCell
<1> HIDE DEF new, m
<1>10. Records(new, doc, doc') /\ cur' <= Len(text')
  <2>1. text = h \o new.s \o b /\ new.Length = Len(new.s)
    BY <1>5, <1>6, <1>8, Zenon
  <2>2. cur = cur' + Len(new.s)
    BY <1>6, <1>8
  <2> QED
    BY <1>6, <1>8, <2>1, <2>2, DeletesNew DEF Good
<1>11. ASSUME NEW p \in Docs, Open.Type = "undoDelChar", Records(Open, p, doc)
       PROVE  Records(m, p, doc')
  <2>1. Deletes(Open, p, doc)
    BY <1>11, RecordKind
  <2>2. PICK g \in Seq(Chars), t \in Seq(Chars) :
          p.text = g \o Open.s \o t /\ text = g \o t /\ cur = Len(g)
    BY <2>1, DocIs DEF Deletes
  <2>3. p.cur = cur + Len(Open.s) /\ Open.Length = Len(Open.s)
    BY <1>11, <2>1, DocIs DEF Deletes
  <2>4. PICK e \in Seq(Chars) :
          g = e \o z /\ cur = Len(e) + 1 /\ cur' = Len(e) /\ text' = e \o t
    BY <1>4, <2>2, Zenon
  <2>5. (e \o z) \o Open.s = e \o (z \o Open.s)
    BY <1>3, <1>6, Associates, ZenonT(60)
  <2>6. p.text = e \o s1 \o t
    BY <2>2, <2>4, <2>5, Zenon DEF s1
  <2>7. p.cur = cur' + Len(s1) /\ Open.Length + 1 = Len(s1)
    <3> DEFINE i == Len(Open.s)
               j == Len(e)
               k == Len(s1)
    <3>1. i \in Nat /\ j \in Nat
      BY <1>3
    <3>2. k = i + 1 /\ cur = j + 1 /\ cur' = j /\ p.cur = cur + i /\ Open.Length = i
      BY <1>7, <2>3, <2>4
    <3> HIDE DEF i, j, k
    <3>3. p.cur = cur' + k /\ Open.Length + 1 = k
      BY <3>1, <3>2
    <3> QED
      BY <3>3 DEF k
  <2>8. Deletes(m, p, doc')
    <3>1. /\ p.text = e \o m.s \o t /\ doc'.text = e \o t /\ doc'.cur = Len(e)
          /\ m.Length = Len(m.s) /\ m.Type = "undoDelChar" /\ p.cur = doc'.cur + Len(m.s)
      BY <1>9, <1>11, <2>4, <2>6, <2>7, DocIs, Zenon
    <3> QED
      BY <3>1, Zenon DEF Deletes
  <2>9. doc'.cur <= Len(doc'.text)
    BY <1>10, DocIs
  <2> QED
    BY <1>9, <1>11, <2>8, <2>9, RecordsMore
<1>12. CASE Merges(new.Type) /\ Merge(m)
  <2>1. UndoSt = "undoDelChar" /\ UndoSt # undoNoUndo
    BY <1>8, <1>12 DEF Merges, undoNoUndo
  <2>2. MoreRecord(m)
    BY <1>9, <1>11, <1>12, <2>1 DEF MoreRecord
  <2> QED
    BY <1>10, <2>2 DEF Recording
<1>13. CASE AddToUndo(new)
  BY <1>8, <1>10, <1>13 DEF Recording, NewRecord
<1> QED
  BY <1>1, <1>12, <1>13 DEF AddOrMerge

LEMMA DelCharRecords ==
  ASSUME Good, DelChar
  PROVE  Recording
<1> DEFINE z == Piece(text, cur, cur + 1)
           new == [StartCell("undoDelCharDel") EXCEPT !.s = z, !.Length = 1]
           s1 == Open.s \o z
           m == [Open EXCEPT !.s = s1, !.Length = @ + 1]
           Cut(a, b) == \E h \in Seq(Chars) :
                          /\ b = z \o h /\ text = a \o z \o h
                          /\ z \in Seq(Chars) /\ Len(z) = 1 /\ text' = a \o h
<1>1. /\ cur < Len(text) /\ text' = DeleteRange(text, cur, cur + 1) /\ cur' = cur
      /\ AddOrMerge(new, m)
  BY DEF DelChar
<1>2. text \in Seq(Chars) /\ cur \in Nat
  BY Splits
<1>3. Open \in UndoCell /\ Open.s \in Seq(Chars)
  BY CellFields DEF Good, TypeOK, Open
<1>4. ASSUME NEW a \in Seq(Chars), NEW b \in Seq(Chars), text = a \o b, cur = Len(a)
      PROVE  Cut(a, b)
  <2>0. Len(b) > 0
    <3>1. Len(text) = Len(a) + Len(b)
      BY <1>4, ConcatFacts
    <3>2. Len(a) \in Nat /\ Len(b) \in Nat
      OBVIOUS
    <3> QED
      BY <1>1, <1>4, <3>1, <3>2
  <2>1. PICK y \in Seq(Chars), h \in Seq(Chars) :
          /\ b = y \o h /\ Len(y) = 1 /\ text = a \o y \o h
          /\ Piece(text, cur, cur + 1) = y /\ DeleteRange(text, cur, cur + 1) = a \o h
    <3>1. CutAt(text, cur, a, b)
      BY <1>2, <1>4 DEF CutAt
    <3> QED
      <4>1. OneAfter(text, cur, a, b)
        BY <2>0, <3>1, AfterCursor, SMT
      <4> QED
        BY <4>1, Zenon DEF OneAfter
  <2>2. z = y
    BY <2>1
  <2> HIDE DEF z
  <2> QED
    BY <1>1, <2>1, <2>2, Zenon
<1>5. PICK a \in Seq(Chars), b \in Seq(Chars) : text = a \o b /\ Len(a) = cur
  BY Splits
<1>6. PICK h \in Seq(Chars) :
        text = a \o z \o h /\ z \in Seq(Chars) /\ Len(z) = 1 /\ text' = a \o h
  <2> HIDE DEF Cut
  <2>1. Cut(a, b)
    BY <1>4, <1>5
  <2> QED
    BY <2>1 DEF Cut
<1> HIDE DEF z
<1>7. s1 \in Seq(Chars) /\ Len(s1) = Len(Open.s) + 1
  <2> DEFINE o == Open.s
  <2>1. o \in Seq(Chars)
    BY <1>3
  <2> HIDE DEF o
  <2>2. o \o z \in Seq(Chars) /\ Len(o \o z) = Len(o) + Len(z) /\ Len(o) \in Nat
    BY <1>6, <2>1, Joined
  <2> QED
    BY <1>6, <2>1, <2>2 DEF o
<1>8. Starts(new) /\ new.Type = "undoDelCharDel" /\ new.s = z /\ new.Length = 1
  <2>1. /\ StartCell("undoDelCharDel") \in UndoCell /\ Starts(StartCell("undoDelCharDel"))
        /\ StartCell("undoDelCharDel").Type = "undoDelCharDel"
    BY Kinds, StartsFields DEF Good, Starts
  <2>2. new \in UndoCell
    BY <1>6, Kinds, CellOfTypes DEF Good
  <2>3. /\ new.Type = "undoDelCharDel" /\ new.s = z /\ new.Length = 1
        /\ new.X = StartCell("undoDelCharDel").X
        /\ new.Flags = StartCell("undoDelCharDel").Flags
    BY <2>1 DEF UndoCell
  <2> HIDE DEF new
  <2> QED
    BY <2>1, <2>2, <2>3 DEF Starts
<1> HIDE DEF s1
<1>9. /\ m \in UndoCell /\ m.s = s1 /\ m.Length = Open.Length + 1
      /\ m.Type = Open.Type /\ m.Flags = Open.Flags /\ m.X = Open.X
  <2>1. m \in UndoCell
    BY <1>7, CellOfTypes DEF Good, UndoTypes
  <2> QED
    BY <1>3, <2>1 DEF UndoCell
<1> HIDE DEF new, m
<1>10. Records(new, doc, doc') /\ cur' <= Len(text')
  <2>1. text = a \o new.s \o h /\ new.Length = Len(new.s)
    BY <1>6, <1>8, Zenon
  <2>2. cur' = Len(a) /\ cur = cur'
    BY <1>1, <1>5
  <2> QED
    BY <1>6, <1>8, <2>1, <2>2, DeletesNew DEF Good
<1>11. ASSUME NEW p \in Docs, Open.Type = "undoDelCharDel", Records(Open, p, doc)
       PROVE  Records(m, p, doc')
  <2>1. Deletes(Open, p, doc)
    BY <1>11, RecordKind
  <2>2. PICK g \in Seq(Chars), t \in Seq(Chars) :
          p.text = g \o Open.s \o t /\ text = g \o t /\ cur = Len(g)
    BY <2>1, DocIs DEF Deletes
  <2>3. p.cur = cur /\ Open.Length = Len(Open.s)
    BY <1>11, <2>1, DocIs DEF Deletes
  <2>4. PICK e \in Seq(Chars) : t = z \o e /\ text' = g \o e
    <3> HIDE DEF Cut
    <3>1. Cut(g, t)
      BY <1>4, <2>2
    <3> QED
      BY <3>1 DEF Cut
  <2>5. g \o Open.s \o (z \o e) = g \o (Open.s \o z) \o e
    <3> DEFINE o == Open.s
    <3>1. o \in Seq(Chars)
      BY <1>3
    <3> HIDE DEF o
    <3>2. Parts(g, o, z, e)
      BY <1>6, <3>1 DEF Parts
    <3>3. g \o o \o (z \o e) = g \o (o \o z) \o e
      BY <3>2, Reassociates, SMT
    <3> QED
      BY <3>3 DEF o
  <2>6. p.text = g \o s1 \o e
    BY <2>2, <2>4, <2>5, Zenon DEF s1
  <2>7. Open.Length + 1 = Len(s1)
    BY <1>7, <2>3
  <2>8. Deletes(m, p, doc')
    <3>1. /\ p.text = g \o m.s \o e /\ doc'.text = g \o e /\ doc'.cur = Len(g)
          /\ m.Length = Len(m.s) /\ m.Type = "undoDelCharDel" /\ p.cur = doc'.cur
      BY <1>1, <1>9, <1>11, <2>2, <2>3, <2>4, <2>6, <2>7, DocIs, Zenon
    <3> QED
      BY <3>1 DEF Deletes
  <2>9. doc'.cur <= Len(doc'.text)
    BY <1>10, DocIs
  <2> QED
    BY <1>9, <1>11, <2>8, <2>9, RecordsMore
<1>12. CASE Merges(new.Type) /\ Merge(m)
  <2>1. UndoSt = "undoDelCharDel" /\ UndoSt # undoNoUndo
    BY <1>8, <1>12 DEF Merges, undoNoUndo
  <2>2. MoreRecord(m)
    BY <1>9, <1>11, <1>12, <2>1 DEF MoreRecord
  <2> QED
    BY <1>10, <2>2 DEF Recording
<1>13. CASE AddToUndo(new)
  BY <1>8, <1>10, <1>13 DEF Recording, NewRecord
<1> QED
  BY <1>1, <1>12, <1>13 DEF AddOrMerge

(* A movement of the cursor, or another mode of typing, leaves the text. *)
LEMMA MovesRecord ==
  ASSUME Good, NEW c, Starts(c), c.Type = "undoInMov",
         text' = text, cur' <= Len(text')
  PROVE  Records(c, doc, doc')
<1>1. doc'.text = doc.text /\ doc'.cur <= Len(doc'.text) /\ doc.cur <= Len(doc.text)
  BY DocIs DEF Good
<1>2. c.X = doc.cur /\ ("undoOverWrite" \in c.Flags <=> doc.overwrite)
  BY DocIs DEF Starts
<1> QED
  BY <1>1, <1>2 DEF Records, Moves

LEMMA MoveRecords ==
  ASSUME Good, NEW x \in 0 .. Len(text), Move(x)
  PROVE  Recording
<1> DEFINE new == StartCell("undoInMov")
<1>1. text' = text /\ cur' = x /\ AddOrMerge(new, Open)
  BY DEF Move
<1>2. cur' <= Len(text')
  BY <1>1, Splits
<1>3. Starts(new) /\ new.Type = "undoInMov"
  BY Kinds, StartsFields DEF Good
<1> HIDE DEF new
<1>4. Records(new, doc, doc')
  BY <1>1, <1>2, <1>3, MovesRecord
<1>5. ASSUME NEW p \in Docs, Open.Type = "undoInMov", Records(Open, p, doc)
      PROVE  Records(Open, p, doc')
  <2>1. Moves(Open, p, doc)
    BY <1>5, RecordKind
  <2>2. Moves(Open, p, doc')
    BY <1>1, <2>1, DocIs DEF Moves
  <2>3. doc'.cur <= Len(doc'.text)
    BY <1>2, DocIs
  <2> QED
    BY <1>5, <2>2, <2>3, RecordsMore
<1>6. CASE Merges(new.Type) /\ Merge(Open)
  <2>1. UndoSt = "undoInMov" /\ UndoSt # undoNoUndo
    BY <1>3, <1>6 DEF Merges, undoNoUndo
  <2>2. Open \in UndoCell
    BY DEF Good, TypeOK, Open
  <2>3. MoreRecord(Open)
    BY <1>5, <1>6, <2>1, <2>2 DEF MoreRecord
  <2> QED
    BY <1>2, <2>3 DEF Recording
<1>7. CASE AddToUndo(new)
  BY <1>2, <1>3, <1>4, <1>7 DEF Recording, NewRecord
<1> QED
  BY <1>1, <1>6, <1>7 DEF AddOrMerge

LEMMA ToggleInsModeRecords ==
  ASSUME Good, ToggleInsMode
  PROVE  Recording
<1> DEFINE new == StartCell("undoInMov")
<1>1. text' = text /\ cur' = cur /\ AddToUndo(new)
  BY DEF ToggleInsMode
<1>2. cur' <= Len(text')
  BY <1>1 DEF Good
<1>3. Starts(new) /\ new.Type = "undoInMov"
  BY Kinds, StartsFields DEF Good
<1> HIDE DEF new
<1>4. Records(new, doc, doc')
  BY <1>1, <1>2, <1>3, MovesRecord
<1> QED
  BY <1>1, <1>2, <1>3, <1>4 DEF Recording, NewRecord

LEMMA DelEndRecords ==
  ASSUME Good, DelEnd
  PROVE  Recording
<1> DEFINE z == Piece(text, cur, Len(text))
           n == Len(text) - cur
           new == [StartCell("undoDelete") EXCEPT !.s = z, !.Length = n]
<1>1. /\ text' = DeleteRange(text, cur, Len(text)) /\ cur' = cur /\ AddToUndo(new)
      /\ cur < Len(text)
  BY DEF DelEnd, DeleteRangeLineInEdition
<1>2. PICK a \in Seq(Chars), b \in Seq(Chars) : text = a \o b /\ Len(a) = cur
  BY Splits
<1>3. z = b
  <2>1. Piece(a \o b, Len(a), Len(a \o b)) = b
    BY PieceOfEnds
  <2> QED
    BY <1>2, <2>1, Zenon
<1> HIDE DEF z
<1>4. Len(text) - cur = Len(z) /\ Len(text) - cur \in Nat /\ Len(text) = Len(a) + Len(z)
  <2>1. Len(a \o b) = Len(a) + Len(b) /\ Len(a) \in Nat /\ Len(b) \in Nat
    BY ConcatFacts
  <2>2. Len(text) = Len(a) + Len(z)
    BY <1>2, <1>3, <2>1, Zenon
  <2>3. Len(z) \in Nat
    BY <1>3, <2>1
  <2> QED
    BY <1>2, <2>1, <2>2, <2>3
<1> HIDE DEF n
<1>5. Starts(new) /\ new.Type = "undoDelete" /\ new.s = z /\ new.Length = Len(z)
  <2>0. n \in Nat /\ n = Len(z)
    BY <1>4 DEF n
  <2>1. /\ StartCell("undoDelete") \in UndoCell /\ Starts(StartCell("undoDelete"))
        /\ StartCell("undoDelete").Type = "undoDelete"
    BY Kinds, StartsFields DEF Good, Starts
  <2>2. new \in UndoCell
    BY <1>3, <2>0, Kinds, CellOfTypes DEF Good
  <2>3. /\ new.Type = "undoDelete" /\ new.s = z /\ new.Length = n
        /\ new.X = StartCell("undoDelete").X /\ new.Flags = StartCell("undoDelete").Flags
    BY <2>1 DEF UndoCell
  <2> HIDE DEF new
  <2> QED
    BY <2>0, <2>1, <2>2, <2>3 DEF Starts
<1> HIDE DEF new
<1> DEFINE o == <<>>
<1>6. o \in Seq(Chars)
  OBVIOUS
<1>7. \A x \in Seq(Chars) : x \o o = x
  BY ConcatFacts
<1> HIDE DEF o
<1>8. text = a \o z \o o
  <2>1. a \o z \in Seq(Chars)
    BY <1>3
  <2> QED
    BY <1>2, <1>3, <1>7, <2>1, Zenon
<1>9. text' = a \o o
  <2>1. DeleteRange(a \o z \o o, Len(a), Len(a) + Len(z)) = a \o o
    BY <1>3, <1>6, DeleteMiddle
  <2> QED
    BY <1>1, <1>2, <1>4, <1>8, <2>1, Zenon
<1>10. Records(new, doc, doc') /\ cur' <= Len(text')
  <2>1. text = a \o new.s \o o /\ cur' = Len(a) /\ new.Length = Len(new.s)
    BY <1>1, <1>2, <1>5, <1>8, Zenon
  <2> QED
    BY <1>1, <1>5, <1>6, <1>9, <2>1, DeletesNew DEF Good
<1> QED
  BY <1>1, <1>5, <1>10 DEF Recording, NewRecord

LEMMA DeleteSelectRecords ==
  ASSUME Good, NEW from \in 0 .. Len(text), NEW to \in 0 .. Len(text), DeleteSelect(from, to)
  PROVE  Recording
<1> DEFINE z == Piece(text, from, to)
           new == [StartCell("undoDeleteBuf") EXCEPT !.s = z, !.Length = to - from,
                                                     !.OffSet = from]
<1>1. /\ text' = DeleteRange(text, from, to) /\ cur' = from /\ AddToUndo(new)
      /\ from < to
  BY DEF DeleteSelect
<1>2. text \in Seq(Chars) /\ Len(text) \in Nat /\ from \in Nat /\ to \in Nat
      /\ from <= to /\ to <= Len(text) /\ to - from \in Nat /\ to = from + (to - from)
  BY <1>1, Splits
<1>3. PICK a \in Seq(Chars), m \in Seq(Chars), b \in Seq(Chars) :
        text = a \o m \o b /\ Len(a) = from /\ Len(m) = to - from
  BY <1>2, SplitAtTwo
<1> DEFINE n == to - from
<1>4. n \in Nat /\ Len(m) = n /\ to = Len(a) + Len(m)
  BY <1>2, <1>3
<1>6. z = m /\ text' = a \o b
  <2>1. Piece(a \o m \o b, Len(a), to) = m
    BY <1>2, <1>4, PieceOfMiddle, SMTT(30)
  <2>2. DeleteRange(a \o m \o b, Len(a), Len(a) + Len(m)) = a \o b
    BY DeleteMiddle
  <2> QED
    BY <1>1, <1>3, <1>4, <2>1, <2>2, Zenon
<1> HIDE DEF z, n
<1>7. /\ Starts(new) /\ new.Type = "undoDeleteBuf" /\ new.s = z /\ new.Length = n
      /\ new.OffSet = from
  <2>1. /\ StartCell("undoDeleteBuf") \in UndoCell /\ Starts(StartCell("undoDeleteBuf"))
        /\ StartCell("undoDeleteBuf").Type = "undoDeleteBuf"
    BY Kinds, StartsFields DEF Good, Starts
  <2>2. new \in UndoCell
    BY <1>2, <1>4, <1>6, Kinds, CellOfTypes DEF Good, n
  <2>3. /\ new.Type = "undoDeleteBuf" /\ new.s = z /\ new.Length = n /\ new.OffSet = from
        /\ new.X = StartCell("undoDeleteBuf").X
        /\ new.Flags = StartCell("undoDeleteBuf").Flags
    BY <2>1 DEF UndoCell, n
  <2> HIDE DEF new
  <2> QED
    BY <2>1, <2>2, <2>3 DEF Starts
<1> HIDE DEF new
<1>8. Records(new, doc, doc') /\ cur' <= Len(text')
  <2>1. text = a \o new.s \o b /\ cur' = Len(a) /\ new.Length = Len(new.s)
        /\ new.OffSet = cur'
    BY <1>1, <1>3, <1>4, <1>6, <1>7, Zenon
  <2> QED
    BY <1>6, <1>7, <2>1, DeletesNew DEF Good
<1> QED
  BY <1>1, <1>7, <1>8 DEF Recording, NewRecord

LEMMA InsertBufferRecords ==
  ASSUME Good, NEW p \in Clips, InsertBuffer(p)
  PROVE  Recording
<1> DEFINE new == [StartCell("undoInsert") EXCEPT !.s = p, !.Length = Len(p)]
<1>1. text' = InsertAt(text, cur, p) /\ cur' = cur + Len(p) /\ AddToUndo(new)
  BY DEF InsertBuffer, Good
<1>2. PICK a \in Seq(Chars), b \in Seq(Chars) : text = a \o b /\ Len(a) = cur
  BY Splits
<1>3. p \in Seq(Chars) /\ Len(p) \in Nat
  BY ClipsAssumption
<1>4. Starts(new) /\ new.Type = "undoInsert" /\ new.s = p /\ new.Length = Len(p)
  <2>1. /\ StartCell("undoInsert") \in UndoCell /\ Starts(StartCell("undoInsert"))
        /\ StartCell("undoInsert").Type = "undoInsert"
    BY Kinds, StartsFields DEF Good, Starts
  <2>2. new \in UndoCell
    BY <1>3, Kinds, CellOfTypes DEF Good
  <2>3. /\ new.Type = "undoInsert" /\ new.s = p /\ new.Length = Len(p)
        /\ new.X = StartCell("undoInsert").X /\ new.Flags = StartCell("undoInsert").Flags
    BY <2>1 DEF UndoCell
  <2> HIDE DEF new
  <2> QED
    BY <2>1, <2>2, <2>3 DEF Starts
<1> HIDE DEF new
<1>5. InsertAt(a \o b, Len(a), p) = a \o p \o b
  BY <1>3, InsertBetween
<1>6. /\ text' = a \o new.s \o b /\ cur' = Len(a) + Len(new.s) /\ new.Length = Len(new.s)
  BY <1>1, <1>2, <1>4, <1>5, Zenon
<1>7. Records(new, doc, doc') /\ cur' <= Len(text')
  BY <1>2, <1>3, <1>4, <1>6, InsertsNew DEF Good
<1> QED
  BY <1>1, <1>4, <1>7 DEF Recording, NewRecord

(* The handlers whose edits undo() can take back and redo() repeat. *)
Invertible == Ops \cap {"DelStart", "SelRectHide", "ToggleMoveOnPaste"} = {}

LEMMA EditRecords ==
  ASSUME Good, Invertible, Edit
  PROVE  Recording
BY PutCharRecords, OvrPutCharRecords, BackSpaceRecords, DelCharRecords, MoveRecords,
   ToggleInsModeRecords, DelEndRecords, DeleteSelectRecords, InsertBufferRecords
   DEF Edit, Invertible

-----------------------------------------------------------------------------
(***************************************************************************)
(* The invariant.  Recorded, Linked and Here are what is wanted.  They are *)
(* not inductive: redo() places the cursor where the last edit of a cell   *)
(* left it, so Closed says that every cell but the open one has saved it,  *)
(* and OpenEnd that only the newest cell of all is open.                   *)
(***************************************************************************)

(* Every cell leads from the document before it to the one after it. *)
Recorded == \A i \in InUse : Records(UndoArray[i], snap[i].pre, snap[i].post)

(* A cell ends where the next one begins. *)
Linked == \A i \in InUse : IncWithWrap(i) \in InUse => snap[i].post = snap[IncWithWrap(i)].pre

(* The document is after what can be undone and before what can be redone. *)
Here == /\ UndoActual # UndoBase => snap[UndoActual].post = doc
        /\ UndoActual # UndoTop => snap[IncWithWrap(UndoActual)].pre = doc

(* The state at the end of an edit is saved when its cell is closed. *)
Closed == \A i \in InUse : \/ i = UndoActual /\ UndoSt # undoNoUndo
                           \/ Finished(UndoArray[i], snap[i].post)

(* A cell is open only at the top of the ring. *)
OpenEnd ==
  UndoSt # undoNoUndo =>
    /\ UndoActual = UndoTop
    /\ UndoActual # UndoBase => Open.Type = UndoSt /\ "undoOverWriteF" \notin Open.Flags

(* The cursor is on the line. *)
Placed == cur <= Len(text) /\ noMoveToEnd = FALSE

HInv == IInv /\ MemoryOK /\ Placed /\ Recorded /\ Linked /\ Here /\ Closed /\ OpenEnd

(* The parts of a cell that undo() and redo() work on. *)
SameCell(c, d) ==
  /\ d.Type = c.Type /\ d.X = c.X /\ d.s = c.s /\ d.s2 = c.s2
  /\ d.OffSet = c.OffSet /\ d.Length = c.Length
  /\ "undoOverWrite" \in d.Flags <=> "undoOverWrite" \in c.Flags

LEMMA SameRecords ==
  ASSUME NEW c, NEW d, SameCell(c, d), NEW p, NEW q, Records(c, p, q)
  PROVE  Records(d, p, q)
BY DEF SameCell, Records, Moves, Inserts, Overwrites, Deletes

LEMMA DocEqual ==
  ASSUME NEW d \in Docs, TypeOK', text' = d.text, cur' = d.cur, overwrite' = d.overwrite
  PROVE  doc' = d
BY DEF Docs, doc, TypeOK

(* Where the indices are. *)
LEMMA RingPlaces ==
  ASSUME IInv
  PROVE  /\ UndoActual \in Cells /\ UndoBase \in Cells /\ UndoTop \in Cells
         /\ IncWithWrap(UndoActual) \in Cells /\ DecWithWrap(UndoActual) \in Cells
         /\ IncWithWrap(UndoActual) # UndoActual
         /\ InUse \subseteq Cells /\ UndoBase \notin InUse
         /\ UndoActual # UndoBase => UndoActual \in InUse
         /\ UndoActual # UndoTop => IncWithWrap(UndoActual) \in InUse
<1>1. UndoActual \in Cells /\ UndoBase \in Cells /\ UndoTop \in Cells
  BY DEF IInv, TypeOK
<1>2. /\ IncWithWrap(UndoActual) \in Cells /\ DecWithWrap(UndoActual) \in Cells
      /\ IncWithWrap(UndoActual) # UndoActual
  BY <1>1, MaxUndoAssumption DEF Cells, IncWithWrap, DecWithWrap
<1>3. InUse \subseteq Cells /\ UndoBase \notin InUse
  BY <1>1 DEF InUse, After, Cells
<1>4. UndoActual \in After(UndoBase, UndoTop) \cup {UndoBase}
  BY DEF IInv, RingInOrder
<1>5. UndoActual # UndoTop => IncWithWrap(UndoActual) \in InUse
  BY <1>1, <1>4, StepUp DEF InUse
<1> QED
  BY <1>1, <1>2, <1>3, <1>4, <1>5 DEF InUse

LEMMA TopIsLast ==
  ASSUME NEW b \in Cells, NEW t \in Cells
  PROVE  IncWithWrap(t) \notin After(b, t)
BY MaxUndoAssumption DEF After, Cells, IncWithWrap

(* A cell that is being closed, or was closed at the same state. *)
LEMMA FinalState ==
  ASSUME HInv, UndoActual # UndoBase
  PROVE  /\ UndoSaveFinalState(Open) \in UndoCell /\ SameCell(Open, UndoSaveFinalState(Open))
         /\ Finished(UndoSaveFinalState(Open), doc)
         /\ Records(Open, snap[UndoActual].pre, doc)
<1>1. UndoActual \in InUse /\ UndoActual \in Cells
  BY RingPlaces DEF HInv
<1>2. Open \in UndoCell /\ TypeOK
  BY <1>1 DEF HInv, IInv, TypeOK, Open
<1>3. snap[UndoActual].post = doc
  BY DEF HInv, Here
<1>4. Records(Open, snap[UndoActual].pre, doc)
  BY <1>1, <1>3 DEF HInv, Recorded, Open
<1> DEFINE un == UndoSaveFinalState(Open)
<1>5. un \in UndoCell
  BY <1>2, CellTypes DEF TypeOK
<1>6. /\ un.Type = Open.Type /\ un.X = Open.X /\ un.s = Open.s /\ un.s2 = Open.s2
      /\ un.OffSet = Open.OffSet /\ un.Length = Open.Length
      /\ un.Xf = cur /\ un.Flags = Open.Flags \cup FinalFlags
  BY <1>2 DEF UndoSaveFinalState, UndoCell
<1> HIDE DEF un
<1>7. /\ "undoOverWrite" \notin FinalFlags
      /\ "undoOverWriteF" \in FinalFlags <=> overwrite
  BY DEF FinalFlags
<1>8. SameCell(Open, un)
  BY <1>6, <1>7 DEF SameCell
<1>9. "undoOverWriteF" \in Open.Flags => overwrite
  <2>1. CASE UndoSt # undoNoUndo
    BY <2>1 DEF HInv, OpenEnd
  <2>2. CASE UndoSt = undoNoUndo
    <3>1. Finished(Open, doc)
      BY <1>1, <1>3, <2>2 DEF HInv, Closed, Open
    <3> QED
      BY <3>1, DocIs DEF Finished
  <2> QED
    BY <2>1, <2>2
<1>10. Finished(un, doc)
  BY <1>6, <1>7, <1>9, DocIs DEF Finished
<1> QED
  BY <1>4, <1>5, <1>8, <1>10 DEF un

(* A step that leaves the line and the ring alone. *)
LEMMA QuietHInv ==
  ASSUME HInv, IInv', MemoryOK', Watch \/ UNCHANGED snap,
         UNCHANGED <<UndoBase, UndoActual, UndoTop, UndoSt, text, cur, overwrite, noMoveToEnd>>,
         \A i \in Cells : SameCell(UndoArray[i], UndoArray'[i])
                          /\ UndoArray'[i].Xf = UndoArray[i].Xf
                          /\ ("undoOverWriteF" \in UndoArray'[i].Flags
                                <=> "undoOverWriteF" \in UndoArray[i].Flags)
  PROVE  /\ HInv' /\ doc' = doc
         /\ \A i \in InUse : snap'[i] = snap[i]
<1>1. /\ InUse' = InUse /\ InUse \subseteq Cells /\ UndoActual \in Cells
      /\ UndoActual \in InUse => UndoActual # UndoBase
  BY RingPlaces DEF InUse, After, HInv
<1>2. doc' = doc
  BY DEF doc
<1>3. snap \in [Cells -> [pre : Docs, post : Docs, first : BOOLEAN]]
  BY DEF HInv, MemoryOK
<1>4. ASSUME NEW i \in InUse
      PROVE  snap'[i] = snap[i]
  <2>1. CASE snap' = snap
    BY <2>1
  <2>2. CASE snap' = [snap EXCEPT ![UndoActual] = [@ EXCEPT !.post = doc]]
    <3>1. CASE i # UndoActual
      BY <1>1, <1>3, <1>4, <2>2, <3>1
    <3>2. CASE i = UndoActual
      <4>1. snap[i].post = doc
        BY <1>1, <1>4, <3>2 DEF HInv, Here
      <4>2. snap'[i] = [snap[i] EXCEPT !.post = doc]
        BY <1>1, <1>3, <2>2, <3>2
      <4>3. snap[i] \in [pre : Docs, post : Docs, first : BOOLEAN]
        BY <1>1, <1>3, <3>2
      <4>4. \A r \in [pre : Docs, post : Docs, first : BOOLEAN] :
              r.post = doc => [r EXCEPT !.post = doc] = r
        OBVIOUS
      <4> QED
        BY <4>1, <4>2, <4>3, <4>4
    <3> QED
      BY <3>1, <3>2
  <2> QED
    BY <1>2, <2>1, <2>2 DEF Watch
<1>5. Placed'
  BY DEF HInv, Placed
<1>6. Recorded'
  <2> SUFFICES ASSUME NEW i \in InUse
               PROVE  Records(UndoArray'[i], snap'[i].pre, snap'[i].post)
    BY <1>1 DEF Recorded
  <2>1. Records(UndoArray[i], snap[i].pre, snap[i].post) /\ i \in Cells
    BY <1>1 DEF HInv, Recorded
  <2> QED
    BY <1>4, <2>1, SameRecords
<1>7. Linked'
  BY <1>1, <1>4 DEF HInv, Linked
<1>8. Here'
  <2>1. UndoActual # UndoTop => IncWithWrap(UndoActual) \in InUse
    BY RingPlaces DEF HInv
  <2>2. UndoActual # UndoBase => UndoActual \in InUse
    BY RingPlaces DEF HInv
  <2> QED
    BY <1>2, <1>4, <2>1, <2>2 DEF HInv, Here
<1>9. Closed'
  <2> SUFFICES ASSUME NEW i \in InUse
               PROVE  \/ i = UndoActual /\ UndoSt # undoNoUndo
                      \/ Finished(UndoArray'[i], snap'[i].post)
    BY <1>1 DEF Closed
  <2> QED
    BY <1>1, <1>4 DEF HInv, Closed, Finished
<1>10. OpenEnd'
  BY <1>1 DEF HInv, OpenEnd, Open, SameCell
<1> QED
  BY <1>2, <1>4, <1>5, <1>6, <1>7, <1>8, <1>9, <1>10 DEF HInv

(* An edit that goes into the open cell. *)
LEMMA MergeHInv ==
  ASSUME HInv, IInv', MemoryOK', Watch, NEW m, MoreRecord(m), cur' <= Len(text'),
         UNCHANGED noMoveToEnd
  PROVE  /\ HInv' /\ UndoActual = UndoTop
         /\ UNCHANGED <<UndoBase, UndoActual, UndoTop>>
         /\ \A i \in InUse : snap'[i].pre = snap[i].pre
<1>1. /\ UndoArray' = [UndoArray EXCEPT ![UndoActual] = m]
      /\ UNCHANGED <<UndoBase, UndoActual, UndoTop, UndoSt>>
      /\ m \in UndoCell /\ m.Type = Open.Type /\ m.Flags = Open.Flags /\ UndoSt # undoNoUndo
  BY DEF MoreRecord, Merge
<1>2. UndoActual = UndoTop
  BY <1>1 DEF HInv, OpenEnd
<1>3. /\ InUse' = InUse /\ InUse \subseteq Cells /\ UndoActual \in Cells
      /\ UndoActual \in InUse => UndoActual # UndoBase
  BY <1>1, RingPlaces DEF InUse, After, HInv
<1>4. snap' = [snap EXCEPT ![UndoActual] = [@ EXCEPT !.post = doc']]
  BY <1>1 DEF Watch
<1>5. snap \in [Cells -> [pre : Docs, post : Docs, first : BOOLEAN]] /\ doc' \in Docs
  BY DocTypes DEF HInv, MemoryOK, IInv
<1>6. /\ \A i \in Cells : i # UndoActual => snap'[i] = snap[i]
      /\ snap'[UndoActual].pre = snap[UndoActual].pre
      /\ snap'[UndoActual].post = doc'
  <2>1. snap[UndoActual] \in [pre : Docs, post : Docs, first : BOOLEAN]
    BY <1>3, <1>5
  <2>2. snap'[UndoActual] = [snap[UndoActual] EXCEPT !.post = doc']
    BY <1>3, <1>4, <1>5
  <2>3. \A i \in Cells : i # UndoActual => snap'[i] = snap[i]
    BY <1>4, <1>5
  <2>4. \A r \in [pre : Docs, post : Docs, first : BOOLEAN] :
          [r EXCEPT !.post = doc'].pre = r.pre /\ [r EXCEPT !.post = doc'].post = doc'
    OBVIOUS
  <2> QED
    BY <2>1, <2>2, <2>3, <2>4
<1>7. /\ \A i \in Cells : i # UndoActual => UndoArray'[i] = UndoArray[i]
      /\ UndoArray'[UndoActual] = m
  BY <1>1, <1>3 DEF HInv, IInv, TypeOK
<1>8. \A i \in InUse : snap'[i].pre = snap[i].pre
  BY <1>3, <1>6
<1>9. Placed'
  BY DEF HInv, Placed
<1>10. Recorded'
  <2> SUFFICES ASSUME NEW i \in InUse
               PROVE  Records(UndoArray'[i], snap'[i].pre, snap'[i].post)
    BY <1>3 DEF Recorded
  <2>1. CASE i # UndoActual
    BY <1>3, <1>6, <1>7, <2>1 DEF HInv, Recorded
  <2>2. CASE i = UndoActual
    <3>1. Records(Open, snap[UndoActual].pre, doc) /\ Open.Type = UndoSt
      BY <1>1, <1>3, <2>2, FinalState DEF HInv, OpenEnd
    <3>2. snap[UndoActual].pre \in Docs
      BY <1>3, <1>5
    <3>3. Records(m, snap[UndoActual].pre, doc')
      BY <3>1, <3>2 DEF MoreRecord
    <3> QED
      BY <1>6, <1>7, <2>2, <3>3
  <2> QED
    BY <2>1, <2>2
<1>11. Linked'
  <2> SUFFICES ASSUME NEW i \in InUse, IncWithWrap(i) \in InUse
               PROVE  snap'[i].post = snap'[IncWithWrap(i)].pre
    BY <1>3 DEF Linked
  <2>1. i # UndoActual
    BY <1>2, TopIsLast, RingPlaces DEF InUse, HInv
  <2> QED
    BY <1>3, <1>6, <1>8, <2>1 DEF HInv, Linked
<1>12. Here'
  BY <1>1, <1>2, <1>6 DEF Here
<1>13. Closed'
  <2> SUFFICES ASSUME NEW i \in InUse
               PROVE  \/ i = UndoActual
                      \/ Finished(UndoArray'[i], snap'[i].post)
    BY <1>1, <1>3 DEF Closed
  <2> QED
    BY <1>3, <1>6, <1>7 DEF HInv, Closed
<1>14. OpenEnd'
  BY <1>1, <1>7 DEF HInv, OpenEnd, Open
<1> QED
  BY <1>1, <1>2, <1>8, <1>9, <1>10, <1>11, <1>12, <1>13, <1>14 DEF HInv

(* What a new cell a leaves of the ring when the sentinel stops at b: the  *)
(* newest of the cells that could be undone, with a above them.            *)
LEMMA PushRing ==
  ASSUME IInv, NEW a, a = IncWithWrap(UndoActual),
         NEW b \in IF a = UndoBase THEN EvictTo(a) ELSE {UndoBase}, b # a
  PROVE  /\ b \in Cells /\ b \in After(UndoBase, UndoActual) \cup {UndoBase}
         /\ After(b, a) = After(b, UndoActual) \cup {a}
         /\ After(b, UndoActual) \subseteq After(UndoBase, UndoActual)
         /\ After(UndoBase, UndoActual) \subseteq InUse
         /\ a \notin After(b, UndoActual)
<1>1. /\ UndoActual \in Cells /\ UndoBase \in Cells /\ UndoTop \in Cells
      /\ a \in Cells /\ a # UndoActual
  BY RingPlaces
<1>2. b \in Cells
  BY <1>1 DEF EvictTo
<1>3. After(b, a) = After(b, UndoActual) \cup {a}
  BY <1>1, <1>2, AfterNext
<1>4. a \notin After(b, UndoActual)
  BY <1>1, <1>2, TopIsLast
<1>5. After(UndoBase, UndoActual) \subseteq InUse
  BY <1>1, AfterMonotone DEF IInv, RingInOrder, InUse
<1>6. CASE a = UndoBase
  <2>1. After(UndoBase, UndoActual) = Cells \ {a}
    BY <1>1, <1>6, AfterFull
  <2>2. After(b, UndoActual) \subseteq Cells
    BY DEF After
  <2> QED
    BY <1>2, <1>3, <1>4, <1>5, <2>1, <2>2
<1>7. CASE a # UndoBase
  <2>1. b = UndoBase
    BY <1>7
  <2> QED
    BY <1>2, <1>3, <1>4, <1>5, <2>1
<1> QED
  BY <1>6, <1>7

(* What is undone next is left of the place in the ring. *)
LEMMA InsideUndoable ==
  ASSUME IInv, NEW b \in Cells, b \in After(UndoBase, UndoActual) \cup {UndoBase},
         NEW i \in After(b, UndoActual)
  PROVE  /\ i \in Cells /\ UndoActual # b /\ UndoActual # UndoBase
         /\ i # UndoActual => IncWithWrap(i) \in After(b, UndoActual)
<1>1. UndoActual \in Cells /\ UndoBase \in Cells
  BY RingPlaces
<1>2. i \in Cells /\ UndoActual # b
  <2>1. After(b, UndoActual) \subseteq Cells
    BY DEF After
  <2>2. After(UndoActual, UndoActual) = {}
    BY <1>1, AfterFull
  <2> QED
    BY <2>1, <2>2
<1>3. UndoActual # UndoBase
  <2>1. After(UndoActual, UndoActual) = {}
    BY <1>1, AfterFull
  <2> QED
    BY <1>2, <2>1
<1>4. i # UndoActual => IncWithWrap(i) \in After(b, UndoActual)
  BY <1>1, StepUp
<1> QED
  BY <1>2, <1>3, <1>4

(* The ring and the memory after a new cell. *)
Pushed(c, a, b) ==
  /\ UndoBase' = b /\ UndoActual' = a /\ UndoTop' = a /\ UndoSt' = c.Type
  /\ UndoArray'[a] = c
  /\ snap'[a].pre = doc /\ snap'[a].post = doc'
  /\ \A i \in Cells : i # a => snap'[i] = snap[i]
  /\ b = a => InUse' = {}
  /\ b # a =>
       /\ InUse' = After(b, UndoActual) \cup {a}
       /\ \A i \in After(b, UndoActual) :
            /\ i # UndoActual => UndoArray'[i] = UndoArray[i]
            /\ i = UndoActual => UndoArray'[i] = UndoSaveFinalState(Open)

LEMMA PushMemory ==
  ASSUME HInv, MemoryOK', Watch, NEW c \in UndoCell, c.Type # undoNoUndo, AddToUndo(c),
         NEW a, a = IncWithWrap(UndoActual)
  PROVE  \E b \in IF a = UndoBase THEN EvictTo(a) ELSE {UndoBase} : Pushed(c, a, b)
<1>1. /\ UndoActual \in Cells /\ UndoBase \in Cells /\ UndoTop \in Cells
      /\ a \in Cells /\ a # UndoActual /\ IInv
  BY RingPlaces DEF HInv
<1> DEFINE prev == UndoSaveFinalState(Open)
           closed == [UndoArray EXCEPT ![UndoActual] = prev]
<1>2. PICK b \in IF a = UndoBase THEN EvictTo(a) ELSE {UndoBase} :
        /\ UndoArray' = [i \in Cells |-> IF i = a THEN c
                                         ELSE IF i \in Kept(a, b) THEN closed[i]
                                         ELSE Freed(closed[i])]
        /\ UndoBase' = b /\ UndoActual' = a /\ UndoTop' = a /\ UndoSt' = c.Type
  BY DEF AddToUndo, Push, PushAfter
<1>3. \A i \in Cells : /\ i # UndoActual => closed[i] = UndoArray[i]
                       /\ i = UndoActual => closed[i] = prev
  BY DEF HInv, IInv, TypeOK
<1> HIDE DEF prev, closed
<1>4. /\ UndoArray'[a] = c
      /\ \A i \in Kept(a, b) : i \in Cells /\ i # a => UndoArray'[i] = closed[i]
  BY <1>1, <1>2
<1>5. /\ snap'[a].pre = doc /\ snap'[a].post = doc'
      /\ \A i \in Cells : i # a => snap'[i] = snap[i]
  <2> DEFINE r == [pre |-> doc, post |-> doc', first |-> ~dirty]
  <2>1. snap' = [snap EXCEPT ![a] = r]
    BY <1>1, <1>2 DEF Watch
  <2>2. r.pre = doc /\ r.post = doc'
    OBVIOUS
  <2> HIDE DEF r
  <2> QED
    BY <1>1, <2>1, <2>2 DEF HInv, MemoryOK
<1>6. b = a => InUse' = {}
  BY <1>1, <1>2, AfterFull DEF InUse, After
<1>7. ASSUME b # a
      PROVE  /\ InUse' = After(b, UndoActual) \cup {a}
             /\ \A i \in After(b, UndoActual) :
                  /\ i # UndoActual => UndoArray'[i] = UndoArray[i]
                  /\ i = UndoActual => UndoArray'[i] = prev
  <2>1. /\ After(b, a) = After(b, UndoActual) \cup {a} /\ a \notin After(b, UndoActual)
    BY <1>1, <1>7, PushRing
  <2>2. InUse' = After(b, a)
    BY <1>2 DEF InUse, After
  <2>3. \A i \in After(b, UndoActual) : i \in Cells /\ i # a /\ i \in Kept(a, b)
    BY <1>7, <2>1 DEF Kept, After
  <2> QED
    BY <1>3, <1>4, <2>1, <2>2, <2>3
<1>8. Pushed(c, a, b)
  BY <1>2, <1>4, <1>5, <1>6, <1>7 DEF Pushed, prev
<1> QED
  BY <1>8

(* A new cell. *)
LEMMA PushHInv ==
  ASSUME HInv, IInv', MemoryOK', Watch, NEW c, NewRecord(c), cur' <= Len(text'),
         UNCHANGED noMoveToEnd, NEW a, a = IncWithWrap(UndoActual),
         NEW b \in IF a = UndoBase THEN EvictTo(a) ELSE {UndoBase}, Pushed(c, a, b)
  PROVE  HInv'
<1>1. /\ UndoActual \in Cells /\ UndoBase \in Cells /\ UndoTop \in Cells
      /\ a \in Cells /\ a # UndoActual /\ IInv
  BY RingPlaces DEF HInv
<1>2. /\ c \in UndoCell /\ c.Type # undoNoUndo /\ "undoOverWriteF" \notin c.Flags
      /\ Records(c, doc, doc')
  BY DEF NewRecord, Starts
<1>3. UndoActual' = a /\ UndoTop' = a /\ UndoSt' = c.Type /\ UndoArray'[a] = c
      /\ snap'[a].pre = doc /\ snap'[a].post = doc'
  BY DEF Pushed
<1>4. Placed'
  BY DEF HInv, Placed
<1>5. Here'
  BY <1>3 DEF Here
<1>6. OpenEnd'
  BY <1>2, <1>3 DEF OpenEnd, Open
<1>7. CASE b = a
  <2>1. InUse' = {}
    BY <1>7 DEF Pushed
  <2> QED
    BY <1>4, <1>5, <1>6, <2>1 DEF HInv, Recorded, Linked, Closed
<1>8. CASE b # a
  <2>1. /\ b \in Cells /\ b \in After(UndoBase, UndoActual) \cup {UndoBase}
        /\ After(b, UndoActual) \subseteq InUse /\ a \notin After(b, UndoActual)
    BY <1>1, <1>8, PushRing
  <2>2. ASSUME NEW i \in After(b, UndoActual)
        PROVE  /\ i \in InUse /\ i \in Cells /\ i # a /\ UndoActual # UndoBase
               /\ snap'[i] = snap[i]
               /\ i # UndoActual => IncWithWrap(i) \in After(b, UndoActual)
               /\ i # UndoActual => UndoArray'[i] = UndoArray[i]
               /\ i = UndoActual => UndoArray'[i] = UndoSaveFinalState(Open)
    <3>1. /\ i \in Cells /\ UndoActual # UndoBase
          /\ i # UndoActual => IncWithWrap(i) \in After(b, UndoActual)
      BY <1>1, <2>1, <2>2, InsideUndoable
    <3> QED
      BY <1>8, <2>1, <2>2, <3>1 DEF Pushed
  <2>3. InUse' = After(b, UndoActual) \cup {a}
    BY <1>8 DEF Pushed
  <2>4. Recorded'
    <3> SUFFICES ASSUME NEW i \in After(b, UndoActual)
                 PROVE  Records(UndoArray'[i], snap'[i].pre, snap'[i].post)
      BY <1>2, <1>3, <2>3 DEF Recorded
    <3>1. CASE i # UndoActual
      BY <2>2, <3>1 DEF HInv, Recorded
    <3>2. CASE i = UndoActual
      <4>1. /\ SameCell(Open, UndoSaveFinalState(Open))
            /\ Records(Open, snap[UndoActual].pre, doc)
        BY <2>2, FinalState
      <4>2. snap'[i].pre = snap[UndoActual].pre /\ snap'[i].post = doc
        BY <2>2, <3>2 DEF HInv, Here
      <4>3. Records(UndoSaveFinalState(Open), snap[UndoActual].pre, doc)
        BY <4>1, SameRecords
      <4> QED
        BY <2>2, <3>2, <4>2, <4>3
    <3> QED
      BY <3>1, <3>2
  <2>5. Linked'
    <3> SUFFICES ASSUME NEW i \in InUse', IncWithWrap(i) \in InUse'
                 PROVE  snap'[i].post = snap'[IncWithWrap(i)].pre
      BY DEF Linked
    <3>1. CASE i = a
      <4>1. IncWithWrap(a) \notin After(b, a)
        BY <1>1, <2>1, TopIsLast
      <4>2. InUse' = After(b, a)
        BY <1>1, <1>8, <2>3, PushRing
      <4> QED
        BY <3>1, <4>1, <4>2
    <3>2. CASE i = UndoActual
      <4>1. i \in After(b, UndoActual) /\ IncWithWrap(i) = a
        BY <1>1, <2>3, <3>2
      <4>2. snap'[i].post = doc
        BY <2>2, <3>2, <4>1 DEF HInv, Here
      <4> QED
        BY <1>3, <4>1, <4>2
    <3>3. CASE i # a /\ i # UndoActual
      <4>1. i \in After(b, UndoActual)
        BY <2>3, <3>3
      <4>2. IncWithWrap(i) \in After(b, UndoActual)
        BY <2>2, <3>3, <4>1
      <4>3. snap[i].post = snap[IncWithWrap(i)].pre
        BY <2>1, <4>1, <4>2 DEF HInv, Linked
      <4> QED
        BY <2>2, <4>1, <4>2, <4>3
    <3> QED
      BY <3>1, <3>2, <3>3
  <2>6. Closed'
    <3> SUFFICES ASSUME NEW i \in After(b, UndoActual)
                 PROVE  Finished(UndoArray'[i], snap'[i].post)
      BY <1>2, <1>3, <2>3 DEF Closed
    <3>1. CASE i # UndoActual
      BY <2>2, <3>1 DEF HInv, Closed
    <3>2. CASE i = UndoActual
      <4>1. Finished(UndoSaveFinalState(Open), doc)
        BY <2>2, FinalState
      <4>2. snap'[i].post = doc
        BY <2>2, <3>2 DEF HInv, Here
      <4> QED
        BY <2>2, <3>2, <4>1, <4>2
    <3> QED
      BY <3>1, <3>2
  <2> QED
    BY <1>4, <1>5, <1>6, <2>4, <2>5, <2>6 DEF HInv
<1> QED
  BY <1>7, <1>8

-----------------------------------------------------------------------------
(* The cell at UndoActual is taken back. *)
LEMMA UndoHInv ==
  ASSUME HInv, IInv', MemoryOK', Watch, UndoOneAction, UndoActual # UndoBase,
         UNCHANGED noMoveToEnd
  PROVE  /\ HInv' /\ UNCHANGED <<UndoBase, UndoTop, snap>>
         /\ UndoActual' = DecWithWrap(UndoActual) /\ doc' = snap[UndoActual].pre
<1> DEFINE un == IF UndoSt # undoNoUndo THEN UndoSaveFinalState(Open) ELSE Open
           p == snap[UndoActual].pre
<1>1. /\ UndoActual \in Cells /\ UndoBase \in Cells /\ UndoTop \in Cells
      /\ UndoActual \in InUse /\ InUse \subseteq Cells /\ IInv /\ TypeOK
      /\ DecWithWrap(UndoActual) \in Cells
  BY RingPlaces DEF HInv, IInv
<1>2. /\ UndoArray' = [UndoArray EXCEPT ![UndoActual] = un]
      /\ text' = Undone(un).text /\ cur' = ClipTo(Undone(un).text, Undone(un).cur)
      /\ overwrite' = ("undoOverWrite" \in un.Flags) /\ UndoSt' = undoNoUndo
      /\ UndoActual' = DecWithWrap(UndoActual) /\ UNCHANGED <<UndoBase, UndoTop>>
  BY DEF UndoOneAction, CloseCell
<1>3. snap' = snap
  BY <1>2 DEF Watch
<1>4. snap[UndoActual].post = doc /\ p \in Docs /\ doc \in Docs
  BY <1>1, DocTypes DEF HInv, Here, MemoryOK
<1>5. un \in UndoCell /\ SameCell(Open, un) /\ Finished(un, doc)
  <2>1. CASE UndoSt # undoNoUndo
    BY <2>1, FinalState
  <2>2. CASE UndoSt = undoNoUndo
    <3>1. Finished(Open, doc)
      BY <1>1, <1>4, <2>2 DEF HInv, Closed, Open
    <3>2. Open \in UndoCell /\ SameCell(Open, Open)
      BY <1>1 DEF TypeOK, Open, SameCell
    <3> QED
      BY <2>2, <3>1, <3>2
  <2> QED
    BY <2>1, <2>2
<1> HIDE DEF un
<1>6. Records(un, p, doc)
  BY <1>5, FinalState, SameRecords
<1> HIDE DEF p
<1>7. Undone(un).text = p.text /\ ClipTo(Undone(un).text, Undone(un).cur) = p.cur
  <2>1. un.Xf = doc.cur /\ text = doc.text /\ cur = doc.cur
    BY <1>5, DocIs DEF Finished
  <2> QED
    BY <1>4, <1>5, <1>6, <2>1, UndoesRecord
<1>8. doc' = p /\ cur' <= Len(text')
  <2>1. overwrite' = p.overwrite
    <3>1. ("undoOverWrite" \in un.Flags) <=> p.overwrite
      BY <1>6 DEF Records
    <3>2. p.overwrite \in BOOLEAN
      BY <1>4, DocFields
    <3> QED
      BY <1>2, <3>1, <3>2
  <2>2. doc' = p
    BY <1>2, <1>4, <1>7, <2>1, DocEqual DEF IInv
  <2> QED
    BY <1>2, <1>6, <1>7, <2>2 DEF Records
<1>9. /\ \A i \in Cells : i # UndoActual => UndoArray'[i] = UndoArray[i]
      /\ UndoArray'[UndoActual] = un
  BY <1>1, <1>2 DEF TypeOK
<1>10. InUse' = InUse
  BY <1>2 DEF InUse, After
<1>11. Placed'
  BY <1>8 DEF HInv, Placed
<1>12. Recorded'
  <2> SUFFICES ASSUME NEW i \in InUse
               PROVE  Records(UndoArray'[i], snap[i].pre, snap[i].post)
    BY <1>3, <1>10 DEF Recorded
  <2> QED
    BY <1>1, <1>4, <1>6, <1>9 DEF HInv, Recorded, p
<1>13. Linked'
  BY <1>3, <1>10 DEF HInv, Linked
<1>14. IncWithWrap(DecWithWrap(UndoActual)) = UndoActual
  BY <1>1, MaxUndoAssumption DEF Cells, IncWithWrap, DecWithWrap
<1>15. Here'
  <2>1. UndoActual' # UndoBase => UndoActual' \in InUse
    BY <1>1, <1>2, StepDown DEF InUse
  <2>2. UndoActual' # UndoBase => snap[UndoActual'].post = p
    BY <1>1, <1>2, <1>14, <2>1 DEF HInv, Linked, p
  <2> QED
    BY <1>2, <1>3, <1>8, <1>14, <2>2 DEF Here, p
<1>16. Closed'
  <2> SUFFICES ASSUME NEW i \in InUse
               PROVE  Finished(UndoArray'[i], snap[i].post)
    BY <1>3, <1>10 DEF Closed
  <2> QED
    BY <1>1, <1>4, <1>5, <1>9 DEF HInv, Closed
<1>17. OpenEnd'
  BY <1>2 DEF OpenEnd
<1> QED
  BY <1>2, <1>3, <1>8, <1>11, <1>12, <1>13, <1>15, <1>16, <1>17 DEF HInv, p

(* The cell after UndoActual is done again. *)
LEMMA RedoHInv ==
  ASSUME HInv, IInv', MemoryOK', Watch, RedoOneAction, UndoActual # UndoTop,
         UNCHANGED noMoveToEnd
  PROVE  /\ HInv' /\ UNCHANGED <<UndoBase, UndoTop, snap>>
         /\ UndoActual' = IncWithWrap(UndoActual)
         /\ doc' = snap[IncWithWrap(UndoActual)].post
<1> DEFINE a == IncWithWrap(UndoActual)
           c == UndoArray[a]
           q == snap[a].post
<1>1. /\ UndoActual \in Cells /\ UndoBase \in Cells /\ UndoTop \in Cells
      /\ a \in Cells /\ a \in InUse /\ InUse \subseteq Cells /\ IInv /\ TypeOK
      /\ a # UndoActual
  BY RingPlaces DEF HInv, IInv
<1> HIDE DEF a
<1>2. /\ text' = Redone(c).text /\ cur' = ClipTo(Redone(c).text, Redone(c).cur)
      /\ overwrite' = ("undoOverWriteF" \in c.Flags) /\ UndoSt' = undoNoUndo
      /\ UndoActual' = a /\ UNCHANGED <<UndoArray, UndoBase, UndoTop>>
  BY DEF RedoOneAction, CloseCell, a
<1>3. snap' = snap
  BY <1>2 DEF Watch
<1>4. snap[a].pre = doc /\ q \in Docs /\ doc \in Docs
  BY <1>1, DocTypes DEF HInv, Here, MemoryOK, a
<1>5. c \in UndoCell /\ Finished(c, q) /\ Records(c, doc, q)
  BY <1>1, <1>4 DEF HInv, Closed, Recorded, TypeOK
<1> HIDE DEF c, q
<1>6. Redone(c).text = q.text /\ ClipTo(Redone(c).text, Redone(c).cur) = q.cur
  <2>1. c.Xf = q.cur /\ text = doc.text /\ cur = doc.cur /\ noMoveToEnd = FALSE
    BY <1>5, DocIs DEF Finished, HInv, Placed
  <2> QED
    BY <1>4, <1>5, <2>1, RedoesRecord
<1>7. doc' = q /\ cur' <= Len(text')
  <2>1. overwrite' = q.overwrite
    <3>1. ("undoOverWriteF" \in c.Flags) <=> q.overwrite
      BY <1>5 DEF Finished
    <3>2. q.overwrite \in BOOLEAN
      BY <1>4, DocFields
    <3> QED
      BY <1>2, <3>1, <3>2
  <2>2. doc' = q
    BY <1>2, <1>4, <1>6, <2>1, DocEqual DEF IInv
  <2> QED
    BY <1>2, <1>5, <1>6, <2>2 DEF Records
<1>8. InUse' = InUse
  BY <1>2 DEF InUse, After
<1>9. Placed'
  BY <1>7 DEF HInv, Placed
<1>10. Recorded' /\ Linked'
  BY <1>2, <1>3, <1>8 DEF HInv, Recorded, Linked
<1>11. Here'
  <2>1. a # UndoTop => IncWithWrap(a) \in InUse
    BY <1>1, StepUp DEF InUse
  <2>2. a # UndoTop => snap[IncWithWrap(a)].pre = q
    BY <1>1, <2>1 DEF HInv, Linked, q
  <2> QED
    BY <1>2, <1>3, <1>7, <2>2 DEF Here, q
<1>12. Closed'
  <2>1. UndoSt = undoNoUndo
    BY DEF HInv, OpenEnd
  <2> QED
    BY <1>2, <1>3, <1>8, <2>1 DEF HInv, Closed
<1>13. OpenEnd'
  BY <1>2 DEF OpenEnd
<1> QED
  BY <1>2, <1>3, <1>7, <1>9, <1>10, <1>11, <1>12, <1>13 DEF HInv, a, q

(* An empty ring. *)
LEMMA FlushHInv ==
  ASSUME IInv', MemoryOK', NEW n \in Cells, UndoBase' = n, UndoActual' = n, UndoTop' = n,
         cur' <= Len(text'), noMoveToEnd' = FALSE
  PROVE  HInv'
<1>1. InUse' = {}
  BY AfterFull DEF InUse, After
<1>2. Placed' /\ Recorded' /\ Linked' /\ Closed'
  BY <1>1 DEF Placed, Recorded, Linked, Closed
<1>3. Here' /\ OpenEnd'
  BY DEF Here, OpenEnd
<1> QED
  BY <1>2, <1>3 DEF HInv

-----------------------------------------------------------------------------
(* What a step does to the line, the ring and the memory of it. *)
Stays == /\ UNCHANGED <<UndoBase, UndoActual, UndoTop>> /\ doc' = doc
         /\ \A i \in InUse : snap'[i] = snap[i]

Amends == /\ UNCHANGED <<UndoBase, UndoActual, UndoTop>> /\ UndoActual = UndoTop
          /\ \A i \in InUse : snap'[i].pre = snap[i].pre

Pushes ==
  LET a == IncWithWrap(UndoActual)
  IN  \E c : \E b \in IF a = UndoBase THEN EvictTo(a) ELSE {UndoBase} : Pushed(c, a, b)

Undoes == /\ UndoActual # UndoBase /\ UNCHANGED <<UndoBase, UndoTop, snap>>
          /\ UndoActual' = DecWithWrap(UndoActual) /\ doc' = snap[UndoActual].pre

Redoes == /\ UndoActual # UndoTop /\ UNCHANGED <<UndoBase, UndoTop, snap>>
          /\ UndoActual' = IncWithWrap(UndoActual)
          /\ doc' = snap[IncWithWrap(UndoActual)].post

Flushes == UndoActual' = UndoBase' /\ UndoTop' = UndoBase'

HStep == Stays \/ Amends \/ Pushes \/ Undoes \/ Redoes \/ Flushes

(* A step that changes at most the marks of a saved text. *)
LEMMA QuietStep ==
  ASSUME HInv, IInv', MemoryOK', Watch \/ UNCHANGED snap,
         UNCHANGED <<UndoBase, UndoActual, UndoTop, UndoSt, text, cur, overwrite, noMoveToEnd>>,
         UNCHANGED UndoArray \/ RevertModifFlagInUndo
  PROVE  HInv' /\ Stays
<1>1. \A i \in Cells : SameCell(UndoArray[i], UndoArray'[i])
                       /\ UndoArray'[i].Xf = UndoArray[i].Xf
                       /\ ("undoOverWriteF" \in UndoArray'[i].Flags
                             <=> "undoOverWriteF" \in UndoArray[i].Flags)
  <2>1. CASE UNCHANGED UndoArray
    BY <2>1 DEF SameCell
  <2>2. CASE RevertModifFlagInUndo
    <3> SUFFICES ASSUME NEW i \in Cells
                 PROVE  /\ SameCell(UndoArray[i], UndoArray'[i])
                        /\ UndoArray'[i].Xf = UndoArray[i].Xf
                        /\ ("undoOverWriteF" \in UndoArray'[i].Flags
                              <=> "undoOverWriteF" \in UndoArray[i].Flags)
      OBVIOUS
    <3> DEFINE c == UndoArray[i]
               d == UndoArray'[i]
    <3>1. c \in UndoCell
      BY DEF HInv, IInv, TypeOK
    <3>2. d = [c EXCEPT !.Flags = @ \cup {"undoModified"}]
      BY <2>2 DEF RevertModifFlagInUndo
    <3> HIDE DEF c, d
    <3>3. /\ d.Type = c.Type /\ d.X = c.X /\ d.Xf = c.Xf /\ d.s = c.s /\ d.s2 = c.s2
          /\ d.OffSet = c.OffSet /\ d.Length = c.Length
          /\ d.Flags = c.Flags \cup {"undoModified"}
      BY <3>1, <3>2 DEF UndoCell
    <3>4. /\ "undoOverWrite" \in d.Flags <=> "undoOverWrite" \in c.Flags
          /\ "undoOverWriteF" \in d.Flags <=> "undoOverWriteF" \in c.Flags
      BY <3>3
    <3> QED
      BY <3>3, <3>4 DEF SameCell, c, d
  <2> QED
    BY <2>1, <2>2
<1>2. /\ HInv' /\ doc' = doc
      /\ \A i \in InUse : snap'[i] = snap[i]
  BY <1>1, QuietHInv
<1> QED
  BY <1>2 DEF Stays

LEMMA EditStep ==
  ASSUME HInv, Invertible, IInv', MemoryOK', Watch, Edit
  PROVE  HInv' /\ HStep
<1>1. Good
  BY DEF HInv, IInv, Placed, Good
<1>2. Recording
  BY <1>1, EditRecords
<1>3. UNCHANGED noMoveToEnd
  BY DEF Edit, PutChar, OvrPutChar, BackSpace, DelChar, Move, ToggleInsMode, DelEnd, DelStart,
         DeleteRangeLineInEdition, DeleteSelect, InsertBuffer, SelRectHide, EditFrame
<1>4. ASSUME NEW c, NewRecord(c)
      PROVE  HInv' /\ Pushes
  <2> DEFINE a == IncWithWrap(UndoActual)
  <2>1. c \in UndoCell /\ c.Type # undoNoUndo /\ AddToUndo(c)
    BY <1>4 DEF NewRecord, Starts
  <2>2. PICK b \in IF a = UndoBase THEN EvictTo(a) ELSE {UndoBase} : Pushed(c, a, b)
    BY <2>1, PushMemory
  <2>3. HInv'
    BY <1>2, <1>3, <1>4, <2>2, PushHInv DEF Recording
  <2> QED
    BY <2>2, <2>3 DEF Pushes
<1>5. ASSUME NEW m, MoreRecord(m)
      PROVE  HInv' /\ Amends
  BY <1>2, <1>3, <1>5, MergeHInv DEF Recording, Amends
<1> QED
  BY <1>2, <1>4, <1>5 DEF Recording, HStep

LEMMA UndoStep ==
  ASSUME HInv, IInv', MemoryOK', Watch, UndoNext
  PROVE  HInv' /\ HStep
<1>1. UndoOneAction /\ UNCHANGED noMoveToEnd
  BY DEF UndoNext, Undo, UndoMore, UndoFrame
<1>2. CASE UndoActual = UndoBase
  <2>1. UNCHANGED <<UndoArray, UndoBase, UndoActual, UndoTop, UndoSt, text, cur, overwrite>>
    BY <1>1, <1>2 DEF UndoOneAction, ring, editor
  <2> QED
    BY <1>1, <2>1, QuietStep DEF HStep
<1>3. CASE UndoActual # UndoBase
  BY <1>1, <1>3, UndoHInv DEF HStep, Undoes
<1> QED
  BY <1>2, <1>3

LEMMA RedoStep ==
  ASSUME HInv, IInv', MemoryOK', Watch, RedoNext
  PROVE  HInv' /\ HStep
<1>1. CASE Redo \/ RedoMore
  <2>1. RedoOneAction /\ UNCHANGED noMoveToEnd /\ UndoActual # UndoTop
    BY <1>1 DEF Redo, RedoMore, RedoFrame, HInv, IInv, RedoShortOfTop
  <2> QED
    BY <2>1, RedoHInv DEF HStep, Redoes
<1>2. CASE RedoReturn
  <2>1. UNCHANGED <<UndoArray, UndoBase, UndoActual, UndoTop, UndoSt, text, cur, overwrite,
                    noMoveToEnd>>
    BY <1>2 DEF RedoReturn, ring, editor, RedoFrame
  <2> QED
    BY <2>1, QuietStep DEF HStep
<1> QED
  BY <1>1, <1>2 DEF RedoNext

LEMMA WholeStep ==
  ASSUME HInv, Invertible, IInv', MemoryOK', Watch, Whole
  PROVE  HInv' /\ HStep
<1>0. /\ TypeOK /\ cur <= Len(text) /\ noMoveToEnd = FALSE /\ UndoBase \in Cells
      /\ cur \in Nat /\ text \in Seq(Chars)
  BY DEF HInv, IInv, Placed, TypeOK
<1>1. ASSUME NEW f \in [Chars -> Chars], RemapCodePageBuffer(f)
      PROVE  HInv' /\ HStep
  <2>1. /\ UndoBase' = UndoBase /\ UndoActual' = UndoBase /\ UndoTop' = UndoBase
        /\ text' = [k \in DOMAIN text |-> f[text[k]]] /\ cur' = cur
        /\ noMoveToEnd' = noMoveToEnd
    BY <1>1 DEF RemapCodePageBuffer, FlushUndoInfo
  <2>2. text' \in Seq(Chars) /\ DOMAIN text' = DOMAIN text
    BY <2>1 DEF IInv, TypeOK
  <2>3. Len(text') = Len(text)
    BY <1>0, <2>2
  <2> QED
    BY <1>0, <2>1, <2>3, FlushHInv DEF HStep, Flushes
<1>2. ASSUME ReLoadFile
      PROVE  HInv' /\ HStep
  <2>1. /\ UndoBase' = 0 /\ UndoActual' = 0 /\ UndoTop' = 0 /\ cur' = 0
        /\ noMoveToEnd' = noMoveToEnd
    BY <1>2 DEF ReLoadFile
  <2>2. 0 \in Cells
    BY MaxUndoAssumption DEF Cells
  <2>3. cur' <= Len(text')
    <3>1. text' \in Seq(Chars)
      BY DEF IInv, TypeOK
    <3> QED
      BY <2>1, <3>1
  <2> QED
    BY <1>0, <2>1, <2>2, <2>3, FlushHInv DEF HStep, Flushes
<1>3. ASSUME SaveFile
      PROVE  HInv' /\ HStep
  <2>1. /\ UNCHANGED <<UndoBase, UndoActual, UndoTop, UndoSt, text, cur, overwrite, noMoveToEnd>>
        /\ RevertModifFlagInUndo
    BY <1>3 DEF SaveFile, editor
  <2> QED
    BY <2>1, QuietStep DEF HStep
<1> QED
  BY <1>1, <1>2, <1>3 DEF Whole, Invertible

LEMMA NextHInv ==
  ASSUME HInv, Invertible, [HNext]_hvars
  PROVE  HInv' /\ HStep
<1>1. CASE UNCHANGED hvars
  <2>1. /\ UNCHANGED <<UndoArray, UndoBase, UndoActual, UndoTop, UndoSt, text, cur, overwrite>>
        /\ UNCHANGED <<snap, dirty, noMoveToEnd, vars>>
    BY <1>1 DEF hvars, vars, ring, editor
  <2>2. IInv'
    BY <2>1, NextIInv DEF HInv
  <2>3. MemoryOK'
    BY <2>1 DEF HInv, MemoryOK
  <2> QED
    BY <2>1, <2>2, <2>3, QuietStep DEF HStep
<1>2. CASE HNext
  <2>1. IInv' /\ Watch /\ Next
    BY <1>2, NextIInv DEF HNext, HInv
  <2>2. MemoryOK'
    BY <2>1, WatchTypes DEF HInv, IInv
  <2>3. CASE Group
    <3>1. UNCHANGED <<UndoArray, UndoBase, UndoActual, UndoTop, UndoSt, text, cur, overwrite,
                      noMoveToEnd>>
      BY <2>3 DEF Group, LockUndo, UnlockUndo, OvrPutCharNoRoom, ring, editor
    <3> QED
      BY <2>1, <2>2, <3>1, QuietStep DEF HStep
  <2> QED
    BY <2>1, <2>2, <2>3, EditStep, UndoStep, RedoStep, WholeStep DEF Next
<1> QED
  BY <1>1, <1>2

LEMMA InitHInv == HInit => HInv
<1> SUFFICES ASSUME HInit PROVE HInv
  OBVIOUS
<1>1. IInv
  BY InitIInv DEF HInit
<1>2. MemoryOK
  <2>1. doc \in Docs
    BY <1>1, DocTypes DEF IInv
  <2> QED
    BY <2>1 DEF HInit, MemoryOK
<1>3. InUse = {}
  <2>1. 0 \in Cells
    BY MaxUndoAssumption DEF Cells
  <2> QED
    BY <2>1, AfterFull DEF HInit, Init, InUse
<1>4. Placed
  <2>1. cur = 0 /\ text = <<>> /\ noMoveToEnd = FALSE
    BY DEF HInit, Init
  <2> QED
    BY <2>1 DEF Placed
<1>5. Recorded /\ Linked /\ Closed
  BY <1>3 DEF Recorded, Linked, Closed
<1>6. Here /\ OpenEnd
  BY DEF HInit, Init, Here, OpenEnd
<1> QED
  BY <1>1, <1>2, <1>4, <1>5, <1>6 DEF HInv

-----------------------------------------------------------------------------
(* The arithmetic of the ring: cells counted up from another one. *)

LEMMA NthIs ==
  ASSUME NEW a \in Cells, NEW k \in 0 .. MAX_UNDO - 1
  PROVE  Nth(a, k) = IF a + k < MAX_UNDO THEN a + k ELSE a + k - MAX_UNDO
BY MaxUndoAssumption DEF Nth, Cells

LEMMA StepsType ==
  ASSUME NEW a \in Cells, NEW b \in Cells
  PROVE  /\ Steps(a, b) \in 0 .. MAX_UNDO - 1
         /\ Steps(a, b) = 0 <=> a = b
BY MaxUndoAssumption DEF Steps, Cells

LEMMA NthAfter ==
  ASSUME NEW a \in Cells, NEW b \in Cells, NEW k \in 1 .. Steps(a, b)
  PROVE  Nth(a, k) \in After(a, b)
<1>1. k \in 0 .. MAX_UNDO - 1
  BY StepsType, MaxUndoAssumption
<1> QED
  BY <1>1, NthIs, MaxUndoAssumption DEF Steps, Cells, After

LEMMA NthLast ==
  ASSUME NEW a \in Cells, NEW b \in Cells
  PROVE  Nth(a, Steps(a, b)) = b
<1>1. Steps(a, b) \in 0 .. MAX_UNDO - 1
  BY StepsType
<1> QED
  BY <1>1, NthIs, MaxUndoAssumption DEF Steps, Cells

LEMMA NthNext ==
  ASSUME NEW a \in Cells, NEW k \in 0 .. MAX_UNDO - 2
  PROVE  /\ Nth(a, 1) = IncWithWrap(a)
         /\ Nth(a, k + 1) = Nth(IncWithWrap(a), k)
<1>1. k \in 0 .. MAX_UNDO - 1 /\ k + 1 \in 0 .. MAX_UNDO - 1 /\ 1 \in 0 .. MAX_UNDO - 1
  BY MaxUndoAssumption
<1>2. IncWithWrap(a) \in Cells
  BY MaxUndoAssumption DEF Cells, IncWithWrap
<1> QED
  BY <1>1, <1>2, NthIs, MaxUndoAssumption DEF Cells, IncWithWrap

LEMMA NthFrom ==
  ASSUME NEW a \in Cells, NEW b \in Cells, NEW m \in After(a, b) \cup {a},
         NEW k \in 1 .. Steps(m, b)
  PROVE  /\ Steps(a, b) = Steps(a, m) + Steps(m, b)
         /\ Nth(a, Steps(a, m) + k) = Nth(m, k)
<1>1. m \in Cells
  BY DEF After
<1>2. Steps(a, b) = Steps(a, m) + Steps(m, b)
  BY <1>1, MaxUndoAssumption DEF After, Cells, Steps
<1>3. k \in 0 .. MAX_UNDO - 1 /\ Steps(a, m) + k \in 0 .. MAX_UNDO - 1
  BY <1>1, <1>2, StepsType, MaxUndoAssumption
<1> QED
  BY <1>1, <1>2, <1>3, NthIs, MaxUndoAssumption DEF Cells, Steps

LEMMA StepsApart ==
  ASSUME NEW a \in Cells, NEW b \in Cells, NEW m \in After(a, b) \cup {a}
  PROVE  Steps(a, b) = Steps(a, m) + Steps(m, b)
BY MaxUndoAssumption DEF After, Cells, Steps

LEMMA StepsUp ==
  ASSUME NEW a \in Cells, NEW b \in Cells
  PROVE  /\ IncWithWrap(b) # a => Steps(a, IncWithWrap(b)) = Steps(a, b) + 1
         /\ a # b => Steps(IncWithWrap(a), b) = Steps(a, b) - 1
BY MaxUndoAssumption DEF Steps, Cells, IncWithWrap

LEMMA StepsDown ==
  ASSUME NEW a \in Cells, NEW b \in Cells
  PROVE  /\ a # b => Steps(a, DecWithWrap(b)) = Steps(a, b) - 1
         /\ DecWithWrap(a) # b => Steps(DecWithWrap(a), b) = Steps(a, b) + 1
BY MaxUndoAssumption DEF Steps, Cells, DecWithWrap

(* Histories: sequences of documents. *)
LEMMA NoDocs ==
  ASSUME NEW t \in Seq(Docs), Len(t) = 0
  PROVE  t = <<>>
BY EmptySeq

LEMMA DocsEqual ==
  ASSUME NEW s \in Seq(Docs), NEW t \in Seq(Docs), Len(t) = Len(s),
         \A k \in 1 .. Len(s) : t[k] = s[k]
  PROVE  t = s
BY SeqEqual

LEMMA LastDocLess ==
  ASSUME NEW s \in Seq(Docs), NEW t \in Seq(Docs), Len(s) > 0, Len(t) = Len(s) - 1,
         \A k \in 1 .. Len(t) : t[k] = s[k]
  PROVE  s # <<>> /\ t = SubSeq(s, 1, Len(s) - 1)
<1> DEFINE r == SubSeq(s, 1, Len(s) - 1)
<1>1. Len(s) \in Nat /\ \A i \in 1 .. Len(s) - 1 : s[i] \in Docs
  BY ElementOfSeq
<1>2. /\ r \in Seq(Docs) /\ Len(r) = Len(s) - 1
      /\ \A i \in 1 .. Len(s) - 1 : r[i] = s[i]
  <2>1. /\ r \in Seq(Docs) /\ Len(r) = IF 1 <= Len(s) - 1 THEN Len(s) - 1 - 1 + 1 ELSE 0
        /\ \A i \in 1 .. Len(s) - 1 - 1 + 1 : r[i] = s[1 + i - 1]
    BY <1>1, SubSeqProperties
  <2> HIDE DEF r
  <2> QED
    BY <1>1, <2>1
<1> HIDE DEF r
<1>3. t = r
  BY <1>2, DocsEqual
<1> QED
  BY <1>3 DEF r

LEMMA DocBefore ==
  ASSUME NEW s \in Seq(Docs), NEW t \in Seq(Docs), NEW d \in Docs, Len(t) = Len(s) + 1,
         t[1] = d, \A k \in 1 .. Len(s) : t[k + 1] = s[k]
  PROVE  t = <<d>> \o s
<1> DEFINE f == <<d>>
           r == f \o s
<1>1. f \in Seq(Docs) /\ Len(f) = 1 /\ f[1] = d
  OBVIOUS
<1> HIDE DEF f
<1>2. /\ r \in Seq(Docs) /\ Len(r) = Len(f) + Len(s)
      /\ \A i \in 1 .. Len(f) + Len(s) : r[i] = IF i <= Len(f) THEN f[i] ELSE s[i - Len(f)]
  BY <1>1, ConcatProperties
<1> HIDE DEF r
<1>3. Len(r) = Len(t) /\ Len(s) \in Nat /\ Len(t) \in Nat
  BY <1>1, <1>2
<1>4. ASSUME NEW i \in 1 .. Len(r)
      PROVE  t[i] = r[i]
  <2>1. CASE i = 1
    BY <1>1, <1>2, <1>3, <2>1
  <2>2. CASE i # 1
    <3>1. i - 1 \in 1 .. Len(s) /\ i \in 1 .. Len(f) + Len(s) /\ i = (i - 1) + 1
      BY <1>1, <1>2, <2>2
    <3>2. t[(i - 1) + 1] = s[i - 1]
      BY <3>1
    <3>3. r[i] = s[i - 1]
      BY <1>1, <1>2, <2>2, <3>1
    <3> QED
      BY <3>1, <3>2, <3>3
  <2> QED
    BY <2>1, <2>2
<1>5. t = r
  BY <1>2, <1>3, <1>4, DocsEqual
<1> QED
  BY <1>5 DEF f, r

LEMMA FirstDocLess ==
  ASSUME NEW s \in Seq(Docs), NEW t \in Seq(Docs), Len(s) > 0, Len(t) = Len(s) - 1,
         \A k \in 1 .. Len(t) : t[k] = s[k + 1]
  PROVE  s # <<>> /\ Head(s) = s[1] /\ t = Tail(s)
<1>1. s # <<>> /\ Head(s) = s[1]
  OBVIOUS
<1> DEFINE r == Tail(s)
<1>2. /\ r \in Seq(Docs) /\ Len(r) = Len(s) - 1
      /\ \A i \in 1 .. Len(r) : r[i] = s[i + 1]
  BY <1>1, HeadTailProperties
<1> HIDE DEF r
<1>3. t = r
  BY <1>2, DocsEqual
<1> QED
  BY <1>1, <1>3 DEF r

LEMMA DocAfter ==
  ASSUME NEW s \in Seq(Docs), NEW t \in Seq(Docs), NEW d \in Docs, NEW n \in 0 .. Len(s),
         Len(t) = Len(s) - n + 1, t[Len(t)] = d,
         \A k \in 1 .. Len(s) - n : t[k] = s[n + k]
  PROVE  t = Append(SubSeq(s, n + 1, Len(s)), d)
<1> DEFINE u == SubSeq(s, n + 1, Len(s))
           r == Append(u, d)
<1>1. Len(s) \in Nat /\ n \in Nat /\ \A i \in n + 1 .. Len(s) : s[i] \in Docs
  BY ElementOfSeq
<1>2. /\ u \in Seq(Docs) /\ Len(u) = Len(s) - n
      /\ \A i \in 1 .. Len(s) - n : u[i] = s[n + i]
  <2>1. /\ u \in Seq(Docs)
        /\ Len(u) = IF n + 1 <= Len(s) THEN Len(s) - (n + 1) + 1 ELSE 0
        /\ \A i \in 1 .. Len(s) - (n + 1) + 1 : u[i] = s[n + 1 + i - 1]
    BY <1>1, SubSeqProperties
  <2> HIDE DEF u
  <2>2. Len(u) = Len(s) - n
    BY <1>1, <2>1
  <2>3. ASSUME NEW i \in 1 .. Len(s) - n
        PROVE  u[i] = s[n + i]
    <3>1. n + 1 + i - 1 = n + i /\ i \in 1 .. Len(s) - (n + 1) + 1
      BY <1>1
    <3> QED
      BY <2>1, <3>1
  <2> QED
    BY <2>1, <2>2, <2>3
<1> HIDE DEF u
<1>3. /\ r \in Seq(Docs) /\ Len(r) = Len(u) + 1 /\ r[Len(u) + 1] = d
      /\ \A i \in 1 .. Len(u) : r[i] = u[i]
  BY <1>2, AppendProperties
<1> HIDE DEF r
<1>4. Len(t) = Len(r)
  BY <1>1, <1>2, <1>3
<1>5. ASSUME NEW i \in 1 .. Len(r)
      PROVE  t[i] = r[i]
  <2>1. i \in 1 .. Len(s) - n \/ i = Len(u) + 1
    BY <1>1, <1>2, <1>3
  <2>2. CASE i = Len(u) + 1
    BY <1>3, <1>4, <2>2
  <2>3. CASE i \in 1 .. Len(s) - n
    BY <1>2, <1>3, <2>3
  <2> QED
    BY <2>1, <2>2, <2>3
<1>6. t = r
  BY <1>3, <1>4, <1>5, DocsEqual
<1> QED
  BY <1>6 DEF r, u

(* What can be undone and what can be redone, of any ring and memory. *)
Pasts(b, a, sn) == [k \in 1 .. Steps(b, a) |-> sn[Nth(b, k)].pre]
Futures(a, t, sn) == [k \in 1 .. Steps(a, t) |-> sn[Nth(a, k)].post]

Memories == [Cells -> [pre : Docs, post : Docs, first : BOOLEAN]]

LEMMA HistoryIs ==
  /\ past = Pasts(UndoBase, UndoActual, snap)
  /\ past' = Pasts(UndoBase', UndoActual', snap')
  /\ future = Futures(UndoActual, UndoTop, snap)
  /\ future' = Futures(UndoActual', UndoTop', snap')
BY DEF past, future, Pasts, Futures

LEMMA PastsType ==
  ASSUME NEW b \in Cells, NEW a \in Cells, NEW sn \in Memories
  PROVE  /\ Pasts(b, a, sn) \in Seq(Docs) /\ Len(Pasts(b, a, sn)) = Steps(b, a)
         /\ Steps(b, a) \in Nat
         /\ \A k \in 1 .. Steps(b, a) : Pasts(b, a, sn)[k] = sn[Nth(b, k)].pre
<1>1. Steps(b, a) \in Nat
  BY StepsType, MaxUndoAssumption
<1>2. \A k \in 1 .. Steps(b, a) : sn[Nth(b, k)].pre \in Docs
  <2> SUFFICES ASSUME NEW k \in 1 .. Steps(b, a) PROVE sn[Nth(b, k)].pre \in Docs
    OBVIOUS
  <2>1. Nth(b, k) \in Cells
    BY NthAfter DEF After
  <2> QED
    BY <2>1 DEF Memories
<1> QED
  BY <1>1, <1>2 DEF Pasts

LEMMA FuturesType ==
  ASSUME NEW a \in Cells, NEW t \in Cells, NEW sn \in Memories
  PROVE  /\ Futures(a, t, sn) \in Seq(Docs) /\ Len(Futures(a, t, sn)) = Steps(a, t)
         /\ Steps(a, t) \in Nat
         /\ \A k \in 1 .. Steps(a, t) : Futures(a, t, sn)[k] = sn[Nth(a, k)].post
<1>1. Steps(a, t) \in Nat
  BY StepsType, MaxUndoAssumption
<1>2. \A k \in 1 .. Steps(a, t) : sn[Nth(a, k)].post \in Docs
  <2> SUFFICES ASSUME NEW k \in 1 .. Steps(a, t) PROVE sn[Nth(a, k)].post \in Docs
    OBVIOUS
  <2>1. Nth(a, k) \in Cells
    BY NthAfter DEF After
  <2> QED
    BY <2>1 DEF Memories
<1> QED
  BY <1>1, <1>2 DEF Futures

-----------------------------------------------------------------------------
LEMMA AfterUpper ==
  ASSUME NEW b \in Cells, NEW t \in Cells, NEW a \in After(b, t) \cup {b}
  PROVE  After(a, t) \subseteq After(b, t)
BY MaxUndoAssumption DEF After, Cells

(* The cells that undo() and redo() go through. *)
LEMMA HistoryCells ==
  ASSUME IInv
  PROVE  /\ \A k \in 1 .. Steps(UndoBase, UndoActual) :
              Nth(UndoBase, k) \in After(UndoBase, UndoActual) /\ Nth(UndoBase, k) \in InUse
         /\ \A k \in 1 .. Steps(UndoActual, UndoTop) :
              Nth(UndoActual, k) \in After(UndoActual, UndoTop) /\ Nth(UndoActual, k) \in InUse
<1>1. /\ UndoActual \in Cells /\ UndoBase \in Cells /\ UndoTop \in Cells
      /\ UndoActual \in After(UndoBase, UndoTop) \cup {UndoBase}
  BY RingPlaces DEF IInv, RingInOrder
<1>2. After(UndoBase, UndoActual) \subseteq InUse /\ After(UndoActual, UndoTop) \subseteq InUse
  BY <1>1, AfterMonotone, AfterUpper DEF InUse
<1> QED
  BY <1>1, <1>2, NthAfter

LEMMA HistoryTypes ==
  ASSUME HInv
  PROVE  /\ snap \in Memories /\ doc \in Docs
         /\ UndoActual \in Cells /\ UndoBase \in Cells /\ UndoTop \in Cells
BY RingPlaces, DocTypes DEF HInv, IInv, MemoryOK, Memories

(* The same when there is nothing to undo and nothing to redo. *)
LEMMA NoHistory ==
  ASSUME NEW a \in Cells, NEW sn \in Memories
  PROVE  Pasts(a, a, sn) = <<>> /\ Futures(a, a, sn) = <<>>
<1>1. Steps(a, a) = 0
  BY StepsType
<1>2. /\ Pasts(a, a, sn) \in Seq(Docs) /\ Len(Pasts(a, a, sn)) = 0
      /\ Futures(a, a, sn) \in Seq(Docs) /\ Len(Futures(a, a, sn)) = 0
  BY <1>1, PastsType, FuturesType
<1> QED
  BY <1>2, NoDocs

LEMMA SomeHistory ==
  ASSUME NEW b \in Cells, NEW a \in Cells, a # b, NEW sn \in Memories
  PROVE  /\ Pasts(b, a, sn) # <<>> /\ Len(Pasts(b, a, sn)) > 0
         /\ Futures(b, a, sn) # <<>> /\ Len(Futures(b, a, sn)) > 0
<1>1. Steps(b, a) > 0
  BY StepsType
<1>2. Len(Pasts(b, a, sn)) > 0 /\ Len(Futures(b, a, sn)) > 0
  BY <1>1, PastsType, FuturesType
<1>3. Len(<<>>) = 0
  OBVIOUS
<1> QED
  BY <1>2, <1>3

(* Only what is remembered of the cells between counts. *)
LEMMA SamePasts ==
  ASSUME NEW b \in Cells, NEW a \in Cells, NEW sn \in Memories, NEW sm \in Memories,
         \A k \in 1 .. Steps(b, a) : sm[Nth(b, k)].pre = sn[Nth(b, k)].pre
  PROVE  Pasts(b, a, sm) = Pasts(b, a, sn)
<1>1. /\ Pasts(b, a, sn) \in Seq(Docs) /\ Len(Pasts(b, a, sn)) = Steps(b, a)
      /\ \A k \in 1 .. Steps(b, a) : Pasts(b, a, sn)[k] = sn[Nth(b, k)].pre
  BY PastsType
<1>2. /\ Pasts(b, a, sm) \in Seq(Docs) /\ Len(Pasts(b, a, sm)) = Steps(b, a)
      /\ \A k \in 1 .. Steps(b, a) : Pasts(b, a, sm)[k] = sm[Nth(b, k)].pre
  BY PastsType
<1> QED
  BY <1>1, <1>2, DocsEqual

LEMMA SameFutures ==
  ASSUME NEW b \in Cells, NEW a \in Cells, NEW sn \in Memories, NEW sm \in Memories,
         \A k \in 1 .. Steps(b, a) : sm[Nth(b, k)].post = sn[Nth(b, k)].post
  PROVE  Futures(b, a, sm) = Futures(b, a, sn)
<1>1. /\ Futures(b, a, sn) \in Seq(Docs) /\ Len(Futures(b, a, sn)) = Steps(b, a)
      /\ \A k \in 1 .. Steps(b, a) : Futures(b, a, sn)[k] = sn[Nth(b, k)].post
  BY FuturesType
<1>2. /\ Futures(b, a, sm) \in Seq(Docs) /\ Len(Futures(b, a, sm)) = Steps(b, a)
      /\ \A k \in 1 .. Steps(b, a) : Futures(b, a, sm)[k] = sm[Nth(b, k)].post
  BY FuturesType
<1> QED
  BY <1>1, <1>2, DocsEqual

LEMMA StaysMaps ==
  ASSUME HInv, snap' \in Memories, Stays
  PROVE  past' = past /\ future' = future /\ doc' = doc
<1>1. /\ snap \in Memories /\ IInv
      /\ UndoActual \in Cells /\ UndoBase \in Cells /\ UndoTop \in Cells
  BY HistoryTypes DEF HInv
<1>2. Pasts(UndoBase, UndoActual, snap') = Pasts(UndoBase, UndoActual, snap)
  <2>1. \A k \in 1 .. Steps(UndoBase, UndoActual) :
          snap'[Nth(UndoBase, k)].pre = snap[Nth(UndoBase, k)].pre
    BY <1>1, HistoryCells DEF Stays
  <2> QED
    BY <1>1, <2>1, SamePasts
<1>3. Futures(UndoActual, UndoTop, snap') = Futures(UndoActual, UndoTop, snap)
  <2>1. \A k \in 1 .. Steps(UndoActual, UndoTop) :
          snap'[Nth(UndoActual, k)].post = snap[Nth(UndoActual, k)].post
    BY <1>1, HistoryCells DEF Stays
  <2> QED
    BY <1>1, <2>1, SameFutures
<1> QED
  BY <1>2, <1>3, HistoryIs DEF Stays

LEMMA AmendsMaps ==
  ASSUME HInv, snap' \in Memories, Amends
  PROVE  History!Amend \/ History!Forget
<1>1. /\ snap \in Memories /\ IInv
      /\ UndoActual \in Cells /\ UndoBase \in Cells /\ UndoTop \in Cells
  BY HistoryTypes DEF HInv
<1>2. Pasts(UndoBase, UndoActual, snap') = Pasts(UndoBase, UndoActual, snap)
  <2>1. \A k \in 1 .. Steps(UndoBase, UndoActual) :
          snap'[Nth(UndoBase, k)].pre = snap[Nth(UndoBase, k)].pre
    BY <1>1, HistoryCells DEF Amends
  <2> QED
    BY <1>1, <2>1, SamePasts
<1>3. past' = past
  BY <1>2, HistoryIs DEF Amends
<1>4. future = <<>> /\ future' = <<>>
  BY <1>1, NoHistory, HistoryIs DEF Amends
<1>5. CASE UndoActual = UndoBase
  <2>1. past = <<>>
    BY <1>1, <1>5, NoHistory, HistoryIs
  <2> QED
    BY <1>3, <1>4, <2>1 DEF History!Forget
<1>6. CASE UndoActual # UndoBase
  <2>1. past # <<>>
    BY <1>1, <1>6, SomeHistory, HistoryIs
  <2> QED
    BY <1>3, <1>4, <2>1 DEF History!Amend
<1> QED
  BY <1>5, <1>6

LEMMA FlushesMaps ==
  ASSUME HInv', Flushes
  PROVE  History!Forget
<1>1. snap' \in Memories /\ UndoBase' \in Cells
  BY DEF HInv, MemoryOK, Memories, IInv, TypeOK
<1>2. past' = <<>> /\ future' = <<>>
  BY <1>1, NoHistory, HistoryIs DEF Flushes
<1> QED
  BY <1>2 DEF History!Forget

LEMMA PushesMaps ==
  ASSUME HInv, snap' \in Memories, Pushes
  PROVE  History!Edit \/ History!Forget
<1> DEFINE a == IncWithWrap(UndoActual)
<1>1. /\ snap \in Memories /\ IInv /\ doc \in Docs /\ a \in Cells
      /\ UndoActual \in Cells /\ UndoBase \in Cells /\ UndoTop \in Cells
  BY HistoryTypes, RingPlaces DEF HInv
<1>2. PICK c : \E b \in IF a = UndoBase THEN EvictTo(a) ELSE {UndoBase} : Pushed(c, a, b)
  BY DEF Pushes
<1>3. PICK b \in IF a = UndoBase THEN EvictTo(a) ELSE {UndoBase} : Pushed(c, a, b)
  BY <1>2
<1> HIDE DEF a
<1>4. /\ UndoBase' = b /\ UndoActual' = a /\ UndoTop' = a /\ snap'[a].pre = doc
      /\ \A i \in Cells : i # a => snap'[i] = snap[i]
  BY <1>3 DEF Pushed
<1>5. past' = Pasts(b, a, snap') /\ past = Pasts(UndoBase, UndoActual, snap)
  BY <1>4, HistoryIs
<1>6. future' = <<>>
  BY <1>1, <1>4, NoHistory, HistoryIs
<1>7. CASE b = a
  <2>1. past' = <<>>
    BY <1>1, <1>5, <1>7, NoHistory
  <2> QED
    BY <1>6, <2>1 DEF History!Forget
<1>8. CASE b # a
  <2> DEFINE s == Pasts(UndoBase, UndoActual, snap)
             t == Pasts(b, a, snap')
             n == Steps(UndoBase, b)
             m == Steps(b, UndoActual)
  <2>1. /\ b \in Cells /\ b \in After(UndoBase, UndoActual) \cup {UndoBase}
        /\ a \notin After(b, UndoActual)
    BY <1>1, <1>8, PushRing DEF a
  <2>2. n \in Nat /\ m \in Nat
    BY <1>1, <2>1, StepsType, MaxUndoAssumption
  <2>3. Steps(UndoBase, UndoActual) = n + m /\ Steps(b, a) = m + 1
    BY <1>1, <1>8, <2>1, StepsApart, StepsUp DEF a
  <2>4. /\ s \in Seq(Docs) /\ Len(s) = n + m
        /\ \A k \in 1 .. n + m : s[k] = snap[Nth(UndoBase, k)].pre
    BY <1>1, <2>3, PastsType
  <2>5. /\ t \in Seq(Docs) /\ Len(t) = m + 1
        /\ \A k \in 1 .. m + 1 : t[k] = snap'[Nth(b, k)].pre
    <3> DEFINE sn == snap'
    <3>1. sn \in Memories
      OBVIOUS
    <3> HIDE DEF sn, m
    <3>2. /\ Pasts(b, a, sn) \in Seq(Docs) /\ Len(Pasts(b, a, sn)) = Steps(b, a)
          /\ \A k \in 1 .. Steps(b, a) : Pasts(b, a, sn)[k] = sn[Nth(b, k)].pre
      BY <1>1, <2>1, <3>1, PastsType
    <3> QED
      BY <2>3, <3>2, Zenon DEF sn
  <2>6. t[Len(t)] = doc
    <3>1. Nth(b, m + 1) = a
      BY <1>1, <2>1, <2>3, NthLast
    <3> HIDE DEF m, t
    <3>2. t[m + 1] = snap'[Nth(b, m + 1)].pre
      BY <2>2, <2>5
    <3> QED
      BY <1>4, <2>5, <3>1, <3>2
  <2>7. \A k \in 1 .. m : t[k] = s[n + k]
    <3> SUFFICES ASSUME NEW k \in 1 .. m PROVE t[k] = s[n + k]
      OBVIOUS
    <3>1. Nth(b, k) \in After(b, UndoActual) /\ Nth(b, k) \in Cells
      BY <1>1, <2>1, NthAfter DEF After
    <3>2. Nth(UndoBase, n + k) = Nth(b, k)
      BY <1>1, <2>1, NthFrom
    <3> HIDE DEF m, n, s, t
    <3>3. k \in 1 .. m + 1 /\ n + k \in 1 .. n + m
      BY <2>2
    <3>4. t[k] = snap'[Nth(b, k)].pre /\ s[n + k] = snap[Nth(b, k)].pre
      BY <2>4, <2>5, <3>2, <3>3
    <3>5. Nth(b, k) # a
      BY <2>1, <3>1
    <3> QED
      BY <1>4, <3>1, <3>4, <3>5
  <2> HIDE DEF m, n, s, t
  <2>8. /\ n \in 0 .. Len(s) /\ Len(t) = Len(s) - n + 1
        /\ \A k \in 1 .. Len(s) - n : t[k] = s[n + k]
    <3>1. Len(s) - n = m
      BY <2>2, <2>4
    <3> QED
      BY <2>2, <2>4, <2>5, <2>7, <3>1
  <2>9. t = Append(SubSeq(s, n + 1, Len(s)), doc)
    BY <1>1, <2>4, <2>5, <2>6, <2>8, DocAfter
  <2>10. past' = t /\ past = s
    BY <1>5 DEF s, t
  <2>11. \E k \in 0 .. Len(past) : past' = Append(SubSeq(past, k + 1, Len(past)), doc)
    BY <2>8, <2>9, <2>10
  <2> QED
    BY <1>6, <2>11 DEF History!Edit
<1> QED
  BY <1>7, <1>8

LEMMA UndoesMaps ==
  ASSUME HInv, Undoes
  PROVE  History!Undo
<1> DEFINE e == DecWithWrap(UndoActual)
           s == Pasts(UndoBase, UndoActual, snap)
           t == Pasts(UndoBase, e, snap)
           f == Futures(UndoActual, UndoTop, snap)
           g == Futures(e, UndoTop, snap)
           n == Steps(UndoBase, UndoActual)
           m == Steps(UndoActual, UndoTop)
<1>1. /\ snap \in Memories /\ IInv /\ doc \in Docs /\ e \in Cells /\ UndoActual # UndoBase
      /\ UndoActual \in Cells /\ UndoBase \in Cells /\ UndoTop \in Cells
  BY HistoryTypes, RingPlaces DEF HInv, Undoes
<1>2. past = s /\ past' = t /\ future = f /\ future' = g
  BY HistoryIs DEF Undoes
<1>3. e # UndoTop /\ IncWithWrap(e) = UndoActual
  <2>1. IncWithWrap(e) = UndoActual
    BY <1>1, MaxUndoAssumption DEF Cells, IncWithWrap, DecWithWrap
  <2>2. UndoActual \in After(UndoBase, UndoTop)
    BY <1>1 DEF IInv, RingInOrder
  <2> QED
    BY <1>1, <2>1, <2>2, TopIsLast
<1>4. n \in Nat /\ m \in Nat /\ n > 0
  BY <1>1, StepsType, MaxUndoAssumption
<1>5. Steps(UndoBase, e) = n - 1 /\ Steps(e, UndoTop) = m + 1 /\ m + 1 \in 0 .. MAX_UNDO - 1
  BY <1>1, <1>3, StepsDown, StepsType
<1>6. /\ s \in Seq(Docs) /\ Len(s) = n
      /\ \A k \in 1 .. n : s[k] = snap[Nth(UndoBase, k)].pre
  BY <1>1, PastsType
<1>7. /\ t \in Seq(Docs) /\ Len(t) = n - 1
      /\ \A k \in 1 .. n - 1 : t[k] = snap[Nth(UndoBase, k)].pre
  BY <1>1, <1>5, PastsType
<1>8. /\ f \in Seq(Docs) /\ Len(f) = m
      /\ \A k \in 1 .. m : f[k] = snap[Nth(UndoActual, k)].post
  BY <1>1, FuturesType
<1>9. /\ g \in Seq(Docs) /\ Len(g) = m + 1
      /\ \A k \in 1 .. m + 1 : g[k] = snap[Nth(e, k)].post
  <2> HIDE DEF e, m
  <2>1. /\ Futures(e, UndoTop, snap) \in Seq(Docs)
        /\ Len(Futures(e, UndoTop, snap)) = Steps(e, UndoTop)
        /\ \A k \in 1 .. Steps(e, UndoTop) :
             Futures(e, UndoTop, snap)[k] = snap[Nth(e, k)].post
    BY <1>1, FuturesType
  <2> QED
    BY <1>5, <2>1, Zenon
<1>10. Nth(UndoBase, n) = UndoActual
  BY <1>1, NthLast
<1>11. Nth(e, 1) = UndoActual /\ \A k \in 1 .. m : Nth(e, k + 1) = Nth(UndoActual, k)
  <2>1. Nth(e, 1) = UndoActual
    <3>1. 0 \in 0 .. MAX_UNDO - 2
      BY MaxUndoAssumption
    <3> QED
      BY <1>1, <1>3, <3>1, NthNext
  <2>2. ASSUME NEW k \in 1 .. m PROVE Nth(e, k + 1) = Nth(UndoActual, k)
    <3>1. k \in 0 .. MAX_UNDO - 2
      <4> HIDE DEF m
      <4> QED
        BY <1>4, <1>5, MaxUndoAssumption
    <3> QED
      BY <1>1, <1>3, <3>1, NthNext
  <2> QED
    BY <2>1, <2>2
<1>12. doc' = snap[UndoActual].pre /\ snap[UndoActual].post = doc
  BY <1>1 DEF Undoes, HInv, Here
<1> HIDE DEF e, s, t, f, g, n, m
<1>13. s # <<>> /\ t = SubSeq(s, 1, Len(s) - 1)
  <2>1. Len(s) > 0 /\ Len(t) = Len(s) - 1 /\ \A k \in 1 .. Len(t) : t[k] = s[k]
    BY <1>4, <1>6, <1>7
  <2> QED
    BY <1>6, <1>7, <2>1, LastDocLess
<1>14. doc' = s[Len(s)]
  BY <1>4, <1>6, <1>10, <1>12
<1>15. g = <<doc>> \o f
  <2>1. g[1] = doc /\ Len(g) = Len(f) + 1
    BY <1>4, <1>8, <1>9, <1>11, <1>12
  <2>2. \A k \in 1 .. Len(f) : g[k + 1] = f[k]
    BY <1>4, <1>8, <1>9, <1>11
  <2> QED
    BY <1>1, <1>8, <1>9, <2>1, <2>2, DocBefore
<1> QED
  BY <1>2, <1>13, <1>14, <1>15 DEF History!Undo

LEMMA RedoesMaps ==
  ASSUME HInv, Redoes
  PROVE  History!Redo
<1> DEFINE e == IncWithWrap(UndoActual)
           s == Pasts(UndoBase, UndoActual, snap)
           t == Pasts(UndoBase, e, snap)
           f == Futures(UndoActual, UndoTop, snap)
           g == Futures(e, UndoTop, snap)
           n == Steps(UndoBase, UndoActual)
           m == Steps(UndoActual, UndoTop)
<1>1. /\ snap \in Memories /\ IInv /\ doc \in Docs /\ e \in Cells /\ UndoActual # UndoTop
      /\ UndoActual \in Cells /\ UndoBase \in Cells /\ UndoTop \in Cells /\ e # UndoBase
  BY HistoryTypes, RingPlaces DEF HInv, Redoes
<1>2. past = s /\ past' = t /\ future = f /\ future' = g
  BY HistoryIs DEF Redoes
<1>3. n \in Nat /\ m \in Nat /\ m > 0 /\ m \in 0 .. MAX_UNDO - 1
  BY <1>1, StepsType, MaxUndoAssumption
<1>4. Steps(UndoBase, e) = n + 1 /\ Steps(e, UndoTop) = m - 1
  BY <1>1, StepsUp
<1>5. /\ s \in Seq(Docs) /\ Len(s) = n
      /\ \A k \in 1 .. n : s[k] = snap[Nth(UndoBase, k)].pre
  BY <1>1, PastsType
<1>6. /\ t \in Seq(Docs) /\ Len(t) = n + 1
      /\ \A k \in 1 .. n + 1 : t[k] = snap[Nth(UndoBase, k)].pre
  BY <1>1, <1>4, PastsType
<1>7. /\ f \in Seq(Docs) /\ Len(f) = m
      /\ \A k \in 1 .. m : f[k] = snap[Nth(UndoActual, k)].post
  BY <1>1, FuturesType
<1>8. /\ g \in Seq(Docs) /\ Len(g) = m - 1
      /\ \A k \in 1 .. m - 1 : g[k] = snap[Nth(e, k)].post
  BY <1>1, <1>4, FuturesType
<1>9. Nth(UndoBase, n + 1) = e
  BY <1>1, <1>4, NthLast
<1>10. Nth(UndoActual, 1) = e /\ \A k \in 1 .. m - 1 : Nth(UndoActual, k + 1) = Nth(e, k)
  <2>1. Nth(UndoActual, 1) = e
    <3>1. 0 \in 0 .. MAX_UNDO - 2
      BY MaxUndoAssumption
    <3> QED
      BY <1>1, <3>1, NthNext
  <2>2. ASSUME NEW k \in 1 .. m - 1 PROVE Nth(UndoActual, k + 1) = Nth(e, k)
    <3>1. k \in 0 .. MAX_UNDO - 2
      <4> HIDE DEF m
      <4> QED
        BY <1>3, MaxUndoAssumption
    <3> QED
      BY <1>1, <3>1, NthNext
  <2> QED
    BY <2>1, <2>2
<1>11. doc' = snap[e].post /\ snap[e].pre = doc
  BY <1>1 DEF Redoes, HInv, Here
<1> HIDE DEF e, s, t, f, g, n, m
<1>12. f # <<>> /\ Head(f) = f[1] /\ g = Tail(f)
  <2>1. Len(f) > 0 /\ Len(g) = Len(f) - 1
    BY <1>3, <1>7, <1>8
  <2>2. \A k \in 1 .. Len(g) : g[k] = f[k + 1]
    BY <1>3, <1>7, <1>8, <1>10
  <2> QED
    BY <1>7, <1>8, <2>1, <2>2, FirstDocLess
<1>13. doc' = f[1]
  BY <1>3, <1>7, <1>10, <1>11
<1>14. t = Append(s, doc)
  <2>1. /\ 0 \in 0 .. Len(s) /\ Len(t) = Len(s) - 0 + 1 /\ t[Len(t)] = doc
    BY <1>3, <1>5, <1>6, <1>9, <1>11
  <2>2. \A k \in 1 .. Len(s) - 0 : t[k] = s[0 + k]
    BY <1>3, <1>5, <1>6
  <2>3. t = Append(SubSeq(s, 0 + 1, Len(s)), doc)
    BY <1>1, <1>5, <1>6, <2>1, <2>2, DocAfter
  <2>4. SubSeq(s, 0 + 1, Len(s)) = s
    BY <1>5
  <2> QED
    BY <2>3, <2>4
<1> QED
  BY <1>2, <1>12, <1>13, <1>14 DEF History!Redo

(* Every step is a step of the linear history, or none at all. *)
LEMMA StepIsHistory ==
  ASSUME HInv, HInv', HStep
  PROVE  [History!Next]_(History!vars)
<1>1. snap' \in Memories
  BY DEF HInv, MemoryOK, Memories
<1>2. CASE Stays
  BY <1>1, <1>2, StaysMaps DEF History!vars
<1> QED
  BY <1>1, <1>2, AmendsMaps, PushesMaps, UndoesMaps, RedoesMaps, FlushesMaps
     DEF HStep, History!Next

LEMMA InitHistory == HInit => History!Init
<1> SUFFICES ASSUME HInit PROVE History!Init
  OBVIOUS
<1>1. /\ snap \in Memories /\ UndoBase \in Cells
      /\ UndoActual = UndoBase /\ UndoTop = UndoBase
  <2>1. HInv
    BY InitHInv
  <2> QED
    BY <2>1, HistoryTypes DEF HInit, Init
<1>2. past = <<>> /\ future = <<>>
  BY <1>1, NoHistory, HistoryIs
<1> QED
  BY <1>2 DEF History!Init

(* The ring of cells implements LinearHistory: whatever mixture of edits,  *)
(* undo() and redo() led here, undoing a cell brings back the line, the    *)
(* cursor and the mode that were there before it, redoing it those that    *)
(* were there after, an edit forgets what could be redone, and eviction    *)
(* forgets the oldest only.                                                *)
THEOREM UndoImplementsHistory ==
  ASSUME Invertible
  PROVE  HSpec => LinearHistorySpec
<1>1. HInit => HInv /\ History!Init
  BY InitHInv, InitHistory
<1>2. HInv /\ [HNext]_hvars => HInv'
  BY NextHInv
<1>3. HInv /\ HInv' /\ [HNext]_hvars => [History!Next]_(History!vars)
  BY NextHInv, StepIsHistory
<1> QED
  BY <1>1, <1>2, <1>3, PTL DEF HSpec, LinearHistorySpec, History!Spec
====
