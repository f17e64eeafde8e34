---------------------------- MODULE EditedLines ----------------------------
(***************************************************************************)
(* What an editor promises about the text on the screen: lines of          *)
(* characters and a cursor that may stand behind the end of its line.      *)
(* Blanks at the end of a line are not seen and do not count, so every     *)
(* line is kept without them.  Each command changes the lines at the       *)
(* cursor and leaves the cursor where the user expects it; how the text is *)
(* stored, and when a line goes back to the buffer, is not visible here.   *)
(***************************************************************************)
EXTENDS Integers, Sequences, FiniteSetsExt

CONSTANTS
  Char, Blank,
  Pieces,      \* texts to insert, as sequences of lines
  Room         \* bound: how far a line is joined or shifted

VARIABLES lines, y, x, block    \* block: what is selected, <<>> or its two ends

state == <<lines, y, x, block>>

Used(l) == Max({0} \cup {k \in DOMAIN l : l[k] # Blank})
Trimmed(l) == SubSeq(l, 1, Used(l))
Blanks(n) == [k \in 1 .. n |-> Blank]
Left(l, n) == SubSeq(l \o Blanks(n), 1, n)
Right(l, n) == SubSeq(l, n + 1, Len(l))

(* Lines y1..y2 become the lines new; the cursor goes to line ny, column nx. *)
Change(y1, y2, new, ny, nx) ==
  /\ y' = ny /\ x' = nx
  /\ lines' = SubSeq(lines, 1, y1 - 1)
              \o [k \in DOMAIN new |-> Trimmed(new[k])]
              \o SubSeq(lines, y2 + 1, Len(lines))

Cut(y1, x1, y2, x2) ==
  Change(y1, y2, <<Left(lines[y1], x1) \o Right(lines[y2], x2)>>, y1, x1)

Type(c) ==
  Change(y, y, <<Left(lines[y], x) \o <<c>> \o Right(lines[y], x)>>, y, x + 1)
Overtype(c) ==
  Change(y, y, <<Left(lines[y], x) \o <<c>> \o Right(lines[y], x + 1)>>, y, x + 1)

EraseLeft == x > 0 /\ Cut(y, x - 1, y, x)
JoinUp(n) == x = 0 /\ y > 1 /\ n >= Len(lines[y - 1]) /\ Cut(y - 1, n, y, 0)
EraseRight == Cut(y, x, y, x + 1)
JoinDown == y < Len(lines) /\ x >= Len(lines[y]) /\ Cut(y, x, y + 1, 0)
CutEnd == Cut(y, x, y, Len(lines[y]))
CutStart == Cut(y, 0, y, x)
CutLine == IF y < Len(lines) THEN Cut(y, 0, y + 1, 0) ELSE Cut(y, 0, y, Len(lines[y]))

(* The selected block goes; blanks in front of it may have gone before. *)
CutBlock ==
  /\ block # <<>> /\ block[3] <= Len(lines)
  /\ \E n \in {block[2], Min({block[2], Len(lines[block[1]])})} :
       Cut(block[1], n, block[3], block[4])

Put(p) ==
  LET n == Len(p)
      at(k) == (IF k = 1 THEN Left(lines[y], x) ELSE <<>>) \o p[k]
                 \o (IF k = n THEN Right(lines[y], x) ELSE <<>>)
  IN  Change(y, y, [k \in 1 .. n |-> at(k)], y + n - 1,
             (IF n = 1 THEN x ELSE 0) + Len(p[n]))

(* The lines of the block are indented by a blank, or lose up to n.  When  *)
(* the block starts at the beginning of a line, with the cursor in the line *)
(* above, that line moves too.                                             *)
Indented(l) == <<Blank>> \o l
Outdented(l, n) ==
  LET ink == {k \in DOMAIN l : l[k] # Blank}
  IN  Right(l, Min({n, Len(l)} \cup {k - 1 : k \in ink}))

ShiftBlock(n) ==
  /\ block # <<>>
  /\ \E from \in {block[1]} \cup (IF block[2] = 0 /\ y = block[1] - 1 THEN {y} ELSE {}) :
       LET to == block[3] - (IF block[4] = 0 THEN 1 ELSE 0)
           moved(l) == IF n = 0 THEN Indented(l) ELSE Outdented(l, n)
       IN  Change(from, to, [k \in 1 .. to - from + 1 |-> moved(lines[from + k - 1])],
                  from, x')

Move == y' \in DOMAIN lines /\ x' \in Nat /\ UNCHANGED lines

Init == y = 1 /\ x = 0 /\ block = <<>> /\ lines # <<>>

Next ==
  \/ Move
  \/ \E c \in Char : Type(c) \/ Overtype(c)
  \/ EraseLeft \/ EraseRight \/ JoinDown
  \/ CutEnd \/ CutStart \/ CutLine
  \/ \E p \in Pieces : Put(p)
  \/ CutBlock
  \/ \E n \in Room : JoinUp(n) \/ ShiftBlock(n)

Spec == Init /\ [][Next]_state
=============================================================================
