-------------------------- MODULE TextSelectionProofs --------------------------
(***************************************************************************)
(* The selection stays inside the text (SelectsText), for any texts, keys  *)
(* and bounds: no end of it is left behind the text by an edit, by a fill  *)
(* with blanks, or by the line in edition going back to the buffer, and    *)
(* none wraps around below zero.                                           *)
(*                                                                         *)
(* SelectsText is not inductive.  While a line is in edition the selection *)
(* is kept twice, in the text (selNewStart, selNewEnd) and in the line     *)
(* (selLineStart, selLineEnd); AdjustLineSel() moves the first by what it  *)
(* reads in the second, so both must say the same, up to the numbers that  *)
(* stand for "in front of the line" and "behind it" (EndAt).  Of an empty  *)
(* selection, whose ends are not moved, less is left (Stale), and          *)
(* StartSelect and EndSelect join an end to what is left of the other.     *)
(* SelInv is the invariant: the end is in the text and, with a line in     *)
(* edition, LineSel; until known says that the code gets it wrong.         *)
(*                                                                         *)
(* Each command is taken to SelStep: what it makes of the editor, before   *)
(* Kept() clears what is not read, has the selection where Selected says.  *)
(* Nothing wraps because no offset exceeds Reach, less than half of what   *)
(* the offsets hold (SmallNumbers, WithinReach).                           *)
(***************************************************************************)
EXTENDS TextBufferProofs

-----------------------------------------------------------------------------
(* Numbers that do not wrap. *)

(* What no offset exceeds while a command is carried out.                  *)
Reach == 2 * MaxLen + 2 * MaxColumn + 3

LEMMA SmallNumbers ==
  /\ Reach \in Nat
  /\ \A k \in Nat : k <= Reach => U(k) = k
  /\ \A k \in Int : -Reach <= k /\ k <= Reach => Signed(k) = k
<1>1. MaxLen \in Nat /\ MaxColumn \in Nat /\ Unsigned \in Nat /\ Unsigned >= 4 * (MaxLen + MaxColumn + 2)
      BY TextAssumption
<1> DEFINE h == Unsigned \div 2
<1>2. Reach \in Nat /\ Unsigned >= 2 * Reach + 2
      BY <1>1 DEF Reach
<1>3. h \in Int /\ Reach < h /\ h <= Unsigned - Reach
      BY <1>1, <1>2
<1> HIDE DEF h, Reach
<1>4. ASSUME NEW k \in Nat, k <= Reach PROVE U(k) = k
      BY <1>1, <1>2, <1>4 DEF U
<1>5. ASSUME NEW k \in Int, -Reach <= k, k < 0 PROVE U(k) = k + Unsigned
      BY <1>1, <1>2, <1>5 DEF U
<1>6. ASSUME NEW k \in Int, -Reach <= k, k <= Reach PROVE Signed(k) = k
  <2>1. Signed(k) = IF U(k) >= h THEN U(k) - Unsigned ELSE U(k)
        BY DEF Signed, h
  <2>2. CASE k < 0
    <3> DEFINE u == U(k)
    <3>1. u = k + Unsigned
          BY <1>5, <1>6, <2>2
    <3> HIDE DEF u
    <3>2. u >= h /\ u - Unsigned = k
          BY <1>1, <1>2, <1>3, <1>6, <3>1
    <3> QED BY <2>1, <3>2 DEF u
  <2>3. CASE k >= 0
    <3>1. U(k) = k
          BY <1>4, <1>6, <2>3
    <3>2. ~(k >= h)
          BY <1>2, <1>3, <1>6, <2>3
    <3> QED BY <2>1, <3>1, <3>2
  <2> QED BY <1>6, <2>2, <2>3
<1> QED BY <1>2, <1>4, <1>6

-----------------------------------------------------------------------------
(* The text with the line in edition, and the ends of the selection in it. *)

(* What is behind the line of the cursor, its end included.                *)
Behind(d) == Len(d.buffer) - d.curLine - LineWidth(d)

LEMMA TextIs ==
  ASSUME NEW d, Good(d)
  PROVE  /\ Behind(d) \in Nat /\ d.curLine \in Nat /\ Len(d.bufEdit) \in Nat
         /\ Len(d.buffer) \in Nat /\ LineWidth(d) \in Nat /\ Len(Text(d)) \in Nat
         /\ Len(d.buffer) = d.curLine + LineWidth(d) + Behind(d)
         /\ d.editing => Len(Text(d)) = d.curLine + Len(d.bufEdit) + Behind(d)
         /\ ~d.editing => Text(d) = d.buffer
<1> DEFINE b == d.buffer
           l == d.bufEdit
           c == d.curLine
           w == LineWidth(d)
           z == c + w
<1>1. /\ d \in Editors /\ InLines(d) /\ b \in Seq(Chars) /\ l \in Seq(Chars)
      /\ Len(b) \in Nat /\ Len(l) \in Nat
  <2>1. d \in Editors /\ InLines(d) /\ b \in Seq(Chars) /\ l \in Seq(Chars)
        BY DEF Good, InLines, Editors, Strings
  <2> QED BY <2>1, LenProperties
<1>2. c \in Nat /\ w \in Nat /\ z <= Len(b)
  <2>1. /\ c \in Nat /\ w \in Nat /\ d.lenLines[d.y + 1] \in Nat
        /\ c + d.lenLines[d.y + 1] <= Len(b) /\ w <= d.lenLines[d.y + 1]
        BY <1>1, CursorLine
  <2> HIDE DEF c, w, b
  <2> QED BY <1>1, <2>1
<1>3. Behind(d) = Len(b) - c - w
      BY DEF Behind
<1>4. ASSUME d.editing PROVE Len(Text(d)) = c + Len(l) + (Len(b) - z)
  <2>1. Text(d) = Splice(b, c, l, z)
        BY <1>4 DEF Text, Splice, bufLen
  <2>2. c \in 0 .. Len(b) /\ z \in c .. Len(b)
    <3> HIDE DEF c, w, b
    <3> QED BY <1>1, <1>2
  <2> HIDE DEF z, c, b, l
  <2>3. Pieces3(Splice(b, c, l, z), b, c, l, z)
        BY <1>1, <2>2, Spliced
  <2>4. Len(Text(d)) = c + Len(l) + Len(b) - z
        BY <2>1, <2>3 DEF Pieces3
  <2> DEFINE p == Len(l)
             q == Len(b)
  <2>5. Len(Text(d)) = c + p + q - z /\ p \in Nat /\ q \in Nat /\ c \in Nat /\ z \in Nat
        BY <1>1, <1>2, <2>2, <2>4
  <2> HIDE DEF p, q
  <2>6. Len(Text(d)) = c + p + (q - z)
        BY <2>5
  <2> QED BY <2>6 DEF p, q
<1>5. ~d.editing => Text(d) = b
      BY DEF Text
<1> HIDE DEF b, c, w, l
<1>6. d.editing \in BOOLEAN
      BY <1>1 DEF Editors
<1> DEFINE n == Len(b)
           m == Len(l)
<1>7. n \in Nat /\ m \in Nat /\ c \in Nat /\ w \in Nat /\ c + w <= n /\ Behind(d) = n - c - w
      BY <1>1, <1>2, <1>3
<1> HIDE DEF n, m
<1>8. Behind(d) \in Nat /\ n = c + w + Behind(d) /\ n - (c + w) = Behind(d)
      BY <1>7
<1>9. Len(Text(d)) \in Nat /\ (d.editing => Len(Text(d)) = c + m + Behind(d))
  <2>1. d.editing => Len(Text(d)) = c + m + Behind(d)
        BY <1>4, <1>8 DEF n, m
  <2>2. ~d.editing => Len(Text(d)) = n
        BY <1>5 DEF n
  <2>3. c + m + Behind(d) \in Nat
        BY <1>7, <1>8
  <2> QED BY <1>6, <1>7, <2>1, <2>2, <2>3
<1> QED BY <1>5, <1>7, <1>8, <1>9 DEF b, c, w, l, n, m

-----------------------------------------------------------------------------
(* An end of the selection is at o of the text and at l of the line, which *)
(* is L long and at c: one in front of the line is at 0 there, one behind  *)
(* it is behind the line, by more at the other end of the selection.       *)
EndAt(o, l, c, L, more) ==
  \/ o <= c /\ l = 0
  \/ l = o - c
  \/ l = L + 1 /\ o >= c + L + more

(* What is left of that in an end that is no longer moved.                 *)
Stale(o, l, c, L) ==
  /\ o < c => l = 0
  /\ o = 0 => l <= 1
  /\ l <= L + 1 \/ l = o - c

Spans(S, E, ls, le, c, L) ==
  /\ Stale(S, ls, c, L) /\ Stale(E, le, c, L)
  /\ S < E => EndAt(S, ls, c, L, 0) /\ EndAt(E, le, c, L, 1)

LineSel(d) ==
  Spans(d.selNewStart, d.selNewEnd, d.selLineStart, d.selLineEnd, d.curLine, Len(d.bufEdit))

Selected(d) == SelTo(d) <= Len(Text(d)) /\ (d.editing => LineSel(d))

(* What AdjustLineSel() does.                                              *)
Moves(r, d, a, b) ==
  /\ r.selLineStart = U(d.selLineStart + a) /\ r.selNewStart = U(d.selNewStart + a)
  /\ r.selLineEnd = U(d.selLineEnd + b) /\ r.selNewEnd = U(d.selNewEnd + b)
Over(pos, dif, toLeft, p) ==
  LET st == Signed(pos - p + dif) IN IF toLeft /\ dif < 0 /\ st < 0 THEN st ELSE 0
InFront(pos, includeStart, p) == IF includeStart THEN pos <= p ELSE pos < p

LEMMA AdjustLineSelIs ==
  ASSUME NEW d \in Editors, NEW pos \in Int, NEW dif \in Int, NEW i, NEW l
  PROVE  LET r == AdjustLineSel(d, pos, dif, i, l)
         IN  IF d.selNewStart >= d.selNewEnd THEN r = d
             ELSE IF InFront(pos, i, d.selLineStart) THEN Moves(r, d, dif, dif)
             ELSE IF InFront(pos, i, d.selLineEnd)
             THEN Moves(r, d, Over(pos, dif, l, d.selLineStart), dif)
             ELSE Moves(r, d, 0, Over(pos, dif, l, d.selLineEnd))
<1> DEFINE moved(a, b) == [d EXCEPT !.selLineStart = U(@ + a), !.selNewStart = U(@ + a),
                               !.selLineEnd = U(@ + b), !.selNewEnd = U(@ + b)]
           o1 == Over(pos, dif, l, d.selLineStart)
           o2 == Over(pos, dif, l, d.selLineEnd)
           zero == 0
           r == AdjustLineSel(d, pos, dif, i, l)
<1>1. r = IF d.selNewStart >= d.selNewEnd THEN d
          ELSE IF InFront(pos, i, d.selLineStart) THEN moved(dif, dif)
          ELSE IF InFront(pos, i, d.selLineEnd) THEN moved(o1, dif)
          ELSE moved(zero, o2)
      BY DEF AdjustLineSel, InFront, Over
<1>2. \A a, b : Moves(moved(a, b), d, a, b)
      BY DEF Moves, Editors
<1> HIDE DEF moved, o1, o2, zero, r
<1>3. IF d.selNewStart >= d.selNewEnd THEN r = d
      ELSE IF InFront(pos, i, d.selLineStart) THEN Moves(r, d, dif, dif)
      ELSE IF InFront(pos, i, d.selLineEnd) THEN Moves(r, d, o1, dif)
      ELSE Moves(r, d, zero, o2)
      BY <1>1, <1>2
<1> QED BY <1>3 DEF o1, o2, zero, r

(* The same in numbers, when nothing wraps.                                *)
Goes(r, d, a, b) ==
  /\ r.selLineStart = d.selLineStart + a /\ r.selNewStart = d.selNewStart + a
  /\ r.selLineEnd = d.selLineEnd + b /\ r.selNewEnd = d.selNewEnd + b
Beyond(pos, dif, toLeft, p) ==
  IF toLeft /\ dif < 0 /\ pos - p + dif < 0 THEN pos - p + dif ELSE 0
Adjusts(r, d, pos, dif, i, l) ==
  IF InFront(pos, i, d.selLineStart) THEN Goes(r, d, dif, dif)
  ELSE IF InFront(pos, i, d.selLineEnd)
  THEN Goes(r, d, Beyond(pos, dif, l, d.selLineStart), dif)
  ELSE Goes(r, d, 0, Beyond(pos, dif, l, d.selLineEnd))

(* A selection whose ends move by dif when they are at pos or behind it.   *)
Movable(S, ls, E, le, c, L, R, pos, dif, i, l) ==
  /\ S \in Nat /\ ls \in Nat /\ E \in Nat /\ le \in Nat
  /\ c \in Nat /\ L \in Nat /\ R \in Nat /\ pos \in Nat /\ dif \in Int
  /\ S < E /\ Spans(S, E, ls, le, c, L) /\ E <= c + L + R /\ c + L + R + 2 <= Reach
  /\ pos <= L /\ dif <= 1 /\ -dif <= L /\ (pos + dif >= 0 \/ ~l \/ (pos = 0 /\ i))
  /\ InFront(pos, i, ls) => ls + dif >= 0
  /\ InFront(pos, i, le) => le + dif >= 0
InReach(S, ls, E, le, pos, dif, i, l) ==
  /\ ls <= Reach /\ le <= Reach /\ S <= Reach
  /\ InFront(pos, i, ls) =>
       /\ ls + dif \in 0 .. Reach /\ S + dif \in 0 .. Reach
       /\ le + dif \in 0 .. Reach /\ E + dif \in 0 .. Reach
  /\ ~InFront(pos, i, ls) =>
       /\ pos - ls + dif \in -Reach .. Reach
       /\ InFront(pos, i, le) =>
            /\ ls + Beyond(pos, dif, l, ls) \in 0 .. Reach
            /\ S + Beyond(pos, dif, l, ls) \in 0 .. Reach
            /\ le + dif \in 0 .. Reach /\ E + dif \in 0 .. Reach
       /\ ~InFront(pos, i, le) =>
            /\ pos - le + dif \in -Reach .. Reach
            /\ le + Beyond(pos, dif, l, le) \in 0 .. Reach
            /\ E + Beyond(pos, dif, l, le) \in 0 .. Reach

LEMMA SmallMoves ==
  ASSUME NEW S, NEW ls, NEW E, NEW le, NEW c, NEW L, NEW R, NEW pos, NEW dif, NEW i, NEW l,
         Movable(S, ls, E, le, c, L, R, pos, dif, i, l)
  PROVE  InReach(S, ls, E, le, pos, dif, i, l)
<1>0. /\ Reach \in Nat /\ S \in Nat /\ ls \in Nat /\ E \in Nat /\ le \in Nat
      /\ c \in Nat /\ L \in Nat /\ R \in Nat /\ pos \in Nat /\ dif \in Int
      BY SmallNumbers DEF Movable
<1>a. /\ S < E /\ Spans(S, E, ls, le, c, L) /\ E <= c + L + R /\ c + L + R + 2 <= Reach
      /\ pos <= L /\ dif <= 1 /\ -dif <= L /\ (pos + dif >= 0 \/ ~l \/ (pos = 0 /\ i))
      BY DEF Movable
<1>b. /\ InFront(pos, i, ls) => ls + dif >= 0
      /\ InFront(pos, i, le) => le + dif >= 0
      BY DEF Movable
<1>1. EndAt(S, ls, c, L, 0) /\ EndAt(E, le, c, L, 1)
      BY <1>a DEF Spans
<1>2. /\ ls <= L + 1 \/ ls = S - c
      /\ le <= L + 1 \/ le = E - c
      BY <1>0, <1>1 DEF EndAt
<1>3. S < Reach /\ ls <= Reach /\ le <= Reach /\ E <= Reach
      BY <1>0, <1>a, <1>2
<1>4. ASSUME InFront(pos, i, ls)
      PROVE  /\ ls + dif \in 0 .. Reach /\ S + dif \in 0 .. Reach
             /\ le + dif \in 0 .. Reach /\ E + dif \in 0 .. Reach
  <2>1. ls + dif >= 0
        BY <1>4, <1>b
  <2>2. le >= ls \/ le + dif >= 0
        BY <1>0, <1>a, <1>1, <2>1 DEF EndAt
  <2>3. S + dif >= 0 /\ E + dif >= 0
        BY <1>0, <1>a, <1>1, <2>1 DEF EndAt
  <2> QED BY <1>0, <1>a, <1>1, <1>2, <1>3, <2>1, <2>2, <2>3 DEF EndAt
<1>5. ASSUME ~InFront(pos, i, ls)
      PROVE  /\ pos - ls + dif \in -Reach .. Reach
             /\ ls + Beyond(pos, dif, l, ls) \in 0 .. Reach
             /\ S + Beyond(pos, dif, l, ls) \in 0 .. Reach
  <2>1. ls <= pos /\ (i => ls < pos)
        BY <1>0, <1>5 DEF InFront
  <2>2. pos - ls + dif \in -Reach .. Reach
        BY <1>0, <1>a, <2>1
  <2>3. ls = 0 \/ S = c + ls
        BY <1>0, <1>a, <1>1, <2>1 DEF EndAt
  <2>4. ~l \/ pos + dif >= 0
        BY <1>0, <1>a, <2>1
  <2> QED BY <1>0, <1>a, <1>3, <2>1, <2>2, <2>3, <2>4 DEF Beyond
<1>6. ASSUME InFront(pos, i, le)
      PROVE  le + dif \in 0 .. Reach /\ E + dif \in 0 .. Reach
  <2>1. le + dif >= 0
        BY <1>6, <1>b
  <2>2. E + dif >= 0
        BY <1>0, <1>a, <1>1, <2>1 DEF EndAt
  <2> QED BY <1>0, <1>a, <1>2, <1>3, <2>1, <2>2
<1>7. ASSUME ~InFront(pos, i, le)
      PROVE  /\ pos - le + dif \in -Reach .. Reach
             /\ le + Beyond(pos, dif, l, le) \in 0 .. Reach
             /\ E + Beyond(pos, dif, l, le) \in 0 .. Reach
  <2>1. le <= pos /\ (i => le < pos)
        BY <1>0, <1>7 DEF InFront
  <2>2. pos - le + dif \in -Reach .. Reach
        BY <1>0, <1>a, <2>1
  <2>3. le = 0 \/ E = c + le
        BY <1>0, <1>a, <1>1, <2>1 DEF EndAt
  <2>4. ~l \/ pos + dif >= 0
        BY <1>0, <1>a, <2>1
  <2> QED BY <1>0, <1>a, <1>3, <2>1, <2>2, <2>3, <2>4 DEF Beyond
<1>8. ls <= Reach /\ le <= Reach /\ S <= Reach
      BY <1>0, <1>a, <1>3
<1> QED BY <1>4, <1>5, <1>6, <1>7, <1>8 DEF InReach

LEMMA SmallAdjusts ==
  ASSUME NEW d \in Editors, NEW c, NEW L, NEW R, NEW pos, NEW dif, NEW i, NEW l,
         Movable(d.selNewStart, d.selLineStart, d.selNewEnd, d.selLineEnd, c, L, R, pos, dif, i, l)
  PROVE  Adjusts(AdjustLineSel(d, pos, dif, i, l), d, pos, dif, i, l)
<1> DEFINE r == AdjustLineSel(d, pos, dif, i, l)
           S == d.selNewStart
           E == d.selNewEnd
           ls == d.selLineStart
           le == d.selLineEnd
           o1 == Over(pos, dif, l, ls)
           o2 == Over(pos, dif, l, le)
           b1 == Beyond(pos, dif, l, ls)
           b2 == Beyond(pos, dif, l, le)
           zero == 0
<1>1. S \in Nat /\ E \in Nat /\ ls \in Nat /\ le \in Nat
  <2>1. S \in Offsets /\ E \in Offsets /\ ls \in Offsets /\ le \in Offsets
        BY DEF Editors
  <2> QED BY <2>1, Unsigneds
<1>2. IF InFront(pos, i, ls) THEN Moves(r, d, dif, dif)
      ELSE IF InFront(pos, i, le) THEN Moves(r, d, o1, dif)
      ELSE Moves(r, d, zero, o2)
  <2>1. IF S >= E THEN r = d
        ELSE IF InFront(pos, i, ls) THEN Moves(r, d, dif, dif)
        ELSE IF InFront(pos, i, le) THEN Moves(r, d, o1, dif)
        ELSE Moves(r, d, 0, o2)
    <3>1. pos \in Int /\ dif \in Int
          BY DEF Movable
    <3> QED BY <3>1, AdjustLineSelIs
  <2>2. ~(S >= E)
    <3>1. S < E
          BY DEF Movable
    <3> HIDE DEF S, E
    <3> QED BY <1>1, <3>1
  <2> QED BY <2>1, <2>2
<1>3. \A k \in 0 .. Reach : U(k) = k
      BY SmallNumbers
<1>4. \A k \in -Reach .. Reach : Signed(k) = k
      BY SmallNumbers
<1>5. \A a, b : Moves(r, d, a, b) <=>
        /\ r.selLineStart = U(ls + a) /\ r.selNewStart = U(S + a)
        /\ r.selLineEnd = U(le + b) /\ r.selNewEnd = U(E + b)
      BY DEF Moves
<1>6. \A a, b : Goes(r, d, a, b) <=>
        /\ r.selLineStart = ls + a /\ r.selNewStart = S + a
        /\ r.selLineEnd = le + b /\ r.selNewEnd = E + b
      BY DEF Goes
<1>7. Movable(S, ls, E, le, c, L, R, pos, dif, i, l)
      OBVIOUS
<1>8. Adjusts(r, d, pos, dif, i, l) <=>
        IF InFront(pos, i, ls) THEN Goes(r, d, dif, dif)
        ELSE IF InFront(pos, i, le) THEN Goes(r, d, b1, dif)
        ELSE Goes(r, d, zero, b2)
      BY DEF Adjusts
<1> HIDE DEF r, S, E, ls, le
<1>9. /\ ls <= Reach /\ le <= Reach /\ S <= Reach
      /\ InFront(pos, i, ls) =>
           /\ ls + dif \in 0 .. Reach /\ S + dif \in 0 .. Reach
           /\ le + dif \in 0 .. Reach /\ E + dif \in 0 .. Reach
      /\ ~InFront(pos, i, ls) =>
           /\ pos - ls + dif \in -Reach .. Reach
           /\ InFront(pos, i, le) =>
                /\ ls + b1 \in 0 .. Reach
                /\ S + b1 \in 0 .. Reach
                /\ le + dif \in 0 .. Reach /\ E + dif \in 0 .. Reach
           /\ ~InFront(pos, i, le) =>
                /\ pos - le + dif \in -Reach .. Reach
                /\ le + b2 \in 0 .. Reach
                /\ E + b2 \in 0 .. Reach
  <2>1. InReach(S, ls, E, le, pos, dif, i, l)
        BY ONLY <1>7, SmallMoves
  <2> QED BY ONLY <2>1 DEF InReach, b1, b2
<1>10. /\ pos - ls + dif \in -Reach .. Reach => o1 = b1
       /\ pos - le + dif \in -Reach .. Reach => o2 = b2
       BY <1>4 DEF Over, Beyond
<1>11. ls + zero \in 0 .. Reach /\ S + zero \in 0 .. Reach
       BY <1>1, <1>9, SmallNumbers
<1> HIDE DEF o1, o2, b1, b2, zero
<1>12. CASE InFront(pos, i, ls)
  <2>1. Moves(r, d, dif, dif)
        BY <1>2, <1>12
  <2>2. Goes(r, d, dif, dif)
        BY <1>3, <1>5, <1>6, <1>9, <1>12, <2>1
  <2> QED BY <1>8, <1>12, <2>2 DEF r
<1>13. CASE ~InFront(pos, i, ls) /\ InFront(pos, i, le)
  <2>1. Moves(r, d, b1, dif)
        BY <1>2, <1>9, <1>10, <1>13
  <2>2. Goes(r, d, b1, dif)
        BY <1>3, <1>5, <1>6, <1>9, <1>13, <2>1
  <2> QED BY <1>8, <1>13, <2>2 DEF r
<1>14. CASE ~InFront(pos, i, ls) /\ ~InFront(pos, i, le)
  <2>1. Moves(r, d, zero, b2)
        BY <1>2, <1>9, <1>10, <1>14
  <2>2. Goes(r, d, zero, b2)
        BY <1>3, <1>5, <1>6, <1>9, <1>11, <1>14, <2>1
  <2> QED BY <1>8, <1>14, <2>2 DEF r
<1> QED BY <1>12, <1>13, <1>14

(* An end of the selection in the text is never out of step by what the    *)
(* line in edition no longer has.                                          *)
LEMMA EndsAreStale ==
  ASSUME NEW o \in Nat, NEW l \in Nat, NEW c \in Nat, NEW L \in Nat, NEW more \in {0, 1},
         EndAt(o, l, c, L, more)
  PROVE  Stale(o, l, c, L)
BY DEF EndAt, Stale

(* When the line gets longer by dif, the ends of the selection stay where  *)
(* they are in it.                                                         *)
LEMMA SpansKept ==
  ASSUME NEW r, NEW d, NEW c, NEW L, NEW R, NEW pos, NEW dif, NEW i, NEW l,
         Movable(d.selNewStart, d.selLineStart, d.selNewEnd, d.selLineEnd, c, L, R, pos, dif, i, l),
         Adjusts(r, d, pos, dif, i, l),
         ~InFront(pos, i, 0) \/ dif <= 0, l \/ pos <= L + dif
  PROVE  /\ Spans(r.selNewStart, r.selNewEnd, r.selLineStart, r.selLineEnd, c, L + dif)
         /\ r.selNewEnd <= c + (L + dif) + R
         /\ dif <= 0 => r.selNewEnd <= d.selNewEnd
<1> DEFINE S == d.selNewStart
           E == d.selNewEnd
           ls == d.selLineStart
           le == d.selLineEnd
           S2 == r.selNewStart
           E2 == r.selNewEnd
           ls2 == r.selLineStart
           le2 == r.selLineEnd
           M == L + dif
           b1 == Beyond(pos, dif, l, ls)
           b2 == Beyond(pos, dif, l, le)
<1>1. Movable(S, ls, E, le, c, L, R, pos, dif, i, l)
      OBVIOUS
<1>2. IF InFront(pos, i, ls)
      THEN ls2 = ls + dif /\ S2 = S + dif /\ le2 = le + dif /\ E2 = E + dif
      ELSE IF InFront(pos, i, le)
      THEN ls2 = ls + b1 /\ S2 = S + b1 /\ le2 = le + dif /\ E2 = E + dif
      ELSE ls2 = ls + 0 /\ S2 = S + 0 /\ le2 = le + b2 /\ E2 = E + b2
      BY DEF Adjusts, Goes
<1> HIDE DEF S, E, ls, le, S2, E2, ls2, le2, b1, b2
<1>3. /\ Reach \in Nat /\ S \in Nat /\ ls \in Nat /\ E \in Nat /\ le \in Nat
      /\ c \in Nat /\ L \in Nat /\ R \in Nat /\ pos \in Nat /\ dif \in Int
      BY <1>1, SmallNumbers DEF Movable
<1>4. /\ S < E /\ Spans(S, E, ls, le, c, L) /\ E <= c + L + R /\ c + L + R + 2 <= Reach
      /\ pos <= L /\ dif <= 1 /\ -dif <= L /\ (pos + dif >= 0 \/ ~l \/ (pos = 0 /\ i))
      /\ InFront(pos, i, ls) => ls + dif >= 0
      /\ InFront(pos, i, le) => le + dif >= 0
      BY <1>1 DEF Movable
<1>5. EndAt(S, ls, c, L, 0) /\ EndAt(E, le, c, L, 1)
      BY <1>4 DEF Spans
<1>6. M \in Nat
      BY <1>3, <1>4
<1>7. ASSUME InFront(pos, i, ls)
      PROVE  /\ S2 \in Nat /\ E2 \in Nat /\ ls2 \in Nat /\ le2 \in Nat
             /\ EndAt(S2, ls2, c, M, 0) /\ EndAt(E2, le2, c, M, 1)
             /\ E2 <= c + M + R /\ (dif <= 0 => E2 <= E)
  <2>1. ls2 = ls + dif /\ S2 = S + dif /\ le2 = le + dif /\ E2 = E + dif
        BY <1>2, <1>7
  <2>2. InFront(pos, i, 0) => dif <= 0
        OBVIOUS
  <2>3. ls = 0 => dif = 0
        BY <1>3, <1>4, <1>7, <2>2
  <2>4. le = 0 => dif = 0
        BY <1>3, <1>4, <1>5, <2>3 DEF EndAt
  <2>5. ls + dif >= 0
        BY <1>4, <1>7
  <2>6. S2 \in Nat /\ E2 \in Nat /\ ls2 \in Nat /\ le2 \in Nat
        BY <1>3, <1>4, <1>5, <2>1, <2>3, <2>4, <2>5 DEF EndAt
  <2>7. EndAt(S2, ls2, c, M, 0)
        BY <1>3, <1>4, <1>5, <2>1, <2>3, <2>5 DEF EndAt
  <2>8. EndAt(E2, le2, c, M, 1)
        BY <1>3, <1>4, <1>5, <2>1, <2>4 DEF EndAt
  <2> QED BY <1>3, <1>4, <2>1, <2>6, <2>7, <2>8
<1>8. ASSUME ~InFront(pos, i, ls)
      PROVE  /\ ls + b1 \in Nat /\ S + b1 \in Nat /\ EndAt(S + b1, ls + b1, c, M, 0)
             /\ EndAt(S, ls, c, M, 0)
  <2>1. ls <= pos /\ (i => ls < pos)
        BY <1>3, <1>8 DEF InFront
  <2>2. ls = 0 \/ S = c + ls
        BY <1>3, <1>4, <1>5, <2>1 DEF EndAt
  <2>3. ls = 0 => S <= c \/ S = c
        BY <1>3, <1>4, <1>5, <2>1 DEF EndAt
  <2>4. EndAt(S, ls, c, M, 0)
        BY <1>3, <2>2, <2>3 DEF EndAt
  <2>5. CASE b1 = 0
        BY <1>3, <2>4, <2>5
  <2>6. CASE b1 # 0
    <3>1. l /\ b1 = pos - ls + dif /\ b1 < 0
          BY <2>6 DEF b1, Beyond
    <3>2. pos + dif >= 0
          BY <1>3, <1>4, <2>1, <3>1
    <3>3. S = c + ls
          BY <1>3, <2>2, <3>1, <3>2
    <3>4. S + b1 = c + (pos + dif) /\ ls + b1 = pos + dif
          BY <1>3, <3>1, <3>3
    <3> QED BY <1>3, <2>4, <3>2, <3>4 DEF EndAt
  <2> QED BY <2>5, <2>6
<1>9. ASSUME ~InFront(pos, i, ls), InFront(pos, i, le)
      PROVE  /\ S2 \in Nat /\ E2 \in Nat /\ ls2 \in Nat /\ le2 \in Nat
             /\ EndAt(S2, ls2, c, M, 0) /\ EndAt(E2, le2, c, M, 1)
             /\ E2 <= c + M + R /\ (dif <= 0 => E2 <= E)
  <2>1. ls2 = ls + b1 /\ S2 = S + b1 /\ le2 = le + dif /\ E2 = E + dif
        BY <1>2, <1>9
  <2>2. InFront(pos, i, 0) => dif <= 0
        OBVIOUS
  <2>3. le = 0 => dif = 0
        BY <1>3, <1>4, <1>9, <2>2
  <2>4. le + dif >= 0
        BY <1>4, <1>9
  <2>5. E2 \in Nat /\ le2 \in Nat
        BY <1>3, <1>4, <1>5, <2>1, <2>3, <2>4 DEF EndAt
  <2>6. EndAt(E2, le2, c, M, 1)
        BY <1>3, <1>4, <1>5, <2>1, <2>3 DEF EndAt
  <2>7. S2 \in Nat /\ ls2 \in Nat /\ EndAt(S2, ls2, c, M, 0)
        BY <1>8, <1>9, <2>1
  <2> QED BY <1>3, <1>4, <2>1, <2>5, <2>6, <2>7
<1>10. ASSUME ~InFront(pos, i, ls), ~InFront(pos, i, le)
      PROVE  /\ S2 \in Nat /\ E2 \in Nat /\ ls2 \in Nat /\ le2 \in Nat
             /\ EndAt(S2, ls2, c, M, 0) /\ EndAt(E2, le2, c, M, 1)
             /\ E2 <= c + M + R /\ (dif <= 0 => E2 <= E)
  <2>1. ls2 = ls /\ S2 = S /\ le2 = le + b2 /\ E2 = E + b2
        BY <1>2, <1>3, <1>10
  <2>2. le <= pos /\ (i => le < pos)
        BY <1>3, <1>10 DEF InFront
  <2>3. le = 0 \/ E = c + le
        BY <1>3, <1>4, <1>5, <2>2 DEF EndAt
  <2>4. le = 0 => E <= c
        BY <1>3, <1>4, <1>5, <2>2 DEF EndAt
  <2>5. l \/ pos <= M
        OBVIOUS
  <2>6. CASE b2 = 0
    <3>1. le <= M
      <4>1. CASE ~l \/ dif >= 0
            BY <1>3, <1>4, <2>2, <2>5, <4>1
      <4>2. CASE l /\ dif < 0
        <5>1. ~(pos - le + dif < 0)
          <6> SUFFICES ASSUME pos - le + dif < 0 PROVE FALSE
              OBVIOUS
          <6>1. b2 = pos - le + dif
                BY <4>2 DEF b2, Beyond
          <6> QED BY <2>6, <6>1
        <5> QED BY <1>3, <1>4, <4>2, <5>1
      <4> QED BY <1>3, <4>1, <4>2
    <3> QED BY <1>3, <1>6, <1>8, <1>10, <2>1, <2>3, <2>4, <2>6, <3>1 DEF EndAt
  <2>7. CASE b2 # 0
    <3>1. l /\ b2 = pos - le + dif /\ b2 < 0
          BY <2>7 DEF b2, Beyond
    <3>2. pos + dif >= 0
          BY <1>3, <1>4, <2>2, <3>1
    <3>3. E = c + le
          BY <1>3, <2>3, <3>1, <3>2
    <3>4. E + b2 = c + (pos + dif) /\ le + b2 = pos + dif
          BY <1>3, <3>1, <3>3
    <3>5. E2 = c + (pos + dif) /\ le2 = pos + dif /\ E2 <= E
          BY <1>3, <2>1, <3>1, <3>3, <3>4
    <3> QED BY <1>3, <1>4, <1>8, <1>10, <2>1, <3>2, <3>5 DEF EndAt
  <2> QED BY <2>6, <2>7
<1>11. /\ S2 \in Nat /\ E2 \in Nat /\ ls2 \in Nat /\ le2 \in Nat
       /\ EndAt(S2, ls2, c, M, 0) /\ EndAt(E2, le2, c, M, 1)
       /\ E2 <= c + M + R /\ (dif <= 0 => E2 <= E)
       BY <1>7, <1>9, <1>10
<1>12. Stale(S2, ls2, c, M) /\ Stale(E2, le2, c, M)
       BY <1>3, <1>6, <1>11, EndsAreStale
<1> HIDE DEF M
<1>13. Spans(S2, E2, ls2, le2, c, M)
       BY <1>11, <1>12 DEF Spans
<1> QED BY <1>11, <1>13 DEF S, E, ls, le, S2, E2, ls2, le2, M

(* The line of the cursor is the same one, and so is the selection.        *)
OnLine(r, d) ==
  /\ r.buffer = d.buffer /\ r.lenLines = d.lenLines /\ r.y = d.y /\ r.curLine = d.curLine
  /\ r.editing = d.editing
SameSel(r, d) ==
  /\ r.selNewStart = d.selNewStart /\ r.selNewEnd = d.selNewEnd
  /\ r.selLineStart = d.selLineStart /\ r.selLineEnd = d.selLineEnd

(* The line gets longer by dif where pos is, and AdjustLineSel() is told.  *)
Tells(d, pos, dif, i, l) ==
  /\ pos \in Nat /\ dif \in Int
  /\ pos <= Len(d.bufEdit) /\ dif <= 1 /\ -dif <= Len(d.bufEdit)
  /\ pos + dif >= 0 \/ ~l \/ (pos = 0 /\ i)
  /\ InFront(pos, i, d.selLineStart) => d.selLineStart + dif >= 0
  /\ InFront(pos, i, d.selLineEnd) => d.selLineEnd + dif >= 0
  /\ ~InFront(pos, i, 0) \/ dif <= 0
  /\ l \/ pos <= Len(d.bufEdit) + dif

LEMMA SelectedMoves ==
  ASSUME NEW d, Good(d), d.editing, Selected(d), d.selNewStart < d.selNewEnd,
         Len(Text(d)) + 2 <= Reach,
         NEW g \in Editors, SameSel(g, d), NEW pos, NEW dif, NEW i, NEW l, Tells(d, pos, dif, i, l)
  PROVE  LET a == AdjustLineSel(g, pos, dif, i, l)
         IN  /\ Spans(a.selNewStart, a.selNewEnd, a.selLineStart, a.selLineEnd,
                      d.curLine, Len(d.bufEdit) + dif)
             /\ a.selNewEnd <= d.curLine + (Len(d.bufEdit) + dif) + Behind(d)
             /\ dif <= 0 => a.selNewEnd <= d.selNewEnd
<1> DEFINE a == AdjustLineSel(g, pos, dif, i, l)
           c == d.curLine
           L == Len(d.bufEdit)
           R == Behind(d)
           N == Len(Text(d))
<1>1. /\ c \in Nat /\ L \in Nat /\ R \in Nat /\ N = c + L + R
      BY TextIs
<1>2. /\ d.selNewEnd <= N /\ N + 2 <= Reach
      /\ Spans(d.selNewStart, d.selNewEnd, d.selLineStart, d.selLineEnd, c, L)
      BY DEF Selected, SelTo, LineSel
<1>3. /\ g.selNewStart \in Nat /\ g.selNewEnd \in Nat /\ g.selLineStart \in Nat /\ g.selLineEnd \in Nat
  <2>1. /\ g.selNewStart \in Offsets /\ g.selNewEnd \in Offsets
        /\ g.selLineStart \in Offsets /\ g.selLineEnd \in Offsets
        BY DEF Editors
  <2> QED BY <2>1, Unsigneds
<1>4. /\ pos \in Nat /\ dif \in Int /\ pos <= L /\ dif <= 1 /\ -dif <= L
      /\ (pos + dif >= 0 \/ ~l \/ (pos = 0 /\ i))
      BY DEF Tells
<1>5. /\ InFront(pos, i, g.selLineStart) => g.selLineStart + dif >= 0
      /\ InFront(pos, i, g.selLineEnd) => g.selLineEnd + dif >= 0
      BY DEF Tells, SameSel
<1>6. /\ ~InFront(pos, i, 0) \/ dif <= 0
      /\ l \/ pos <= L + dif
      BY DEF Tells
<1>7. /\ g.selNewStart < g.selNewEnd /\ g.selNewEnd <= c + L + R /\ c + L + R + 2 <= Reach
      /\ Spans(g.selNewStart, g.selNewEnd, g.selLineStart, g.selLineEnd, c, L)
  <2>1. c + L + R + 2 <= Reach /\ d.selNewEnd <= c + L + R
        BY <1>1, <1>2
  <2> HIDE DEF c, L, R
  <2> QED BY <1>2, <2>1 DEF SameSel
<1> HIDE DEF c, L, R, N
<1>8. Movable(g.selNewStart, g.selLineStart, g.selNewEnd, g.selLineEnd, c, L, R, pos, dif, i, l)
      BY <1>1, <1>3, <1>4, <1>5, <1>7 DEF Movable
<1>9. Adjusts(a, g, pos, dif, i, l)
      BY <1>8, SmallAdjusts
<1> HIDE DEF a
<1>10. /\ Spans(a.selNewStart, a.selNewEnd, a.selLineStart, a.selLineEnd, c, L + dif)
       /\ a.selNewEnd <= c + (L + dif) + R
       /\ dif <= 0 => a.selNewEnd <= g.selNewEnd
       BY <1>6, <1>8, <1>9, SpansKept
<1> QED BY <1>10 DEF a, c, L, R, SameSel

(* What is behind the line is the same.                                    *)
LEMMA SameBehind ==
  ASSUME NEW d, NEW r, OnLine(r, d)
  PROVE  Behind(r) = Behind(d) /\ LineWidth(r) = LineWidth(d)
BY DEF OnLine, Behind, LineWidth, LenWithoutCRLF

LEMMA Readjusted ==
  ASSUME NEW d, Good(d), d.editing, Selected(d), d.selNewStart < d.selNewEnd,
         Len(Text(d)) + 2 <= Reach,
         NEW g \in Editors, SameSel(g, d), NEW pos, NEW dif, NEW i, NEW l, Tells(d, pos, dif, i, l),
         NEW r, Good(r), OnLine(r, d), SameSel(r, AdjustLineSel(g, pos, dif, i, l)),
         Len(r.bufEdit) = Len(d.bufEdit) + dif
  PROVE  Selected(r)
<1> DEFINE a == AdjustLineSel(g, pos, dif, i, l)
           L == Len(r.bufEdit)
           c == r.curLine
           R == Behind(r)
<1>1. /\ Spans(a.selNewStart, a.selNewEnd, a.selLineStart, a.selLineEnd,
               d.curLine, Len(d.bufEdit) + dif)
      /\ a.selNewEnd <= d.curLine + (Len(d.bufEdit) + dif) + Behind(d)
      BY SelectedMoves
<1>2. c = d.curLine /\ L = Len(d.bufEdit) + dif /\ R = Behind(d) /\ r.editing
      BY SameBehind DEF OnLine
<1> HIDE DEF a
<1>3. /\ Spans(a.selNewStart, a.selNewEnd, a.selLineStart, a.selLineEnd, c, L)
      /\ a.selNewEnd <= c + L + R
      BY <1>1, <1>2
<1>4. /\ Spans(r.selNewStart, r.selNewEnd, r.selLineStart, r.selLineEnd, c, L)
      /\ r.selNewEnd <= c + L + R
  <2> HIDE DEF c, L, R
  <2> QED BY <1>3 DEF SameSel, a
<1>5. Len(Text(r)) = c + L + R
      BY <1>2, TextIs
<1> QED BY <1>2, <1>4, <1>5 DEF Selected, SelTo, LineSel

LEMMA LenWithout ==
  ASSUME NEW s \in Strings, NEW a \in Nat, NEW z \in Nat, a <= z, z <= Len(s)
  PROVE  Len(Part(s, 0, a) \o Part(s, z, Len(s))) = Len(s) + (a - z)
<1> DEFINE n == Len(s)
           g == Part(s, 0, a)
           h == Part(s, z, n)
<1>1. n \in Nat /\ s \in Seq(Chars)
      BY LenProperties DEF Strings
<1>2. 0 \in 0 .. n /\ a \in 0 .. n /\ z \in 0 .. n /\ n \in z .. n
      BY <1>1
<1>3. g \in Seq(Chars) /\ Len(g) = a - 0
      BY <1>1, <1>2, PartOf
<1>4. h \in Seq(Chars) /\ Len(h) = n - z
      BY <1>1, <1>2, PartOf
<1> HIDE DEF g, h
<1>5. Len(g \o h) = Len(g) + Len(h)
      BY <1>3, <1>4, Concat
<1>6. Len(g) + Len(h) = n + (a - z)
      BY <1>1, <1>2, <1>3, <1>4
<1> QED BY <1>5, <1>6 DEF g, h

LEMMA AdjustedSame ==
  ASSUME NEW d \in Editors, NEW pos \in Int, NEW dif \in Int, NEW i, NEW l
  PROVE  LET a == AdjustLineSel(d, pos, dif, i, l)
         IN  /\ a \in Editors /\ OnLine(a, d) /\ a.bufEdit = d.bufEdit
             /\ a.markInLine = d.markInLine /\ a.inEdit = d.inEdit /\ a.x = d.x
<1> DEFINE a == AdjustLineSel(d, pos, dif, i, l)
<1>1. Reselected(a, d)
      BY AdjustLineSelFields
<1> HIDE DEF a
<1>2. /\ a \in Editors /\ OnLine(a, d) /\ a.bufEdit = d.bufEdit
      /\ a.markInLine = d.markInLine /\ a.inEdit = d.inEdit /\ a.x = d.x
      BY <1>1 DEF Reselected, Editors, OnLine
<1> QED BY <1>2 DEF a

LEMMA EndsInLine ==
  ASSUME NEW d \in Editors
  PROVE  /\ d.selLineStart \in Nat /\ d.selLineEnd \in Nat
         /\ d.selNewStart \in Nat /\ d.selNewEnd \in Nat
         /\ d.selStart \in Nat /\ d.selEnd \in Nat
<1>1. /\ d.selNewStart \in Offsets /\ d.selNewEnd \in Offsets
      /\ d.selLineStart \in Offsets /\ d.selLineEnd \in Offsets
      /\ d.selStart \in Offsets /\ d.selEnd \in Offsets
      BY DEF Editors
<1> QED BY <1>1, Unsigneds

LEMMA EraseLeftSelected ==
  ASSUME NEW d, Typing(d), d.x > 0, Selected(d), d.selNewStart < d.selNewEnd,
         Len(Text(d)) + 2 <= Reach
  PROVE  Selected(EraseLeft(d))
<1> DEFINE p == d.inEdit
           one == -1
           yes == TRUE
           a == AdjustLineSel(d, p, one, yes, yes)
           r == EraseLeft(d)
           s == d.bufEdit
<1>1. d \in Editors /\ Good(d) /\ d.editing /\ p \in Nat /\ p > 0 /\ s \in Strings /\ Len(s) \in Nat
      /\ p <= Len(s)
      BY TypingHas DEF Typing
<1>2. Good(r)
  <2>1. Typing(r)
        BY EraseLeftTyping
  <2> HIDE DEF r
  <2> QED BY <2>1 DEF Typing
<1>3. /\ a \in Editors /\ OnLine(a, d) /\ a.bufEdit = s
  <2>1. p \in Int /\ one \in Int
        BY <1>1
  <2> HIDE DEF p, one, yes
  <2> QED BY <1>1, <2>1, AdjustedSame
<1>4. r = [a EXCEPT !.bufEdit = Part(@, 0, p - 1) \o Part(@, p, Len(@)),
                    !.inEdit = p - 1, !.x = @ - 1,
                    !.markInLine = IF @ >= 0 /\ @ >= p THEN @ - 1 ELSE @]
      BY DEF EraseLeft
<1> HIDE DEF a, r, p
<1>5. /\ OnLine(r, d) /\ SameSel(r, a)
      /\ r.bufEdit = Part(s, 0, p - 1) \o Part(s, p, Len(s))
      BY <1>3, <1>4 DEF Editors, OnLine, SameSel
<1>6. Len(r.bufEdit) = Len(s) + one
  <2> DEFINE q == p - 1
  <2>1. q \in Nat /\ q <= p /\ q - p = -1
        BY <1>1
  <2> HIDE DEF q
  <2>2. Len(Part(s, 0, q) \o Part(s, p, Len(s))) = Len(s) + (q - p)
        BY <1>1, <2>1, LenWithout
  <2> QED BY <1>5, <2>1, <2>2 DEF q
<1>7. Tells(d, p, one, yes, yes)
      BY <1>1, EndsInLine DEF Tells, InFront
<1>8. SameSel(d, d)
      BY DEF SameSel
<1> HIDE DEF one, yes, s
<1>9. SameSel(r, AdjustLineSel(d, p, one, yes, yes))
      BY <1>5 DEF a
<1> QED BY <1>1, <1>2, <1>5, <1>6, <1>7, <1>8, <1>9, Readjusted DEF r, s

LEMMA EraseRightSelected ==
  ASSUME NEW d, Typing(d), d.x < Len(d.bufEdit), Selected(d), d.selNewStart < d.selNewEnd,
         Len(Text(d)) + 2 <= Reach
  PROVE  Selected(EraseRight(d))
<1> DEFINE p == d.inEdit
           one == -1
           no == FALSE
           a == AdjustLineSel(d, p, one, no, no)
           r == EraseRight(d)
           s == d.bufEdit
<1>1. d \in Editors /\ Good(d) /\ d.editing /\ p \in Nat /\ s \in Strings /\ Len(s) \in Nat
      /\ p < Len(s)
      BY TypingHas DEF Typing
<1>2. Good(r)
  <2>1. Typing(r)
        BY EraseRightTyping
  <2> HIDE DEF r
  <2> QED BY <2>1 DEF Typing
<1>3. /\ a \in Editors /\ OnLine(a, d) /\ a.bufEdit = s
  <2>1. p \in Int /\ one \in Int
        BY <1>1
  <2> HIDE DEF p, one, no
  <2> QED BY <1>1, <2>1, AdjustedSame
<1>4. r = [a EXCEPT !.bufEdit = Part(@, 0, p) \o Part(@, p + 1, Len(@)),
                    !.restCharsInLine = @ - 1,
                    !.markInLine = IF @ >= 0 /\ @ > p THEN @ - 1 ELSE @]
      BY DEF EraseRight
<1> HIDE DEF a, r, p
<1>5. /\ OnLine(r, d) /\ SameSel(r, a)
      /\ r.bufEdit = Part(s, 0, p) \o Part(s, p + 1, Len(s))
      BY <1>3, <1>4 DEF Editors, OnLine, SameSel
<1>6. Len(r.bufEdit) = Len(s) + one
  <2> DEFINE q == p + 1
  <2>1. q \in Nat /\ p <= q /\ q <= Len(s) /\ p - q = -1
        BY <1>1
  <2> HIDE DEF q
  <2>2. Len(Part(s, 0, p) \o Part(s, q, Len(s))) = Len(s) + (p - q)
        BY <1>1, <2>1, LenWithout
  <2> QED BY <1>5, <2>1, <2>2 DEF q
<1>7. Tells(d, p, one, no, no)
      BY <1>1, EndsInLine DEF Tells, InFront
<1>8. SameSel(d, d)
      BY DEF SameSel
<1> HIDE DEF one, no, s
<1>9. SameSel(r, AdjustLineSel(d, p, one, no, no))
      BY <1>5 DEF a
<1> QED BY <1>1, <1>2, <1>5, <1>6, <1>7, <1>8, <1>9, Readjusted DEF r, s

(* AdjustLineSel() is not told of a change behind the selection.           *)
LEMMA UntoldSelected ==
  ASSUME NEW d, Good(d), d.editing, Selected(d), d.selNewStart < d.selNewEnd,
         NEW r, Good(r), OnLine(r, d), SameSel(r, d),
         \/ Len(r.bufEdit) = Len(d.bufEdit)
         \/ /\ d.selNewEnd <= d.curLine + Len(d.bufEdit)
            /\ d.selNewEnd <= d.curLine + Len(r.bufEdit)
  PROVE  Selected(r)
<1> DEFINE S == d.selNewStart
           E == d.selNewEnd
           ls == d.selLineStart
           le == d.selLineEnd
           c == d.curLine
           L == Len(d.bufEdit)
           M == Len(r.bufEdit)
           R == Behind(d)
<1>1. /\ c \in Nat /\ L \in Nat /\ R \in Nat /\ Len(Text(d)) = c + L + R
      BY TextIs
<1>2. r.editing /\ r.curLine = c /\ Behind(r) = R
      BY SameBehind DEF OnLine
<1>3. M \in Nat /\ Len(Text(r)) = c + M + R
      BY <1>2, TextIs
<1>4. /\ S \in Nat /\ E \in Nat /\ ls \in Nat /\ le \in Nat
  <2>1. d \in Editors
        BY DEF Good, InLines
  <2> QED BY <2>1, EndsInLine
<1>5. E <= c + L + R /\ Spans(S, E, ls, le, c, L) /\ S < E
      BY <1>1 DEF Selected, SelTo, LineSel
<1>6. /\ r.selNewStart = S /\ r.selNewEnd = E /\ r.selLineStart = ls /\ r.selLineEnd = le
      BY DEF SameSel
<1>7. L = M \/ (E <= c + L /\ E <= c + M)
      OBVIOUS
<1> HIDE DEF S, E, ls, le, c, L, M, R
<1>8. E <= c + M + R /\ Spans(S, E, ls, le, c, M)
  <2>1. CASE L = M
        BY <1>5, <2>1
  <2>2. CASE E <= c + L /\ E <= c + M
    <3>1. EndAt(S, ls, c, L, 0) /\ EndAt(E, le, c, L, 1)
          BY <1>5 DEF Spans
    <3>2. EndAt(S, ls, c, M, 0) /\ EndAt(E, le, c, M, 1)
          BY <1>1, <1>3, <1>4, <1>5, <2>2, <3>1 DEF EndAt
    <3>3. Stale(S, ls, c, M) /\ Stale(E, le, c, M)
          BY <1>1, <1>3, <1>4, <3>2, EndsAreStale
    <3> QED BY <1>1, <1>3, <1>4, <2>2, <3>2, <3>3 DEF Spans
  <2> QED BY <1>7, <2>1, <2>2
<1> QED BY <1>2, <1>3, <1>6, <1>8 DEF Selected, SelTo, LineSel, M

LEMMA DeleteRangeInEditionSelected ==
  ASSUME NEW d, Typing(d), NEW from \in 0 .. Len(d.bufEdit), NEW to \in from .. Len(d.bufEdit),
         NEW x \in Int, (x = 0 /\ from = 0) \/ (x < 0 /\ d.inEdit <= from),
         Selected(d), d.selNewStart < d.selNewEnd, Len(Text(d)) + 2 <= Reach,
         ~EndsInside(d, from, to)
  PROVE  Selected(deleteRangeLineInEdition(d, from, to, x))
<1> DEFINE s == d.bufEdit
           left == x >= 0
           dif == from - to
           yes == TRUE
           mk == IF d.markInLine >= from /\ d.markInLine < to THEN from
                 ELSE IF d.markInLine >= to THEN d.markInLine - (to - from) ELSE d.markInLine
           xx == IF x >= 0 THEN x ELSE d.x
           cut == Part(s, 0, from) \o Part(s, to, Len(s))
           g == [d EXCEPT !.bufEdit = cut, !.x = xx, !.markInLine = mk]
           r == deleteRangeLineInEdition(d, from, to, x)
           ls == d.selLineStart
           le == d.selLineEnd
<1>1. r = AdjustLineSel(g, from, dif, yes, left)
      BY DEF deleteRangeLineInEdition
<1>2. /\ d \in Editors /\ Good(d) /\ d.editing /\ s \in Strings /\ Len(s) \in Nat
      /\ d.x \in Nat /\ d.markInLine \in Int
      BY TypingHas DEF Typing
<1>3. from \in Nat /\ to \in Nat /\ from <= to /\ to <= Len(s) /\ dif \in Int
      BY <1>2
<1>4. cut \in Strings /\ Len(cut) = Len(s) + dif
  <2>1. Len(cut) = Len(s) + dif
        BY <1>2, <1>3, LenWithout
  <2>2. cut = Splice(s, from, <<>>, to)
        BY <1>2, Without
  <2> DEFINE e0 == <<>>
  <2>3. e0 \in Seq(Chars)
        BY NoText DEF Strings
  <2> HIDE DEF e0, cut
  <2>4. Splice(s, from, e0, to) \in Seq(Chars)
        BY <1>2, <2>3, Spliced DEF Strings
  <2> QED BY <2>1, <2>2, <2>4 DEF e0, Strings
<1>5. g \in Editors
  <2>1. mk \in Int /\ xx \in Nat
        BY <1>2, <1>3
  <2> HIDE DEF mk, xx, cut
  <2> QED BY <1>2, <1>4, <2>1 DEF Editors
<1>6. SameSel(g, d) /\ OnLine(g, d) /\ g.bufEdit = cut
  <2> HIDE DEF mk, xx, cut
  <2> QED BY <1>2 DEF SameSel, OnLine, Editors
<1>7. Tells(d, from, dif, yes, left)
  <2>1. ls \in Nat /\ le \in Nat
        BY <1>2, EndsInLine
  <2>2. ~(ls \in from .. to - 1) /\ ~(le \in from .. to - 1)
        BY DEF EndsInside
  <2>3. (left /\ from = 0) \/ (~left /\ from + dif \in Int)
        BY <1>3
  <2>4. InFront(from, yes, ls) => ls + dif >= 0
        BY <1>3, <2>1, <2>2 DEF InFront
  <2>5. InFront(from, yes, le) => le + dif >= 0
        BY <1>3, <2>1, <2>2 DEF InFront
  <2>6. ~InFront(from, yes, 0) \/ dif <= 0
    <3>1. dif <= 0
          BY <1>3
    <3> QED BY ONLY <3>1
  <2>7. from + dif >= 0 \/ ~left \/ (from = 0 /\ yes)
        BY <2>3
  <2>8. left \/ from <= Len(s) + dif
        BY <1>2, <1>3
  <2>9. from <= Len(s) /\ dif <= 1 /\ -dif <= Len(s)
        BY <1>2, <1>3
  <2> HIDE DEF dif, left, yes, ls, le
  <2> QED BY <1>3, <2>4, <2>5, <2>6, <2>7, <2>8, <2>9 DEF Tells, ls, le
<1>8. Good(r)
  <2>1. x = 0 \/ (x < 0 /\ d.inEdit <= from)
        OBVIOUS
  <2> QED BY <2>1, DeleteRangeLineInEdition
<1> HIDE DEF g, r, cut, dif, yes, left
<1>9. OnLine(r, g) /\ r.bufEdit = cut
  <2>1. from \in Int
        BY <1>3
  <2> QED BY <1>1, <1>3, <1>5, <1>6, <2>1, AdjustedSame
<1>10. OnLine(r, d) /\ SameSel(r, AdjustLineSel(g, from, dif, yes, left))
       /\ Len(r.bufEdit) = Len(d.bufEdit) + dif
       BY <1>1, <1>4, <1>6, <1>9 DEF OnLine, SameSel
<1> QED BY <1>2, <1>5, <1>6, <1>7, <1>8, <1>10, Readjusted DEF r

LEMMA InsertSelected ==
  ASSUME NEW d, Typing(d), NEW c \in Chars, c # EOL,
         Selected(d), d.selNewStart < d.selNewEnd, Len(Text(d)) + 2 <= Reach,
         ~(d.overwrite /\ d.inEdit = Len(d.bufEdit) /\ SelTo(d) > d.curLine + d.inEdit)
  PROVE  Selected(InsertCharInLine(d, c))
<1> DEFINE p == d.inEdit
           s == d.bufEdit
           new == <<c>>
           g == Splice(s, p, new, p)
           o == Part(s, 0, p) \o new \o Part(s, p + 1, Len(s))
           mk == IF d.markInLine >= 0 /\ d.markInLine >= p THEN d.markInLine + 1 ELSE d.markInLine
           x == d.x + 1
           one == 1
           no == FALSE
           yes == TRUE
           grown == [d EXCEPT !.bufEdit = g, !.inEdit = p + 1, !.x = x, !.markInLine = mk]
           n == IF p < Len(s) THEN d.restCharsInLine - 1 ELSE d.restCharsInLine
           over == [d EXCEPT !.bufEdit = o, !.inEdit = p + 1, !.x = x, !.restCharsInLine = n]
           r == InsertCharInLine(d, c)
<1>1. /\ d \in Editors /\ Good(d) /\ d.editing /\ p \in Nat /\ s \in Strings /\ Len(s) \in Nat
      /\ p <= Len(s) /\ d.x \in Nat /\ d.markInLine \in Int
      BY TypingHas DEF Typing
<1>2. Good(r)
  <2>1. Typing(r)
        BY InsertCharInLineTyping
  <2> HIDE DEF r
  <2> QED BY <2>1 DEF Typing
<1>3. new \in Strings /\ Len(new) = 1
      BY OneChar
<1>4. r = IF d.overwrite THEN over ELSE AdjustLineSel(grown, p, one, no, yes)
      BY DEF InsertCharInLine, Splice
<1> HIDE DEF p, s, new, r
<1>5. g \in Strings /\ Len(g) = Len(s) + 1
  <2>1. s \in Seq(Chars) /\ new \in Seq(Chars) /\ p \in 0 .. Len(s) /\ p \in p .. Len(s)
        BY <1>1, <1>3 DEF Strings
  <2>2. g \in Seq(Chars) /\ Pieces3(g, s, p, new, p)
        BY <2>1, Spliced
  <2> HIDE DEF g
  <2>3. Len(g) = p + Len(new) + Len(s) - p
        BY <2>2 DEF Pieces3
  <2> QED BY <1>1, <1>3, <2>2, <2>3 DEF Strings
<1>6. /\ o \in Strings
      /\ p < Len(s) => Len(o) = Len(s)
      /\ p = Len(s) => Len(o) = Len(s) + 1
  <2>1. CASE p < Len(s)
    <3> DEFINE z == p + 1
    <3>1. s \in Seq(Chars) /\ new \in Seq(Chars) /\ p \in 0 .. Len(s) /\ z \in p .. Len(s)
          BY <1>1, <1>3, <2>1 DEF Strings
    <3>2. Splice(s, p, new, z) \in Seq(Chars) /\ Pieces3(Splice(s, p, new, z), s, p, new, z)
      <4> HIDE DEF z
      <4> QED BY <3>1, Spliced
    <3>3. Splice(s, p, new, z) = o
          BY DEF Splice
    <3>4. Len(o) = p + Len(new) + Len(s) - z /\ o \in Seq(Chars)
      <4> HIDE DEF o, z
      <4> QED BY <3>2, <3>3 DEF Pieces3
    <3> HIDE DEF o
    <3> QED BY <1>1, <1>3, <2>1, <3>4 DEF Strings
  <2>2. CASE p = Len(s)
    <3>1. Part(s, p + 1, Len(s)) = <<>> /\ Part(s, p, Len(s)) = <<>>
          BY <1>1, <2>2 DEF Part
    <3>2. o = g
          BY <3>1 DEF Splice
    <3> HIDE DEF o, g
    <3> QED BY <1>1, <1>5, <2>2, <3>2
  <2> QED BY <1>1, <2>1, <2>2
<1> HIDE DEF g, o
<1>7. mk \in Int /\ x \in Nat /\ p + 1 \in Nat
      BY <1>1
<1> HIDE DEF mk, x, n
<1>8. CASE d.overwrite
  <2>1. r = over
        BY <1>4, <1>8
  <2>2. OnLine(r, d) /\ SameSel(r, d) /\ r.bufEdit = o
        BY <1>1, <2>1 DEF OnLine, SameSel, Editors
  <2> DEFINE L == Len(s)
             M == Len(r.bufEdit)
             E == d.selNewEnd
             q == d.curLine
  <2>3. L = M \/ (p = L /\ M = L + 1 /\ ~(E > q + p))
    <3>1. ~(p = Len(s) /\ E > q + p)
          BY <1>1, <1>8 DEF SelTo, p, s
    <3>2. p < Len(s) \/ p = Len(s)
          BY <1>1
    <3> QED BY <1>6, <2>2, <3>1, <3>2
  <2>4. E \in Nat /\ q \in Nat /\ L \in Nat
        BY <1>1, EndsInLine DEF Editors
  <2> HIDE DEF L, M, E, q
  <2>5. L = M \/ (E <= q + L /\ E <= q + M)
        BY <2>3, <2>4
  <2> QED BY <1>1, <1>2, <2>2, <2>5, UntoldSelected DEF L, M, E, q, r, s
<1>9. CASE ~d.overwrite
  <2>1. r = AdjustLineSel(grown, p, one, no, yes)
        BY <1>4, <1>9
  <2>2. grown \in Editors /\ OnLine(grown, d) /\ SameSel(grown, d) /\ grown.bufEdit = g
        BY <1>1, <1>5, <1>7 DEF Editors, OnLine, SameSel
  <2>3. Tells(d, p, one, no, yes)
    <3>1. d.selLineStart \in Nat /\ d.selLineEnd \in Nat
          BY <1>1, EndsInLine
    <3> QED BY <1>1, <3>1 DEF Tells, InFront, s
  <2>4. p \in Int /\ one \in Int
        BY <1>1
  <2>a. Len(s) + 1 = Len(s) + one
        OBVIOUS
  <2> HIDE DEF grown, one, no, yes
  <2>5. OnLine(r, grown) /\ r.bufEdit = g
        BY <2>1, <2>2, <2>4, AdjustedSame
  <2>6. OnLine(r, d) /\ SameSel(r, AdjustLineSel(grown, p, one, no, yes))
        /\ Len(r.bufEdit) = Len(s) + one
        BY <1>5, <2>1, <2>2, <2>5, <2>a DEF OnLine, SameSel
  <2> QED BY <1>1, <1>2, <2>2, <2>3, <2>6, Readjusted DEF r, s
<1> QED BY <1>8, <1>9

(* The length of the text when the line in edition is back in it.          *)
LEMMA MakeEfectiveLen ==
  ASSUME NEW d, Good(d)
  PROVE  LET f == MakeEfective(d)
         IN  /\ Len(f.buffer) \in Nat /\ Used(d.bufEdit) \in 0 .. Len(d.bufEdit)
             /\ Len(f.buffer) >= d.curLine + Used(d.bufEdit) + Behind(d)
             /\ Len(f.buffer) <= d.curLine + Used(d.bufEdit) + Behind(d) + 1
<1> DEFINE f == MakeEfective(d)
           b == d.buffer
           c == d.curLine
           text == Ended(d)
           old == d.lenLines[d.y + 1]
           w == LineWidth(d)
           z == c + old
           u == Used(d.bufEdit)
           R == Behind(d)
<1>1. InLines(d) /\ d \in Editors /\ NoEnds(d.bufEdit)
      BY DEF Good, InLines
<1>2. /\ b \in Seq(Chars) /\ Len(b) \in Nat /\ d.bufEdit \in Strings /\ Len(d.bufEdit) \in Nat
      /\ u \in 0 .. Len(d.bufEdit)
  <2>1. b \in Seq(Chars) /\ d.bufEdit \in Strings
        BY <1>1 DEF Editors, Strings
  <2> QED BY <2>1, UsedOf, LenProperties DEF Strings
<1>3. old \in Nat /\ z <= Len(b) /\ c \in Nat /\ w \in Nat /\ w <= old
      BY <1>1, CursorLine
<1>4. old <= w + 1
  <2> DEFINE T == Starts(d.lenLines)
             k == d.y
  <2>1. k \in 0 .. d.totalLines /\ LenWithoutCRLF(d, k) = w
        BY <1>1, CursorLine
  <2> HIDE DEF T, w
  <2>2. Wide(d, T, k, w)
        BY <1>1, <2>1, WideLine DEF T
  <2>3. w < old => w + 1 = old
        BY <2>2 DEF Wide
  <2> HIDE DEF old
  <2> QED BY <1>3, <2>3
<1>5. text \in Strings /\ Len(text) = u + 1
      BY <1>1, <1>2, EndedIs
<1>6. f.buffer = Splice(b, c, text, z)
  <2>1. \E s1, s2, mk \in Offsets : f = PutBack(d, s1, s2, mk)
        BY <1>1, <1>3, <1>5, MakeEfectiveIs
  <2> HIDE DEF f, text
  <2>2. PICK s1 \in Offsets, s2 \in Offsets, mk \in Offsets : f = PutBack(d, s1, s2, mk)
        BY <2>1
  <2> QED BY <1>1, <2>2 DEF PutBack, Editors, text
<1>7. Len(f.buffer) = c + Len(text) + Len(b) - z
  <2>1. c \in 0 .. Len(b) /\ z \in c .. Len(b) /\ b \in Seq(Chars) /\ text \in Seq(Chars)
    <3> HIDE DEF b, c, old, text
    <3> QED BY <1>2, <1>3, <1>5 DEF Strings
  <2> HIDE DEF c, z, b, f, text
  <2>2. Pieces3(Splice(b, c, text, z), b, c, text, z)
        BY <2>1, Spliced
  <2> QED BY <1>6, <2>2 DEF Pieces3
<1>8. R = Len(b) - c - w
      BY DEF Behind
<1> DEFINE n == Len(b)
           m == Len(f.buffer)
           v == Len(d.bufEdit)
<1>9. /\ n \in Nat /\ c \in Nat /\ w \in Nat /\ old \in Nat /\ u \in 0 .. v /\ v \in Nat
      /\ z = c + old /\ m = c + (u + 1) + n - z /\ R = n - c - w /\ w <= old /\ old <= w + 1 /\ z <= n
      BY <1>2, <1>3, <1>4, <1>5, <1>7, <1>8
<1> HIDE DEF n, m, v, u, z, c, w, old, R
<1>10. m \in Nat /\ m >= c + u + R /\ m <= c + u + R + 1
       BY <1>9
<1> QED BY <1>9, <1>10 DEF m, v, u, c, R

LEMMA FlushSelected ==
  ASSUME NEW d, Good(d), Selected(d), Len(Text(d)) + 2 <= Reach
  PROVE  LET f == flushLine(d)
         IN  /\ f.selEnd <= SelTo(d)
             /\ hasSelection(f) => SelFrom(d) < SelTo(d) /\ f.selEnd <= Len(f.buffer)
             /\ SelFrom(d) >= SelTo(d) => f.selStart = SelFrom(d) /\ f.selEnd = SelTo(d)
<1>1. d \in Editors
      BY DEF Good, InLines
<1>2. CASE ~d.editing
  <2>1. flushLine(d) = d /\ SelTo(d) = d.selEnd /\ SelFrom(d) = d.selStart /\ Text(d) = d.buffer
        BY <1>2 DEF flushLine, SelTo, SelFrom, Text
  <2>2. d.selEnd \in Nat /\ d.selEnd <= Len(d.buffer)
        BY <1>1, <2>1, EndsInLine DEF Selected
  <2> QED BY <2>1, <2>2 DEF hasSelection
<1>3. CASE d.editing
  <2> DEFINE L == Len(d.bufEdit)
             u == Used(d.bufEdit)
             eaten == L - u
             S == d.selNewStart
             E == d.selNewEnd
             le == d.selLineEnd
             c == d.curLine
             R == Behind(d)
             b == AdjustLineSel(d, L, -eaten, FALSE, TRUE)
             a == IF eaten > 0 /\ le > 0 THEN b ELSE d
             f == MakeEfective(d)
             N == Len(f.buffer)
  <2>1. flushLine(d) = f /\ SelTo(d) = E /\ SelFrom(d) = S
        BY <1>3 DEF flushLine, SelTo, SelFrom
  <2>2. f.selStart = a.selNewStart /\ f.selEnd = a.selNewEnd
        BY <1>1 DEF MakeEfective, Editors
  <2>3. /\ S \in Nat /\ E \in Nat /\ d.selLineStart \in Nat /\ le \in Nat
        BY <1>1, EndsInLine
  <2>4. c \in Nat /\ L \in Nat /\ R \in Nat /\ Len(Text(d)) = c + L + R
        BY <1>3, TextIs
  <2>5. u \in 0 .. L /\ N \in Nat /\ N >= c + u + R
        BY MakeEfectiveLen
  <2>6. E <= c + L + R /\ Spans(S, E, d.selLineStart, le, c, L)
        BY <1>3, <2>1, <2>4 DEF Selected, LineSel
  <2>7. S < E => Tells(d, L, -eaten, FALSE, TRUE)
    <3> DEFINE ls == d.selLineStart
    <3>1. ls \in Nat
          BY <2>3
    <3>2. L \in Nat /\ -eaten \in Int /\ L <= L /\ -eaten <= 1 /\ -(-eaten) <= L /\ L + -eaten >= 0
          BY <2>4, <2>5
    <3>3. InFront(L, FALSE, ls) => ls + -eaten >= 0
          BY <2>4, <2>5, <3>1 DEF InFront
    <3>4. InFront(L, FALSE, le) => le + -eaten >= 0
          BY <2>3, <2>4, <2>5 DEF InFront
    <3>5. -eaten <= 0
          BY <2>4, <2>5
    <3> QED BY <3>2, <3>3, <3>4, <3>5 DEF Tells
  <2>8. S < E => b.selNewEnd <= c + (L + -eaten) + R /\ b.selNewEnd <= E
    <3> SUFFICES ASSUME S < E PROVE b.selNewEnd <= c + (L + -eaten) + R /\ b.selNewEnd <= E
        OBVIOUS
    <3> DEFINE dif == -eaten
               no == FALSE
               yes == TRUE
    <3>1. SameSel(d, d)
          BY DEF SameSel
    <3>a. dif <= 0
          BY <2>4, <2>5
    <3>2. Tells(d, L, dif, no, yes) /\ dif <= 0
          BY ONLY <2>7, <3>a, S < E
    <3> HIDE DEF dif, no, yes
    <3>3. LET q == AdjustLineSel(d, L, dif, no, yes)
          IN  /\ q.selNewEnd <= c + (L + dif) + R
              /\ dif <= 0 => q.selNewEnd <= E
          BY <1>1, <1>3, <3>1, <3>2, SelectedMoves
    <3> QED BY <3>2, <3>3 DEF dif, no, yes
  <2>9. S >= E => b = d
    <3> DEFINE dif == -eaten
               no == FALSE
               yes == TRUE
    <3>1. L \in Int /\ dif \in Int
          BY <2>4, <2>5
    <3> HIDE DEF dif, no, yes
    <3>2. S >= E => AdjustLineSel(d, L, dif, no, yes) = d
          BY <1>1, <3>1, AdjustLineSelIs
    <3> QED BY <3>2 DEF dif, no, yes
  <2> DEFINE be == b.selNewEnd
             fe == f.selEnd
  <2>10. (eaten > 0 /\ le > 0 /\ fe = be) \/ (~(eaten > 0 /\ le > 0) /\ fe = E)
         BY <2>2
  <2>11. S >= E => f.selStart = S /\ fe = E
         BY <2>2, <2>9
  <2>12. be \in Nat
    <3> DEFINE dif == -eaten
               no == FALSE
               yes == TRUE
    <3>1. L \in Int /\ dif \in Int
          BY <2>4, <2>5
    <3> HIDE DEF dif, no, yes
    <3>2. AdjustLineSel(d, L, dif, no, yes) \in Editors
          BY <1>1, <3>1, AdjustedSame
    <3>3. AdjustLineSel(d, L, dif, no, yes).selNewEnd \in Nat
          BY <3>2, EndsInLine
    <3> QED BY <3>3 DEF dif, no, yes
  <2>13. S < E => EndAt(E, le, c, L, 1)
         BY <2>6 DEF Spans
  <2> HIDE DEF be, fe, a, b, f, S, E, le, c, L, R, u, N
  <2>14. ASSUME S < E PROVE fe <= E /\ fe <= N
    <3>1. CASE eaten > 0 /\ le > 0
      <4>1. fe = be /\ be <= c + (L + -eaten) + R /\ be <= E
            BY <2>8, <2>10, <2>14, <3>1 DEF be
      <4> QED BY <2>3, <2>4, <2>5, <2>12, <4>1
    <3>2. CASE ~(eaten > 0)
      <4>1. fe = E /\ u = L
            BY <2>4, <2>5, <2>10, <3>2
      <4> QED BY <2>3, <2>4, <2>5, <2>6, <4>1
    <3>3. CASE ~(le > 0)
      <4>1. fe = E /\ le = 0
            BY <2>3, <2>10, <3>3
      <4>2. E <= c
            BY <2>3, <2>4, <2>13, <2>14, <4>1 DEF EndAt
      <4> QED BY <2>3, <2>4, <2>5, <4>1, <4>2
    <3> QED BY <3>1, <3>2, <3>3
  <2>15. S < E \/ S >= E
         BY <2>3
  <2>16. ~(S < E /\ S >= E)
         BY <2>3
  <2>17. hasSelection(f) => S < E
    <3> SUFFICES ASSUME hasSelection(f), S >= E PROVE FALSE
        BY <2>15
    <3>1. f.selStart < fe
          BY DEF hasSelection, fe
    <3>2. S < E
          BY <2>11, <3>1
    <3> QED BY <2>16, <3>2
  <2>18. fe <= E
         BY <2>3, <2>11, <2>14, <2>15
  <2> QED BY <2>1, <2>11, <2>14, <2>17, <2>18 DEF fe, N
<1> QED BY <1>1, <1>2, <1>3 DEF Editors

(* The selection in the line, of a line that is w wide, by cases.          *)
SelParts(s, d, w, added) ==
  LET start == d.curLine
      end == start + w
      newEnd == d.selEnd + (IF d.selEnd > end THEN added ELSE 0)
      newStart == d.selStart + (IF d.selEnd > end /\ d.selStart > end THEN added ELSE 0)
      out == w + added + 1
  IN  /\ s[1] \in Int /\ s[2] \in Int /\ s[3] \in Int /\ s[4] \in Int
      /\ ~hasSelection(d) => s[1] = d.selStart /\ s[2] = d.selEnd /\ s[3] = 0 /\ s[4] = 0
      /\ hasSelection(d) =>
           /\ s[1] = newStart /\ s[2] = newEnd
           /\ d.selStart <= start /\ newEnd > start => s[3] = 0 /\ s[4] = newEnd - start
           /\ d.selStart <= start /\ ~(newEnd > start) => s[3] = 0 /\ s[4] = 0
           /\ ~(d.selStart <= start) /\ newStart < end =>
                s[3] = newStart - start /\ s[4] = newEnd - start
           /\ ~(d.selStart <= start) /\ ~(newStart < end) => s[3] = out /\ s[4] = out

LEMMA SelInLineIs ==
  ASSUME NEW d, InLines(d), NEW added \in Nat
  PROVE  SelParts(SelInLine(d, added), d, LineWidth(d), added)
<1> DEFINE w == LineWidth(d)
           s == SelInLine(d, added)
           start == d.curLine
           end == start + w
           newEnd == d.selEnd + (IF d.selEnd > end THEN added ELSE 0)
           newStart == d.selStart + (IF d.selEnd > end /\ d.selStart > end THEN added ELSE 0)
           out == w + added + 1
           inLine == IF d.selStart <= start
                     THEN IF newEnd > start THEN <<0, newEnd - start>> ELSE <<0, 0>>
                     ELSE IF newStart < end THEN <<newStart - start, newEnd - start>>
                     ELSE <<out, out>>
<1>1. w \in Nat /\ d.curLine \in Nat /\ d.selStart \in Int /\ d.selEnd \in Int
  <2>1. d.selStart \in Nat /\ d.selEnd \in Nat
        BY EndsInLine DEF InLines
  <2> QED BY <2>1, CursorLine
<1>2. newEnd \in Int /\ newStart \in Int /\ out \in Int /\ start \in Int
      BY <1>1
<1>3. s = IF hasSelection(d) THEN <<newStart, newEnd>> \o inLine
          ELSE <<d.selStart, d.selEnd, 0, 0>>
      BY DEF SelInLine
<1> HIDE DEF newEnd, newStart, out, start, end, w, s
<1>4. ASSUME NEW f \in Int, NEW g \in Int, inLine = <<f, g>>, hasSelection(d)
      PROVE  s[1] = newStart /\ s[2] = newEnd /\ s[3] = f /\ s[4] = g
  <2>1. <<newStart, newEnd>> \o <<f, g>> = <<newStart, newEnd, f, g>>
        BY <1>2, TwoAndTwo
  <2> HIDE DEF inLine
  <2>2. s = <<newStart, newEnd, f, g>>
        BY <1>3, <1>4, <2>1
  <2> QED BY <2>2
<1>5. CASE ~hasSelection(d)
  <2>1. s = <<d.selStart, d.selEnd, 0, 0>>
        BY <1>3, <1>5
  <2>2. s[1] = d.selStart /\ s[2] = d.selEnd /\ s[3] = 0 /\ s[4] = 0
        BY <2>1
  <2> QED BY <1>1, <1>5, <2>2 DEF SelParts, s, w
<1>6. CASE hasSelection(d)
  <2> DEFINE f == IF d.selStart <= start THEN 0
                  ELSE IF newStart < end THEN newStart - start ELSE out
             g == IF d.selStart <= start THEN (IF newEnd > start THEN newEnd - start ELSE 0)
                  ELSE IF newStart < end THEN newEnd - start ELSE out
  <2>1. f \in Int /\ g \in Int
        BY <1>2
  <2>2. inLine = <<f, g>>
        OBVIOUS
  <2> HIDE DEF f, g, inLine
  <2>3. s[1] = newStart /\ s[2] = newEnd /\ s[3] = f /\ s[4] = g
        BY <1>4, <1>6, <2>1, <2>2
  <2>4. /\ s[1] \in Int /\ s[2] \in Int /\ s[3] \in Int /\ s[4] \in Int
        /\ s[1] = newStart /\ s[2] = newEnd
        /\ d.selStart <= start /\ newEnd > start => s[3] = 0 /\ s[4] = newEnd - start
        /\ d.selStart <= start /\ ~(newEnd > start) => s[3] = 0 /\ s[4] = 0
        /\ ~(d.selStart <= start) /\ newStart < end =>
             s[3] = newStart - start /\ s[4] = newEnd - start
        /\ ~(d.selStart <= start) /\ ~(newStart < end) => s[3] = out /\ s[4] = out
        BY <1>2, <2>1, <2>3 DEF f, g
  <2> QED BY <1>6, <2>4 DEF SelParts, s, w, start, end, newStart, newEnd, out
<1> QED BY <1>5, <1>6

(* EditLine() fills the line up to the cursor.                             *)
LEMMA EditLineIs ==
  ASSUME NEW d, InLines(d)
  PROVE  LET r == EditLine(d)
             s == SelInLine(d, Len(r.bufEdit) - LineWidth(d))
         IN  /\ Len(r.bufEdit) - LineWidth(d) \in Nat
             /\ Len(r.bufEdit) - LineWidth(d) <= d.x
             /\ Len(r.bufEdit) > LineWidth(d) => d.x > LineWidth(d)
             /\ r.selNewStart = U(s[1]) /\ r.selNewEnd = U(s[2])
             /\ r.selLineStart = U(s[3]) /\ r.selLineEnd = U(s[4])
             /\ r.curLine = d.curLine /\ r.buffer = d.buffer /\ r.editing
             /\ Behind(r) = Behind(d) /\ LineWidth(r) = LineWidth(d)
<1> DEFINE lar == LineWidth(d)
           c == d.x - lar
           zero == 0
           added == Max({zero, c})
           s == SelInLine(d, added)
           mk == IF d.curLine <= d.mark /\ d.mark < d.curLine + lar
                 THEN d.mark - d.curLine ELSE -1
           line == CurLine(d) \o Blanks(added)
           r == EditLine(d)
<1>1. /\ d \in Editors /\ d.x \in Nat /\ lar \in Nat /\ d.buffer \in Seq(Chars)
      /\ d.curLine \in Nat /\ d.curLine + lar <= Len(d.buffer) /\ Len(d.buffer) \in Nat
  <2> DEFINE old == d.lenLines[d.y + 1]
             w == lar
             a == d.curLine
             n == Len(d.buffer)
  <2>1. w \in Nat /\ a \in Nat /\ old \in Nat /\ w <= old /\ a + old <= n /\ d.x \in Nat
        BY CursorLine
  <2>2. d \in Editors /\ d.buffer \in Seq(Chars)
        BY DEF InLines, Editors, Strings
  <2>3. n \in Nat
        BY <2>2, LenProperties
  <2> HIDE DEF old, w, a, n
  <2>4. a + w <= n
        BY <2>1, <2>3
  <2> QED BY <2>1, <2>2, <2>3, <2>4 DEF w, a, n
<1>2. added \in Nat /\ added <= d.x /\ (added > 0 => d.x > lar)
  <2>1. c \in Int /\ zero \in Int
        BY <1>1
  <2> HIDE DEF c, zero
  <2>2. added \in {zero, c} /\ added >= zero
        BY <2>1, MaxOfTwo
  <2> HIDE DEF added, lar
  <2> QED BY <1>1, <2>1, <2>2 DEF zero, c
<1>3. Len(line) = lar + added
  <2> DEFINE a == d.curLine
             z == d.curLine + lar
             p == Part(d.buffer, a, z)
             q == Blanks(added)
  <2>1. a \in 0 .. Len(d.buffer) /\ z \in a .. Len(d.buffer) /\ z - a = lar
    <3> HIDE DEF lar
    <3> QED BY <1>1
  <2>2. line = p \o q
        BY DEF CurLine
  <2> HIDE DEF a, z, added
  <2>3. p \in Seq(Chars) /\ Len(p) = z - a
        BY <1>1, <2>1, PartOf
  <2>4. q \in Seq(Chars) /\ Len(q) = added
        BY <1>2, BlanksAre DEF Strings
  <2> HIDE DEF p, q
  <2>5. Len(p \o q) = Len(p) + Len(q)
        BY <2>3, <2>4, Concat
  <2> QED BY <2>1, <2>2, <2>3, <2>4, <2>5
<1> DEFINE rest == lar + added - d.x
<1>4. r = [d EXCEPT !.editing = TRUE, !.bufEdit = line, !.inEdit = d.x,
              !.restCharsInLine = rest, !.selNewStart = U(s[1]), !.selNewEnd = U(s[2]),
              !.selLineStart = U(s[3]), !.selLineEnd = U(s[4]), !.markInLine = mk]
      BY DEF EditLine
<1> HIDE DEF added, line, s, r, mk, rest
<1>5. /\ r.bufEdit = line /\ r.selNewStart = U(s[1]) /\ r.selNewEnd = U(s[2])
      /\ r.selLineStart = U(s[3]) /\ r.selLineEnd = U(s[4])
      /\ r.curLine = d.curLine /\ r.buffer = d.buffer /\ r.lenLines = d.lenLines /\ r.y = d.y
      /\ r.editing
      BY <1>1, <1>4 DEF Editors
<1>6. Behind(r) = Behind(d) /\ LineWidth(r) = LineWidth(d)
      BY <1>5 DEF Behind, LineWidth, LenWithoutCRLF
<1> HIDE DEF lar
<1>7. Len(r.bufEdit) - lar = added
      BY <1>1, <1>2, <1>3, <1>5
<1>8. Len(r.bufEdit) > lar => added > 0
      BY <1>1, <1>2, <1>3, <1>5
<1> QED BY <1>2, <1>5, <1>6, <1>7, <1>8 DEF r, lar, s

LEMMA EditLineSelected ==
  ASSUME NEW d, InLines(d), ~d.editing, ~Filled(d),
         hasSelection(d) => d.selEnd <= Len(d.buffer), Len(Text(EditLine(d))) + 2 <= Reach
  PROVE  LET r == EditLine(d)
         IN  /\ LineSel(r)
             /\ hasSelection(d) => r.selNewStart < r.selNewEnd /\ Selected(r)
             /\ ~hasSelection(d) => /\ r.selNewStart = d.selStart /\ r.selNewEnd = d.selEnd
                                    /\ r.selLineStart = 0 /\ r.selLineEnd = 0
<1> DEFINE r == EditLine(d)
           w == LineWidth(d)
           L == Len(r.bufEdit)
           added == L - w
           s == SelInLine(d, added)
           c == d.curLine
           S == d.selStart
           E == d.selEnd
           R == Behind(d)
           N == Len(d.buffer)
           n1 == s[1]
           n2 == s[2]
           l1 == s[3]
           l2 == s[4]
<1>1. /\ added \in Nat /\ (L > w => d.x > w)
      /\ r.selNewStart = U(n1) /\ r.selNewEnd = U(n2)
      /\ r.selLineStart = U(l1) /\ r.selLineEnd = U(l2)
      /\ r.curLine = c /\ Behind(r) = R /\ r.editing
      BY EditLineIs
<1>2. d \in Editors /\ S \in Offsets /\ E \in Offsets /\ S \in Nat /\ E \in Nat
  <2>1. d \in Editors
        BY DEF InLines
  <2> QED BY <2>1, EndsInLine DEF Editors
<1>3. Good(r)
  <2>1. Typing(r)
        BY EditLineTyping
  <2> HIDE DEF r
  <2> QED BY <2>1 DEF Typing
<1>4. c \in Nat /\ L \in Nat /\ R \in Nat /\ Len(Text(r)) = c + L + R
  <2> HIDE DEF r, c, R
  <2> QED BY <1>1, <1>3, TextIs
<1>5. w \in Nat /\ N \in Nat
  <2>1. d.buffer \in Seq(Chars)
        BY DEF InLines, Editors, Strings
  <2> QED BY <2>1, CursorLine, LenProperties
<1>6. R = N - c - w
      BY DEF Behind
<1>7. hasSelection(d) => added = 0 \/ S # c + w
  <2> SUFFICES ASSUME hasSelection(d), S = c + w, added # 0 PROVE FALSE
      OBVIOUS
  <2>1. L > w
    <3> DEFINE a == added
    <3>1. a \in Nat /\ a # 0 /\ a = L - w
          BY <1>1
    <3> HIDE DEF a, w, L
    <3> QED BY <1>4, <1>5, <3>1
  <2> QED BY <1>1, <2>1 DEF Filled
<1>8. SelParts(s, d, w, added)
  <2> HIDE DEF added
  <2> QED BY <1>1, SelInLineIs
<1>9. L = w + added
  <2> HIDE DEF w, L
  <2> QED BY <1>4, <1>5
<1>10. c + L + R + 2 <= Reach /\ Reach \in Nat
       BY <1>4, SmallNumbers
<1>11. hasSelection(d) <=> S < E
       BY DEF hasSelection
<1>12. hasSelection(d) => E <= N
       OBVIOUS
<1> DEFINE end == c + w
           newEnd == E + (IF E > end THEN added ELSE 0)
           newStart == S + (IF E > end /\ S > end THEN added ELSE 0)
           out == w + added + 1
<1>13. /\ n1 \in Int /\ n2 \in Int /\ l1 \in Int /\ l2 \in Int
       /\ ~hasSelection(d) => n1 = S /\ n2 = E /\ l1 = 0 /\ l2 = 0
       /\ hasSelection(d) =>
           /\ n1 = newStart /\ n2 = newEnd
           /\ S <= c /\ newEnd > c => l1 = 0 /\ l2 = newEnd - c
           /\ S <= c /\ ~(newEnd > c) => l1 = 0 /\ l2 = 0
           /\ ~(S <= c) /\ newStart < end => l1 = newStart - c /\ l2 = newEnd - c
           /\ ~(S <= c) /\ ~(newStart < end) => l1 = out /\ l2 = out
       BY <1>8 DEF SelParts
<1>14. added \in Nat
       BY <1>1
<1> HIDE DEF S, E, s, n1, n2, l1, l2, N, c, w, L, R, added
<1>15. CASE ~hasSelection(d)
  <2>1. n1 = S /\ n2 = E /\ l1 = 0 /\ l2 = 0
        BY <1>13, <1>15
  <2>2. r.selNewStart = S /\ r.selNewEnd = E /\ r.selLineStart = 0 /\ r.selLineEnd = 0
    <3>1. U(S) = S /\ U(E) = E /\ U(0) = 0
          BY <1>2, Unsigneds
    <3> QED BY <1>1, <2>1, <3>1
  <2>3. Stale(S, 0, c, L) /\ Stale(E, 0, c, L) /\ ~(S < E)
        BY <1>2, <1>4, <1>11, <1>15 DEF Stale
  <2>4. LineSel(r)
    <3> HIDE DEF r
    <3> QED BY <1>1, <2>2, <2>3 DEF LineSel, Spans, L
  <2> QED BY <1>15, <2>2, <2>4 DEF S, E
<1>16. CASE hasSelection(d)
  <2>1. /\ n1 = newStart /\ n2 = newEnd
        /\ S <= c /\ newEnd > c => l1 = 0 /\ l2 = newEnd - c
        /\ S <= c /\ ~(newEnd > c) => l1 = 0 /\ l2 = 0
        /\ ~(S <= c) /\ newStart < end => l1 = newStart - c /\ l2 = newEnd - c
        /\ ~(S <= c) /\ ~(newStart < end) => l1 = out /\ l2 = out
        /\ S < E /\ E <= N /\ (added = 0 \/ S # c + w)
        BY <1>7, <1>11, <1>12, <1>13, <1>16
  <2>2. n1 \in Nat /\ n2 \in Nat /\ n1 < n2 /\ n2 <= c + L + R
        BY <1>2, <1>4, <1>5, <1>6, <1>9, <1>14, <2>1
  <2>3. EndAt(n1, l1, c, L, 0) /\ l1 \in Nat /\ l1 <= Reach
        BY <1>2, <1>4, <1>5, <1>6, <1>9, <1>10, <1>14, <2>1 DEF EndAt
  <2>4. EndAt(n2, l2, c, L, 1) /\ l2 \in Nat /\ l2 <= Reach
        BY <1>2, <1>4, <1>5, <1>6, <1>9, <1>10, <1>14, <2>1 DEF EndAt
  <2> HIDE DEF newEnd, newStart, end, out
  <2>5. U(n1) = n1 /\ U(n2) = n2 /\ U(l1) = l1 /\ U(l2) = l2
    <3>1. n1 <= Reach /\ n2 <= Reach
          BY <1>4, <1>10, <2>2
    <3> QED BY <2>2, <2>3, <2>4, <3>1, SmallNumbers
  <2>6. Spans(n1, n2, l1, l2, c, L)
    <3>1. Stale(n1, l1, c, L)
          BY <1>4, <2>2, <2>3, EndsAreStale
    <3>2. Stale(n2, l2, c, L)
          BY <1>4, <2>2, <2>4, EndsAreStale
    <3> QED BY <2>3, <2>4, <3>1, <3>2 DEF Spans
  <2>7. LineSel(r) /\ r.selNewStart < r.selNewEnd /\ Selected(r)
    <3> HIDE DEF r
    <3> QED BY <1>1, <1>4, <2>2, <2>5, <2>6 DEF LineSel, Selected, SelTo, L
  <2> QED BY <1>16, <2>7
<1> QED BY <1>15, <1>16

-----------------------------------------------------------------------------
(* What is not followed does not matter to the selection.                  *)
KeptHas(r, d) ==
  /\ Len(r.buffer) = Len(d.buffer) /\ r.bufEdit = d.bufEdit /\ r.editing = d.editing
  /\ r.curLine = d.curLine /\ LineWidth(r) = LineWidth(d)
  /\ use = "select" =>
       /\ SameSel(r, d) \/ ~d.editing
       /\ r.selNewStart = d.selNewStart /\ r.selNewEnd = d.selNewEnd
       /\ ~d.editing => r.selStart = d.selStart /\ r.selEnd = d.selEnd

LEMMA KeptIs ==
  ASSUME NEW d, Good(d)
  PROVE  KeptHas(Kept(d), d)
<1> DEFINE w == LineWidth(d)
           c == d.curLine
           unread(k) == d.editing /\ k > c /\ k <= c + w
           selects == use # "special"
           b == d.buffer
           fb == [k \in DOMAIN b |-> IF unread(k) THEN Blank ELSE b[k]]
           s1 == IF selects /\ ~d.editing THEN d.selStart ELSE 0
           s2 == IF selects /\ ~d.editing THEN d.selEnd ELSE 0
           s3 == IF selects THEN d.selNewStart ELSE 0
           s4 == IF selects THEN d.selNewEnd ELSE 0
           m1 == IF use = "mark" /\ ~(d.editing /\ d.markInLine >= 0) THEN d.mark ELSE 0
           m2 == IF use = "mark" THEN d.markInLine ELSE -1
           nl == IF use = "special" THEN d.nline ELSE -1
           q == [d EXCEPT !.buffer = fb, !.selStart = s1, !.selEnd = s2, !.selNewStart = s3,
                          !.selNewEnd = s4, !.mark = m1, !.markInLine = m2, !.nline = nl]
           r == Kept(d)
           T == Starts(d.lenLines)
           len == d.lenLines[d.y + 1]
           z == c + len
           N == Len(b)
<1>1. r = q
      BY DEF Kept
<1>2. /\ d \in Editors /\ b \in Seq(Chars) /\ InLines(d) /\ N \in Nat
      /\ DOMAIN b = 1 .. N
  <2>1. d \in Editors /\ b \in Seq(Chars) /\ InLines(d)
        BY DEF Good, InLines, Editors, Strings
  <2> QED BY <2>1, LenProperties
<1>3. /\ w \in Nat /\ c \in Nat /\ len \in Nat /\ z <= N /\ w <= len
      /\ Total(d.lenLines, 0, d.y + 1) = z
      /\ w = len - (IF len > 0 /\ b[z] = EOL THEN 1 ELSE 0)
  <2>1. w \in Nat /\ c \in Nat /\ len \in Nat /\ z <= N /\ w <= len /\ z = T[d.y + 1]
        BY <1>2, CursorLine
  <2>2. T[d.y + 1] = Total(d.lenLines, 0, d.y + 1)
    <3>1. d.lenLines \in Seq(Nat) /\ d.y + 1 \in 0 .. Len(d.lenLines)
      <4>1. d.lenLines \in Seq(Nat) /\ d.y \in Nat /\ d.totalLines \in Nat
            /\ Len(d.lenLines) = d.totalLines + 1 /\ d.y <= d.totalLines
            BY <1>2 DEF InLines, Editors
      <4> QED BY <4>1
    <3> QED BY <3>1, StartsSum
  <2>3. w = len - (IF len > 0 /\ b[Total(d.lenLines, 0, d.y + 1)] = EOL THEN 1 ELSE 0)
        BY DEF LineWidth, LenWithoutCRLF
  <2> HIDE DEF w, c, len, b, N, z, T
  <2> QED BY <2>1, <2>2, <2>3
<1>4. /\ LineWidth(r) = r.lenLines[r.y + 1]
           - (IF r.lenLines[r.y + 1] > 0 /\ r.buffer[Total(r.lenLines, 0, r.y + 1)] = EOL
              THEN 1 ELSE 0)
      BY DEF LineWidth, LenWithoutCRLF
<1> HIDE DEF s1, s2, s3, s4, m1, m2, nl, fb, r
<1>5. /\ r.buffer = fb /\ r.lenLines = d.lenLines /\ r.y = d.y /\ r.curLine = c
      /\ r.editing = d.editing /\ r.bufEdit = d.bufEdit
      /\ r.selStart = s1 /\ r.selEnd = s2 /\ r.selNewStart = s3 /\ r.selNewEnd = s4
      /\ r.selLineStart = d.selLineStart /\ r.selLineEnd = d.selLineEnd
      BY <1>1, <1>2 DEF Editors
<1>6. Blank # EOL
      BY DEF Blank, EOL
<1>7. (len > 0 /\ fb[z] = EOL) <=> (len > 0 /\ b[z] = EOL)
  <2> SUFFICES ASSUME len > 0 PROVE fb[z] = EOL <=> b[z] = EOL
      OBVIOUS
  <2> HIDE DEF w, c, len, b, N, z
  <2>1. z \in 1 .. N
        BY <1>2, <1>3 DEF z
  <2>2. fb[z] = IF unread(z) THEN Blank ELSE b[z]
        BY <1>2, <2>1 DEF fb
  <2>3. unread(z) => b[z] # EOL
    <3> SUFFICES ASSUME unread(z), b[z] = EOL PROVE FALSE
        OBVIOUS
    <3>1. w = len - 1 /\ z <= c + w
          BY <1>3
    <3> QED BY <1>3, <3>1 DEF z
  <2> HIDE DEF EOL, Blank
  <2> QED BY <1>6, <2>2, <2>3
<1>8. LineWidth(r) = w
  <2>1. LineWidth(r) = len - (IF len > 0 /\ fb[z] = EOL THEN 1 ELSE 0)
    <3> HIDE DEF len, z, w
    <3> QED BY <1>3, <1>4, <1>5 DEF len
  <2> HIDE DEF len, z, w
  <2> QED BY <1>3, <1>7, <2>1
<1>9. Len(fb) = N
  <2>1. Len(Kept(d).buffer) = Len(d.buffer)
        BY KeptGood
  <2> QED BY <1>5, <2>1 DEF r
<1>10. use = "select" =>
         /\ SameSel(r, d) \/ ~d.editing
         /\ r.selNewStart = d.selNewStart /\ r.selNewEnd = d.selNewEnd
         /\ ~d.editing => r.selStart = d.selStart /\ r.selEnd = d.selEnd
       BY <1>5 DEF s1, s2, s3, s4, SameSel
<1>11. KeptHas(r, d)
       BY <1>5, <1>8, <1>9, <1>10 DEF KeptHas
<1> QED BY <1>11 DEF r

LEMMA KeptSelected ==
  ASSUME NEW d, Good(d), Selected(d), use = "select"
  PROVE  Selected(Kept(d))
<1> DEFINE r == Kept(d)
<1>1. KeptHas(r, d)
      BY KeptIs
<1>2. Good(r)
      BY KeptGood
<1> HIDE DEF r
<1>3. Behind(r) = Behind(d)
      BY <1>1 DEF KeptHas, Behind
<1>4. CASE d.editing
  <2>1. r.editing
        BY <1>1, <1>4 DEF KeptHas
  <2>2. Len(Text(d)) = d.curLine + Len(d.bufEdit) + Behind(d)
        BY <1>4, TextIs
  <2>3. Len(Text(r)) = r.curLine + Len(r.bufEdit) + Behind(r)
        BY <1>2, <2>1, TextIs
  <2>4. SameSel(r, d) /\ r.curLine = d.curLine /\ r.bufEdit = d.bufEdit
        BY <1>1, <1>4 DEF KeptHas
  <2>5. Len(Text(r)) = Len(Text(d))
        BY <1>3, <2>2, <2>3, <2>4
  <2>6. SelTo(r) = SelTo(d)
        BY <1>4, <2>1, <2>4 DEF SelTo, SameSel
  <2>7. LineSel(r)
        BY <1>4, <2>4 DEF Selected, LineSel, SameSel
  <2>8. SelTo(d) <= Len(Text(d))
        BY DEF Selected
  <2>9. SelTo(r) <= Len(Text(r))
        BY ONLY <2>5, <2>6, <2>8
  <2> QED BY <2>7, <2>9 DEF Selected, r
<1>5. CASE ~d.editing
  <2>1. ~r.editing /\ r.selEnd = d.selEnd /\ Len(r.buffer) = Len(d.buffer)
        BY <1>1, <1>5 DEF KeptHas
  <2>2. SelTo(r) = SelTo(d) /\ Text(r) = r.buffer /\ Text(d) = d.buffer
        BY <1>5, <2>1 DEF SelTo, Text
  <2>3. SelTo(d) <= Len(Text(d))
        BY DEF Selected
  <2>4. SelTo(r) <= Len(Text(r))
        BY ONLY <2>1, <2>2, <2>3
  <2> QED BY <2>1, <2>4 DEF Selected, r
<1>6. d.editing \in BOOLEAN
      BY DEF Good, InLines, Editors
<1> QED BY <1>4, <1>5, <1>6 DEF r

-----------------------------------------------------------------------------
(* As long as the code gets the selection right, it is in the text, and    *)
(* its ends in the line in edition are where those in the text are.        *)
SelInv == use = "select" /\ ~known => Selected(e)

(* The last step is not one the code gets wrong.                           *)
Unmoved(d, bad) == ~bad /\ (Forgotten(flushLine(e)) => Text(d) = Text(e))
SelStep == \E d : Good(d) /\ e' = Kept(d) /\ use' = use /\ (~known' => Selected(d))

LEMMA BecomesStep ==
  ASSUME NEW d, NEW bad, Becomes(d, bad), Good(d), Unmoved(d, bad) => Selected(d)
  PROVE  SelStep
<1> DEFINE P == Forgotten(flushLine(e))
           Q == Text(d) # Text(e)
<1>1. e' = Kept(d) /\ use' = use /\ known' = (bad \/ Astray(d) \/ (P /\ Q))
      BY DEF Becomes
<1>2. ~known' => ~bad /\ (P => ~Q)
  <2> HIDE DEF P, Q
  <2> QED BY <1>1
<1>3. ~known' => Selected(d)
      BY <1>2 DEF Unmoved
<1> QED BY <1>1, <1>3 DEF SelStep

LEMMA SetsStep ==
  ASSUME NEW d, Sets(d), Good(d), ~Torn(d) => Selected(d)
  PROVE  SelStep
<1>1. e' = Kept(d) /\ use' = use /\ known' = Torn(d)
      BY DEF Sets
<1>2. ~known' => Selected(d)
      BY <1>1
<1> QED BY <1>1, <1>2 DEF SelStep

LEMMA StepKeepsSel == SelStep => SelInv'
<1> SUFFICES ASSUME SelStep, use' = "select", ~known' PROVE Selected(e')
    BY DEF SelInv
<1>1. PICK d : Good(d) /\ e' = Kept(d) /\ use' = use /\ (~known' => Selected(d))
      BY DEF SelStep
<1>2. Selected(Kept(d))
      BY <1>1, KeptSelected
<1> QED BY <1>1, <1>2

(* What there is between the commands.                                     *)
Chosen == Fine(e) /\ use = "select" /\ Selected(e)

(* Nothing that is computed on the way gets longer than this.              *)
LEMMA WithinReach ==
  ASSUME Fine(e)
  PROVE  LET f == flushLine(e)
         IN  /\ Good(e) /\ Len(Text(e)) \in Nat /\ Len(Text(e)) + 2 <= Reach
             /\ Resting(f) /\ InLines(f) /\ Good(f) /\ Text(f) = f.buffer
             /\ f.x = e.x /\ f.y = e.y /\ f.totalLines = e.totalLines /\ f.curLine = e.curLine
             /\ Len(f.buffer) \in Nat /\ Len(f.buffer) + e.x + 2 <= Reach /\ e.x \in Nat
             /\ Len(Text(EditLine(f))) + 2 <= Reach
             /\ ~e.editing => f = e
<1> DEFINE f == flushLine(e)
           N == Len(f.buffer)
           x == e.x
<1>1. Good(e) /\ Room(e)
      BY DEF Fine
<1>2. /\ Resting(f) /\ f.x = e.x /\ f.y = e.y /\ f.totalLines = e.totalLines
      /\ f.curLine = e.curLine
      BY <1>1, FlushLines
<1>3. /\ N \in Nat /\ N <= 2 * MaxLen + 1 /\ x \in Nat /\ x <= MaxColumn
      BY FlushFits
<1>4. ~e.editing => f = e
      BY DEF flushLine
<1> HIDE DEF f
<1>5. InLines(f) /\ Good(f) /\ Text(f) = f.buffer /\ ~f.editing
      BY <1>2 DEF Resting, Good, Reaches, Text
<1> HIDE DEF N, x
<1>6. MaxLen \in Nat /\ MaxColumn \in Nat
      BY TextAssumption
<1>7. N + x + 2 <= Reach
      BY <1>3, <1>6 DEF Reach
<1>8. Len(Text(e)) \in Nat /\ Len(Text(e)) + 2 <= Reach
  <2> DEFINE c == e.curLine
             w == LineWidth(e)
             R == Behind(e)
             l == Len(e.bufEdit)
             b == Len(e.buffer)
             t == Len(Text(e))
  <2>1. /\ c \in Nat /\ w \in Nat /\ R \in Nat /\ l \in Nat /\ b = c + w + R /\ b \in Nat /\ t \in Nat
        /\ e.editing => t = c + l + R
        /\ ~e.editing => t = b
    <3>1. ~e.editing => Text(e) = e.buffer
          BY <1>1, TextIs
    <3> QED BY <1>1, <3>1, TextIs
  <2>2. b <= MaxLen /\ (e.editing => l <= MaxLen) /\ e.editing \in BOOLEAN
        BY <1>1 DEF Room, Good, InLines, Editors
  <2> HIDE DEF c, w, R, l, b, t
  <2>3. t + 2 <= Reach
        BY <1>6, <2>1, <2>2 DEF Reach
  <2> QED BY <2>1, <2>3 DEF t
<1>9. Len(Text(EditLine(f))) + 2 <= Reach
  <2> DEFINE r == EditLine(f)
             c == f.curLine
             w == LineWidth(f)
             R == Behind(f)
             l == Len(r.bufEdit)
             t == Len(Text(r))
  <2>1. l - w <= f.x /\ r.curLine = c /\ r.editing /\ Behind(r) = R
        BY <1>5, EditLineIs
  <2>2. Good(r)
    <3>1. Typing(r)
          BY <1>5, EditLineTyping
    <3> HIDE DEF r
    <3> QED BY <3>1 DEF Typing
  <2>3. /\ c \in Nat /\ w \in Nat /\ R \in Nat /\ Len(f.buffer) = c + w + R
        BY <1>5, TextIs
  <2>4. t = c + l + R /\ l \in Nat
    <3> HIDE DEF r, c, R
    <3> QED BY <2>1, <2>2, TextIs
  <2>5. l - w <= x /\ N = c + w + R
        BY <1>2, <2>1, <2>3 DEF x, N
  <2> HIDE DEF r, c, w, R, l, t
  <2>6. t + 2 <= Reach
        BY <1>3, <1>7, <2>3, <2>4, <2>5, SmallNumbers
  <2> QED BY <2>6 DEF t, r
<1> QED BY <1>1, <1>2, <1>3, <1>4, <1>5, <1>7, <1>8, <1>9 DEF f, N, x

(* When the command ends with the line back in the buffer.                 *)
LEMMA RestSelected ==
  ASSUME NEW r, Resting(r), r.selEnd <= Len(r.buffer)
  PROVE  Selected(r) /\ Good(r)
<1>1. ~r.editing /\ Good(r)
      BY DEF Resting, Good, Reaches
<1>2. SelTo(r) = r.selEnd /\ Text(r) = r.buffer
      BY <1>1 DEF SelTo, Text
<1> QED BY <1>1, <1>2 DEF Selected

(* The ends of an empty selection stay where they are, in the text as long *)
(* as that does not change.                                                *)
LEMMA EmptyEnd ==
  ASSUME Chosen, ~hasSelection(flushLine(e)), NEW r, Good(r), SelTo(r) = flushLine(e).selEnd,
         Forgotten(flushLine(e)) => Text(r) = Text(e)
  PROVE  SelTo(r) <= Len(Text(r))
<1> DEFINE f == flushLine(e)
           t == Len(Text(e))
<1>1. /\ Good(e) /\ Selected(e) /\ t + 2 <= Reach /\ t \in Nat /\ InLines(f) /\ ~f.editing
      BY WithinReach DEF Chosen, Resting
<1>2. f.selEnd <= SelTo(e) /\ SelTo(e) <= t
      BY <1>1, FlushSelected DEF Selected
<1>3. f \in Editors /\ e \in Editors
      BY <1>1 DEF Good, InLines
<1> HIDE DEF f
<1>4. f.selStart \in Nat /\ f.selEnd \in Nat /\ SelTo(e) \in Nat
      BY <1>3, EndsInLine DEF SelTo
<1>5. Len(Text(r)) \in Nat
      BY TextIs
<1>6. CASE Forgotten(f)
  <2>1. Text(r) = Text(e)
        BY <1>6 DEF f
  <2>2. f.selEnd <= t
    <3> HIDE DEF t
    <3> QED BY <1>1, <1>2, <1>4
  <2> QED BY <2>1, <2>2 DEF f
<1>7. CASE ~Forgotten(f)
  <2>1. f.selStart >= f.selEnd => ~(f.selStart + f.selEnd > 0)
        BY <1>1, <1>7 DEF Forgotten, SelFrom, SelTo
  <2>2. ~(f.selStart < f.selEnd)
        BY DEF hasSelection, f
  <2>3. f.selEnd = 0
        BY <1>4, <2>1, <2>2
  <2> QED BY <1>5, <2>3 DEF f
<1> QED BY <1>6, <1>7

LEMMA EmptyInLine ==
  ASSUME Chosen, e.editing, e.selNewStart >= e.selNewEnd,
         NEW r, Good(r), OnLine(r, e), SameSel(r, e),
         Forgotten(flushLine(e)) => Text(r) = Text(e)
  PROVE  Selected(r)
<1> DEFINE f == flushLine(e)
           S == e.selNewStart
           E == e.selNewEnd
           ls == e.selLineStart
           le == e.selLineEnd
           c == e.curLine
           L == Len(e.bufEdit)
           M == Len(r.bufEdit)
           R == Behind(e)
<1>1. /\ Good(e) /\ Selected(e) /\ Len(Text(e)) + 2 <= Reach /\ ~f.editing
      /\ SelFrom(e) = S /\ SelTo(e) = E
      BY WithinReach DEF Chosen, Resting, SelFrom, SelTo
<1>2. S \in Nat /\ E \in Nat /\ ls \in Nat /\ le \in Nat
  <2>1. e \in Editors
        BY <1>1 DEF Good, InLines
  <2> QED BY <2>1, EndsInLine
<1>3. f.selStart = S /\ f.selEnd = E
  <2>1. SelFrom(e) >= SelTo(e)
        BY <1>1
  <2> QED BY <1>1, <2>1, FlushSelected
<1>4. r.editing /\ r.curLine = c /\ Behind(r) = R
      BY SameBehind DEF OnLine
<1>5. /\ c \in Nat /\ L \in Nat /\ R \in Nat /\ Len(Text(e)) = c + L + R
      BY <1>1, TextIs
<1>6. M \in Nat /\ Len(Text(r)) = c + M + R
  <2> HIDE DEF c, R
  <2> QED BY <1>4, TextIs
<1>7. /\ r.selNewStart = S /\ r.selNewEnd = E /\ r.selLineStart = ls /\ r.selLineEnd = le
      BY DEF SameSel
<1>8. Stale(S, ls, c, L) /\ Stale(E, le, c, L)
      BY <1>1 DEF Selected, LineSel, Spans
<1>9. S >= E
      OBVIOUS
<1>10. Forgotten(f) <=> f.selStart >= f.selEnd /\ f.selStart + f.selEnd > 0
       BY <1>1 DEF Forgotten, SelFrom, SelTo
<1>11. SelTo(r) <= Len(Text(r))
  <2>1. ~(S < E)
    <3> HIDE DEF S, E
    <3> QED BY <1>2, <1>9
  <2>2. ~hasSelection(f)
    <3> HIDE DEF S, E, f
    <3> QED BY <1>3, <2>1 DEF hasSelection
  <2>3. SelTo(r) = f.selEnd
        BY <1>3, <1>4, <1>7 DEF SelTo
  <2> QED BY <2>2, <2>3, EmptyEnd
<1>12. S + E > 0 => L = M
  <2> SUFFICES ASSUME S + E > 0 PROVE L = M
      OBVIOUS
  <2>1. Text(r) = Text(e)
        BY <1>3, <1>9, <1>10
  <2>2. c + M + R = c + L + R
        BY <1>5, <1>6, <2>1
  <2> HIDE DEF S, E, c, L, M, R
  <2> QED BY <1>5, <1>6, <2>2
<1> HIDE DEF S, E, c, L, M, R, ls, le, f
<1>13. Stale(S, ls, c, M) /\ Stale(E, le, c, M)
  <2>1. CASE S + E > 0
        BY <1>8, <1>12, <2>1
  <2>2. CASE ~(S + E > 0)
    <3>1. S = 0 /\ E = 0
          BY <1>2, <2>2
    <3>2. ls <= 1 /\ le <= 1
          BY <1>8, <3>1 DEF Stale
    <3> QED BY <1>2, <1>5, <1>6, <1>8, <3>1, <3>2 DEF Stale
  <2> QED BY <2>1, <2>2
<1>14. ~(S < E)
       BY <1>2, <1>9
<1>15. Spans(S, E, ls, le, c, M)
       BY <1>13, <1>14 DEF Spans
<1>16. LineSel(r)
       BY <1>4, <1>7, <1>15 DEF LineSel, M
<1> QED BY <1>11, <1>16 DEF Selected

LEMMA EmptyEdited ==
  ASSUME Chosen, ~hasSelection(flushLine(e)),
         NEW r, Good(r), r.editing, r.curLine = e.curLine, SameSel(r, EditLine(flushLine(e))),
         Forgotten(flushLine(e)) => Text(r) = Text(e)
  PROVE  Selected(r)
<1> DEFINE f == flushLine(e)
           g == EditLine(f)
           S == f.selStart
           E == f.selEnd
           c == r.curLine
           M == Len(r.bufEdit)
           zero == 0
<1>1. InLines(f) /\ ~f.editing /\ Len(Text(g)) + 2 <= Reach
      BY WithinReach DEF Chosen, Resting
<1>2. ~hasSelection(f) /\ ~Filled(f)
      BY DEF Filled
<1> HIDE DEF f
<1>3. g.selNewStart = S /\ g.selNewEnd = E /\ g.selLineStart = 0 /\ g.selLineEnd = 0
      BY <1>1, <1>2, EditLineSelected
<1>4. S \in Nat /\ E \in Nat
      BY <1>1, EndsInLine DEF InLines
<1>5. SameSel(r, g)
      BY DEF f
<1> HIDE DEF g
<1>6. r.selNewStart = S /\ r.selNewEnd = E /\ r.selLineStart = 0 /\ r.selLineEnd = 0
      BY <1>3, <1>5 DEF SameSel
<1>7. SelTo(r) <= Len(Text(r))
  <2>1. SelTo(r) = E
        BY <1>6 DEF SelTo
  <2> QED BY <1>2, <2>1, EmptyEnd DEF f
<1>8. c \in Nat /\ M \in Nat
      BY TextIs
<1>9. ~(S < E)
      BY <1>2 DEF hasSelection
<1> HIDE DEF S, E, c, M
<1>10. Spans(S, E, 0, 0, c, M)
       BY <1>4, <1>8, <1>9 DEF Spans, Stale
<1>11. LineSel(r)
       BY <1>6, <1>10 DEF LineSel, c, M
<1> QED BY <1>7, <1>11 DEF Selected

(* An empty selection is not moved with the line in edition.               *)
Unselected(r, d) == OnLine(r, d) /\ (d.selNewStart >= d.selNewEnd => SameSel(r, d))

LEMMA AdjustUnselected ==
  ASSUME NEW d \in Editors, NEW pos \in Int, NEW dif \in Int, NEW i, NEW l
  PROVE  Unselected(AdjustLineSel(d, pos, dif, i, l), d)
<1> DEFINE a == AdjustLineSel(d, pos, dif, i, l)
<1>1. OnLine(a, d)
      BY AdjustedSame
<1>2. d.selNewStart >= d.selNewEnd => a = d
      BY AdjustLineSelIs
<1> HIDE DEF a
<1>3. Unselected(a, d)
      BY <1>1, <1>2 DEF Unselected, SameSel
<1> QED BY <1>3 DEF a

LEMMA LineUnselected ==
  ASSUME NEW d, Typing(d), NEW c \in Chars
  PROVE  /\ Unselected(EraseLeft(d), d) /\ Unselected(EraseRight(d), d)
         /\ Unselected(InsertCharInLine(d, c), d)
<1> DEFINE p == d.inEdit
           one == 1
           minus == -1
           no == FALSE
           yes == TRUE
<1>1. /\ d \in Editors /\ p \in Int /\ d.markInLine \in Int /\ d.x \in Nat
      /\ d.bufEdit \in Strings
      BY TypingHas
<1>2. one \in Int /\ minus \in Int
      OBVIOUS
<1>3. Unselected(EraseLeft(d), d)
  <2> DEFINE a == AdjustLineSel(d, p, minus, yes, yes)
             s == Part(a.bufEdit, 0, p - 1) \o Part(a.bufEdit, p, Len(a.bufEdit))
             mk == IF a.markInLine >= 0 /\ a.markInLine >= p THEN a.markInLine - 1 ELSE a.markInLine
             r == [a EXCEPT !.bufEdit = s, !.inEdit = p - 1, !.x = @ - 1, !.markInLine = mk]
  <2>1. EraseLeft(d) = r
        BY DEF EraseLeft
  <2> HIDE DEF p, one, minus, no, yes
  <2>2. Unselected(a, d) /\ a \in Editors
        BY <1>1, <1>2, AdjustUnselected, AdjustedSame
  <2> HIDE DEF a, s, mk
  <2>3. OnLine(r, a) /\ SameSel(r, a)
        BY <2>2 DEF OnLine, SameSel, Editors
  <2> HIDE DEF r
  <2>4. Unselected(r, d)
        BY <2>2, <2>3 DEF Unselected, OnLine, SameSel
  <2> QED BY <2>1, <2>4
<1>4. Unselected(EraseRight(d), d)
  <2> DEFINE a == AdjustLineSel(d, p, minus, no, no)
             s == Part(a.bufEdit, 0, p) \o Part(a.bufEdit, p + 1, Len(a.bufEdit))
             mk == IF a.markInLine >= 0 /\ a.markInLine > p THEN a.markInLine - 1 ELSE a.markInLine
             n == a.restCharsInLine - 1
             r == [a EXCEPT !.bufEdit = s, !.restCharsInLine = n, !.markInLine = mk]
  <2>1. EraseRight(d) = r
        BY DEF EraseRight
  <2> HIDE DEF p, one, minus, no, yes
  <2>2. Unselected(a, d) /\ a \in Editors
        BY <1>1, <1>2, AdjustUnselected, AdjustedSame
  <2> HIDE DEF a, s, mk
  <2>3. OnLine(r, a) /\ SameSel(r, a)
        BY <2>2 DEF OnLine, SameSel, Editors
  <2> HIDE DEF r
  <2>4. Unselected(r, d)
        BY <2>2, <2>3 DEF Unselected, OnLine, SameSel
  <2> QED BY <2>1, <2>4
<1> DEFINE grownLine == Part(d.bufEdit, 0, p) \o <<c>> \o Part(d.bufEdit, p, Len(d.bufEdit))
           overLine == Part(d.bufEdit, 0, p) \o <<c>> \o Part(d.bufEdit, p + 1, Len(d.bufEdit))
           mk1 == IF d.markInLine >= 0 /\ d.markInLine >= p THEN d.markInLine + 1 ELSE d.markInLine
           grown == [d EXCEPT !.bufEdit = grownLine, !.inEdit = p + 1, !.x = @ + 1, !.markInLine = mk1]
           n == IF p < Len(d.bufEdit) THEN d.restCharsInLine - 1 ELSE d.restCharsInLine
           over == [d EXCEPT !.bufEdit = overLine, !.inEdit = p + 1, !.x = @ + 1,
                             !.restCharsInLine = n]
           ins == InsertCharInLine(d, c)
<1>5. ins = IF d.overwrite THEN over ELSE AdjustLineSel(grown, p, one, no, yes)
      BY DEF InsertCharInLine
<1>7. OnLine(over, d) /\ SameSel(over, d)
  <2> HIDE DEF overLine, p, n
  <2> QED BY <1>1 DEF OnLine, SameSel, Editors
<1>8. OnLine(grown, d) /\ SameSel(grown, d)
  <2> HIDE DEF grownLine, p, mk1
  <2> QED BY <1>1 DEF OnLine, SameSel, Editors
<1>9. ~d.overwrite => Unselected(AdjustLineSel(grown, p, one, no, yes), grown)
  <2>1. grownLine \in Strings
    <3> DEFINE new == <<c>>
    <3>1. /\ new \in Seq(Chars) /\ d.bufEdit \in Seq(Chars)
          /\ p \in 0 .. Len(d.bufEdit) /\ p \in p .. Len(d.bufEdit)
      <4>1. p \in Nat /\ p <= Len(d.bufEdit) /\ Len(d.bufEdit) \in Nat /\ d.bufEdit \in Seq(Chars)
            BY TypingHas DEF Strings
      <4> QED BY <4>1
    <3>2. grownLine = Splice(d.bufEdit, p, new, p)
          BY DEF Splice
    <3> HIDE DEF new, p, grownLine
    <3>3. Splice(d.bufEdit, p, new, p) \in Seq(Chars)
          BY <3>1, Spliced
    <3> QED BY <3>2, <3>3 DEF Strings
  <2>2. p + 1 \in Nat /\ mk1 \in Int /\ d.x + 1 \in Nat
    <3>1. p \in Nat
          BY TypingHas
    <3> QED BY <1>1, <3>1
  <2>3. grown \in Editors
    <3> HIDE DEF grownLine, p, mk1
    <3> QED BY <1>1, <2>1, <2>2 DEF Editors
  <2> HIDE DEF grown, p, one, no, yes
  <2> QED BY <1>1, <1>2, <2>3, AdjustUnselected
<1>10. Unselected(ins, d)
  <2> HIDE DEF ins, over, grown, p, one, no, yes
  <2>1. CASE d.overwrite
        BY <1>5, <1>7, <2>1 DEF Unselected
  <2>2. CASE ~d.overwrite
    <3>1. Unselected(ins, grown)
          BY <1>5, <1>9, <2>2
    <3> QED BY <1>8, <3>1 DEF Unselected, OnLine, SameSel
  <2> QED BY <2>1, <2>2
<1> HIDE DEF ins
<1> QED BY <1>3, <1>4, <1>10 DEF ins

LEMMA RangeUnselected ==
  ASSUME NEW d, Typing(d), NEW from \in 0 .. Len(d.bufEdit), NEW to \in from .. Len(d.bufEdit),
         NEW x \in Int
  PROVE  Unselected(deleteRangeLineInEdition(d, from, to, x), d)
<1> DEFINE s == d.bufEdit
           left == x >= 0
           dif == from - to
           yes == TRUE
           mk == IF d.markInLine >= from /\ d.markInLine < to THEN from
                 ELSE IF d.markInLine >= to THEN d.markInLine - (to - from) ELSE d.markInLine
           xx == IF x >= 0 THEN x ELSE d.x
           cut == Part(s, 0, from) \o Part(s, to, Len(s))
           g == [d EXCEPT !.bufEdit = cut, !.x = xx, !.markInLine = mk]
           r == deleteRangeLineInEdition(d, from, to, x)
<1>1. r = AdjustLineSel(g, from, dif, yes, left)
      BY DEF deleteRangeLineInEdition
<1>2. /\ d \in Editors /\ s \in Strings /\ Len(s) \in Nat
      /\ d.x \in Nat /\ d.markInLine \in Int
      BY TypingHas
<1>3. from \in Nat /\ to \in Nat /\ from \in Int /\ dif \in Int
      BY <1>2
<1>4. cut \in Strings
  <2> DEFINE e0 == <<>>
  <2>1. cut = Splice(s, from, e0, to)
        BY <1>2, Without
  <2>2. e0 \in Seq(Chars)
        BY NoText DEF Strings
  <2> HIDE DEF e0, cut
  <2>3. Splice(s, from, e0, to) \in Seq(Chars)
        BY <1>2, <2>2, Spliced DEF Strings
  <2> QED BY <2>1, <2>3 DEF Strings
<1>5. mk \in Int /\ xx \in Nat
      BY <1>2, <1>3
<1> HIDE DEF mk, xx, cut
<1>6. g \in Editors
      BY <1>2, <1>4, <1>5 DEF Editors
<1>7. OnLine(g, d) /\ SameSel(g, d)
      BY <1>2 DEF OnLine, SameSel, Editors
<1> HIDE DEF g, r, dif, left, yes
<1>8. Unselected(r, g)
      BY <1>1, <1>3, <1>6, AdjustUnselected
<1>9. Unselected(r, d)
      BY <1>7, <1>8 DEF Unselected, OnLine, SameSel
<1> QED BY <1>9 DEF r

(* The line of the cursor is brought to edition.                           *)
LEMMA TypingSelected ==
  ASSUME Chosen, ~Parted(e), ~Filled(e)
  PROVE  LET d == InEdition(e)
         IN  /\ Typing(d) /\ Len(Text(d)) + 2 <= Reach
             /\ d.selNewStart < d.selNewEnd => Selected(d)
             /\ d.selNewStart \in Nat /\ d.selNewEnd \in Nat
<1> DEFINE d == InEdition(e)
<1>1. Typing(d)
      BY InEditionTyping DEF Chosen, Fine
<1>2. d.selNewStart \in Nat /\ d.selNewEnd \in Nat
  <2> HIDE DEF d
  <2>1. d \in Editors
        BY <1>1, TypingHas
  <2> QED BY <2>1, EndsInLine
<1>3. CASE e.editing
  <2>1. d = e
        BY <1>3 DEF InEdition
  <2> QED BY <1>1, <1>2, <2>1, WithinReach DEF Chosen
<1>4. CASE ~e.editing
  <2>1. d = EditLine(e) /\ flushLine(e) = e
        BY <1>4 DEF InEdition, flushLine
  <2>2. InLines(e) /\ Len(Text(EditLine(e))) + 2 <= Reach
        BY <2>1, WithinReach DEF Chosen
  <2>3. e.selEnd <= Len(e.buffer)
        BY <1>4 DEF Chosen, Selected, SelTo, Text
  <2>4. /\ hasSelection(e) => Selected(EditLine(e))
        /\ ~hasSelection(e) => /\ EditLine(e).selNewStart = e.selStart
                               /\ EditLine(e).selNewEnd = e.selEnd
        BY <1>4, <2>2, <2>3, EditLineSelected
  <2>5. d.selNewStart < d.selNewEnd => Selected(d)
        BY <2>1, <2>4 DEF hasSelection
  <2> QED BY <1>1, <1>2, <2>1, <2>2, <2>5
<1>5. e.editing \in BOOLEAN
      BY DEF Chosen, Fine, Good, InLines, Editors
<1> QED BY <1>3, <1>4, <1>5

LEMMA EmptyTyping ==
  ASSUME Chosen, ~Parted(e), ~Filled(e),
         ~(InEdition(e).selNewStart < InEdition(e).selNewEnd),
         NEW r, Good(r), Unselected(r, InEdition(e)),
         Forgotten(flushLine(e)) => Text(r) = Text(e)
  PROVE  Selected(r)
<1> DEFINE d == InEdition(e)
<1>1. d.selNewStart >= d.selNewEnd /\ d.editing
  <2>1. Typing(d) /\ d.selNewStart \in Nat /\ d.selNewEnd \in Nat
        BY TypingSelected
  <2> HIDE DEF d
  <2>2. ~(d.selNewStart < d.selNewEnd)
        BY DEF d
  <2> QED BY <2>1, <2>2 DEF Typing
<1>2. OnLine(r, d) /\ SameSel(r, d)
      BY <1>1 DEF Unselected
<1>3. CASE e.editing
  <2>1. d = e
        BY <1>3 DEF InEdition
  <2> QED BY <1>1, <1>2, <1>3, <2>1, EmptyInLine
<1>4. CASE ~e.editing
  <2> DEFINE f == flushLine(e)
  <2>1. d = EditLine(e) /\ f = e
        BY <1>4 DEF InEdition, flushLine
  <2>2. ~hasSelection(f)
    <3>1. InLines(e) /\ Len(Text(EditLine(e))) + 2 <= Reach
          BY <2>1, WithinReach DEF Chosen
    <3>2. e.selEnd <= Len(e.buffer)
          BY <1>4 DEF Chosen, Selected, SelTo, Text
    <3>3. hasSelection(e) => EditLine(e).selNewStart < EditLine(e).selNewEnd
          BY <1>4, <3>1, <3>2, EditLineSelected
    <3> QED BY <2>1, <3>3
  <2>3. r.editing /\ r.curLine = e.curLine
    <3>1. d.curLine = e.curLine
      <4>1. InLines(e)
            BY DEF Chosen, Fine, Good
      <4> QED BY <2>1, <4>1, EditLineIs
    <3> HIDE DEF d
    <3> QED BY <1>1, <1>2, <3>1 DEF OnLine
  <2>4. SameSel(r, EditLine(f))
        BY <1>2, <2>1
  <2> HIDE DEF f, d
  <2>5. Forgotten(f) => Text(r) = Text(e)
        BY DEF f
  <2> QED BY <2>2, <2>3, <2>4, <2>5, EmptyEdited DEF f
<1>5. e.editing \in BOOLEAN
      BY DEF Chosen, Fine, Good, InLines, Editors
<1> QED BY <1>3, <1>4, <1>5

-----------------------------------------------------------------------------
(* The commands in the line in edition.                                    *)
LEMMA TypeKeySel ==
  ASSUME Chosen, NEW c \in Keys, TypeKey(c)
  PROVE  SelStep
<1> DEFINE d == InEdition(e)
           r == InsertCharInLine(d, c)
           long == d.overwrite /\ d.inEdit = Len(d.bufEdit) /\ SelTo(d) > d.curLine + d.inEdit
           bad == Filled(e) \/ long
<1>1. Becomes(r, bad) /\ ~Parted(e)
      BY DEF TypeKey
<1>2. Typing(d) /\ c \in Chars /\ c # EOL
      BY <1>1, InEditionTyping, GivenTexts DEF Chosen, Fine
<1> HIDE DEF d
<1>3. Good(r)
      BY <1>2, InsertCharInLineTyping DEF Typing
<1>4. Unselected(r, d)
      BY <1>2, LineUnselected
<1>5. ASSUME Unmoved(r, bad) PROVE Selected(r)
  <2>1. ~Filled(e) /\ ~long /\ (Forgotten(flushLine(e)) => Text(r) = Text(e))
        BY <1>5 DEF Unmoved
  <2>2. CASE d.selNewStart < d.selNewEnd
    <3>1. Selected(d) /\ Len(Text(d)) + 2 <= Reach
          BY <1>1, <2>1, <2>2, TypingSelected DEF d
    <3> QED BY <1>2, <2>1, <2>2, <3>1, InsertSelected
  <2>3. CASE ~(d.selNewStart < d.selNewEnd)
    <3> HIDE DEF r
    <3> QED BY <1>1, <1>3, <1>4, <2>1, <2>3, EmptyTyping DEF d
  <2> QED BY <2>2, <2>3
<1> HIDE DEF r, bad
<1> QED BY <1>1, <1>3, <1>5, BecomesStep

LEMMA EraseLeftSel ==
  ASSUME Chosen, ~Parted(e), e.x > 0, Becomes(EraseLeft(InEdition(e)), Filled(e))
  PROVE  SelStep
<1> DEFINE d == InEdition(e)
           r == EraseLeft(d)
           bad == Filled(e)
<1>1. Becomes(r, bad)
      OBVIOUS
<1>2. Typing(d) /\ d.x > 0
  <2>1. Typing(d)
        BY InEditionTyping DEF Chosen, Fine
  <2>2. d.x = e.x
        BY EditLineTyping DEF InEdition, Good, Chosen, Fine
  <2> QED BY <2>1, <2>2
<1> HIDE DEF d
<1>3. Good(r)
      BY <1>2, EraseLeftTyping DEF Typing
<1>4. Unselected(r, d)
  <2>1. Blank \in Chars
        BY GivenTexts
  <2> QED BY <1>2, <2>1, LineUnselected
<1>5. ASSUME Unmoved(r, bad) PROVE Selected(r)
  <2>1. ~Filled(e) /\ (Forgotten(flushLine(e)) => Text(r) = Text(e))
        BY <1>5 DEF Unmoved
  <2>2. CASE d.selNewStart < d.selNewEnd
    <3>1. Selected(d) /\ Len(Text(d)) + 2 <= Reach
          BY <2>1, <2>2, TypingSelected DEF d
    <3> QED BY <1>2, <2>2, <3>1, EraseLeftSelected
  <2>3. CASE ~(d.selNewStart < d.selNewEnd)
    <3> HIDE DEF r
    <3> QED BY <1>3, <1>4, <2>1, <2>3, EmptyTyping DEF d
  <2> QED BY <2>2, <2>3
<1> HIDE DEF r, bad
<1> QED BY <1>1, <1>3, <1>5, BecomesStep

LEMMA NotFilledEditing == e.editing => ~Filled(e) /\ InEdition(e) = e
BY DEF Filled, InEdition

(* The selection does not depend on what is counted behind the cursor.     *)
LEMMA CountedAnew ==
  ASSUME NEW d, Good(d), NEW bad
  PROVE  LET r == [d EXCEPT !.restCharsInLine = 0]
         IN  /\ Selected(d) => Selected(r)
             /\ Unmoved(r, bad) => Unmoved(d, bad)
<1> DEFINE r == [d EXCEPT !.restCharsInLine = 0]
<1>1. d \in Editors
      BY DEF Good, InLines
<1>2. /\ OnLine(r, d) /\ SameSel(r, d) /\ r.bufEdit = d.bufEdit /\ r.selEnd = d.selEnd
      BY <1>1 DEF Editors, OnLine, SameSel
<1> HIDE DEF r
<1>3. Text(r) = Text(d)
      BY <1>2 DEF OnLine, Text, LineWidth, LenWithoutCRLF, bufLen
<1>4. Selected(d) => Selected(r)
      BY <1>2, <1>3 DEF OnLine, SameSel, Selected, SelTo, LineSel
<1>5. Unmoved(r, bad) => Unmoved(d, bad)
      BY <1>3 DEF Unmoved
<1> QED BY <1>4, <1>5 DEF r

LEMMA BlankSel ==
  ASSUME Chosen, ~Parted(e), e.editing, ~(e.inEdit < Len(e.bufEdit)),
         Becomes([InsertCharInLine(e, Blank) EXCEPT !.restCharsInLine = 0],
                 e.editing /\ e.overwrite /\ e.inEdit = Len(e.bufEdit)
                   /\ SelTo(e) > e.curLine + e.inEdit)
  PROVE  SelStep
<1> DEFINE r == InsertCharInLine(e, Blank)
           r0 == [r EXCEPT !.restCharsInLine = 0]
           bad == e.editing /\ e.overwrite /\ e.inEdit = Len(e.bufEdit)
                   /\ SelTo(e) > e.curLine + e.inEdit
<1>1. Becomes(r0, bad)
      OBVIOUS
<1>2. Typing(e) /\ Blank \in Chars /\ Blank # EOL /\ InEdition(e) = e /\ ~Filled(e)
      BY TypingInEdition, GivenTexts, NotFilledEditing DEF Chosen, Fine
<1>a. Typing(r) /\ r.inEdit >= Len(r.bufEdit)
  <2>1. e.inEdit = Len(e.bufEdit)
        BY <1>2, TypingHas
  <2> QED BY <1>2, <2>1, InsertCharInLineTyping
<1>3. Good(r) /\ r.editing
  <2> HIDE DEF r
  <2> QED BY <1>a DEF Typing
<1>b. Good(r0)
  <2> HIDE DEF r
  <2> QED BY <1>3, <1>a, NothingBehind
<1>4. Unselected(r, e)
      BY <1>2, LineUnselected
<1>5. ASSUME Unmoved(r, bad) PROVE Selected(r)
  <2>1. ~(e.overwrite /\ e.inEdit = Len(e.bufEdit) /\ SelTo(e) > e.curLine + e.inEdit)
        /\ (Forgotten(flushLine(e)) => Text(r) = Text(e))
        BY <1>5 DEF Unmoved
  <2>2. CASE e.selNewStart < e.selNewEnd
    <3>1. Selected(e) /\ Len(Text(e)) + 2 <= Reach
          BY WithinReach DEF Chosen
    <3> QED BY <1>2, <2>1, <2>2, <3>1, InsertSelected
  <2>3. CASE ~(e.selNewStart < e.selNewEnd)
    <3> HIDE DEF r
    <3> QED BY <1>2, <1>3, <1>4, <2>1, <2>3, EmptyTyping
  <2> QED BY <2>2, <2>3
<1>6. ASSUME Unmoved(r0, bad) PROVE Selected(r0)
  <2> HIDE DEF r, bad
  <2> QED BY <1>3, <1>5, <1>6, CountedAnew
<1> HIDE DEF r0, bad
<1> QED BY <1>1, <1>b, <1>6, BecomesStep

LEMMA EraseRightSel ==
  ASSUME Chosen, ~Parted(e), e.editing, e.inEdit < Len(e.bufEdit), Becomes(EraseRight(e), FALSE)
  PROVE  SelStep
<1> DEFINE r == EraseRight(e)
           bad == FALSE
<1>1. Becomes(r, bad)
      OBVIOUS
<1>2. Typing(e) /\ InEdition(e) = e /\ ~Filled(e) /\ e.x < Len(e.bufEdit)
      BY TypingInEdition, NotFilledEditing DEF Chosen, Fine, Typing
<1>3. Good(r)
      BY <1>2, EraseRightTyping DEF Typing
<1>4. Unselected(r, e)
  <2>1. Blank \in Chars
        BY GivenTexts
  <2> QED BY <1>2, <2>1, LineUnselected
<1>5. ASSUME Unmoved(r, bad) PROVE Selected(r)
  <2>1. Forgotten(flushLine(e)) => Text(r) = Text(e)
        BY <1>5 DEF Unmoved
  <2>2. CASE e.selNewStart < e.selNewEnd
    <3>1. Selected(e) /\ Len(Text(e)) + 2 <= Reach
          BY WithinReach DEF Chosen
    <3> QED BY <1>2, <2>2, <3>1, EraseRightSelected
  <2>3. CASE ~(e.selNewStart < e.selNewEnd)
    <3> HIDE DEF r
    <3> QED BY <1>2, <1>3, <1>4, <2>1, <2>3, EmptyTyping
  <2> QED BY <2>2, <2>3
<1> HIDE DEF r, bad
<1> QED BY <1>1, <1>3, <1>5, BecomesStep

LEMMA RangeStays ==
  ASSUME Chosen, ~Parted(e), e.editing,
         NEW from \in 0 .. Len(e.bufEdit), NEW to \in from .. Len(e.bufEdit),
         NEW x \in Int, (x = 0 /\ from = 0) \/ (x < 0 /\ e.inEdit <= from)
  PROVE  LET r == deleteRangeLineInEdition(e, from, to, x)
         IN  Good(r) /\ (Unmoved(r, EndsInside(e, from, to)) => Selected(r))
<1> DEFINE r == deleteRangeLineInEdition(e, from, to, x)
           bad == EndsInside(e, from, to)
<1>2. Typing(e) /\ InEdition(e) = e /\ ~Filled(e)
      BY TypingInEdition, NotFilledEditing DEF Chosen, Fine
<1>3. Good(r)
  <2>1. x = 0 \/ (x < 0 /\ e.inEdit <= from)
        OBVIOUS
  <2> QED BY <1>2, <2>1, DeleteRangeLineInEdition
<1>4. Unselected(r, e)
      BY <1>2, RangeUnselected
<1>5. ASSUME Unmoved(r, bad) PROVE Selected(r)
  <2>1. ~EndsInside(e, from, to) /\ (Forgotten(flushLine(e)) => Text(r) = Text(e))
        BY <1>5 DEF Unmoved
  <2>2. CASE e.selNewStart < e.selNewEnd
    <3>1. Selected(e) /\ Len(Text(e)) + 2 <= Reach
          BY WithinReach DEF Chosen
    <3> QED BY <1>2, <2>1, <2>2, <3>1, DeleteRangeInEditionSelected
  <2>3. CASE ~(e.selNewStart < e.selNewEnd)
    <3> HIDE DEF r
    <3> QED BY <1>2, <1>3, <1>4, <2>1, <2>3, EmptyTyping
  <2> QED BY <2>2, <2>3
<1> QED BY <1>3, <1>5

-----------------------------------------------------------------------------
(* The calls on the buffer.                                                *)
LEMMA WithoutSelected ==
  ASSUME NEW d \in Editors, NEW from \in Nat, NEW to \in Nat, NEW N \in Nat, from <= to, to <= N,
         hasSelection(d), d.selEnd <= N
  PROVE  SelWithout(d, from, to)[2] <= N - (to - from)
<1> DEFINE n == to - from
           S == d.selStart
           E == d.selEnd
           r == SelWithout(d, from, to)
<1>1. S \in Nat /\ E \in Nat /\ n \in Nat /\ S < E /\ E <= N
      BY EndsInLine DEF hasSelection
<1>2. r = IF from < S
          THEN IF to <= S THEN <<S - n, E - n>>
               ELSE IF to > E THEN <<0, 0>> ELSE <<from, E - n>>
          ELSE IF from < E
          THEN IF to <= E THEN <<S, E - n>> ELSE <<S, from>>
          ELSE <<S, E>>
      BY DEF SelWithout
<1> HIDE DEF r, S, E
<1>3. CASE (from < S /\ to <= S) \/ (from < S /\ to > S /\ to <= E) \/ (~(from < S) /\ from < E /\ to <= E)
  <2>1. r[2] = E - n
        BY <1>1, <1>2, <1>3
  <2> QED BY <1>1, <2>1 DEF r
<1>4. CASE from < S /\ to > S /\ to > E
  <2>1. r[2] = 0
        BY <1>1, <1>2, <1>4
  <2> QED BY <1>1, <2>1 DEF r
<1>5. CASE ~(from < S) /\ from < E /\ to > E
  <2>1. r[2] = from
        BY <1>1, <1>2, <1>5
  <2> QED BY <1>1, <2>1 DEF r
<1>6. CASE ~(from < S) /\ ~(from < E)
  <2>1. r[2] = E
        BY <1>1, <1>2, <1>6
  <2> QED BY <1>1, <1>6, <2>1 DEF r
<1> QED BY <1>1, <1>3, <1>4, <1>5, <1>6

LEMMA DeletedSelected ==
  ASSUME NEW d, InLines(d), NEW first \in Nat, NEW last \in 0 .. Len(d.buffer), NEW stale
  PROVE  LET r == deleteRange(d, first, last, stale)
         IN  /\ hasSelection(d) /\ d.selEnd <= Len(d.buffer) => r.selEnd <= Len(r.buffer)
             /\ ~hasSelection(d) => r.selStart = d.selStart /\ r.selEnd = d.selEnd
             /\ Len(r.buffer) \in Nat /\ Len(r.buffer) <= Len(d.buffer)
<1> DEFINE b == d.buffer
           lens == d.lenLines
           n == d.totalLines
           to == Min({last, bufLen(d)})
           ends == IF to = bufLen(d) THEN stale ELSE b[to + 1] = EOL
           from == IF ends THEN BlanksBefore(b, first) ELSE first
           y == Min({k \in 0 .. n : Total(lens, 0, k + 1) > from})
           start == Total(lens, 0, y)
           x == first - start
           gone == Part(b, from, to)
           merged == Min({Cardinality(Newlines(gone)), n - y})
           up == IF Cardinality(Newlines(gone)) > merged /\ y > 0 THEN 1 ELSE 0
           fromLine == y + (IF x = 0 THEN 0 ELSE 1)
           toLine == y + 1 + merged - (IF Last(gone) = EOL THEN 1 ELSE 0)
           sel == SelWithout(d, from, to)
           nl == IF merged = 0 THEN d.nline ELSE IF d.nline >= toLine THEN d.nline - merged
                 ELSE IF d.nline >= fromLine THEN -1 ELSE d.nline
           mk == IF d.mark > to THEN d.mark - (to - from) ELSE IF d.mark > from THEN from ELSE d.mark
           fb == Part(b, 0, from) \o Part(b, to, Len(b))
           fl == Part(lens, 0, y) \o <<Total(lens, y, y + merged + 1) - Len(gone)>>
                     \o Part(lens, y + merged + 1, Len(lens))
           tl == Max({0, n - Cardinality(Newlines(gone))})
           cl == start - (IF up = 1 THEN lens[y] ELSE 0)
           r == [d EXCEPT
             !.buffer = fb, !.lenLines = fl, !.totalLines = tl, !.y = y - up, !.x = x,
             !.curLine = cl, !.nline = nl, !.mark = mk, !.selStart = sel[1], !.selEnd = sel[2]]
<1>0. /\ d \in Editors /\ b \in Strings /\ Len(b) \in Nat
      BY LenProperties DEF InLines, Editors, Strings
<1>1. CASE first >= last
  <2>1. deleteRange(d, first, last, stale) = d
        BY <1>1 DEF deleteRange
  <2> QED BY <1>0, <2>1
<1>2. CASE ~(first >= last)
  <2>1. deleteRange(d, first, last, stale) = r
        BY <1>2 DEF deleteRange
  <2>2. to = last
    <3> DEFINE L == bufLen(d)
    <3>1. L \in Int /\ last \in Int /\ last <= L
          BY <1>0 DEF bufLen
    <3> HIDE DEF L
    <3>2. Min({last, L}) \in {last, L} /\ Min({last, L}) <= last
          BY <3>1, MaxOfTwo
    <3>3. to = Min({last, L})
          BY DEF L
    <3> HIDE DEF to
    <3> QED BY <3>1, <3>2, <3>3
  <2>3. from \in 0 .. first
    <3>1. first \in 0 .. Len(b)
          BY <1>0, <1>2
    <3>2. BlanksBefore(b, first) \in 0 .. first
          BY <1>0, <3>1, BlanksBeforeIs
    <3> HIDE DEF ends
    <3> QED BY <1>0, <3>2
  <2> HIDE DEF to, from
  <2>4. from \in Nat /\ to \in Nat /\ from < to /\ to <= Len(b)
        BY <1>0, <1>2, <2>2, <2>3
  <2> HIDE DEF fl, tl, cl, nl, mk, x, y, up, fb, sel
  <2>5. r.buffer = fb /\ r.selStart = sel[1] /\ r.selEnd = sel[2]
        BY <1>0 DEF Editors
  <2>6. Len(fb) = Len(b) - (to - from) /\ Len(fb) \in Nat
    <3> DEFINE e0 == <<>>
    <3>0. from \in 0 .. Len(b) /\ to \in from .. Len(b)
          BY <1>0, <2>4
    <3>1. fb = Splice(b, from, e0, to)
          BY <1>0, <3>0, Without DEF fb
    <3>2. /\ e0 \in Seq(Chars) /\ Len(e0) = 0 /\ b \in Seq(Chars)
          /\ from \in 0 .. Len(b) /\ to \in from .. Len(b)
          BY <1>0, <2>4, NoText DEF Strings
    <3> HIDE DEF e0, fb, b
    <3>3. Len(Splice(b, from, e0, to)) = from + Len(e0) + (Len(b) - to)
          BY <3>2, Spliced DEF Pieces3
    <3> QED BY <1>0, <2>4, <3>1, <3>2, <3>3
  <2>7. hasSelection(d) /\ d.selEnd <= Len(b) => sel[2] <= Len(fb)
    <3> DEFINE N == Len(b)
    <3>1. hasSelection(d) /\ d.selEnd <= N => SelWithout(d, from, to)[2] <= N - (to - from)
      <4>1. N \in Nat /\ to <= N /\ from <= to
            BY <1>0, <2>4
      <4> HIDE DEF N
      <4> QED BY <1>0, <2>4, <4>1, WithoutSelected
    <3> QED BY <2>6, <3>1 DEF sel
  <2>8. ~hasSelection(d) => sel[1] = d.selStart /\ sel[2] = d.selEnd
        BY DEF SelWithout, sel
  <2>9. Len(fb) <= Len(b)
        BY <1>0, <2>4, <2>6
  <2> HIDE DEF r
  <2> QED BY <2>1, <2>5, <2>6, <2>7, <2>8, <2>9
<1> QED BY <1>1, <1>2

(* How much longer insertBuffer() makes the text.                          *)
Grows(i, p) == i.extra + Len(p) - (i.point - i.s)

LEMMA InsertedSelected ==
  ASSUME NEW d, InLines(d), NEW p \in Strings, Len(p) > 0, NEW selectText,
         Len(insertBuffer(d, p, selectText).buffer) <= Reach
  PROVE  LET r == insertBuffer(d, p, selectText)
             i == Inserted(d, p)
         IN  /\ Len(r.buffer) \in Nat /\ Len(r.buffer) = Len(d.buffer) + Grows(i, p)
             /\ ~selectText /\ ~hasSelection(d) => r.selStart = d.selStart /\ r.selEnd = d.selEnd
             /\ ~selectText /\ hasSelection(d) /\ d.selEnd <= Len(d.buffer)
                  /\ ~(i.s < i.point /\ d.selStart <= i.point /\ d.selEnd > i.s)
                  => r.selEnd <= Len(r.buffer)
             /\ selectText /\ p[1] # EOL => r.selEnd <= Len(r.buffer)
<1> DEFINE i == Inserted(d, p)
           b == d.buffer
           lens == d.lenLines
           T == Starts(lens)
           y == d.y
           L == Len(p)
           toAdd == i.extra + L - (i.point - i.s)
           nl == Newlines(p)
           n == Cardinality(nl)
           tail == IF n = 0 THEN L ELSE L - Max(nl)
           first == i.pF + i.extra + (IF n = 0 THEN L + i.rest + i.crlf ELSE Min(nl))
           middle == [k \in 1 .. n - 1 |-> Nth(nl, k + 1) - Nth(nl, k)]
           new == IF n = 0 THEN <<first>>
                  ELSE <<first>> \o middle \o <<i.rest + i.crlf + tail>>
           fromLine == d.y + (IF i.allBlank THEN 0 ELSE 1)
           S == d.selStart
           E == d.selEnd
           u0 == i.s + i.extra
           u1 == U(i.s + toAdd)
           u2 == U(S + toAdd)
           u3 == U(E + toAdd)
           sel == IF selectText THEN <<u0, u1>>
                  ELSE IF ~hasSelection(d) THEN <<S, E>>
                  ELSE IF i.point < S THEN <<u2, u3>>
                  ELSE IF i.point < E THEN <<S, u3>>
                  ELSE <<S, E>>
           mk == IF d.mark > i.point THEN U(d.mark + toAdd) ELSE d.mark
           ln == IF d.nline >= fromLine THEN d.nline + n ELSE d.nline
           x == IF n = 0 THEN d.x + L ELSE tail
           cl == d.curLine + Total(new, 0, n)
           fb == Part(b, 0, i.s) \o Blanks(i.extra) \o p \o Part(b, i.point, Len(b))
           fl == Part(lens, 0, y) \o new \o Part(lens, y + 1, Len(lens))
           r == [d EXCEPT
             !.buffer = fb, !.lenLines = fl, !.totalLines = d.totalLines + n,
             !.y = y + n, !.curLine = cl, !.x = x,
             !.selStart = sel[1], !.selEnd = sel[2], !.mark = mk, !.nline = ln]
           N == Len(b)
           M == Len(r.buffer)
<1>1. insertBuffer(d, p, selectText) = r
      BY DEF insertBuffer
<1>2. /\ d \in Editors /\ b \in Seq(Chars) /\ N \in Nat /\ S \in Nat /\ E \in Nat
  <2>1. d \in Editors /\ b \in Seq(Chars)
        BY DEF InLines, Editors, Strings
  <2> QED BY <2>1, LenProperties, EndsInLine
<1>3. /\ i.s \in Nat /\ i.point \in Nat /\ i.extra \in Nat /\ i.s <= i.point /\ i.point <= N
  <2>1. Place(i, d, T, y)
        BY InsertedIs
  <2>2. T[y + 1] <= N /\ T[y + 1] \in Nat
    <3>1. y + 1 \in 0 .. d.totalLines + 1 /\ Cuts(b, T, d.totalLines)
          BY DEF InLines, Editors
    <3> QED BY <3>1, CutsGoUp DEF Cuts
  <2> HIDE DEF i, T, b, N
  <2>3. i.s \in Nat /\ i.point \in Nat /\ i.extra \in Nat /\ i.s <= i.point /\ i.point <= T[y + 1]
        BY <2>1 DEF Place
  <2> DEFINE t == T[y + 1]
  <2> HIDE DEF t
  <2> QED BY <1>2, <2>2, <2>3 DEF t
<1>4. p[1] # EOL => i.s = i.point
      BY DEF Inserted
<1> HIDE DEF i
<1>5. L \in Nat /\ L > 0 /\ p \in Seq(Chars)
      BY LenProperties DEF Strings
<1>6. toAdd = Grows(i, p)
      BY DEF Grows
<1> HIDE DEF fl, x, mk, ln, cl, n, new, sel, fb
<1>7. r.buffer = fb /\ r.selStart = sel[1] /\ r.selEnd = sel[2]
      BY <1>2 DEF Editors
<1>8. Len(fb) = N + toAdd /\ Len(fb) \in Nat
  <2> DEFINE A == Part(b, 0, i.s)
             e0 == Blanks(i.extra)
             Z == Part(b, i.point, N)
  <2>1. e0 \in Seq(Chars) /\ Len(e0) = i.extra
        BY <1>3, BlanksAre DEF Strings
  <2>2. A \in Seq(Chars) /\ Len(A) = i.s /\ Z \in Seq(Chars) /\ Len(Z) = N - i.point
    <3>1. 0 \in 0 .. N /\ i.s \in 0 .. N /\ i.point \in 0 .. N /\ N \in i.point .. N
          BY <1>2, <1>3
    <3>2. Len(A) = i.s - 0 /\ A \in Seq(Chars)
          BY <1>2, <3>1, PartOf
    <3>3. Len(Z) = N - i.point /\ Z \in Seq(Chars)
          BY <1>2, <3>1, PartOf
    <3> HIDE DEF A, Z
    <3> QED BY <1>3, <3>2, <3>3
  <2>3. fb = ((A \o e0) \o p) \o Z
        BY DEF A, e0, Z, fb
  <2> HIDE DEF A, e0, Z
  <2>4. A \o e0 \in Seq(Chars) /\ Len(A \o e0) = Len(A) + Len(e0)
        BY <2>1, <2>2, Concat
  <2>5. (A \o e0) \o p \in Seq(Chars) /\ Len((A \o e0) \o p) = Len(A \o e0) + Len(p)
        BY <1>5, <2>4, Concat
  <2>6. Len(((A \o e0) \o p) \o Z) = Len((A \o e0) \o p) + Len(Z)
        BY <2>2, <2>5, Concat
  <2>7. Len(fb) = i.s + i.extra + L + (N - i.point)
        BY <2>1, <2>2, <2>3, <2>4, <2>5, <2>6
  <2> HIDE DEF fb
  <2> HIDE DEF N, L
  <2> QED BY <1>2, <1>3, <1>5, <2>7
<1> HIDE DEF r
<1>9. M = N + toAdd /\ M \in Nat /\ M <= Reach
      BY <1>1, <1>7, <1>8
<1>10. sel = IF selectText THEN <<u0, u1>>
             ELSE IF ~hasSelection(d) THEN <<S, E>>
             ELSE IF i.point < S THEN <<u2, u3>>
             ELSE IF i.point < E THEN <<S, u3>>
             ELSE <<S, E>>
       BY DEF sel
<1>11. /\ toAdd = i.extra + L - (i.point - i.s)
       /\ u1 = U(i.s + toAdd) /\ u3 = U(E + toAdd)
       OBVIOUS
<1> HIDE DEF toAdd, u0, u1, u2, u3, M, N, L, S, E
<1>12. toAdd \in Int
       BY <1>3, <1>5, <1>11
<1>13. ~selectText /\ ~hasSelection(d) => r.selStart = S /\ r.selEnd = E
       BY <1>7, <1>10
<1> DEFINE at == i.s
           pt == i.point
           ex == i.extra
<1>a. /\ N \in Nat /\ M \in Nat /\ L \in Nat /\ L > 0 /\ at \in Nat /\ pt \in Nat /\ ex \in Nat
      /\ at <= pt /\ pt <= N /\ toAdd = ex + L - (pt - at) /\ M = N + toAdd /\ M <= Reach
      /\ S \in Nat /\ E \in Nat /\ Reach \in Nat /\ toAdd \in Int
      BY <1>2, <1>3, <1>5, <1>9, <1>11, <1>12, SmallNumbers
<1> HIDE DEF at, pt, ex
<1>14. ASSUME ~selectText, hasSelection(d), E <= N,
              ~(i.s < i.point /\ S <= i.point /\ E > i.s)
       PROVE  r.selEnd <= M
  <2>0. S < E
        BY <1>14 DEF hasSelection, S, E
  <2>1. CASE i.point < E
    <3>1. sel[2] = u3
          BY <1>10, <1>14, <2>1
    <3>2. E + toAdd \in Nat /\ E + toAdd <= Reach /\ E + toAdd <= M
      <4>1. pt < E /\ E <= N
            BY <1>14, <2>1 DEF pt
      <4> QED BY ONLY <1>a, <4>1
    <3>3. u3 = E + toAdd
          BY <1>11, <3>2, SmallNumbers
    <3> QED BY <1>7, <3>1, <3>2, <3>3
  <2>2. CASE ~(i.point < E)
    <3>1. ~(i.point < S)
          BY <1>2, <1>3, <2>0, <2>2
    <3>2. sel[2] = E
          BY <1>10, <1>14, <2>2, <3>1
    <3>3. E <= M
      <4>1. ~(pt < E) /\ E <= N /\ S < E /\ ~(at < pt /\ S <= pt /\ E > at)
            BY <1>14, <2>0, <2>2 DEF at, pt
      <4> QED BY ONLY <1>a, <4>1
    <3> QED BY <1>7, <3>2, <3>3
  <2> QED BY <2>1, <2>2
<1>15. ASSUME selectText, p[1] # EOL PROVE r.selEnd <= M
  <2>1. sel[2] = u1
        BY <1>10, <1>15
  <2>2. i.s + toAdd \in Nat /\ i.s + toAdd <= Reach /\ i.s + toAdd <= M
    <3>1. at = pt
          BY <1>4, <1>15 DEF at, pt
    <3>2. at + toAdd \in Nat /\ at + toAdd <= Reach /\ at + toAdd <= M
          BY ONLY <1>a, <3>1
    <3> QED BY <3>2 DEF at
  <2>3. u1 = i.s + toAdd
        BY <1>11, <2>2, SmallNumbers
  <2> QED BY <1>7, <2>1, <2>2, <2>3
<1> QED BY <1>1, <1>6, <1>9, <1>13, <1>14, <1>15 DEF M, N, S, E, i

(* Lengths that are the sums of two others.                                *)
LEMMA Lengthened ==
  ASSUME NEW N \in Nat, NEW a \in Seq(Nat), NEW b \in Seq(Nat), NEW c \in Seq(Nat),
         Len(a) = N, Len(b) = N, Len(c) = N, \A k \in 1 .. N : c[k] = a[k] + b[k]
  PROVE  \A k \in 0 .. N : /\ Starts(c)[k] = Starts(a)[k] + Starts(b)[k]
                           /\ Starts(a)[k] \in Nat /\ Starts(b)[k] \in Nat
<1> DEFINE A == Starts(a)
           B == Starts(b)
           W == [k \in 0 .. N |-> A[k] + B[k]]
<1>1. /\ A \in [0 .. N -> Nat] /\ A[0] = 0 /\ \A k \in 1 .. N : A[k] = A[k - 1] + a[k]
      /\ B \in [0 .. N -> Nat] /\ B[0] = 0 /\ \A k \in 1 .. N : B[k] = B[k - 1] + b[k]
      BY StartsSum DEF Summed
<1>2. \A k \in 1 .. N : a[k] \in Nat /\ b[k] \in Nat
      BY ElementOfSeq
<1> HIDE DEF A, B
<1>3. Summed(c, W)
  <2>1. W \in [0 .. N -> Nat]
        BY <1>1
  <2>2. W[0] = 0
        BY <1>1
  <2>3. ASSUME NEW k \in 1 .. N PROVE W[k] = W[k - 1] + c[k]
    <3> DEFINE j == k - 1
    <3>1. j \in 0 .. N /\ k \in 0 .. N
          OBVIOUS
    <3>2. A[k] = A[j] + a[k] /\ B[k] = B[j] + b[k] /\ A[j] \in Nat /\ B[j] \in Nat
          BY <1>1, <3>1
    <3> HIDE DEF j
    <3>3. W[k] = A[k] + B[k] /\ W[j] = A[j] + B[j]
          BY <3>1
    <3> HIDE DEF W
    <3>a. c[k] = a[k] + b[k] /\ a[k] \in Nat /\ b[k] \in Nat
          BY <1>2
    <3>4. W[k] = W[j] + c[k]
          BY ONLY <3>a, <3>2, <3>3
    <3> QED BY <3>4 DEF j
  <2> QED BY <2>1, <2>2, <2>3 DEF Summed
<1>4. Starts(c) = W
      BY <1>3, StartsAre
<1> QED BY <1>1, <1>4 DEF A, B

LEMMA Counted ==
  ASSUME NEW n \in Nat, NEW S, S \subseteq 0 .. n, NEW ones \in Seq(Nat), Len(ones) = n + 1,
         \A k \in 1 .. n + 1 : ones[k] = IF k - 1 \in S THEN 1 ELSE 0
  PROVE  Starts(ones)[n + 1] = Cardinality(S)
<1> DEFINE below(k) == {j \in S : j < k}
           W == [k \in 0 .. n + 1 |-> Cardinality(below(k))]
<1>0. \A j \in S : j \in Nat /\ j < n + 1
  <2> SUFFICES ASSUME NEW j \in S PROVE j \in Nat /\ j < n + 1
      OBVIOUS
  <2>1. j \in 0 .. n
        OBVIOUS
  <2> QED BY ONLY <2>1, n \in Nat
<1>1. IsFiniteSet(S)
  <2>1. 0 \in Int /\ n \in Int
        OBVIOUS
  <2>2. IsFiniteSet(0 .. n)
        BY ONLY <2>1, FS_Interval
  <2>3. S \in SUBSET (0 .. n)
        OBVIOUS
  <2> QED BY ONLY <2>2, <2>3, FS_Subset
<1>2. ASSUME NEW k PROVE IsFiniteSet(below(k)) /\ Cardinality(below(k)) \in Nat
  <2>1. below(k) \in SUBSET S
        OBVIOUS
  <2> HIDE DEF below
  <2>2. IsFiniteSet(below(k))
        BY <1>1, <2>1, FS_Subset
  <2> QED BY <2>2, FS_CardinalityType
<1>3. Summed(ones, W)
  <2>1. W \in [0 .. n + 1 -> Nat]
    <3> HIDE DEF below
    <3> QED BY <1>2
  <2>2. W[0] = 0
    <3>1. below(0) = {}
          BY ONLY <1>0
    <3>2. W[0] = Cardinality(below(0))
          OBVIOUS
    <3> HIDE DEF W, below
    <3> QED BY <3>1, <3>2, FS_EmptySet
  <2>3. ASSUME NEW k \in 1 .. n + 1 PROVE W[k] = W[k - 1] + ones[k]
    <3> DEFINE j == k - 1
               P == below(k)
               Q == below(j)
    <3>0. k \in Nat /\ j \in Nat /\ k = j + 1
          OBVIOUS
    <3>1. W[k] = Cardinality(P) /\ W[j] = Cardinality(Q)
          OBVIOUS
    <3>2. Cardinality(P) = Cardinality(Q) + ones[k]
      <4>1. CASE j \in S
        <5>1. P = Q \cup {j} /\ j \notin Q
              BY ONLY <1>0, <3>0, <4>1
        <5>2. IsFiniteSet(Q) /\ Cardinality(Q) \in Nat
              BY <1>2
        <5> HIDE DEF P, Q
        <5>3. Cardinality(P) = Cardinality(Q) + 1
              BY <5>1, <5>2, FS_AddElement
        <5> QED BY <4>1, <5>3
      <4>2. CASE j \notin S
        <5>1. P = Q
              BY ONLY <1>0, <3>0, <4>2
        <5>2. Cardinality(Q) \in Nat
              BY <1>2
        <5> HIDE DEF P, Q
        <5> QED BY <4>2, <5>1, <5>2
      <4> QED BY <4>1, <4>2
    <3> QED BY <3>1, <3>2
  <2> QED BY <2>1, <2>2, <2>3 DEF Summed
<1>4. Starts(ones) = W
      BY <1>3, StartsAre
<1>5. below(n + 1) = S
      BY ONLY <1>0
<1> HIDE DEF below
<1> QED BY <1>4, <1>5

LEMMA LengthIs ==
  ASSUME NEW d, InLines(d)
  PROVE  Len(d.buffer) = Starts(d.lenLines)[d.totalLines + 1] /\ Len(d.buffer) \in Nat
<1>1. Cuts(d.buffer, Starts(d.lenLines), d.totalLines)
      BY DEF InLines
<1> QED BY <1>1, LenProperties DEF Cuts, Strings

LEMMA IndentedSelected ==
  ASSUME NEW f, InLines(f), f.selEnd + Len(f.buffer) + 1 \in Offsets, f.selEnd <= Len(f.buffer)
  PROVE  IndentBlock(f).selEnd <= Len(IndentBlock(f).buffer)
<1> DEFINE d == JumpLineStartSelection(f)
           B == BlockLines(d)
           before(k) == Cardinality({j \in B : j <= k})
           n == d.totalLines
           jb == Joined([k \in DOMAIN AllLines(d) |->
                          (IF k - 1 \in B THEN <<Blank>> ELSE <<>>) \o LineAt(d, k - 1)])
           lens == [k \in DOMAIN d.lenLines |-> d.lenLines[k] + (IF k - 1 \in B THEN 1 ELSE 0)]
           s == d.selEnd + Cardinality(B)
           mk == IF LineOf(d, d.mark) = {} THEN d.mark ELSE U(d.mark + before(Max(LineOf(d, d.mark))))
           r == [d EXCEPT !.buffer = jb, !.lenLines = lens, !.selEnd = s, !.mark = mk]
<1>1. IndentBlock(f) = r
      BY DEF IndentBlock
<1>2. InLines(d) /\ d.selEnd = f.selEnd /\ d.buffer = f.buffer
      BY JumpLines
<1>3. InLines(r)
      BY <1>1, IndentBlockLines
<1> HIDE DEF d
<1>4. /\ d \in Editors /\ n \in Nat /\ d.lenLines \in Seq(Nat) /\ Len(d.lenLines) = n + 1
      /\ d.y \in Nat /\ d.selEnd \in Nat
      BY <1>2, Unsigneds DEF InLines, Editors
<1>5. B \subseteq 0 .. n /\ Cardinality(B) \in Nat
  <2>1. B \subseteq d.y .. n /\ Cardinality(B) \in Nat
        BY <1>2, BlockIs
  <2> HIDE DEF B
  <2> QED BY <1>4, <2>1
<1> HIDE DEF B, jb, mk
<1>6. r.lenLines = lens /\ r.totalLines = n /\ r.selEnd = s
      BY <1>4 DEF Editors
<1>7. lens \in Seq(Nat) /\ Len(lens) = n + 1
      BY <1>3, <1>6 DEF InLines, Editors
<1> DEFINE ones == [k \in 1 .. n + 1 |-> IF k - 1 \in B THEN 1 ELSE 0]
<1>8. ones \in Seq(Nat) /\ Len(ones) = n + 1
  <2>1. ones \in [1 .. n + 1 -> Nat]
        OBVIOUS
  <2>2. n + 1 \in Nat
        BY <1>4
  <2> HIDE DEF ones
  <2> QED BY <2>1, <2>2, IsASeq
<1>9. \A k \in 1 .. n + 1 : ones[k] = IF k - 1 \in B THEN 1 ELSE 0
      OBVIOUS
<1>10. \A k \in 1 .. n + 1 : lens[k] = d.lenLines[k] + ones[k]
  <2>1. DOMAIN d.lenLines = 1 .. n + 1
        BY <1>4, LenProperties
  <2> QED BY <2>1
<1> HIDE DEF ones, lens, r, n
<1> DEFINE N == n + 1
<1>11. Starts(lens)[N] = Starts(d.lenLines)[N] + Starts(ones)[N]
  <2>1. N \in Nat /\ N \in 0 .. N
        BY <1>4
  <2>2. \A k \in 1 .. N : lens[k] = d.lenLines[k] + ones[k]
        BY <1>10
  <2>3. d.lenLines \in Seq(Nat) /\ Len(d.lenLines) = N /\ lens \in Seq(Nat) /\ Len(lens) = N
        /\ ones \in Seq(Nat) /\ Len(ones) = N
        BY <1>4, <1>7, <1>8
  <2> HIDE DEF N
  <2> QED BY ONLY <2>1, <2>2, <2>3, Lengthened
<1>12. Starts(ones)[N] = Cardinality(B)
       BY <1>4, <1>5, <1>8, <1>9, Counted
<1>13. Len(r.buffer) = Starts(lens)[N]
  <2>1. Len(r.buffer) = Starts(r.lenLines)[r.totalLines + 1]
        BY <1>3, LengthIs
  <2> QED BY <1>6, <2>1
<1>14. Len(d.buffer) = Starts(d.lenLines)[N] /\ Len(d.buffer) \in Nat
       BY <1>2, LengthIs DEF n
<1>15. Len(r.buffer) = Len(d.buffer) + Cardinality(B)
       BY <1>11, <1>12, <1>13, <1>14
<1>16. r.selEnd <= Len(r.buffer)
  <2> DEFINE L == Len(d.buffer)
             M == Len(r.buffer)
             c == Cardinality(B)
             q == d.selEnd
  <2>1. L \in Nat /\ M = L + c /\ c \in Nat /\ q \in Nat /\ q <= L /\ r.selEnd = q + c
        BY <1>2, <1>4, <1>5, <1>6, <1>14, <1>15
  <2> HIDE DEF L, M, c, q
  <2>2. r.selEnd <= M
        BY ONLY <2>1
  <2> QED BY <2>2 DEF M
<1> QED BY <1>1, <1>16

LEMMA UnIndentedSelected ==
  ASSUME NEW f, InLines(f), f.selEnd <= Len(f.buffer), Len(f.buffer) <= Reach,
         use = "select", ~InIndentation(JumpLineStartSelection(f))
  PROVE  UnIndentBlock(f).selEnd <= Len(UnIndentBlock(f).buffer)
<1> DEFINE d == JumpLineStartSelection(f)
           B == BlockLines(d)
           n == d.totalLines
           eat(k) == IF k \in B THEN IsUnIndentable(d, k) ELSE 0
           eats == [j \in DOMAIN d.lenLines |-> eat(j - 1)]
           eated(k) == Total(eats, 0, k)
           lineOf == Max(LineOf(d, d.mark))
           jb == Joined([k \in DOMAIN AllLines(d) |->
                          Part(LineAt(d, k - 1), eat(k - 1), d.lenLines[k])])
           lens == [k \in DOMAIN d.lenLines |-> d.lenLines[k] - eat(k - 1)]
           s == U(d.selEnd - eated(n + 1))
           mk == IF LineOf(d, d.mark) = {} THEN d.mark
                 ELSE U(d.mark - (eated(lineOf) + (IF d.mark > LineStart(d, lineOf)
                                                   THEN eat(lineOf) ELSE 0)))
           r == [d EXCEPT !.buffer = jb, !.lenLines = lens, !.selEnd = s, !.mark = mk]
<1>1. UnIndentBlock(f) = r
      BY DEF UnIndentBlock
<1>2. InLines(d) /\ d.selEnd = f.selEnd /\ d.buffer = f.buffer
      BY JumpLines
<1>3. InLines(r)
      BY <1>1, UnIndentBlockLines
<1>a. ~InIndentation(d)
      OBVIOUS
<1> HIDE DEF d
<1>4. /\ d \in Editors /\ n \in Nat /\ d.lenLines \in Seq(Nat) /\ Len(d.lenLines) = n + 1
      /\ d.y \in Nat /\ d.selEnd \in Nat
      BY <1>2, Unsigneds DEF InLines, Editors
<1>5. DOMAIN d.lenLines = 1 .. n + 1
      BY <1>4, LenProperties
<1>6. \A k \in 0 .. n : eat(k) \in Nat
  <2> TAKE k \in 0 .. n
  <2> DEFINE m == IsUnIndentable(d, k)
             L == Len(LineAt(d, k))
  <2>1. m \in 0 .. L
        BY <1>2, UnIndentable
  <2>2. L \in Nat
        BY <1>2, LineAtIs
  <2> HIDE DEF m, L, B
  <2>3. eat(k) = IF k \in B THEN m ELSE 0
        BY DEF m
  <2> QED BY <2>1, <2>2, <2>3
<1>7. eats \in Seq(Nat) /\ Len(eats) = n + 1
  <2>1. eats = [k \in 1 .. n + 1 |-> eat(k - 1)]
        BY <1>5
  <2>2. \A k \in 1 .. n + 1 : eat(k - 1) \in Nat
    <3> TAKE k \in 1 .. n + 1
    <3>1. k - 1 \in 0 .. n
          BY <1>4
    <3> HIDE DEF eat
    <3> QED BY <1>6, <3>1
  <2> HIDE DEF eats, eat
  <2>3. eats \in [1 .. n + 1 -> Nat]
        BY <2>1, <2>2
  <2>4. n + 1 \in Nat
        BY <1>4
  <2> QED BY <2>3, <2>4, IsASeq
<1>b. \A k \in 1 .. n + 1 : eats[k] = eat(k - 1)
  <2> HIDE DEF eat
  <2> QED BY <1>5
<1>c. \A k \in 1 .. n + 1 : lens[k] = d.lenLines[k] - eat(k - 1)
  <2> HIDE DEF eat
  <2> QED BY <1>5
<1> HIDE DEF jb, mk, eats, lens, s
<1>8. r.lenLines = lens /\ r.totalLines = n /\ r.selEnd = s
      BY <1>4 DEF Editors
<1>9. lens \in Seq(Nat) /\ Len(lens) = n + 1
      BY <1>3, <1>8 DEF InLines, Editors
<1> DEFINE N == n + 1
           T == Starts(d.lenLines)
           C == Starts(eats)
           W == Starts(lens)
           E == d.selEnd
<1>10. \A k \in 0 .. N : T[k] = W[k] + C[k] /\ W[k] \in Nat /\ C[k] \in Nat
  <2>1. N \in Nat
        BY <1>4
  <2>2. \A k \in 1 .. N : d.lenLines[k] = lens[k] + eats[k]
    <3> TAKE k \in 1 .. N
    <3>1. k \in 1 .. Len(d.lenLines) /\ k \in 1 .. n + 1 /\ k - 1 \in 0 .. n
          BY <1>4
    <3>2. d.lenLines[k] \in Nat /\ eat(k - 1) \in Nat
      <4> HIDE DEF eat
      <4> QED BY <1>4, <1>6, <3>1, ElementOfSeq
    <3> HIDE DEF eat
    <3> QED BY <1>b, <1>c, <3>1, <3>2
  <2>3. d.lenLines \in Seq(Nat) /\ Len(d.lenLines) = N /\ lens \in Seq(Nat) /\ Len(lens) = N
        /\ eats \in Seq(Nat) /\ Len(eats) = N
        BY <1>4, <1>7, <1>9
  <2> HIDE DEF N
  <2> QED BY ONLY <2>1, <2>2, <2>3, Lengthened
<1>11. /\ \A k \in 0 .. N : Total(d.lenLines, 0, k) = T[k] /\ eated(k) = C[k]
       /\ C[0] = 0
       /\ \A k \in 1 .. N : C[k] = C[k - 1] + eats[k]
  <2>1. 0 .. Len(d.lenLines) = 0 .. N /\ 0 .. Len(eats) = 0 .. N /\ 1 .. Len(eats) = 1 .. N
        BY <1>4, <1>7
  <2> HIDE DEF N
  <2> QED BY <1>4, <1>7, <2>1, StartsSum DEF Summed
<1> HIDE DEF T, C, W
<1>12. \A k \in 0 .. N : C[k] <= E
  <2> DEFINE S == {k \in 0 .. N : C[k] <= E}
  <2>1. 0 \in S
        BY <1>4, <1>11
  <2>2. \A k \in 0 .. N - 1 : k \in S => k + 1 \in S
    <3> SUFFICES ASSUME NEW k \in 0 .. N - 1, C[k] <= E PROVE C[k + 1] <= E /\ k + 1 \in 0 .. N
        OBVIOUS
    <3> DEFINE j == k + 1
               m == IsUnIndentable(d, k)
               t == T[k]
    <3>1. j \in 1 .. N /\ j \in 0 .. N /\ j - 1 = k /\ k \in 0 .. n /\ k \in 0 .. N
          BY <1>4
    <3> HIDE DEF j
    <3>2. C[j] = C[k] + eat(k) /\ C[k] \in Nat /\ C[k] <= t /\ t \in Nat
      <4>1. C[j] = C[j - 1] + eats[j] /\ eats[j] = eat(j - 1)
            BY <1>11, <1>b, <3>1
      <4> DEFINE w == W[k]
                 c == C[k]
      <4>2. t = w + c /\ w \in Nat /\ c \in Nat
            BY <1>10, <3>1
      <4>3. c <= t /\ t \in Nat
        <5> HIDE DEF w, c, t
        <5> QED BY <4>2
      <4> HIDE DEF eat
      <4> QED BY <3>1, <4>1, <4>2, <4>3
    <3>3. eat(k) = 0 \/ (k \in B /\ eat(k) = m)
          OBVIOUS
    <3>4. k \in B => t < E /\ ~(t < E /\ E < t + m)
      <4> SUFFICES ASSUME k \in B PROVE t < E /\ ~(t < E /\ E < t + m)
          OBVIOUS
      <4>1. LineStart(d, k) = t
            BY <1>11, <3>1 DEF LineStart
      <4>2. LineStart(d, k) < E
            BY DEF BlockLines
      <4>3. ~(LineStart(d, k) < E /\ E < LineStart(d, k) + m)
            BY <1>a DEF InIndentation
      <4> QED BY <4>1, <4>2, <4>3
    <3>5. eat(k) \in Nat
      <4> HIDE DEF eat
      <4> QED BY <1>6, <3>1
    <3> HIDE DEF m, t, eat, B, E
    <3>6. E \in Nat
          BY <1>4 DEF E
    <3>7. C[j] <= E
      <4>1. CASE eat(k) = 0
            BY <3>2, <3>6, <4>1
      <4>2. CASE k \in B /\ eat(k) = m
        <5> DEFINE q == eat(k)
                   c == C[k]
        <5>1. q \in Nat /\ q = m /\ t < E /\ ~(E < t + m) /\ C[j] = c + q /\ c \in Nat /\ c <= t /\ t \in Nat
              BY <3>2, <3>4, <3>5, <4>2
        <5> HIDE DEF q, c
        <5> QED BY <3>6, <5>1
      <4> QED BY <3>3, <4>1, <4>2
    <3> QED BY <3>1, <3>7 DEF j
  <2>3. N \in Nat
        BY <1>4
  <2> HIDE DEF S, N
  <2>4. \A k \in 0 .. N : k \in S
        BY ONLY <2>1, <2>2, <2>3, Turns
  <2> QED BY <2>4 DEF S
<1>13. N \in 0 .. N
       BY <1>4
<1>14. Len(r.buffer) = W[N]
  <2>1. Len(r.buffer) = Starts(r.lenLines)[r.totalLines + 1]
        BY <1>3, LengthIs
  <2> QED BY <1>8, <2>1 DEF W
<1>15. Len(d.buffer) = T[N] /\ Len(d.buffer) \in Nat
       BY <1>2, LengthIs DEF T
<1>16. r.selEnd <= Len(r.buffer)
  <2> DEFINE L == Len(d.buffer)
             M == Len(r.buffer)
             c == C[N]
             v == E - c
  <2>1. /\ L = M + c /\ M \in Nat /\ c \in Nat /\ L \in Nat /\ c <= E /\ E \in Nat /\ E <= L /\ L <= Reach
        BY <1>2, <1>4, <1>10, <1>12, <1>13, <1>14, <1>15
  <2>2. r.selEnd = U(v)
        BY <1>8, <1>11, <1>13 DEF s
  <2>3. Reach \in Nat
        BY SmallNumbers
  <2> HIDE DEF L, M, c, E
  <2>4. v \in Nat /\ v <= Reach /\ v <= M
        BY ONLY <2>1, <2>3
  <2> HIDE DEF v
  <2>5. U(v) = v
        BY <2>4, SmallNumbers
  <2> QED BY <2>2, <2>4, <2>5 DEF M
<1> QED BY <1>1, <1>16

-----------------------------------------------------------------------------
(* The commands that leave the line in the buffer.                         *)
LEMMA FlushHas ==
  ASSUME Chosen
  PROVE  LET f == flushLine(e)
         IN  /\ Resting(f) /\ InLines(f) /\ Good(f)
             /\ hasSelection(f) => f.selEnd <= Len(f.buffer)
             /\ Len(f.buffer) \in Nat /\ Len(f.buffer) + e.x + 2 <= Reach /\ e.x \in Nat
             /\ f.y = e.y /\ f.totalLines = e.totalLines /\ f.curLine = e.curLine /\ f.x = e.x
             /\ f.selStart \in Nat /\ f.selEnd \in Nat /\ f \in Editors
<1> DEFINE f == flushLine(e)
<1>1. /\ Resting(f) /\ InLines(f) /\ Good(f) /\ Good(e) /\ Selected(e) /\ Len(Text(e)) + 2 <= Reach
      /\ Len(f.buffer) \in Nat /\ Len(f.buffer) + e.x + 2 <= Reach /\ e.x \in Nat
      /\ f.y = e.y /\ f.totalLines = e.totalLines /\ f.curLine = e.curLine /\ f.x = e.x
      BY WithinReach DEF Chosen
<1>2. hasSelection(f) => f.selEnd <= Len(f.buffer)
      BY <1>1, FlushSelected
<1> HIDE DEF f
<1>3. f.selStart \in Nat /\ f.selEnd \in Nat /\ f \in Editors
      BY <1>1, EndsInLine DEF InLines
<1> QED BY <1>1, <1>2, <1>3 DEF f

LEMMA RestBecomes ==
  ASSUME Chosen, NEW r, NEW bad, Becomes(r, bad), Resting(r),
         hasSelection(flushLine(e)) /\ ~bad => r.selEnd <= Len(r.buffer),
         ~hasSelection(flushLine(e)) => r.selEnd = flushLine(e).selEnd
  PROVE  SelStep
<1> DEFINE f == flushLine(e)
<1>1. Good(r) /\ ~r.editing
      BY DEF Resting, Good, Reaches
<1>2. ASSUME Unmoved(r, bad) PROVE Selected(r)
  <2>1. ~bad /\ (Forgotten(f) => Text(r) = Text(e))
        BY <1>2 DEF Unmoved
  <2>2. CASE hasSelection(f)
        BY <2>1, <2>2, RestSelected
  <2>3. CASE ~hasSelection(f)
    <3>1. SelTo(r) = f.selEnd
          BY <1>1, <2>3 DEF SelTo
    <3> HIDE DEF f
    <3>2. SelTo(r) <= Len(Text(r))
          BY <1>1, <2>1, <2>3, <3>1, EmptyEnd DEF f
    <3> QED BY <1>1, <3>2 DEF Selected
  <2> QED BY <2>2, <2>3
<1> QED BY <1>1, <1>2, BecomesStep

LEMMA RestSets ==
  ASSUME NEW r, Sets(r), Resting(r), r.selEnd <= Len(r.buffer)
  PROVE  SelStep
<1>1. Selected(r) /\ Good(r)
      BY RestSelected
<1> QED BY <1>1, SetsStep

LEMMA InLineOffset ==
  ASSUME NEW f, InLines(f), NEW k \in 0 .. f.totalLines,
         NEW o \in 0 .. Starts(f.lenLines)[k] + LenWithoutCRLF(f, k)
  PROVE  o \in 0 .. Len(f.buffer)
<1>1. Inner(f.buffer, Starts(f.lenLines), f.totalLines, o)
      BY InnerEnds
<1> QED BY <1>1 DEF Inner

LEMMA DeletingSel ==
  ASSUME Chosen, NEW first \in Nat, NEW k \in 0 .. flushLine(e).totalLines,
         NEW last \in 0 .. Starts(flushLine(e).lenLines)[k] + LenWithoutCRLF(flushLine(e), k),
         NEW stale, NEW bad, Becomes(deleteRange(flushLine(e), first, last, stale), bad)
  PROVE  SelStep
<1> DEFINE f == flushLine(e)
           r == deleteRange(f, first, last, stale)
<1>1. Resting(f) /\ InLines(f) /\ (hasSelection(f) => f.selEnd <= Len(f.buffer))
      BY FlushHas
<1>2. last \in 0 .. Starts(f.lenLines)[k] + LenWithoutCRLF(f, k) /\ k \in 0 .. f.totalLines
      OBVIOUS
<1>3. Becomes(r, bad)
      OBVIOUS
<1> HIDE DEF f
<1>4. last \in 0 .. Len(f.buffer)
      BY <1>1, <1>2, InLineOffset
<1>5. Resting(r)
      BY <1>1, <1>2, DeleteGood
<1>6. /\ hasSelection(f) /\ f.selEnd <= Len(f.buffer) => r.selEnd <= Len(r.buffer)
      /\ ~hasSelection(f) => r.selEnd = f.selEnd
      BY <1>1, <1>4, DeletedSelected
<1> HIDE DEF r
<1> QED BY <1>1, <1>3, <1>5, <1>6, RestBecomes DEF f

LEMMA InsertingSel ==
  ASSUME Chosen, NEW p \in Strings, Len(p) > 0,
         Becomes(insertBuffer(flushLine(e), p, FALSE), StaysBehind(flushLine(e), p))
  PROVE  SelStep
<1> DEFINE f == flushLine(e)
           no == FALSE
           r == insertBuffer(f, p, no)
           bad == StaysBehind(f, p)
           i == Inserted(f, p)
<1>1. Resting(f) /\ InLines(f) /\ (hasSelection(f) => f.selEnd <= Len(f.buffer))
      BY FlushHas
<1>2. Becomes(r, bad)
      OBVIOUS
<1>3. ~no
      OBVIOUS
<1> HIDE DEF f, no
<1>4. InLines(r) /\ SameLine(r, f)
      BY <1>1, <1>3, insertBufferLines
<1>5. Resting(r)
  <2> HIDE DEF r
  <2> QED BY <1>1, <1>4, RestGood
<1>6. Len(r.buffer) <= Reach
  <2>1. bufLen(r) <= MaxLen
        BY <1>2 DEF Becomes, Fits
  <2>2. MaxLen \in Nat /\ MaxColumn \in Nat
        BY TextAssumption
  <2>3. Len(r.buffer) \in Nat
    <3> HIDE DEF r
    <3> QED BY <1>4, LengthIs
  <2> HIDE DEF r
  <2> QED BY <2>1, <2>2, <2>3 DEF bufLen, Reach
<1>7. /\ ~hasSelection(f) => r.selEnd = f.selEnd
      /\ hasSelection(f) /\ f.selEnd <= Len(f.buffer)
           /\ ~(i.s < i.point /\ f.selStart <= i.point /\ f.selEnd > i.s) => r.selEnd <= Len(r.buffer)
      BY <1>1, <1>3, <1>6, InsertedSelected
<1>8. hasSelection(f) /\ ~bad => r.selEnd <= Len(r.buffer)
  <2>1. hasSelection(f) /\ ~bad => ~(i.s < i.point /\ f.selStart <= i.point /\ f.selEnd > i.s)
        BY DEF StaysBehind
  <2> HIDE DEF bad, r, i
  <2> QED BY <1>1, <1>7, <2>1
<1> HIDE DEF r, bad, i
<1> QED BY <1>2, <1>5, <1>7, <1>8, RestBecomes DEF f

LEMMA InsertsSel ==
  ASSUME Chosen, newLine \/ \E p \in Clips : insertText(p)
  PROVE  SelStep
<1> DEFINE eol == <<EOL>>
           f == flushLine(e)
           no == FALSE
<1>1. \/ Becomes(insertBuffer(f, eol, no), StaysBehind(f, eol))
      \/ \E p \in Clips : Becomes(insertBuffer(f, p, no), StaysBehind(f, p))
      BY DEF newLine, insertText
<1>2. /\ eol \in Strings /\ Len(eol) > 0
      /\ \A p \in Clips : p \in Strings /\ Len(p) > 0
  <2>1. eol \in Strings /\ Len(eol) = 1 /\ \A p \in Clips : p \in Strings /\ Len(p) > 0
        BY GivenTexts
  <2> HIDE DEF eol
  <2> QED BY <2>1
<1> HIDE DEF eol
<1>3. CASE Becomes(insertBuffer(f, eol, no), StaysBehind(f, eol))
      BY <1>2, <1>3, InsertingSel
<1>4. ASSUME NEW p \in Clips, Becomes(insertBuffer(f, p, no), StaysBehind(f, p)) PROVE SelStep
      BY <1>2, <1>4, InsertingSel
<1> QED BY <1>1, <1>3, <1>4

LEMMA PasteSel ==
  ASSUME Chosen, NEW p \in Clips, p[1] # EOL, clipPaste(p)
  PROVE  SelStep
<1> DEFINE f == flushLine(e)
           yes == TRUE
           r == insertBuffer(f, p, yes)
<1>0. p \in Strings /\ Len(p) > 0
      BY GivenTexts
<1>1. Resting(f) /\ InLines(f)
      BY FlushHas
<1>2. Sets(r)
      BY DEF clipPaste
<1>3. yes
      OBVIOUS
<1>a. Len(f.buffer) + f.x \in Offsets
  <2> DEFINE n == Len(f.buffer)
             x == f.x
  <2>1. n \in Nat /\ n <= 2 * MaxLen + 1 /\ x \in Nat /\ x <= MaxColumn
        BY FlushFits DEF Chosen
  <2> HIDE DEF n, x
  <2>2. n + x \in Nat /\ n + x <= 4 * MaxLen + 4 * MaxColumn + 7
        BY <2>1, OffsetsAre
  <2>3. n + x \in Offsets
        BY <2>2, OffsetsAre
  <2> QED BY <2>3 DEF n, x
<1> HIDE DEF f, yes
<1>4. InLines(r) /\ SameLine(r, f)
      BY <1>0, <1>1, <1>a, insertBufferLines
<1>5. Resting(r)
  <2> HIDE DEF r
  <2> QED BY <1>1, <1>4, RestGood
<1>6. Len(r.buffer) <= Reach
  <2>1. bufLen(r) <= MaxLen
        BY <1>2 DEF Sets, Fits
  <2>2. MaxLen \in Nat /\ MaxColumn \in Nat
        BY TextAssumption
  <2>3. Len(r.buffer) \in Nat
    <3> HIDE DEF r
    <3> QED BY <1>4, LengthIs
  <2> HIDE DEF r
  <2> QED BY <2>1, <2>2, <2>3 DEF bufLen, Reach
<1>7. r.selEnd <= Len(r.buffer)
      BY <1>0, <1>1, <1>3, <1>6, InsertedSelected
<1> HIDE DEF r
<1> QED BY <1>2, <1>5, <1>7, RestSets

LEMMA BackSpaceSel ==
  ASSUME Chosen, NEW stale, BackSpace(stale)
  PROVE  SelStep
<1> DEFINE f == flushLine(e)
           first == f.curLine - 1
           last == f.curLine
           no == FALSE
<1>1. \/ e.curLine > 0 /\ Becomes(deleteRange(f, first, last, stale), no)
      \/ e.x > 0 /\ ~Parted(e) /\ Becomes(EraseLeft(InEdition(e)), Filled(e))
      BY DEF BackSpace
<1>2. CASE e.curLine > 0 /\ Becomes(deleteRange(f, first, last, stale), no)
  <2>1. InLines(f) /\ f.curLine = e.curLine
        BY FlushHas
  <2> DEFINE k == f.y
             T0 == Starts(f.lenLines)[k]
             w == LenWithoutCRLF(f, k)
  <2>2. k \in 0 .. f.totalLines /\ f.curLine \in Nat /\ f.curLine = T0 /\ w \in Nat
    <3>1. LineWidth(f) = w
          BY DEF LineWidth
    <3> HIDE DEF f
    <3> QED BY <2>1, <3>1, CursorLine
  <2> HIDE DEF T0, w
  <2>3. first \in Nat /\ last \in 0 .. T0 + w
        BY <1>2, <2>1, <2>2
  <2> HIDE DEF first, last, k, no
  <2> QED BY <1>2, <2>2, <2>3, DeletingSel DEF T0, w
<1>3. CASE e.x > 0 /\ ~Parted(e) /\ Becomes(EraseLeft(InEdition(e)), Filled(e))
      BY <1>3, EraseLeftSel
<1> QED BY <1>1, <1>2, <1>3

LEMMA DelEndStartSel ==
  ASSUME Chosen, NEW stale, DelEnd(stale) \/ DelStart(stale)
  PROVE  SelStep
<1> DEFINE c == e.curLine
           col == ColToPointer(e)
           end == e.curLine + LineWidth(e)
           len == Len(e.bufEdit)
           i == e.inEdit
           to == i + e.restCharsInLine
           zero == 0
           minus == -1
           no == FALSE
           a == deleteRangeLineInEdition(e, i, to, minus)
           r == [a EXCEPT !.restCharsInLine = 0]
<1>1. \/ e.editing /\ ~Parted(e) /\ ~Surplus(e) /\ Becomes(r, EndsInside(e, i, to))
      \/ e.editing /\ ~Parted(e)
         /\ Becomes(deleteRangeLineInEdition(e, zero, i, zero), EndsInside(e, zero, i))
      \/ ~e.editing /\ Becomes(deleteRange(e, col, end, stale), no)
      \/ ~e.editing /\ Becomes(deleteRange(e, c, col, stale), no)
      BY DEF DelEnd, DelStart
<1>0. Good(e)
      BY DEF Chosen, Fine
<1>2. ASSUME e.editing, ~Parted(e)
      PROVE  i \in 0 .. len /\ len \in Nat
      BY <1>0, <1>2, TypingInEdition
<1>3. zero = 0 /\ minus \in Int /\ minus < 0 /\ zero \in Int
      OBVIOUS
<1>4. CASE e.editing /\ ~Parted(e) /\ ~Surplus(e) /\ Becomes(r, EndsInside(e, i, to))
  <2>a. Typing(e) /\ to = len
        BY <1>0, <1>4, TypingInEdition, NothingSurplus
  <2>1. /\ i \in 0 .. Len(e.bufEdit) /\ to \in i .. Len(e.bufEdit)
        /\ minus \in Int /\ ((minus = 0 /\ i = 0) \/ (minus < 0 /\ e.inEdit <= i))
        BY <1>2, <1>3, <1>4, <2>a
  <2>2. Good(r)
    <3> DEFINE b == deleteRangeLineInEdition(e, i, len, minus)
    <3>1. b = a
          BY <2>a
    <3>2. Good([b EXCEPT !.restCharsInLine = 0])
          BY <2>a, DeleteToTheEnd
    <3> HIDE DEF a, b
    <3> QED BY <3>1, <3>2
  <2> DEFINE bad == EndsInside(e, i, to)
  <2>3. Good(a) /\ (Unmoved(a, bad) => Selected(a))
    <3> HIDE DEF i, len, minus, to
    <3> QED BY <1>4, <2>1, RangeStays
  <2> HIDE DEF a, bad
  <2>4. Unmoved(r, bad) => Selected(r)
        BY <2>3, CountedAnew
  <2>5. Becomes(r, bad)
        BY <1>4 DEF bad
  <2> HIDE DEF r
  <2> QED BY <2>2, <2>4, <2>5, BecomesStep
<1>5. CASE e.editing /\ ~Parted(e)
           /\ Becomes(deleteRangeLineInEdition(e, zero, i, zero), EndsInside(e, zero, i))
  <2>1. /\ zero \in 0 .. Len(e.bufEdit) /\ i \in zero .. Len(e.bufEdit)
        /\ zero \in Int /\ ((zero = 0 /\ zero = 0) \/ (zero < 0 /\ e.inEdit <= zero))
        BY <1>2, <1>3, <1>5
  <2> DEFINE s == deleteRangeLineInEdition(e, zero, i, zero)
             bad == EndsInside(e, zero, i)
  <2> HIDE DEF i, len, zero
  <2>2. Good(s) /\ (Unmoved(s, bad) => Selected(s))
        BY <1>5, <2>1, RangeStays
  <2>3. Becomes(s, bad)
        BY <1>5
  <2> HIDE DEF s, bad
  <2> QED BY <2>2, <2>3, BecomesStep
<1> DEFINE f == flushLine(e)
<1>6. ASSUME ~e.editing
      PROVE  /\ f = e /\ f.y \in 0 .. f.totalLines
             /\ end \in 0 .. Starts(f.lenLines)[f.y] + LenWithoutCRLF(f, f.y)
             /\ col \in 0 .. Starts(f.lenLines)[f.y] + LenWithoutCRLF(f, f.y)
             /\ col \in Nat /\ c \in Nat
  <2> DEFINE T0 == Starts(e.lenLines)[e.y]
             w == LineWidth(e)
             w2 == LenWithoutCRLF(e, e.y)
  <2>1. InLines(e) /\ f = e
        BY <1>0, <1>6 DEF Good, flushLine
  <2>2. /\ e.y \in 0 .. e.totalLines /\ c \in Nat /\ c = T0 /\ w \in Nat /\ w2 = w /\ col \in c .. c + w
        BY <2>1, CursorLine
  <2>3. end = c + w
        OBVIOUS
  <2> HIDE DEF T0, w, w2, col, c, end, f
  <2>4. end \in 0 .. T0 + w2 /\ col \in 0 .. T0 + w2 /\ col \in Nat
        BY <2>2, <2>3
  <2> QED BY <2>1, <2>2, <2>4 DEF T0, w2
<1> HIDE DEF f, no, col, c, end
<1>7. CASE ~e.editing /\ Becomes(deleteRange(e, col, end, stale), no)
  <2>1. Becomes(deleteRange(f, col, end, stale), no)
        BY <1>6, <1>7
  <2> QED BY <1>6, <1>7, <2>1, DeletingSel DEF f
<1>8. CASE ~e.editing /\ Becomes(deleteRange(e, c, col, stale), no)
  <2>1. Becomes(deleteRange(f, c, col, stale), no)
        BY <1>6, <1>8
  <2> QED BY <1>6, <1>8, <2>1, DeletingSel DEF f
<1> QED BY <1>1, <1>4, <1>5, <1>7, <1>8

LEMMA DelLineSel ==
  ASSUME Chosen, NEW stale, DelLine(stale)
  PROVE  SelStep
<1> DEFINE f == flushLine(e)
           c == f.curLine
           to == IF f.y # f.totalLines THEN f.lenLines[f.y + 1] ELSE LineWidth(f)
           last == c + to
           k == IF f.y # f.totalLines THEN f.y + 1 ELSE f.y
           no == FALSE
<1>1. Becomes(deleteRange(f, c, last, stale), no)
      BY DEF DelLine
<1>2. InLines(f)
      BY FlushHas
<1> HIDE DEF f
<1>3. /\ c \in Nat /\ k \in 0 .. f.totalLines
      /\ last \in 0 .. Starts(f.lenLines)[k] + LenWithoutCRLF(f, k)
  <2> DEFINE T0 == Starts(f.lenLines)[f.y]
             w == LineWidth(f)
             w2 == LenWithoutCRLF(f, f.y)
  <2>1. /\ f.y \in 0 .. f.totalLines /\ f.totalLines \in Nat
        /\ c \in Nat /\ c = T0 /\ w \in Nat /\ w2 = w
        BY <1>2, CursorLine
  <2>2. CASE f.y # f.totalLines
    <3>1. f.y < f.totalLines
          BY <2>1, <2>2
    <3>2. k = f.y + 1 /\ last = f.curLine + f.lenLines[f.y + 1]
          BY <2>2
    <3>3. /\ f.y + 1 \in 0 .. f.totalLines
          /\ f.curLine + f.lenLines[f.y + 1]
              \in 0 .. Starts(f.lenLines)[f.y + 1] + LenWithoutCRLF(f, f.y + 1)
          BY <1>2, <3>1, NextLine
    <3> HIDE DEF k, last
    <3> QED BY <2>1, <3>2, <3>3
  <2>3. CASE f.y = f.totalLines
    <3>1. k = f.y /\ last = c + w
          BY <2>3
    <3> HIDE DEF k, last, T0, w, w2, c
    <3>2. last \in 0 .. T0 + w2
          BY <2>1, <3>1
    <3> QED BY <2>1, <3>1, <3>2 DEF T0, w2
  <2> QED BY <2>2, <2>3
<1> HIDE DEF last, k, c, no
<1> QED BY <1>1, <1>3, DeletingSel DEF f

LEMMA CutBlockSel ==
  ASSUME Chosen, NEW stale, CutBlock(stale)
  PROVE  SelStep
<1> DEFINE f == flushLine(e)
           first == f.selStart
           last == f.selEnd
           k == f.totalLines
           r == deleteRange(f, first, last, stale)
<1>1. Sets(r) /\ last <= Total(f.lenLines, 0, k) + LenWithoutCRLF(f, k) /\ hasSelection(f)
      BY DEF CutBlock
<1>2. Resting(f) /\ InLines(f) /\ (hasSelection(f) => f.selEnd <= Len(f.buffer))
      BY FlushHas
<1> HIDE DEF f
<1>3. first \in Nat /\ last \in Nat /\ k \in 0 .. f.totalLines /\ k \in Nat
      /\ f.lenLines \in Seq(Nat) /\ Len(f.lenLines) = k + 1
      BY <1>2, Unsigneds DEF InLines, Editors
<1>4. last \in 0 .. Starts(f.lenLines)[k] + LenWithoutCRLF(f, k)
  <2> DEFINE T == Starts(f.lenLines)
             lens == f.lenLines
             w == LenWithoutCRLF(f, k)
  <2>1. Wide(f, T, k, w)
        BY <1>2, <1>3, WideLine
  <2>2. Total(lens, 0, k) = T[k]
    <3>1. k \in 0 .. Len(lens) /\ lens \in Seq(Nat)
          BY <1>3
    <3>2. T = Starts(lens)
          OBVIOUS
    <3> HIDE DEF lens, k, T
    <3>3. \A j \in 0 .. Len(lens) : Total(lens, 0, j) = Starts(lens)[j]
          BY <3>1, StartsSum
    <3> QED BY <3>1, <3>2, <3>3
  <2>3. w \in Nat /\ T[k] \in Nat
        BY <2>1 DEF Wide
  <2>4. last <= T[k] + w
        BY <1>1, <2>2
  <2> HIDE DEF T, w, k, last
  <2>5. last \in 0 .. T[k] + w
        BY <1>3, <2>3, <2>4
  <2> QED BY <2>5 DEF T, w
<1>5. last \in 0 .. Len(f.buffer)
  <2> HIDE DEF last, k
  <2> QED BY <1>2, <1>3, <1>4, InLineOffset DEF k
<1>6. f.selEnd <= Len(f.buffer) /\ hasSelection(f)
      BY <1>1, <1>2
<1> HIDE DEF first, last, k
<1>7. Resting(r)
      BY <1>2, <1>3, <1>4, DeleteGood DEF k
<1>8. r.selEnd <= Len(r.buffer)
      BY <1>2, <1>3, <1>5, <1>6, DeletedSelected
<1> HIDE DEF r
<1> QED BY <1>1, <1>7, <1>8, RestSets

(* What changes only the cursor of an editor whose line is in the buffer.  *)
LEMMA PlacedSel ==
  ASSUME Chosen, NEW r, Becomes(r, FALSE), Resting(r), r.buffer = flushLine(e).buffer,
         r.selEnd = flushLine(e).selEnd
  PROVE  SelStep
<1> DEFINE no == FALSE
<1>1. hasSelection(flushLine(e)) => r.selEnd <= Len(r.buffer)
      BY FlushHas
<1>2. Becomes(r, no)
      OBVIOUS
<1> HIDE DEF no
<1> QED BY <1>1, <1>2, RestBecomes

LEMMA BlocksSel ==
  ASSUME Chosen, MarkLine \/ Indent \/ UnIndent
  PROVE  SelStep
<1> DEFINE f == flushLine(e)
           end == f.curLine + f.lenLines[f.y + 1]
           r1 == [f EXCEPT !.x = 0, !.selStart = f.curLine, !.selEnd = end]
           r2 == IndentBlock(f)
           r3 == UnIndentBlock(f)
           bad2 == BehindBlock(JumpLineStartSelection(f))
           bad3 == BehindBlock(JumpLineStartSelection(f)) \/ InIndentation(JumpLineStartSelection(f))
<1>1. /\ Resting(f) /\ InLines(f) /\ Len(f.buffer) \in Nat /\ (hasSelection(f) => f.selEnd <= Len(f.buffer))
      /\ Len(f.buffer) + e.x + 2 <= Reach /\ e.x \in Nat
      /\ f.selEnd \in Nat /\ f \in Editors
      BY FlushHas
<1>2. use = "select"
      BY DEF Chosen
<1>a. Len(f.buffer) <= 2 * MaxLen + 1
      BY FlushFits DEF Chosen
<1>3. CASE MarkLine
  <2>1. Sets(r1)
        BY <1>2, <1>3 DEF MarkLine
  <2> HIDE DEF f
  <2> DEFINE n == Len(f.buffer)
             k == f.curLine
             l == f.lenLines[f.y + 1]
  <2>2. k \in Nat /\ l \in Nat /\ k + l <= n /\ n \in Nat /\ end = k + l /\ n <= 2 * MaxLen + 1
        BY <1>1, <1>a, CursorLine
  <2>3. end \in Offsets /\ k \in Offsets /\ end <= n
    <3> HIDE DEF k, l, n, end
    <3>1. /\ end \in Nat /\ end <= 4 * MaxLen + 4 * MaxColumn + 7 /\ end <= n
          /\ k \in Nat /\ k <= 4 * MaxLen + 4 * MaxColumn + 7
          BY <2>2, OffsetsAre
    <3> QED BY <3>1, OffsetsAre
  <2> HIDE DEF end
  <2>4. r1 \in Editors
        BY <1>1, <2>3 DEF Editors
  <2>5. /\ r1.buffer = f.buffer /\ r1.lenLines = f.lenLines /\ r1.totalLines = f.totalLines
        /\ r1.y = f.y /\ r1.curLine = f.curLine /\ r1.editing = f.editing /\ r1.bufEdit = f.bufEdit
        /\ r1.selEnd = end
        BY <1>1 DEF Editors
  <2> HIDE DEF r1
  <2>6. InLines(r1)
        BY <1>1, <2>4, <2>5, SameLines
  <2>7. Resting(r1)
        BY <1>1, <2>5, <2>6 DEF Resting
  <2>8. r1.selEnd <= Len(r1.buffer)
        BY <2>3, <2>5
  <2> QED BY <2>1, <2>7, <2>8, RestSets
<1>4. CASE Indent
  <2>1. hasSelection(f) /\ (Sets(r2) \/ Becomes(r2, bad2))
        BY <1>4 DEF Indent, Shifts
  <2> HIDE DEF f
  <2>2. f.selEnd <= Len(f.buffer)
        BY <1>1, <2>1
  <2>3. f.selEnd + Len(f.buffer) + 1 \in Offsets
    <3> DEFINE n == Len(f.buffer)
               s == f.selEnd
    <3>1. n \in Nat /\ s \in Nat /\ s <= n /\ n <= 2 * MaxLen + 1
          BY <1>1, <1>a, <2>2
    <3> HIDE DEF n, s
    <3>2. s + n + 1 \in Nat /\ s + n + 1 <= 4 * MaxLen + 4 * MaxColumn + 7
          BY <3>1, OffsetsAre
    <3>3. s + n + 1 \in Offsets
          BY <3>2, OffsetsAre
    <3> QED BY <3>3 DEF n, s
  <2>4. InLines(r2) /\ SameLine(r2, f)
        BY <1>1, <2>3, IndentBlockLines
  <2>5. r2.selEnd <= Len(r2.buffer)
        BY <1>1, <2>2, <2>3, IndentedSelected
  <2> HIDE DEF r2, bad2
  <2>6. Resting(r2)
        BY <1>1, <2>4, RestGood
  <2> QED BY <2>1, <2>5, <2>6, RestSets, RestBecomes DEF f
<1>5. CASE UnIndent
  <2>1. hasSelection(f) /\ ((~bad3 /\ Sets(r3)) \/ Becomes(r3, bad3))
        BY <1>2, <1>5 DEF UnIndent, Shifts
  <2> HIDE DEF f
  <2>2. f.selEnd <= Len(f.buffer) /\ Len(f.buffer) <= Reach
    <3> DEFINE n == Len(f.buffer)
    <3>1. n \in Nat /\ n + e.x + 2 <= Reach /\ e.x \in Nat
          BY <1>1
    <3> HIDE DEF n
    <3>2. n <= Reach
          BY <3>1, SmallNumbers
    <3> QED BY <1>1, <2>1, <3>2 DEF n
  <2>3. InLines(r3) /\ SameLine(r3, f)
        BY <1>1, UnIndentBlockLines
  <2>4. ~bad3 => r3.selEnd <= Len(r3.buffer)
        BY <1>1, <1>2, <2>2, UnIndentedSelected
  <2> HIDE DEF r3, bad3
  <2>5. Resting(r3)
        BY <1>1, <2>3, RestGood
  <2>6. CASE ~bad3 /\ Sets(r3)
        BY <2>4, <2>5, <2>6, RestSets
  <2>7. CASE Becomes(r3, bad3)
        BY <2>1, <2>4, <2>5, <2>7, RestBecomes DEF f
  <2> QED BY <2>1, <2>6, <2>7
<1> QED BY <1>3, <1>4, <1>5

(* The commands that change the cursor in its line, or nothing in the text *)
(* but the blanks behind it.                                               *)
LEMMA PointsSel ==
  ASSUME Chosen, NEW r, NEW bad, Becomes(r, bad), Points(r, e), Good(r), SameSel(r, e),
         r.selEnd = e.selEnd,
         e.editing => \/ Len(r.bufEdit) = Len(e.bufEdit)
                      \/ bad
                      \/ /\ e.selNewEnd <= e.curLine + Len(e.bufEdit)
                         /\ e.selNewEnd <= e.curLine + Len(r.bufEdit)
  PROVE  SelStep
<1> DEFINE f == flushLine(e)
<1>1. Good(e) /\ Selected(e) /\ OnLine(r, e) /\ r.editing = e.editing /\ r.buffer = e.buffer
      BY WithinReach DEF Chosen, OnLine, Points
<1>2. CASE ~e.editing
  <2>1. Resting(r)
        BY <1>1, <1>2 DEF Resting, Good
  <2>2. f = e /\ (hasSelection(f) => f.selEnd <= Len(f.buffer))
        BY <1>2, WithinReach, FlushHas DEF Chosen
  <2>3. /\ hasSelection(f) /\ ~bad => r.selEnd <= Len(r.buffer)
        /\ ~hasSelection(f) => r.selEnd = f.selEnd
    <3> HIDE DEF f
    <3> QED BY <1>1, <2>2
  <2> QED BY <2>1, <2>3, RestBecomes
<1>3. CASE e.editing
  <2>1. ASSUME Unmoved(r, bad) PROVE Selected(r)
    <3>1. ~bad /\ (Forgotten(f) => Text(r) = Text(e))
          BY <2>1 DEF Unmoved
    <3>2. CASE e.selNewStart < e.selNewEnd
      <4>1. \/ Len(r.bufEdit) = Len(e.bufEdit)
            \/ /\ e.selNewEnd <= e.curLine + Len(e.bufEdit)
               /\ e.selNewEnd <= e.curLine + Len(r.bufEdit)
            BY <1>3, <3>1
      <4> QED BY <1>1, <1>3, <3>2, <4>1, UntoldSelected
    <3>3. CASE ~(e.selNewStart < e.selNewEnd)
      <4>1. e.selNewStart >= e.selNewEnd
        <5>1. e.selNewStart \in Nat /\ e.selNewEnd \in Nat
              BY <1>1, EndsInLine DEF Good, InLines
        <5> QED BY <3>3, <5>1
      <4> QED BY <1>1, <1>3, <3>1, <4>1, EmptyInLine
    <3> QED BY <3>2, <3>3
  <2> QED BY <1>1, <2>1, BecomesStep
<1>4. e.editing \in BOOLEAN
      BY <1>1 DEF Good, InLines, Editors
<1> QED BY <1>2, <1>3, <1>4

LEMMA ToggleSel ==
  ASSUME Chosen, toggleInsMode
  PROVE  SelStep
<1> DEFINE over == ~e.overwrite
           r == [e EXCEPT !.overwrite = over]
           no == FALSE
<1>1. Becomes(r, no)
      BY DEF toggleInsMode
<1>2. Good(e) /\ e \in Editors
      BY WithinReach DEF Chosen, Good, InLines
<1>3. over \in BOOLEAN
      OBVIOUS
<1> HIDE DEF over
<1>4. r \in Editors
      BY <1>2, <1>3 DEF Editors
<1>5. /\ r.buffer = e.buffer /\ r.lenLines = e.lenLines /\ r.totalLines = e.totalLines
      /\ r.y = e.y /\ r.curLine = e.curLine /\ r.editing = e.editing /\ r.bufEdit = e.bufEdit
      /\ r.inEdit = e.inEdit /\ r.x = e.x /\ r.selEnd = e.selEnd
      /\ r.restCharsInLine = e.restCharsInLine
      /\ r.selNewStart = e.selNewStart /\ r.selNewEnd = e.selNewEnd
      /\ r.selLineStart = e.selLineStart /\ r.selLineEnd = e.selLineEnd
      BY <1>2 DEF Editors
<1> HIDE DEF r, no
<1>6. Points(r, e) /\ SameSel(r, e)
      BY <1>4, <1>5 DEF Points, SameSel
<1>7. Good(r)
      BY <1>2, <1>5, <1>6, SamePlace
<1> QED BY <1>1, <1>5, <1>6, <1>7, PointsSel

LEMMA CharLeftSel ==
  ASSUME Chosen, CharLeft \/ LineStart_
  PROVE  SelStep
<1> DEFINE x == e.x - 1
           i == IF e.editing THEN e.inEdit - 1 ELSE 0
           n1 == IF e.editing THEN e.restCharsInLine + 1 ELSE 0
           n2 == IF e.editing THEN e.restCharsInLine + e.inEdit ELSE 0
           r1 == [e EXCEPT !.x = x, !.inEdit = i, !.restCharsInLine = n1]
           r2 == [e EXCEPT !.x = 0, !.inEdit = 0, !.restCharsInLine = n2]
           no == FALSE
<1>1. (Becomes(r1, no) /\ e.x > 0) \/ Becomes(r2, no)
      BY DEF CharLeft, LineStart_
<1>2. e \in Editors /\ e.x \in Nat /\ e.inEdit \in Nat /\ Len(e.bufEdit) \in Nat
      /\ NoEnds(e.bufEdit) /\ Good(e) /\ e.restCharsInLine \in Int
      BY WithinReach, LenProperties DEF Chosen, Good, InLines, Editors, Strings
<1>a. e.editing => e.inEdit + e.restCharsInLine >= Len(e.bufEdit)
      BY <1>2 DEF Good, Reaches
<1>b. /\ n1 \in Int /\ n2 \in Int
      /\ e.editing => i + n1 >= Len(e.bufEdit) /\ 0 + n2 >= Len(e.bufEdit)
      BY <1>2, <1>a
<1> HIDE DEF n1, n2
<1>3. CASE Becomes(r1, no) /\ e.x > 0
  <2>1. e.editing => e.inEdit = e.x /\ e.x <= Len(e.bufEdit)
        BY <1>2, <1>3 DEF Good
  <2>2. x \in Nat /\ i \in Nat /\ (e.editing => i = x /\ x <= Len(e.bufEdit))
        BY <1>2, <1>3, <2>1
  <2> HIDE DEF x, i
  <2>3. r1 \in Editors
        BY <1>2, <1>b, <2>2 DEF Editors
  <2>4. /\ r1.buffer = e.buffer /\ r1.lenLines = e.lenLines /\ r1.totalLines = e.totalLines
        /\ r1.y = e.y /\ r1.curLine = e.curLine /\ r1.editing = e.editing /\ r1.bufEdit = e.bufEdit
        /\ r1.x = x /\ r1.inEdit = i /\ r1.selEnd = e.selEnd /\ r1.restCharsInLine = n1
        /\ r1.selNewStart = e.selNewStart /\ r1.selNewEnd = e.selNewEnd
        /\ r1.selLineStart = e.selLineStart /\ r1.selLineEnd = e.selLineEnd
        BY <1>2 DEF Editors
  <2> HIDE DEF r1, no
  <2>5. Points(r1, e) /\ SameSel(r1, e)
        BY <2>3, <2>4 DEF Points, SameSel
  <2>a. Reaches(r1)
        BY <1>b, <2>4 DEF Reaches
  <2>6. Good(r1)
        BY <1>2, <2>2, <2>4, <2>5, <2>a, PointsGood
  <2> QED BY <1>3, <2>4, <2>5, <2>6, PointsSel
<1>4. CASE Becomes(r2, no)
  <2>3. r2 \in Editors
        BY <1>2, <1>b DEF Editors
  <2>4. /\ r2.buffer = e.buffer /\ r2.lenLines = e.lenLines /\ r2.totalLines = e.totalLines
        /\ r2.y = e.y /\ r2.curLine = e.curLine /\ r2.editing = e.editing /\ r2.bufEdit = e.bufEdit
        /\ r2.x = 0 /\ r2.inEdit = 0 /\ r2.selEnd = e.selEnd /\ r2.restCharsInLine = n2
        /\ r2.selNewStart = e.selNewStart /\ r2.selNewEnd = e.selNewEnd
        /\ r2.selLineStart = e.selLineStart /\ r2.selLineEnd = e.selLineEnd
        BY <1>2 DEF Editors
  <2> HIDE DEF r2, no
  <2>5. Points(r2, e) /\ SameSel(r2, e)
        BY <2>3, <2>4 DEF Points, SameSel
  <2>a. Reaches(r2)
        BY <1>b, <2>4 DEF Reaches
  <2>6. Good(r2)
        BY <1>2, <2>4, <2>5, <2>a, PointsGood
  <2> QED BY <1>4, <2>4, <2>5, <2>6, PointsSel
<1> QED BY <1>1, <1>3, <1>4

LEMMA CharRightSel ==
  ASSUME Chosen, CharRight
  PROVE  SelStep
<1> DEFINE x == e.x + 1
           i == e.inEdit + 1
           r1 == [e EXCEPT !.x = x]
           n == e.restCharsInLine - 1
           r2 == [e EXCEPT !.x = x, !.inEdit = i, !.restCharsInLine = n]
           r3 == [InsertCharInLine(e, Blank) EXCEPT !.restCharsInLine = 0]
           bad == e.editing /\ e.overwrite /\ e.inEdit = Len(e.bufEdit)
                    /\ SelTo(e) > e.curLine + e.inEdit
<1>1. /\ ~Parted(e)
      /\ \/ ~e.editing /\ Becomes(r1, bad)
         \/ e.editing /\ e.inEdit < Len(e.bufEdit) /\ Becomes(r2, bad)
         \/ e.editing /\ ~(e.inEdit < Len(e.bufEdit)) /\ Becomes(r3, bad)
  <2>1. ~Parted(e) /\ Becomes(IF ~e.editing THEN r1 ELSE IF e.inEdit < Len(e.bufEdit) THEN r2 ELSE r3, bad)
        BY DEF CharRight
  <2> HIDE DEF r1, r2, r3, bad
  <2> QED BY <2>1
<1>2. e \in Editors /\ x \in Nat /\ i \in Nat /\ Len(e.bufEdit) \in Nat /\ NoEnds(e.bufEdit)
      /\ e.inEdit \in Nat /\ Good(e) /\ e.restCharsInLine \in Int /\ n \in Int
  <2>1. e \in Editors /\ NoEnds(e.bufEdit) /\ Good(e)
        BY WithinReach DEF Chosen, Good, InLines
  <2>2. e.bufEdit \in Seq(Chars) /\ e.x \in Nat /\ e.inEdit \in Nat /\ e.restCharsInLine \in Int
        BY <2>1 DEF Editors, Strings
  <2> QED BY <2>1, <2>2, LenProperties
<1>5. CASE e.editing /\ ~(e.inEdit < Len(e.bufEdit)) /\ Becomes(r3, bad)
      BY <1>1, <1>5, BlankSel
<1> HIDE DEF bad
<1>3. CASE ~e.editing /\ Becomes(r1, bad)
  <2> HIDE DEF x
  <2>1. r1 \in Editors
        BY <1>2 DEF Editors
  <2>2. /\ r1.buffer = e.buffer /\ r1.lenLines = e.lenLines /\ r1.totalLines = e.totalLines
        /\ r1.y = e.y /\ r1.curLine = e.curLine /\ r1.editing = e.editing /\ r1.bufEdit = e.bufEdit
        /\ r1.selEnd = e.selEnd
        /\ r1.selNewStart = e.selNewStart /\ r1.selNewEnd = e.selNewEnd
        /\ r1.selLineStart = e.selLineStart /\ r1.selLineEnd = e.selLineEnd
        BY <1>2 DEF Editors
  <2> HIDE DEF r1
  <2>3. Points(r1, e) /\ SameSel(r1, e)
        BY <2>1, <2>2 DEF Points, SameSel
  <2>4. Good(r1)
        BY <1>2, <1>3, <2>2, <2>3, PointsGood DEF Reaches
  <2> QED BY <1>3, <2>2, <2>3, <2>4, PointsSel
<1>4. CASE e.editing /\ e.inEdit < Len(e.bufEdit) /\ Becomes(r2, bad)
  <2>1. e.inEdit = e.x
        BY <1>1, <1>4 DEF Parted
  <2>2. i = x /\ x <= Len(e.bufEdit)
        BY <1>2, <1>4, <2>1
  <2>b. i + n >= Len(e.bufEdit)
        BY <1>2, <1>4 DEF Good, Reaches
  <2> HIDE DEF x, i, n
  <2>3. r2 \in Editors
        BY <1>2 DEF Editors
  <2>4. /\ r2.buffer = e.buffer /\ r2.lenLines = e.lenLines /\ r2.totalLines = e.totalLines
        /\ r2.y = e.y /\ r2.curLine = e.curLine /\ r2.editing = e.editing /\ r2.bufEdit = e.bufEdit
        /\ r2.x = x /\ r2.inEdit = i /\ r2.selEnd = e.selEnd /\ r2.restCharsInLine = n
        /\ r2.selNewStart = e.selNewStart /\ r2.selNewEnd = e.selNewEnd
        /\ r2.selLineStart = e.selLineStart /\ r2.selLineEnd = e.selLineEnd
        BY <1>2 DEF Editors
  <2> HIDE DEF r2
  <2>5. Points(r2, e) /\ SameSel(r2, e)
        BY <2>3, <2>4 DEF Points, SameSel
  <2>a. Reaches(r2)
        BY <2>b, <2>4 DEF Reaches
  <2>6. Good(r2)
        BY <1>2, <2>2, <2>4, <2>5, <2>a, PointsGood
  <2> QED BY <1>4, <2>4, <2>5, <2>6, PointsSel
<1> QED BY <1>1, <1>3, <1>4, <1>5

LEMMA LineEndSel ==
  ASSUME Chosen, LineEnd
  PROVE  SelStep
<1> DEFINE s == e.bufEdit
           u == Used(s)
           g == Part(s, 0, u)
           i == IF s = <<>> THEN 1 ELSE u
           w == LineWidth(e)
           r1 == [e EXCEPT !.bufEdit = g, !.x = u, !.restCharsInLine = 0, !.inEdit = i]
           r2 == [e EXCEPT !.x = w]
           bad == e.editing /\ u < Len(s) /\ e.selNewEnd > e.curLine + u
<1>1. \/ e.editing /\ Becomes(r1, bad)
      \/ ~e.editing /\ Becomes(r2, bad)
  <2>1. Becomes(IF e.editing THEN r1 ELSE r2, bad)
        BY DEF LineEnd
  <2> HIDE DEF r1, r2, bad
  <2> QED BY <2>1
<1>2. e \in Editors /\ s \in Seq(Chars) /\ Len(s) \in Nat /\ NoEnds(s) /\ InLines(e) /\ Good(e)
      BY WithinReach, LenProperties DEF Chosen, Good, InLines, Editors, Strings
<1>3. w \in Nat
  <2>1. LineWidth(e) \in Nat
        BY <1>2, CursorLine
  <2> QED BY <2>1
<1>4. u \in 0 .. Len(s)
  <2> HIDE DEF s
  <2>1. s \in Strings
        BY <1>2 DEF Strings
  <2> QED BY <2>1, UsedOf
<1>5. s = <<>> => u = 0
      BY <1>4
<1>a. e.curLine \in Nat /\ e.selNewEnd \in Nat
      BY <1>2, EndsInLine DEF Editors
<1> HIDE DEF u, s, w
<1>6. g \in Seq(Chars) /\ Len(g) = u /\ NoEnds(g) /\ u \in Nat /\ i \in Nat
  <2> DEFINE zero == 0
  <2>1. s \in Seq(Chars) /\ zero \in 0 .. Len(s) /\ u \in zero .. Len(s) /\ u - zero = u
        /\ g = Part(s, zero, u) /\ u \in Nat /\ \A k \in Nat : zero + k = k
        BY <1>2, <1>4
  <2> HIDE DEF zero, g
  <2>2. /\ g \in Seq(Chars) /\ Len(g) = u
        /\ \A k \in 1 .. u : g[k] = s[zero + k]
        BY <2>1, PartOf
  <2>3. ASSUME NEW k \in 1 .. Len(g) PROVE g[k] # EOL
    <3>1. k \in 1 .. u /\ k \in 1 .. Len(s) /\ k \in Nat
          BY <1>2, <1>4, <2>2
    <3>2. g[k] = s[k]
          BY <2>1, <2>2, <3>1
    <3> HIDE DEF EOL
    <3> QED BY <1>2, <3>1, <3>2 DEF NoEnds
  <2> QED BY <2>1, <2>2, <2>3 DEF NoEnds
<1>7. CASE e.editing /\ Becomes(r1, bad)
  <2>1. (i = u /\ u <= Len(g)) \/ u = 0
        BY <1>5, <1>6
  <2>a. \/ Len(g) = Len(s)
        \/ bad
        \/ /\ e.selNewEnd <= e.curLine + Len(s)
           /\ e.selNewEnd <= e.curLine + Len(g)
    <3> DEFINE L == Len(s)
               M == Len(g)
               c == e.curLine
               E == e.selNewEnd
    <3>1. L \in Nat /\ c \in Nat /\ E \in Nat /\ M = u /\ u \in 0 .. L
          BY <1>2, <1>4, <1>6, <1>a
    <3>2. ~bad => ~(u < L /\ E > c + u)
          BY <1>7
    <3> HIDE DEF L, M, c, E, bad
    <3>3. M = L \/ bad \/ (E <= c + L /\ E <= c + M)
          BY <3>1, <3>2
    <3> QED BY <3>3 DEF L, M, c, E
  <2>b. i + 0 >= Len(g)
    <3> HIDE DEF g
    <3>1. i >= u
          BY <1>5, <1>6
    <3> QED BY <1>6, <3>1
  <2> HIDE DEF g, i, bad
  <2>c. g \in Strings /\ i \in Nat /\ u \in Nat /\ 0 \in Int
        BY <1>6 DEF Strings
  <2>2. r1 \in Editors
        BY <1>2, <2>c DEF Editors
  <2>3. /\ r1.buffer = e.buffer /\ r1.lenLines = e.lenLines /\ r1.totalLines = e.totalLines
        /\ r1.y = e.y /\ r1.curLine = e.curLine /\ r1.editing = e.editing /\ r1.bufEdit = g
        /\ r1.x = u /\ r1.inEdit = i /\ r1.selEnd = e.selEnd /\ r1.restCharsInLine = 0
        /\ r1.selNewStart = e.selNewStart /\ r1.selNewEnd = e.selNewEnd
        /\ r1.selLineStart = e.selLineStart /\ r1.selLineEnd = e.selLineEnd
        BY <1>2 DEF Editors
  <2> HIDE DEF r1
  <2>4. Points(r1, e) /\ SameSel(r1, e)
        BY <2>2, <2>3 DEF Points, SameSel
  <2>d. Reaches(r1)
        BY <2>b, <2>3 DEF Reaches
  <2>5. Good(r1)
        BY <1>6, <2>1, <2>3, <2>4, <2>d, <1>2, PointsGood
  <2> QED BY <1>7, <2>a, <2>3, <2>4, <2>5, PointsSel DEF s
<1>8. CASE ~e.editing /\ Becomes(r2, bad)
  <2>1. r2 \in Editors
        BY <1>2, <1>3 DEF Editors
  <2>2. /\ r2.buffer = e.buffer /\ r2.lenLines = e.lenLines /\ r2.totalLines = e.totalLines
        /\ r2.y = e.y /\ r2.curLine = e.curLine /\ r2.editing = e.editing /\ r2.bufEdit = e.bufEdit
        /\ r2.selEnd = e.selEnd
        /\ r2.selNewStart = e.selNewStart /\ r2.selNewEnd = e.selNewEnd
        /\ r2.selLineStart = e.selLineStart /\ r2.selLineEnd = e.selLineEnd
        BY <1>2 DEF Editors
  <2> HIDE DEF r2, bad
  <2>3. Points(r2, e) /\ SameSel(r2, e)
        BY <2>1, <2>2 DEF Points, SameSel
  <2>4. Good(r2)
        BY <1>2, <1>8, <2>2, <2>3, PointsGood DEF s, Reaches
  <2> QED BY <1>8, <2>2, <2>3, <2>4, PointsSel
<1> QED BY <1>1, <1>7, <1>8

LEMMA LineUpDownSel ==
  ASSUME Chosen, LineUp \/ LineDown
  PROVE  SelStep
<1> DEFINE f == flushLine(e)
           T == Starts(f.lenLines)
           n == f.totalLines
           y == f.y
           up == y - 1
           down == y + 1
           a == f.curLine - f.lenLines[y]
           b == f.curLine + f.lenLines[y + 1]
           r1 == [f EXCEPT !.y = up, !.curLine = a]
           r2 == [f EXCEPT !.y = down, !.curLine = b]
           no == FALSE
<1>1. \/ e.y > 0 /\ Becomes(r1, no)
      \/ e.y < e.totalLines /\ Becomes(r2, no)
      BY DEF LineUp, LineDown
<1>2. Resting(f) /\ InLines(f) /\ y = e.y /\ n = e.totalLines
      BY FlushHas
<1> HIDE DEF f
<1>3. /\ f \in Editors /\ n \in Nat /\ y \in 0 .. n /\ f.curLine = T[y] /\ f.lenLines \in Seq(Nat)
      /\ Len(f.lenLines) = n + 1 /\ f.curLine \in Nat /\ T \in [0 .. n + 1 -> Nat]
      /\ \A k \in 1 .. n + 1 : T[k] = T[k - 1] + f.lenLines[k] /\ f.lenLines[k] \in Nat
  <2>1. /\ f \in Editors /\ n \in Nat /\ y \in 0 .. n /\ f.curLine = T[y] /\ f.lenLines \in Seq(Nat)
        /\ Len(f.lenLines) = n + 1 /\ f.curLine \in Nat
        BY <1>2 DEF InLines, Editors
  <2>2. Summed(f.lenLines, T)
        BY <2>1, StartsSum
  <2> HIDE DEF T, n
  <2> QED BY <2>1, <2>2, ElementOfSeq DEF Summed
<1> HIDE DEF T, n, y, no
<1>4. ASSUME NEW k \in 0 .. n, NEW o \in Nat, o = T[k],
             Becomes([f EXCEPT !.y = k, !.curLine = o], no)
      PROVE  SelStep
  <2> DEFINE r == [f EXCEPT !.y = k, !.curLine = o]
  <2>1. k \in Nat
        BY <1>3
  <2>2. r \in Editors
        BY <1>3, <1>4, <2>1 DEF Editors
  <2>3. /\ r.buffer = f.buffer /\ r.lenLines = f.lenLines /\ r.totalLines = f.totalLines
        /\ r.y = k /\ r.curLine = o /\ r.editing = f.editing /\ r.bufEdit = f.bufEdit
        /\ r.inEdit = f.inEdit /\ r.selEnd = f.selEnd
        BY <1>3 DEF Editors
  <2>a. Becomes(r, no)
        BY <1>4
  <2> HIDE DEF r
  <2>4. k <= f.totalLines /\ o = Starts(f.lenLines)[k]
        BY <1>3, <1>4 DEF T, n
  <2>5. InLines(r)
        BY <1>2, <2>2, <2>3, <2>4 DEF InLines
  <2>6. SameLine(r, f)
        BY <2>3 DEF SameLine
  <2>7. Resting(r)
        BY <1>2, <2>5, <2>6, RestGood
  <2> QED BY <2>a, <2>3, <2>7, PlacedSel DEF no, f
<1>5. CASE e.y > 0 /\ Becomes(r1, no)
  <2>1. y \in 1 .. n + 1 /\ up \in 0 .. n /\ up \in 0 .. n + 1
        BY <1>2, <1>3, <1>5
  <2>2. T[y] = T[up] + f.lenLines[y] /\ f.lenLines[y] \in Nat /\ T[up] \in Nat
        BY <1>3, <2>1
  <2>3. a = T[up] /\ a \in Nat
    <3> DEFINE t == T[up]
               l == f.lenLines[y]
               c == f.curLine
    <3>1. c = t + l /\ l \in Nat /\ t \in Nat /\ a = c - l
          BY <1>3, <2>2
    <3> HIDE DEF t, l, c, a
    <3>2. a = t /\ a \in Nat
          BY <3>1
    <3> QED BY <3>2 DEF t
  <2> HIDE DEF up, a
  <2> QED BY <1>4, <1>5, <2>1, <2>3
<1>6. CASE e.y < e.totalLines /\ Becomes(r2, no)
  <2>1. down \in 1 .. n + 1 /\ down \in 0 .. n /\ down - 1 = y
        BY <1>2, <1>3, <1>6
  <2>2. T[down] = T[y] + f.lenLines[down] /\ f.lenLines[down] \in Nat
    <3> HIDE DEF down
    <3> QED BY <1>3, <2>1
  <2>3. b = T[down] /\ b \in Nat
    <3>1. b = f.curLine + f.lenLines[down]
          OBVIOUS
    <3> DEFINE l == f.lenLines[down]
               c == f.curLine
               t == T[down]
    <3>2. b = c + l /\ l \in Nat /\ c \in Nat /\ t = c + l
          BY <1>3, <2>2, <3>1
    <3> HIDE DEF t, l, c, b
    <3>3. b = t /\ b \in Nat
          BY <3>2
    <3> QED BY <3>3 DEF t
  <2> HIDE DEF down, b
  <2> QED BY <1>4, <1>6, <2>1, <2>3
<1> QED BY <1>1, <1>5, <1>6

(* An end of an empty selection that joins the other one, when no end is   *)
(* torn from its line, is where the selection has it.                      *)
LEMMA UntornEnd ==
  ASSUME NEW o \in Nat, NEW l \in Nat, NEW c \in Nat, NEW L \in Nat, Stale(o, l, c, L),
         ~(o >= c /\ l # o - c /\ (o - c <= L \/ l <= L))
  PROVE  EndAt(o, l, c, L, 0) /\ EndAt(o, l, c, L, 1)
<1>1. CASE o < c
      BY <1>1 DEF Stale, EndAt
<1>2. CASE o >= c /\ l = o - c
      BY <1>2 DEF EndAt
<1>3. CASE o >= c /\ l # o - c
  <2>1. o - c > L /\ l > L /\ l <= L + 1
        BY <1>3 DEF Stale
  <2>2. l = L + 1 /\ o >= c + L + 1
        BY <2>1
  <2> QED BY <2>2 DEF EndAt
<1> QED BY <1>1, <1>2, <1>3

LEMMA JoinedEnds ==
  ASSUME NEW S \in Nat, NEW E \in Nat, NEW ls \in Nat, NEW le \in Nat, NEW c \in Nat,
         NEW L \in Nat, NEW i \in 0 .. L, Stale(S, ls, c, L), Stale(E, le, c, L)
  PROVE  LET torn(o, l) == o >= c /\ l # o - c /\ (o - c <= L \/ l <= L)
         IN  /\ (c + i < E => ~torn(E, le)) => Spans(c + i, E, i, le, c, L)
             /\ (S < c + i => ~torn(S, ls)) => Spans(S, c + i, ls, i, c, L)
<1> DEFINE torn(o, l) == o >= c /\ l # o - c /\ (o - c <= L \/ l <= L)
           k == c + i
<1>1. k \in Nat /\ i \in Nat /\ k - c = i
      OBVIOUS
<1>2. ~torn(E, le) => EndAt(E, le, c, L, 1)
      BY UntornEnd
<1>3. ~torn(S, ls) => EndAt(S, ls, c, L, 0)
      BY UntornEnd
<1>4. EndAt(k, i, c, L, 0) /\ EndAt(k, i, c, L, 1) /\ Stale(k, i, c, L)
      BY DEF EndAt, Stale
<1> HIDE DEF torn, k
<1>5. (k < E => ~torn(E, le)) => Spans(k, E, i, le, c, L)
      BY <1>2, <1>4 DEF Spans
<1>6. (S < k => ~torn(S, ls)) => Spans(S, k, ls, i, c, L)
      BY <1>3, <1>4 DEF Spans
<1> QED BY <1>5, <1>6 DEF torn, k

(* What the cursor of an editor with room can be set as.                   *)
LEMMA CursorOffsets ==
  ASSUME Fine(e)
  PROVE  /\ Good(e) /\ InLines(e) /\ e \in Editors
         /\ ColToPointer(e) \in Offsets /\ ColToPointer(e) <= Len(e.buffer) /\ e.curLine \in Offsets
         /\ e.editing /\ ~Parted(e) =>
              /\ Typing(e) /\ e.inEdit \in 0 .. Len(e.bufEdit)
              /\ e.curLine + e.inEdit \in Offsets /\ e.inEdit \in Offsets
<1> DEFINE c == e.curLine + e.inEdit
           col == ColToPointer(e)
           w == LineWidth(e)
           l == e.lenLines[e.y + 1]
           k == e.curLine
           n == Len(e.buffer)
<1>1. InLines(e) /\ e \in Editors /\ Good(e) /\ Room(e)
      BY DEF Fine, Good, InLines
<1>2. col \in k .. k + w /\ w \in Nat /\ l \in Nat /\ w <= l /\ k + l <= n
      BY <1>1, CursorLine
<1>3. n \in Nat /\ n <= MaxLen /\ k \in Nat /\ e.inEdit \in Nat /\ e.x \in Nat /\ e.x <= MaxColumn
      BY <1>1, LinesFit DEF Room, Editors
<1>4. e.editing /\ ~Parted(e) => Typing(e) /\ e.inEdit \in 0 .. Len(e.bufEdit) /\ e.inEdit = e.x
      BY <1>1, TypingInEdition DEF Typing
<1> HIDE DEF col, w, l, k, n
<1>5. /\ col \in Nat /\ col <= n /\ col <= 4 * MaxLen + 4 * MaxColumn + 7
      /\ k <= 4 * MaxLen + 4 * MaxColumn + 7
      BY <1>2, <1>3, OffsetsAre
<1>6. ASSUME e.editing, ~Parted(e) PROVE c \in Offsets /\ e.inEdit \in Offsets
  <2> DEFINE i == e.inEdit
  <2>1. c = k + i /\ i \in Nat /\ i <= MaxColumn
        BY <1>3, <1>4, <1>6 DEF k
  <2> HIDE DEF c, i
  <2>2. /\ c \in Nat /\ c <= 4 * MaxLen + 4 * MaxColumn + 7
        /\ i \in Nat /\ i <= 4 * MaxLen + 4 * MaxColumn + 7
        BY <1>2, <1>3, <2>1, OffsetsAre
  <2> QED BY <2>2, OffsetsAre DEF i
<1>7. col \in Offsets /\ k \in Offsets
      BY <1>3, <1>5, OffsetsAre
<1> QED BY <1>1, <1>4, <1>5, <1>6, <1>7 DEF col, n, k

LEMMA SelectSel ==
  ASSUME Chosen, StartSelect \/ EndSelect
  PROVE  SelStep
<1> DEFINE c == e.curLine + e.inEdit
           col == ColToPointer(e)
           r1 == [e EXCEPT !.selLineStart = e.inEdit, !.selNewStart = c, !.selStart = e.curLine]
           r2 == [e EXCEPT !.selStart = col]
           r3 == [e EXCEPT !.selLineEnd = e.inEdit, !.selNewEnd = c, !.selEnd = e.curLine]
           r4 == [e EXCEPT !.selEnd = col]
<1>1. /\ ~Parted(e)
      /\ \/ ~e.editing /\ \E r \in {r2, r4} : Sets(r)
         \/ e.editing /\ \E r \in {r1, r3} : Sets(r)
  <2>1. ~Parted(e) /\ (Sets(IF e.editing THEN r1 ELSE r2) \/ Sets(IF e.editing THEN r3 ELSE r4))
        BY DEF StartSelect, EndSelect
  <2> HIDE DEF r1, r2, r3, r4
  <2> QED BY <2>1
<1>2. /\ Good(e) /\ InLines(e) /\ e \in Editors /\ Selected(e)
      /\ col \in Offsets /\ col <= Len(e.buffer) /\ e.curLine \in Offsets
      /\ e.editing => Typing(e) /\ e.inEdit \in 0 .. Len(e.bufEdit)
                      /\ c \in Offsets /\ e.inEdit \in Offsets
      BY <1>1, CursorOffsets DEF Chosen
<1>a. c = e.curLine + e.inEdit
      OBVIOUS
<1> HIDE DEF c, col
<1>3. CASE ~e.editing /\ \E r \in {r2, r4} : Sets(r)
  <2>1. /\ r2 \in Editors /\ r4 \in Editors
        /\ r2.selEnd = e.selEnd /\ r4.selEnd = col
        BY <1>2 DEF Editors
  <2>2. \A r \in {r2, r4} :
          /\ r.buffer = e.buffer /\ r.lenLines = e.lenLines /\ r.totalLines = e.totalLines
          /\ r.y = e.y /\ r.curLine = e.curLine /\ r.editing = e.editing /\ r.bufEdit = e.bufEdit
          /\ r.inEdit = e.inEdit /\ r.x = e.x /\ r.restCharsInLine = e.restCharsInLine
        BY <1>2 DEF Editors
  <2> HIDE DEF r2, r4
  <2>3. PICK r \in {r2, r4} : Sets(r)
        BY <1>3
  <2>4. /\ r \in Editors
        /\ r.buffer = e.buffer /\ r.lenLines = e.lenLines /\ r.totalLines = e.totalLines
        /\ r.y = e.y /\ r.curLine = e.curLine /\ r.editing = e.editing /\ r.bufEdit = e.bufEdit
        /\ r.inEdit = e.inEdit /\ r.x = e.x /\ r.restCharsInLine = e.restCharsInLine
        /\ r.selEnd = e.selEnd \/ r.selEnd = col
        BY <2>1, <2>2
  <2>5. Points(r, e)
        BY <2>4 DEF Points
  <2>6. Good(r)
        BY <1>2, <2>4, <2>5, SamePlace
  <2>7. Resting(r)
        BY <1>3, <2>4, <2>6 DEF Resting, Good
  <2>8. e.selEnd <= Len(e.buffer)
        BY <1>2, <1>3 DEF Selected, SelTo, Text
  <2> QED BY <1>2, <2>3, <2>4, <2>7, <2>8, RestSets
<1>4. CASE e.editing /\ \E r \in {r1, r3} : Sets(r)
  <2> DEFINE S == e.selNewStart
             E == e.selNewEnd
             ls == e.selLineStart
             le == e.selLineEnd
             k == e.curLine
             i == e.inEdit
             L == Len(e.bufEdit)
             R == Behind(e)
             torn(o, l) == o >= k /\ l # o - k /\ (o - k <= L \/ l <= L)
  <2>1. /\ r1 \in Editors /\ r3 \in Editors
        /\ r1.selNewStart = c /\ r1.selNewEnd = E /\ r1.selLineStart = i /\ r1.selLineEnd = le
        /\ r3.selNewStart = S /\ r3.selNewEnd = c /\ r3.selLineStart = ls /\ r3.selLineEnd = i
        BY <1>2, <1>4 DEF Editors
  <2>2. \A r \in {r1, r3} :
          /\ r.buffer = e.buffer /\ r.lenLines = e.lenLines /\ r.totalLines = e.totalLines
          /\ r.y = e.y /\ r.curLine = e.curLine /\ r.editing = e.editing /\ r.bufEdit = e.bufEdit
          /\ r.inEdit = e.inEdit /\ r.x = e.x /\ r.restCharsInLine = e.restCharsInLine
        BY <1>2 DEF Editors
  <2> HIDE DEF r1, r3
  <2>3. PICK r \in {r1, r3} : Sets(r)
        BY <1>4
  <2>4. /\ r \in Editors
        /\ r.buffer = e.buffer /\ r.lenLines = e.lenLines /\ r.totalLines = e.totalLines
        /\ r.y = e.y /\ r.curLine = k /\ r.editing /\ r.bufEdit = e.bufEdit
        /\ r.inEdit = e.inEdit /\ r.x = e.x /\ r.editing = e.editing
        /\ r.restCharsInLine = e.restCharsInLine
        /\ \/ r.selNewStart = c /\ r.selNewEnd = E /\ r.selLineStart = i /\ r.selLineEnd = le
           \/ r.selNewStart = S /\ r.selNewEnd = c /\ r.selLineStart = ls /\ r.selLineEnd = i
        BY <1>4, <2>1, <2>2
  <2>5. Points(r, e) /\ OnLine(r, e)
        BY <2>4 DEF Points, OnLine
  <2>6. Good(r)
        BY <1>2, <2>4, <2>5, SamePlace
  <2>7. /\ Behind(r) = R /\ Len(Text(e)) = k + L + R /\ R \in Nat /\ k \in Nat /\ L \in Nat
        BY <1>2, <1>4, <2>5, SameBehind, TextIs
  <2>8. Len(Text(r)) = k + L + R
    <3> HIDE DEF R
    <3> QED BY <2>4, <2>6, <2>7, TextIs DEF L
  <2>9. /\ S \in Nat /\ E \in Nat /\ ls \in Nat /\ le \in Nat
        /\ Stale(S, ls, k, L) /\ Stale(E, le, k, L) /\ E <= k + L + R
    <3>1. S \in Nat /\ E \in Nat /\ ls \in Nat /\ le \in Nat
          BY <1>2, EndsInLine
    <3>2. Stale(S, ls, k, L) /\ Stale(E, le, k, L) /\ E <= k + L + R
          BY <1>2, <1>4, <2>7 DEF Selected, SelTo, LineSel, Spans
    <3> QED BY <3>1, <3>2
  <2>10. i \in 0 .. L /\ c = k + i
         BY <1>2, <1>4, <1>a
  <2>11. ~Torn(r) /\ r.selNewStart < r.selNewEnd =>
           ~torn(r.selNewStart, r.selLineStart) /\ ~torn(r.selNewEnd, r.selLineEnd)
         BY <2>4 DEF Torn
  <2>12. ASSUME ~Torn(r) PROVE Selected(r)
    <3> DEFINE s2 == r.selNewStart
               e2 == r.selNewEnd
               ls2 == r.selLineStart
               le2 == r.selLineEnd
    <3>1. s2 < e2 => ~torn(s2, ls2) /\ ~torn(e2, le2)
          BY <2>11, <2>12
    <3>2. \/ s2 = k + i /\ e2 = E /\ ls2 = i /\ le2 = le
          \/ s2 = S /\ e2 = k + i /\ ls2 = ls /\ le2 = i
          BY <2>4, <2>10
    <3> HIDE DEF s2, e2, ls2, le2, S, E, ls, le, k, i, L, R
    <3>3. /\ (k + i < E => ~torn(E, le)) => Spans(k + i, E, i, le, k, L)
          /\ (S < k + i => ~torn(S, ls)) => Spans(S, k + i, ls, i, k, L)
          BY <2>7, <2>9, <2>10, JoinedEnds
    <3>4. Spans(s2, e2, ls2, le2, k, L)
      <4>1. CASE s2 = k + i /\ e2 = E /\ ls2 = i /\ le2 = le
        <5>1. k + i < E => ~torn(E, le)
              BY <3>1, <4>1
        <5>2. Spans(k + i, E, i, le, k, L)
              BY <3>3, <5>1
        <5> QED BY <4>1, <5>2
      <4>2. CASE s2 = S /\ e2 = k + i /\ ls2 = ls /\ le2 = i
        <5>1. S < k + i => ~torn(S, ls)
              BY <3>1, <4>2
        <5>2. Spans(S, k + i, ls, i, k, L)
              BY <3>3, <5>1
        <5> QED BY <4>2, <5>2
      <4> QED BY <3>2, <4>1, <4>2
    <3>5. e2 <= k + L + R
          BY <2>7, <2>9, <2>10, <3>2
    <3>6. LineSel(r)
          BY <2>4, <3>4 DEF LineSel, s2, e2, ls2, le2, k, L
    <3>7. SelTo(r) <= Len(Text(r))
          BY <2>4, <2>8, <3>5 DEF SelTo, e2
    <3> QED BY <3>6, <3>7 DEF Selected
  <2> QED BY <2>3, <2>6, <2>12, SetsStep
<1> QED BY <1>1, <1>3, <1>4

(* The blanks that fill a line shorten nothing.                            *)
LEMMA FilledSelected ==
  ASSUME NEW d, InLines(d), NEW n \in Nat, n > 0, NEW no, no = FALSE,
         Len(insertBuffer(d, Blanks(n), no).buffer) <= Reach,
         hasSelection(d) => d.selEnd <= Len(d.buffer)
  PROVE  LET r == insertBuffer(d, Blanks(n), no)
         IN  /\ Len(r.buffer) \in Nat /\ Len(d.buffer) <= Len(r.buffer)
             /\ hasSelection(d) => r.selEnd <= Len(r.buffer)
             /\ ~hasSelection(d) => r.selStart = d.selStart /\ r.selEnd = d.selEnd
<1> DEFINE p == Blanks(n)
           r == insertBuffer(d, p, no)
           i == Inserted(d, p)
           s == i.s
           point == i.point
           extra == i.extra
           L == Len(p)
           N == Len(d.buffer)
           M == Len(r.buffer)
<1>1. p \in Strings /\ L = n /\ p[1] # EOL
  <2>1. p \in Strings /\ L = n /\ NoEnds(p)
        BY BlanksAre
  <2> HIDE DEF p
  <2>2. 1 \in 1 .. Len(p)
        BY <2>1
  <2> HIDE DEF EOL
  <2> QED BY <2>1, <2>2 DEF NoEnds
<1>2. M <= Reach /\ ~no
      OBVIOUS
<1> HIDE DEF p
<1>3. Place(i, d, Starts(d.lenLines), d.y)
      BY InsertedIs
<1>4. s = point
      BY <1>1 DEF Inserted
<1>5. N \in Nat
  <2>1. d.buffer \in Seq(Chars)
        BY DEF InLines, Editors, Strings
  <2> QED BY <2>1, LenProperties
<1>6. /\ M \in Nat /\ M = N + Grows(i, p)
      /\ ~hasSelection(d) => r.selStart = d.selStart /\ r.selEnd = d.selEnd
      /\ hasSelection(d) /\ d.selEnd <= N /\ ~(s < point) => r.selEnd <= M
  <2>1. Len(p) > 0
        BY <1>1
  <2> QED BY <1>1, <1>2, <2>1, InsertedSelected
<1>7. Grows(i, p) = extra + L - (point - s) /\ s \in Nat /\ point \in Nat /\ extra \in Nat
      BY <1>3 DEF Grows, Place
<1> HIDE DEF i, s, point, extra, N, M, r, L
<1>8. N <= M
      BY <1>1, <1>4, <1>5, <1>6, <1>7
<1>9. ~(s < point)
      BY <1>4, <1>7
<1>10. hasSelection(d) => d.selEnd <= N
       BY DEF N
<1> QED BY <1>6, <1>8, <1>9, <1>10 DEF M, N, r, p

(* Joining the next line, filled or not.                                   *)
LEMMA JoinedSel ==
  ASSUME Chosen, NEW fl, InLines(fl), ~fl.editing, NEW bad, Becomes(EditLine(fl), bad),
         Filled(fl) => bad,
         hasSelection(flushLine(e)) /\ Len(fl.buffer) <= Reach => fl.selEnd <= Len(fl.buffer),
         ~hasSelection(flushLine(e)) => fl.selStart = flushLine(e).selStart
                                        /\ fl.selEnd = flushLine(e).selEnd
  PROVE  SelStep
<1> DEFINE f == flushLine(e)
           r == EditLine(fl)
<1>1. Typing(r) /\ Good(r) /\ r.editing
      BY EditLineTyping DEF Typing
<1>2. Fits(r) /\ Becomes(r, bad)
      BY DEF Becomes
<1>3. /\ r.buffer = fl.buffer /\ Len(r.bufEdit) - LineWidth(fl) \in Nat
      /\ LineWidth(r) = LineWidth(fl)
      BY EditLineIs
<1>a. ASSUME ~Filled(fl), hasSelection(fl) => fl.selEnd <= Len(fl.buffer), Len(Text(r)) + 2 <= Reach
      PROVE  /\ LineSel(r)
             /\ hasSelection(fl) => Selected(r)
             /\ ~hasSelection(fl) => r.selNewStart = fl.selStart /\ r.selNewEnd = fl.selEnd
      BY <1>a, EditLineSelected
<1> HIDE DEF r, f
<1>4. Len(fl.buffer) <= Reach /\ Len(Text(r)) + 2 <= Reach /\ Len(fl.buffer) <= Len(Text(r))
      /\ Len(fl.buffer) \in Nat /\ Len(Text(r)) \in Nat
  <2> DEFINE n == Len(fl.buffer)
             t == Len(Text(r))
             c == r.curLine
             l == Len(r.bufEdit)
             w == LineWidth(r)
             R == Behind(r)
  <2>1. /\ n = c + w + R /\ t = c + l + R /\ c \in Nat /\ w \in Nat /\ R \in Nat /\ l \in Nat
        /\ n \in Nat /\ t \in Nat
        BY <1>1, <1>3, TextIs
  <2>2. l - w \in Nat
        BY <1>3
  <2>3. n <= MaxLen /\ t <= MaxLen
        BY <1>2, <1>3 DEF Fits, bufLen
  <2>4. MaxLen \in Nat /\ MaxColumn \in Nat
        BY TextAssumption
  <2> HIDE DEF n, t, c, l, w, R
  <2>5. n <= Reach /\ t + 2 <= Reach /\ n <= t /\ n \in Nat /\ t \in Nat
        BY <2>1, <2>2, <2>3, <2>4 DEF Reach
  <2> QED BY <2>5 DEF n, t
<1>5. hasSelection(fl) => fl.selEnd <= Len(fl.buffer)
  <2>1. CASE hasSelection(f)
        BY <1>4, <2>1 DEF f
  <2>2. CASE ~hasSelection(f)
        BY <2>2 DEF hasSelection, f
  <2> QED BY <2>1, <2>2
<1>6. ASSUME Unmoved(r, bad) PROVE Selected(r)
  <2>1. ~bad /\ ~Filled(fl) /\ (Forgotten(f) => Text(r) = Text(e))
        BY <1>6 DEF Unmoved, f
  <2>2. /\ LineSel(r)
        /\ hasSelection(fl) => Selected(r)
        /\ ~hasSelection(fl) => r.selNewStart = fl.selStart /\ r.selNewEnd = fl.selEnd
        BY <1>4, <1>5, <1>a, <2>1
  <2>3. CASE hasSelection(fl)
        BY <2>2, <2>3
  <2>4. CASE ~hasSelection(fl)
    <3>1. SelTo(r) = fl.selEnd
          BY <1>1, <2>2, <2>4 DEF SelTo
    <3>2. SelTo(r) <= Len(Text(r))
      <4>1. CASE hasSelection(f)
        <5>1. fl.selEnd <= Len(fl.buffer)
              BY <1>4, <4>1 DEF f
        <5>2. fl.selEnd \in Nat
              BY EndsInLine DEF InLines
        <5> QED BY <1>4, <3>1, <5>1, <5>2
      <4>2. CASE ~hasSelection(f)
        <5>1. SelTo(r) = f.selEnd
              BY <3>1, <4>2 DEF f
        <5> QED BY <1>1, <2>1, <4>2, <5>1, EmptyEnd DEF f
      <4> QED BY <4>1, <4>2
    <3> QED BY <2>2, <3>2 DEF Selected
  <2> QED BY <2>3, <2>4
<1> QED BY <1>1, <1>2, <1>6, BecomesStep

LEMMA ErasedSel ==
  ASSUME Chosen, e.x < LineWidth(flushLine(e)), Becomes(EraseRight(EditLine(flushLine(e))), FALSE)
  PROVE  SelStep
<1> DEFINE f == flushLine(e)
           g == EditLine(f)
           r == EraseRight(g)
           no == FALSE
<1>1. /\ InLines(f) /\ ~f.editing /\ f.x = e.x /\ f.curLine = e.curLine
      /\ (hasSelection(f) => f.selEnd <= Len(f.buffer)) /\ e.x \in Nat
      BY FlushHas DEF Resting
<1>2. Len(Text(g)) + 2 <= Reach
      BY WithinReach DEF Chosen
<1>3. Becomes(r, no) /\ e.x < LineWidth(f)
      OBVIOUS
<1> HIDE DEF f, no
<1>4. ~Filled(f)
  <2>1. LineWidth(f) \in Nat
        BY <1>1, CursorLine
  <2>2. ~(f.x > LineWidth(f))
        BY <1>1, <1>3, <2>1
  <2> QED BY <2>2 DEF Filled
<1>5. /\ hasSelection(f) => g.selNewStart < g.selNewEnd /\ Selected(g)
      /\ ~hasSelection(f) => /\ g.selNewStart = f.selStart /\ g.selNewEnd = f.selEnd
      BY <1>1, <1>2, <1>4, EditLineSelected
<1>6. Typing(g) /\ g.x = f.x /\ Len(g.bufEdit) >= LineWidth(f) /\ g.curLine = f.curLine
      BY <1>1, EditLineTyping, EditLineIs
<1> HIDE DEF g
<1>7. g.x < Len(g.bufEdit)
  <2> DEFINE l == Len(g.bufEdit)
             w == LineWidth(f)
  <2>1. l \in Nat /\ w \in Nat /\ l >= w /\ e.x < w /\ g.x = e.x /\ e.x \in Nat
    <3>1. l \in Nat
          BY <1>6, TextIs DEF Typing
    <3>2. w \in Nat
          BY <1>1, CursorLine
    <3> QED BY <1>1, <1>3, <1>6, <3>1, <3>2
  <2> HIDE DEF l, w
  <2>2. g.x < l
        BY <2>1
  <2> QED BY <2>2 DEF l
<1>8. Good(r)
      BY <1>6, <1>7, EraseRightTyping DEF Typing
<1>9. Unselected(r, g)
  <2>1. Blank \in Chars
        BY GivenTexts
  <2> QED BY <1>6, <2>1, LineUnselected
<1>10. ASSUME Unmoved(r, no) PROVE Selected(r)
  <2>1. Forgotten(f) => Text(r) = Text(e)
        BY <1>10 DEF Unmoved, f
  <2>2. CASE hasSelection(f)
        BY <1>2, <1>5, <1>6, <1>7, <2>2, EraseRightSelected
  <2>3. CASE ~hasSelection(f)
    <3>1. f.selStart \in Nat /\ f.selEnd \in Nat
          BY <1>1, EndsInLine DEF InLines
    <3>2. g.selNewStart >= g.selNewEnd
          BY <1>5, <2>3, <3>1 DEF hasSelection
    <3>3. SameSel(r, g) /\ r.editing /\ r.curLine = e.curLine
          BY <1>1, <1>6, <1>9, <3>2 DEF Unselected, OnLine, Typing
    <3> HIDE DEF r
    <3>4. SameSel(r, EditLine(flushLine(e)))
          BY <3>3 DEF g, f
    <3> QED BY <1>8, <2>1, <2>3, <3>3, <3>4, EmptyEdited DEF f
  <2> QED BY <2>2, <2>3
<1> HIDE DEF r
<1> QED BY <1>3, <1>8, <1>10, BecomesStep

LEMMA DelCharSel ==
  ASSUME Chosen, NEW stale, DelChar(stale)
  PROVE  SelStep
<1> DEFINE f == flushLine(e)
           w == LineWidth(f)
           end == f.curLine + w
           last == f.curLine + f.lenLines[f.y + 1]
           d == deleteRange(f, end, last, stale)
           gap == e.x - w
           no == FALSE
           filled == IF gap > 0 THEN insertBuffer(d, Blanks(gap), no) ELSE d
           r1 == EraseRight(e)
           r2 == EraseRight(EditLine(f))
           r3 == EditLine(filled)
           behind == gap > 0 /\ StaysBehind(d, Blanks(gap))
           bad == /\ e.y < e.totalLines
                  /\ behind \/ Filled(filled)
<1>1. /\ ~Parted(e)
      /\ \/ e.editing /\ e.restCharsInLine # 0 /\ Becomes(r1, no)
         \/ e.x < w /\ Becomes(r2, no)
         \/ e.y < e.totalLines /\ Becomes(r3, bad)
         \/ ~(e.y < e.totalLines) /\ Becomes(f, bad)
  <2>1. /\ ~Parted(e)
        /\ \/ e.editing /\ e.restCharsInLine # 0 /\ Becomes(r1, no)
           \/ e.x < w /\ Becomes(r2, no)
           \/ Becomes(IF e.y < e.totalLines THEN r3 ELSE f, bad)
        BY DEF DelChar
  <2> HIDE DEF r1, r2, r3, f, w, bad, no
  <2> QED BY <2>1
<1>2. CASE e.editing /\ e.restCharsInLine # 0 /\ Becomes(r1, no)
  <2>1. Typing(e)
        BY <1>1, <1>2, TypingInEdition DEF Chosen, Fine
  <2>2. ~(Surplus(e) /\ e.inEdit = Len(e.bufEdit))
        BY DEF DelChar
  <2>3. e.inEdit < Len(e.bufEdit)
        BY <1>2, <2>1, <2>2, SomethingBehind DEF Typing
  <2> QED BY <1>1, <1>2, <2>3, EraseRightSel
<1>3. CASE e.x < w /\ Becomes(r2, no)
      BY <1>3, ErasedSel
<1>4. /\ Resting(f) /\ InLines(f) /\ f.x = e.x /\ f.y = e.y /\ f.totalLines = e.totalLines
      /\ (hasSelection(f) => f.selEnd <= Len(f.buffer))
      BY FlushHas
<1>5. CASE ~(e.y < e.totalLines) /\ Becomes(f, bad)
  <2> HIDE DEF bad
  <2>1. hasSelection(f) /\ ~bad => f.selEnd <= Len(f.buffer)
        BY <1>4
  <2>2. Becomes(f, bad) /\ Resting(f)
        BY <1>4, <1>5
  <2> QED BY <2>1, <2>2, RestBecomes
<1>6. CASE e.y < e.totalLines /\ Becomes(r3, bad)
  <2> HIDE DEF f
  <2>1. /\ f.y + 1 \in 0 .. f.totalLines
        /\ last \in 0 .. Starts(f.lenLines)[f.y + 1] + LenWithoutCRLF(f, f.y + 1)
        BY <1>4, <1>6, NextLine
  <2>2. w \in Nat /\ f.x \in Nat /\ f.curLine \in Nat /\ end \in Nat
        BY <1>4, CursorLine
  <2> DEFINE k == f.y + 1
  <2> HIDE DEF end, last, k, w
  <2>3. Resting(d)
        BY <1>4, <2>1, <2>2, DeleteGood DEF k
  <2>4. last \in 0 .. Len(f.buffer)
        BY <1>4, <2>1, InLineOffset DEF k
  <2>5. /\ hasSelection(f) => d.selEnd <= Len(d.buffer)
        /\ ~hasSelection(f) => d.selStart = f.selStart /\ d.selEnd = f.selEnd
        /\ Len(d.buffer) \in Nat
        BY <1>4, <2>2, <2>4, DeletedSelected
  <2> HIDE DEF d
  <2>6. hasSelection(d) => d.selEnd <= Len(d.buffer)
    <3>1. CASE hasSelection(f)
          BY <2>5, <3>1
    <3>2. CASE ~hasSelection(f)
          BY <2>5, <3>2 DEF hasSelection
    <3> QED BY <3>1, <3>2
  <2>7. /\ InLines(filled) /\ ~filled.editing
        /\ hasSelection(f) /\ Len(filled.buffer) <= Reach => filled.selEnd <= Len(filled.buffer)
        /\ ~hasSelection(f) => filled.selStart = f.selStart /\ filled.selEnd = f.selEnd
    <3>1. CASE gap > 0
      <4> DEFINE p == Blanks(gap)
                 g == insertBuffer(d, p, no)
      <4>1. gap \in Nat /\ gap > 0 /\ gap \in Int
            BY <1>4, <2>2, <3>1
      <4>a. ~no /\ no = FALSE /\ filled = g
            BY <3>1
      <4> HIDE DEF gap, no, filled
      <4>2. p \in Strings /\ Len(p) = gap
            BY <4>1, BlanksAre
      <4>3. Len(g.buffer) <= Reach =>
              /\ Len(g.buffer) \in Nat /\ Len(d.buffer) <= Len(g.buffer)
              /\ hasSelection(d) => g.selEnd <= Len(g.buffer)
              /\ ~hasSelection(d) => g.selStart = d.selStart /\ g.selEnd = d.selEnd
        <5> SUFFICES ASSUME Len(g.buffer) <= Reach
                     PROVE  /\ Len(g.buffer) \in Nat /\ Len(d.buffer) <= Len(g.buffer)
                            /\ hasSelection(d) => g.selEnd <= Len(g.buffer)
                            /\ ~hasSelection(d) => g.selStart = d.selStart /\ g.selEnd = d.selEnd
            OBVIOUS
        <5>1. InLines(d)
              BY <2>3 DEF Resting
        <5> QED BY <2>6, <4>1, <4>a, <5>1, FilledSelected
      <4>b. ~hasSelection(d) => g.selStart = d.selStart /\ g.selEnd = d.selEnd
            BY <2>3, <4>a DEF insertBuffer, Resting, InLines, Editors
      <4> HIDE DEF p
      <4>4. InLines(g) /\ SameLine(g, d)
        <5>1. Len(p) > 0 /\ InLines(d)
              BY <2>3, <4>1, <4>2 DEF Resting
        <5> QED BY <4>2, <4>a, <5>1, insertBufferLines
      <4> HIDE DEF g
      <4>5. ~g.editing
            BY <2>3, <4>4 DEF SameLine, Resting
      <4>6. hasSelection(f) /\ Len(g.buffer) <= Reach => g.selEnd <= Len(g.buffer)
        <5> SUFFICES ASSUME hasSelection(f), Len(g.buffer) <= Reach PROVE g.selEnd <= Len(g.buffer)
            OBVIOUS
        <5>1. CASE hasSelection(d)
              BY <4>3, <5>1
        <5>2. CASE ~hasSelection(d)
          <6>1. g.selEnd = d.selEnd /\ d.selEnd <= Len(d.buffer) /\ Len(d.buffer) <= Len(g.buffer)
                /\ Len(g.buffer) \in Nat
                BY <2>5, <4>3, <5>2
          <6>2. d.selEnd \in Nat
                BY <2>3, EndsInLine DEF Resting, InLines
          <6> QED BY <2>5, <6>1, <6>2
        <5> QED BY <5>1, <5>2
      <4>7. ~hasSelection(f) => g.selStart = f.selStart /\ g.selEnd = f.selEnd
            BY <2>5, <4>b DEF hasSelection
      <4> QED BY <4>4, <4>5, <4>6, <4>7, <4>a
    <3>2. CASE ~(gap > 0)
      <4>1. filled = d
            BY <3>2
      <4> HIDE DEF filled, gap
      <4> QED BY <2>3, <2>5, <4>1 DEF Resting
    <3> QED BY <3>1, <3>2
  <2> HIDE DEF filled, behind, no
  <2>8. Filled(filled) => bad
        BY <1>6
  <2>9. Becomes(EditLine(filled), bad)
        BY <1>6
  <2> HIDE DEF bad
  <2> QED BY <2>7, <2>8, <2>9, JoinedSel DEF f
<1> HIDE DEF r1, r2, r3, f, w, bad, no
<1> QED BY <1>1, <1>2, <1>3, <1>5, <1>6

-----------------------------------------------------------------------------
(* The selection, through everything that happens.                         *)
LEMMA SelAtFirst == Init => SelInv
<1> SUFFICES ASSUME Init PROVE Selected(e)
    BY DEF SelInv
<1>1. PICK t \in Files : e = Loaded(t)
      BY DEF Init
<1>2. Good(e) /\ ~e.editing /\ e.selEnd = 0
  <2>1. t \in Strings
        BY GivenTexts
  <2>2. Good(e)
        BY <1>1, <2>1, LoadedGood
  <2> QED BY <1>1, <2>2 DEF Loaded
<1>3. Len(Text(e)) \in Nat
      BY <1>2, TextIs
<1>4. SelTo(e) = 0
      BY <1>2 DEF SelTo
<1> QED BY <1>2, <1>3, <1>4 DEF Selected

(* insertBuffer() takes the blanks that a leading end of a line eats off   *)
(* the end of the selection it makes, not only off the length.             *)
PiecesStartInLines == \A p \in Clips : p[1] # EOL

LEMMA ChosenStays ==
  ASSUME PiecesStartInLines, Chosen, Next
  PROVE  SelStep
<1>1. use = "select"
      BY DEF Chosen
<1>2. ASSUME NEW c \in Keys, TypeKey(c) PROVE SelStep
      BY <1>2, TypeKeySel
<1>3. CASE toggleInsMode
      BY <1>3, ToggleSel
<1>4. ASSUME NEW stale \in BOOLEAN, BackSpace(stale) PROVE SelStep
      BY <1>4, BackSpaceSel
<1>5. ASSUME NEW stale \in BOOLEAN, DelChar(stale) PROVE SelStep
      BY <1>5, DelCharSel
<1>6. ASSUME NEW stale \in BOOLEAN, DelEnd(stale) \/ DelStart(stale) PROVE SelStep
      BY <1>6, DelEndStartSel
<1>7. ASSUME NEW stale \in BOOLEAN, DelLine(stale) PROVE SelStep
      BY <1>7, DelLineSel
<1>8. ASSUME NEW stale \in BOOLEAN, CutBlock(stale) PROVE SelStep
      BY <1>8, CutBlockSel
<1>9. CASE newLine \/ \E p \in Clips : insertText(p)
      BY <1>9, InsertsSel
<1>10. ASSUME NEW p \in Clips, clipPaste(p) PROVE SelStep
       BY <1>10, PasteSel DEF PiecesStartInLines
<1>11. CASE StartSelect \/ EndSelect
       BY <1>11, SelectSel
<1>12. CASE MarkLine \/ Indent \/ UnIndent
       BY <1>12, BlocksSel
<1>13. ~(SetMarker \/ GotoMark \/ SetSpecialLine)
       BY <1>1 DEF SetMarker, GotoMark, SetSpecialLine
<1>14. CASE CharLeft \/ LineStart_
       BY <1>14, CharLeftSel
<1>15. CASE CharRight
       BY <1>15, CharRightSel
<1>16. CASE LineEnd
       BY <1>16, LineEndSel
<1>17. CASE LineUp \/ LineDown
       BY <1>17, LineUpDownSel
<1> QED BY <1>2, <1>3, <1>4, <1>5, <1>6, <1>7, <1>8, <1>9, <1>10, <1>11, <1>12, <1>13, <1>14,
           <1>15, <1>16, <1>17 DEF Next

LEMMA SelStays ==
  ASSUME PiecesStartInLines, Lined, SelInv, [Next]_vars
  PROVE  SelInv'
<1>1. CASE UNCHANGED vars
  <2>1. e' = e /\ use' = use /\ known' = known
        BY <1>1 DEF vars
  <2> QED BY <2>1 DEF SelInv
<1>2. CASE Next
  <2>1. ~known /\ use' = use
        BY <1>2, NextIsAStep DEF Steps, Becomes, Sets
  <2>2. CASE use = "select"
    <3>1. Chosen
          BY <2>1, <2>2 DEF Chosen, SelInv, Lined
    <3> QED BY <1>2, <3>1, ChosenStays, StepKeepsSel
  <2>3. CASE use # "select"
        BY <2>1, <2>3 DEF SelInv
  <2> QED BY <2>2, <2>3
<1> QED BY <1>1, <1>2

LEMMA SelectedInText == SelInv => SelectsText
BY DEF SelInv, SelectsText, Selected, SelectionInText

(* The selection stays inside the text through edits in the buffer, in the *)
(* line in edition, and as the line goes back, until a step the model says *)
(* the code gets wrong; for pieces of text that begin with the end of a    *)
(* line clipPaste() selects too little, or wraps around.                   *)
THEOREM TextSelectsText ==
  ASSUME PiecesStartInLines
  PROVE  Spec => []SelectsText
<1>1. Init => Lined /\ SelInv
      BY LinedAtFirst, SelAtFirst
<1>2. Lined /\ SelInv /\ [Next]_vars => Lined' /\ SelInv'
      BY LinedStays, SelStays
<1>3. Lined /\ SelInv => SelectsText
      BY SelectedInText
<1> QED BY <1>1, <1>2, <1>3, PTL DEF Spec
=============================================================================
