----------------------------- MODULE TextBuffer -----------------------------
(***************************************************************************)
(* The text of an editor window (TCEditor, mainsrc/ceditor.cc).  The text  *)
(* is one buffer of characters; lenLines has the length of each line; the  *)
(* cursor is a line, a column and the offset of the line.  A line that is  *)
(* being typed lives in bufEdit, outside the buffer, until the cursor      *)
(* leaves it or a command needs the buffer (flushLine).  A marker, the     *)
(* selection and the special lines point into the text, and every command  *)
(* moves them with its own formulas, for the buffer and for bufEdit.       *)
(*                                                                         *)
(* e is the editor.  Commands are composed of calls that each change most  *)
(* of it, so a call is an operator from editors to editors.  Offsets and   *)
(* columns count from 0; unsigned ones are taken modulo Unsigned.  Left    *)
(* out: tabs, CR-LF, allocation, colours, the undo history (see UndoRing), *)
(* rectangles, wrapping and automatic indentation.  PersistentBlocks is on.*)
(***************************************************************************)
EXTENDS Integers, Sequences, FiniteSets, FiniteSetsExt, SequencesExt

CONSTANTS
  Files,       \* the texts a file may have
  Keys,        \* what is typed
  Clips,       \* what is pasted or inserted
  Uses,        \* subset of {"select", "mark", "special"}: what a run looks at
  Tracked,     \* a character that occurs at most once, and is never typed
  Unsigned,    \* 2^w, far beyond any offset
  Amount,      \* UnIndentBlock()'s
  MaxLen,      \* bound: characters of the text, and where restCharsInLine ends
  MaxColumn    \* bound: columns the cursor goes to

VARIABLES
  e,           \* the editor
  use,         \* what this window is used for
  tracked,     \* where Tracked was when the marker, selection or line was set
  known        \* the last step is one the code gets wrong for the selection or
               \* the marker (each is named below); nothing follows it

vars == <<e, use, tracked, known>>

Blank == " "
EOL == "\n"
Chars == {Tracked, Blank, EOL} \cup Keys \cup UNION {Range(p) : p \in Clips \cup Files}

(* A line is ended by a command, not by a key; nothing is pasted when the   *)
(* clipboard is empty; offsets do not get near to where they wrap.          *)
ASSUME TextAssumption ==
  /\ EOL \notin Keys
  /\ \A p \in Clips \cup Files : p \in Seq(Range(p))
  /\ <<>> \notin Clips
  /\ \A t \in Files : Len(t) <= MaxLen
  /\ Uses \subseteq {"select", "mark", "special"}
  /\ Amount \in Nat /\ MaxLen \in Nat /\ MaxColumn \in Nat /\ Unsigned \in Nat
  /\ Unsigned >= 4 * (MaxLen + MaxColumn + 2)

U(n) == n % Unsigned
Signed(n) == IF U(n) >= Unsigned \div 2 THEN U(n) - Unsigned ELSE U(n)

Part(s, a, b) == SubSeq(s, a + 1, b)
Blanks(n) == [k \in 1 .. n |-> Blank]
(* Of the numbers lens, the sum of those behind the first from, up to to.  *)
Total(lens, from, to) ==
  LET sum[k \in 0 .. Len(lens)] == IF k = 0 THEN 0 ELSE sum[k - 1] + lens[k]
  IN  sum[to] - sum[from]
(* The characters of s up to its last one that is not a blank. *)
Used(s) == Max({0} \cup {k \in DOMAIN s : s[k] # Blank})
Newlines(s) == {k \in DOMAIN s : s[k] = EOL}
Nth(S, j) == CHOOSE m \in S : Cardinality({l \in S : l <= m}) = j

bufLen(d) == Len(d.buffer)
LenWithoutCRLF(d, y) ==
  LET end == Total(d.lenLines, 0, y + 1)
  IN  d.lenLines[y + 1] - (IF d.lenLines[y + 1] > 0 /\ d.buffer[end] = EOL THEN 1 ELSE 0)
LineWidth(d) == LenWithoutCRLF(d, d.y)
CurLine(d) == Part(d.buffer, d.curLine, d.curLine + LineWidth(d))
ColToPointer(d) == d.curLine + Min({d.x, LineWidth(d)})
hasSelection(d) == d.selStart < d.selEnd

-----------------------------------------------------------------------------
(* The line in edition. *)

AdjustLineSel(d, pos, dif, includeStart, toLeft) ==
  LET before(p) == IF includeStart THEN pos <= p ELSE pos < p
      moved(a, b) == [d EXCEPT !.selLineStart = U(@ + a), !.selNewStart = U(@ + a),
                               !.selLineEnd = U(@ + b), !.selNewEnd = U(@ + b)]
      over(p) == LET st == Signed(pos - p + dif)
                 IN  IF toLeft /\ dif < 0 /\ st < 0 THEN st ELSE 0
  IN  IF d.selNewStart >= d.selNewEnd THEN d
      ELSE IF before(d.selLineStart) THEN moved(dif, dif)
      ELSE IF before(d.selLineEnd) THEN moved(over(d.selLineStart), dif)
      ELSE moved(0, over(d.selLineEnd))

(* MakeEfectiveLineInEdition(): the blanks at the end go, the line goes    *)
(* back to the buffer, ended, and what follows moves.  EditLine() sets the  *)
(* values of the line in edition again before they are read.               *)
MakeEfective(d) ==
  LET eaten == Len(d.bufEdit) - Used(d.bufEdit)
      a == IF eaten > 0 /\ d.selLineEnd > 0
           THEN AdjustLineSel(d, Len(d.bufEdit), -eaten, FALSE, TRUE) ELSE d
      text == Part(d.bufEdit, 0, Used(d.bufEdit)) \o <<EOL>>
      old == d.lenLines[d.y + 1]
  IN  [d EXCEPT
        !.buffer = Part(@, 0, d.curLine) \o text \o Part(@, d.curLine + old, Len(@)),
        !.lenLines[d.y + 1] = Len(text),
        !.selStart = a.selNewStart, !.selEnd = a.selNewEnd,
        !.mark = IF d.markInLine >= 0 THEN U(d.markInLine + d.curLine)
                 ELSE IF @ > d.curLine THEN U(@ + Len(text) - old) ELSE @,
        !.editing = FALSE, !.bufEdit = <<>>, !.inEdit = 0, !.restCharsInLine = 0,
        !.markInLine = -1, !.selNewStart = 0, !.selNewEnd = 0, !.selLineStart = 0, !.selLineEnd = 0]

flushLine(d) == IF d.editing THEN MakeEfective(d) ELSE d

(* The part of the selection in the line, as EditLine() sees it. *)
SelInLine(d, added) ==
  LET start == d.curLine
      end == start + LineWidth(d)
      newEnd == d.selEnd + (IF d.selEnd > end THEN added ELSE 0)
      newStart == d.selStart + (IF d.selEnd > end /\ d.selStart > end THEN added ELSE 0)
      out == LineWidth(d) + added + 1
      inLine == IF d.selStart <= start
                THEN IF newEnd > start THEN <<0, newEnd - start>> ELSE <<0, 0>>
                ELSE IF newStart < end THEN <<newStart - start, newEnd - start>>
                ELSE <<out, out>>
  IN  IF hasSelection(d) THEN <<newStart, newEnd>> \o inLine
      ELSE <<d.selStart, d.selEnd, 0, 0>>

EditLine(d) ==
  LET lar == LineWidth(d)
      added == Max({0, d.x - lar})
      sel == SelInLine(d, added)
  IN  [d EXCEPT !.editing = TRUE,
         !.bufEdit = CurLine(d) \o Blanks(added), !.inEdit = d.x,
         !.restCharsInLine = lar + added - d.x,
         !.selNewStart = U(sel[1]), !.selNewEnd = U(sel[2]),
         !.selLineStart = U(sel[3]), !.selLineEnd = U(sel[4]),
         !.markInLine = IF d.curLine <= d.mark /\ d.mark < d.curLine + lar
                        THEN d.mark - d.curLine ELSE -1]

InEdition(d) == IF d.editing THEN d ELSE EditLine(d)

InsertCharInLine(d, c) ==
  LET p == d.inEdit
      grown == [d EXCEPT !.bufEdit = Part(@, 0, p) \o <<c>> \o Part(@, p, Len(@)),
                         !.inEdit = p + 1, !.x = @ + 1,
                         !.markInLine = IF @ >= 0 /\ @ >= p THEN @ + 1 ELSE @]
      over == [d EXCEPT !.bufEdit = Part(@, 0, p) \o <<c>> \o Part(@, p + 1, Len(@)),
                        !.inEdit = p + 1, !.x = @ + 1,
                        !.restCharsInLine = IF p < Len(d.bufEdit) THEN @ - 1 ELSE @]
  IN  IF d.overwrite THEN over ELSE AdjustLineSel(grown, p, 1, FALSE, TRUE)

(* Mutant: the marker stays when what is in front of it goes. *)
EraseLeftUnmarked(d) ==
  LET p == d.inEdit
      a == AdjustLineSel(d, p, -1, TRUE, TRUE)
  IN  [a EXCEPT !.bufEdit = Part(@, 0, p - 1) \o Part(@, p, Len(@)),
                !.inEdit = p - 1, !.x = @ - 1]

EraseLeft(d) ==
  LET p == d.inEdit
      a == AdjustLineSel(d, p, -1, TRUE, TRUE)
  IN  [a EXCEPT !.bufEdit = Part(@, 0, p - 1) \o Part(@, p, Len(@)),
                !.inEdit = p - 1, !.x = @ - 1,
                !.markInLine = IF @ >= 0 /\ @ >= p THEN @ - 1 ELSE @]

(* Mutant: the selection is not told. *)
EraseRightUnselected(d) ==
  [d EXCEPT !.bufEdit = Part(@, 0, d.inEdit) \o Part(@, d.inEdit + 1, Len(@)),
            !.restCharsInLine = @ - 1,
            !.markInLine = IF @ >= 0 /\ @ > d.inEdit THEN @ - 1 ELSE @]

EraseRight(d) ==
  LET p == d.inEdit
      a == AdjustLineSel(d, p, -1, FALSE, FALSE)
  IN  [a EXCEPT !.bufEdit = Part(@, 0, p) \o Part(@, p + 1, Len(@)),
                !.restCharsInLine = @ - 1,
                !.markInLine = IF @ >= 0 /\ @ > p THEN @ - 1 ELSE @]

(* deleteRangeLineInEdition(from,to,x), x -1 for no change: the cursor in  *)
(* bufEdit and restCharsInLine stay what they are, so that deleting in     *)
(* front of the cursor makes restCharsInLine more than is left.            *)
deleteRangeLineInEdition(d, from, to, x) ==
  LET a == [d EXCEPT !.bufEdit = Part(@, 0, from) \o Part(@, to, Len(@)),
                     !.x = IF x >= 0 THEN x ELSE @,
                     !.markInLine = IF @ >= from /\ @ < to THEN from
                                    ELSE IF @ >= to THEN @ - (to - from) ELSE @]
  IN  AdjustLineSel(a, from, from - to, TRUE, x >= 0)

-----------------------------------------------------------------------------
(* The buffer. *)

(* GotoOffSet() *)
GotoOffSet(d, o) ==
  LET y == Max({0} \cup {k \in 0 .. d.totalLines : Total(d.lenLines, 0, k) <= o})
      start == Total(d.lenLines, 0, y)
  IN  IF o > bufLen(d) THEN d
      ELSE [d EXCEPT !.y = y, !.curLine = start, !.x = o - start]

(* The first of the blanks that end at offset o. *)
BlanksBefore(s, o) == Used(Part(s, 0, o))

(* What deleteRange() makes of the selection. *)
SelWithout(d, from, to) ==
  LET n == to - from
      S == d.selStart
      E == d.selEnd
  IN  IF ~hasSelection(d) THEN <<S, E>>
      ELSE IF from < S
           THEN IF to <= S THEN <<S - n, E - n>>
                ELSE IF to > E THEN <<0, 0>> ELSE <<from, E - n>>
      ELSE IF from < E
           THEN IF to <= E THEN <<S, E - n>> ELSE <<S, from>>
      ELSE <<S, E>>

(* deleteRange(): with the end of a line behind the range, the blanks in   *)
(* front of it go too.  Behind the text is whatever was there: stale says  *)
(* whether it looks like the end of a line.  The cursor goes to the range. *)
deleteRange(d, first, last, stale) ==
  LET to == Min({last, bufLen(d)})
      ends == IF to = bufLen(d) THEN stale ELSE d.buffer[to + 1] = EOL
      from == IF ends THEN BlanksBefore(d.buffer, first) ELSE first
      y == Min({k \in 0 .. d.totalLines : Total(d.lenLines, 0, k + 1) > from})
      start == Total(d.lenLines, 0, y)
      x == first - start
      gone == Part(d.buffer, from, to)
      merged == Min({Cardinality(Newlines(gone)), d.totalLines - y})
      up == IF Cardinality(Newlines(gone)) > merged /\ y > 0 THEN 1 ELSE 0
      fromLine == y + (IF x = 0 THEN 0 ELSE 1)
      toLine == y + 1 + merged - (IF Last(gone) = EOL THEN 1 ELSE 0)
      sel == SelWithout(d, from, to)
  IN  IF first >= last THEN d
      ELSE [d EXCEPT
        !.buffer = Part(@, 0, from) \o Part(@, to, Len(@)),
        !.lenLines = Part(@, 0, y) \o <<Total(@, y, y + merged + 1) - Len(gone)>>
                     \o Part(@, y + merged + 1, Len(@)),
        !.totalLines = Max({0, @ - Cardinality(Newlines(gone))}),
        !.y = y - up, !.x = x,
        !.curLine = start - (IF up = 1 THEN d.lenLines[y] ELSE 0),
        !.nline = IF merged = 0 THEN @ ELSE IF @ >= toLine THEN @ - merged
                  ELSE IF @ >= fromLine THEN -1 ELSE @,
        !.mark = IF @ > to THEN @ - (to - from) ELSE IF @ > from THEN from ELSE @,
        !.selStart = sel[1], !.selEnd = sel[2]]

(* insertBuffer(): text goes in at the cursor, behind blanks that fill the *)
(* line up to it; when it starts with an end of line the blanks in front   *)
(* of the cursor are eaten.  The cursor goes to the end of the text.       *)
Inserted(d, p) ==
  LET lar == LineWidth(d)
      pF == Min({lar, d.x})
      point == d.curLine + pF
      s == IF p[1] = EOL THEN Max({d.curLine, BlanksBefore(d.buffer, point)}) ELSE point
  IN  [lar |-> lar, crlf |-> d.lenLines[d.y + 1] - lar, point |-> point, s |-> s,
       pF |-> pF - (point - s), extra |-> IF p[1] # EOL THEN d.x - pF ELSE 0,
       rest |-> lar - pF, allBlank |-> \A k \in 1 .. pF : CurLine(d)[k] = Blank]

insertBuffer(d, p, selectText) ==
  LET i == Inserted(d, p)
      toAdd == i.extra + Len(p) - (i.point - i.s)
      nl == Newlines(p)
      n == Cardinality(nl)
      tail == IF n = 0 THEN Len(p) ELSE Len(p) - Max(nl)
      first == i.pF + i.extra + (IF n = 0 THEN Len(p) + i.rest + i.crlf ELSE Min(nl))
      middle == [k \in 1 .. n - 1 |-> Nth(nl, k + 1) - Nth(nl, k)]
      new == IF n = 0 THEN <<first>>
             ELSE <<first>> \o middle \o <<i.rest + i.crlf + tail>>
      fromLine == d.y + (IF i.allBlank THEN 0 ELSE 1)
      sel == IF selectText THEN <<i.s + i.extra, U(i.s + toAdd)>>
             ELSE IF ~hasSelection(d) THEN <<d.selStart, d.selEnd>>
             ELSE IF i.point < d.selStart THEN <<U(d.selStart + toAdd), U(d.selEnd + toAdd)>>
             ELSE IF i.point < d.selEnd THEN <<d.selStart, U(d.selEnd + toAdd)>>
             ELSE <<d.selStart, d.selEnd>>
  IN  [d EXCEPT
        !.buffer = Part(@, 0, i.s) \o Blanks(i.extra) \o p \o Part(@, i.point, Len(@)),
        !.lenLines = Part(@, 0, d.y) \o new \o Part(@, d.y + 1, Len(@)),
        !.totalLines = @ + n,
        !.y = @ + n, !.curLine = @ + Total(new, 0, n),
        !.x = IF n = 0 THEN @ + Len(p) ELSE tail,
        !.selStart = sel[1], !.selEnd = sel[2],
        !.mark = IF @ > i.point THEN U(@ + toAdd) ELSE @,
        !.nline = IF @ >= fromLine THEN @ + n ELSE @]

-----------------------------------------------------------------------------
(* The block. *)

(* JumpLineStartSelection(): a block that starts right behind the line of  *)
(* the cursor counts as one that starts in it.                             *)
JumpLineStartSelection(d) ==
  LET at == IF d.selStart < d.curLine \/ d.selStart > d.curLine + d.lenLines[d.y + 1]
            THEN GotoOffSet(d, d.selStart) ELSE d
  IN  [at EXCEPT !.selStart = at.curLine]

(* The lines of a block that starts where the cursor's line does, and the  *)
(* offset of each.                                                         *)
LineStart(d, k) == Total(d.lenLines, 0, k)
BlockLines(d) == {k \in d.y .. d.totalLines : LineStart(d, k) < d.selEnd}
LineAt(d, k) == Part(d.buffer, LineStart(d, k), LineStart(d, k + 1))
Joined(ls) ==
  LET text[k \in 0 .. Len(ls)] == IF k = 0 THEN <<>> ELSE text[k - 1] \o ls[k]
  IN  text[Len(ls)]
AllLines(d) == [k \in 1 .. d.totalLines + 1 |-> LineAt(d, k - 1)]
LineOf(d, o) == {k \in BlockLines(d) : LineStart(d, k) <= o /\ o < LineStart(d, k + 1)}

IndentBlock(f) ==
  LET d == JumpLineStartSelection(f)
      B == BlockLines(d)
      before(k) == Cardinality({j \in B : j <= k})
  IN  [d EXCEPT
        !.buffer = Joined([k \in DOMAIN AllLines(d) |->
                            (IF k - 1 \in B THEN <<Blank>> ELSE <<>>) \o LineAt(d, k - 1)]),
        !.lenLines = [k \in DOMAIN @ |-> @[k] + (IF k - 1 \in B THEN 1 ELSE 0)],
        !.selEnd = @ + Cardinality(B),
        !.mark = IF LineOf(d, @) = {} THEN @ ELSE U(@ + before(Max(LineOf(d, @))))]

(* It does not look at where the text ends: the byte behind a last line of *)
(* blanks is taken for no blank.  When it is one, more is taken off than   *)
(* the line has, and its length wraps around.                              *)
IsUnIndentable(d, k) ==
  LET l == LineAt(d, k)
  IN  Min({Amount, Len(l)} \cup {j - 1 : j \in {i \in DOMAIN l : l[i] # Blank}})

UnIndentBlock(f) ==
  LET d == JumpLineStartSelection(f)
      B == BlockLines(d)
      eat(k) == IF k \in B THEN IsUnIndentable(d, k) ELSE 0
      eated(k) == Total([j \in DOMAIN d.lenLines |-> eat(j - 1)], 0, k)
      lineOf == Max(LineOf(d, d.mark))
  IN  [d EXCEPT
        !.buffer = Joined([k \in DOMAIN AllLines(d) |->
                            Part(LineAt(d, k - 1), eat(k - 1), d.lenLines[k])]),
        !.lenLines = [k \in DOMAIN @ |-> @[k] - eat(k - 1)],
        !.selEnd = U(@ - eated(d.totalLines + 1)),
        !.mark = IF LineOf(d, @) = {} THEN @
                 ELSE U(@ - (eated(lineOf) + (IF @ > LineStart(d, lineOf)
                                              THEN eat(lineOf) ELSE 0)))]

-----------------------------------------------------------------------------
(* What is on the screen, and where the marker and the selection are.      *)
Text(d) ==
  IF d.editing
  THEN Part(d.buffer, 0, d.curLine) \o d.bufEdit
       \o Part(d.buffer, d.curLine + LineWidth(d), bufLen(d))
  ELSE d.buffer
Mark(d) ==
  IF d.editing /\ d.markInLine >= 0 THEN d.curLine + d.markInLine
  ELSE IF d.editing /\ d.mark > d.curLine THEN d.mark + Len(d.bufEdit) - LineWidth(d)
  ELSE d.mark
SelFrom(d) == IF d.editing THEN d.selNewStart ELSE d.selStart
SelTo(d) == IF d.editing THEN d.selNewEnd ELSE d.selEnd

(* The cursor of bufEdit has parted from the one on the screen. *)
Parted(d) == d.editing /\ d.inEdit # d.x

(* restCharsInLine is more than the characters behind the cursor: what is  *)
(* deleted there is not told from the bytes behind the end of the string.  *)
Surplus(d) == d.editing /\ d.inEdit + d.restCharsInLine > Len(d.bufEdit)

At(d) == LET t == Text(d) IN Min({k - 1 : k \in {j \in DOMAIN t : t[j] = Tracked}})
HasTracked(d) == Tracked \in Range(Text(d))
LineOfTracked(d) == Cardinality({k \in Newlines(Text(d)) : k <= At(d)})
(* Only blanks in front of it in its line. *)
LeadsLine(d) ==
  LET l == Part(Text(d), 0, At(d))
  IN  \A k \in DOMAIN l : (\A j \in k .. Len(l) : l[j] # EOL) => l[k] = Blank
Selects(d) == SelFrom(d) <= At(d) /\ At(d) < SelTo(d)

(* Where Tracked is: under the marker, in the selection, first in the line *)
(* of the special line.                                                    *)
Where(d) ==
  CASE ~HasTracked(d)      -> "gone"
    [] use = "mark"        -> IF Mark(d) = At(d) THEN "at" ELSE "off"
    [] use = "select"      -> IF SelFrom(d) >= SelTo(d) THEN "none"
                              ELSE IF Selects(d) THEN "at" ELSE "off"
    [] OTHER               -> IF d.nline = LineOfTracked(d) /\ LeadsLine(d)
                              THEN "at" ELSE "off"

-----------------------------------------------------------------------------
(* The commands. *)

Fits(d) == /\ Len(Text(d)) <= MaxLen /\ bufLen(d) <= MaxLen /\ d.x <= MaxColumn
           /\ d.inEdit + d.restCharsInLine <= MaxLen

(* What this window is not used for is not followed.  Nothing reads the    *)
(* ends of the selection, nor the characters of the line, in the buffer    *)
(* while the line is in edition: MakeEfective() sets them anew.            *)
Kept(d) ==
  LET unread(k) == d.editing /\ k > d.curLine /\ k <= d.curLine + LineWidth(d)
      selects == use # "special"
  IN  [d EXCEPT
        !.buffer = [k \in DOMAIN @ |-> IF unread(k) THEN Blank ELSE @[k]],
        !.selStart = IF selects /\ ~d.editing THEN @ ELSE 0,
        !.selEnd = IF selects /\ ~d.editing THEN @ ELSE 0,
        !.selNewStart = IF selects THEN @ ELSE 0,
        !.selNewEnd = IF selects THEN @ ELSE 0,
        !.mark = IF use = "mark" /\ ~(d.editing /\ d.markInLine >= 0) THEN @ ELSE 0,
        !.markInLine = IF use = "mark" THEN @ ELSE -1,
        !.nline = IF use = "special" THEN @ ELSE -1]

(* The ends of an empty selection are not moved with the text. *)
Forgotten(d) == SelFrom(d) >= SelTo(d) /\ SelFrom(d) + SelTo(d) > 0

(* Nor is a marker brought back that was left on no text. *)
Astray(d) == use = "mark" /\ tracked # "at" /\ Mark(d) > Len(Text(d))

Becomes(d, bad) ==
  /\ ~known /\ Fits(d)
  /\ e' = Kept(d)
  /\ tracked' = IF ~HasTracked(d) THEN "gone"
                ELSE IF use = "special" /\ ~LeadsLine(d) THEN "none" ELSE tracked
  /\ known' = (bad \/ Astray(d) \/ (Forgotten(flushLine(e)) /\ Text(d) # Text(e)))
  /\ UNCHANGED use

(* EditLine() gives the ends of an empty selection as 0 in the line; an end *)
(* set next joins the other one as it was left.                            *)
Torn(d) ==
  LET torn(o, inLine) ==
        /\ o >= d.curLine /\ inLine # o - d.curLine
        /\ o - d.curLine <= Len(d.bufEdit) \/ inLine <= Len(d.bufEdit)
  IN  /\ d.editing /\ d.selNewStart < d.selNewEnd
      /\ torn(d.selNewStart, d.selLineStart) \/ torn(d.selNewEnd, d.selLineEnd)

(* What is set anew is where it is. *)
Sets(d) ==
  /\ ~known /\ Fits(d)
  /\ e' = Kept(d) /\ tracked' = Where(d)
  /\ known' = Torn(d) /\ UNCHANGED use

(* EditLine() fills the line up to the cursor, and takes a selection that   *)
(* starts right at the end of the line to start behind the filling.        *)
Filled(d) ==
  /\ ~d.editing /\ d.x > LineWidth(d) /\ hasSelection(d)
  /\ d.selStart = d.curLine + LineWidth(d)

(* handleKeyDown().  In overwrite mode a line that gets longer does not    *)
(* move the selection behind it.                                           *)
TypeKey(c) ==
  LET d == InEdition(e)
  IN  /\ ~Parted(e)
      /\ Becomes(InsertCharInLine(d, c),
                 \/ Filled(e)
                 \/ /\ d.overwrite /\ d.inEdit = Len(d.bufEdit)
                    /\ SelTo(d) > d.curLine + d.inEdit)

toggleInsMode == Becomes([e EXCEPT !.overwrite = ~@], FALSE)

BackSpace(stale) ==
  \/ /\ e.x = 0 /\ e.curLine > 0
     /\ LET f == flushLine(e)
        IN  Becomes(deleteRange(f, f.curLine - 1, f.curLine, stale), FALSE)
  \/ /\ e.x > 0 /\ ~Parted(e)
     /\ Becomes(EraseLeft(InEdition(e)), Filled(e))

(* A marker at the very place where insertBuffer() puts text stays there,  *)
(* in front of it; a selection with an end in the blanks it eats, or at    *)
(* the place, is not cut short.                                            *)
StaysBehind(d, p) ==
  LET i == Inserted(d, p)
  IN  \/ use = "mark" /\ d.mark = i.point
      \/ i.s < i.point /\ hasSelection(d) /\ d.selStart <= i.point /\ d.selEnd > i.s

(* cmcDelChar: behind the end of the line the next one is joined, filled   *)
(* with blanks up to the cursor.  At the end of a line with a surplus what  *)
(* is behind the string comes into the line: that is left out.             *)
DelChar(stale) ==
  /\ ~Parted(e) /\ ~(Surplus(e) /\ e.inEdit = Len(e.bufEdit))
  /\ LET f == flushLine(e)
         end == f.curLine + LineWidth(f)
         d == deleteRange(f, end, f.curLine + f.lenLines[f.y + 1], stale)
         gap == e.x - LineWidth(f)
         filled == IF gap > 0 THEN insertBuffer(d, Blanks(gap), FALSE) ELSE d
     IN  \/ /\ e.editing /\ e.restCharsInLine # 0
            /\ Becomes(EraseRight(e), FALSE)
         \/ /\ ~(e.editing /\ e.restCharsInLine # 0)
            /\ e.x < LineWidth(f)
            /\ Becomes(EraseRight(EditLine(f)), FALSE)
         \/ /\ ~(e.editing /\ e.restCharsInLine # 0)
            /\ e.x >= LineWidth(f)
            /\ Becomes(IF e.y < e.totalLines THEN EditLine(filled) ELSE f,
                       /\ e.y < e.totalLines
                       /\ (gap > 0 /\ StaysBehind(d, Blanks(gap))) \/ Filled(filled))

(* Mutant: what was typed is not put back first. *)
newLineUnflushed == Becomes(insertBuffer([e EXCEPT !.editing = FALSE], <<EOL>>, FALSE), FALSE)

newLine ==
  LET f == flushLine(e)
  IN  Becomes(insertBuffer(f, <<EOL>>, FALSE), StaysBehind(f, <<EOL>>))

(* insertText(), as the macros and the date call it. *)
insertText(p) ==
  LET f == flushLine(e)
  IN  Becomes(insertBuffer(f, p, FALSE), StaysBehind(f, p))

clipPaste(p) ==
  /\ use = "select"
  /\ Sets(insertBuffer(flushLine(e), p, TRUE))

(* deleteRangeLineInEdition() moves an end of the selection that lies in   *)
(* the range by the length of all of it.                                   *)
EndsInside(d, from, to) ==
  /\ d.selNewStart < d.selNewEnd
  /\ d.selLineStart \in from .. to - 1 \/ d.selLineEnd \in from .. to - 1

(* With a surplus, what is behind the string comes into the line: left out. *)
DelEnd(stale) ==
  \/ /\ e.editing /\ ~Parted(e) /\ ~Surplus(e)
     /\ LET to == e.inEdit + e.restCharsInLine
        IN  Becomes([deleteRangeLineInEdition(e, e.inEdit, to, -1) EXCEPT !.restCharsInLine = 0],
                    EndsInside(e, e.inEdit, to))
  \/ /\ ~e.editing
     /\ Becomes(deleteRange(e, ColToPointer(e), e.curLine + LineWidth(e), stale), FALSE)

DelStart(stale) ==
  \/ /\ e.editing /\ ~Parted(e)
     /\ Becomes(deleteRangeLineInEdition(e, 0, e.inEdit, 0), EndsInside(e, 0, e.inEdit))
  \/ /\ ~e.editing
     /\ Becomes(deleteRange(e, e.curLine, ColToPointer(e), stale), FALSE)

DelLine(stale) ==
  LET f == flushLine(e)
      to == IF f.y # f.totalLines THEN f.lenLines[f.y + 1] ELSE LineWidth(f)
  IN  Becomes(deleteRange(f, f.curLine, f.curLine + to, stale), FALSE)

SelectionInText(d) == SelFrom(d) < SelTo(d) => SelTo(d) <= Len(Text(d))

StartSelect ==
  /\ use = "select" /\ ~Parted(e)
  /\ Sets(IF e.editing
          THEN [e EXCEPT !.selLineStart = e.inEdit, !.selNewStart = e.curLine + e.inEdit,
                         !.selStart = e.curLine]
          ELSE [e EXCEPT !.selStart = ColToPointer(e)])

EndSelect ==
  /\ use = "select" /\ ~Parted(e)
  /\ Sets(IF e.editing
          THEN [e EXCEPT !.selLineEnd = e.inEdit, !.selNewEnd = e.curLine + e.inEdit,
                         !.selEnd = e.curLine]
          ELSE [e EXCEPT !.selEnd = ColToPointer(e)])

(* clipCut().  With the end of the last line in the block, deleteRange()    *)
(* takes a line off even when some of it stays: that is left out.          *)
CutBlock(stale) ==
  /\ use = "select"
  /\ LET f == flushLine(e)
     IN  /\ hasSelection(f) /\ SelectionInText(e) /\ SelectionInText(f)
         /\ f.selEnd <= Total(f.lenLines, 0, f.totalLines) + LenWithoutCRLF(f, f.totalLines)
         /\ Sets(deleteRange(f, f.selStart, f.selEnd, stale))

(* MarkLine(): the line of the cursor is selected, with its end. *)
MarkLine ==
  LET f == flushLine(e)
      d == [f EXCEPT !.x = 0, !.selStart = f.curLine,
                     !.selEnd = f.curLine + f.lenLines[f.y + 1]]
  IN  IF use = "select" THEN Sets(d) ELSE Becomes(d, FALSE)

(* A block that is moved selects other text than before.  Markers behind   *)
(* the block are not moved with the text.                                  *)
Shifts(d, bad) ==
  IF use = "select" /\ ~bad THEN Sets(d) ELSE Becomes(d, bad)
BehindBlock(d) == use = "mark" /\ LineOf(d, d.mark) = {} /\ d.mark > d.curLine

Indent ==
  LET f == flushLine(e)
  IN  /\ hasSelection(f) /\ SelectionInText(e) /\ SelectionInText(f)
      /\ Shifts(IndentBlock(f), BehindBlock(JumpLineStartSelection(f)))

(* A block that ends in the indentation of its last line, or a marker in   *)
(* the indentation, is moved by more than what is in front of it.          *)
InIndentation(d) ==
  \E k \in BlockLines(d) :
    LET in(o) == LineStart(d, k) < o /\ o < LineStart(d, k) + IsUnIndentable(d, k)
    IN  in(d.selEnd) \/ (use = "mark" /\ in(d.mark))

UnIndent ==
  LET f == flushLine(e)
      d == JumpLineStartSelection(f)
  IN  /\ hasSelection(f) /\ SelectionInText(e) /\ SelectionInText(f)
      /\ Shifts(UnIndentBlock(f), BehindBlock(d) \/ InIndentation(d))

SetMarker ==
  /\ use = "mark" /\ ~Parted(e)
  /\ Sets(IF e.editing THEN [e EXCEPT !.markInLine = e.inEdit]
          ELSE [e EXCEPT !.mark = ColToPointer(e)])

GotoMark ==
  /\ use = "mark"
  /\ Becomes(GotoOffSet(flushLine(e), flushLine(e).mark), FALSE)

(* SpLinesAdd() on the line of the cursor. *)
SetSpecialLine ==
  /\ use = "special"
  /\ Sets([e EXCEPT !.nline = e.y])

(* Motions. *)
(* Mutant: what is behind the cursor is not counted anew. *)
CharLeftUncounted ==
  /\ e.x > 0
  /\ Becomes([e EXCEPT !.x = @ - 1, !.inEdit = IF e.editing THEN @ - 1 ELSE 0], FALSE)

CharLeft ==
  /\ e.x > 0
  /\ Becomes([e EXCEPT !.x = @ - 1, !.inEdit = IF e.editing THEN @ - 1 ELSE 0,
                       !.restCharsInLine = IF e.editing THEN @ + 1 ELSE 0], FALSE)
CharRight ==
  /\ ~Parted(e)
  /\ Becomes(IF ~e.editing THEN [e EXCEPT !.x = @ + 1]
             ELSE IF e.inEdit < Len(e.bufEdit)
             THEN [e EXCEPT !.x = @ + 1, !.inEdit = @ + 1, !.restCharsInLine = @ - 1]
             ELSE [InsertCharInLine(e, Blank) EXCEPT !.restCharsInLine = 0],
             e.editing /\ e.overwrite /\ e.inEdit = Len(e.bufEdit)
               /\ SelTo(e) > e.curLine + e.inEdit)
LineStart_ ==
  Becomes([e EXCEPT !.x = 0, !.inEdit = 0,
                    !.restCharsInLine = IF e.editing THEN @ + e.inEdit ELSE 0], FALSE)
(* In the line in edition the blanks at the end go; in an empty one the    *)
(* cursor of bufEdit goes behind the end of the string.                    *)
LineEnd ==
  Becomes(IF e.editing
          THEN [e EXCEPT !.bufEdit = Part(@, 0, Used(@)), !.x = Used(e.bufEdit),
                         !.restCharsInLine = 0,
                         !.inEdit = IF e.bufEdit = <<>> THEN 1 ELSE Used(e.bufEdit)]
          ELSE [e EXCEPT !.x = LineWidth(e)],
          \* the selection is not told of the blanks
          e.editing /\ Used(e.bufEdit) < Len(e.bufEdit)
            /\ e.selNewEnd > e.curLine + Used(e.bufEdit))
(* Mutant: the offset of the line is taken back by the line that is left. *)
LineUpFromHere ==
  /\ e.y > 0
  /\ LET f == flushLine(e)
     IN  Becomes([f EXCEPT !.y = @ - 1, !.curLine = @ - f.lenLines[f.y + 1]], FALSE)

LineUp ==
  /\ e.y > 0
  /\ LET f == flushLine(e)
     IN  Becomes([f EXCEPT !.y = @ - 1, !.curLine = @ - f.lenLines[f.y]], FALSE)
(* Mutant: no check for the last line. *)
LineDownPastEnd ==
  LET f == flushLine(e)
  IN  Becomes([f EXCEPT !.y = @ + 1, !.curLine = @ + f.lenLines[f.y + 1]], FALSE)

LineDown ==
  /\ e.y < e.totalLines
  /\ LET f == flushLine(e)
     IN  Becomes([f EXCEPT !.y = @ + 1, !.curLine = @ + f.lenLines[f.y + 1]], FALSE)

-----------------------------------------------------------------------------
(* loadFile() *)
Loaded(t) ==
  LET nl == Newlines(t)
      n == Cardinality(nl)
      end(k) == IF k = 0 THEN 0 ELSE IF k > n THEN Len(t) ELSE Nth(nl, k)
  IN  [buffer |-> t, lenLines |-> [k \in 1 .. n + 1 |-> end(k) - end(k - 1)],
       totalLines |-> n, y |-> 0, x |-> 0, curLine |-> 0, overwrite |-> FALSE,
       selStart |-> 0, selEnd |-> 0, mark |-> 0, nline |-> -1,
       editing |-> FALSE, bufEdit |-> <<>>, inEdit |-> 0, restCharsInLine |-> 0,
       markInLine |-> -1,
       selNewStart |-> 0, selNewEnd |-> 0, selLineStart |-> 0, selLineEnd |-> 0]

Init ==
  /\ \E t \in Files : e = Loaded(t)
  /\ use \in Uses
  /\ tracked = "none" /\ known = FALSE

Next ==
  \/ \E c \in Keys : TypeKey(c)
  \/ toggleInsMode
  \/ \E stale \in BOOLEAN :
       \/ BackSpace(stale) \/ DelChar(stale)
       \/ DelEnd(stale) \/ DelStart(stale) \/ DelLine(stale)
       \/ CutBlock(stale)
  \/ newLine
  \/ \E p \in Clips : insertText(p) \/ clipPaste(p)
  \/ StartSelect \/ EndSelect \/ MarkLine \/ Indent \/ UnIndent
  \/ SetMarker \/ GotoMark \/ SetSpecialLine
  \/ CharLeft \/ CharRight \/ LineStart_ \/ LineEnd \/ LineUp \/ LineDown

Spec == Init /\ [][Next]_vars

-----------------------------------------------------------------------------
Offsets == 0 .. Unsigned - 1
Strings == Seq(Chars)

TypeOK ==
  /\ e.buffer \in Strings /\ e.bufEdit \in Strings
  /\ e.lenLines \in Seq(Nat) /\ e.totalLines \in Nat
  /\ e.y \in 0 .. e.totalLines /\ e.x \in Nat /\ e.curLine \in Nat
  /\ e.editing \in BOOLEAN /\ e.overwrite \in BOOLEAN
  /\ e.inEdit \in Nat /\ e.restCharsInLine \in Int
  /\ \A o \in {e.selStart, e.selEnd, e.selNewStart, e.selNewEnd,
               e.selLineStart, e.selLineEnd, e.mark} : o \in Offsets
  /\ e.markInLine \in Int /\ e.nline \in Int
  /\ use \in Uses /\ tracked \in {"none", "gone", "at", "off"} /\ known \in BOOLEAN

(* The lengths of the lines add up to the buffer, each line but the last   *)
(* ends with the only end of line it has, and the offset of the cursor's   *)
(* line is the sum of the lengths before it: whatever mix of commands      *)
(* changed buffer, lengths and cursor.                                     *)
LinesInStep ==
  /\ Len(e.lenLines) = e.totalLines + 1
  /\ Total(e.lenLines, 0, e.totalLines + 1) = bufLen(e)
  /\ e.curLine = Total(e.lenLines, 0, e.y)
  /\ \A k \in 0 .. e.totalLines :
       LET l == LineAt(e, k)
       IN  Newlines(l) \subseteq {Len(l)} /\ (k < e.totalLines => Last(l) = EOL /\ l # <<>>)

(* What is moved when a character comes into the line in edition or goes    *)
(* is restCharsInLine characters and the end of the string: after any mix   *)
(* of motions, typing and deletions they reach to the end of the line.      *)
RestCoversLine == e.editing => e.inEdit + e.restCharsInLine >= Len(e.bufEdit)

(* A marker, a selection or a special line keeps to the text it was set on *)
(* through edits in the buffer, in the line in edition, and as it goes     *)
(* back to the buffer.                                                     *)
Follows ==
  ~known => CASE tracked = "at"  -> Where(e) \in {"at", "gone"}
              [] tracked = "off" /\ use = "select" -> Where(e) \in {"off", "none", "gone"}
              [] OTHER -> TRUE

(* The selection stays inside the text. *)
SelectsText == use = "select" /\ ~known => SelectionInText(e)

(* The lines without the blanks at their ends and without the end of line, *)
(* of which each has one (LinesInStep); the line and column of an offset.  *)
InLine(d, k) == d.editing /\ k = d.y
Seen(d) ==
  LET line(k) == IF InLine(d, k) THEN d.bufEdit
                 ELSE SelectSeq(LineAt(d, k), LAMBDA c : c # EOL)
      trimmed(l) == Part(l, 0, Used(l))
  IN  [k \in 1 .. d.totalLines + 1 |-> trimmed(line(k - 1))]
LineColumn(d, o) ==
  LET lens == [k \in DOMAIN d.lenLines |->
                 d.lenLines[k] + (IF InLine(d, k - 1) THEN Len(d.bufEdit) - LineWidth(d) ELSE 0)]
      k == Max({j \in 0 .. d.totalLines : Total(lens, 0, j) <= o})
  IN  <<k + 1, o - Total(lens, 0, k)>>
Block(d) ==
  IF SelFrom(d) < SelTo(d) /\ SelectionInText(d)
  THEN LineColumn(d, SelFrom(d)) \o LineColumn(d, SelTo(d)) ELSE <<>>

(* Whatever is in the buffer and whatever still in the line in edition,    *)
(* each command changes what is seen as EditedLines says, and leaves the   *)
(* cursor where it says.                                                   *)
PieceLines == {Seen(Loaded(p)) : p \in Clips \cup {<<EOL>>}}
Widths == 0 .. Max({MaxLen, MaxColumn, Amount})
Plain == INSTANCE EditedLines WITH
  lines <- Seen(e), y <- e.y + 1, x <- e.x, block <- Block(e), Char <- Keys,
  Pieces <- PieceLines, Room <- Widths
EditsLines == Plain!Spec
=============================================================================
