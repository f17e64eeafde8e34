---------------------------- MODULE SpecialLines ----------------------------
(***************************************************************************)
(* Lines that follow edits (mainsrc/splinman.cc): the errors of the        *)
(* message window (edmsg.cc) and the breakpoints of the debugger           *)
(* (debug.cc) are lines of files, open or not.  The manager keeps, for     *)
(* each file, a list of special lines, each with the line it was set on    *)
(* (oline) and the line it is on now (nline); the editor of the file moves *)
(* nline as lines come and go.  Lines that are added or removed go to a    *)
(* copy of the list, and the editor gets the copy later.                   *)
(*                                                                         *)
(* Lines count from 0 in the lists and in this module; the messages and    *)
(* the breakpoints count from 1 in the code.  A line of text is an         *)
(* identity, so the model can tell where a line went.  Left out: gdb       *)
(* beyond accepting or refusing a breakpoint, columns, the CPU line, and   *)
(* text saved under another name.                                          *)
(***************************************************************************)
EXTENDS Integers, FiniteSets, SequencesExt

CONSTANTS
  Files, Lines,
  FirstLines,    \* how many lines a file has at first
  NoList, Unknown,
  opsEnd,        \* what the message list does at its end: "wrap" or "stay"
  MaxLines,      \* bound: lines of a text
  MaxSpecial,    \* bound: special lines of a file, and breakpoints
  MaxMessages    \* bound: messages

Error == "error"
Break == "break"
SpLine == [oline : Int, nline : Int, id : {Error, Break}, what : Lines \cup {Unknown}]
SpList == Seq(SpLine)

ASSUME FirstLinesAssumption == FirstLines \in Nat
ASSUME NoListAssumption == NoList \notin SpList

VARIABLES
  text,          \* what the editor shows, or the file when it is not open
  disk,          \* what is in the file
  open,          \* the files in an editor
  nodes,         \* SpLines: [special, new] of the files that have one
  msgs,          \* MsgCol: [file, line, what], line -1 without a line
  focused, haveJumpLines,
  bkpts,         \* the breakpoints: [file, line, enabled, what]
  astray,        \* the files the code is known to have gone wrong for
  fate           \* "runs", "hangs" or "crashes"

vars == <<text, disk, open, nodes, msgs, focused, haveJumpLines, bkpts,
          astray, fate>>
texts == <<text, disk, open>>
window == <<msgs, focused, haveJumpLines>>

-----------------------------------------------------------------------------
(* TSpCollection: sorted by oline, by a binary search, newer ones first.   *)

search(l, key) ==
  LET range[turn \in 0 .. Len(l)] ==
        IF turn = 0 THEN <<1, Len(l)>>
        ELSE LET lo == range[turn - 1][1]
                 hi == range[turn - 1][2]
                 mid == (lo + hi) \div 2
             IN  IF lo > hi THEN <<lo, hi>>
                 ELSE IF l[mid].oline < key THEN <<mid + 1, hi>> ELSE <<lo, mid - 1>>
  IN  range[Len(l)][1]
found(l, key) == search(l, key) <= Len(l) /\ l[search(l, key)].oline = key

insert(l, line, id, what) ==
  InsertAt(l, search(l, line), [oline |-> line, nline |-> line, id |-> id, what |-> what])

Sorted(l) == \A i, j \in DOMAIN l : i < j => l[i].oline <= l[j].oline

-----------------------------------------------------------------------------
(* The manager: operators from nodes to nodes.                             *)

Has(n, f) == f \in DOMAIN n
Without(n, f) == [g \in DOMAIN n \ {f} |-> n[g]]
With(n, f, node) == [g \in DOMAIN n \cup {f} |-> IF g = f THEN node ELSE n[g]]

(* The list that is changed: a copy of the one the editor has. *)
ToModify(n, f) ==
  IF ~Has(n, f) THEN <<>>
  ELSE IF n[f].new = NoList THEN n[f].special ELSE n[f].new

ApplyOneSpLines(n, f) ==
  IF n[f].new = NoList THEN n
  ELSE [n EXCEPT ![f] = [special |-> n[f].new, new |-> NoList]]

SpLinesAdd(n, f, line, id, what, TransferNow) ==
  LET added == With(n, f, [special |-> IF Has(n, f) THEN n[f].special ELSE NoList,
                           new |-> insert(ToModify(n, f), line, id, what)])
  IN  IF TransferNow THEN ApplyOneSpLines(added, f) ELSE added

SpLinesUpdated(n) ==
  [f \in DOMAIN n |-> ApplyOneSpLines(n, f)[f]]

(* What an id leaves of a list, and SpLinesDeleteForId(): the copy stays   *)
(* pending when nothing was removed.                                       *)
Kept(l, id) ==
  LET upTo[k \in 0 .. Len(l)] ==
        IF k = 0 THEN <<>>
        ELSE IF l[k].id = id THEN upTo[k - 1] ELSE Append(upTo[k - 1], l[k])
  IN  upTo[Len(l)]

DeleteForId(n, id) ==
  LET left(f) == Kept(ToModify(n, f), id)
  IN  [f \in {g \in DOMAIN n : left(g) # <<>>} |->
         IF left(f) = ToModify(n, f) THEN [n[f] EXCEPT !.new = left(f)]
         ELSE [special |-> left(f), new |-> NoList]]

(* ... and for a line of a file: the first one on it. *)
DeleteLineForId(n, id, f, oLine) ==
  LET l == ToModify(n, f)
      on == {i \in DOMAIN l : l[i].id = id /\ l[i].oline = oLine}
      left == RemoveAt(l, Min(on))
      copied == [n EXCEPT ![f].new = l]
  IN  IF ~Has(n, f) THEN n
      ELSE IF on = {} THEN copied
      ELSE IF left = <<>> THEN Without(n, f)
      ELSE ApplyOneSpLines([n EXCEPT ![f].new = left], f)

SpLineGetNewValueOf(n, f, line) ==
  IF Has(n, f) /\ n[f].special # NoList /\ found(n[f].special, line)
  THEN n[f].special[search(n[f].special, line)].nline
  ELSE line

(* The lines with an id on a line of the screen. *)
Fresh(n, f) == Has(n, f) /\ n[f].special = NoList
On(n, f, id, nline) ==
  IF ~Has(n, f) \/ Fresh(n, f) THEN {}
  ELSE {i \in DOMAIN n[f].special :
          n[f].special[i].nline = nline /\ n[f].special[i].id = id}

-----------------------------------------------------------------------------
(* What a line number means to a compiler: the line of the file. *)
Meant(f, line) ==
  IF text[f] = disk[f] /\ line < Len(text[f]) THEN text[f][line + 1] ELSE Unknown

(* The identities no line had that is still known somewhere. *)
Unused(f) ==
  LET known(l) == IF l = NoList THEN {} ELSE {l[i].what : i \in DOMAIN l}
  IN  Lines \ (Range(text[f]) \cup Range(disk[f])
               \cup {msgs[i].what : i \in DOMAIN msgs} \cup {bkpts[i].what : i \in DOMAIN bkpts}
               \cup (IF Has(nodes, f) THEN known(nodes[f].special) \cup known(nodes[f].new) ELSE {}))

Pending(f) == Has(nodes, f) /\ nodes[f].new # NoList
(* Bound: nothing follows once every file is astray. *)
Runs == fate = "runs" /\ astray # Files
Stays == Runs /\ fate' = fate

(* The editor: a line comes in front of line k, or goes. *)
Moved(f, move(_)) ==
  LET l == nodes[f].special
  IN  IF Has(nodes, f) /\ l # NoList
      THEN [nodes EXCEPT ![f].special =
              [i \in DOMAIN l |-> [l[i] EXCEPT !.nline = move(l[i].nline)]]]
      ELSE nodes

(* What is in the pending copy does not move. *)
Edited(f) ==
  /\ astray' = IF Pending(f) THEN astray \cup {f} ELSE astray
  /\ Stays
  /\ UNCHANGED <<disk, open, window, bkpts>>

(* Mutant: lines are counted from the one behind. *)
insertLineBehind(f, k) ==
  /\ f \in open /\ Len(text[f]) < MaxLines
  /\ \E t \in Unused(f) : text' = [text EXCEPT ![f] = InsertAt(@, k + 1, t)]
  /\ nodes' = Moved(f, LAMBDA l : IF l > k THEN l + 1 ELSE l)
  /\ Edited(f)

insertLine(f, k) ==
  /\ f \in open /\ Len(text[f]) < MaxLines
  /\ \E t \in Unused(f) : text' = [text EXCEPT ![f] = InsertAt(@, k + 1, t)]
  /\ nodes' = Moved(f, LAMBDA l : IF l >= k THEN l + 1 ELSE l)
  /\ Edited(f)

deleteLine(f, k) ==
  /\ f \in open /\ Len(text[f]) > 1
  /\ text' = [text EXCEPT ![f] = RemoveAt(@, k + 1)]
  /\ nodes' = Moved(f, LAMBDA l : IF l > k THEN l - 1 ELSE IF l = k THEN -1 ELSE l)
  /\ Edited(f)

saveFile(f) ==
  /\ f \in open /\ disk' = [disk EXCEPT ![f] = text[f]]
  /\ Stays /\ UNCHANGED <<text, open, nodes, window, bkpts, astray>>

(* The window is closed.  The special lines stay as they are, also when the *)
(* changes are not saved.                                                  *)
closeFile(f, discard) ==
  /\ f \in open /\ open' = open \ {f}
  /\ text' = IF discard THEN [text EXCEPT ![f] = disk[f]] ELSE text
  /\ disk' = IF discard THEN disk ELSE [disk EXCEPT ![f] = text[f]]
  /\ astray' = IF discard /\ text[f] # disk[f] THEN astray \cup {f} ELSE astray
  /\ Stays /\ UNCHANGED <<nodes, window, bkpts>>

(* openEditor(): it takes the list as it is. *)
openEditor(f) ==
  /\ open' = open \cup {f}
  /\ f \notin open
  /\ Stays /\ UNCHANGED <<text, disk, nodes, window, bkpts, astray>>

-----------------------------------------------------------------------------
(* The message window. *)

(* EdMessageWindowInit() *)
EdMessageWindowInit ==
  /\ nodes' = DeleteForId(nodes, Error)
  /\ msgs' = <<>> /\ focused' = 1 /\ haveJumpLines' = 0
  /\ Stays /\ UNCHANGED <<texts, bkpts, astray>>

(* EdShowMessageFile() and EdShowMessage().  A new message is focused when *)
(* the list scrolls, and then without an action.                           *)
EdShowMessageFile(f, line, TransferNow) ==
  /\ Len(msgs) < MaxMessages
  /\ Has(nodes, f) => Len(ToModify(nodes, f)) < MaxSpecial
  /\ msgs' = Append(msgs, [file |-> f, line |-> line, what |-> Meant(f, line)])
  /\ nodes' = SpLinesAdd(nodes, f, line, Error, Meant(f, line), TransferNow)
  /\ haveJumpLines' = haveJumpLines + 1
  /\ focused' \in {focused, Len(msgs')}
  /\ Stays /\ UNCHANGED <<texts, bkpts, astray>>

EdShowMessage ==
  /\ Len(msgs) < MaxMessages
  /\ \E f \in Files : msgs' = Append(msgs, [file |-> f, line |-> -1, what |-> Unknown])
  /\ focused' \in {focused, Len(msgs')}
  /\ Stays /\ UNCHANGED <<texts, nodes, haveJumpLines, bkpts, astray>>

SpLinesUpdate ==
  /\ nodes' = SpLinesUpdated(nodes)
  /\ Stays /\ UNCHANGED <<texts, window, bkpts, astray>>

(* Mutant: nothing is focused when the list is empty. *)
deleteMessageAny ==
  /\ focused \in DOMAIN msgs
  /\ msgs' = RemoveAt(msgs, focused)
  /\ focused' = Min({focused, Len(msgs) - 1})
  /\ Stays /\ UNCHANGED <<texts, nodes, haveJumpLines, bkpts, astray>>

(* kbDel: the special line stays, and haveJumpLines too. *)
deleteMessage ==
  /\ focused \in DOMAIN msgs
  /\ msgs' = RemoveAt(msgs, focused)
  /\ focused' = Max({1, Min({focused, Len(msgs) - 1})})
  /\ Stays /\ UNCHANGED <<texts, nodes, haveJumpLines, bkpts, astray>>

(* selectItem(): GotoFileLine() opens the file, when the line is still     *)
(* there, and goes to it.                                                  *)
(* Mutant: the message's own line. *)
GotoLineOfOld(m) == m.line

GotoLine(m) == SpLineGetNewValueOf(nodes, m.file, m.line)
selectItem(i) ==
  LET m == msgs[i]
      line == GotoLine(m)
  IN  /\ focused' = i
      /\ open' = IF line = -1 THEN open ELSE open \cup {m.file}
      /\ UNCHANGED <<text, disk, nodes, msgs, haveJumpLines, bkpts, astray, fate>>

Jumps == {i \in DOMAIN msgs : msgs[i].line >= 0}

(* Where selectNext() ends: in the messages behind, or around the end, or  *)
(* backwards from the focus; and selectPrev() likewise.                    *)
NextOne ==
  LET behind == {i \in Jumps : i > focused}
  IN  IF behind # {} THEN Min(behind)
      ELSE IF opsEnd = "wrap" THEN Min(Jumps)
      ELSE Max({i \in Jumps : i <= focused})
PrevOne ==
  LET before == {i \in Jumps : i < focused}
  IN  IF before # {} THEN Max(before)
      ELSE IF opsEnd = "wrap" THEN Max(Jumps)
      ELSE Min({i \in Jumps : i >= focused})

(* Without a message that has a line, each calls the other for ever.       *)
select(one) ==
  /\ haveJumpLines > 0 /\ msgs # <<>> /\ Runs
  /\ \/ Jumps # {} /\ selectItem(one)
     \/ /\ Jumps = {} /\ fate' = "hangs"
        /\ UNCHANGED <<texts, nodes, window, bkpts, astray>>

selectNext == select(NextOne)
selectPrev == select(PrevOne)

(* The jump to the first error starts from the first message. *)
EdJumpToFirstError ==
  \/ select(IF Jumps \ {1} = {} THEN 1 ELSE Min(Jumps \ {1}))
  \/ /\ haveJumpLines = 0 /\ msgs # <<>> /\ focused' = 1
     /\ Stays /\ UNCHANGED <<texts, nodes, msgs, haveJumpLines, bkpts, astray>>

-----------------------------------------------------------------------------
(* The breakpoints.  gdb knows the enabled ones. *)

Bkpt(f, line, what) == [file |-> f, line |-> line, enabled |-> TRUE, what |-> what]
(* TBreakpoints::search(): the first one. *)
SearchBkpt(B, f, line) == {i \in DOMAIN B : B[i].file = f /\ B[i].line = line}

(* What nobody sees to: a breakpoint may be drawn where it was, not where  *)
(* its line went.                                                          *)
OnItsLine(b) ==
  b.line + 1 \in DOMAIN text[b.file] /\ text[b.file][b.line + 1] = b.what

(* What gdb refuses to set or to delete, and what is not in the list or    *)
(* disabled, leaves everything as it is: Spec allows that as a stutter, of *)
(* this action and, by the early return of DeleteFromGDBandSpLines(), of   *)
(* Disable, Delete, Modify and Add.                                        *)

(* DebugToggleBreakpoint() on line k of the editor of f. *)
DebugToggleBreakpoint(f, k) ==
  LET on == On(nodes, f, Break, k)
      ol == nodes[f].special[Min(on)].oline
      first == Min(SearchBkpt(bkpts, f, ol))
  IN  /\ f \in open /\ k < Len(text[f]) /\ Runs
      /\ \/ /\ Fresh(nodes, f)
            /\ fate' = "crashes" /\ UNCHANGED <<nodes, bkpts>>
         \/ /\ ~Fresh(nodes, f) /\ on = {}
            /\ Len(bkpts) < MaxSpecial
            /\ Has(nodes, f) => Len(ToModify(nodes, f)) < MaxSpecial
            /\ bkpts' = Append(bkpts, Bkpt(f, k, text[f][k + 1]))
            /\ nodes' = SpLinesAdd(nodes, f, k, Break, text[f][k + 1], TRUE)
            /\ Stays
         \/ /\ on # {}
            /\ SearchBkpt(bkpts, f, ol) # {} /\ bkpts[first].enabled
            /\ bkpts' = RemoveAt(bkpts, first)
            /\ nodes' = DeleteLineForId(nodes, Break, f, ol)
            /\ Stays
      /\ UNCHANGED <<texts, window, astray>>

(* TDiagBrk::ApplyBkt(): breakpoint i becomes b.  When gdb does not accept *)
(* that, the old one is set again, if it was enabled and gdb takes it; else *)
(* it stays in the list as it was, enabled or not.                         *)
ApplyBkt(B, n, i, b, gdb) ==
  LET drawn == IF gdb = "accepts" THEN b ELSE B[i]
  IN  /\ bkpts' = [B EXCEPT ![i] = drawn]
      /\ drawn.enabled /\ Has(n, drawn.file) => Len(ToModify(n, drawn.file)) < MaxSpecial
      /\ nodes' = IF drawn.enabled /\ gdb # "refuses"
                  THEN SpLinesAdd(n, drawn.file, drawn.line, Break, drawn.what, TRUE) ELSE n
      /\ astray' = IF drawn.enabled /\ ~(OnItsLine(drawn) /\ gdb # "refuses")
                   THEN astray \cup {drawn.file} ELSE astray
      /\ UNCHANGED <<texts, window>>

(* It returned 1. *)
DeleteFromGDBandSpLines(n, b) ==
  IF b.enabled THEN DeleteLineForId(n, Break, b.file, b.line) ELSE n

(* TDiagBrk: a breakpoint is disabled, enabled, removed, set on another    *)
(* line or added.                                                          *)
Disable(i) ==
  /\ bkpts[i].enabled /\ Stays
  /\ bkpts' = [bkpts EXCEPT ![i].enabled = FALSE]
  /\ nodes' = DeleteFromGDBandSpLines(nodes, bkpts[i])
  /\ UNCHANGED <<texts, window, astray>>
Enable(i, gdb) ==
  /\ ~bkpts[i].enabled /\ Stays
  /\ LET B == [bkpts EXCEPT ![i].enabled = TRUE]
     IN  ApplyBkt(B, nodes, i, B[i], gdb)
Delete(i) ==
  /\ Stays
  /\ bkpts' = RemoveAt(bkpts, i)
  /\ nodes' = DeleteFromGDBandSpLines(nodes, bkpts[i])
  /\ UNCHANGED <<texts, window, astray>>
Modify(i, line, enabled, gdb) ==
  LET f == bkpts[i].file
      b == [Bkpt(f, line, text[f][line + 1]) EXCEPT !.enabled = enabled]
  IN  /\ Stays
      /\ ApplyBkt(bkpts, DeleteFromGDBandSpLines(nodes, bkpts[i]), i, b, gdb)
Add(f, line, enabled) ==
  LET b == [Bkpt(f, line, text[f][line + 1]) EXCEPT !.enabled = enabled]
  IN  /\ Len(bkpts) < MaxSpecial /\ Stays
      /\ Has(nodes, f) => Len(ToModify(nodes, f)) < MaxSpecial
      /\ bkpts' = Append(bkpts, b)
      /\ nodes' = IF enabled THEN SpLinesAdd(nodes, f, line, Break, b.what, TRUE) ELSE nodes
      /\ UNCHANGED <<texts, window, astray>>

(* MoveBreakpoint(), on each special line of the list in its order: the    *)
(* first breakpoint on the old line gets the new one.                      *)
Hit(B, f, sp) == IF sp.id = Break THEN SearchBkpt(B, f, sp.oline) ELSE {}
MovedOne(B, f, sp) ==
  IF Hit(B, f, sp) = {} THEN B ELSE [B EXCEPT ![Min(Hit(B, f, sp))].line = sp.nline]

(* Mutant: the special line keeps the number it was set with. *)
MovedBkptsOnly(f) ==
  LET l == nodes[f].special
      after[k \in 0 .. Len(l)] == IF k = 0 THEN bkpts ELSE MovedOne(after[k - 1], f, l[k])
  IN  [special |-> l, bkpts |-> after[Len(l)]]

MovedBkpts(f) ==
  LET l == nodes[f].special
      after[k \in 0 .. Len(l)] == IF k = 0 THEN bkpts ELSE MovedOne(after[k - 1], f, l[k])
  IN  [special |-> [k \in 1 .. Len(l) |-> IF Hit(after[k - 1], f, l[k]) = {} THEN l[k]
                                         ELSE [l[k] EXCEPT !.oline = l[k].nline]],
       bkpts |-> after[Len(l)]]

(* A disabled breakpoint is on the old line of one that is drawn. *)
Masked(f) ==
  \E i \in DOMAIN bkpts, j \in DOMAIN nodes[f].special :
    /\ bkpts[i].file = f /\ ~bkpts[i].enabled
    /\ nodes[f].special[j].id = Break /\ nodes[f].special[j].oline = bkpts[i].line

(* DebugMoveBreakPts(), when a program has run and the debugged one has another *)
(* date: somebody built it, or nobody looked since.                        *)
DebugMoveBreakPts ==
  /\ Runs
  /\ \/ /\ \E f \in DOMAIN nodes : nodes[f].special = NoList
        /\ fate' = "crashes" /\ UNCHANGED <<nodes, bkpts, astray>>
     \/ /\ \A f \in DOMAIN nodes : nodes[f].special # NoList
        /\ fate' = fate
        /\ LET F == DOMAIN nodes
           IN  /\ nodes' = [f \in F |-> [nodes[f] EXCEPT !.special = MovedBkpts(f).special]]
               /\ bkpts' = [i \in DOMAIN bkpts |->
                              IF bkpts[i].file \in F
                              THEN MovedBkpts(bkpts[i].file).bkpts[i] ELSE bkpts[i]]
               /\ astray' = astray \cup
                    {f \in F : Pending(f) \/ ~Sorted(nodes'[f].special) \/ Masked(f)}
  /\ UNCHANGED <<texts, window>>

(* TBreakpoints::apply(), when a session starts: what gdb refuses is        *)
(* disabled, the others are lines of the program again, wherever the text  *)
(* went.                                                                   *)
apply(refused) ==
  LET taken(b) == b.enabled /\ b # refused
      add(n, b) == IF taken(b) THEN SpLinesAdd(n, b.file, b.line, Break, b.what, FALSE) ELSE n
      after[k \in 0 .. Len(bkpts)] ==
        IF k = 0 THEN DeleteForId(nodes, Break) ELSE add(after[k - 1], bkpts[k])
      added == after[Len(bkpts)]
  IN  /\ bkpts # <<>> /\ Stays
      /\ bkpts' = [i \in DOMAIN bkpts |-> [bkpts[i] EXCEPT !.enabled = taken(bkpts[i])]]
      /\ nodes' = IF \E i \in DOMAIN bkpts : taken(bkpts[i]) THEN SpLinesUpdated(added) ELSE added
      /\ astray' = astray \cup {bkpts[i].file : i \in {j \in DOMAIN bkpts :
                      taken(bkpts[j]) /\ ~OnItsLine(bkpts[j])}}
      /\ UNCHANGED <<texts, window>>

-----------------------------------------------------------------------------
Init ==
  /\ text \in [Files -> {t \in [1 .. FirstLines -> Lines] : IsInjective(t)}]
  /\ disk = text /\ open = {}
  /\ nodes = [f \in {} |-> NoList]
  /\ msgs = <<>> /\ focused = 1 /\ haveJumpLines = 0
  /\ bkpts = <<>>
  /\ astray = {} /\ fate = "runs"

Next ==
  \/ \E f \in Files :
       \/ \E k \in 0 .. Len(text[f]) : insertLine(f, k)
       \/ \E k \in 0 .. Len(text[f]) - 1 : 
            \/ deleteLine(f, k) \/ DebugToggleBreakpoint(f, k)
            \/ \E enabled \in BOOLEAN : Add(f, k, enabled)
       \/ saveFile(f) \/ openEditor(f)
       \/ \E discard \in BOOLEAN : closeFile(f, discard)
       \/ \E k \in 0 .. Len(disk[f]) - 1, now \in BOOLEAN : EdShowMessageFile(f, k, now)
  \/ EdMessageWindowInit \/ EdShowMessage \/ SpLinesUpdate \/ deleteMessage
  \/ \E i \in Jumps : Runs /\ selectItem(i)
  \/ selectNext \/ selectPrev \/ EdJumpToFirstError
  \/ \E i \in DOMAIN bkpts :
       \/ Disable(i) \/ Delete(i)
       \/ \E gdb \in {"accepts", "keeps", "refuses"} :
            \/ Enable(i, gdb)
            \/ \E line \in 0 .. Len(text[bkpts[i].file]) - 1, enabled \in BOOLEAN :
                 Modify(i, line, enabled, gdb)
  \/ DebugMoveBreakPts
  \/ \E refused \in Range(bkpts) \cup {Unknown} : apply(refused)

Spec == Init /\ [][Next]_vars

-----------------------------------------------------------------------------
TypeOK ==
  /\ text \in [Files -> Seq(Lines)] /\ disk \in [Files -> Seq(Lines)] /\ open \subseteq Files
  /\ DOMAIN nodes \subseteq Files
  /\ \A f \in DOMAIN nodes :
       /\ nodes[f].special = NoList \/ nodes[f].special \in SpList
       /\ nodes[f].new = NoList \/ nodes[f].new \in SpList
       /\ nodes[f].special # NoList \/ nodes[f].new # NoList
  /\ focused \in Nat \ {0} /\ haveJumpLines \in Nat
  /\ fate \in {"runs", "hangs", "crashes"} /\ astray \subseteq Files

(* Where a line of text is, counted from 0. *)
Place(f, what) == {k - 1 : k \in {j \in DOMAIN text[f] : text[f][j] = what}}

(* A special line is on the line of text it was set on, as long as that is *)
(* there: through edits, new messages, breakpoints that come and go, and   *)
(* builds, for files that are open and files that are not.                 *)
FollowsText ==
  \A f \in DOMAIN nodes \ astray : nodes[f].special # NoList =>
    \A i \in DOMAIN nodes[f].special :
      LET sp == nodes[f].special[i]
      IN  sp.what # Unknown =>
            IF Place(f, sp.what) = {} THEN sp.nline = -1 ELSE Place(f, sp.what) = {sp.nline}

(* Selecting a message goes to the line of text it was about, unless that  *)
(* is gone or another special line was set on a line with the same number. *)
JumpsToLine ==
  \A i \in Jumps :
    LET m == msgs[i]
        l == ToModify(nodes, m.file)
        shared == \E j \in DOMAIN l : l[j].oline = m.line /\ l[j].what # m.what
    IN  m.file \notin astray /\ m.what # Unknown /\ ~shared =>
          IF Place(m.file, m.what) = {} THEN GotoLine(m) = -1
          ELSE Place(m.file, m.what) = {GotoLine(m)}

(* The breakpoints gdb has are those that are drawn: on each line of a     *)
(* file, by the numbers they were set with, as many of the one as of the   *)
(* other.                                                                  *)
BreakpointsDrawn ==
  \A f \in Files \ astray : \A line \in -1 .. MaxLines :
    LET l == ToModify(nodes, f)
    IN  Cardinality({i \in DOMAIN l : l[i].id = Break /\ l[i].oline = line})
          = Cardinality({i \in DOMAIN bkpts : bkpts[i].enabled
                           /\ bkpts[i].file = f /\ bkpts[i].line = line})

(* debug.cc:4467: "Transfers the SpLines movements to the list of          *)
(* breakpoints."                                                           *)
BreakpointsMoved ==
  \A i \in {j \in DOMAIN bkpts : bkpts[j].enabled /\ bkpts[j].file \notin astray} :
    LET l == ToModify(nodes, bkpts[i].file)
    IN  \E j \in DOMAIN l : /\ l[j].id = Break /\ l[j].oline = bkpts[i].line
                            /\ l[j].what = bkpts[i].what
=============================================================================
