--------------------------- MODULE WindowCollection ---------------------------
(***************************************************************************)
(* The list of windows of the desktop (setedit/tedcolle.cc): the editors,  *)
(* then the other windows, then the files closed lately, in one collection *)
(* cut by three counters, and how it is stored in the desktop file and     *)
(* read again.                                                             *)
(*                                                                         *)
(* The loops of sortClosed(), forEachNonEditor() and read() go one turn a  *)
(* step, and nothing else happens while one runs (pc).  File names are     *)
(* numbers in the order of strcmp(), 0 is the empty name.  A window is a   *)
(* number; 0 is the NULL a window that could not be read leaves.           *)
(*                                                                         *)
(* Left out: drawing, Z order, the place and the options of each window    *)
(* (the resume but for its date), inodes (a file has one name), projects.  *)
(***************************************************************************)
EXTENDS Integers, SequencesExt

CONSTANTS
  Names,               (* names of files                                     *)
  NoBackup,            (* those MakeBkpForIt() says no to                    *)
  Kinds,               (* types of the other windows that can be opened      *)
  maxOpenEditorsSame,  (* windows on one file                                *)
  Limits,              (* what the user sets the number of closed files to   *)
  Removal,             (* what a user may choose about windows of last time  *)
  MaxWindows,          (* bound: windows at a time                           *)
  MaxTime,             (* bound: seconds                                     *)
  MaxRestarts          (* bound: times the editor is started again           *)

AllKinds == {"help", "calendar", "inspector"}
Sections == {"editors", "others", "closed"}

ASSUME NamesAssumption == Names \subseteq Nat \ {0} /\ NoBackup \subseteq Names
ASSUME KindsAssumption == Kinds \subseteq AllKinds
ASSUME LimitsAssumption == Limits \subseteq 0 .. 200 /\ Limits # {}
ASSUME RemovalAssumption == Removal \subseteq SUBSET Sections
ASSUME WindowBounds ==
  /\ maxOpenEditorsSame \in Nat \ {0} /\ MaxWindows \in Nat \ {0}
  /\ MaxTime \in Nat /\ MaxRestarts \in Nat

CanBeSaved(kind) == kind # "inspector"

VARIABLES
  items,               (* the collection                                     *)
  Editors,             (* how many of it are editors, at the start,          *)
  nonEditors,          (*   how many follow that are other windows,          *)
  Closed,              (*   and how many closed files are at the end         *)
  maxClosedToRemember, (* closed files to keep                               *)
  DontSortClosed,      (* "dscSort", "dscNoSortPutLast", "dscNoSortPutFirst" *)
  windows,             (* the windows of the screen                          *)
  failed,              (* those of a file that could not be loaded           *)
  now,                 (* the clock                                          *)
  pc,                  (* "rest", or the loop that runs                      *)
  back,                (* the loop sortClosed() was called from, or "rest"   *)
  ic, sorted,          (* sortClosed(): its locals                           *)
  i, c,                (* read() and forEachNonEditor(): their locals        *)
  type,                (* forEachNonEditor(): its argument                   *)
  desktop,             (* what was read: the entries of the desktop file,    *)
                       (*   the sections the options remove and the windows  *)
                       (*   that could not be loaded                         *)
  renamed,             (* names a text was saved as                          *)
  jumbled,             (* several files were closed without sorting them     *)
  restarts             (* times the editor was started again                 *)

counters == <<Editors, nonEditors, Closed>>
screen == <<windows, failed>>
sorting == <<back, ic, sorted>>
loop == <<i, c, type>>
settings == <<maxClosedToRemember, now>>
ghosts == <<desktop, renamed, jumbled, restarts>>
vars == <<items, counters, screen, sorting, loop, settings, DontSortClosed, pc,
          ghosts>>

-----------------------------------------------------------------------------
EditorEntry(w, n, k, ro) ==
  [type |-> "editor", win |-> w, name |-> n, number |-> k, isReadOnly |-> ro]
OtherEntry(w, kind) == [type |-> kind, win |-> w]
ClosedEntry(n, date) == [type |-> "closed", name |-> n, dateResume |-> date]

Windows == 1 .. MaxWindows
WindowsEver == 0 .. MaxWindows
Entry == [type : {"editor"}, win : WindowsEver, name : Names \cup {0},
          number : Nat, isReadOnly : BOOLEAN]
           \cup [type : AllKinds, win : WindowsEver]
           \cup [type : {"closed"}, name : Names, dateResume : 0 .. MaxTime]

(* The first position of the collection that passes, or 0. *)
First(P(_)) == LET S == {k \in 1 .. Len(items) : P(items[k])}
               IN  IF S = {} THEN 0
                   ELSE CHOOSE k \in S : \A l \in S : k <= l

CompareTypes(e, w, kind) == e.type = kind

(* search(): by the Compare() of each type of entry.  That of the help      *)
(* windows does not look at the window.                                     *)
Compare(e, w, kind) == e.type = kind /\ (kind = "help" \/ e.win = w)
search(w, kind) == First(LAMBDA e : Compare(e, w, kind))
searchClosed(list, n) ==
  SelectInSeq(list, LAMBDA e : e.type = "closed" /\ e.name = n)
searchByView(w) ==
  First(LAMBDA e : e.type # "closed" /\ e.win = w /\ w \notin failed)

(* The windows of file n, searchEditorbyINode(): the index of the best one. *)
Showing(n) == {k \in 1 .. Editors : items[k].name = n}
Best(n) ==
  CHOOSE k \in Showing(n) : \A l \in Showing(n) :
    IF items[k].isReadOnly = items[l].isReadOnly THEN k <= l
    ELSE ~items[k].isReadOnly

Unused == Windows \ (windows \cup {items[k].win : k \in 1 .. Editors + nonEditors})
NewWindow == CHOOSE w \in Unused : \A v \in Unused : w <= v

-----------------------------------------------------------------------------
(* addEditor(): the first number that is free, from 2 on. *)
addEditorIndex ==
  LET gaps == {k \in 1 .. Editors : items[k].number # k + 1}
  IN  IF gaps = {} THEN Editors + 1 ELSE CHOOSE k \in gaps : \A l \in gaps : k <= l

addEditorNext == Editors + 2

addEditorNumber == addEditorIndex + 1

addEditorTakes(list, w, n, ro, shut) ==
  /\ items' = InsertAt(list, addEditorIndex, EditorEntry(w, n, addEditorNumber, ro))
  /\ Editors' = Editors + 1
  /\ Closed' = shut
  /\ UNCHANGED nonEditors

addEditorCounts(list, w, n, ro, shut) ==
  /\ items' = InsertAt(list, addEditorIndex, EditorEntry(w, n, addEditorNumber, ro))
  /\ Editors' = Editors + 1
  /\ Closed' = shut - 1
  /\ UNCHANGED nonEditors

(* The closed entry of the file goes; it is behind the editors. *)
addEditor(list, w, n, ro, shut) ==
  LET old == searchClosed(list, n)
      rest == IF old = 0 THEN list ELSE RemoveAt(list, old)
  IN  /\ items' = InsertAt(rest, addEditorIndex,
                           EditorEntry(w, n, addEditorNumber, ro))
      /\ Editors' = Editors + 1
      /\ Closed' = IF old = 0 THEN shut ELSE shut - 1
      /\ UNCHANGED nonEditors

(* openEditor() of a name, in a list whose entry for it, when it is opened  *)
(* from the list, is gone already; onlyRead: the file is write protected.   *)
openEditor(list, shut, n, forceRO, onlyRead, max) ==
  LET there == n # 0 /\ Showing(n) # {}
      full == there /\ Cardinality(Showing(n)) >= max
      copy == there /\ ~items[Best(n)].isReadOnly
  IN  \/ /\ full
         /\ items' = IF forceRO THEN [list EXCEPT ![Best(n)].isReadOnly = TRUE]
                     ELSE list
         /\ Closed' = shut
         /\ UNCHANGED <<Editors, nonEditors, windows>>
      \/ /\ ~full
         /\ Unused # {}
         /\ addEditor(list, NewWindow, n, forceRO \/ copy \/ onlyRead, shut)
         /\ windows' = windows \cup {NewWindow}

Open(n, forceRO, onlyRead) ==
  /\ pc = "rest"
  /\ n = 0 => ~forceRO /\ ~onlyRead
  /\ openEditor(items, Closed, n, forceRO, onlyRead, maxOpenEditorsSame)
  /\ UNCHANGED <<failed, sorting, loop, settings, DontSortClosed, pc, ghosts>>

(* fileOpenCopy() of an editor in the list. *)
OpenCopy(k, onlyRead) ==
  /\ pc = "rest"
  /\ openEditor(items, Closed, items[k].name, FALSE, onlyRead,
                maxOpenEditorsSame + 1)
  /\ UNCHANGED <<failed, sorting, loop, settings, DontSortClosed, pc, ghosts>>

GoClosedCounted(k, onlyRead) ==
  /\ pc = "rest"
  /\ openEditor(RemoveAt(items, k), Closed, items[k].name, FALSE, onlyRead,
                maxOpenEditorsSame)
  /\ UNCHANGED <<failed, sorting, loop, settings, DontSortClosed, pc, ghosts>>

(* GoAction() of a closed entry: it goes, and its file is opened. *)
GoClosed(k, onlyRead) ==
  /\ pc = "rest"
  /\ openEditor(RemoveAt(items, k), Closed - 1, items[k].name, FALSE, onlyRead,
                maxOpenEditorsSame)
  /\ UNCHANGED <<failed, sorting, loop, settings, DontSortClosed, pc, ghosts>>

(* A text is saved under another name, possibly that of another file here. *)
SaveAs(k, n) ==
  /\ pc = "rest"
  /\ n # items[k].name
  /\ items' = [items EXCEPT ![k].name = n, ![k].isReadOnly = FALSE]
  /\ renamed' = renamed \cup {n}
  /\ UNCHANGED <<counters, screen, sorting, loop, settings, DontSortClosed, pc,
                 desktop, jumbled, restarts>>

-----------------------------------------------------------------------------
(* sortClosed(), called by the loop from: first the oldest go... *)
sortClosed(from) ==
  /\ pc' = "sort"
  /\ back' = from /\ ic' = 0 /\ sorted' = FALSE

ClosedEntries == Editors + nonEditors + 1 .. Editors + nonEditors + Closed
Older(k, l) == items[k].dateResume < items[l].dateResume
posNewer == CHOOSE k \in ClosedEntries :
  \A l \in ClosedEntries : ~Older(k, l) /\ (k <= l \/ Older(l, k))

posOlder == CHOOSE k \in ClosedEntries :
  \A l \in ClosedEntries : ~Older(l, k) /\ (k <= l \/ Older(k, l))

Evict ==
  /\ pc = "sort" /\ Closed > maxClosedToRemember
  /\ items' = RemoveAt(items, posOlder)
  /\ Closed' = Closed - 1
  /\ UNCHANGED <<Editors, nonEditors, screen, sorting, loop, settings,
                 DontSortClosed, pc, ghosts>>

(* ...then exchanges: what is at first after it was compared with those up  *)
(* to last, and what is left of them.                                       *)
Held(first, last) ==
  items[CHOOSE k \in first .. last : \A l \in first .. last :
          IF items[k].name = items[l].name THEN k <= l
          ELSE items[k].name < items[l].name]

Exchanged(first, last) ==
  [k \in 1 .. Len(items) |->
     IF k < first \/ k > last THEN items[k]
     ELSE IF k = first THEN Held(first, last)
     ELSE IF items[k].name < Held(first, k - 1).name THEN Held(first, k - 1)
     ELSE items[k]]

SortTurn ==
  LET first == Editors + nonEditors + ic + 1
      last == Editors + nonEditors + Closed
  IN  /\ pc = "sort" /\ Closed <= maxClosedToRemember
      /\ ic < Closed - 1 /\ ~sorted
      /\ items' = Exchanged(first, last)
      /\ sorted' = (items' = items)
      /\ ic' = ic + 1
      /\ UNCHANGED <<counters, screen, back, loop, settings, DontSortClosed, pc,
                     ghosts>>

SortEnd ==
  /\ pc = "sort" /\ Closed <= maxClosedToRemember
  /\ ic >= Closed - 1 \/ sorted
  /\ pc' = back
  /\ back' = "rest" /\ ic' = 0 /\ sorted' = FALSE
  /\ UNCHANGED <<items, counters, screen, loop, settings, DontSortClosed, ghosts>>

-----------------------------------------------------------------------------
(* What removeEditor() keeps of an editor: not a text without a name or a   *)
(* backup, nor a read only copy.                                            *)
Remembered(e, dontAddClosed) ==
  ~dontAddClosed /\ e.win # 0 /\ ~e.isReadOnly /\ e.name \notin NoBackup \cup {0}

ClosedPlaceLast == Len(items)

(* Where it goes: before the closed files, or after all while they go.      *)
ClosedPlace == IF DontSortClosed = "dscNoSortPutLast" THEN Len(items)
               ELSE Editors + nonEditors

(* removeEditor() of window w, called by the loop from. *)
removeEditor(w, dontAddClosed, from) ==
  LET pos == search(w, "editor")
      list == RemoveAt(items, pos)
      keep == Remembered(items[pos], dontAddClosed)
  IN  /\ items' = IF keep
                  THEN InsertAt(list, ClosedPlace, ClosedEntry(items[pos].name, now))
                  ELSE list
      /\ Editors' = Editors - 1
      /\ Closed' = IF keep THEN Closed + 1 ELSE Closed
      /\ IF keep /\ DontSortClosed = "dscSort" THEN sortClosed(from)
         ELSE pc' = from /\ UNCHANGED sorting
      /\ UNCHANGED nonEditors

(* removeNonEditor() of window w. *)
removeNonEditor(w, kind, from) ==
  /\ items' = RemoveAt(items, search(w, kind))
  /\ nonEditors' = nonEditors - 1
  /\ pc' = from
  /\ UNCHANGED <<Editors, Closed, sorting>>

(* removeWindow(), for the broadcast of window w, which closes. *)
removeWindow(w, from) ==
  LET pos == searchByView(w)
  IN  /\ windows' = windows \ {w} /\ UNCHANGED failed
      /\ \/ /\ pos = 0
            /\ pc' = from
            /\ UNCHANGED <<items, counters, sorting>>
         \/ /\ pos # 0 /\ items[pos].type = "editor"
            /\ removeEditor(w, FALSE, from)
         \/ /\ pos # 0 /\ items[pos].type # "editor"
            /\ removeNonEditor(w, items[pos].type, from)

(* The user closes a window; the main help is only hidden. *)
MainHelp == 1

CloseWindow(w) ==
  /\ pc = "rest"
  /\ w # MainHelp
  /\ removeWindow(w, "rest")
  /\ UNCHANGED <<loop, settings, DontSortClosed, ghosts>>

(* DeleteAction() of an editor, with its file. *)
DeleteFile(k) ==
  /\ pc = "rest"
  /\ removeEditor(items[k].win, TRUE, "rest")
  /\ windows' = windows \ {items[k].win}
  /\ UNCHANGED <<failed, loop, settings, DontSortClosed, ghosts>>

(* DeleteAction() of a closed entry. *)
DeleteClosed(k) ==
  /\ pc = "rest"
  /\ items' = RemoveAt(items, k)
  /\ Closed' = Closed - 1
  /\ UNCHANGED <<Editors, nonEditors, screen, sorting, loop, settings,
                 DontSortClosed, pc, ghosts>>

addNonEditor(kind) ==
  /\ pc = "rest"
  /\ Unused # {}
  /\ items' = InsertAt(items, Editors + 1, OtherEntry(NewWindow, kind))
  /\ nonEditors' = nonEditors + 1
  /\ windows' = windows \cup {NewWindow}
  /\ UNCHANGED <<Editors, Closed, failed, sorting, loop, settings,
                 DontSortClosed, pc, ghosts>>

ReEnumerate ==
  /\ pc = "rest"
  /\ items' = [k \in 1 .. Len(items) |->
                 IF k <= Editors THEN [items[k] EXCEPT !.number = k + 1]
                 ELSE items[k]]
  /\ UNCHANGED <<counters, screen, sorting, loop, settings, DontSortClosed, pc,
                 ghosts>>

-----------------------------------------------------------------------------
(* forEachNonEditor() with a function that closes the window: the counter   *)
(* c is the end it had last seen.                                           *)
CloseAll(kind) ==
  /\ pc = "rest"
  /\ pc' = "each" /\ type' = kind
  /\ i' = Editors /\ c' = Editors + nonEditors
  /\ UNCHANGED <<items, counters, screen, sorting, settings, DontSortClosed,
                 ghosts>>

EachClosed ==
  /\ pc = "each" /\ i < c /\ items[i + 1].type = type
  /\ removeWindow(items[i + 1].win, "each")
  /\ c' = Editors' + nonEditors'
  /\ i' = IF c' # c THEN i ELSE i + 1
  /\ UNCHANGED <<type, settings, DontSortClosed, ghosts>>

EachOther ==
  /\ pc = "each" /\ i < c /\ items[i + 1].type # type
  /\ i' = i + 1
  /\ UNCHANGED <<items, counters, screen, sorting, c, type, settings,
                 DontSortClosed, pc, ghosts>>

EachEnd ==
  /\ pc = "each" /\ i >= c
  /\ pc' = "rest"
  /\ i' = 0 /\ c' = 0 /\ type' = ""
  /\ UNCHANGED <<items, counters, screen, sorting, settings, DontSortClosed,
                 ghosts>>

-----------------------------------------------------------------------------
(* write() with the sections in never removed, and read() by the editor     *)
(* started again, which removes those in gone: it was given files in the    *)
(* command line.  Of the editors, those in lost cannot be loaded, those in  *)
(* unread not even be made.                                                 *)
SectionOf(e) == IF e.type = "editor" THEN "editors"
                ELSE IF e.type = "closed" THEN "closed" ELSE "others"

Saved(e, never) ==
  SectionOf(e) \notin never /\ (SectionOf(e) # "others" \/ CanBeSaved(e.type))

Written(never) ==
  LET upTo[k \in 0 .. Len(items)] ==
        IF k = 0 THEN <<>>
        ELSE IF Saved(items[k], never) THEN Append(upTo[k - 1], items[k])
        ELSE upTo[k - 1]
  IN  upTo[Len(items)]

nonEd == nonEditors - Cardinality({k \in Editors + 1 .. Editors + nonEditors :
                                     ~CanBeSaved(items[k].type)})

Unmade(e, unread) == IF e.type = "editor" /\ e.win \in unread
                     THEN [e EXCEPT !.win = 0] ELSE e

Restart(never, gone, lost, unread) ==
  LET file == Written(never)
      read == [k \in 1 .. Len(file) |-> Unmade(file[k], unread)]
  IN  /\ pc = "rest"
      /\ restarts < MaxRestarts
      /\ items' = read
      /\ Editors' = IF "editors" \in never THEN 0 ELSE Editors
      /\ nonEditors' = IF "others" \in never THEN 0 ELSE nonEd
      /\ Closed' = IF "closed" \in never THEN 0 ELSE Closed
      /\ windows' = {read[k].win : k \in 1 .. Editors' + nonEditors'} \ {0}
      /\ failed' = lost
      /\ DontSortClosed' = IF "closed" \in gone THEN "dscNoSortPutLast"
                           ELSE IF "editors" \in gone THEN "dscNoSortPutFirst"
                           ELSE "dscSort"
      /\ pc' = "read" /\ i' = 0 /\ c' = Len(read)
      /\ desktop' = [entries |-> read, gone |-> gone, lost |-> lost]
      /\ restarts' = restarts + 1
      /\ UNCHANGED <<sorting, type, settings, renamed, jumbled>>

Reading == pc = "read" /\ c > 0 /\ i < Len(items)
Taken == items[i + 1]
Gone(section) == section \in desktop.gone

(* An editor that could not be made, one that could not be loaded or is not *)
(* wanted, and one that stays.                                              *)
ReadNoEditor ==
  /\ Reading /\ Taken.type = "editor" /\ Taken.win = 0
  /\ removeEditor(0, FALSE, "read")
  /\ c' = c - 1
  /\ UNCHANGED <<screen, i, type, settings, DontSortClosed, ghosts>>

ReadLostEditorSkips ==
  /\ Reading /\ Taken.type = "editor" /\ Taken.win # 0
  /\ Taken.win \in failed \/ Gone("editors")
  /\ removeEditor(Taken.win, FALSE, "read")
  /\ windows' = windows \ {Taken.win} /\ failed' = failed \ {Taken.win}
  /\ i' = i + 1 /\ c' = c - 1
  /\ UNCHANGED <<type, settings, DontSortClosed, ghosts>>

(* Whether a closed file replaces it or not, i stays. *)
ReadLostEditor ==
  /\ Reading /\ Taken.type = "editor" /\ Taken.win # 0
  /\ Taken.win \in failed \/ Gone("editors")
  /\ removeEditor(Taken.win, FALSE, "read")
  /\ windows' = windows \ {Taken.win} /\ failed' = failed \ {Taken.win}
  /\ c' = c - 1
  /\ UNCHANGED <<i, type, settings, DontSortClosed, ghosts>>

ReadClosedSkips ==
  /\ Reading /\ Taken.type = "closed" /\ Gone("closed")
  /\ items' = RemoveAt(items, i + 1)
  /\ Closed' = Closed - 1
  /\ i' = i + 1 /\ c' = c - 1
  /\ UNCHANGED <<Editors, nonEditors, screen, sorting, type, settings,
                 DontSortClosed, pc, ghosts>>

ReadClosed ==
  /\ Reading /\ Taken.type = "closed" /\ Gone("closed")
  /\ items' = RemoveAt(items, i + 1)
  /\ Closed' = Closed - 1
  /\ c' = c - 1
  /\ UNCHANGED <<Editors, nonEditors, screen, sorting, i, type, settings,
                 DontSortClosed, pc, ghosts>>

(* DeleteAction() closes a window, and hides the main help. *)
ReadOther ==
  /\ Reading /\ SectionOf(Taken) = "others" /\ Gone("others")
  /\ Taken.win # MainHelp
  /\ removeWindow(Taken.win, "read")
  /\ c' = c - 1
  /\ UNCHANGED <<i, type, settings, DontSortClosed, ghosts>>

ReadKept ==
  /\ Reading
  /\ Gone(SectionOf(Taken)) => SectionOf(Taken) = "others" /\ Taken.win = MainHelp
  /\ Taken.type = "editor" => Taken.win \notin failed \cup {0}
  /\ i' = i + 1 /\ c' = c - 1
  /\ UNCHANGED <<items, counters, screen, sorting, type, settings,
                 DontSortClosed, pc, ghosts>>

(* sortClosed() may have taken more than one out of the list: at() of an     *)
(* index behind its end stops the program.                                  *)
ReadPastEnd ==
  /\ pc = "read" /\ c > 0 /\ i >= Len(items)
  /\ pc' = "dead"
  /\ UNCHANGED <<items, counters, screen, sorting, loop, settings,
                 DontSortClosed, ghosts>>

(* The main help is made anew when it was not read. *)
ReadEnd ==
  /\ pc = "read" /\ c = 0
  /\ IF MainHelp \in windows THEN UNCHANGED <<items, nonEditors, windows>>
     ELSE /\ items' = InsertAt(items, Editors + 1, OtherEntry(MainHelp, "help"))
          /\ nonEditors' = nonEditors + 1
          /\ windows' = windows \cup {MainHelp}
  /\ DontSortClosed' = "dscSort"
  /\ jumbled' = (jumbled \/ DontSortClosed # "dscSort")
  /\ IF DontSortClosed # "dscSort" THEN sortClosed("rest")
     ELSE pc' = "rest" /\ UNCHANGED sorting
  /\ i' = 0
  /\ desktop' = [entries |-> <<>>, gone |-> {}, lost |-> {}]
  /\ UNCHANGED <<Editors, Closed, failed, c, type, settings, renamed, restarts>>

-----------------------------------------------------------------------------
Tick ==
  /\ pc = "rest" /\ now < MaxTime
  /\ now' = now + 1
  /\ UNCHANGED <<items, counters, screen, sorting, loop, maxClosedToRemember,
                 DontSortClosed, pc, ghosts>>

(* The preferences; the list is only cut when a file is closed. *)
SetLimit(limit) ==
  /\ pc = "rest"
  /\ maxClosedToRemember' = limit
  /\ UNCHANGED <<items, counters, screen, sorting, loop, now, DontSortClosed, pc,
                 ghosts>>

Init ==
  /\ items = <<OtherEntry(MainHelp, "help")>>
  /\ Editors = 0 /\ nonEditors = 1 /\ Closed = 0
  /\ windows = {MainHelp} /\ failed = {}
  /\ maxClosedToRemember \in Limits
  /\ now = 0
  /\ DontSortClosed = "dscSort"
  /\ pc = "rest" /\ back = "rest"
  /\ ic = 0 /\ sorted = FALSE
  /\ i = 0 /\ c = 0 /\ type = ""
  /\ desktop = [entries |-> <<>>, gone |-> {}, lost |-> {}]
  /\ renamed = {} /\ jumbled = FALSE /\ restarts = 0

EditorPlaces == 1 .. Editors
Loadable == {items[k].win : k \in {l \in EditorPlaces : items[l].name # 0}}

Loop ==
  \/ Evict \/ SortTurn \/ SortEnd
  \/ EachClosed \/ EachOther \/ EachEnd
  \/ ReadNoEditor \/ ReadLostEditor \/ ReadClosed \/ ReadOther \/ ReadKept
  \/ ReadPastEnd \/ ReadEnd

Next ==
  \/ \E n \in Names \cup {0}, forceRO, onlyRead \in BOOLEAN :
       Open(n, forceRO, onlyRead)
  \/ \E k \in EditorPlaces, onlyRead \in BOOLEAN : OpenCopy(k, onlyRead)
  \/ \E k \in ClosedEntries, onlyRead \in BOOLEAN : GoClosed(k, onlyRead)
  \/ \E k \in EditorPlaces, n \in Names : SaveAs(k, n)
  \/ \E w \in windows : CloseWindow(w)
  \/ \E k \in EditorPlaces : DeleteFile(k)
  \/ \E k \in ClosedEntries : DeleteClosed(k)
  \/ \E kind \in Kinds : addNonEditor(kind)
  \/ ReEnumerate
  \/ \E kind \in Kinds \cap {"inspector"} : CloseAll(kind)
  \/ \E never, gone \in Removal : \E lost, unread \in SUBSET Loadable :
       /\ never \cap gone = {} /\ lost \cap unread = {}
       /\ "editors" \in never \cup gone => lost = {} /\ unread = {}
       /\ Restart(never, gone, lost, unread)
  \/ Tick
  \/ \E limit \in Limits : SetLimit(limit)
  \/ Loop

Spec == Init /\ [][Next]_vars

-----------------------------------------------------------------------------
Listed == 1 .. Editors + nonEditors

TypeOK ==
  /\ items \in Seq(Entry)
  /\ Editors \in Nat /\ nonEditors \in Nat /\ Closed \in Nat
  /\ windows \subseteq Windows /\ failed \subseteq Windows
  /\ maxClosedToRemember \in Nat /\ now \in 0 .. MaxTime
  /\ DontSortClosed \in {"dscSort", "dscNoSortPutLast", "dscNoSortPutFirst"}
  /\ pc \in {"rest", "sort", "each", "read", "dead"}
  /\ back \in {"rest", "read"}
  /\ ic \in Nat /\ sorted \in BOOLEAN
  /\ i \in Nat /\ c \in Nat /\ type \in AllKinds \cup {""}
  /\ desktop.entries \in Seq(Entry) /\ desktop.gone \subseteq Sections
  /\ desktop.lost \subseteq WindowsEver
  /\ renamed \subseteq Names /\ jumbled \in BOOLEAN
  /\ restarts \in 0 .. MaxRestarts

(* The counters cut the collection where the types change: every index of   *)
(* the code is computed from them (tedcolle.cc:10-13).                      *)
SectionsInOrder ==
  /\ Len(items) = Editors + nonEditors + Closed
  /\ \A k \in 1 .. Len(items) :
       /\ items[k].type = "editor" <=> k <= Editors
       /\ items[k].type = "closed" <=> k > Editors + nonEditors

(* The numbers of the editors go up, so that the first gap addEditor()      *)
(* finds is free and the last editor has the highest (GetMaxWindowNumber()). *)
NumbersInOrder ==
  \A k \in EditorPlaces :
    items[k].number >= 2 /\ \A l \in 1 .. k - 1 : items[l].number < items[k].number

(* Every window is in the list once, and what the list has as a window is   *)
(* one: otherwise the list of windows goes to one that was destroyed.       *)
ListedOnce ==
  /\ \A k, l \in Listed : items[k].win = items[l].win => k = l \/ items[k].win = 0
  /\ {items[k].win : k \in Listed} \ {0} = windows

(* A file is remembered as closed once, and not while it can be edited in a *)
(* window, but for the names texts were saved as ("or we get duplicated     *)
(* names!", tedcolle.cc:510).                                               *)
RememberedOnce ==
  \A k \in ClosedEntries, l \in 1 .. Len(items) :
    \/ items[k].name \in renamed \/ k = l
    \/ l \in Listed \ EditorPlaces
    \/ items[l].name # items[k].name
    \/ l \in EditorPlaces /\ items[l].isReadOnly

(* The closed files are in the order of their names, though the exchanges   *)
(* of sortClosed() only put one new entry in its place: a start with files  *)
(* in the command line may close several at once (tedcolle.cc:579).         *)
ClosedInOrder ==
  pc = "rest" /\ ~jumbled =>
    \A k, l \in ClosedEntries : k < l => items[k].name <= items[l].name

(* A closed file is only forgotten when as many as are to be remembered     *)
(* were closed in the same second or later (tedcolle.cc:551).               *)
ForgetsOldest ==
  [][ \A k \in ClosedEntries :
        pc = "sort" /\ items' = RemoveAt(items, k) =>
          Cardinality({l \in ClosedEntries \ {k} : ~Older(l, k)})
            >= maxClosedToRemember ]_vars

(* At the end of read(): the editors and windows that were stored, in their *)
(* places, without those that could not be loaded or are not wanted, which  *)
(* are remembered as closed with those that were (tedcolle.cc:303).         *)
Stored(Test(_)) == {k \in 1 .. Len(desktop.entries) : Test(desktop.entries[k])}
Stays(e) == e.type = "editor" /\ ~Gone("editors") /\ e.win \notin desktop.lost \cup {0}
Wanted(e) == SectionOf(e) = "others" /\ (Gone("others") => e.win = MainHelp)
Left(e) == e.type = "editor" /\ ~Stays(e) /\ Remembered(e, FALSE)
WasClosed(e) == e.type = "closed" /\ ~Gone("closed")
ToRemember == Stored(LAMBDA e : Left(e) \/ WasClosed(e))
NamesIn(list, places) == {list[k].name : k \in places}

(* Behind the entry at from there are those of the desktop at places, one   *)
(* each and in their order.                                                 *)
Place(k, places) == Cardinality({l \in places : l <= k})
Restored(from, number, places) ==
  /\ number = Cardinality(places)
  /\ \A k \in places : items[from + Place(k, places)] = desktop.entries[k]

RestoresDesktop ==
  pc = "read" /\ c = 0 =>
    /\ Restored(0, Editors, Stored(Stays))
    /\ Restored(Editors, nonEditors, Stored(Wanted))
    /\ NamesIn(items, ClosedEntries) \subseteq NamesIn(desktop.entries, ToRemember)
    /\ Cardinality(ToRemember) <= maxClosedToRemember
         => /\ NamesIn(items, ClosedEntries) = NamesIn(desktop.entries, ToRemember)
            /\ Closed = Cardinality(ToRemember)

(* read() visits entries of the list, whatever removing an editor does to   *)
(* it, unless more closed files were stored than are to be remembered       *)
(* (tedcolle.cc:327).                                                       *)
ClosedStored == {k \in 1 .. Len(desktop.entries) : desktop.entries[k].type = "closed"}
ReadsEntries == pc = "dead" => Cardinality(ClosedStored) > maxClosedToRemember
=============================================================================
