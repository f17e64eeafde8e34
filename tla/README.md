# Formal models of SetEdit

SetEdit is a programmer's editor for text terminals, a C++ program of one
thread around the Turbo Vision event loop. This directory holds TLA+ models of
the parts where its logic is hard to test, TLC configurations that check them
on small instances, and TLAPS proofs of the properties that matter most, for
all instances. Paths below are relative to `src/setedit/`.

## 1. Inventory

One thread runs `TSetEditorApp::run()`: it takes an event, lets the focused
view handle it, and when there is no event calls `idle()`. A modal dialog runs
a nested event loop, in which `idle()` is called too. What runs concurrently
with the thread: child processes (compilers, scripts, gdb), other programs that
write the same files, the clock, and whatever may kill the editor.

| Component | State | Operations | Interacts with | Hard behaviour | What makes it correct |
|---|---|---|---|---|---|
| Undo and redo (`mainsrc/ceditor.cc` 12300-13290) | ring `UndoArray`, indices `UndoBase`, `UndoActual`, `UndoTop`, open cell `UndoSt`, group counter, flags in the cells | `addToUndo`, `lockUndo`/`unlockUndo`, `undo`, `redo`, `flushUndoInfo`, `RevertModifFlagInUndo` | every edit; `saveFile`, `reLoadFile` | a full ring, wrap around, merging, commands of several cells, recursive `redo`, modified flag kept in cells | undo and redo invert each other; nothing is lost, freed early or left inside a command; an unmodified text is the saved one |
| External programs (`setedit/runprog.cc`, `mainsrc/dumpfile.cc`) | pid, phase of the run, output file, incremental parser | run (four ways), idle parsing, stop, clean up | idle loop, message window, macros, screen saver, quitting | the child writes while the editor reads; modal dialogs; stop before the first idle call | every line once, whole, in order; each resource released once; the run ends |
| Files of a window (`mainsrc/ceditor.cc` 13800-14560, `setedit/editmain.cc`) | name, modified flag, known time, read only flag, time of the last check | load, save, save as, backup, periodic check, reload | operating system, other programs, user | failures and kills between two calls, changes of other programs, times in seconds | an old or the new text is always recoverable; no change of another program is missed or asked about twice |
| Text buffer, line index and selection (`mainsrc/ceditor.cc`, `linelen.cc`) | gap-less buffer, line in edition outside of it, index of line lengths, cursor in three forms, markers, selection, special lines | insert, delete, flush of the line, paste, cut, indent, motions | undo, everything that reads the text | the line in edition and the buffer disagree until it is flushed; every command moves markers and selection with formulas of its own, twice | the text is what a plain editor of lines would have; index, markers and selection agree with it |
| Lines that follow edits (`mainsrc/splinman.cc`) | for each file a list of lines with the number they were set with and the one they have now, and a copy being changed | add, remove, move with the text, transfer | editors, messages, debugger | changes go to the copy, edits to the original; files open and close in between | a line stays with its text |
| Message window (`setedit/edmsg.cc`) | list, directory stack, `haveJumpLines`, focus | add, delete, clear, first, next, previous | external programs, grep, debugger, special lines | next and previous call each other | a jump ends, on the line the message was about |
| Breakpoints (`setedit/debug.cc` 4100-4560) | list, gdb's own, special lines | toggle, add, modify, enable, disable, delete, move with the text, apply to a session | gdb, special lines | the same breakpoint in three places, found by a number that changes | the breakpoints drawn are those gdb has, on their lines |
| Debugger session (`setedit/debug.cc`) | state of gdb, pending stop, watches | start, run, step, poll, close | gdb, idle loop, editors | late answers, closing with pending answers, modal dialogs | the state shown is the state of gdb |
| Window collection (`setedit/tedcolle.cc`, `dskclose.cc`, `dskedito.cc`) | one collection in three sections with three counters, numbers of the windows | open, close, save as, delete, sort, store and restore | editors, desktop file, projects | counters and sections must agree, also half way through a restore; at most so many closed files | each window once, in its section; the latest closed files kept, once, in order; a desktop comes back as it was |
| Others | | | | | |

"Others" are listed in `PROJECT.json` with the reason each is left out:
projects, search and grep, syntax highlight, macros, tags, keyboard and menus,
configuration, compressed files, printing and export, screen savers and
gadgets, dialogs, the auxiliary libraries, SDG, and vendored code.

## 2. Modules

| Module | Contents |
|---|---|
| `LineText` | one line of text: clip, piece, delete, insert, overwrite |
| `UndoRing` | the undo engine; every edit of the line with the cell it records |
| `LinearHistory` | abstract: a document, its past and its future |
| `UndoHistory` | `UndoRing` with a memory of the lines around each cell; the refinement and the properties that need it |
| `UndoRingProofs` | theorems of `UndoRing` and `UndoHistory` |
| `RunProgram` | running programs and collecting their output |
| `JobOutput` | abstract: lines written, lines shown, how a job ends |
| `FileSave` | load, save with backup, check for changes, crashes |
| `AtomicSave` | abstract: the recoverable text is replaced in one step |
| `RunProgramProofs` | theorems of `RunProgram`; that it implements `JobOutput` |
| `FileSaveProofs` | theorems of `FileSave`; that it implements `AtomicSave` |
| `WindowCollection` | the list of windows, open and closed, and the desktop stored and restored |
| `WindowCollectionProofs` | theorems of `WindowCollection` |
| `EditedLines` | abstract: lines of text, a cursor, a block, and what each command does to them |
| `TextBuffer` | buffer, index of lines, line in edition, markers, selection; implements `EditedLines` |
| `SpecialLines` | the special lines manager with its two users, the message window and the breakpoints |
| `SpecialLinesProofs` | theorems of `SpecialLines` |
| `TextBufferProofs` | theorems of `TextBuffer`: the index of lines and the types |
| `TextSelectionProofs` | theorem of `TextBuffer`: the selection |
| `NumberFacts` | lemmas about naturals and recursive functions that the proofs share |
| `MCUndoRing`, `MCUndoHistory`, `MCRunProgram`, `MCFileSave`, `MCWindowCollection`, `MCTextBuffer`, `MCSpecialLines` | instances for TLC |

In each module the names are the source's where TLA+ allows it. A definition
that no action uses and that stands right before another with the same
parameters (`KeptWithTail` before `Kept`) is a plausible bug of the second;
`PROJECT.json` lists which property it breaks, and each is checked to do so.

### 2.1 `UndoRing`

*State.* `UndoArray`, `UndoBase`, `UndoActual`, `UndoTop`, `UndoSt`,
`undoLockCount`, `undoGroupCount` are the members of `TCEditor`; `leaked` counts
the locks no command will give back, so that `NoCommand` tells a running
command from a lock left behind. A cell is a
record with the fields of `UndoCell` the handlers read. `text` and `cur` are
the current line and the cursor in it, `disk` the saved line. `undoing` and
`redoing` are the call stacks of `undo()` and `redo()`: `undo()` counts the
cells of a command first and then undoes that many, `redo()` calls itself from
a loop in every call, with a local variable `aux` in each.

*Actions.* One per handler, with all that it does: `PutChar`, `OvrPutChar`
(`OvrPutCharNoRoom` at the end of a line that cannot grow, where
`InsertCharInLine()` returns with its lock held: from then on every edit joins
one command, until a reload resets the count), `BackSpace`, `DelChar`, `Move`,
`ToggleInsMode`, `DelEnd`, `DelStart`, `DeleteSelect`, `InsertBuffer`,
`SelRectHide`, `LockUndo`/`UnlockUndo`, `Undo`/`UndoMore`,
`Redo`/`RedoMore`/`RedoReturn`, `RemapCodePageBuffer` (a flush), `ReLoadFile`,
`SaveFile`, `ToggleMoveOnPaste`. The part of `addToUndo()` they share is
`AddOrMerge`: merge into the open cell, or `PushAfter`: close it, allocate the
next one, push the sentinel past a whole command when the ring is full, free
what could be redone.

*Abstracted.* A text is one line; the line in edition (`bufEdit`), selections,
rectangles and trailing spaces are left out, and so are the edits that save a
copy of a block. Freed cells are kept with the fields the code leaves in them
(`Count`, `Flags`), because the next user of the cell inherits them.

*Assumed of callers.* A command is `lockUndo`, edits, `unlockUndo`; undo, redo,
save and reload do not happen inside one.

### 2.2 `RunProgram`

*State.* `PidChild` (0, the pid, or -1 when only parsing is left),
`ParsingErrors`, `PendingCleanUp`, `StackPath`, `ErrorFile` are the static
variables of `runprog.cc`; `incf`, `incFinished`, `fromPrevRun` those of
`dumpfile.cc`, with the offset in the file as whole lines and pieces of the
next. `child` and `output` are the program and what it has written, a line
being the number of pieces it was written in: enough to tell a whole line from
a mutilated one. `inParse` says that `idle()` has called `waitpid()` but not
the parser yet, for the child may write and exit in between.

*Actions.* `ChildWrites`, `ChildEndsLine`, `ChildExits`; `RunForked`,
`RunThenParse`, `RunAndDump`, `RunForInfo` (`RunExternalProgram()` in the ways
its options and callers have it); `TakeErrorFile` (macros and the screen
saver); `IncParseWait` and `IncParseMore` (`RunExternalProgramIncParse()`);
`StopChild`; `OpenDialog`, `CloseDialog`. `IncCleanUp` is shared by the last
parse and by the stop.

*Abstracted.* Parsing a line into a message, which message is focused, screen
switching, lines longer than the buffer of `fgets()`, failures to create the
file or the child.

### 2.3 `FileSave`

*State.* `disk`, `bkp` and `mtime` are the files, their backups and times;
`fileName`, `buffer`, `modified`, `DiskTime`, `isReadOnly`, `sinceCheck`
(`lastTimeCheck`) and `forceNextTimeCheck` are the window; `pc`, `oldName`,
`revertToReadOnly` and `noChangeTime` say where in `saveAs()` and `saveFile()`
the editor is and hold their locals. `news` and `snapshot` are history
variables: what happened to the file since it was loaded, and whether the
window was opened read only. A text is a number, `Partial` a truncated file.

*Actions.* `Save`, `SaveSameTime` and `SaveAs` start a save. `saveFile()` is a
step for each call of the operating system: `Rename` or `CopyStart`/`CopyEnd` (a
link is copied), `Create`, `WriteAndClose`; `BackupFails`, `CreateFails`,
`WriteFails` are its error paths. `backupOf` names the backup of each file,
which two files may share. The dialogs are values of `pc`, each with its
answers: `"replace"` with `Replace` and `SaveAsRefused`, `"cantBkp"` with
`NoBackup` and `GiveUp`, and the message `"error"`. A save that was given up or
failed ends, by `Failed`, in `saveAs()` going back to the old name and mode.
`KillFilesToKill` deletes backups that `AddToFilesToKill()` listed, by the
command for it or when the editor is left.
`CheckDiskCopyChanged` is the check of `Idle`, between commands and in the
event loop of a dialog (a message box is not the editor `idle()` looks at, so it
checks the one that was current), and of `AfterRun`, by force after a program
was run; `"ask"` is its question, `Keep` and `Reload` the answers.
`OtherWrites` is another program, between commands or while a dialog is open;
`Tick` is the clock, which runs during a save too. `Crash` may happen between
any two steps; at `Restart` the user takes the file, or its backup when the file
is missing or truncated.

*Abstracted.* End of line conversion, compression, attributes, untitled and
clipboard windows, the options that turn the check off, reloading of
configuration files. Other programs write whole texts and only while the editor
is in an event loop. A question that comes up inside of a dialog is answered
with No in its step: the answer Yes destroys the editor whose `saveFile()` is
still running, and two such questions, one in the other, both answered Yes
destroy it twice (section 5); after either, what the program does is not
defined.

### 2.4 `WindowCollection`

*State.* `items` is the collection, `Editors`, `nonEditors` and `Closed` the
three counters that cut it. `windows` and `failed` are the screen: the views
that exist, and those whose file could not be loaded. The locals of the loops
(`ic`, `sorted`, `i`, `c`, `type`) are variables, since `sortClosed()` is called
in the middle of `read()` and `pc`/`back` say which loop runs. `desktop`,
`renamed` and `jumbled` are history: the desktop file being read, with the
sections to remove and the windows whose file could not be loaded, the names
texts were saved under, and whether several files were closed unsorted.

*Actions.* `Open`, `OpenCopy`, `GoClosed` (`openEditor()` from its callers, with
the copies that become read only and the limit on windows of one file),
`SaveAs`, `CloseWindow` (`removeWindow()`, `removeEditor()`,
`removeNonEditor()`), `DeleteFile`, `DeleteClosed`, `addNonEditor`,
`ReEnumerate`, `CloseAll` with `EachClosed`/`EachOther`/`EachEnd`
(`forEachNonEditor()`), `Evict`/`SortTurn`/`SortEnd` (`sortClosed()`),
`Restart` (`write()`, and a new process whose `read()` goes on in the `Read...`
actions), `SetLimit`, `Tick`.

*Abstracted.* Drawing, Z order, the resume of a window but for its date, inodes
(a file has one name), projects. File names are numbers in their order.

*Exempted.* `RememberedOnce` does not speak of names texts were saved as, nor
`ClosedInOrder` of lists where several files were closed at once, nor
`ReadsEntries` of lists over their limit: in these the code fails (section 5).
A second help window is left out of the run for the same reason.

### 2.5 `TextBuffer` and `EditedLines`

*State.* `e` is the editor, a record of the members of `TCEditor` the commands
share: `buffer`, `lenLines`, `totalLines`; the cursor as line `y`, column `x`
and offset `curLine` of its line; `bufEdit`, `inEdit` (`inEditPtr-bufEdit`),
`restCharsInLine` and the members `selLine...`, `selNew...`, `markInLine` of
the line in edition; `selStart`, `selEnd`, `mark`, and `nline`, one special
line. A record, because a command is a composition of calls that each change
most of it: an operator from editors to editors stands for a call. `tracked` is
history: where the one character that is followed (`Tracked`) was when the
marker, selection or special line was set.

*Actions.* `TypeKey`, `toggleInsMode`, `BackSpace`, `DelChar`, `newLine`,
`insertText`, `clipPaste`, `DelEnd`, `DelStart`, `DelLine`, `StartSelect`,
`EndSelect`, `CutBlock`, `MarkLine`, `Indent`, `UnIndent`, `SetMarker`,
`GotoMark`, `SetSpecialLine`, and the motions. `deleteRange()` looks at the
character behind the range; behind the text that is whatever memory holds,
hence its argument `stale`.

*Refinement.* `EditedLines` knows lines without blanks at their ends, the
cursor, and the two ends of the block. `Seen` maps the buffer and the line in
edition to them, `Block` the offsets of the selection. So `EditsLines` says that
which of two places a text is in, and when it moves between them, is invisible.

*Abstracted.* Tabs, CR LF, allocation, colours, the undo history, rectangles,
wrapping, automatic indentation. `PersistentBlocks` is on.

*Exempted.* `known` says that the last step is one the code gets wrong for a
marker or the selection; the behaviour stops there. Each condition that sets it
is named for its cause (`Filled`, `Torn`, `StaysBehind`, `EndsInside`,
`BehindBlock`, `InIndentation`, `Astray`, `Forgotten`) and described in section
5. `Parted` (the cursor of the line in edition has parted from the one on the
screen, after End in an emptied line) likewise disables the commands that would
write at the wrong place. Deleting to the start of a line in edition leaves
`restCharsInLine` larger than what is behind the cursor (`Surplus`); motions,
typing and deleting in the line go on with it, and from there Del at the end of
the line and deleting to its end (`DelChar`, `DelEnd`) work on the bytes behind
the string, which are remains of earlier text: these two steps are left out, so
`EditsLines`, `Follows` and `SelectsText` do not speak of them. Nor do they of
unindenting a last line of blanks when the byte behind the buffer is a blank
(`IsUnIndentable`): the model takes it for another character.

### 2.6 `SpecialLines`

*State.* `nodes` is the manager's list of files, with the collection in use
(`special`) and the copy being changed (`new`) of each. A special line has
`oline`, its number when it was set and the key of the collection, `nline`, its
number now, and its owner. `msgs`, `focused`, `haveJumpLines` are the message
window, `bkpts` the breakpoints. `text`, `disk` and `open` are the files: a line
of text is an identity, so that the model can tell where it went, and each
special line, message and breakpoint remembers the line it was set on (`what`).

*Actions.* Edits and windows: `insertLine`, `deleteLine`, `saveFile`,
`closeFile`, `openEditor`. Messages: `EdMessageWindowInit`,
`EdShowMessageFile`, `EdShowMessage`, `SpLinesUpdate`, `deleteMessage`,
`selectItem`, `selectNext`, `selectPrev`, `EdJumpToFirstError`. Breakpoints:
`DebugToggleBreakpoint`, `Add`, `Modify`, `Enable`, `Disable`, `Delete`,
`DebugMoveBreakPts`, `apply`. gdb accepts a breakpoint, refuses it but takes the
old one back (`"keeps"`), or refuses both. When it refuses to delete one,
`DeleteFromGDBandSpLines()` and `unset()` return before anything is changed, and
so do the commands that called them: to the specification that is a stutter,
and every property holds of it as of the step that was not taken.

*Abstracted.* Columns, the CPU line, conditions and counts of breakpoints, text
saved under another name, and gdb beyond its answer to a breakpoint.

*Exempted.* `astray` holds the files for which one of the faults of section 5
has happened; `fate` says that the editor hangs or crashes. Properties speak of
the other files. `JumpsToLine` also leaves out two special lines that were set
with the same number, of which the manager finds either.


## 3. Runs

| Run | Specification and bounds | Shows |
|---|---|---|
| `undo_ring` | all handlers, 3 cells, 3 edits, commands of up to 3 cells, one lock left behind, one character | `TypeOK`, `RingInOrder`, `CellsAccounted`; `LoopsEnd`: `undo()` and `redo()` return even for a command as long as the ring or one that never ends |
| `undo_text` | all edits of the line, 4 cells, 5 edits, two characters, lines of up to 3 | `LinearHistorySpec`: with merging and eviction, undo and redo bring back line, cursor and mode; `OpenCellMatches` |
| `undo_commands` | commands of up to 2 cells, 6 cells, 5 edits, one save | `LandsOnCommand`, `RedoStaysInChain`, `UnmodifiedIsSaved` |
| `program_output` | whole lines, up to 5 of them, 3 runs, 2 dialogs, stops | `JobSpec`: lines appear once, whole, in order, and all of them before the editor says it is back |
| `program_disturbed` | any output, 3 runs of any kind, the file taken away | `TypeOK`, `NothingLeftBehind`, `ReadsOpenFile`, `NeverClosedTwice`, `RunsEnd` |
| `save_atomic` | 2 names, one a link, both with a backup of their own; crashes; backup and creation fail; checks in any dialog; backups deleted | `AtomicSpec`: a save replaces the recoverable text in one step |
| `save_window` | 2 names, one backed up, writes fail too; checks in the dialogs of a save | `TypeOK`, `UnmodifiedIsOnDisk`, `AsksOnceAboutChanges`, `ReadOnlyStays`, `ChangeIsTold` |
| `save_lost` | `fclose()` fails | **violated**: a text that was not written is taken for saved |
| `window_list` | 2 names, 3 windows, limits of 1 and 3 closed files, 2 seconds, one restart with any section stored or removed and any file lost | `TypeOK`, `SectionsInOrder`, `NumbersInOrder`, `ListedOnce`, `RememberedOnce`, `ClosedInOrder`, `RestoresDesktop`, `ReadsEntries`, `ForgetsOldest` |
| `text_edit` | 5 files, 2 keys, 2 texts to paste, 3 characters, 4 columns, each use of the window | `TypeOK`, `LinesInStep`, `RestCoversLine`, `Follows`, `SelectsText`; `EditsLines`: the commands edit lines, wherever the text is kept |
| `special_lines` | one file of up to 2 lines, 3 identities, 2 special lines, one message, 2 breakpoints | `TypeOK`, `FollowsText`, `JumpsToLine`, `BreakpointsDrawn` |
| `lines_moved` | 3 lines, no messages | **violated**: moving two breakpoints on neighbouring lines exchanges them |

*Why the bounds suffice.* Three cells are the least on which the ring wraps,
is full with a command still in it, and has a sentinel, a done and an undone
cell at once; six are as many as five edits can fill without eviction. Two
characters tell orders apart. Two passes of the parser, with two lines each,
show every relation between what is in the file and what is taken, and three
runs show what one leaves for the next. Two names show a save to another name
and two texts besides the first show a change on top of a change. Three windows
and two names show a copy beside its file and a third thing behind both; a list
over and within its limit occur with 1 and 3; one restart shows all a restart
can leave. A text of three characters has a line in front of and behind the
cursor's, or a block that ends inside a line (`MaxLen` also bounds how far a
surplus of `restCharsInLine` may reach); `"special"` was also run with 4
characters (120 000 states). Two special lines are
the least that can be confused, and 3 identities leave one for a line that is
inserted; the lines are symmetric, because a text starts with any of them and
nothing compares them but for equality. The runs of the larger modules leave
most of the five minutes a run may take to the length of behaviours: all of
them reach every state within their bounds. Deadlock is not checked: the bounds
stop the behaviours, and a program or a user may do nothing more.

*Fairness.* `UndoRing`: a handler that was called runs to its end.
`RunProgram`: `idle()` is called again and again, also in dialogs, and a dialog
is answered in the end (strongly fair, since `idle()` comes in between);
nothing is assumed of the program. `FileSave`: calls of the operating system
return, the user answers dialogs, the clock runs, and `idle()` is reached
between commands (strongly fair, since a user may start a save each time).
Nothing makes a user save or a program stop. `WindowCollection`, `TextBuffer`
and `SpecialLines` have safety properties only: every step is a command of the
user, which nothing makes happen, or a turn of a loop over a list that gets
shorter or a counter that grows.

## 4. Proofs

TLAPS proves the following for every value of the constants.

| Theorem | Module | States |
|---|---|---|
| `TypeCorrect` | `UndoRingProofs` | `TypeOK` of the undo engine |
| `RingSafe`, `NoCellLost`, `OpenCellSafe` | `UndoRingProofs` | `RingInOrder`, `CellsAccounted`; `OpenCellMatches` without the code page remapping |
| `UndoImplementsHistory` | `UndoRingProofs` | `LinearHistorySpec`: undo and redo go through a linear history, whatever merges, is evicted or is left open, without deleting to the start of a line, hiding a rectangle or changing the setting for pastes |
| `UndoLandsOnCommand`, `RedoInChain` | `UndoRingProofs` | `LandsOnCommand`, `RedoStaysInChain`, on a ring that does not fill, if commands have at most two cells, merge no edits and leave no lock behind |
| `RunTypeCorrect`, `RunCleanedUp`, `ParserReadsOpen` | `RunProgramProofs` | `TypeOK`, `NothingLeftBehind`, `ReadsOpenFile` of running programs |
| `ClosedOnce` | `RunProgramProofs` | `NeverClosedTwice`, unless a run is stopped before the idle loop took it over |
| `RunShowsOutput` | `RunProgramProofs` | `JobSpec`, if every line is terminated and read in at most two pieces, and nobody takes the file away |
| `FileSaveTypeCorrect` | `FileSaveProofs` | `TypeOK` of the window and its files |
| `UnmodifiedKept` | `FileSaveProofs` | `UnmodifiedIsOnDisk`, unless `fclose()` fails unnoticed or a quit is canceled |
| `AsksOnce` | `FileSaveProofs` | `AsksOnceAboutChanges`, unless a change falls in the second of a load, save or check, or the check comes while `saveAs()` has already changed the name |
| `ReadOnlyKept` | `FileSaveProofs` | `ReadOnlyStays`, unless `saveAs()` is refused |
| `ListInSections`, `EditorNumbersGoUp` | `WindowCollectionProofs` | `SectionsInOrder`, `NumbersInOrder` of the list of windows |
| `OldestForgotten` | `WindowCollectionProofs` | `ForgetsOldest`: which closed file the list gives up |
| `WindowsListedOnce`, `ListTyped` | `WindowCollectionProofs` | `ListedOnce` and `TypeOK`, if the main help is the only help window |
| `ClosedRememberedOnce`, `ClosedOrdered` | `WindowCollectionProofs` | `RememberedOnce`, `ClosedInOrder` of the closed files |
| `ReadStaysInList` | `WindowCollectionProofs` | `ReadsEntries`: `read()` asks for no entry behind the end |
| `DesktopRestored` | `WindowCollectionProofs` | `RestoresDesktop`: a restart brings back what was stored, if the main help is the only help window |
| `SpecialLinesTyped` | `SpecialLinesProofs` | `TypeOK` of messages, breakpoints and their lines |
| `LinesFollowText` | `SpecialLinesProofs` | `FollowsText`: special lines are on the line of text they were set on |
| `MessagesJump` | `SpecialLinesProofs` | `JumpsToLine`: a message leads to the line it was about |
| `GdbHasDrawn` | `SpecialLinesProofs` | `BreakpointsDrawn`: gdb has the breakpoints that are drawn |
| `TextLinesInStep` | `TextBufferProofs` | `LinesInStep`: the index of lines describes the buffer, and the cursor is in a line of it |
| `TextRestCovers` | `TextBufferProofs` | `RestCoversLine`: what is moved in the line in edition reaches to its end |
| `TextTypeOK` | `TextBufferProofs` | `TypeOK` of the text buffer: offsets stay in their width while the text keeps to the bound |
| `TextSelectsText` | `TextSelectionProofs` | `SelectsText`: the selection stays inside the text, if nothing that is pasted begins with an end of line |
| `SaveIsAtomic` | `FileSaveProofs` | `AtomicSpec`, if every file has a backup of its own, which is not deleted while it is the only copy, and no write fails after the file was created |

*Assumptions.* Of the undo engine: at least two cells, texts over the alphabet.
Of the files: those backed up and the links are among the names, a backup
belongs to a name, the interval is a number. Of running programs: a pass takes
at least one line, outputs are sequences of lines. Of the windows: names are
positive numbers, limits are numbers, and there is room for one window. Of the
special lines: a file has a number of lines at first, and `NoList`, which
stands for a null pointer, is not a list. Of the text buffer
(`TextAssumption`): the key of the end of line is not among those that are
typed, texts are sequences, nothing empty is pasted, the files fit the bound,
and unsigned offsets wrap far behind the longest text. The conditions in the
table are hypotheses on `Ops` (and `BackedUp` and `backupOf`, for
`RunShowsOutput` on `Modes`, `Outputs` and `MaxPieces`, and for
`TextSelectsText` on `Clips`), and the cases they exclude are faults of the
code, described in section 5, or saves without a backup, which promise nothing.

*Undo.* `RingInOrder` is not inductive: `redo()` goes up a cell without looking
whether it passes `UndoTop`, since its callers looked. `IInv` adds what they
know: a suspended `redo()` is short of the top and `undo()` is not running.
All edits reduce to two shapes, a new cell or a merge (`EditShapes`), so that
the invariant is proved once for each shape; the arithmetic of the ring is in
lemmas about `After`. `CellsAccounted` holds through eviction because what is
freed is exactly the complement of `Kept`. A lock that is left behind changes
none of this, since no part of the invariant says where a command ends.

*Linear history.* `HInv` says that each cell in use records how to get from the
document before it to the one after it and back (`Recorded`), that one cell ends
where the next begins (`Linked`), and that the document now lies between the
cell to undo and the cell to redo (`Here`). It is not inductive: `redo()` puts
the cursor where the cell says its last edit left it, which a cell that is still
open has not saved, so `Closed` says that every other one has, and `OpenEnd`
that only the newest cell of all is open. The edits are taken one by one
(`Invertible` excludes the three that do not record enough): each, merged or
not, is shown to leave a cell that records it. Every step of `UndoHistory` then
is a step of `LinearHistory` or a stutter: an edit with a new cell is `Edit`, a
merge `Amend`, a cell undone or redone `Undo` or `Redo`, eviction and flush
`Forget`. The wrapping indices are dealt with once, by counting cells from the
sentinel (`Nth`).

*Commands.* `LandsOnCommand` speaks of states at rest only, so `Commands` says
what is true inside of a command and between the calls of `undo()` and `redo()`:
a cell counts 0 and began a command, or counts 1 and follows one that counts 0
(`Chained`); what the running command has added is at the top (`Grouped`); an
`undo()` that continues still owes the first cell (`Undoings`); a suspended
`redo()` stands at one of two places (`Redoings`). Its hypotheses are
`NeverFull`, fewer edits than cells, and `ShortCommands`, at most two cells a
command and no edit that merges. Each excludes a way the code leaves a command
half undone: eviction takes the first cell of a command away, `redo()` runs past
a command of three, and an edit merged into the cell of the command before
changes the text inside of a command that has no cell yet. A lock left behind
makes a command of any length, so it is excluded, too. The bounds of
`undo_commands` satisfy both.

*Programs.* `RunInv` ties together the three variables that say in which phase
a run is: `PendingCleanUp` only while `ParsingErrors` and with no child, and
then the parser has given up; the `FILE` of a run that has not been cleaned up
is never closed. With it the conjuncts of `NothingLeftBehind` are inductive.
`TypeOK` needs `InFile`, that the offset of the parser is in the file, for the
line it takes is a difference. For the refinement (`JobInv`), what is shown is
the part of the output up to the offset of the parser (`LinesShown`), what is
kept of a line is exactly what was read of it (`LineKept`, which is where a
third piece breaks it), and nothing is left to be written when there is no
child (`Written`, which is why asking for the child before reading its file
matters). A run that waits for a dialog has shown everything, so each of its
clean ups is a stutter until the last one, which is `Finish`.

*Files.* The properties speak of the window at rest; during a save each must be
remembered for the name a failure goes back to (`Kept`). `UnmodifiedInv` says
that the text kept is on the disk unless the save has already moved or
truncated that very file; `AsksInv` says the same of the known time, also in
read only windows, whose time must be right by when they become writable;
`ReadOnlyInv` ties the flag to the local variable of `saveAs()`. `DiskInv` adds
that a file that is missing has time 0 and that a question is about news. Each
is proved with a step for each action. For the refinement, `TextInv` says where
the texts are in each phase of a save; every step of `FileSave` then is a step
of `AtomicSave` or leaves `stored`, the best of file and backup, as it is.

*Windows.* Neither property is inductive alone. That the numbers go up does not
say that the first gap is free below the next editor: `addEditor()` stops at the
first editor whose number is not its index plus one, and a number smaller than
that would make it give one that is too high for its place. `Sized` therefore
says that the numbers go up by at least as much as the index and that the k-th
is k + 1 or more; then the editor at the first gap, and all behind it, have a
higher number than the one that is given. What an entry put in or taken out
does to a list in sections is proved first for lists as such (`EditorAdded`,
`EditorRemoved`, `BehindAdded`, `BehindRemoved`), so that each action is one or
two of these. What a restart stores is proved along the prefixes of the list
(`WrittenStep`), where the count of windows that cannot be saved has to agree
with what `write()` leaves out. The recursion behind it, and every choice of a
first or oldest entry, rest on `LeastNumber`, a set of naturals has a least
one, which follows from the well-foundedness of `<`.

`WindowsListedOnce` starts from `Sized`. `ListedOnce` alone says too little of
`read()`: `removeWindow()` overlooks a window whose editor failed to load, and
would leave its entry behind. So `Shown` adds that such entries, and those of
windows that could not even be made, exist only while `read()` runs, are
editors, and are behind its index; and that `read()` has turns left for every
editor, although it removes entries and sorts while it counts. Once it is past
the editors, no such entry is left (`PastEditors`) and the list is `Calm`, which
is what every other operation needs and keeps. `removeEditor()` looks an entry
up again by its window, and among windows that could not be made takes the
first one: `ReadTakes` shows that this is never one before the index.

`ForgetsOldest` is an action property: `sortClosed()` evicts while there are
more closed files than the limit, so the entry it takes leaves at least as many
behind, and none of those is `Older`, because the entry was chosen as an oldest
of all (`LeastNumber` again). It needs `SectionsInOrder` for the counter to be
the number of closed entries. For `ListTyped` the loops need a range each: the
index of `read()` stays in front of what is left to read, and a window that is
named by an entry is on the screen or failed.

The closed files need three more strengthenings. `RememberedOnce` compares
closed files with open ones; a close turns one into the other, so `Distinct`
says that no two entries that claim a name, closed or to be remembered when
they are closed, claim the same. Opening a file keeps it because `openEditor()`
makes the new window read only when the best of those that show the file is
not, and the best is read only only if all are (`BestShown`), and a restart
because a prefix of the stored list claims what the same prefix of the list
did. `Tidy` is what a turn of `sortClosed()` leaves true: one entry, at the
index the exchanges have come to, may be out of order, and none is when the
sort has nothing left to do; evicting comes before the first exchange, when
that entry is the first. `Ahead` bounds the turns `read()` has left by the
entries behind its index. A turn that closes an editor may cost two entries,
the editor's own and an evicted one, but it adds a closed file, and never more
than one is over the limit while the stored list kept to it: that is the
hypothesis of `ReadsEntries`, and where the proof would fail without it.

`DesktopRestored` compares the list with the stored one across a whole restart,
while `read()` takes entries out, puts closed files in and sorts them. The
entries that were stored have lasting names, their places in the desktop, and
`Restoring` describes the list by them after any number of turns. In front
(`FrontRead`) are, in their order, the places `read()` has not come to and those
whose window is still open: each is at its rank among them (`Place`), so the
index of `read()` is the rank of its turn. That one is therefore the next of
those stored (`ReadHere`), and taking it away lowers the rank of all behind it
and of none before (`PlaceTaken`, `FrontTaken`); a turn passed keeps a window
exactly if it was to stay. Behind (`BackRead`) only the names can be said,
since the sort exchanges the closed files: a turn of it neither loses a name nor
adds one (`SortTurnNames`, from the least of those before that it holds). They
are those of the editors taken away and of the closed files stored. Where closed
files are to be removed, the sections being in order and new ones being put
last, `read()` has exactly as many turns left as closed files in front of the
new ones. Where they are not, and there are more than the limit, some were
evicted (`EvictNames`), and only that no other name was added is left.
Nothing is assumed of the order or number of windows.

*Special lines.* `IInv` has four parts. The texts are sequences without
repetition (`Texts`): an identity is in one place, which is what makes "the line
it was set on" mean something. Each list is sorted by `oline` and each of its
lines is `Right`: `nline` is where the line of text is, or -1 (`Followed`). A
pending copy must contain the lines of the editor's own list, and what it has
more must not have moved yet (`Sound`); without it the copy that is installed
later could bring back a line that is not there. And every message that has a
line still has its special line in the list that will be installed (`Heard`,
`Known`): without it the search by the old number might find nothing and the
jump go to the old number. Files the code is known to have gone wrong for are
excepted (`astray`), and the proof shows that the list of ways to go astray in
the model is complete. The algorithms that walk a list, the binary search, the
removal of an id, the renumbering of the breakpoints and `apply()`, are
recursive functions. For each, a function with the right turns is shown to exist
(`Iterates`), which gives the equation of the `CHOOSE` behind the recursive
definition, and a property of every turn follows from the well-foundedness of
`<` (`Turns`). The search ends between the keys that are smaller and those that
are not (`SearchPlace`).

`BreakpointsDrawn` counts, so its proof is an account: `LinesGain` says what an
operation of the manager adds to the special lines of a file and line,
`BkptsGain` what one on the list of breakpoints adds to the enabled ones, and an
action keeps the two equal if both gain the same (`GainKeeps`). This is where
the order of the steps matters: `ApplyBkt()` may only add the line gdb took, and
modifying a breakpoint removes the old line before. Moving the breakpoints is
the exception, since one breakpoint may take what was meant for another. Turn by
turn, the special lines already moved count where they are now and the rest
where they were set (`MoveCounts`); as long as these are the numbers of the
enabled breakpoints, the next special line finds a breakpoint, and it is an
enabled one unless a disabled one is on its line (`Masked`), the case in which
the file goes astray.

*Text buffer.* The offset of a line is the sum of the lengths before it, which
the model writes as a recursive function; `Starts` is that function for all
lines, and `StartsAre` says that whatever begins at 0 and goes up by the
lengths is it. So a command's new offsets can be given outright and never have
to be summed. `Cuts` is `LinesInStep` in these terms: the offsets go up, the
end of line in front of each is there, and no other is. Every command on the
buffer is a splice of the buffer and of the index. `Respliced` and `Resummed`
show once that such a splice keeps `Cuts` if the new lines in the middle are
lines and what follows moves by the same; deleting (`ShutLines`) and inserting
(`OpenedLines`) are instances, in which the number of ends of line in the range
is counted against the offsets that fall into it (`CountedEnds`, `Nths`), and
the blanks that `deleteRange()` and `insertBuffer()` take along must not reach
into the line before. Indenting rewrites all lines at once: `JoinedCuts` says
that lines one after the other are cut where their lengths add up.
`LinesInStep` is not inductive without the line in edition: `Good` adds that it
has no end of line, and that its cursor is the one on the screen unless that
one is at the beginning, which is what keeps the positions at which characters
go in and out inside it (`deleteRangeLineInEdition()` and `LineEnd` of an empty
line leave the other case behind), and `RestCoversLine`: the code knows the end
of the line only by `restCharsInLine`, and each motion, insertion and deletion
keeps `inEdit + restCharsInLine` at the end or behind it, never in front. For
`TypeOK`, the ends of the selection and the marker are offsets that the
commands add to and take from, sometimes without reducing the result to the
width of an `unsigned`. Each of these sums is shown to stay in it: `KeepsFine`
and `FlushFits` bound the text with and without the line in edition, `LinesFit`
the lines by the characters (`IndentBlock()` adds one per line), and the start
of a block only moves back to its line (`JumpLineStartSelection()`).

*Selection.* While a line is in edition its selection is kept twice: as offsets
of the text, and as positions in the line, where 0 also stands for "in front of
it" and one more than its length for "behind it". `AdjustLineSel()` reads the
positions and moves the offsets, so `SelectsText` is only true as long as the
two agree (`EndAt`). What agreement means is not the same at both ends: a
selection that starts at the end of the line starts behind it for the code, one
that ends there does not. When the selection is empty its ends are not moved any
more, and all that stays true is `Stale`: an end in front of the line still has
position 0 and no position is more than one behind the line. A new end joins
such a leftover, and is right unless the model says the selection was `Torn`
(`UntornEnd`). `SelInv` is all this, as long as the steps are not those the code
gets wrong; TLC has checked it within the bounds of `text_edit`. Every
change of the line in edition is one of four (`InsertSelected`,
`EraseLeftSelected`, `EraseRightSelected`, `DeleteRangeInEditionSelected`), each
proved by comparing its two ends with the place of the change
(`SelectedMoves`). Beginning and ending the edition are `EditLineSelected` and
`FlushSelected`; the calls on the buffer are `DeletedSelected`,
`InsertedSelected`, `IndentedSelected` and `UnIndentedSelected`, the last of
which sums what the lines lose up to the end of the block. The differences the
code computes as `unsigned` do not wrap, because nothing on the way is longer
than `Reach` (`WithinReach`), and `Unsigned` is more than twice that.

*Model checked only.* Liveness (`LoopsEnd`, `RunsEnd`, `ChangeIsTold`), which
is out of the prover's reach; `UnmodifiedIsSaved`, which relates the flags of
the cells to the texts on both sides of a save. Of `TextBuffer`, `Follows` and
the refinement `EditsLines`: both compare the characters around a place before
and after each command.

## 5. Where the code and what is said of it disagree

Two have a run (`findings` in `PROJECT.json`): `TGZFileWrite::close()` ignores
`fclose()`; `DebugMoveBreakPts()` exchanges breakpoints.

The following were met too, have no run, and can be seen by the change of
constants given (or, without one, by reading).

*Undo.*

- `redo()` runs past a command of three cells (`MaxGroup = 3` in
  `UndoHistory_commands.cfg`: `RedoStaysInChain`); `RevertModifFlagInUndo()`
  forgets the end flags, and after a second save an unsaved text is taken for
  unmodified (`MaxSaves = 2`: `UnmodifiedIsSaved`).
- Redo of "delete to the start of the line" deletes from the wrong place
  (`"DelStart"` in `UndoHistory_text.cfg`); redo of a paste uses the current
  setting of "move to the end on paste" (`"ToggleMoveOnPaste"`); hiding a
  rectangle writes the length of the cell before (`"SelRectHide"`); a flush
  leaves `UndoSt` naming a freed cell (`"RemapCodePageBuffer"`).
- A ring that fills evicts up to the first cell with `Count` 0, which may leave
  the end of a command without its start; `SmartUnIndent()` merges into a cell
  of another command.
- `InsertCharInLine()` in overwrite mode returns between `lockUndo()` and
  `unlockUndo()` when the line cannot grow (`ceditor.cc:6214`): all later edits
  join one command and are undone together (`OvrPutCharNoRoom`, part of
  `undo_ring`: the ring itself stays whole). In insert mode it records the
  character before it finds that there is no room (6229-6234), and undo deletes
  one that was never inserted; this is not modelled.
- The command Redo is enabled by `UndoActual<UndoTop` (`ceditor.cc:11478`),
  wrong once the ring has wrapped. `undoSelRecHidedF` (0x100) does not fit in
  the `char` `Flags` (`ced_exte.h:296`). The manual says 32 operations can be
  undone, `MAX_UNDO` is 256.

*Programs.*

- A line read in three pieces is mutilated (`MaxPieces = 2` in
  `Program_output.cfg`), and a last line that is not terminated is kept for a
  pass that never comes (`Kept`; what the program has written but not
  terminated is no line to `JobOutput`).
- A run stopped before the first idle call closes a `FILE` twice
  (`"EarlyStop"` in `Program_disturbed.cfg`: `NeverClosedTwice`), and uses the
  focus rules of the run before (`runprog.cc:618`).
- Stopping a run whose program has ended already waits for any child, and with
  a debugger attached the editor hangs (`runprog.cc:709`; `OtherChild = TRUE`
  and `"EarlyStop"` in `Program_disturbed.cfg`, with `RunsEnd` alone).

*Files.*

- A save that fails after truncating the file leaves the only good text in the
  backup; the next save renames the truncated file over it (`"WriteFails"` in
  `Save_atomic.cfg`).
- The name of a backup is made by replacing the extension
  (`ceditor.cc:13927`), so `a.c` and `a.h` share one: when `a.c` could not be
  created after its backup was made, saving `a.h` overwrites the only copy
  (`backupOf <- OneBackup` in `Save_atomic.cfg`). A backup that is the only copy
  is deleted like any other by the command for it, or when the editor is left
  (`pathtool.cc:744-766`, `editmain.cc:1257`, 3434; `"LastCopyKilled"`).
- The idle loop checks the file of an editor while `saveAs()` asks whether to
  replace another one (`editmain.cc:2453`): `fileName` is already the other
  one, so its time becomes the known one, and a change of the window's own file
  escapes if the user answers No (`"OtherChecked"` in `Save_window.cfg`:
  `AsksOnceAboutChanges`). When the question to reload comes up there and is
  answered with Yes, the editor whose `saveFile()` runs is destroyed.
- `saveAs()` of a read only window, refused because the file exists and is not
  to be replaced, leaves the window writable; the manual says it stays read
  only (`"Refused"` in `Save_window.cfg`).
- Answering No for a window while quitting clears its modified flag even if the
  quit is canceled for another window (`ceditor.cc:14108`; `"QuitCanceled"`); a
  change in the second of the last load is missed (`ceditor.cc:14472`;
  `"SameSecond"`); saving does not look at the time of the file
  (`ceditor.cc:13910`).

*Windows.*

- `read()` counts the entries it has yet to visit before it removes any; when
  `sortClosed()` takes out more than one, the index passes the end of the list
  (`tedcolle.cc:327`). It takes a stored list longer than the limit, which the
  user lowered after the last file was closed (`ReadsEntries` without its
  second half).
- `TDskWinHelp::Compare()` does not look at the window: closing a second help
  window removes the entry of the first (`"help"` in `Kinds` of
  `Window_list.cfg`: `ListedOnce`).
- A text saved under the name of a file in the closed list leaves it there,
  although `tedcolle.cc:510` guards against such duplicates in another path.
- The sort of the closed files stops at the first position that needs no
  exchange (`tedcolle.cc:581`): right for one new entry, wrong for several.
- With dates of a second, the file just closed may be the one that is evicted;
  `tedcolle.cc:538` says it is kept.

*Text* (each is a condition of `known` or `Parted`).

- End, in a line in edition emptied of all but blanks, leaves `inEdit` one
  behind the end of the string (`ceditor.cc:2420-2440`), and deleting to the
  start of the line leaves it where it was (`ceditor.cc:7965`, against
  `ced_clas.h:470`); what is typed next goes to the wrong place. End also drops
  blanks without telling the selection.
- Deleting to the start of the line does not correct `restCharsInLine` either
  (`ceditor.cc:7962-7994`, against `ced_clas.h:477`), and Home adds to it
  (2362). Del at the end of the line then takes the bytes behind the string for
  characters (2536): with `bbm` in edition and the cursor at column 2, deleting
  to the start, Home, Right and Del give `mm`; with `m` selected in the line
  behind a `b` just typed, deleting to the start, Home and Del delete nothing
  and move the selection off `m`. (`Surplus`; both steps are left out.)
- `IsUnIndentable()` reads on behind the buffer when the last line is only
  blanks (12145-12155). If there is a blank there, more is taken off than the
  line has (12253), its length wraps below 0 and the text is moved by it.
- `AdjustLineSel()` moves an end of the selection that is inside the deleted
  range by the whole length of the range (`ceditor.cc:7988`). Overwriting at
  the end of a line makes it longer without moving the selection behind it
  (6201-6212).
- `EditLine()` fills a line up to the cursor, and takes a selection that starts
  at the end of the line to start behind the filling (9570-9605).
- `insertBuffer()` eats blanks in front of an end of line without cutting a
  selection that ends in them, and leaves a marker at the place of insertion in
  front of what is inserted.
- `IndentBlock()` and `UnIndentBlock()` do not move markers behind the block
  (12100-12110, 12245-12268); a block that ends in the indentation of its last
  line is moved by more than is in front of its end, below 0 for a short one.
  `JumpLineStartSelection()` takes a block that starts right behind the
  cursor's line to start in it (11982), and one line too many is moved.
- Cutting the end of the last line decrements `totalLines` although the line
  stays.
- The ends of an empty selection do not follow edits, so a later end joins a
  stale one.
- Pasting text that begins with an end of line selects what was pasted, but the
  blanks it eats in front of it are taken off the end of the selection, too:
  `selEnd=selStart+TotalToAdd` (`ceditor.cc:7745`), where `TotalToAdd` was
  reduced by them (7699). In a line of blanks the end wraps below 0
  (`MCClips == {<<"\n">>}` in `MCTextBuffer.tla`: `SelectsText`).

*Special lines, messages, breakpoints* (each puts the file in `astray` or ends
in a `fate`).

- `SpLinesDeleteForId()` leaves a copy pending when nothing was removed
  (`splinman.cc:281-286`); edits then move the original, and the next change
  puts the copy, unmoved, in its place.
- While a file has only a copy (no transfer yet), `SpLineGetOldValueOf()` and
  `SpLinesForEachFile()` use a null pointer (the errors of a syntax file are
  never transferred, `mainsrc/loadshl.cc:1450`): toggling a breakpoint in that
  file crashes.
- `MoveBreakpoint()` changes `oline` without sorting again, after which the
  binary search misses lines; a disabled breakpoint on the old line is found
  before the one that is drawn.
- Closing a window without saving leaves the lines moved by the discarded
  edits; `saveAs()` leaves the editor with the list of the old file.
- Deleting a message with Del does not decrement `haveJumpLines`; when no
  message with a line is left, next and previous call each other for ever
  (`edmsg.cc:332`, 394-456).
- Enabling a breakpoint marks it enabled before gdb is asked (`debug.cc:4254`);
  when gdb refuses, the list says enabled, gdb and the screen do not.
  Breakpoints applied to a new session are drawn at the lines of the program,
  wherever the text went.

## 6. Not modelled

- *Debugger session.* It is driven by TVGdb, a library that is not in the
  repository: the order and content of its answers would be invented, and with
  them every property. The breakpoints need of gdb only whether it accepts one.
- *Sequential conversions and presentation*: drawing, menus and dialogs, key
  tables, configuration and stream formats, syntax highlight, block completion,
  printing and export, tags, calculator, SDG, Info viewer. They keep no state
  between calls that several actors change; what they compute is better tested
  than modelled.
- *Vendored libraries* (PCRE, zlib, bzip2, MPEG decoder) and generated data.
- *Macros* (sLisp) are an interpreter; what a macro can do to a running program
  or to a text is an action of `RunProgram` or `TextBuffer`.

What could still be added: rectangles and blocks in `UndoRing` and `TextBuffer`
(the cells that keep a copy of what they change), and the composition of both,
so that a flush and the cell that records it are one step.
