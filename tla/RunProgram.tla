----------------------------- MODULE RunProgram -----------------------------
(***************************************************************************)
(* Running external programs (setedit/runprog.cc) and collecting what they *)
(* print while they run (the incremental dumper of mainsrc/dumpfile.cc).   *)
(*                                                                         *)
(* The editor is one thread.  The program is a child process that writes   *)
(* to a file at its own pace; the editor reads the file a few lines at a   *)
(* time whenever it is idle.  Commands of the user, modal dialogs (during  *)
(* which the editor is idle too), macros and the screen saver come in      *)
(* between.                                                                *)
(*                                                                         *)
(* A line is the number of pieces it was written in; that is all the       *)
(* properties need to tell a whole line from a mutilated one.              *)
(*                                                                         *)
(* Left out: what is parsed out of a line, which message gets the focus    *)
(* and the jump to the first error, the screen switching, lines longer     *)
(* than the buffer of fgets, and failures to create the file or the child. *)
(*                                                                         *)
(* A definition that no action uses, just before one with the same         *)
(* parameters, is a plausible mistake in the code of the second.           *)
(***************************************************************************)
EXTENDS Integers, Sequences

CONSTANTS
  incLines,    (* lines parsed in one pass                                  *)
  Modes,       (* how programs are run: subset of AllModes                  *)
  Ops,         (* what else happens: subset of AllOps                       *)
  Outputs,     (* outputs of the programs that run to their end at once     *)
  OtherChild,  (* the editor has another child process, the debugger        *)
  MaxLines,    (* bound: lines a child writes                               *)
  MaxPieces,   (* bound: pieces a child writes a line in                    *)
  MaxRuns,     (* bound: programs run                                       *)
  MaxDialogs   (* bound: modal dialogs opened                               *)

(* fork: as a child; bkgd: to its end, parsed in the background            *)
(* (opAlwaysBkgd); sync: to its end, parsed at once; info: as a child, for *)
(* a caller that wants the text (repDontShowAsMessage).                    *)
AllModes == {"fork", "bkgd", "sync", "info"}
AllOps == {"Stop", "EarlyStop", "Dialog", "TakeErrorFile", "Unterminated"}

Output == [lines : Seq(Nat), tail : Nat]

ASSUME LinesAssumption == incLines \in Nat \ {0}
ASSUME ModesAssumption == Modes \subseteq AllModes /\ Ops \subseteq AllOps
ASSUME OutputsAssumption == Outputs \subseteq Output
ASSUME RunBounds == /\ OtherChild \in BOOLEAN
                    /\ MaxLines \in Nat /\ MaxPieces \in Nat
                    /\ MaxRuns \in Nat /\ MaxDialogs \in Nat

VARIABLES
  PidChild,        (* 0, the pid of the child, or -1: parse only            *)
  ParsingErrors,   (* the idle loop has taken the run over                  *)
  PendingCleanUp,  (* the end of the run waits for a dialog to close        *)
  StackPath,       (* the directory stack and incCompiler are allocated     *)
  ErrorFile,       (* the name of the output file is held, the file exists  *)
  stopEnabled,     (* the command cmeStopChild is enabled                   *)
  incf,            (* the parser's FILE: "null", "open" or "closed"         *)
  incFinished,     (* the parser gave up                                    *)
  fromPrevRun,     (* pieces of a line kept for the next pass, 0: NULL      *)
  readLines,       (* the offset in the file: whole lines, then             *)
  readPieces,      (*   pieces of the next one                              *)
  shown,           (* the lines in the message window                       *)
  inParse,         (* idle() is between waitpid() and the parser            *)
  child,           (* the child: "none", "running" or "exited"              *)
  output,          (* what the program has written                          *)
  dialog,          (* a modal dialog is open                                *)
  stopped,         (* the user stopped the last run                         *)
  closedTwice,     (* fclose() got a FILE that was closed already           *)
  hung,            (* waitpid() waits for a child that is not the program   *)
  runs,            (* bound: programs run so far                            *)
  dialogs          (* bound: dialogs opened so far                          *)

run == <<PidChild, ParsingErrors, PendingCleanUp, StackPath, ErrorFile, stopEnabled>>
parser == <<incf, incFinished, fromPrevRun, readLines, readPieces>>
faults == <<closedTwice, hung>>
bounds == <<runs, dialogs>>
vars == <<run, parser, shown, inParse, child, output, dialog, stopped, faults, bounds>>

-----------------------------------------------------------------------------
Least(a, b) == IF a <= b THEN a ELSE b

NoOutput == [lines |-> <<>>, tail |-> 0]

(* The lines of a file, the last one even if it is not terminated. *)
LinesOf(o) == IF o.tail = 0 THEN o.lines ELSE Append(o.lines, o.tail)

(* RunExternalProgramRunning() *)
Running == PidChild # 0 \/ ParsingErrors

(* The thread of the editor is in its event loop. *)
InLoop == ~inParse /\ ~hung
UserActs == InLoop /\ ~dialog

-----------------------------------------------------------------------------
(* The program *)

ChildWrites ==
  /\ child = "running"
  /\ Len(output.lines) < MaxLines
  /\ output.tail < MaxPieces
  /\ output' = [output EXCEPT !.tail = @ + 1]
  /\ UNCHANGED <<run, parser, shown, inParse, child, dialog, stopped, faults, bounds>>

ChildEndsLine ==
  /\ child = "running" /\ output.tail > 0
  /\ output' = [lines |-> Append(output.lines, output.tail), tail |-> 0]
  /\ UNCHANGED <<run, parser, shown, inParse, child, dialog, stopped, faults, bounds>>

ChildExits ==
  /\ child = "running"
  /\ output.tail = 0 \/ "Unterminated" \in Ops
  /\ child' = "exited"
  /\ UNCHANGED <<run, parser, shown, inParse, output, dialog, stopped, faults, bounds>>

-----------------------------------------------------------------------------
(* RunExternalProgram() *)

Started == /\ InLoop /\ ~Running
           /\ runs < MaxRuns
           /\ runs' = runs + 1
           /\ stopped' = FALSE
           /\ UNCHANGED <<ParsingErrors, PendingCleanUp, parser, inParse, dialog, faults, dialogs>>

(* The program is forked; the idle loop will take over. *)
RunForked ==
  /\ "fork" \in Modes /\ ~dialog /\ Started
  /\ PidChild' = 1 /\ child' = "running" /\ output' = NoOutput
  /\ StackPath' = TRUE /\ ErrorFile' = TRUE /\ stopEnabled' = TRUE
  /\ shown' = <<>>

(* The program runs to its end, then the idle loop parses its output. *)
RunThenParse(o) ==
  /\ "bkgd" \in Modes /\ ~dialog /\ Started
  /\ PidChild' = -1 /\ output' = o
  /\ StackPath' = TRUE /\ ErrorFile' = TRUE /\ stopEnabled' = TRUE
  /\ shown' = <<>>
  /\ UNCHANGED child

(* The program runs to its end and DumpFileToMessage() shows its output,   *)
(* nothing when the first line is not terminated.                          *)
RunAndDump(o) ==
  /\ "sync" \in Modes /\ ~dialog /\ Started
  /\ output' = o
  /\ shown' = IF o.lines = <<>> THEN <<>> ELSE LinesOf(o)
  /\ ErrorFile' = FALSE /\ StackPath' = FALSE
  /\ UNCHANGED <<PidChild, stopEnabled, child>>

(* GetScrSaverOut(), from a dialog or not: the program is forked, and the  *)
(* file it has hardly begun to write is taken away at once.                *)
RunForInfo ==
  /\ "info" \in Modes /\ Started
  /\ PidChild' = 1 /\ child' = "running" /\ output' = NoOutput
  /\ StackPath' = TRUE /\ ErrorFile' = FALSE /\ stopEnabled' = TRUE
  /\ UNCHANGED shown

(* RunProgramRedir of a macro, or an external screen saver, while a        *)
(* program is running: RunExternalProgram() returns at once, and           *)
(* RunExternalProgramGetFile() or RunExternalProgramKillFile() removes     *)
(* the file of the other program.                                          *)
TakeErrorFile ==
  /\ "TakeErrorFile" \in Ops /\ InLoop
  /\ Running /\ ErrorFile
  /\ ErrorFile' = FALSE
  /\ UNCHANGED <<PidChild, ParsingErrors, PendingCleanUp, StackPath, stopEnabled,
                 parser, shown, inParse, child, output, dialog, stopped, faults, bounds>>
-----------------------------------------------------------------------------
(* IncCleanUp() *)

(* DumpFileToMessageEnd(), when the FILE is f. *)
EndedFile(f) == IF f = "null" THEN "null" ELSE "closed"
EndUnfinished(f) ==
  /\ incf' = EndedFile(f)
  /\ closedTwice' = (closedTwice \/ f = "closed")
  /\ fromPrevRun' = 0 /\ UNCHANGED incFinished

DumpFileToMessageEnd(f) ==
  /\ incf' = EndedFile(f)
  /\ closedTwice' = (closedTwice \/ f = "closed")
  /\ incFinished' = TRUE
  /\ fromPrevRun' = 0

ReleaseAgain(f) ==
  /\ DumpFileToMessageEnd(f)
  /\ stopEnabled' = FALSE /\ ErrorFile' = FALSE /\ StackPath' = FALSE

ReleaseKeepingFile(f) ==
  /\ DumpFileToMessageEnd(f)
  /\ stopEnabled' = FALSE /\ StackPath' = FALSE
  /\ UNCHANGED ErrorFile

(* The part that is done once, even if a dialog keeps the run from ending. *)
Release(f) ==
  IF PendingCleanUp
  THEN /\ incf' = f
       /\ UNCHANGED <<closedTwice, incFinished, fromPrevRun, stopEnabled, ErrorFile, StackPath>>
  ELSE /\ DumpFileToMessageEnd(f)
       /\ stopEnabled' = FALSE /\ ErrorFile' = FALSE /\ StackPath' = FALSE

IncCleanUp(f) ==
  /\ Release(f)
  /\ PendingCleanUp' = dialog
  /\ ParsingErrors' = IF dialog THEN ParsingErrors ELSE FALSE

-----------------------------------------------------------------------------
(* RunExternalProgramIncParse(), called by idle() *)

(* The first call takes the run over; every call asks whether the child    *)
(* still lives.                                                            *)
FirstCall == PidChild # 0 /\ ~ParsingErrors

ReapNever == PidChild' = IF PidChild = -1 THEN 0 ELSE PidChild
Reap == PidChild' = IF PidChild = -1 \/ child = "exited" THEN 0 ELSE PidChild

IncParseWait ==
  /\ InLoop /\ Running
  /\ ParsingErrors' = TRUE
  /\ IF FirstCall
     THEN /\ incf' = "null" /\ incFinished' = FALSE /\ fromPrevRun' = 0
          /\ readLines' = 0 /\ readPieces' = 0
     ELSE UNCHANGED parser
  /\ Reap
  /\ inParse' = TRUE
  /\ UNCHANGED <<PendingCleanUp, StackPath, ErrorFile, stopEnabled, shown, child,
                 output, dialog, stopped, faults, bounds>>

(* DumpFileToMessageParseMore() has a file with something in it.  When the *)
(* file was taken away its name is freed or null; either way stat() fails. *)
Opened == /\ ~incFinished
          /\ incf = "open" \/ (incf = "null" /\ ErrorFile /\ output # NoOutput)

Available == Len(output.lines) - readLines
Taken == Least(incLines, Available)

LineTakenAlone(k) ==
  output.lines[readLines + k] - (IF k = 1 THEN readPieces ELSE 0)
LineTakenMinus(k) ==
  IF k = 1 THEN output.lines[readLines + 1] - readPieces - fromPrevRun
  ELSE output.lines[readLines + k]

(* What fgets() adds to what was kept of the line, for the k-th line taken. *)
LineTaken(k) ==
  IF k = 1 THEN fromPrevRun + output.lines[readLines + 1] - readPieces
  ELSE output.lines[readLines + k]

(* At the end of the file an unfinished line is kept, in the place of what *)
(* was kept of it before; nothing new leaves that alone.                   *)
newPieces == output.tail - (IF Taken = 0 THEN readPieces ELSE 0)

Kept == CASE Taken = incLines -> 0
          [] Taken < incLines /\ newPieces > 0 -> newPieces
          [] OTHER -> IF Taken = 0 THEN fromPrevRun ELSE 0

ReadMore ==
  /\ shown' = shown \o [k \in 1 .. Taken |-> LineTaken(k)]
  /\ readLines' = readLines + Taken
  /\ readPieces' = IF Taken < incLines THEN output.tail ELSE 0

(* What DumpFileToMessageParseMore() returns.                              *)
Finished == ~Opened \/ Available < incLines

IncParseMore ==
  /\ inParse
  /\ IF Opened THEN ReadMore ELSE UNCHANGED <<shown, readLines, readPieces>>
  /\ LET f == IF Opened THEN "open" ELSE incf
     IN  IF Finished /\ PidChild = 0
         THEN IncCleanUp(f)
         ELSE /\ incf' = f
              /\ fromPrevRun' = IF Opened THEN Kept ELSE fromPrevRun
              /\ incFinished' = (incFinished \/ (incf = "null" /\ ~ErrorFile))
              /\ UNCHANGED <<ParsingErrors, PendingCleanUp, closedTwice, stopEnabled,
                             ErrorFile, StackPath>>
  /\ inParse' = FALSE
  /\ UNCHANGED <<PidChild, child, output, dialog, stopped, hung, bounds>>

-----------------------------------------------------------------------------
(* RunExternalProgramStopChild(), from Ctrl+C or from quitting.  The child *)
(* is killed and waited for.  With PidChild -1, waitpid() waits for any    *)
(* child.                                                                  *)
StopChild ==
  /\ "Stop" \in Ops /\ UserActs /\ Running
  /\ "EarlyStop" \in Ops \/ ParsingErrors
  /\ IF PidChild = -1 /\ OtherChild
     THEN /\ hung' = TRUE
          /\ UNCHANGED <<run, parser, child, closedTwice, stopped>>
     ELSE /\ PidChild' = 0
          /\ child' = IF PidChild = 1 THEN "none" ELSE child
          /\ stopped' = TRUE
          /\ IncCleanUp(incf)
          /\ UNCHANGED <<readLines, readPieces, hung>>
  /\ UNCHANGED <<shown, inParse, output, dialog, bounds>>

(* A modal dialog opens and closes. *)
OpenDialog ==
  /\ "Dialog" \in Ops /\ UserActs
  /\ dialogs < MaxDialogs
  /\ dialog' = TRUE /\ dialogs' = dialogs + 1
  /\ UNCHANGED <<run, parser, shown, inParse, child, output, stopped, faults, runs>>

CloseDialog ==
  /\ InLoop /\ dialog
  /\ dialog' = FALSE
  /\ UNCHANGED <<run, parser, shown, inParse, child, output, stopped, faults, bounds>>

-----------------------------------------------------------------------------
Init ==
  /\ PidChild = 0 /\ ParsingErrors = FALSE /\ PendingCleanUp = FALSE
  /\ StackPath = FALSE /\ ErrorFile = FALSE /\ stopEnabled = FALSE
  /\ incf = "null" /\ incFinished = FALSE /\ fromPrevRun = 0
  /\ readLines = 0 /\ readPieces = 0
  /\ shown = <<>> /\ inParse = FALSE
  /\ child = "none" /\ output = NoOutput
  /\ dialog = FALSE /\ stopped = FALSE
  /\ closedTwice = FALSE /\ hung = FALSE
  /\ runs = 0 /\ dialogs = 0

Child == ChildWrites \/ ChildEndsLine \/ ChildExits

RunExternalProgram ==
  \/ RunForked
  \/ \E o \in Outputs : RunThenParse(o)
  \/ \E o \in Outputs : RunAndDump(o)
  \/ RunForInfo

IncParse == IncParseWait \/ IncParseMore

Next == Child \/ RunExternalProgram \/ TakeErrorFile \/ IncParse \/ StopChild
        \/ OpenDialog \/ CloseDialog

Spec == Init /\ [][Next]_vars

(* The event loop calls idle() again and again, in dialogs too, and the    *)
(* user answers a dialog even though idle() runs between two of its keys.  *)
(* Nothing is assumed of the program or of the other commands.             *)
Fairness == WF_vars(IncParse) /\ SF_vars(CloseDialog)
FairSpec == Spec /\ Fairness

-----------------------------------------------------------------------------
(* The types of the variables. *)
TypeOK ==
  /\ PidChild \in {-1, 0, 1} /\ ParsingErrors \in BOOLEAN /\ PendingCleanUp \in BOOLEAN
  /\ StackPath \in BOOLEAN /\ ErrorFile \in BOOLEAN /\ stopEnabled \in BOOLEAN
  /\ incf \in {"null", "open", "closed"} /\ incFinished \in BOOLEAN
  /\ fromPrevRun \in Nat /\ readLines \in Nat /\ readPieces \in Nat
  /\ shown \in Seq(Nat) /\ inParse \in BOOLEAN
  /\ child \in {"none", "running", "exited"} /\ output \in Output
  /\ dialog \in BOOLEAN /\ stopped \in BOOLEAN
  /\ closedTwice \in BOOLEAN /\ hung \in BOOLEAN
  /\ runs \in Nat /\ dialogs \in Nat

(* When no program runs, nothing of the last one is left behind: no output *)
(* file on the disk or open, no directory stack, no command to stop it, no *)
(* clean up pending.  While one runs and has not been cleaned up it can be *)
(* stopped, and the stack its messages are parsed with is there.           *)
NothingLeftBehind ==
  /\ ~Running => ~ErrorFile /\ incf # "open" /\ ~PendingCleanUp
  /\ stopEnabled = (Running /\ ~PendingCleanUp)
  /\ StackPath = stopEnabled

(* The parser reads only from a file that is open: it has given up, or not *)
(* been started, whenever its FILE is closed.                              *)
ReadsOpenFile == inParse => incf # "closed" \/ incFinished

(* DumpFileToMessageEnd() closes the file of its own run, once, even if a  *)
(* dialog makes the idle loop call the clean up again and again.           *)
NeverClosedTwice == ~closedTwice

(* The message window implements a job's output: lines appear in order,    *)
(* each once and whole, and none is missing when the editor is back.       *)
job == IF Running THEN "running" ELSE IF stopped THEN "stopped" ELSE "done"
Job == INSTANCE JobOutput WITH written <- output.lines
JobSpec == Job!Spec

(* Once the program has exited, the run ends: the rest of its messages is  *)
(* collected and the editor says it is back, whatever dialogs were open.   *)
RunsEnd == Running /\ child # "running" ~> ~Running
=============================================================================
