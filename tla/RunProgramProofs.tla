-------------------------- MODULE RunProgramProofs --------------------------
(***************************************************************************)
(* Theorems about RunProgram, for any programs, outputs and disturbances:  *)
(* what a run holds is released once and nothing is left behind.           *)
(***************************************************************************)
EXTENDS RunProgram, TLAPS

USE DEF run, parser, faults, bounds, vars

-----------------------------------------------------------------------------
(* What a run holds, in each of its phases: started (PidChild # 0), taken  *)
(* over by the idle loop (ParsingErrors), and cleaned up but kept open by  *)
(* a dialog (PendingCleanUp).                                              *)
Phases ==
  /\ inParse => ParsingErrors
  /\ PendingCleanUp => ParsingErrors /\ PidChild = 0

Held ==
  /\ PendingCleanUp \/ ~Running => ~ErrorFile /\ incf # "open"
  /\ stopEnabled <=> Running /\ ~PendingCleanUp
  /\ StackPath <=> stopEnabled

(* The FILE of a run that has not been cleaned up is its own.              *)
Parsed ==
  /\ PendingCleanUp => incFinished
  /\ ParsingErrors /\ incf = "closed" => PendingCleanUp

RunInv == Phases /\ Held /\ Parsed

Flags ==
  /\ ParsingErrors \in BOOLEAN /\ PendingCleanUp \in BOOLEAN
  /\ StackPath \in BOOLEAN /\ ErrorFile \in BOOLEAN /\ stopEnabled \in BOOLEAN
  /\ incFinished \in BOOLEAN /\ inParse \in BOOLEAN /\ dialog \in BOOLEAN
  /\ stopped \in BOOLEAN /\ closedTwice \in BOOLEAN /\ hung \in BOOLEAN
  /\ PidChild \in {-1, 0, 1} /\ incf \in {"null", "open", "closed"}
  /\ child \in {"none", "running", "exited"}

LEMMA StartStep ==
  ASSUME Flags, RunInv, RunExternalProgram
  PROVE  Flags' /\ RunInv'
<1> USE DEF Flags, RunInv, Phases, Held, Parsed, Running, InLoop, Started
<1>1. CASE RunForked
  <2>1. Flags'
        BY <1>1 DEF RunForked
  <2>2. Phases'
        BY <1>1 DEF RunForked
  <2>3. Parsed'
        BY <1>1 DEF RunForked
  <2>4. Held'
        BY <1>1 DEF RunForked
  <2> QED BY <2>1, <2>2, <2>3, <2>4
<1>2. CASE \E o \in Outputs : RunThenParse(o)
  <2>1. Flags'
        BY <1>2 DEF RunThenParse
  <2>2. Phases'
        BY <1>2 DEF RunThenParse
  <2>3. Parsed'
        BY <1>2 DEF RunThenParse
  <2>4. Held'
        BY <1>2 DEF RunThenParse
  <2> QED BY <2>1, <2>2, <2>3, <2>4
<1>3. CASE \E o \in Outputs : RunAndDump(o)
  <2>1. Flags'
        BY <1>3 DEF RunAndDump
  <2>2. Phases'
        BY <1>3 DEF RunAndDump
  <2>3. Parsed'
        BY <1>3 DEF RunAndDump
  <2>4. Held'
        BY <1>3 DEF RunAndDump
  <2> QED BY <2>1, <2>2, <2>3, <2>4
<1>4. CASE RunForInfo
  <2>1. Flags'
        BY <1>4 DEF RunForInfo
  <2>2. Phases'
        BY <1>4 DEF RunForInfo
  <2>3. Parsed'
        BY <1>4 DEF RunForInfo
  <2>4. Held'
        BY <1>4 DEF RunForInfo
  <2> QED BY <2>1, <2>2, <2>3, <2>4
<1> QED BY <1>1, <1>2, <1>3, <1>4 DEF RunExternalProgram

(* IncCleanUp() of a run whose child is gone, called with the FILE f. *)
LEMMA CleanUpStep ==
  ASSUME Flags, RunInv, ParsingErrors \/ ~dialog, PidChild' = 0,
         \E f \in {"null", "open", "closed"} :
            /\ IncCleanUp(f)
            /\ PendingCleanUp => f = incf,
         inParse' = FALSE, hung' \in BOOLEAN, stopped' \in BOOLEAN, dialog' = dialog,
         child' \in {"none", "running", "exited"}
  PROVE  Flags' /\ RunInv'
<1> USE DEF Flags, RunInv, Phases, Held, Parsed, Running
<1>1. CASE PendingCleanUp
  <2>1. Flags'
        BY <1>1 DEF IncCleanUp, Release
  <2>2. Phases'
        BY <1>1 DEF IncCleanUp, Release
  <2>3. Parsed'
        BY <1>1 DEF IncCleanUp, Release
  <2>4. Held'
        BY <1>1 DEF IncCleanUp, Release
  <2> QED BY <2>1, <2>2, <2>3, <2>4
<1>2. CASE ~PendingCleanUp
  <2>1. Flags'
        BY <1>2 DEF IncCleanUp, Release, DumpFileToMessageEnd, EndedFile
  <2>2. Phases'
        BY <1>2 DEF IncCleanUp, Release, DumpFileToMessageEnd, EndedFile
  <2>3. Parsed'
        BY <1>2 DEF IncCleanUp, Release, DumpFileToMessageEnd, EndedFile
  <2>4. Held'
        BY <1>2 DEF IncCleanUp, Release, DumpFileToMessageEnd, EndedFile
  <2> QED BY <2>1, <2>2, <2>3, <2>4
<1> QED BY <1>1, <1>2

LEMMA ParseStep ==
  ASSUME Flags, RunInv, IncParseMore
  PROVE  Flags' /\ RunInv'
<1> DEFINE f == IF Opened THEN "open" ELSE incf
<1>1. /\ inParse /\ inParse' = FALSE
      /\ UNCHANGED <<PidChild, child, dialog, stopped, hung>>
      BY DEF IncParseMore
<1>2. /\ f \in {"null", "open", "closed"}
      /\ PendingCleanUp \/ f = "closed" => f = incf
      BY DEF Flags, RunInv, Parsed, Opened
<1>3. CASE Finished /\ PidChild = 0
  <2>1. IncCleanUp(f)
        BY <1>3 DEF IncParseMore
  <2> HIDE DEF f
  <2> QED BY <1>1, <1>2, <1>3, <2>1, CleanUpStep DEF Flags, RunInv, Phases
<1>4. CASE ~(Finished /\ PidChild = 0)
  <2>1. /\ incf' = f
        /\ incFinished' = (incFinished \/ (incf = "null" /\ ~ErrorFile))
        /\ UNCHANGED <<ParsingErrors, PendingCleanUp, closedTwice, stopEnabled,
                       ErrorFile, StackPath>>
        BY <1>4 DEF IncParseMore
  <2> HIDE DEF f
  <2>2. Flags'
    <3>1. incFinished' \in BOOLEAN /\ inParse' \in BOOLEAN
          BY <1>1, <2>1
    <3>2. incf' \in {"null", "open", "closed"}
          BY <1>2, <2>1
    <3>3. /\ ParsingErrors' \in BOOLEAN /\ PendingCleanUp' \in BOOLEAN
          /\ StackPath' \in BOOLEAN /\ ErrorFile' \in BOOLEAN /\ stopEnabled' \in BOOLEAN
          /\ dialog' \in BOOLEAN /\ stopped' \in BOOLEAN /\ closedTwice' \in BOOLEAN
          /\ hung' \in BOOLEAN /\ PidChild' \in {-1, 0, 1}
          /\ child' \in {"none", "running", "exited"}
          BY <1>1, <2>1 DEF Flags
    <3> QED BY <3>1, <3>2, <3>3 DEF Flags
  <2>3. Phases' /\ Parsed'
        BY <1>1, <1>2, <2>1 DEF RunInv, Phases, Parsed
  <2>4. Running' = Running /\ Running
        BY <1>1, <2>1 DEF RunInv, Phases, Running
  <2>5. Held'
        BY <1>1, <1>2, <2>1, <2>4 DEF RunInv, Held
  <2> QED BY <2>2, <2>3, <2>5 DEF RunInv
<1> QED BY <1>3, <1>4

LEMMA StopStep ==
  ASSUME Flags, RunInv, StopChild
  PROVE  Flags' /\ RunInv'
<1>1. /\ ~inParse /\ ~dialog
      /\ UNCHANGED <<inParse, dialog>>
      BY DEF StopChild, UserActs, InLoop
<1>2. CASE PidChild = -1 /\ OtherChild
      BY <1>2 DEF StopChild, Flags, RunInv, Phases, Held, Parsed, Running
<1>3. CASE ~(PidChild = -1 /\ OtherChild)
  <2>1. /\ PidChild' = 0 /\ stopped' = TRUE /\ hung' = hung
        /\ child' = IF PidChild = 1 THEN "none" ELSE child
        /\ IncCleanUp(incf)
        BY <1>3 DEF StopChild
  <2> QED BY <1>1, <2>1, CleanUpStep DEF Flags
<1> QED BY <1>2, <1>3

LEMMA RunInvStep == Flags /\ RunInv /\ [Next]_vars => Flags' /\ RunInv'
<1> SUFFICES ASSUME Flags, RunInv, [Next]_vars PROVE Flags' /\ RunInv'
    OBVIOUS
<1>1. CASE Child
  <2>1. UNCHANGED <<run, parser, inParse, dialog, stopped, faults>>
        /\ child' \in {"running", "exited"}
        BY <1>1 DEF Child, ChildWrites, ChildEndsLine, ChildExits
  <2> QED BY <2>1 DEF Flags, RunInv, Phases, Held, Parsed, Running
<1>2. CASE RunExternalProgram
      BY <1>2, StartStep
<1>3. CASE TakeErrorFile
      BY <1>3 DEF TakeErrorFile, Flags, RunInv, Phases, Held, Parsed, Running
<1>4. CASE OpenDialog \/ CloseDialog
  <2>1. /\ UNCHANGED <<run, parser, inParse, child, stopped, faults>>
        /\ dialog' \in BOOLEAN
        BY <1>4 DEF OpenDialog, CloseDialog
  <2> QED BY <2>1 DEF Flags, RunInv, Phases, Held, Parsed, Running
<1>5. CASE IncParseWait
      BY <1>5 DEF IncParseWait, Reap, FirstCall, Flags, RunInv, Phases, Held, Parsed, Running
<1>6. CASE IncParseMore
      BY <1>6, ParseStep
<1>7. CASE StopChild
      BY <1>7, StopStep
<1>8. CASE UNCHANGED vars
      BY <1>8 DEF Flags, RunInv, Phases, Held, Parsed, Running
<1> QED
    BY <1>1, <1>2, <1>3, <1>4, <1>5, <1>6, <1>7, <1>8 DEF Next, IncParse

LEMMA RunInvariant == Spec => [](Flags /\ RunInv)
<1>1. Init => Flags /\ RunInv
      BY DEF Init, Flags, RunInv, Phases, Held, Parsed, Running
<1> QED BY <1>1, RunInvStep, PTL DEF Spec

(* When no program runs, nothing of the last one is left behind: no file,  *)
(* no directory stack, no command to stop it; while one runs and has not   *)
(* been cleaned up all of them are there.  IncCleanUp() may be called any  *)
(* number of times, and macros may take the file away at any time.         *)
THEOREM RunCleanedUp == Spec => []NothingLeftBehind
<1>1. Flags /\ RunInv => NothingLeftBehind
  <2> SUFFICES ASSUME Flags, Phases, Held PROVE NothingLeftBehind
      BY DEF RunInv
  <2>1. /\ stopEnabled = (Running /\ ~PendingCleanUp)
        /\ StackPath = stopEnabled
        BY DEF Flags, Held
  <2>2. ~Running => ~ErrorFile /\ incf # "open" /\ ~PendingCleanUp
        BY DEF Phases, Held, Running
  <2> QED BY <2>1, <2>2 DEF NothingLeftBehind
<1> QED BY <1>1, RunInvariant, PTL

(* The incremental parser never reads from a FILE that is closed: if the   *)
(* run it works for has been cleaned up, incFinished stops it.             *)
THEOREM ParserReadsOpen == Spec => []ReadsOpenFile
<1>1. RunInv => ReadsOpenFile
      BY DEF RunInv, Phases, Parsed, ReadsOpenFile
<1> QED BY <1>1, RunInvariant, PTL

(* No FILE is closed twice, if a run is only stopped once the idle loop    *)
(* has taken it over: the FILE is then the one of this run, or null.       *)
THEOREM ClosedOnce == "EarlyStop" \notin Ops => (Spec => []NeverClosedTwice)
<1> SUFFICES ASSUME "EarlyStop" \notin Ops PROVE Spec => []NeverClosedTwice
    OBVIOUS
<1>1. Init => NeverClosedTwice
      BY DEF Init, NeverClosedTwice
<1>2. Flags /\ RunInv /\ NeverClosedTwice /\ [Next]_vars => NeverClosedTwice'
  <2> SUFFICES ASSUME Flags, RunInv, NeverClosedTwice, [Next]_vars PROVE NeverClosedTwice'
      OBVIOUS
  <2> USE DEF Flags, RunInv, Phases, Parsed, NeverClosedTwice
  <2>1. CASE IncParseMore
        BY <2>1 DEF IncParseMore, IncCleanUp, Release, DumpFileToMessageEnd
  <2>2. CASE StopChild
        BY <2>2 DEF StopChild, IncCleanUp, Release, DumpFileToMessageEnd
  <2>3. CASE Child \/ TakeErrorFile \/ IncParseWait \/ OpenDialog \/ CloseDialog
        BY <2>3 DEF Child, ChildWrites, ChildEndsLine, ChildExits, TakeErrorFile,
                    IncParseWait, OpenDialog, CloseDialog
  <2>4. CASE RunExternalProgram
        BY <2>4 DEF RunExternalProgram, RunForked, RunThenParse, RunAndDump, RunForInfo, Started
  <2> QED
      BY <2>1, <2>2, <2>3, <2>4 DEF Next, IncParse
<1> QED BY <1>1, <1>2, RunInvariant, PTL DEF Spec

-----------------------------------------------------------------------------
(* Type correctness *)

(* TypeOK says that a line taken, and what is kept of a line, are not      *)
(* negative, which needs the offset of the parser to be in the file.       *)
Data ==
  /\ fromPrevRun \in Nat /\ readLines \in Nat /\ readPieces \in Nat
  /\ shown \in Seq(Nat) /\ output \in Output
  /\ runs \in Nat /\ dialogs \in Nat

NextLine(o, n) == IF n < Len(o.lines) THEN o.lines[n + 1] ELSE o.tail

InFile ==
  ParsingErrors => readLines <= Len(output.lines) /\ readPieces <= NextLine(output, readLines)

LEMMA TypeParts == TypeOK <=> Flags /\ Data
BY DEF TypeOK, Flags, Data

LEMMA OutputTypes ==
  ASSUME NEW o \in Output
  PROVE  /\ o.lines \in Seq(Nat) /\ o.tail \in Nat /\ Len(o.lines) \in Nat
         /\ \A k \in 1 .. Len(o.lines) : o.lines[k] \in Nat
         /\ LinesOf(o) \in Seq(Nat)
BY DEF Output, LinesOf

LEMMA ReadTypes ==
  ASSUME Data, InFile, ParsingErrors, ReadMore, incf' \in {"null", "open", "closed"},
         output' = output, ParsingErrors' \in BOOLEAN
  PROVE  /\ shown' \in Seq(Nat) /\ readLines' \in Nat /\ readPieces' \in Nat
         /\ Kept \in Nat
         /\ InFile'
<1>1. /\ output.lines \in Seq(Nat) /\ output.tail \in Nat /\ Len(output.lines) \in Nat
      /\ \A k \in 1 .. Len(output.lines) : output.lines[k] \in Nat
      BY OutputTypes DEF Data
<1>2. /\ Available \in Nat /\ Taken \in Nat /\ Taken <= Available
      /\ Taken < incLines => Taken = Available
      /\ Taken <= incLines
      BY <1>1, LinesAssumption DEF Available, Taken, Least, Data, InFile
<1>3. readLines + Taken <= Len(output.lines)
      BY <1>1, <1>2 DEF Available, Data
<1>4. \A k \in 1 .. Taken : LineTaken(k) \in Nat
  <2> SUFFICES ASSUME NEW k \in 1 .. Taken PROVE LineTaken(k) \in Nat
      OBVIOUS
  <2>1. readLines + k \in 1 .. Len(output.lines)
        BY <1>1, <1>2, <1>3 DEF Data
  <2>2. CASE k = 1
    <3>1. readPieces <= output.lines[readLines + 1] /\ output.lines[readLines + 1] \in Nat
          BY <1>1, <2>1, <2>2 DEF InFile, NextLine, Data
    <3> QED BY <2>2, <3>1 DEF LineTaken, Data
  <2>3. CASE k # 1
        BY <1>1, <2>1, <2>3 DEF LineTaken
  <2> QED BY <2>2, <2>3
<1>5. shown' \in Seq(Nat)
  <2> DEFINE new == [k \in 1 .. Taken |-> LineTaken(k)]
  <2>1. new \in Seq(Nat)
        BY <1>2, <1>4
  <2>2. shown' = shown \o new
        BY DEF ReadMore
  <2> HIDE DEF new
  <2> QED BY <2>1, <2>2 DEF Data
<1>6. readLines' \in Nat /\ readPieces' \in Nat /\ readLines' = readLines + Taken
      BY <1>1, <1>2 DEF ReadMore, Data
<1>7. Kept \in Nat
      BY <1>1, <1>2 DEF Kept, newPieces, Data
<1>8. readPieces' <= NextLine(output, readLines')
  <2>1. CASE Taken < incLines
    <3>1. readLines' = Len(output.lines) /\ readPieces' = output.tail
          BY <1>1, <1>2, <1>6, <2>1 DEF ReadMore, Available, Data
    <3> QED BY <1>1, <3>1 DEF NextLine
  <2>2. CASE ~(Taken < incLines)
    <3>1. readPieces' = 0
          BY <2>2 DEF ReadMore
    <3>2. NextLine(output, readLines') \in Nat
          BY <1>1, <1>3, <1>6 DEF NextLine
    <3> QED BY <3>1, <3>2
  <2> QED BY <2>1, <2>2
<1> QED BY <1>3, <1>5, <1>6, <1>7, <1>8 DEF InFile

LEMMA CleanUpKept ==
  ASSUME Data, \E f \in {"null", "open", "closed"} : IncCleanUp(f)
  PROVE  fromPrevRun' \in Nat
<1>1. CASE PendingCleanUp
      BY <1>1 DEF IncCleanUp, Release, Data
<1>2. CASE ~PendingCleanUp
      BY <1>2 DEF IncCleanUp, Release, DumpFileToMessageEnd
<1> QED BY <1>1, <1>2

LEMMA DataStep ==
  Flags /\ RunInv /\ Data /\ InFile /\ [Next]_vars => Data' /\ InFile'
<1> SUFFICES ASSUME Flags, RunInv, Data, InFile, [Next]_vars PROVE Data' /\ InFile'
    OBVIOUS
<1> DEFINE lines == output.lines
<1>0. /\ lines \in Seq(Nat) /\ output.tail \in Nat /\ Len(lines) \in Nat
      /\ \A k \in 1 .. Len(lines) : lines[k] \in Nat
      BY OutputTypes DEF Data
<1>1. CASE ChildWrites
  <2>1. output' \in Output /\ output'.lines = lines /\ output'.tail = output.tail + 1
        BY <1>0, <1>1 DEF ChildWrites, Output, Data
  <2> QED BY <1>0, <1>1, <2>1 DEF ChildWrites, Data, InFile, NextLine
<1>2. CASE ChildEndsLine
  <2>1. /\ output' \in Output /\ output'.tail = 0
        /\ output'.lines = Append(lines, output.tail)
        BY <1>0, <1>2 DEF ChildEndsLine, Output
  <2>2. Data'
        BY <1>2, <2>1 DEF ChildEndsLine, Data
  <2>3. /\ Len(output'.lines) = Len(lines) + 1
        /\ \A k \in 1 .. Len(lines) : output'.lines[k] = lines[k]
        /\ output'.lines[Len(lines) + 1] = output.tail
        BY <1>0, <2>1
  <2>4. \A n \in Nat : n <= Len(lines) => NextLine(output', n) = NextLine(output, n)
        BY <1>0, <2>3 DEF NextLine
  <2>5. UNCHANGED <<ParsingErrors, readLines, readPieces>>
        BY <1>2 DEF ChildEndsLine
  <2> QED BY <1>0, <2>2, <2>3, <2>4, <2>5 DEF InFile, Data
<1>3. CASE ChildExits \/ TakeErrorFile \/ OpenDialog \/ CloseDialog \/ UNCHANGED vars
      BY <1>3 DEF ChildExits, TakeErrorFile, OpenDialog, CloseDialog, Data, InFile
<1>4. CASE RunExternalProgram
  <2>1. /\ ParsingErrors' = ParsingErrors /\ ParsingErrors = FALSE /\ runs' = runs + 1
        /\ UNCHANGED <<fromPrevRun, readLines, readPieces, dialogs>>
        BY <1>4 DEF RunExternalProgram, RunForked, RunThenParse, RunAndDump, RunForInfo,
                    Started, Running, Flags
  <2>2. NoOutput \in Output
        BY DEF NoOutput, Output
  <2>3. \A o \in Outputs : o \in Output /\ LinesOf(o) \in Seq(Nat)
        BY OutputsAssumption, OutputTypes
  <2>4. output' \in Output /\ shown' \in Seq(Nat)
    <3>1. CASE RunForked
          BY <3>1, <2>2 DEF RunForked
    <3>4. CASE RunForInfo
      <4>1. output' = NoOutput /\ shown' = shown
            BY <3>4 DEF RunForInfo
      <4> QED BY <2>2, <4>1 DEF Data
    <3>2. CASE \E o \in Outputs : RunThenParse(o)
          BY <3>2, <2>3 DEF RunThenParse
    <3>3. CASE \E o \in Outputs : RunAndDump(o)
          BY <3>3, <2>3 DEF RunAndDump
    <3> QED BY <1>4, <3>1, <3>2, <3>3, <3>4 DEF RunExternalProgram
  <2> QED BY <2>1, <2>4 DEF Data, InFile
<1>5. CASE IncParseWait
  <2>1. UNCHANGED <<shown, output, runs, dialogs>>
        BY <1>5 DEF IncParseWait
  <2>2. CASE FirstCall
    <3>1. fromPrevRun' = 0 /\ readLines' = 0 /\ readPieces' = 0
          BY <1>5, <2>2 DEF IncParseWait
    <3>2. NextLine(output, 0) \in Nat
          BY <1>0 DEF NextLine
    <3> QED BY <1>0, <2>1, <3>1, <3>2 DEF Data, InFile
  <2>3. CASE ~FirstCall
    <3>1. UNCHANGED <<fromPrevRun, readLines, readPieces>> /\ ParsingErrors
          BY <1>5, <2>3 DEF IncParseWait, FirstCall, Running, Flags
    <3> QED BY <2>1, <3>1 DEF Data, InFile
  <2> QED BY <2>2, <2>3
<1>6. CASE IncParseMore
  <2>1. /\ ParsingErrors /\ UNCHANGED <<output, runs, dialogs>>
        /\ IF Opened THEN ReadMore ELSE UNCHANGED <<shown, readLines, readPieces>>
        BY <1>6 DEF IncParseMore, RunInv, Phases
  <2>2. Flags'
        BY <1>6, ParseStep
  <2>3. CASE Opened
    <3>1. /\ shown' \in Seq(Nat) /\ readLines' \in Nat /\ readPieces' \in Nat
          /\ Kept \in Nat /\ InFile'
          BY <2>1, <2>2, <2>3, ReadTypes DEF Flags
    <3>2. fromPrevRun' \in Nat
      <4>1. CASE IncCleanUp("open")
            BY <4>1, CleanUpKept
      <4>2. CASE fromPrevRun' = Kept
            BY <3>1, <4>2
      <4> QED BY <1>6, <2>3, <4>1, <4>2 DEF IncParseMore
    <3> QED BY <2>1, <3>1, <3>2 DEF Data
  <2>4. CASE ~Opened
    <3>1. fromPrevRun' \in Nat
      <4>1. CASE IncCleanUp(incf)
            BY <4>1, CleanUpKept DEF Flags
      <4>2. CASE fromPrevRun' = fromPrevRun
            BY <4>2 DEF Data
      <4> QED BY <1>6, <2>4, <4>1, <4>2 DEF IncParseMore
    <3> QED BY <2>1, <2>4, <3>1 DEF Data, InFile
  <2> QED BY <2>3, <2>4
<1>7. CASE StopChild
  <2>1. UNCHANGED <<shown, output, runs, dialogs, readLines, readPieces>>
        BY <1>7 DEF StopChild
  <2>2. fromPrevRun' \in Nat
    <3>1. CASE IncCleanUp(incf)
          BY <3>1, CleanUpKept DEF Flags
    <3>2. CASE UNCHANGED parser
          BY <3>2 DEF Data
    <3> QED BY <1>7, <3>1, <3>2 DEF StopChild
  <2>3. ParsingErrors' => ParsingErrors
        BY <1>7 DEF StopChild, IncCleanUp
  <2> QED BY <2>1, <2>2, <2>3 DEF Data, InFile
<1> QED
    BY <1>1, <1>2, <1>3, <1>4, <1>5, <1>6, <1>7 DEF Next, Child, IncParse

(* Every reachable state has the types of TypeOK: in particular no line    *)
(* is taken from beyond what the program wrote, nor twice.                 *)
THEOREM RunTypeCorrect == Spec => []TypeOK
<1>1. Init => Data /\ InFile
      BY DEF Init, Data, InFile, NoOutput, Output
<1>2. Flags /\ Data => TypeOK
      BY TypeParts
<1> QED BY <1>1, <1>2, DataStep, RunInvariant, PTL DEF Spec

-----------------------------------------------------------------------------
(* RunProgram implements JobOutput, for any number of lines, runs and      *)
(* dialogs and any pace of the program, when the lines are written whole,  *)
(* all of them terminated, and nobody takes the output file away.          *)

Undisturbed ==
  /\ MaxPieces <= 1 /\ "Unterminated" \notin Ops
  /\ "TakeErrorFile" \notin Ops /\ "info" \notin Modes
  /\ \A o \in Outputs : o.tail = 0

-----------------------------------------------------------------------------
(* Lines of a sequence. *)

LEMMA WholePart ==
  ASSUME NEW s \in Seq(Nat)
  PROVE  SubSeq(s, 1, Len(s)) = s /\ SubSeq(s, 1, 0) = << >>
OBVIOUS

LEMMA PartOfLonger ==
  ASSUME NEW s \in Seq(Nat), NEW x \in Nat, NEW n \in 0 .. Len(s)
  PROVE  SubSeq(Append(s, x), 1, n) = SubSeq(s, 1, n)
OBVIOUS

LEMMA PartAndNext ==
  ASSUME NEW s \in Seq(Nat), NEW n \in Nat, NEW m \in Nat, n + m <= Len(s)
  PROVE  SubSeq(s, 1, n) \o [k \in 1 .. m |-> s[n + k]] = SubSeq(s, 1, n + m)
OBVIOUS

LEMMA PrefixOfPart ==
  ASSUME NEW s \in Seq(Nat), NEW n \in Nat, NEW m \in Nat, n <= m, m <= Len(s)
  PROVE  /\ Job!IsPrefixOf(SubSeq(s, 1, n), SubSeq(s, 1, m))
         /\ Job!IsPrefixOf(SubSeq(s, 1, m), s)
BY DEF Job!IsPrefixOf

-----------------------------------------------------------------------------
(* What the run in progress has to do with its output: the lines shown are *)
(* the first ones of the file, up to the offset of the parser, which has   *)
(* kept what it read of the next; a run that waits for a dialog to close   *)
(* has shown them all.  Nothing is left to be written when there is no     *)
(* child.                                                                  *)
Parsing == ParsingErrors /\ ~PendingCleanUp

Read == IF ParsingErrors THEN readLines ELSE 0

LinesShown ==
  /\ Running /\ ~PendingCleanUp => ErrorFile /\ shown = SubSeq(output.lines, 1, Read)
  /\ PendingCleanUp => shown = output.lines

LineKept == Parsing => fromPrevRun = readPieces /\ ~incFinished

Written ==
  /\ output.tail \in {0, 1}
  /\ child = "running" => PidChild = 1
  /\ Running /\ child # "running" => output.tail = 0

JobInv == LinesShown /\ LineKept /\ Written /\ (Running => ~stopped)

Inv == Flags /\ RunInv /\ Data /\ InFile /\ JobInv

(* A step of RunProgram is one of JobOutput or leaves the job as it is. *)
JobStep == [Job!Next]_(Job!vars)

LEMMA OutputLines ==
  ASSUME Data
  PROVE  /\ output.lines \in Seq(Nat) /\ output.tail \in Nat /\ Len(output.lines) \in Nat
         /\ \A k \in 1 .. Len(output.lines) : output.lines[k] \in Nat
BY OutputTypes DEF Data

(* The program. *)
LEMMA ChildJob ==
  ASSUME Undisturbed, RunBounds, Inv, Child
  PROVE  JobInv' /\ JobStep
<1> USE DEF Inv
<1>1. UNCHANGED <<run, parser, shown, inParse, dialog, stopped, faults, bounds>>
      /\ child = "running" /\ child' \in {"running", "exited"}
      BY DEF Child, ChildWrites, ChildEndsLine, ChildExits
<1>2. /\ Running /\ Running' /\ ~PendingCleanUp /\ PidChild = 1
      /\ job' = job /\ job = "running" /\ ~stopped'
      BY <1>1 DEF JobInv, Written, RunInv, Phases, Running, job
<1>3. Read' = Read /\ Read \in 0 .. Len(output.lines)
      BY <1>1, OutputLines DEF Read, InFile, Data
<1>4. CASE ChildWrites \/ ChildExits
  <2>1. output'.lines = output.lines
        BY <1>4, OutputLines DEF ChildWrites, ChildExits, Data, Output
  <2>2. output'.tail \in {0, 1} /\ (child' # "running" => output'.tail = 0)
    <3>1. CASE ChildWrites
      <4>1. output'.tail = output.tail + 1 /\ output.tail < MaxPieces /\ child' = "running"
            BY <1>1, <3>1 DEF ChildWrites, Data, Output
      <4> QED BY <4>1, RunBounds DEF Undisturbed, JobInv, Written
    <3>2. CASE ChildExits
          BY <3>2 DEF ChildExits, Undisturbed, JobInv, Written
    <3> QED BY <1>4, <3>1, <3>2
  <2>3. Written'
        BY <1>1, <1>2, <2>2 DEF Written
  <2>4. LinesShown' /\ LineKept'
        BY <1>1, <1>2, <1>3, <2>1 DEF JobInv, LinesShown, LineKept, Parsing
  <2>5. UNCHANGED Job!vars
        BY <1>1, <1>2, <2>1 DEF Job!vars
  <2> QED BY <1>2, <2>3, <2>4, <2>5 DEF JobInv, JobStep
<1>5. CASE ChildEndsLine
  <2>1. output'.lines = Append(output.lines, output.tail) /\ output'.tail = 0
        BY <1>5 DEF ChildEndsLine
  <2>2. SubSeq(output'.lines, 1, Read) = SubSeq(output.lines, 1, Read)
        BY <1>3, <2>1, OutputLines, PartOfLonger
  <2>3. LinesShown' /\ LineKept'
        BY <1>1, <1>2, <1>3, <2>2 DEF JobInv, LinesShown, LineKept, Parsing
  <2>4. Written'
        BY <1>1, <1>2, <2>1 DEF Written
  <2>5. Job!Write
    <3>1. Job!IsPrefixOf(output.lines, output'.lines)
          BY <2>1, OutputLines, PartOfLonger, WholePart DEF Job!IsPrefixOf
    <3> QED BY <1>1, <1>2, <3>1 DEF Job!Write
  <2> QED BY <1>2, <2>3, <2>4, <2>5 DEF JobInv, JobStep, Job!Next
<1> QED BY <1>4, <1>5 DEF Child

(* A program is started. *)
LEMMA StartJob ==
  ASSUME Undisturbed, Inv, RunExternalProgram
  PROVE  JobInv' /\ JobStep
<1> USE DEF Inv
<1>1. /\ PidChild = 0 /\ ~ParsingErrors /\ ~PendingCleanUp /\ child # "running"
      /\ job # "running" /\ stopped' = FALSE
      /\ UNCHANGED <<ParsingErrors, PendingCleanUp, parser>>
  <2>1. Started
        BY DEF RunExternalProgram, RunForked, RunThenParse, RunAndDump, RunForInfo
  <2> QED BY <2>1 DEF Started, Running, job, JobInv, Written, RunInv, Phases
<1>2. CASE RunForked
  <2>1. /\ PidChild' = 1 /\ child' = "running" /\ output' = NoOutput
        /\ ErrorFile' = TRUE /\ shown' = <<>>
        BY <1>2 DEF RunForked
  <2>2. JobInv'
        BY <1>1, <2>1 DEF JobInv, LinesShown, LineKept, Written, Parsing, Read, Running, NoOutput
  <2>3. Job!Start
        BY <1>1, <2>1 DEF Job!Start, job, Running
  <2> QED BY <2>2, <2>3 DEF JobStep, Job!Next
<1>3. CASE \E o \in Outputs : RunThenParse(o)
  <2>1. PICK o \in Outputs : RunThenParse(o)
        BY <1>3
  <2>2. /\ PidChild' = -1 /\ child' = child /\ output' = o
        /\ ErrorFile' = TRUE /\ shown' = <<>>
        BY <2>1 DEF RunThenParse
  <2>3. o.lines \in Seq(Nat) /\ o.tail = 0
        BY OutputsAssumption, OutputTypes DEF Undisturbed
  <2>4. SubSeq(o.lines, 1, 0) = << >>
        BY <2>3, WholePart
  <2>5. JobInv'
        BY <1>1, <2>2, <2>3, <2>4
        DEF JobInv, LinesShown, LineKept, Written, Parsing, Read, Running
  <2>6. Job!Start
        BY <1>1, <2>2 DEF Job!Start, job, Running
  <2> QED BY <2>5, <2>6 DEF JobStep, Job!Next
<1>4. CASE \E o \in Outputs : RunAndDump(o)
  <2>1. PICK o \in Outputs : RunAndDump(o)
        BY <1>4
  <2>2. /\ output' = o /\ UNCHANGED <<PidChild, child>>
        /\ shown' = IF o.lines = <<>> THEN <<>> ELSE LinesOf(o)
        BY <2>1 DEF RunAndDump
  <2>3. o.tail = 0
        BY DEF Undisturbed
  <2>4. shown' = output'.lines
        BY <2>2, <2>3 DEF LinesOf
  <2>5. JobInv'
        BY <1>1, <2>2, <2>3 DEF JobInv, LinesShown, LineKept, Written, Parsing, Running
  <2>6. Job!RunAtOnce
        BY <1>1, <2>2, <2>4 DEF Job!RunAtOnce, job, Running
  <2> QED BY <2>5, <2>6 DEF JobStep, Job!Next
<1>5. ~RunForInfo
      BY DEF Undisturbed, RunForInfo
<1> QED BY <1>2, <1>3, <1>4, <1>5 DEF RunExternalProgram

(* The idle loop asks for the child. *)
LEMMA WaitJob ==
  ASSUME Inv, IncParseWait
  PROVE  JobInv' /\ JobStep
<1> USE DEF Inv
<1>1. /\ Running /\ ParsingErrors' = TRUE /\ Running'
      /\ UNCHANGED <<PendingCleanUp, ErrorFile, shown, child, output, stopped>>
      BY DEF IncParseWait, Running
<1>2. /\ child = "running" => PidChild' = 1
      /\ UNCHANGED Job!vars
      BY <1>1 DEF IncParseWait, Reap, JobInv, Written, Job!vars, job
<1>3. Read' = Read /\ LineKept'
  <2>1. CASE FirstCall
        BY <1>1, <2>1 DEF IncParseWait, FirstCall, Read, LineKept, Parsing
  <2>2. CASE ~FirstCall
    <3>1. ParsingErrors /\ UNCHANGED parser
          BY <2>2 DEF IncParseWait, FirstCall, Running
    <3> QED BY <1>1, <3>1 DEF Read, JobInv, LineKept, Parsing
  <2> QED BY <2>1, <2>2
<1>4. LinesShown' /\ Written'
      BY <1>1, <1>2, <1>3 DEF JobInv, LinesShown, Written
<1> QED BY <1>1, <1>2, <1>3, <1>4 DEF JobInv, JobStep

(* What the parser takes are the next lines of the file; what it keeps is  *)
(* what it read of the line behind them.                                   *)
LEMMA TakesNext ==
  ASSUME Inv, Parsing, Running, Opened, ReadMore, incf' \in {"null", "open", "closed"},
         output' = output, ParsingErrors' \in BOOLEAN
  PROVE  /\ readLines' \in readLines .. Len(output.lines)
         /\ shown' = SubSeq(output.lines, 1, readLines')
         /\ Available < incLines => readLines' = Len(output.lines)
         /\ Kept = readPieces'
<1> USE DEF Inv
<1> DEFINE s == output.lines
<1>1. /\ s \in Seq(Nat) /\ Len(s) \in Nat /\ output.tail \in {0, 1}
      /\ \A k \in 1 .. Len(s) : s[k] \in Nat
      /\ readLines \in 0 .. Len(s) /\ fromPrevRun = readPieces /\ readPieces \in Nat
      /\ shown = SubSeq(s, 1, readLines)
      BY OutputLines DEF Parsing, JobInv, LinesShown, LineKept, Written, Read, InFile, Data
<1>2. /\ Available = Len(s) - readLines /\ Taken \in 0 .. Available
      /\ Taken <= incLines /\ (Taken < incLines => Taken = Available)
      /\ Available < incLines => Taken = Available
      BY <1>1, LinesAssumption DEF Available, Taken, Least
<1>3. \A k \in 1 .. Taken : LineTaken(k) = s[readLines + k]
      BY <1>1, <1>2 DEF LineTaken
<1>4. readLines' = readLines + Taken
      BY DEF ReadMore
<1>5. shown' = SubSeq(s, 1, readLines')
  <2>1. [k \in 1 .. Taken |-> LineTaken(k)] = [k \in 1 .. Taken |-> s[readLines + k]]
        BY <1>3
  <2>2. shown' = SubSeq(s, 1, readLines) \o [k \in 1 .. Taken |-> s[readLines + k]]
        BY <1>1, <2>1 DEF ReadMore
  <2> HIDE DEF s
  <2> QED BY <1>1, <1>2, <1>4, <2>2, PartAndNext
<1>6. Kept = readPieces'
  <2>1. readPieces' = IF Taken < incLines THEN output.tail ELSE 0
        BY DEF ReadMore
  <2>2. CASE Taken < incLines /\ Taken = 0
    <3>1. readPieces <= output.tail
          BY <1>1, <1>2, <2>2 DEF InFile, NextLine, Parsing
    <3> QED BY <1>1, <1>2, <2>1, <2>2, <3>1, LinesAssumption DEF Kept, newPieces
  <2>3. CASE Taken < incLines /\ Taken # 0
        BY <1>1, <1>2, <2>1, <2>3, LinesAssumption DEF Kept, newPieces
  <2>4. CASE ~(Taken < incLines)
        BY <1>2, <2>1, <2>4, LinesAssumption DEF Kept
  <2> QED BY <2>2, <2>3, <2>4
<1> QED BY <1>1, <1>2, <1>4, <1>5, <1>6

(* A file that cannot be opened is one nothing was written to.             *)
LEMMA NothingToOpen ==
  ASSUME Inv, Parsing, Running, ~Opened
  PROVE  output.lines = << >> /\ shown = << >> /\ readLines = 0
<1> USE DEF Inv
<1>1. ErrorFile /\ ~incFinished /\ incf # "closed" /\ incf # "open"
      BY DEF Opened, Parsing, JobInv, LinesShown, LineKept, RunInv, Parsed
<1>2. output = NoOutput
      BY <1>1 DEF Opened, Flags
<1>3. output.lines = << >> /\ readLines = 0
      BY <1>2 DEF NoOutput, InFile, Parsing, Data
<1> QED BY <1>3 DEF Parsing, JobInv, LinesShown, Read

(* The parser has the next lines shown, and the run may end. *)
LEMMA MoreJob ==
  ASSUME Inv, IncParseMore
  PROVE  JobInv' /\ JobStep
<1> USE DEF Inv
<1> DEFINE s == output.lines
<1>1. /\ ParsingErrors /\ Running /\ ~stopped /\ job = "running"
      /\ UNCHANGED <<PidChild, child, output, dialog, stopped>>
      BY DEF IncParseMore, RunInv, Phases, Running, JobInv, job
<1>2. /\ s \in Seq(Nat) /\ Len(s) \in Nat
      /\ incf' \in {"null", "open", "closed"} /\ ParsingErrors' \in BOOLEAN
      BY OutputLines, ParseStep DEF Flags
<1>3. Written' /\ (Running' => ~stopped')
  <2>1. PidChild' = PidChild /\ child' = child /\ output' = output /\ stopped' = stopped
        BY <1>1
  <2> QED BY <1>1, <2>1 DEF JobInv, Written
<1>4. /\ Job!IsPrefixOf(shown, shown') /\ Job!IsPrefixOf(shown', s)
      /\ Finished => shown' = s
      /\ ~PendingCleanUp => shown' = SubSeq(s, 1, readLines')
  <2>1. CASE PendingCleanUp
    <3>1. shown = s /\ shown' = shown
          BY <2>1 DEF JobInv, LinesShown, RunInv, Parsed, IncParseMore, Opened
    <3> HIDE DEF s
    <3> QED BY <1>2, <2>1, <3>1, WholePart DEF Job!IsPrefixOf
  <2>2. CASE ~PendingCleanUp /\ Opened
    <3>1. Parsing /\ ReadMore
          BY <1>1, <2>2 DEF Parsing, IncParseMore
    <3>2. /\ readLines' \in readLines .. Len(s)
          /\ shown' = SubSeq(s, 1, readLines')
          /\ Available < incLines => readLines' = Len(s)
          BY <1>1, <1>2, <2>2, <3>1, TakesNext
    <3>3. shown = SubSeq(s, 1, readLines) /\ readLines \in Nat
          BY <1>1, <2>2 DEF JobInv, LinesShown, Read, Data
    <3>4. Finished => shown' = s
          BY <1>2, <2>2, <3>2, WholePart DEF Finished
    <3> HIDE DEF s
    <3>5. readLines' \in Nat /\ readLines <= readLines' /\ readLines' <= Len(s)
          BY <1>2, <3>2, <3>3
    <3>6. Job!IsPrefixOf(shown, shown')
          BY <1>2, <3>2, <3>3, <3>5, PrefixOfPart
    <3>7. Job!IsPrefixOf(shown', s)
          BY <1>2, <3>2, <3>3, <3>5, PrefixOfPart
    <3> QED BY <2>2, <3>2, <3>4, <3>6, <3>7
  <2>3. CASE ~PendingCleanUp /\ ~Opened
    <3>1. s = << >> /\ shown = << >> /\ shown' = << >> /\ readLines' = 0
          BY <1>1, <2>3, NothingToOpen DEF Parsing, IncParseMore
    <3> QED BY <3>1 DEF Job!IsPrefixOf
  <2> QED BY <2>1, <2>2, <2>3
<1>5. CASE Finished /\ PidChild = 0
  <2>1. IncCleanUp(IF Opened THEN "open" ELSE incf)
        BY <1>5 DEF IncParseMore
  <2>2. PendingCleanUp' = dialog /\ ParsingErrors' = IF dialog THEN ParsingErrors ELSE FALSE
        BY <2>1 DEF IncCleanUp
  <2>3. LinesShown' /\ LineKept'
        BY <1>1, <1>4, <1>5, <2>2 DEF LinesShown, LineKept, Parsing, Running, Flags
  <2>4. Job!Show \/ Job!Finish
    <3>1. CASE dialog
      <4>1. job' = job
            BY <1>1, <2>2, <3>1 DEF job, Running
      <4> QED BY <1>1, <1>4, <4>1 DEF Job!Show
    <3>2. CASE ~dialog
      <4>1. job' = "done"
            BY <1>1, <1>5, <2>2, <3>2 DEF job, Running
      <4> QED BY <1>1, <1>4, <1>5, <4>1 DEF Job!Finish
    <3> QED BY <3>1, <3>2 DEF Flags
  <2> QED BY <1>3, <2>3, <2>4 DEF JobInv, JobStep, Job!Next
<1>6. CASE ~(Finished /\ PidChild = 0)
  <2>1. /\ UNCHANGED <<ParsingErrors, PendingCleanUp, ErrorFile>>
        /\ fromPrevRun' = IF Opened THEN Kept ELSE fromPrevRun
        /\ incFinished' = (incFinished \/ (incf = "null" /\ ~ErrorFile))
        BY <1>6 DEF IncParseMore
  <2>2. ~PendingCleanUp
        BY <1>6 DEF RunInv, Phases, Parsed, Finished, Opened
  <2>3. LineKept'
    <3>1. ErrorFile /\ ~incFinished /\ fromPrevRun = readPieces
          BY <1>1, <2>2 DEF JobInv, LinesShown, LineKept, Parsing
    <3>2. fromPrevRun' = readPieces'
      <4>1. CASE Opened
            BY <1>1, <1>2, <2>1, <2>2, <4>1, TakesNext DEF IncParseMore, Parsing
      <4>2. CASE ~Opened
            BY <2>1, <3>1, <4>2 DEF IncParseMore
      <4> QED BY <4>1, <4>2
    <3> QED BY <2>1, <3>1, <3>2 DEF LineKept
  <2>4. LinesShown'
        BY <1>1, <1>4, <2>1, <2>2 DEF JobInv, LinesShown, Read, Running
  <2>5. Job!Show
    <3>1. job' = job
          BY <1>1, <2>1 DEF job, Running
    <3> QED BY <1>1, <1>4, <3>1 DEF Job!Show
  <2> QED BY <1>3, <2>3, <2>4, <2>5 DEF JobInv, JobStep, Job!Next
<1> QED BY <1>5, <1>6

(* The user stops the run, or the editor waits for another child. *)
LEMMA StopJob ==
  ASSUME Inv, StopChild
  PROVE  JobInv' /\ JobStep
<1> USE DEF Inv
<1>1. Running /\ ~stopped /\ ~dialog /\ UNCHANGED <<shown, output>>
      BY DEF StopChild, UserActs, JobInv
<1>2. CASE PidChild = -1 /\ OtherChild
  <2>1. UNCHANGED <<run, parser, child, stopped>>
        BY <1>2 DEF StopChild
  <2>2. JobInv' /\ UNCHANGED Job!vars
        BY <1>1, <2>1 DEF JobInv, LinesShown, LineKept, Written, Parsing, Read, Running,
                          Job!vars, job
  <2> QED BY <2>2 DEF JobStep
<1>3. CASE ~(PidChild = -1 /\ OtherChild)
  <2>1. /\ PidChild' = 0 /\ stopped' = TRUE /\ PendingCleanUp' = FALSE /\ ParsingErrors' = FALSE
        /\ child' = IF PidChild = 1 THEN "none" ELSE child
        BY <1>1, <1>3 DEF StopChild, IncCleanUp, Flags
  <2>2. JobInv'
        BY <1>1, <2>1 DEF JobInv, LinesShown, LineKept, Written, Parsing, Running
  <2>3. Job!Stop
        BY <1>1, <2>1 DEF Job!Stop, job, Running
  <2> QED BY <2>2, <2>3 DEF JobStep, Job!Next
<1> QED BY <1>2, <1>3

LEMMA StepsOfJob ==
  ASSUME Undisturbed, RunBounds, Inv, [Next]_vars
  PROVE  JobInv' /\ JobStep
<1>1. CASE OpenDialog \/ CloseDialog \/ UNCHANGED vars
  <2>1. UNCHANGED <<run, parser, shown, child, output, stopped>>
        BY <1>1 DEF OpenDialog, CloseDialog
  <2> QED BY <2>1 DEF Inv, JobInv, LinesShown, LineKept, Written, Parsing, Read, Running,
                      JobStep, Job!vars, job
<1>2. ~TakeErrorFile
      BY DEF TakeErrorFile, Undisturbed
<1> QED BY <1>1, <1>2, ChildJob, StartJob, WaitJob, MoreJob, StopJob DEF Next, IncParse

(* RunProgram implements JobOutput: the lines of a program appear in the   *)
(* message window in order, each once and whole, and all of them are there *)
(* when the editor says it is back without having been stopped, however    *)
(* writing, reading, dialogs and stops interleave (runprog.cc, dumpfile.cc) *)
(* -- if lines are written whole and terminated, and nobody takes the file *)
(* away.                                                                   *)
THEOREM RunShowsOutput == Undisturbed => (Spec => JobSpec)
<1> SUFFICES ASSUME Undisturbed PROVE Spec => JobSpec
    OBVIOUS
<1>1. Init => Data /\ InFile /\ JobInv /\ Job!Init
      BY DEF Init, Data, InFile, JobInv, LinesShown, LineKept, Written, Parsing, Running,
             NoOutput, Output, Job!Init, job
<1>2. Flags /\ RunInv /\ Data /\ InFile /\ JobInv /\ [Next]_vars => JobInv' /\ JobStep
      BY StepsOfJob, RunBounds DEF Inv
<1> QED
    BY <1>1, <1>2, DataStep, RunInvariant, PTL DEF Spec, JobSpec, Job!Spec, JobStep
=============================================================================
