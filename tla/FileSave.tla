------------------------------ MODULE FileSave ------------------------------
(***************************************************************************)
(* The file behind an edit window: loading, saving with a backup, and      *)
(* noticing that another program changed the file (mainsrc/ceditor.cc and  *)
(* setedit/editmain.cc).                                                   *)
(*                                                                         *)
(* Saving is a sequence of calls of the operating system, each of which    *)
(* may fail, and the editor may be killed between two of them.  Other      *)
(* programs write the files at any time the editor does not.  The          *)
(* modification time of a file is in seconds, as stat() gives it.          *)
(*                                                                         *)
(* A text is a number; 0 is the empty text.  A file that was truncated and *)
(* not written completely is Partial.                                      *)
(*                                                                         *)
(* Left out: end of line conversion, compression, attributes of files,     *)
(* the clipboard and untitled windows, memory, and writes of two programs  *)
(* at the same time.                                                       *)
(*                                                                         *)
(* A definition that no action uses, just before one with the same         *)
(* parameters, is a plausible mistake in the code of the second.           *)
(***************************************************************************)
EXTENDS Integers

CONSTANTS
  Names,           (* names of files                                        *)
  BackedUp,        (* those backups are made for (efBackupFiles, nobkp.txt) *)
  Links,           (* those that are symbolic links                         *)
  backupOf,        (* the backup of each: its extension is replaced, so     *)
                   (*   that a.c and a.h share one, or, with                *)
                   (*   efUNIXBkpStyle, "~" is added and none is shared     *)
  minDifModCheck,  (* seconds between two periodical checks                 *)
  Ops,             (* what may happen: subset of AllOps                     *)
  MaxTexts,        (* bound: texts written by anybody                       *)
  MaxTime          (* bound: seconds                                        *)

AllOps == {"Crash", "BackupFails", "NoBackup", "CreateFails", "WriteFails",
           "CloseFails", "Refused", "QuitCanceled", "SameSecond", "OtherChecked",
           "BackupsKilled", "LastCopyKilled"}

ASSUME FileAssumption ==
  BackedUp \subseteq Names /\ Links \subseteq Names /\ backupOf \in [Names -> Names]
ASSUME CheckAssumption == minDifModCheck \in Nat
ASSUME OpsAssumption == Ops \subseteq AllOps
ASSUME FileBounds == MaxTexts \in Nat \ {0} /\ MaxTime \in Nat \ {0}

Absent == -1
Partial == -2

VARIABLES
  disk,              (* what each file holds                                *)
  bkp,               (* what each backup holds                              *)
  mtime,             (* its modification time, 0: there is no file          *)
  now,               (* the clock                                           *)
  fileName,          (* the file of the window                              *)
  buffer,            (* the text in the window                              *)
  modified,          (* the editor takes the text for modified              *)
  DiskTime,          (* the modification time known, 0: not from the disk   *)
  isReadOnly,        (* the window is read only                             *)
  sinceCheck,        (* seconds since lastTimeCheck, or minDifModCheck      *)
  forceNextTimeCheck, (* the window got the focus                           *)
  pc,                (* "rest", "dead", a dialog, or the next call of       *)
                     (*   saveFile()                                        *)
  oldName,           (* the name, and in saveAs() the one to go back to     *)
  revertToReadOnly,  (* saveAs(): the window was read only                  *)
  noChangeTime,      (* saveFile(): keep the modification time              *)
  texts,             (* texts written so far                                *)
  news,              (* the file since it was loaded or saved: "none", or   *)
                     (*   changed: "untold", "told" (the user was asked),   *)
                     (*   or "failed" (by a save that failed)               *)
  snapshot           (* opened read only, and not saved since               *)

files == <<disk, bkp, mtime>>
window == <<fileName, buffer, modified, DiskTime, isReadOnly>>
check == <<sinceCheck, forceNextTimeCheck>>
saving == <<oldName, revertToReadOnly, noChangeTime>>
ghosts == <<news, snapshot>>
vars == <<files, now, window, check, pc, saving, texts, ghosts>>

-----------------------------------------------------------------------------
Whole(text) == text >= 0

(* What a user who falls back on the backup gets. *)
Recovered(n) == IF Whole(disk[n]) THEN disk[n]
                ELSE IF Whole(bkp[backupOf[n]]) THEN bkp[backupOf[n]] ELSE Absent

AtRest == pc = "rest"

(* The dialogs: whether to reload the file, to replace another one, to go  *)
(* on without a backup, and the message that creating or writing failed.   *)
Dialog == pc \in {"ask", "replace", "cantBkp", "error"}

(* The clock. *)
WaitedOn == sinceCheck + 1
Waited == IF sinceCheck < minDifModCheck THEN sinceCheck + 1 ELSE sinceCheck

Tick ==
  /\ pc # "dead"
  /\ sinceCheck' = Waited
  /\ now' = IF now < MaxTime THEN now + 1 ELSE now
  /\ UNCHANGED <<files, window, forceNextTimeCheck, pc, saving, texts, ghosts>>

-----------------------------------------------------------------------------
(* Back in the event loop, with file name; a save leaves no locals behind. *)
Return(name) ==
  /\ pc' = "rest"
  /\ fileName' = name /\ oldName' = name
  /\ revertToReadOnly' = FALSE /\ noChangeTime' = FALSE

(* loadFile(), in a window opened for file n: it is read only when ro.     *)
LoadFile(n, text, time, ro) ==
  /\ Return(n)
  /\ buffer' = IF text = Absent THEN 0 ELSE text
  /\ modified' = FALSE
  /\ DiskTime' = time
  /\ isReadOnly' = ro /\ snapshot' = ro
  /\ sinceCheck' = IF text = Absent THEN minDifModCheck ELSE 0
  /\ forceNextTimeCheck' = TRUE
  /\ news' = "none"
  /\ UNCHANGED <<now, texts>>

(* The window is closed, without saving it, and one is opened. *)
Open(n, ro) ==
  /\ AtRest
  /\ LoadFile(n, disk[n], mtime[n], ro)
  /\ UNCHANGED files

Edit ==
  /\ AtRest /\ ~isReadOnly
  /\ texts < MaxTexts
  /\ texts' = texts + 1
  /\ buffer' = texts' /\ modified' = TRUE
  /\ UNCHANGED <<files, now, fileName, DiskTime, isReadOnly, check, pc, saving, ghosts>>

(* Another program writes a file. *)
OtherWrites(n) ==
  /\ AtRest \/ Dialog
  /\ texts < MaxTexts
  /\ (mtime[n] < now /\ DiskTime < now) \/ "SameSecond" \in Ops
  /\ texts' = texts + 1
  /\ disk' = [disk EXCEPT ![n] = texts'] /\ mtime' = [mtime EXCEPT ![n] = now]
  /\ news' = IF n = oldName THEN "untold" ELSE news
  /\ UNCHANGED <<bkp, now, window, check, pc, saving, snapshot>>

(* The window gets the focus. *)
Focus ==
  /\ AtRest
  /\ forceNextTimeCheck' = TRUE
  /\ UNCHANGED <<files, now, window, sinceCheck, pc, saving, texts, ghosts>>

-----------------------------------------------------------------------------
(* saveFile(n), for saveAs() when old # n or the window was read only.     *)

FirstCallNew(n) == IF n \in BackedUp /\ disk[n] = Absent THEN "backup" ELSE "open"
FirstCall(n) == IF n \in BackedUp /\ disk[n] # Absent THEN "backup" ELSE "open"

SaveFile(n, revert, same) ==
  /\ fileName' = n /\ oldName' = fileName
  /\ revertToReadOnly' = revert /\ isReadOnly' = FALSE
  /\ noChangeTime' = same
  /\ UNCHANGED <<files, now, buffer, modified, DiskTime, check, texts, ghosts>>

(* The command of the user, quitting, or running a program. *)
Save ==
  /\ AtRest /\ ~isReadOnly
  /\ SaveFile(fileName, FALSE, FALSE)
  /\ pc' = FirstCall(fileName)

SaveSameTime ==
  /\ AtRest /\ ~isReadOnly /\ DiskTime # 0
  /\ SaveFile(fileName, FALSE, TRUE)
  /\ pc' = FirstCall(fileName)

(* saveAs(), with or without conversion. *)
SaveAs(n) ==
  /\ AtRest
  /\ SaveFile(n, isReadOnly, FALSE)
  /\ pc' = IF disk[n] = Absent THEN FirstCall(n) ELSE "replace"

(* edFileExists: the user wants the file replaced, *)
Replace ==
  /\ pc = "replace" /\ pc' = FirstCall(fileName)
  /\ UNCHANGED <<files, now, window, check, saving, texts, ghosts>>

(* or does not: the early return of saveAs(), which forgets that the       *)
(* window was read only.  Without conversion its own file is refused too.  *)
SaveAsRefused ==
  /\ pc = "replace" /\ (revertToReadOnly => "Refused" \in Ops)
  /\ Return(oldName)
  /\ UNCHANGED <<files, now, buffer, modified, DiskTime, isReadOnly, check, texts, ghosts>>

-----------------------------------------------------------------------------
(* The end of saveFile() and of its caller. *)

KeepsWritable == UNCHANGED isReadOnly
RevertToReadOnly == isReadOnly' = revertToReadOnly

FailedKeepingName ==
  /\ Return(fileName)
  /\ RevertToReadOnly
  /\ UNCHANGED <<files, now, buffer, modified, DiskTime, check, texts, ghosts>>

(* It returned False: saveAs() goes back. *)
Failed ==
  /\ Return(oldName)
  /\ RevertToReadOnly
  /\ UNCHANGED <<files, now, buffer, modified, DiskTime, check, texts, ghosts>>

(* The message that says so comes first. *)
ErrorDialog(touched) ==
  /\ pc' = "error"
  /\ news' = IF touched /\ fileName = oldName THEN "failed" ELSE news
  /\ UNCHANGED <<files, now, window, check, saving, texts, snapshot>>

(* It returned True; with noChangeTime utime() has put the old time back. *)
TimeOnDisk == IF noChangeTime THEN DiskTime ELSE now
TimeOfBefore == DiskTime
TimeSaved == IF noChangeTime THEN DiskTime ELSE TimeOnDisk

Saved ==
  /\ modified' = FALSE
  /\ DiskTime' = TimeSaved
  /\ mtime' = [mtime EXCEPT ![fileName] = TimeOnDisk]
  /\ sinceCheck' = 0
  /\ news' = "none" /\ snapshot' = FALSE
  /\ Return(fileName)
  /\ UNCHANGED <<bkp, now, buffer, isReadOnly, forceNextTimeCheck, texts>>

(* FileCopyOrMove(): an ordinary file is renamed, a link is copied. *)
Rename ==
  /\ pc = "backup" /\ fileName \notin Links
  /\ bkp' = [bkp EXCEPT ![backupOf[fileName]] = disk[fileName]]
  /\ disk' = [disk EXCEPT ![fileName] = Absent] /\ mtime' = [mtime EXCEPT ![fileName] = 0]
  /\ pc' = "open"
  /\ UNCHANGED <<now, window, check, saving, texts, ghosts>>

CopyStart ==
  /\ pc = "backup" /\ fileName \in Links
  /\ bkp' = [bkp EXCEPT ![backupOf[fileName]] = Partial]
  /\ pc' = "copy"
  /\ UNCHANGED <<disk, mtime, now, window, check, saving, texts, ghosts>>

CopyEnd ==
  /\ pc = "copy"
  /\ bkp' = [bkp EXCEPT ![backupOf[fileName]] = disk[fileName]]
  /\ pc' = "open"
  /\ UNCHANGED <<disk, mtime, now, window, check, saving, texts, ghosts>>

(* edCantBkp: the user gives up or goes on without a backup. *)
BackupFails ==
  /\ "BackupFails" \in Ops
  /\ pc \in {"backup", "copy"} /\ pc' = "cantBkp"
  /\ UNCHANGED <<files, now, window, check, saving, texts, ghosts>>

NoBackup ==
  /\ "NoBackup" \in Ops
  /\ pc = "cantBkp" /\ pc' = "open"
  /\ UNCHANGED <<files, now, window, check, saving, texts, ghosts>>

GiveUp ==
  /\ pc \in {"cantBkp", "error"}
  /\ Failed

(* TGZFileWrite: the file is created or truncated. *)
Create ==
  /\ pc = "open"
  /\ disk' = [disk EXCEPT ![fileName] = Partial] /\ mtime' = [mtime EXCEPT ![fileName] = now]
  /\ pc' = "write"
  /\ UNCHANGED <<bkp, now, window, check, saving, texts, ghosts>>

CreateFails ==
  /\ "CreateFails" \in Ops
  /\ pc = "open"
  /\ ErrorDialog(disk[fileName] = Absent)

(* write() and close() succeed.  The result of fclose() is not looked at:  *)
(* with CloseFails, what was still in its buffer is lost.                  *)
WriteAndClose ==
  /\ pc = "write"
  /\ \E text \in {buffer} \cup (IF "CloseFails" \in Ops THEN {Partial} ELSE {}) :
        disk' = [disk EXCEPT ![fileName] = text]
  /\ Saved

WriteFails ==
  /\ "WriteFails" \in Ops
  /\ pc = "write"
  /\ ErrorDialog(TRUE)

(* Those that hold the only copy, of a file that could not be created or   *)
(* written.                                                                *)
LastCopies == {backupOf[n] : n \in {m \in Names : ~Whole(disk[m])}}

(* The backups in the list AddToFilesToKill() keeps are deleted, by a      *)
(* command or when the editor is left.                                     *)
KillFilesToKill(list) ==
  /\ "BackupsKilled" \in Ops
  /\ list \cap LastCopies = {} \/ "LastCopyKilled" \in Ops
  /\ AtRest
  /\ bkp' = [n \in Names |-> IF n \in list THEN Absent ELSE bkp[n]]
  /\ UNCHANGED <<disk, mtime, now, window, check, pc, saving, texts, ghosts>>

(* Quitting: the user does not save this window, and then the quit is      *)
(* canceled for another one; valid() has already cleared the flag.         *)
QuitCanceled ==
  /\ "QuitCanceled" \in Ops
  /\ AtRest /\ modified
  /\ modified' = FALSE
  /\ UNCHANGED <<files, now, fileName, buffer, DiskTime, isReadOnly, check, pc, saving, texts, ghosts>>

-----------------------------------------------------------------------------
(* checkDiskCopyChanged(): in the idle loop, which also turns while a      *)
(* dialog is open, or by force after a program was run.  The known time is *)
(* set whatever the user will answer.                                      *)
Due(force) == force \/ forceNextTimeCheck \/ sinceCheck >= minDifModCheck

Newer == disk[fileName] # Absent /\ mtime[fileName] > DiskTime

(* In a dialog the user keeps the buffer: the answer Yes destroys the      *)
(* editor that saveFile() will go on with.                                 *)
Asking ==
  /\ DiskTime' = mtime[fileName]
  /\ news' = IF fileName = oldName THEN "told" ELSE news
  /\ pc' = IF AtRest THEN "ask" ELSE pc

(* The time of the check is taken before it is known that it is due. *)
CheckRestartingWait(force) ==
  /\ ~isReadOnly /\ DiskTime # 0
  /\ sinceCheck' = 0
  /\ forceNextTimeCheck' = IF Due(force) THEN FALSE ELSE forceNextTimeCheck
  /\ IF Due(force) /\ Newer THEN Asking ELSE UNCHANGED <<DiskTime, news, pc>>
  /\ UNCHANGED <<files, now, fileName, buffer, modified, isReadOnly, saving, texts, snapshot>>

CheckDiskCopyChanged(force) ==
  /\ ~isReadOnly /\ DiskTime # 0
  /\ Due(force)
  /\ sinceCheck' = 0 /\ forceNextTimeCheck' = FALSE
  /\ IF Newer THEN Asking ELSE UNCHANGED <<DiskTime, news, pc>>
  /\ UNCHANGED <<files, now, fileName, buffer, modified, isReadOnly, saving, texts, snapshot>>

(* AskReloadEditor(): the user keeps the buffer, *)
Keep ==
  /\ pc = "ask" /\ pc' = "rest"
  /\ UNCHANGED <<files, now, window, check, saving, texts, ghosts>>

(* or discards it for the file: ReOpen(). *)
Reload ==
  /\ pc = "ask"
  /\ LoadFile(fileName, disk[fileName], mtime[fileName], FALSE)
  /\ UNCHANGED files

-----------------------------------------------------------------------------
(* The editor is killed; the user puts the file right and starts again.    *)
Crash ==
  /\ "Crash" \in Ops /\ pc # "dead"
  /\ pc' = "dead"
  /\ UNCHANGED <<files, now, window, check, saving, texts, ghosts>>

Restart ==
  /\ pc = "dead"
  /\ LET text == Recovered(fileName)
         time == IF text = Absent THEN 0
                 ELSE IF text = disk[fileName] THEN mtime[fileName] ELSE now
     IN  /\ disk' = [disk EXCEPT ![fileName] = text]
         /\ mtime' = [mtime EXCEPT ![fileName] = time]
         /\ LoadFile(fileName, text, time, FALSE)
  /\ UNCHANGED bkp
-----------------------------------------------------------------------------
(* Files were written a second ago. *)
Init ==
  /\ disk \in [Names -> {Absent, 1}]
  /\ bkp = [n \in Names |-> Absent]
  /\ mtime = [n \in Names |-> IF disk[n] = Absent THEN 0 ELSE 1]
  /\ now = 2
  /\ fileName \in Names
  /\ buffer = (IF disk[fileName] = Absent THEN 0 ELSE disk[fileName])
  /\ modified = FALSE
  /\ DiskTime = mtime[fileName]
  /\ isReadOnly \in BOOLEAN /\ snapshot = isReadOnly
  /\ sinceCheck = (IF disk[fileName] = Absent THEN minDifModCheck ELSE 0)
  /\ forceNextTimeCheck = TRUE
  /\ pc = "rest"
  /\ oldName = fileName /\ revertToReadOnly = FALSE /\ noChangeTime = FALSE
  /\ texts = 1
  /\ news = "none"

User == \/ Edit \/ Focus \/ Save \/ SaveSameTime \/ QuitCanceled
        \/ \E n \in Names : SaveAs(n)
        \/ \E n \in Names, ro \in BOOLEAN : Open(n, ro)
        \/ \E list \in SUBSET Names : KillFilesToKill(list)

Answer == Keep \/ Reload \/ Replace \/ SaveAsRefused \/ NoBackup \/ GiveUp

SaveStep == Rename \/ CopyStart \/ CopyEnd \/ BackupFails \/ Create \/ CreateFails
            \/ WriteAndClose \/ WriteFails

(* With OtherChecked also in a dialog of saveAs(), where the name is       *)
(* already the one the text will be saved under, and DiskTime is not its   *)
(* time.                                                                   *)
Idle ==
  /\ AtRest \/ Dialog
  /\ fileName = oldName \/ "OtherChecked" \in Ops
  /\ CheckDiskCopyChanged(FALSE)

AfterRun == AtRest /\ CheckDiskCopyChanged(TRUE)

Next == User \/ Answer \/ SaveStep \/ Idle \/ AfterRun \/ Tick \/ Crash \/ Restart
        \/ \E n \in Names : OtherWrites(n)

Spec == Init /\ [][Next]_vars

(* The clock runs, the calls of a save return, the user answers dialogs,   *)
(* and the editor is idle again and again, also between two commands.      *)
Fairness == /\ WF_vars(Tick) /\ WF_vars(SaveStep \/ Answer)
            /\ SF_vars(Idle)
FairSpec == Spec /\ Fairness

-----------------------------------------------------------------------------
(* The types of the variables. *)
Content == Nat \cup {Absent, Partial}

TypeOK ==
  /\ disk \in [Names -> Content] /\ bkp \in [Names -> Content]
  /\ mtime \in [Names -> Nat] /\ now \in Nat
  /\ fileName \in Names /\ buffer \in Content /\ modified \in BOOLEAN
  /\ DiskTime \in Nat /\ isReadOnly \in BOOLEAN
  /\ sinceCheck \in 0 .. minDifModCheck /\ forceNextTimeCheck \in BOOLEAN
  /\ pc \in {"rest", "dead", "ask", "replace", "cantBkp", "error",
             "backup", "copy", "open", "write"}
  /\ oldName \in Names /\ revertToReadOnly \in BOOLEAN /\ noChangeTime \in BOOLEAN
  /\ texts \in Nat /\ news \in {"none", "untold", "told", "failed"} /\ snapshot \in BOOLEAN

(* When the editor takes the text of a file for unmodified, so that it     *)
(* will be closed without a question, the file holds that text, unless     *)
(* another program or a save that failed changed it.                       *)
UnmodifiedIsOnDisk ==
  AtRest /\ ~modified /\ DiskTime # 0 /\ news = "none" => disk[fileName] = buffer

(* The idle loop will ask about a file if another program changed it and   *)
(* the user has not been asked, and only then: no change escapes, none is  *)
(* asked about twice, and the editor does not ask about what it wrote      *)
(* itself, unless that failed half way.                                    *)
AsksOnceAboutChanges ==
  AtRest /\ ~isReadOnly /\ DiskTime # 0 /\ disk[fileName] # Absent
    => /\ news = "untold" => Newer
       /\ Newer => news \in {"untold", "failed"}

(* A window opened read only stays so until it has been saved. *)
ReadOnlyStays == AtRest => isReadOnly = snapshot

(* Whenever the editor may be killed, the text that was on the disk can be *)
(* recovered from the file or its backup: a save replaces it in one step.  *)
stored == [n \in Names |-> Recovered(n)]
Atomic == INSTANCE AtomicSave WITH None <- Absent
AtomicSpec == Atomic!Spec

(* A change of the file is asked about, or the window goes away from it.   *)
ChangeIsTold ==
  news = "untold" /\ ~isReadOnly /\ DiskTime # 0 /\ disk[fileName] # Absent
    ~> \/ news # "untold" \/ isReadOnly \/ disk[fileName] = Absent \/ pc = "dead"
=============================================================================
