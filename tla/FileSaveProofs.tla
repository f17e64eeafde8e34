--------------------------- MODULE FileSaveProofs ---------------------------
(***************************************************************************)
(* Theorems about FileSave, for any names, bounds and failures.            *)
(*                                                                         *)
(* The properties of FileSave speak of the window at rest.  While a save   *)
(* is under way what they claim must be remembered for the name saveAs()   *)
(* goes back to; that is what the inductive invariants below add.          *)
(***************************************************************************)
EXTENDS FileSave, TLAPS

Saving == pc \in {"replace", "cantBkp", "error", "backup", "copy", "open", "write"}

USE DEF Absent, Partial, Content, Whole, AtRest, Dialog, files, window, check, saving, ghosts, vars

-----------------------------------------------------------------------------
(* Type correctness *)

(* TypeOK in two parts, for the two provers. *)
Flags ==
  /\ modified \in BOOLEAN /\ isReadOnly \in BOOLEAN /\ forceNextTimeCheck \in BOOLEAN
  /\ revertToReadOnly \in BOOLEAN /\ noChangeTime \in BOOLEAN /\ snapshot \in BOOLEAN

Data ==
  /\ disk \in [Names -> Content] /\ bkp \in [Names -> Content]
  /\ mtime \in [Names -> Nat] /\ now \in Nat
  /\ fileName \in Names /\ buffer \in Content /\ DiskTime \in Nat
  /\ sinceCheck \in 0 .. minDifModCheck
  /\ pc \in {"rest", "dead", "ask", "replace", "cantBkp", "error",
             "backup", "copy", "open", "write"}
  /\ oldName \in Names
  /\ texts \in Nat /\ news \in {"none", "untold", "told", "failed"}

LEMMA TypeParts == TypeOK <=> Flags /\ Data
BY DEF TypeOK, Flags, Data

LEMMA RecoveredType ==
  ASSUME Data
  PROVE  \A n \in Names : Recovered(n) \in Content
BY FileAssumption DEF Data, Recovered

LEMMA LoadType ==
  ASSUME Flags, Data,
         \E n \in Names, text \in Content, time \in Nat, ro \in BOOLEAN :
            LoadFile(n, text, time, ro),
         disk' \in [Names -> Content], bkp' \in [Names -> Content], mtime' \in [Names -> Nat]
  PROVE  Flags' /\ Data'
<1>1. Flags'
      BY DEF Flags, LoadFile, Return
<1>2. Data'
      BY CheckAssumption DEF Data, LoadFile, Return
<1> QED BY <1>1, <1>2

LEMMA FailedType ==
  ASSUME Flags, Data, SaveAsRefused \/ GiveUp
  PROVE  Flags' /\ Data'
<1>1. Flags'
      BY DEF Flags, SaveAsRefused, GiveUp, Failed, Return, RevertToReadOnly
<1>2. Data'
      BY DEF Data, SaveAsRefused, GiveUp, Failed, Return
<1> QED BY <1>1, <1>2

LEMMA SaveFileType ==
  ASSUME Flags, Data,
         \E n \in Names, revert \in BOOLEAN, same \in BOOLEAN : SaveFile(n, revert, same),
         pc' \in {"replace", "backup", "open"}
  PROVE  Flags' /\ Data'
<1>1. Flags'
      BY DEF Flags, SaveFile
<1>2. Data'
      BY DEF Data, SaveFile
<1> QED BY <1>1, <1>2

LEMMA CheckType ==
  ASSUME Flags, Data, \E force \in BOOLEAN : CheckDiskCopyChanged(force)
  PROVE  Flags' /\ Data'
<1>1. Flags'
      BY DEF Flags, CheckDiskCopyChanged
<1>2. Data'
      BY CheckAssumption DEF Data, CheckDiskCopyChanged, Asking
<1> QED BY <1>1, <1>2

LEMMA TypeInit == Init => TypeOK
<1> SUFFICES ASSUME Init PROVE Flags /\ Data
    BY TypeParts
<1>1. Flags
      BY DEF Init, Flags
<1>2. disk \in [Names -> Content] /\ bkp \in [Names -> Content] /\ mtime \in [Names -> Nat]
      BY DEF Init
<1>3. buffer \in Content /\ sinceCheck \in 0 .. minDifModCheck /\ DiskTime \in Nat
      BY <1>2, CheckAssumption DEF Init
<1>4. Data
      BY <1>2, <1>3 DEF Init, Data
<1> QED BY <1>1, <1>4

LEMMA TypeStep == TypeOK /\ [Next]_vars => TypeOK'
<1> SUFFICES ASSUME Flags, Data, [Next]_vars PROVE Flags' /\ Data'
    BY TypeParts DEF TypeOK, Flags, Data
<1>1. CASE Edit \/ Focus \/ Tick \/ Keep \/ Crash \/ QuitCanceled
  <2>1. Flags'
        BY <1>1 DEF Flags, Edit, Focus, Tick, Keep, Crash, QuitCanceled
  <2>2. Data'
        BY <1>1, CheckAssumption DEF Data, Edit, Focus, Tick, Waited, Keep, Crash, QuitCanceled
  <2> QED BY <2>1, <2>2
<1>2. CASE Save \/ SaveSameTime \/ \E n \in Names : SaveAs(n)
  <2>1. fileName \in Names /\ isReadOnly \in BOOLEAN
        BY DEF Flags, Data
  <2>2. \E n \in Names, revert \in BOOLEAN, same \in BOOLEAN : SaveFile(n, revert, same)
        BY <1>2, <2>1, Zenon DEF Save, SaveSameTime, SaveAs
  <2>3. pc' \in {"replace", "backup", "open"}
        BY <1>2 DEF Save, SaveSameTime, SaveAs, FirstCall
  <2> QED BY <2>2, <2>3, SaveFileType
<1>3. CASE SaveAsRefused \/ GiveUp
      BY <1>3, FailedType
<1>4. CASE Reload \/ \E n \in Names, ro \in BOOLEAN : Open(n, ro)
  <2>1. /\ fileName \in Names
        /\ \A n \in Names : disk[n] \in Content /\ mtime[n] \in Nat
        BY DEF Data
  <2>2. \E n \in Names, text \in Content, time \in Nat, ro \in BOOLEAN :
           LoadFile(n, text, time, ro)
        BY <1>4, <2>1, Zenon DEF Reload, Open
  <2>3. UNCHANGED files
        BY <1>4 DEF Reload, Open
  <2> QED BY <2>2, <2>3, LoadType DEF Data
<1>5. CASE Restart
  <2> DEFINE text == Recovered(fileName)
             time == IF text = Absent THEN 0
                     ELSE IF text = disk[fileName] THEN mtime[fileName] ELSE now
  <2>1. fileName \in Names /\ text \in Content /\ time \in Nat
        BY RecoveredType DEF Data
  <2>2. /\ disk' = [disk EXCEPT ![fileName] = text]
        /\ mtime' = [mtime EXCEPT ![fileName] = time]
        /\ LoadFile(fileName, text, time, FALSE) /\ bkp' = bkp
        BY <1>5 DEF Restart
  <2> HIDE DEF text, time
  <2>3. disk' \in [Names -> Content] /\ mtime' \in [Names -> Nat] /\ bkp' \in [Names -> Content]
        BY <2>1, <2>2 DEF Data
  <2>4. \E n \in Names, t \in Content, at \in Nat, ro \in BOOLEAN : LoadFile(n, t, at, ro)
        BY <2>1, <2>2, Zenon
  <2> QED BY <2>3, <2>4, LoadType
<1>6. CASE Rename \/ CopyStart \/ CopyEnd \/ Create \/ \E list \in SUBSET Names : KillFilesToKill(list)
  <2>1. Flags'
        BY <1>6 DEF Flags, Rename, CopyStart, CopyEnd, Create, KillFilesToKill
  <2>2. Data'
        BY <1>6, FileAssumption DEF Data, Rename, CopyStart, CopyEnd, Create, KillFilesToKill
  <2> QED BY <2>1, <2>2
<1>7. CASE Replace \/ NoBackup \/ BackupFails \/ CreateFails \/ WriteFails
  <2>1. Flags'
        BY <1>7 DEF Flags, Replace, NoBackup, BackupFails, CreateFails, WriteFails, ErrorDialog
  <2>2. Data'
        BY <1>7 DEF Data, Replace, NoBackup, BackupFails, CreateFails, WriteFails, ErrorDialog,
                    FirstCall
  <2> QED BY <2>1, <2>2
<1>8. CASE WriteAndClose
  <2>1. Flags'
        BY <1>8 DEF Flags, WriteAndClose, Saved, Return
  <2>2. TimeOnDisk \in Nat /\ TimeSaved \in Nat
        BY DEF TimeSaved, TimeOnDisk, Data
  <2>3. Data'
        BY <1>8, <2>2, CheckAssumption DEF WriteAndClose, Saved, Data, Return
  <2> QED BY <2>1, <2>3
<1>9. CASE Idle \/ AfterRun
      BY <1>9, CheckType DEF Idle, AfterRun
<1>10. CASE \E n \in Names : OtherWrites(n)
  <2>1. Flags'
        BY <1>10 DEF Flags, OtherWrites
  <2>2. Data'
        BY <1>10 DEF Data, OtherWrites
  <2> QED BY <2>1, <2>2
<1>11. CASE UNCHANGED vars
       BY <1>11 DEF Flags, Data
<1> QED
    BY <1>1, <1>2, <1>3, <1>4, <1>5, <1>6, <1>7, <1>8, <1>9, <1>10, <1>11
    DEF Next, User, Answer, SaveStep

(* Every reachable state has the types of TypeOK. *)
THEOREM FileSaveTypeCorrect == Spec => []TypeOK
BY TypeInit, TypeStep, PTL DEF Spec

-----------------------------------------------------------------------------
(* Read only windows *)

(* saveAs() makes the window writable for the time of the save, and        *)
(* remembers in a local variable that it was not.                          *)
ReadOnlyInv ==
  /\ pc \in {"rest", "ask"} => isReadOnly = snapshot
  /\ Saving => revertToReadOnly = snapshot /\ ~isReadOnly

LEMMA ReadOnlyStep ==
  ASSUME "Refused" \notin Ops, Flags, Data, ReadOnlyInv, [Next]_vars
  PROVE  ReadOnlyInv'
<1> USE DEF ReadOnlyInv, Saving
<1>1. CASE Edit \/ Focus \/ Tick \/ Keep \/ Crash \/ QuitCanceled
      BY <1>1 DEF Edit, Focus, Tick, Keep, Crash, QuitCanceled
<1>2. CASE Save \/ SaveSameTime \/ \E n \in Names : SaveAs(n)
      BY <1>2 DEF Save, SaveSameTime, SaveAs, SaveFile, FirstCall, Flags
<1>3. CASE SaveAsRefused \/ GiveUp
  <2>1. pc' = "rest" /\ UNCHANGED snapshot
        BY <1>3 DEF SaveAsRefused, GiveUp, Failed, Return
  <2>2. revertToReadOnly = snapshot /\ ~isReadOnly
        BY <1>3 DEF SaveAsRefused, GiveUp
  <2>3. isReadOnly' = snapshot
    <3>1. CASE SaveAsRefused
      <4>1. isReadOnly' = isReadOnly /\ ~revertToReadOnly
            BY <3>1 DEF SaveAsRefused
      <4> QED BY <2>2, <4>1, Zenon DEF Flags
    <3>2. CASE GiveUp
          BY <2>2, <3>2 DEF GiveUp, Failed, RevertToReadOnly
    <3> QED BY <1>3, <3>1, <3>2
  <2>4. isReadOnly' = snapshot' /\ pc' = "rest"
        BY <2>1, <2>3
  <2> QED BY <2>4
<1>4. CASE Reload \/ Restart \/ \E n \in Names, ro \in BOOLEAN : Open(n, ro)
      BY <1>4 DEF Reload, Restart, Open, LoadFile, Return
<1>5. CASE \/ Rename \/ CopyStart \/ CopyEnd \/ Create
         \/ \E list \in SUBSET Names : KillFilesToKill(list)
      BY <1>5 DEF Rename, CopyStart, CopyEnd, Create, KillFilesToKill
<1>6. CASE Replace \/ NoBackup \/ BackupFails \/ CreateFails \/ WriteFails
      BY <1>6 DEF Replace, NoBackup, BackupFails, CreateFails, WriteFails, ErrorDialog, FirstCall
<1>7. CASE WriteAndClose
      BY <1>7 DEF WriteAndClose, Saved, Return, Flags
<1>8. CASE Idle \/ AfterRun
  <2>1. /\ UNCHANGED <<isReadOnly, snapshot, revertToReadOnly>>
        /\ pc' = pc \/ (pc = "rest" /\ pc' = "ask")
        BY <1>8 DEF Idle, AfterRun, CheckDiskCopyChanged, Asking
  <2> QED BY <2>1
<1>9. CASE \E n \in Names : OtherWrites(n)
      BY <1>9 DEF OtherWrites
<1>10. CASE UNCHANGED vars
       BY <1>10
<1> QED
    BY <1>1, <1>2, <1>3, <1>4, <1>5, <1>6, <1>7, <1>8, <1>9, <1>10
    DEF Next, User, Answer, SaveStep

(* A window opened read only stays so until it has been saved, whatever    *)
(* fails: every return of saveAs() but the refusal to replace a file puts  *)
(* back what it found.                                                     *)
THEOREM ReadOnlyKept == "Refused" \notin Ops => (Spec => []ReadOnlyStays)
<1> SUFFICES ASSUME "Refused" \notin Ops PROVE Spec => []ReadOnlyStays
    OBVIOUS
<1>1. Init => ReadOnlyInv
      BY DEF Init, ReadOnlyInv, Saving
<1>2. TypeOK /\ ReadOnlyInv /\ [Next]_vars => ReadOnlyInv'
      BY ReadOnlyStep, TypeParts
<1>3. ReadOnlyInv => ReadOnlyStays
      BY DEF ReadOnlyInv, ReadOnlyStays
<1> QED BY <1>1, <1>2, <1>3, FileSaveTypeCorrect, PTL DEF Spec

-----------------------------------------------------------------------------
(* What the editor believes of the file *)

(* The window is at rest with name fileName, or will be after a save that  *)
(* fails with oldName.  Once a save has truncated the file it would go     *)
(* back to, it can only succeed or leave news = "failed".                  *)
Kept == IF Saving THEN oldName ELSE fileName
Intact == pc # "dead" /\ ~(pc = "write" /\ fileName = oldName)

DiskInv ==
  /\ pc \in {"rest", "ask"} => fileName = oldName
  /\ buffer # Absent
  /\ \A n \in Names : disk[n] = Absent => mtime[n] = 0
  /\ pc = "ask" => news \in {"told", "untold"}

(* A save renames the file away before it writes the new one: in between   *)
(* the file is Absent, which CreateFails tells from a failed backup.       *)
UnmodifiedInv ==
  Intact /\ ~modified /\ DiskTime # 0 /\ news = "none"
    => \/ disk[Kept] = buffer
       \/ pc = "open" /\ fileName = oldName /\ disk[Kept] = Absent

(* AsksOnceAboutChanges, of read only windows and during a save too. *)
AsksInv ==
  Intact /\ DiskTime # 0 /\ disk[Kept] # Absent
    => /\ news = "untold" => mtime[Kept] > DiskTime
       /\ mtime[Kept] > DiskTime => news \in {"untold", "failed"}

LEMMA DiskStep == ASSUME Flags, Data, DiskInv, [Next]_vars PROVE DiskInv'
<1> USE DEF DiskInv, Data
<1>1. CASE Edit \/ Focus \/ Tick \/ Keep \/ Crash \/ QuitCanceled
      BY <1>1 DEF Edit, Focus, Tick, Keep, Crash, QuitCanceled
<1>2. CASE Save \/ SaveSameTime \/ \E n \in Names : SaveAs(n)
      BY <1>2 DEF Save, SaveSameTime, SaveAs, SaveFile, FirstCall
<1>3. CASE SaveAsRefused \/ GiveUp
      BY <1>3 DEF SaveAsRefused, GiveUp, Failed, Return, RevertToReadOnly
<1>4. CASE Reload \/ \E n \in Names, ro \in BOOLEAN : Open(n, ro)
      BY <1>4 DEF Reload, Open, LoadFile, Return
<1>5. CASE Restart
      BY <1>5 DEF Restart, LoadFile, Return
<1>6. CASE \/ Rename \/ CopyStart \/ CopyEnd \/ Create
         \/ \E list \in SUBSET Names : KillFilesToKill(list)
      BY <1>6 DEF Rename, CopyStart, CopyEnd, Create, KillFilesToKill
<1>7. CASE Replace \/ NoBackup \/ BackupFails \/ CreateFails \/ WriteFails
      BY <1>7 DEF Replace, NoBackup, BackupFails, CreateFails, WriteFails, ErrorDialog, FirstCall
<1>8. CASE WriteAndClose
      BY <1>8 DEF WriteAndClose, Saved, Return
<1>9. CASE Idle \/ AfterRun
      BY <1>9 DEF Idle, AfterRun, CheckDiskCopyChanged, Asking
<1>10. CASE \E n \in Names : OtherWrites(n)
       BY <1>10 DEF OtherWrites
<1>11. CASE UNCHANGED vars
       BY <1>11
<1> QED
    BY <1>1, <1>2, <1>3, <1>4, <1>5, <1>6, <1>7, <1>8, <1>9, <1>10, <1>11
    DEF Next, User, Answer, SaveStep

LEMMA UnmodifiedStep ==
  ASSUME "CloseFails" \notin Ops, "QuitCanceled" \notin Ops,
         Flags, Data, DiskInv, UnmodifiedInv, [Next]_vars
  PROVE  UnmodifiedInv'
<1> USE DEF DiskInv, UnmodifiedInv, Data, Flags, Kept, Intact, Saving
<1>1. CASE Edit \/ Focus \/ Tick \/ Keep \/ Crash \/ QuitCanceled
      BY <1>1 DEF Edit, Focus, Tick, Keep, Crash, QuitCanceled
<1>2. CASE Save \/ SaveSameTime \/ \E n \in Names : SaveAs(n)
      BY <1>2 DEF Save, SaveSameTime, SaveAs, SaveFile, FirstCall
<1>3. CASE SaveAsRefused \/ GiveUp
      BY <1>3 DEF SaveAsRefused, GiveUp, Failed, Return, RevertToReadOnly
<1>4. CASE Reload \/ \E n \in Names, ro \in BOOLEAN : Open(n, ro)
      BY <1>4 DEF Reload, Open, LoadFile, Return
<1>5. CASE Restart
      BY <1>5 DEF Restart, LoadFile, Return
<1>6. CASE \/ Rename \/ CopyStart \/ CopyEnd \/ Create
         \/ \E list \in SUBSET Names : KillFilesToKill(list)
      BY <1>6 DEF Rename, CopyStart, CopyEnd, Create, KillFilesToKill
<1>7. CASE Replace \/ NoBackup \/ BackupFails \/ CreateFails \/ WriteFails
      BY <1>7 DEF Replace, NoBackup, BackupFails, CreateFails, WriteFails, ErrorDialog, FirstCall
<1>8. CASE WriteAndClose
      BY <1>8 DEF WriteAndClose, Saved, Return
<1>9. CASE Idle \/ AfterRun
      BY <1>9 DEF Idle, AfterRun, CheckDiskCopyChanged, Asking
<1>10. CASE \E n \in Names : OtherWrites(n)
       BY <1>10 DEF OtherWrites
<1>11. CASE UNCHANGED vars
       BY <1>11
<1> QED
    BY <1>1, <1>2, <1>3, <1>4, <1>5, <1>6, <1>7, <1>8, <1>9, <1>10, <1>11
    DEF Next, User, Answer, SaveStep

LEMMA AsksStep ==
  ASSUME "SameSecond" \notin Ops, "OtherChecked" \notin Ops, Flags, Data, DiskInv, AsksInv, [Next]_vars
  PROVE  AsksInv'
<1> USE DEF DiskInv, AsksInv, Data, Flags, Kept, Intact, Saving
<1>1. CASE Edit \/ Focus \/ Tick \/ Keep \/ Crash \/ QuitCanceled
      BY <1>1 DEF Edit, Focus, Tick, Keep, Crash, QuitCanceled
<1>2. CASE Save \/ SaveSameTime \/ \E n \in Names : SaveAs(n)
      BY <1>2 DEF Save, SaveSameTime, SaveAs, SaveFile, FirstCall
<1>3. CASE SaveAsRefused \/ GiveUp
      BY <1>3 DEF SaveAsRefused, GiveUp, Failed, Return, RevertToReadOnly
<1>4. CASE Reload \/ \E n \in Names, ro \in BOOLEAN : Open(n, ro)
      BY <1>4 DEF Reload, Open, LoadFile, Return
<1>5. CASE Restart
      BY <1>5 DEF Restart, LoadFile, Return
<1>6. CASE \/ Rename \/ CopyStart \/ CopyEnd \/ Create
         \/ \E list \in SUBSET Names : KillFilesToKill(list)
      BY <1>6 DEF Rename, CopyStart, CopyEnd, Create, KillFilesToKill
<1>7. CASE Replace \/ NoBackup \/ BackupFails \/ CreateFails \/ WriteFails
      BY <1>7 DEF Replace, NoBackup, BackupFails, CreateFails, WriteFails, ErrorDialog, FirstCall
<1>8. CASE WriteAndClose
      BY <1>8 DEF WriteAndClose, Saved, Return, TimeSaved, TimeOnDisk
<1>9. CASE Idle \/ AfterRun
  <2>1. fileName = oldName /\ (Dialog \/ AtRest) /\ UNCHANGED <<disk, mtime, fileName, oldName>>
        BY <1>9 DEF Idle, AfterRun, CheckDiskCopyChanged
  <2>2. CASE Asking
        BY <2>1, <2>2 DEF Asking
  <2>3. CASE UNCHANGED <<DiskTime, news, pc>>
        BY <2>1, <2>3
  <2> QED BY <1>9, <2>2, <2>3 DEF Idle, AfterRun, CheckDiskCopyChanged
<1>10. CASE \E n \in Names : OtherWrites(n)
       BY <1>10 DEF OtherWrites
<1>11. CASE UNCHANGED vars
       BY <1>11
<1> QED
    BY <1>1, <1>2, <1>3, <1>4, <1>5, <1>6, <1>7, <1>8, <1>9, <1>10, <1>11
    DEF Next, User, Answer, SaveStep

(* When the editor takes a text for unmodified, and so will close the      *)
(* window or open another file in it without a question, the file it was   *)
(* loaded from or saved to holds that text, whatever calls of a save fail  *)
(* and whatever the user answers; only another program, or a save that     *)
(* failed and said so, can have changed the file.  The result of fclose()  *)
(* that nobody looks at and the quit canceled after valid() cleared the    *)
(* flag are the two exceptions.                                            *)
THEOREM UnmodifiedKept ==
  "CloseFails" \notin Ops /\ "QuitCanceled" \notin Ops => (Spec => []UnmodifiedIsOnDisk)
<1> SUFFICES ASSUME "CloseFails" \notin Ops, "QuitCanceled" \notin Ops
             PROVE  Spec => []UnmodifiedIsOnDisk
    OBVIOUS
<1>1. Init => DiskInv /\ UnmodifiedInv
      BY DEF Init, DiskInv, UnmodifiedInv, Kept, Intact, Saving
<1>2. TypeOK /\ DiskInv /\ UnmodifiedInv /\ [Next]_vars => DiskInv' /\ UnmodifiedInv'
      BY DiskStep, UnmodifiedStep, TypeParts
<1>3. UnmodifiedInv => UnmodifiedIsOnDisk
      BY DEF UnmodifiedInv, UnmodifiedIsOnDisk, Kept, Intact, Saving
<1> QED BY <1>1, <1>2, <1>3, FileSaveTypeCorrect, PTL DEF Spec

(* No change another program makes to the file escapes the check of the    *)
(* idle loop, none is asked about twice, and the editor does not take what *)
(* it wrote itself for a change: the times kept by loadFile(), saveFile(), *)
(* and checkDiskCopyChanged() agree, whenever the check comes, in the      *)
(* dialogs of a save too.  The exceptions are a change made in the second  *)
(* the file was loaded, saved or checked, and a check while saveAs() has   *)
(* already given the window another name.                                  *)
THEOREM AsksOnce ==
  "SameSecond" \notin Ops /\ "OtherChecked" \notin Ops => (Spec => []AsksOnceAboutChanges)
<1> SUFFICES ASSUME "SameSecond" \notin Ops, "OtherChecked" \notin Ops
             PROVE  Spec => []AsksOnceAboutChanges
    OBVIOUS
<1>1. Init => DiskInv /\ AsksInv
      BY DEF Init, DiskInv, AsksInv, Kept, Intact, Saving
<1>2. TypeOK /\ DiskInv /\ AsksInv /\ [Next]_vars => DiskInv' /\ AsksInv'
      BY DiskStep, AsksStep, TypeParts
<1>3. AsksInv => AsksOnceAboutChanges
      BY DEF AsksInv, AsksOnceAboutChanges, Newer, Kept, Intact, Saving
<1> QED BY <1>1, <1>2, <1>3, FileSaveTypeCorrect, PTL DEF Spec

-----------------------------------------------------------------------------
(* FileSave implements AtomicSave, for any names and links: wherever a     *)
(* save fails or the editor is killed, the text that can be recovered has  *)
(* been replaced in one step, or not at all.                               *)
(*                                                                         *)
(* The step is the one that ends the save: until then the text of before   *)
(* is in the file (while it is copied), in both (after that) or in the     *)
(* backup (once the file was renamed or truncated).                        *)

(* Every file is backed up under a name of its own that is not deleted     *)
(* while it is the only copy, and a file that could be created is written. *)
Guarded == /\ BackedUp = Names
           /\ \A m, n \in Names : backupOf[m] = backupOf[n] => m = n
           /\ "NoBackup" \notin Ops /\ "WriteFails" \notin Ops /\ "CloseFails" \notin Ops
           /\ "LastCopyKilled" \notin Ops

(* Where the texts are in each phase of a save. *)
TextInv ==
  /\ buffer >= 0
  /\ \A n \in Names : disk[n] = Partial => n = fileName /\ pc \in {"write", "dead"}
  /\ pc \in {"backup", "copy"} => disk[fileName] >= 0
  /\ pc = "open" /\ disk[fileName] >= 0 => bkp[backupOf[fileName]] = disk[fileName]
  /\ pc = "write" => disk[fileName] = Partial

LEMMA TextInit == Init => TextInv
BY DEF Init, TextInv

LEMMA TextStep ==
  ASSUME Guarded, Flags, Data, TextInv, [Next]_vars
  PROVE  TextInv'
<1> USE DEF Guarded, Data, TextInv
<1>1. CASE Edit \/ Focus \/ Tick \/ Keep \/ Crash \/ QuitCanceled
      BY <1>1 DEF Edit, Focus, Tick, Keep, Crash, QuitCanceled
<1>2. CASE Save \/ SaveSameTime \/ \E n \in Names : SaveAs(n)
      BY <1>2 DEF Save, SaveSameTime, SaveAs, SaveFile, FirstCall
<1>3. CASE SaveAsRefused \/ GiveUp
      BY <1>3 DEF SaveAsRefused, GiveUp, Failed, Return, RevertToReadOnly
<1>4. CASE Reload \/ \E n \in Names, ro \in BOOLEAN : Open(n, ro)
      BY <1>4 DEF Reload, Open, LoadFile, Return
<1>5. CASE Restart
      BY <1>5 DEF Restart, LoadFile, Return, Recovered
<1>6. CASE Rename
      BY <1>6 DEF Rename
<1>7. CASE CopyStart \/ CopyEnd
      BY <1>7, FileAssumption DEF CopyStart, CopyEnd
<1>8. CASE Create
      BY <1>8 DEF Create
<1>9. CASE Replace \/ NoBackup \/ BackupFails \/ CreateFails \/ WriteFails
      BY <1>9 DEF Replace, NoBackup, BackupFails, CreateFails, WriteFails, ErrorDialog, FirstCall
<1>10. CASE WriteAndClose
       BY <1>10 DEF WriteAndClose, Saved, Return
<1>11. CASE Idle \/ AfterRun
       BY <1>11 DEF Idle, AfterRun, CheckDiskCopyChanged, Asking
<1>12. CASE \E n \in Names : OtherWrites(n)
       BY <1>12 DEF OtherWrites
<1>13. CASE UNCHANGED vars
       BY <1>13
<1>14. CASE \E list \in SUBSET Names : KillFilesToKill(list)
       BY <1>14 DEF KillFilesToKill
<1> QED
    BY <1>1, <1>2, <1>3, <1>4, <1>5, <1>6, <1>7, <1>8, <1>9, <1>10, <1>11, <1>12, <1>13, <1>14
    DEF Next, User, Answer, SaveStep

-----------------------------------------------------------------------------
(* The text that can be recovered from a file and its backup. *)
Best(text, old) == IF text >= 0 THEN text ELSE IF old >= 0 THEN old ELSE Absent

LEMMA Stored == /\ stored = [n \in Names |-> Best(disk[n], bkp[backupOf[n]])]
                /\ stored' = [n \in Names |-> Best(disk'[n], bkp'[backupOf[n]])]
BY DEF stored, Recovered, Best

LEMMA AtomicInit == Init => Atomic!Init
<1> SUFFICES ASSUME Init PROVE Atomic!Init
    OBVIOUS
<1>1. stored \in [Names -> {Absent, 0, 1}]
      BY Stored, FileAssumption DEF Init, Best
<1>2. buffer \in {0, 1} /\ texts = 1
      BY DEF Init
<1> QED BY <1>1, <1>2 DEF Atomic!Init

(* The steps of a save before the last change nothing that can be          *)
(* recovered; nor do they touch the buffer.                                *)
LEMMA HiddenStep ==
  ASSUME Guarded, Data, TextInv,
         Rename \/ CopyStart \/ CopyEnd \/ Create \/ \E list \in SUBSET Names : KillFilesToKill(list)
  PROVE  UNCHANGED <<stored, buffer, texts>>
<1>1. UNCHANGED <<buffer, texts>>
      BY DEF Rename, CopyStart, CopyEnd, Create, KillFilesToKill
<1>2. \A n \in Names : Best(disk'[n], bkp'[backupOf[n]]) = Best(disk[n], bkp[backupOf[n]])
  <2> USE FileAssumption DEF Guarded
  <2>1. CASE Rename
        BY <2>1 DEF Rename, Best, Data, TextInv
  <2>2. CASE CopyStart \/ CopyEnd
        BY <2>2 DEF CopyStart, CopyEnd, Best, Data, TextInv
  <2>3. CASE Create
        BY <2>3 DEF Create, Best, Data, TextInv
  <2>4. CASE \E list \in SUBSET Names : KillFilesToKill(list)
    <3>1. PICK list \in SUBSET Names : KillFilesToKill(list)
          BY <2>4
    <3>2. \A n \in Names : backupOf[n] \in list => disk[n] >= 0
          BY <3>1 DEF KillFilesToKill, LastCopies
    <3> QED BY <3>1, <3>2 DEF KillFilesToKill, Best, Data
  <2> QED BY <2>1, <2>2, <2>3, <2>4
<1> QED BY <1>1, <1>2, Stored

(* The last step of a save is the one that replaces the text.              *)
LEMMA SaveStored ==
  ASSUME Guarded, Data, TextInv, WriteAndClose
  PROVE  \E n \in Names : Atomic!Save(n)
<1>1. /\ disk' = [disk EXCEPT ![fileName] = buffer]
      /\ UNCHANGED <<bkp, buffer, texts>>
      BY DEF WriteAndClose, Saved, Guarded
<1>2. stored' = [stored EXCEPT ![fileName] = buffer]
      BY <1>1, Stored DEF Best, Data, TextInv
<1> QED BY <1>1, <1>2 DEF Atomic!Save, Data

LEMMA OtherStored ==
  ASSUME Data, \E n \in Names : OtherWrites(n)
  PROVE  \E n \in Names : Atomic!OtherWrites(n)
<1>1. PICK n \in Names : OtherWrites(n)
      OBVIOUS
<1>2. /\ disk' = [disk EXCEPT ![n] = texts'] /\ texts' = texts + 1
      /\ UNCHANGED <<bkp, buffer>>
      BY <1>1 DEF OtherWrites
<1>3. stored' = [stored EXCEPT ![n] = texts']
      BY <1>2, Stored DEF Best, Data
<1> QED BY <1>2, <1>3 DEF Atomic!OtherWrites

(* What is loaded can be recovered, and stays so.                          *)
LEMMA LoadStored ==
  ASSUME Guarded, Data, TextInv,
         Reload \/ Restart \/ \E n \in Names, ro \in BOOLEAN : Open(n, ro)
  PROVE  \E n \in Names : Atomic!Load(n)
<1>1. CASE Reload \/ \E n \in Names, ro \in BOOLEAN : Open(n, ro)
  <2>1. /\ UNCHANGED <<disk, bkp, texts>> /\ pc \in {"rest", "ask"}
        /\ \E n \in Names : buffer' = IF disk[n] = Absent THEN 0 ELSE disk[n]
        BY <1>1 DEF Reload, Open, LoadFile, Data
  <2>2. stored' = stored
        BY <2>1, Stored
  <2>3. \E n \in Names : buffer' \in {stored[n], 0} \ {Absent}
        BY <2>1, Stored DEF Best, Data, TextInv
  <2> QED BY <2>1, <2>2, <2>3 DEF Atomic!Load
<1>2. CASE Restart
  <2> DEFINE text == Best(disk[fileName], bkp[backupOf[fileName]])
  <2>1. /\ disk' = [disk EXCEPT ![fileName] = text] /\ UNCHANGED <<bkp, texts>>
        /\ buffer' = IF text = Absent THEN 0 ELSE text
        BY <1>2 DEF Restart, LoadFile, Recovered, Best
  <2>2. stored' = stored
        BY <2>1, Stored DEF Best, Data
  <2>3. buffer' \in {stored[fileName], 0} \ {Absent}
        BY <2>1, Stored DEF Best, Data
  <2> QED BY <2>1, <2>2, <2>3 DEF Atomic!Load, Data
<1> QED BY <1>1, <1>2

LEMMA AtomicStep ==
  ASSUME Guarded, Data, TextInv, [Next]_vars
  PROVE  [Atomic!Next]_(Atomic!vars)
<1>1. CASE Edit
  <2>1. /\ UNCHANGED <<disk, bkp>> /\ texts' = texts + 1 /\ buffer' = texts'
        BY <1>1 DEF Edit
  <2> QED BY <2>1, Stored DEF Atomic!Next, Atomic!Edit
<1>2. CASE \/ Focus \/ Tick \/ Keep \/ Crash \/ QuitCanceled \/ Save \/ SaveSameTime
           \/ Idle \/ AfterRun \/ (\E n \in Names : SaveAs(n))
           \/ Replace \/ SaveAsRefused \/ NoBackup \/ GiveUp
           \/ BackupFails \/ CreateFails \/ WriteFails \/ UNCHANGED vars
  <2>1. UNCHANGED <<disk, bkp, buffer, texts>>
        BY <1>2 DEF Focus, Tick, Keep, Crash, QuitCanceled, Save, SaveSameTime, Idle, AfterRun,
                    CheckDiskCopyChanged, SaveAs, SaveFile, Replace, SaveAsRefused, NoBackup,
                    GiveUp, Failed, BackupFails, CreateFails, WriteFails, ErrorDialog
  <2> QED BY <2>1, Stored DEF Atomic!vars
<1>3. CASE \/ Rename \/ CopyStart \/ CopyEnd \/ Create
           \/ \E list \in SUBSET Names : KillFilesToKill(list)
      BY <1>3, HiddenStep DEF Atomic!vars
<1>4. CASE WriteAndClose
      BY <1>4, SaveStored DEF Atomic!Next
<1>5. CASE \E n \in Names : OtherWrites(n)
      BY <1>5, OtherStored DEF Atomic!Next
<1>6. CASE Reload \/ Restart \/ \E n \in Names, ro \in BOOLEAN : Open(n, ro)
      BY <1>6, LoadStored DEF Atomic!Next
<1> QED
    BY <1>1, <1>2, <1>3, <1>4, <1>5, <1>6 DEF Next, User, Answer, SaveStep

(* With a backup of its own for each file, that is not deleted while it is *)
(* the only copy, and if a file that could be created can also be written, *)
(* saving implements AtomicSave: killed between any two calls of the       *)
(* operating system, whatever backup or creation failed and whatever other *)
(* programs wrote, the old text or the new one can be recovered.           *)
THEOREM SaveIsAtomic == Guarded => (Spec => AtomicSpec)
<1> SUFFICES ASSUME Guarded PROVE Spec => AtomicSpec
    OBVIOUS
<1>1. TypeOK => Flags /\ Data
      BY TypeParts
<1>2. TypeOK /\ TextInv /\ [Next]_vars => TextInv' /\ [Atomic!Next]_(Atomic!vars)
      BY <1>1, TextStep, AtomicStep
<1> QED
    BY TextInit, AtomicInit, <1>2, FileSaveTypeCorrect, PTL DEF Spec, AtomicSpec, Atomic!Spec
=============================================================================
