----------------------------- MODULE MCFileSave -----------------------------
(* Small instances of FileSave for TLC. *)
EXTENDS FileSave

(* With "~" added, and with the extension replaced. *)
OwnBackups == [n \in Names |-> n]
OneBackup == [n \in Names |-> CHOOSE m \in Names : TRUE]
=============================================================================
