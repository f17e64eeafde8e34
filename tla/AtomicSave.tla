----------------------------- MODULE AtomicSave -----------------------------
(***************************************************************************)
(* What saving with backups promises, with no backup, no truncation and no *)
(* crash: the text that can be recovered from the disk under a name is     *)
(* replaced in one step, by the text of the buffer when the editor saves   *)
(* it or by what another program writes, and by nothing else.              *)
(***************************************************************************)
EXTENDS Naturals

CONSTANTS
  Names,  (* names of files                                                 *)
  None    (* there is nothing to recover                                    *)

VARIABLES
  stored,  (* the text that can be recovered under each name                *)
  buffer,  (* the text in the editor, 0: empty                              *)
  texts    (* how many texts have been written by anybody                   *)

vars == <<stored, buffer, texts>>

Init == /\ stored \in [Names -> {None, 0, 1}]
        /\ buffer \in {0, 1} /\ texts = 1

Edit == /\ texts' = texts + 1 /\ buffer' = texts'
        /\ UNCHANGED stored

Save(n) == /\ stored' = [stored EXCEPT ![n] = buffer]
           /\ UNCHANGED <<buffer, texts>>

OtherWrites(n) == /\ texts' = texts + 1
                  /\ stored' = [stored EXCEPT ![n] = texts']
                  /\ UNCHANGED buffer

Load(n) == /\ buffer' \in {stored[n], 0} \ {None}
           /\ UNCHANGED <<stored, texts>>

Next == Edit \/ \E n \in Names : Save(n) \/ OtherWrites(n) \/ Load(n)

Spec == Init /\ [][Next]_vars
=============================================================================
