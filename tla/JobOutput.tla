------------------------------ MODULE JobOutput ------------------------------
(***************************************************************************)
(* What running a program and collecting its messages promises, with no    *)
(* file, no child and no idle loop: the lines the program writes appear in *)
(* the message window in order, each once and whole, and when the editor   *)
(* says it is back without having been stopped, all of them are there.     *)
(***************************************************************************)
EXTENDS Naturals, Sequences

VARIABLES
  job,      (* "running", "done" or "stopped"                               *)
  written,  (* the lines the program has finished writing                   *)
  shown     (* the lines in the message window                              *)

vars == <<job, written, shown>>

IsPrefixOf(s, t) == Len(s) <= Len(t) /\ SubSeq(t, 1, Len(s)) = s

Init == job = "done" /\ written = <<>> /\ shown = <<>>

(* A program is started: the window is emptied. *)
Start == /\ job # "running" /\ job' = "running"
         /\ shown' = <<>>

(* A program is run, and its messages shown, before the editor goes on. *)
RunAtOnce == /\ job # "running" /\ job' = "done"
             /\ shown' = written'

Write == /\ job = "running"
         /\ IsPrefixOf(written, written')
         /\ UNCHANGED <<job, shown>>

Show == /\ job = "running"
        /\ IsPrefixOf(shown, shown')
        /\ IsPrefixOf(shown', written)
        /\ UNCHANGED <<job, written>>

(* The last lines may be shown in the step that ends the job. *)
Finish == /\ job = "running" /\ job' = "done"
          /\ IsPrefixOf(shown, shown')
          /\ shown' = written
          /\ UNCHANGED written

Stop == /\ job = "running" /\ job' = "stopped"
        /\ UNCHANGED <<written, shown>>

Next == Start \/ RunAtOnce \/ Write \/ Show \/ Finish \/ Stop

Spec == Init /\ [][Next]_vars
=============================================================================
