---------------------------- MODULE LinearHistory ----------------------------
(***************************************************************************)
(* What an undo facility promises, with no ring and no cells: a document,  *)
(* the documents undoing goes back through and the documents redoing goes  *)
(* forward through.  Undo and Redo are each other's inverse, an edit       *)
(* forgets what could be redone, and only the oldest of the past is ever   *)
(* forgotten.                                                              *)
(***************************************************************************)
EXTENDS Naturals, Sequences

VARIABLES
  doc,      (* the document                                                 *)
  past,     (* the documents before each edit that can be undone            *)
  future    (* the documents after each edit that can be redone, next first *)

vars == <<doc, past, future>>

Init == past = <<>> /\ future = <<>>

(* An edit is a step of its own; the oldest steps may be forgotten for it. *)
Edit ==
  /\ \E k \in 0 .. Len(past) :
       past' = Append(SubSeq(past, k + 1, Len(past)), doc)
  /\ future' = <<>>

(* An edit continues the last one, and is undone with it. *)
Amend ==
  /\ past # <<>> /\ future = <<>>
  /\ UNCHANGED <<past, future>>

Undo ==
  /\ past # <<>>
  /\ doc' = past[Len(past)]
  /\ past' = SubSeq(past, 1, Len(past) - 1)
  /\ future' = <<doc>> \o future

Redo ==
  /\ future # <<>>
  /\ doc' = Head(future)
  /\ future' = Tail(future)
  /\ past' = Append(past, doc)

(* A change without undo forgets everything. *)
Forget == past' = <<>> /\ future' = <<>>

Next == Edit \/ Amend \/ Undo \/ Redo \/ Forget

Spec == Init /\ [][Next]_vars
=============================================================================
