---------------------------- MODULE MCRunProgram ----------------------------
(* Small instances of RunProgram for TLC. *)
EXTENDS RunProgram

(* Nothing, one line, three lines. *)
MCOutputs == {[lines |-> ls, tail |-> 0] : ls \in {<<>>, <<1>>, <<1, 2, 1>>}}

(* Also outputs whose last line is not terminated. *)
MCTailOutputs == MCOutputs \cup {[lines |-> ls, tail |-> 1] : ls \in {<<>>, <<1>>}}
=============================================================================
