------------------------- MODULE MCWindowCollection -------------------------
(* Constants for TLC. *)
EXTENDS WindowCollection

MCSome == {{}, {"editors", "others"}, {"closed"}}
MCNone == {{}}
=============================================================================
