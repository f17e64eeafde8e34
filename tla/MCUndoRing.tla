----------------------------- MODULE MCUndoRing --------------------------------
(* Small instances of UndoRing for TLC. *)
EXTENDS UndoRing

CONSTANTS chA, chB   (* two characters *)

MCChars == {chA, chB}
MCOneChar == {chA}
MCClips == {<<chA, chB>>}
MCOneClip == {<<chA>>}
=============================================================================
