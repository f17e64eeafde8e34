----------------------------- MODULE MCUndoHistory -----------------------------
(* Small instances of UndoHistory for TLC. *)
EXTENDS UndoHistory

CONSTANTS chA, chB   (* two characters *)

MCChars == {chA, chB}
MCOneChar == {chA}
MCClips == {<<chA, chB>>}
MCOneClip == {<<chA>>}
=============================================================================
