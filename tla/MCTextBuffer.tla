---------------------------- MODULE MCTextBuffer ----------------------------
EXTENDS TextBuffer

MCFiles == {<<>>, <<"m">>, <<" ", "m">>, <<"b", "\n", "m">>, <<"m", " ", "\n">>}
MCClips == {<<"b", "\n">>, <<"b">>}
=============================================================================
