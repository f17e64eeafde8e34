--------------------------- MODULE MCSpecialLines ---------------------------
(* TLC's instance of SpecialLines: the lines of text are interchangeable.  *)
EXTENDS SpecialLines

Symmetry == Permutations(Lines)
=============================================================================
