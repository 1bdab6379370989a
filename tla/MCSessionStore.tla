--------------------------- MODULE MCSessionStore --------------------------
(* Two sessions, so that an operation on one can hurt the other.            *)
EXTENDS SessionStore, TLC

CONSTANTS s1, s2

MCIds == {s1, s2}
Symmetry == Permutations(MCIds)
=============================================================================
