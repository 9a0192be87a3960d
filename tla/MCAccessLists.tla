--------------------------- MODULE MCAccessLists ---------------------------
(* Two requests at once, two users. *)
EXTENDS AccessLists, TLC

Symmetry == Permutations(Admins) \cup Permutations(Users)
=============================================================================
