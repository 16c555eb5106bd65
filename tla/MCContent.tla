----------------------------- MODULE MCContent -----------------------------
(* Content alone, with room for renames that cross: see the README. *)
EXTENDS Content, TLC

AnyNames == Permutations(Posts) \cup Permutations(Slugs) \cup Permutations(Editors)
=============================================================================
