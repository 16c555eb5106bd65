----------------------------- MODULE MCArchive -----------------------------
(* Instances of Archive: two accounts, two devices and one match. *)
EXTENDS Archive, TLC

AnyNames == Permutations(Users) \cup Permutations(Devices) \cup Permutations(Calls)
=============================================================================
