------------------------------ MODULE MCSignup ------------------------------
(* Instances of Signup: one browser that starts over. *)
EXTENDS Signup, TLC

AnyNames ==
    Permutations(Users) \cup Permutations(Emails) \cup Permutations(Calls)
=============================================================================
