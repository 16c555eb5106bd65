---------------------------- MODULE MCPublishing ----------------------------
(* Instances of Publishing: a row or two, and the slugs they take turns in. *)
EXTENDS Publishing, TLC

Sent(statuses, times, noindex) ==
    [slug : Slugs, status : statuses, at : times, noindex : noindex]

\* A draft, a post for now, a post for later.
UsualUpserts ==
    Sent({"draft"}, {NoTime}, {FALSE}) \cup Sent({"published"}, {NoTime}, {FALSE})
      \cup Sent({"scheduled"}, {MaxTime}, {FALSE})

\* One field at a time.
Leave == [slug |-> None, status |-> None, at |-> NoTime, noindex |-> "same"]
UsualPatches ==
    {[Leave EXCEPT !.slug = s] : s \in Slugs}
      \cup {[Leave EXCEPT !.status = "published"]}

OldFiles == [slug : Slugs, date : {NoTime}, noindex : {FALSE}]

AnyNames == Permutations(Posts) \cup Permutations(Slugs) \cup Permutations(Editors)
=============================================================================
