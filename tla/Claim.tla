-------------------------------- MODULE Claim --------------------------------
(***************************************************************************)
(* Moving an account's assets: claim_anonymous_assets and                  *)
(* reattach_subscription of bl/billing.py over the subscription pointer of *)
(* the user rows.  A claim reads the rows it decides on one by one, then   *)
(* moves the balance and the pointer in two transactions.  Those two lock  *)
(* two user rows each, one after the other, so their locks are state here; *)
(* every other transaction locks one row and is atomic.                    *)
(***************************************************************************)
EXTENDS Wallet

CONSTANTS
    Subs,        \* subscriptions (rows appear when their checkout does)
    CycleHints,  \* hints_per_cycle of each (0: unlimited)
    Permanent,   \* accounts that have an email from the start
    Claims,      \* bound: calls of POST /me/claim, each runs once
    Rank,        \* the order of user ids
    MayLink,     \* anonymous accounts may get an email while claims run
    Paying,      \* the subscription each user has been paying for (or None)
    Revivals,    \* bound: late events that revive each subscription
    None

ASSUME ClaimAssumption ==
    /\ CycleHints \in [Subs -> Nat]
    /\ Permanent \subseteq Users
    /\ Rank \in [Users -> Nat]
    /\ \A u, v \in Users : Rank[u] = Rank[v] => u = v
    /\ MayLink \in BOOLEAN
    /\ None \notin Users \cup Subs \cup Claims
    /\ Paying \in [Users -> Subs \cup {None}]
    /\ \A u, v \in Users : Paying[u] # None /\ Paying[u] = Paying[v] => u = v
    /\ Revivals \in [Subs -> Nat]

VARIABLES
    hasEmail,    \* users.email IS NOT NULL
    pointer,     \* users.subscription_id (unique)
    sub,         \* status, uid it was bought under, whether its cycle is in, times it ended
    claim,       \* one record per claim
    lock         \* the claim that holds each user row

vars == <<wvars, hasEmail, pointer, sub, claim, lock>>

NewClaim == [pc |-> "new", prev |-> None, to |-> None, sub |-> None, rich |-> FALSE,
             theirs |-> None, from |-> None]

NoRow == [status |-> "none", payer |-> None, granted |-> FALSE, ended |-> 0]

\* A paying user is one whose plan has just been activated.
Init ==
    /\ WalletInit
    /\ hasEmail = [u \in Users |-> u \in Permanent]
    /\ pointer = Paying
    /\ sub = [s \in Subs |->
                IF \E u \in Users : Paying[u] = s
                THEN [NoRow EXCEPT !.status = "active", !.payer = CHOOSE u \in Users : Paying[u] = s]
                ELSE NoRow]
    /\ claim = [c \in Claims |-> NewClaim]
    /\ lock = [u \in Users |-> None]

At(c, label) == claim[c].pc = label
Running(c) == claim[c].pc \notin {"new", "done"}
Become(c, record) == claim' = [claim EXCEPT ![c] = record]
Goto(c, label) == claim' = [claim EXCEPT ![c].pc = label]

Live(s) == s # None /\ sub[s].status = "active"
Owner(s) == {u \in Users : pointer[u] = s}
Free(u) == lock[u] = None
Release(c) == lock' = [u \in Users |-> IF lock[u] = c THEN None ELSE lock[u]]

-----------------------------------------------------------------------------
(* claim_anonymous_assets *)

\* The caller is signed in as t and shows the token of account p; p = t is a no-op.
Arrive(c, p, t) ==
    /\ At(c, "new") /\ p # t
    /\ Become(c, [NewClaim EXCEPT !.pc = "prev", !.prev = p, !.to = t])
    /\ UNCHANGED <<wvars, hasEmail, pointer, sub, lock>>

\* Mutant: the donor is not looked at.
ReadPrev_AnyDonor(c) ==
    LET p == claim[c].prev IN
    /\ At(c, "prev")
    /\ Become(c, [claim[c] EXCEPT !.pc = "recipient", !.sub = pointer[p],
                                  !.rich = TotalHints(p) > 0])
    /\ UNCHANGED <<wvars, hasEmail, pointer, sub, lock>>

\* The donor's row: refused when it has an email.
ReadPrev(c) ==
    LET p == claim[c].prev IN
    /\ At(c, "prev")
    /\ IF hasEmail[p] THEN Goto(c, "done")
       ELSE Become(c, [claim[c] EXCEPT !.pc = "recipient", !.sub = pointer[p],
                                       !.rich = TotalHints(p) > 0])
    /\ UNCHANGED <<wvars, hasEmail, pointer, sub, lock>>

\* The recipient's row, and the way that follows from the donor's.
ReadRecipient(c) ==
    /\ At(c, "recipient")
    /\ \/ /\ claim[c].sub # None
          /\ Become(c, [claim[c] EXCEPT !.pc = "pays", !.theirs = pointer[claim[c].to]])
       \/ /\ claim[c].sub = None /\ claim[c].rich
          /\ Become(c, [claim[c] EXCEPT !.pc = "lockFirst", !.from = claim[c].prev])
       \/ claim[c].sub = None /\ ~claim[c].rich /\ Goto(c, "done")
    /\ UNCHANGED <<wvars, hasEmail, pointer, sub, lock>>

\* Mutant: the recipient's plan is not looked at.
CheckRecipient_Skipped(c) ==
    /\ At(c, "pays")
    /\ Goto(c, "owner")
    /\ UNCHANGED <<wvars, hasEmail, pointer, sub, lock>>

\* current_subscription of the recipient: refused when it is live.
CheckRecipient(c) ==
    /\ At(c, "pays")
    /\ Goto(c, IF Live(claim[c].theirs) THEN "done" ELSE "owner")
    /\ UNCHANGED <<wvars, hasEmail, pointer, sub, lock>>

\* reattach_subscription drains whoever points at the subscription by now.
ReadOwner(c) ==
    /\ At(c, "owner")
    /\ \/ Owner(claim[c].sub) = {} /\ Goto(c, "relinkTo")
       \/ \E u \in Owner(claim[c].sub) :
            Become(c, [claim[c] EXCEPT !.from = u,
                         !.pc = IF u = claim[c].to THEN "relinkFrom" ELSE "lockFirst"])
    /\ UNCHANGED <<wvars, hasEmail, pointer, sub, lock>>

-----------------------------------------------------------------------------
(* transfer_balance *)

First(c) == IF Rank[claim[c].from] < Rank[claim[c].to] THEN claim[c].from ELSE claim[c].to
Second(c) == IF Rank[claim[c].from] < Rank[claim[c].to] THEN claim[c].to ELSE claim[c].from

LockFirst(c) ==
    /\ At(c, "lockFirst") /\ Free(First(c))
    /\ lock' = [lock EXCEPT ![First(c)] = c]
    /\ Goto(c, "lockSecond")
    /\ UNCHANGED <<wvars, hasEmail, pointer, sub>>

\* Locks the second row, moves the balance and commits.
Transfer(c) ==
    /\ At(c, "lockSecond") /\ Free(Second(c))
    /\ TransferBalance(claim[c].from, claim[c].to)
    /\ Release(c)
    /\ Goto(c, IF claim[c].sub = None THEN "done" ELSE "relinkFrom")
    /\ UNCHANGED <<hasEmail, pointer, sub>>

-----------------------------------------------------------------------------
(* relink *)

RelinkFrom(c) ==
    /\ At(c, "relinkFrom") /\ Free(claim[c].from)
    /\ lock' = [lock EXCEPT ![claim[c].from] = c]
    /\ Goto(c, "relinkTo")
    /\ UNCHANGED <<wvars, hasEmail, pointer, sub>>

\* The old owner lets go, if it still holds this subscription; the new one takes it.
Repointed(c) ==
    [u \in Users |-> IF u = claim[c].to THEN claim[c].sub
                     ELSE IF u = claim[c].from /\ pointer[u] = claim[c].sub THEN None
                     ELSE pointer[u]]

\* Mutant: the pointer column is not unique.
RelinkTo_NotUnique(c) ==
    LET t == claim[c].to IN
    /\ At(c, "relinkTo") /\ (Free(t) \/ lock[t] = c)
    /\ pointer' = Repointed(c)
    /\ Release(c)
    /\ Goto(c, "done")
    /\ UNCHANGED <<wvars, hasEmail, sub>>

\* Locks the recipient and commits, unless a third user points at the
\* subscription by now: subscription_id is unique, the claim ends in a 500.
RelinkTo(c) ==
    LET t == claim[c].to IN
    /\ At(c, "relinkTo") /\ (Free(t) \/ lock[t] = c)
    /\ pointer' = IF \E u \in Users \ {t} : Repointed(c)[u] = claim[c].sub
                  THEN pointer ELSE Repointed(c)
    /\ Release(c)
    /\ Goto(c, "done")
    /\ UNCHANGED <<wvars, hasEmail, sub>>

-----------------------------------------------------------------------------

WaitsFor(c) ==
    IF At(c, "lockFirst") THEN lock[First(c)]
    ELSE IF At(c, "lockSecond") THEN lock[Second(c)]
    ELSE IF At(c, "relinkFrom") THEN lock[claim[c].from]
    ELSE IF At(c, "relinkTo") THEN lock[claim[c].to]
    ELSE None

\* The instance dies; Postgres rolls the open transaction back.
Crash(c) ==
    /\ Running(c)
    /\ Release(c) /\ Goto(c, "done")
    /\ UNCHANGED <<wvars, hasEmail, pointer, sub>>

\* Mutant: the locks of the victim are not given back.
DeadlockAbort_KeepsLocks(c) ==
    /\ \E d \in Claims \ {c} : WaitsFor(c) = d /\ WaitsFor(d) = c
    /\ Goto(c, "done")
    /\ UNCHANGED <<wvars, hasEmail, pointer, sub, lock>>

\* Postgres (external) breaks a cycle of waits by failing one of them.
DeadlockAbort(c) ==
    /\ \E d \in Claims \ {c} : WaitsFor(c) = d /\ WaitsFor(d) = c
    /\ Release(c) /\ Goto(c, "done")
    /\ UNCHANGED <<wvars, hasEmail, pointer, sub>>

Step(c) ==
    \/ ReadPrev(c) \/ ReadRecipient(c) \/ CheckRecipient(c) \/ ReadOwner(c)
    \/ LockFirst(c) \/ Transfer(c) \/ RelinkFrom(c) \/ RelinkTo(c) \/ DeadlockAbort(c)

-----------------------------------------------------------------------------
(* The rest of the system, as far as it touches these rows *)

\* The anonymous account is linked to an email (bl/auth.py).
Link(u) ==
    /\ MayLink /\ ~hasEmail[u] /\ Free(u)
    /\ hasEmail' = [hasEmail EXCEPT ![u] = TRUE]
    /\ UNCHANGED <<wvars, pointer, sub, claim, lock>>

\* create_for_user points the user at a new row, whatever it pointed at before.
Subscribe(u, s) ==
    /\ sub[s].status = "none" /\ Free(u)
    /\ sub' = [sub EXCEPT ![s] = [NoRow EXCEPT !.status = "pending", !.payer = u]]
    /\ pointer' = [pointer EXCEPT ![u] = s]
    /\ UNCHANGED <<wvars, hasEmail, claim, lock>>

\* _activate_subscription returns for an active row only: a late event revives a
\* canceled one, and its cycle is due again.
Activate(s) ==
    /\ \/ sub[s].status = "pending"
       \/ sub[s].status = "canceled" /\ sub[s].ended <= Revivals[s]
    /\ sub' = [sub EXCEPT ![s].status = "active", ![s].granted = FALSE]
    /\ UNCHANGED <<wvars, hasEmail, pointer, claim, lock>>

\* The cycle goes to the uid of the event, not to the row's owner.
GrantFirstCycle(s) ==
    /\ CycleHints[s] > 0   \* Ultimate grants no balance
    /\ sub[s].status # "pending" /\ sub[s].payer # None /\ ~sub[s].granted /\ Free(sub[s].payer)
    /\ SetSubscriptionHints(sub[s].payer, CycleHints[s])
    /\ sub' = [sub EXCEPT ![s].granted = TRUE]
    /\ UNCHANGED <<hasEmail, pointer, claim, lock>>

EndSubscription(s) ==
    /\ sub[s].status = "active"
    /\ sub' = [sub EXCEPT ![s].status = "canceled", ![s].ended = sub[s].ended + 1]
    /\ UNCHANGED <<wvars, hasEmail, pointer, claim, lock>>

Spend(u) == Free(u) /\ Consume(u) /\ UNCHANGED <<hasEmail, pointer, sub, claim, lock>>

Next ==
    \/ \E c \in Claims : \/ \E p, t \in Users : Arrive(c, p, t)
                         \/ Step(c) \/ Crash(c)
    \/ \E u \in Users : Link(u) \/ Spend(u) \/ \E s \in Subs : Subscribe(u, s)
    \/ \E s \in Subs : Activate(s) \/ GrantFirstCycle(s) \/ EndSubscription(s)

Spec == Init /\ [][Next]_vars

\* A claim that is not killed runs on, once the row it waits for is free.
\* (Strong: the row may be taken and given back by others in between.)
FairSpec == Spec /\ \A c \in Claims : SF_vars(Step(c))
-----------------------------------------------------------------------------
(* Properties *)

Labels == {"new", "prev", "recipient", "pays", "owner", "lockFirst", "lockSecond",
           "relinkFrom", "relinkTo", "done"}
ClaimRecord == [pc : Labels, prev : Users \cup {None}, to : Users \cup {None},
                sub : Subs \cup {None}, rich : BOOLEAN, theirs : Subs \cup {None},
                from : Users \cup {None}]
SubRecord == [status : {"none", "pending", "active", "canceled"},
              payer : Users \cup {None}, granted : BOOLEAN, ended : Nat]

ClaimTypeOK ==
    /\ WalletTypeOK
    /\ hasEmail \in [Users -> BOOLEAN]
    /\ pointer \in [Users -> Subs \cup {None}]
    /\ sub \in [Subs -> SubRecord]
    /\ claim \in [Claims -> ClaimRecord]
    /\ lock \in [Users -> Claims \cup {None}]

\* models/subscription.py finds the owner by reverse lookup: two claims of one
\* subscription, or a claim and a checkout, never leave it two owners.
OneOwner == \A u, v \in Users : pointer[u] # None /\ pointer[u] = pointer[v] => u = v

\* A lock belongs to a claim that is between its two rows, so a claim that ends,
\* in whatever way, blocks nobody.
LocksHeld ==
    \A u \in Users : lock[u] # None =>
        \/ At(lock[u], "lockSecond") /\ u = First(lock[u])
        \/ At(lock[u], "relinkTo") /\ u = claim[lock[u]].from

\* Claims end, deadlocks or not.
ClaimsEnd == \A c \in Claims : (Running(c) ~> At(c, "done"))

\* Claim c moves something in this step.
Drains(c) ==
    At(c, "lockSecond") /\ TransferBalance(claim[c].from, claim[c].to) /\ wvars' # wvars

\* Some claim has taken subscription s on for recipient u.
Brought(u, s) == \E d \in Claims : claim[d].to = u /\ claim[d].sub = s

\* claim_anonymous_assets: "a permanent account can therefore never be drained".
\* Two claims of one anonymous account drain the first one's recipient.
PermanentNeverDrained ==
    [][\A c \in Claims : Drains(c) => ~hasEmail[claim[c].from]]_vars

\* What does hold of it, whatever overlaps: a claim takes hints from an account
\* that was permanent all along only if it is not the one the caller showed the
\* token of, and another claim has brought it the subscription this one is after
\* (another one: a claim never drains its own recipient).
DrainedOnlyInChain ==
    [][\A c \in Claims : Drains(c) /\ claim[c].from \in Permanent
         => /\ claim[c].from \notin {claim[c].prev, claim[c].to}
            /\ Brought(claim[c].from, claim[c].sub)]_vars

\* claim_anonymous_assets: "we never overwrite or double up an account that is
\* already paying".  The recipient is looked at once, before the balance moves: a
\* plan that goes live after that, newly bought or revived by a late event, is
\* overwritten by the claim's last write.
PayingNeverOverwritten ==
    [][\A u \in Users :
         claim' # claim /\ Live(pointer[u]) => pointer'[u] \in {pointer[u], None}]_vars

\* The user's plan is the one of before the claims, live ever since, and no claim
\* has taken it on.
PaysAllAlong(u) ==
    /\ pointer[u] = Paying[u] /\ Live(pointer[u]) /\ sub[pointer[u]].ended = 0
    /\ ~Brought(u, Paying[u])

\* What does hold of it, whatever overlaps: no claim takes the plan of a user who
\* has been paying for it since before the claims began, if it has not ended at
\* any time since, and no claim has brought it back.
PaidAllAlongKept ==
    [][\A u \in Users :
         claim' # claim /\ PaysAllAlong(u) => pointer'[u] \in {pointer[u], None}]_vars
=============================================================================
