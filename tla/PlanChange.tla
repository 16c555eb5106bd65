----------------------------- MODULE PlanChange -----------------------------
(***************************************************************************)
(* POST /billing/change-plan and /billing/cancel (views/billing.py,        *)
(* bl/billing.py) beside the reads and drips of Reads.  A call works in    *)
(* separate steps on the user row it read on arrival: choose the           *)
(* direction, tell Paddle, rewrite the subscription row, set the bucket.   *)
(* Paddle is another machine: its answer may be a refusal, or lost after   *)
(* the change was made there.                                              *)
(***************************************************************************)
EXTENDS Reads

CONSTANTS
    Changes,     \* the calls
    Priced,      \* plans with an entry in paddle_price_ids
    PaddleModes  \* values of paddle.enabled to explore

ASSUME PlanChangeAssumption == Priced \subseteq Plans /\ PaddleModes \subseteq BOOLEAN

VARIABLES
    enabled,     \* paddle.enabled: an API key is configured
    change,      \* one record per call: where it is and what it holds
    paddle,      \* per user: the plan Paddle bills, and whether it will end
    ending,      \* cancel_at_period_end of each user's row
    past         \* history: who was rewritten, whose answers got lost or crossed,
                 \* and how much upgrades wrote into the ledger

planVars == <<enabled, change, paddle, ending, past>>
pvars == <<vars, planVars>>

NoCall == [pc |-> "idle", user |-> NoUser, held |-> 0, target |-> NoPlan, upgrade |-> FALSE]

PlanInit ==
    /\ Init
    /\ enabled \in PaddleModes
    /\ change = [c \in Changes |-> NoCall]
    /\ paddle = [u \in Users |-> [plan |-> InitialPlan[u], ending |-> FALSE]]
    /\ ending = [u \in Users |-> FALSE]
    /\ past = [changed |-> {}, doubt |-> {}, raised |-> [u \in Users |-> 0]]

-----------------------------------------------------------------------------
(* Both calls *)

Settled == {"idle", "answered", "refused", "failed", "crashed"}
On(c, label) == change[c].pc = label
Owner(c) == change[c].user
Step(c, record) == change' = [change EXCEPT ![c] = record]
Go(c, label) == Step(c, [change[c] EXCEPT !.pc = label])
Done(c, label) == Step(c, [NoCall EXCEPT !.pc = label, !.user = Owner(c)])

\* get_current_user reads the row, sub_hints with it, before the handler runs.
ArriveChange(c, u, p) ==
    /\ On(c, "idle")
    /\ Step(c, [NoCall EXCEPT !.pc = "decide", !.user = u, !.held = wallet[u]["sub"], !.target = p])
    /\ UNCHANGED <<vars, enabled, paddle, ending, past>>

ArriveCancel(c, u) ==
    /\ On(c, "idle")
    /\ Step(c, [NoCall EXCEPT !.pc = "find", !.user = u])
    /\ UNCHANGED <<vars, enabled, paddle, ending, past>>

\* The instance dies: what Paddle and the database took stays taken.
CrashChange(c) ==
    /\ change[c].pc \notin Settled
    /\ Done(c, "crashed")
    /\ past' = IF On(c, "rewrite") THEN [past EXCEPT !.doubt = @ \cup {Owner(c)}] ELSE past
    /\ UNCHANGED <<vars, enabled, paddle, ending>>

-----------------------------------------------------------------------------
(* POST /billing/change-plan *)

\* TIER_RANK: Ultimate above the token tiers, those by their allotment.
Outranks(p, q) == ~q.unlimited /\ (p.unlimited \/ p.perCycle > q.perCycle)

\* The view picks the direction from the row as it is now; 400 without a live one.
Decide(c) ==
    /\ On(c, "decide")
    /\ LET s == sub[Owner(c)] IN
         IF s.live
         THEN Step(c, [change[c] EXCEPT !.pc = "recheck",
                                        !.upgrade = Outranks(change[c].target, s.plan)])
         ELSE Done(c, "refused")
    /\ UNCHANGED <<vars, enabled, paddle, ending, past>>

HasPrice(p) == p \in Priced

\* upgrade_ / downgrade_subscription read the row once more.  Without an API key
\* Paddle is skipped; a plan without a price is a 400.
Recheck(c) ==
    /\ On(c, "recheck")
    /\ \/ ~sub[Owner(c)].live /\ Done(c, "refused")
       \/ sub[Owner(c)].live /\ ~enabled /\ Go(c, "rewrite")
       \/ sub[Owner(c)].live /\ enabled /\ HasPrice(change[c].target) /\ Go(c, "push")
       \/ sub[Owner(c)].live /\ enabled /\ ~HasPrice(change[c].target) /\ Done(c, "refused")
    /\ UNCHANGED <<vars, enabled, paddle, ending, past>>

\* Another call of this user has told Paddle and not written its row yet.
Crossed(c) == \E d \in Changes \ {c} : On(d, "rewrite") /\ Owner(d) = Owner(c)

\* Paddle bills the call's plan from now on (or from the next period).
Repriced(c) == [paddle EXCEPT ![Owner(c)].plan = change[c].target]

\* Mutant: the row is rewritten whatever Paddle answered.
PushToPaddle_Ignored(c) ==
    /\ On(c, "push")
    /\ \/ paddle' = Repriced(c)
       \/ UNCHANGED paddle
    /\ Go(c, "rewrite")
    /\ past' = IF Crossed(c) THEN [past EXCEPT !.doubt = @ \cup {Owner(c)}] ELSE past
    /\ UNCHANGED <<vars, enabled, ending>>

\* change_subscription_price: made and confirmed; refused (400); or made and the
\* answer lost in the 15 seconds of _request, which reads as a refusal.
PushToPaddle(c) ==
    /\ On(c, "push")
    /\ \/ /\ paddle' = Repriced(c)
          /\ Go(c, "rewrite")
          /\ past' = IF Crossed(c) THEN [past EXCEPT !.doubt = @ \cup {Owner(c)}] ELSE past
       \/ /\ Done(c, "refused")
          /\ UNCHANGED <<paddle, past>>
       \/ /\ paddle' = Repriced(c)
          /\ Done(c, "refused")
          /\ past' = [past EXCEPT !.doubt = @ \cup {Owner(c)}]
    /\ UNCHANGED <<vars, enabled, ending>>

\* Mutant: an upgrade to Ultimate sets a bucket as well.
RewritePlan_RaisesAny(c) ==
    /\ On(c, "rewrite")
    /\ sub' = [sub EXCEPT ![Owner(c)].plan = change[c].target]
    /\ ending' = [ending EXCEPT ![Owner(c)] = FALSE]
    /\ past' = [past EXCEPT !.changed = @ \cup {Owner(c)}]
    /\ Go(c, IF change[c].upgrade THEN "raise" ELSE "refetch")
    /\ UNCHANGED <<wvars, now, req, enabled, paddle>>

\* update_fields: the plan's columns, and no cancellation pending any more.  The
\* row is not asked whether it is still live.
RewritePlan(c) ==
    /\ On(c, "rewrite")
    /\ LET u == Owner(c)  p == change[c].target IN
         /\ sub' = [sub EXCEPT ![u].plan = p]
         /\ ending' = [ending EXCEPT ![u] = FALSE]
         /\ past' = [past EXCEPT !.changed = @ \cup {u}]
         /\ Go(c, IF change[c].upgrade /\ ~p.unlimited THEN "raise" ELSE "refetch")
    /\ UNCHANGED <<wvars, now, req, enabled, paddle>>

\* Mutant: the new allotment replaces whatever was left.
RaiseBucket_NoMax(c) ==
    /\ On(c, "raise")
    /\ LET u == Owner(c)  target == change[c].target.perCycle IN
         /\ SetSubscriptionHints(u, target)
         /\ past' = [past EXCEPT !.raised[u] = @ + target]
    /\ Go(c, "refetch")
    /\ UNCHANGED <<now, sub, req, enabled, paddle, ending>>

\* An upgrade to a token plan sets the bucket to max(user.sub_hints, allotment),
\* user being the row this call was given on arrival.
RaiseBucket(c) ==
    /\ On(c, "raise")
    /\ LET u == Owner(c)
           allotment == change[c].target.perCycle
           target == IF change[c].held > allotment THEN change[c].held ELSE allotment
       IN  /\ SetSubscriptionHints(u, target)
           /\ past' = [past EXCEPT !.raised[u] = @ + target]
    /\ Go(c, "refetch")
    /\ UNCHANGED <<now, sub, req, enabled, paddle, ending>>

\* The view reads the row it answers with and asserts it is live (500 if not).
Refetch(c) ==
    /\ On(c, "refetch")
    /\ Done(c, IF sub[Owner(c)].live THEN "answered" ELSE "failed")
    /\ UNCHANGED <<vars, enabled, paddle, ending, past>>

-----------------------------------------------------------------------------
(* POST /billing/cancel *)

Find(c) ==
    /\ On(c, "find")
    /\ \/ ~sub[Owner(c)].live /\ Done(c, "refused")
       \/ sub[Owner(c)].live /\ ~enabled /\ Go(c, "flag")
       \/ sub[Owner(c)].live /\ enabled /\ Go(c, "stop")
    /\ UNCHANGED <<vars, enabled, paddle, ending, past>>

\* Mutant: the row is flagged whatever Paddle answered.
CancelAtPaddle_Ignored(c) ==
    /\ On(c, "stop")
    /\ \/ paddle' = [paddle EXCEPT ![Owner(c)].ending = TRUE]
       \/ UNCHANGED paddle
    /\ Go(c, "flag")
    /\ UNCHANGED <<vars, enabled, ending, past>>

\* paddle.cancel_subscription, with the outcomes of PushToPaddle.
CancelAtPaddle(c) ==
    /\ On(c, "stop")
    /\ \/ paddle' = [paddle EXCEPT ![Owner(c)].ending = TRUE] /\ Go(c, "flag")
       \/ UNCHANGED paddle /\ Done(c, "refused")
       \/ paddle' = [paddle EXCEPT ![Owner(c)].ending = TRUE] /\ Done(c, "refused")
    /\ UNCHANGED <<vars, enabled, ending, past>>

FlagEnding(c) ==
    /\ On(c, "flag")
    /\ ending' = [ending EXCEPT ![Owner(c)] = TRUE]
    /\ Done(c, "answered")
    /\ UNCHANGED <<vars, enabled, paddle, past>>

-----------------------------------------------------------------------------

ChangeStep(c) ==
    \/ \E u \in Users : ArriveCancel(c, u) \/ \E p \in Plans : ArriveChange(c, u, p)
    \/ Decide(c) \/ Recheck(c) \/ PushToPaddle(c) \/ RewritePlan(c) \/ RaiseBucket(c)
    \/ Refetch(c) \/ Find(c) \/ CancelAtPaddle(c) \/ FlagEnding(c) \/ CrashChange(c)

\* Everything Reads does goes on meanwhile; its ChangePlan is refined above.
PlanNext ==
    \/ \E c \in Changes : ChangeStep(c)
    \/ /\ Next
       /\ \A u \in Users : sub'[u].plan = sub[u].plan
       /\ UNCHANGED planVars

PlanSpec == PlanInit /\ [][PlanNext]_pvars

-----------------------------------------------------------------------------
(* Properties *)

CallLabels ==
    Settled \cup {"decide", "recheck", "push", "rewrite", "raise", "refetch", "find", "stop", "flag"}

\* Types; a call under way knows its user, a change its plan; only an upgrade to a
\* token plan gets as far as setting a bucket.
PlanTypeOK ==
    /\ ReadsTypeOK
    /\ enabled \in BOOLEAN
    /\ change \in [Changes -> [pc : CallLabels, user : Users \cup {NoUser}, held : Nat,
                               target : Plans \cup {NoPlan}, upgrade : BOOLEAN]]
    /\ paddle \in [Users -> [plan : Plans \cup {NoPlan}, ending : BOOLEAN]]
    /\ ending \in [Users -> BOOLEAN]
    /\ past \in [changed : SUBSET Users, doubt : SUBSET Users, raised : [Users -> Nat]]
    /\ \A c \in Changes :
         /\ ~On(c, "idle") => Owner(c) \in Users
         /\ change[c].pc \in {"decide", "recheck", "push", "rewrite", "raise"}
              => change[c].target \in Plans
         /\ On(c, "raise") => change[c].upgrade /\ ~change[c].target.unlimited

\* What the app shows is what Paddle bills: once the calls of a user are over, the
\* row has the plan Paddle has.  _push_plan_change_to_paddle goes first and stops
\* the call when it fails.  Not so for a user whose call died between the two,
\* whose answer from Paddle got lost, or whose two calls crossed.
BilledAsShown ==
    \A u \in Users :
        enabled /\ u \notin past.doubt /\ (\A c \in Changes : Owner(c) = u => change[c].pc \in Settled)
            => paddle[u].plan = sub[u].plan

\* cancel_subscription "calls Paddle to actually stop billing, then mirrors the
\* flag": nobody is shown a cancellation that Paddle does not know of, however
\* cancellations, plan changes, refusals and crashes interleave.
CancelIsToldToPaddle ==
    \A u \in Users : enabled /\ ending[u] => paddle[u].ending

\* A paid month is dripped once, at no more than the largest allotment, and a month
\* after the paid ones never, whatever plan changes come between the steps of the
\* accrual; the buckets upgrades set are counted apart.  Reads neither overlap nor crash here (see accrual_overlap).
DripsOncePerMonth ==
    \A u \in Users :
        granted[u]["subscription_cycle"] - past.raised[u]
            <= FirstCycle(u) + LargestCycle * MonthsGone(u)

\* A subscriber's hints go only by being spent, whatever reads, drips, plan changes
\* and crashes come between each other, but for two ways the code has of taking
\* them: a drip clamps the bucket to the cap of a plan that was changed, and an
\* upgrade sets the bucket from a row that a drip has outdated.
SpentOnly(u) ==
    wallet'[u]["sub"] < wallet[u]["sub"]
        => drawn'[u]["sub"] = drawn[u]["sub"] + wallet[u]["sub"] - wallet'[u]["sub"]

ClampedAfterChange(u) ==
    u \in past.changed /\ \E r \in Requests : At(r, "grant") /\ req[r].user = u

RaisedFromStaleRow(u) ==
    \E c \in Changes : On(c, "raise") /\ Owner(c) = u /\ change[c].held < wallet[u]["sub"]

BalanceKept ==
    [][\A u \in Users : SpentOnly(u) \/ ClampedAfterChange(u) \/ RaisedFromStaleRow(u)]_pvars

\* downgrade_subscription: "we do NOT subtract hints - the user keeps their current
\* balance".  The first drip after it clamps the balance to the lower cap.
DowngradeKeepsBalance == [][\A u \in Users : SpentOnly(u) \/ RaisedFromStaleRow(u)]_pvars

\* upgrade_subscription "sets sub_hints to max(current, new_allotment)", and so
\* "never stacks": no more, and no less, than the balance there is.  The code takes
\* the balance from the row it was given before it asked Paddle.
UpgradeSetsMaximum ==
    [][\A c \in Changes : On(c, "raise") /\ On(c, "refetch")' =>
         LET current == wallet[Owner(c)]["sub"]
             allotment == change[c].target.perCycle
         IN  wallet'[Owner(c)]["sub"] = IF current > allotment THEN current ELSE allotment]_pvars
=============================================================================
