------------------------------- MODULE Reads -------------------------------
(***************************************************************************)
(* A paid read, from bl/reads.py and bl/hints.py: accrue what a yearly     *)
(* plan has earned, check that the read can be paid, call the model, spend *)
(* one hint.  Every step is a transaction of its own, so requests of one   *)
(* user interleave between any two of them and each works on rows it read  *)
(* earlier.  A process may die at any step.                                *)
(*                                                                         *)
(* A month is MonthDays days here; the calendar arithmetic of              *)
(* _add_one_month is not what these properties tell apart.                 *)
(***************************************************************************)
EXTENDS Wallet

CONSTANTS
    Requests,    \* calls of the read endpoints and of POST /hints/consume
    Plans,       \* what subscriptions can be: records in PlanRecord
    InitialPlan, \* the plan each user activated on day 1 (NoPlan: none)
    NoPlan, NoUser,
    Overlapping, \* requests may overlap (FALSE: one at a time)
    MayCrash,    \* a process may die between two steps
    RolloverCapCycles, \* rollover_cap_cycles: the cap in monthly allotments
    MonthDays,   \* days of a month
    YearMonths,  \* months a yearly plan is paid for: 12 in the code
    Packs,       \* sizes of the top-up packs
    LastDay,     \* bound: the clock stops here
    MaxTopUp     \* bound: top-up hints credited to one user

PlanRecord == [perCycle : Nat, yearly : BOOLEAN, unlimited : BOOLEAN]

\* _cap_for
Cap(plan) == IF plan.unlimited THEN 0 ELSE plan.perCycle * RolloverCapCycles

ASSUME ReadsAssumption ==
    /\ IsFiniteSet(Requests)
    /\ Plans \subseteq PlanRecord
    /\ \A p \in Plans : p.unlimited <=> p.perCycle = 0
    /\ NoPlan \notin Plans /\ NoUser \notin Users
    /\ InitialPlan \in [Users -> Plans \cup {NoPlan}]
    /\ RolloverCapCycles \in Nat \ {0}
    /\ MonthDays \in Nat \ {0} /\ YearMonths \in Nat \ {0} /\ LastDay \in Nat \ {0} /\ MaxTopUp \in Nat
    /\ Packs \subseteq Nat
    /\ 1..LastDay \subseteq Days
    /\ Overlapping \in BOOLEAN /\ MayCrash \in BOOLEAN

VARIABLES
    now,         \* today, as utcnow() gives it
    sub,         \* the subscription row each user points at
    req          \* one record per request: where it is and what it holds

vars == <<wvars, now, sub, req>>

Months(plan) == IF plan.yearly THEN YearMonths ELSE 1

\* Rows as they stand right after _activate_subscription on day 1: the first
\* cycle is in the bucket and in the ledger.
Activated(plan) ==
    [live |-> TRUE, plan |-> plan, paidUntil |-> 1 + Months(plan) * MonthDays, accrued |-> 1]

NoSub == [live |-> FALSE, plan |-> NoPlan, paidUntil |-> 0, accrued |-> 0]

FirstCycle(u) == IF InitialPlan[u] = NoPlan THEN 0 ELSE InitialPlan[u].perCycle

\* What a request holds: the user's row as read at some earlier moment, the drip
\* it is about to credit, the way it will pay, the day it stamped and was charged.
NoRow == [total |-> 0, day |-> NoDay, used |-> 0]
NoDrip == [amount |-> 0, cap |-> 0, cursor |-> 0]
Idle == [pc |-> "idle", user |-> NoUser, row |-> NoRow, owed |-> NoDrip,
         mode |-> "balance", today |-> NoDay, chargedOn |-> NoDay]

Init ==
    /\ wallet = [u \in Users |-> [b \in Buckets |->
                    IF b = "free" THEN Signup[u] ELSE IF b = "sub" THEN FirstCycle(u) ELSE 0]]
    /\ fairUse = [u \in Users |-> [day |-> NoDay, used |-> 0]]
    /\ drawn = [u \in Users |-> [b \in Buckets |-> 0]]
    /\ servedOn = [u \in Users |-> [d \in Days |-> 0]]
    /\ granted = [u \in Users |-> [s \in GrantSources |->
                    IF s = "subscription_cycle" THEN FirstCycle(u) ELSE 0]]
    /\ now = 1
    /\ sub = [u \in Users |->
                IF InitialPlan[u] = NoPlan THEN NoSub ELSE Activated(InitialPlan[u])]
    /\ req = [r \in Requests |-> Idle]

-----------------------------------------------------------------------------
(* Steps of a request *)

Finished == {"idle", "answered", "refused", "failed", "crashed", "lost"}
At(r, label) == req[r].pc = label
InFlight(r) == req[r].pc \notin Finished
Become(r, record) == req' = [req EXCEPT ![r] = record]
Goto(r, label) == Become(r, [req[r] EXCEPT !.pc = label])
End(r, label) == Become(r, [Idle EXCEPT !.pc = label, !.user = req[r].user])

RowOf(u) == [total |-> TotalHints(u), day |-> fairUse[u].day, used |-> fairUse[u].used]

MayArrive(r) == At(r, "idle") /\ (Overlapping \/ \A q \in Requests : ~InFlight(q))

\* get_current_user: the row is read before the handler runs.
Arrive(r, u) ==
    /\ MayArrive(r)
    /\ Become(r, [Idle EXCEPT !.pc = "accrue", !.user = u, !.row = RowOf(u)])
    /\ UNCHANGED <<wvars, now, sub>>

\* Nothing is earned past today, nor past what is paid for.
Horizon(s) == IF now < s.paidUntil THEN now ELSE s.paidUntil

\* Mutant: the plan goes on dripping after its paid year.
CyclesDue_PastPaid(s) == IF now < s.accrued THEN 0 ELSE (now - s.accrued) \div MonthDays

\* Whole months between the last accrual and the horizon, both ends counted.
CyclesDue(s) ==
    IF Horizon(s) < s.accrued THEN 0 ELSE (Horizon(s) - s.accrued) \div MonthDays

Drips(s) == s.live /\ ~s.plan.unlimited /\ s.plan.yearly

\* accrue_due reads the subscription and counts the cycles it owes.
ReadSubscription(r) ==
    /\ At(r, "accrue")
    /\ LET s == sub[req[r].user] IN
         IF Drips(s) /\ CyclesDue(s) > 0
         THEN Become(r, [req[r] EXCEPT !.pc = "grant",
                !.owed = [amount |-> CyclesDue(s) * s.plan.perCycle, cap |-> Cap(s.plan),
                          cursor |-> s.accrued + CyclesDue(s) * MonthDays]])
         ELSE Goto(r, "check")
    /\ UNCHANGED <<wvars, now, sub>>

\* First transaction of the accrual: the hints, under the user's row lock.  It
\* hands back the row it wrote.
GrantDue(r) ==
    /\ At(r, "grant")
    /\ LET u == req[r].user  owed == req[r].owed  held == wallet[u]["sub"] IN
         /\ GrantSubscriptionHints(u, owed.amount, owed.cap)
         /\ Become(r, [req[r] EXCEPT !.pc = "advance", !.row =
              [RowOf(u) EXCEPT !.total = @ - held + Rollover(held, owed.amount, owed.cap)]])
    /\ UNCHANGED <<now, sub>>

\* Mutant: the accrual date is not written back.
AdvanceAccrual_Forgotten(r) ==
    /\ At(r, "advance")
    /\ Become(r, [req[r] EXCEPT !.pc = "check", !.owed = NoDrip])
    /\ UNCHANGED <<wvars, now, sub>>

\* Second transaction of the accrual: last_accrued_at := cursor.
AdvanceAccrual(r) ==
    /\ At(r, "advance")
    /\ sub' = [sub EXCEPT ![req[r].user].accrued = req[r].owed.cursor]
    /\ Become(r, [req[r] EXCEPT !.pc = "check", !.owed = NoDrip])
    /\ UNCHANGED <<wvars, now>>

Unlimited(u) == sub[u].live /\ sub[u].plan.unlimited

\* precheck: 429 / 402 from the row the request holds, or the mode to spend in.
Precheck(r) ==
    /\ At(r, "check")
    /\ LET u    == req[r].user
           row  == req[r].row
           used == IF row.day = now THEN row.used ELSE 0
           payable == IF Unlimited(u) THEN used < DailyLimit ELSE row.total > 0
       IN  IF payable
           THEN Become(r, [req[r] EXCEPT !.pc = "model", !.row = NoRow,
                             !.mode = IF Unlimited(u) THEN "unlimited" ELSE "balance"])
           ELSE End(r, "refused")
    /\ UNCHANGED <<wvars, now, sub>>

\* The Gemini call answers, or fails (502) and nothing is charged.
ModelAnswers(r) ==
    /\ At(r, "model")
    /\ Goto(r, IF req[r].mode = "unlimited" THEN "stamp" ELSE "charge")
    /\ UNCHANGED <<wvars, now, sub>>

ModelFails(r) ==
    /\ At(r, "model")
    /\ End(r, "failed")
    /\ UNCHANGED <<wvars, now, sub>>

\* POST /hints/consume spends without a model call.
ArriveConsume(r, u) ==
    /\ MayArrive(r)
    /\ Become(r, [Idle EXCEPT !.pc = "charge", !.user = u])
    /\ UNCHANGED <<wvars, now, sub>>

\* Mutant: trusts the precheck, an empty balance is let through.
ChargeBalance_Unchecked(r) ==
    /\ At(r, "charge") /\ req[r].mode = "balance"
    /\ \/ Consume(req[r].user)
       \/ OutOfHints(req[r].user) /\ UNCHANGED wvars
    /\ Goto(r, "charged")
    /\ UNCHANGED <<now, sub>>

\* consume: one hint, or 402 when other requests emptied the balance meanwhile.
ChargeBalance(r) ==
    /\ At(r, "charge") /\ req[r].mode = "balance"
    /\ \/ Consume(req[r].user) /\ Goto(r, "charged")
       \/ OutOfHints(req[r].user) /\ End(r, "refused") /\ UNCHANGED wvars
    /\ UNCHANGED <<now, sub>>

\* consume_unlimited reads the day first and waits for the row lock after it.
StampDay(r) ==
    /\ At(r, "stamp")
    /\ Become(r, [req[r] EXCEPT !.pc = "charge", !.today = now])
    /\ UNCHANGED <<wvars, now, sub>>

ChargeUnlimited(r) ==
    /\ At(r, "charge") /\ req[r].mode = "unlimited"
    /\ LET u == req[r].user  today == req[r].today IN
         \/ /\ ConsumeUnlimited(u, today)
            /\ Become(r, [req[r] EXCEPT !.pc = "charged", !.chargedOn = now])
         \/ UsedOn(u, today) >= DailyLimit /\ End(r, "refused") /\ UNCHANGED wvars
    /\ UNCHANGED <<now, sub>>

Respond(r) ==
    /\ At(r, "charged")
    /\ Goto(r, "answered")
    /\ UNCHANGED <<wvars, now, sub>>

\* The instance dies: what was committed stays, the client gets no answer.
Crash(r) ==
    /\ MayCrash /\ InFlight(r)
    /\ IF At(r, "charged") THEN Goto(r, "lost") ELSE End(r, "crashed")
    /\ UNCHANGED <<wvars, now, sub>>

-----------------------------------------------------------------------------
(* The rest of the system, as far as it touches these rows *)

Tick == now < LastDay /\ now' = now + 1 /\ UNCHANGED <<wvars, sub, req>>

\* grant_purchase credits a pack.
TopUp(u) ==
    /\ \E n \in Packs : granted[u]["one_time"] + n <= MaxTopUp /\ AddTopupHints(u, n)
    /\ UNCHANGED <<now, sub, req>>

\* upgrade_subscription / downgrade_subscription rewrite the plan's columns.
ChangePlan(u, p) ==
    /\ sub[u].live /\ sub[u].plan # p
    /\ sub' = [sub EXCEPT ![u].plan = p]
    /\ UNCHANGED <<wvars, now, req>>

\* cancel_subscription_from_webhook
EndSubscription(u) ==
    /\ sub[u].live
    /\ sub' = [sub EXCEPT ![u].live = FALSE]
    /\ UNCHANGED <<wvars, now, req>>

Next ==
    \/ \E r \in Requests :
         \/ \E u \in Users : Arrive(r, u) \/ ArriveConsume(r, u)
         \/ ReadSubscription(r) \/ GrantDue(r) \/ AdvanceAccrual(r) \/ Precheck(r)
         \/ ModelAnswers(r) \/ ModelFails(r)
         \/ ChargeBalance(r) \/ StampDay(r) \/ ChargeUnlimited(r) \/ Respond(r)
         \/ Crash(r)
    \/ Tick
    \/ \E u \in Users : TopUp(u) \/ EndSubscription(u) \/ \E p \in Plans : ChangePlan(u, p)

Spec == Init /\ [][Next]_vars
-----------------------------------------------------------------------------
(* Properties *)

Labels == Finished \cup {"accrue", "grant", "advance", "check", "model", "stamp", "charge", "charged"}
Rows == [total : Nat, day : Nat, used : Nat]
OwedDrips == [amount : Nat, cap : Nat, cursor : Nat]
Request ==
    [pc : Labels, user : Users \cup {NoUser}, row : Rows, owed : OwedDrips,
     mode : {"balance", "unlimited"}, today : 0..LastDay, chargedOn : 0..LastDay]

\* Types; a request under way belongs to a user, a stamped one knows its day.
ReadsTypeOK ==
    /\ WalletTypeOK
    /\ now \in 1..LastDay
    /\ sub \in [Users -> [live : BOOLEAN, plan : Plans \cup {NoPlan}, paidUntil : Nat, accrued : Nat]]
    /\ \A u \in Users : sub[u].live => sub[u].plan \in Plans
    /\ req \in [Requests -> Request]
    /\ \A r \in Requests : ~At(r, "idle") => req[r].user \in Users
    /\ \A r \in Requests : At(r, "charge") /\ req[r].mode = "unlimited" => req[r].today \in 1..now

Paid == {"charged", "answered", "lost"}
Served(u) == SumFunctionOnSet(servedOn[u], Days)

\* bl/reads.py spends one hint per successful generation: the consumption rows
\* of a user are exactly the requests that got past their charge, so no answer
\* leaves unpaid, and a failed, refused or crashed request cost nothing.
OneChargePerRead ==
    \A u \in Users :
        Drawn(u) + Served(u) = Cardinality({r \in Requests : req[r].user = u /\ req[r].pc \in Paid})

\* The rollover cap bounds what a subscription can pile up, even when several
\* requests credit the same month and while plans change under them.
SubBucketBounded ==
    \A u \in Users :
        wallet[u]["sub"] = 0 \/ \E p \in Plans : wallet[u]["sub"] <= Cap(p)

\* No accrual runs ahead of the clock or of what is paid for, whatever stale
\* subscription row the request computed it from.
AccruedWithinPaid ==
    \A u \in Users : sub[u].accrued <= now /\ sub[u].accrued <= sub[u].paidUntil

\* The daily fair-use limit of consume_unlimited, as long as no charge is delayed
\* past midnight: one that is writes the old day back, and the next charge of the
\* new day starts to count from 0.
ChargedLate(u) ==
    \E r \in Requests :
        req[r].user = u /\ req[r].pc \in Paid /\ req[r].chargedOn # req[r].today

FairUseUnlessLate ==
    \A u \in Users : ~ChargedLate(u) => \A d \in Days : servedOn[u][d] <= DailyLimit

\* A month is dripped once: after the first cycle, at most one allotment per
\* month gone by, and none for a month after the paid ones.  Holds while requests
\* neither overlap nor crash; accrue_due claims it for re-runs in general.
LargestCycle == CHOOSE n \in {p.perCycle : p \in Plans} : \A p \in Plans : p.perCycle <= n

MonthsGone(u) == IF InitialPlan[u] = NoPlan THEN 0 ELSE (Horizon(sub[u]) - 1) \div MonthDays

DripOncePerMonth ==
    \A u \in Users :
        granted[u]["subscription_cycle"] <= FirstCycle(u) + LargestCycle * MonthsGone(u)

\* "Yearly plans drip that same monthly amount across the paid year" (bl/plans.py):
\* as many allotments as months are paid for.  The code credits one more, for the
\* first is granted on activation and the last month end is counted as well.
AllotmentPerPaidMonth ==
    \A u \in Users : InitialPlan[u] # NoPlan =>
        granted[u]["subscription_cycle"] <= LargestCycle * Months(InitialPlan[u])
=============================================================================
