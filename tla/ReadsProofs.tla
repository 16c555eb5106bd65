---------------------------- MODULE ReadsProofs ----------------------------
(***************************************************************************)
(* The paid read, for any users, plans and number of overlapping requests, *)
(* on its own (Spec of Reads) and beside plan changes and cancellations    *)
(* (PlanSpec of PlanChange, in the second half).                           *)
(* First: every step of a request is a transaction of the store or leaves  *)
(* it alone, so what WalletProofs shows of the transactions holds here.    *)
(***************************************************************************)
EXTENDS PlanChange, WalletProofs

USE ReadsAssumption DEF PlanRecord, NoDay, Finished, Labels

\* Cap and the count of due cycles are natural numbers.
LEMMA CapNat ==
  ASSUME NEW p \in Plans
  PROVE  Cap(p) \in Nat
BY DEF Cap

\* Whole division stays in the natural numbers and under what it divides.
LEMMA DivNat ==
  ASSUME NEW a \in Nat, NEW b \in Nat \ {0}
  PROVE  a \div b \in Nat /\ (a \div b) * b <= a
OBVIOUS

\* The cycles found due reach neither past the clock nor past what is paid.
LEMMA CyclesDueNat ==
  ASSUME now \in Nat, NEW s, s.paidUntil \in Nat, s.accrued \in Nat
  PROVE  /\ CyclesDue(s) \in Nat
         /\ CyclesDue(s) > 0 => /\ s.accrued + CyclesDue(s) * MonthDays \in Nat
                                /\ s.accrued + CyclesDue(s) * MonthDays <= now
                                /\ s.accrued + CyclesDue(s) * MonthDays <= s.paidUntil
<1> DEFINE horizon == Horizon(s)
<1>0. horizon \in Nat /\ horizon <= now /\ horizon <= s.paidUntil
  BY DEF Horizon
<1>1. CASE horizon < s.accrued
  BY <1>1 DEF CyclesDue
<1>2. CASE ~(horizon < s.accrued)
  <2>1. horizon - s.accrued \in Nat
    BY <1>0, <1>2
  <2>2. CyclesDue(s) = (horizon - s.accrued) \div MonthDays
    BY <1>2 DEF CyclesDue
  <2>3. CyclesDue(s) \in Nat /\ CyclesDue(s) * MonthDays <= horizon - s.accrued
    BY <2>1, <2>2, DivNat
  <2>4. CyclesDue(s) * MonthDays \in Nat
    BY <2>3
  <2> HIDE DEF horizon
  <2> QED BY <1>0, <2>1, <2>3, <2>4
<1> QED BY <1>1, <1>2

-----------------------------------------------------------------------------
(* Types of the flow's own state *)

\* The part of ReadsTypeOK that is not the store's.
FlowTypeOK ==
    /\ now \in 1..LastDay
    /\ sub \in [Users -> [live : BOOLEAN, plan : Plans \cup {NoPlan}, paidUntil : Nat, accrued : Nat]]
    /\ \A u \in Users : sub[u].live => sub[u].plan \in Plans
    /\ req \in [Requests -> Request]
    /\ \A r \in Requests : ~At(r, "idle") => req[r].user \in Users
    /\ \A r \in Requests : At(r, "charge") /\ req[r].mode = "unlimited" => req[r].today \in 1..now

\* The blank record is typed.
LEMMA IdleType ==
  /\ NoRow \in Rows /\ NoDrip \in OwedDrips
  /\ Idle \in Request
  /\ Idle.mode = "balance"
<1>1. NoRow \in Rows /\ NoDrip \in OwedDrips
  BY DEF NoRow, NoDrip, Rows, OwedDrips
<1> QED BY <1>1 DEF Idle, Request

\* A request moves on with a typed record, and everything else stays typed.
LEMMA BecomeType ==
  ASSUME FlowTypeOK, UNCHANGED <<now, sub>>,
         NEW r \in Requests, NEW x \in Request, Become(r, x),
         x.pc # "idle" => x.user \in Users,
         x.pc = "charge" /\ x.mode = "unlimited" => x.today \in 1..now
  PROVE  FlowTypeOK'
BY DEF FlowTypeOK, Become, At

\* Moving on under another label keeps the user of a request under way.
LEMMA GotoType ==
  ASSUME FlowTypeOK, UNCHANGED <<now, sub>>, NEW r \in Requests, ~At(r, "idle"),
         NEW l \in Labels, Goto(r, l),
         l = "charge" => req[r].mode = "balance"
  PROVE  FlowTypeOK'
<1> DEFINE x == [req[r] EXCEPT !.pc = l]
<1>1. x \in Request /\ x.user \in Users /\ x.pc = l /\ x.mode = req[r].mode
  BY DEF FlowTypeOK, Request, At
<1>2. Become(r, x)
  BY DEF Goto
<1> HIDE DEF x
<1> QED BY <1>1, <1>2, BecomeType

\* Ending resets what a request held.
LEMMA EndType ==
  ASSUME FlowTypeOK, UNCHANGED <<now, sub>>, NEW r \in Requests, ~At(r, "idle"),
         NEW l \in Finished, End(r, l)
  PROVE  FlowTypeOK'
<1> DEFINE x == [Idle EXCEPT !.pc = l, !.user = req[r].user]
<1>1. x \in Request /\ x.user \in Users /\ x.pc = l /\ x.mode = "balance"
  BY IdleType DEF FlowTypeOK, Request, At
<1>2. Become(r, x)
  BY DEF End
<1> HIDE DEF x
<1> QED BY <1>1, <1>2, BecomeType

\* The row a request copies is typed when the store is.
LEMMA RowType ==
  ASSUME WalletTypeOK, NEW u \in Users
  PROVE  RowOf(u) \in Rows
BY DEF WalletTypeOK, RowOf, TotalHints, Buckets, Rows

\* Arriving, at either endpoint.
LEMMA ArriveType ==
  ASSUME WalletTypeOK, FlowTypeOK, NEW r \in Requests, NEW u \in Users,
         Arrive(r, u) \/ ArriveConsume(r, u)
  PROVE  FlowTypeOK'
<1>1. CASE Arrive(r, u)
  <2> DEFINE x == [Idle EXCEPT !.pc = "accrue", !.user = u, !.row = RowOf(u)]
  <2>1. x \in Request /\ x.user \in Users /\ x.pc = "accrue"
    BY RowType, IdleType DEF Request
  <2>2. Become(r, x) /\ UNCHANGED <<now, sub>>
    BY <1>1 DEF Arrive
  <2> HIDE DEF x
  <2> QED BY <2>1, <2>2, BecomeType
<1>2. CASE ArriveConsume(r, u)
  <2> DEFINE x == [Idle EXCEPT !.pc = "charge", !.user = u]
  <2>1. x \in Request /\ x.user \in Users /\ x.mode = "balance"
    BY IdleType DEF Request
  <2>2. Become(r, x) /\ UNCHANGED <<now, sub>>
    BY <1>2 DEF ArriveConsume
  <2> HIDE DEF x
  <2> QED BY <2>1, <2>2, BecomeType
<1> QED BY <1>1, <1>2

\* The accrual's three steps.
LEMMA AccrueType ==
  ASSUME WalletTypeOK, FlowTypeOK, NEW r \in Requests,
         ReadSubscription(r) \/ GrantDue(r) \/ AdvanceAccrual(r)
  PROVE  FlowTypeOK'
<1>1. CASE ReadSubscription(r)
  <2> DEFINE s == sub[req[r].user]
             owed == [amount |-> CyclesDue(s) * s.plan.perCycle, cap |-> Cap(s.plan),
                      cursor |-> s.accrued + CyclesDue(s) * MonthDays]
             x == [req[r] EXCEPT !.pc = "grant", !.owed = owed]
  <2>1. At(r, "accrue") /\ ~At(r, "idle") /\ req[r].user \in Users /\ UNCHANGED <<now, sub>>
    BY <1>1 DEF ReadSubscription, FlowTypeOK, At
  <2>2. CASE Drips(s) /\ CyclesDue(s) > 0
    <3>1. now \in Nat /\ s.paidUntil \in Nat /\ s.accrued \in Nat /\ s.plan \in Plans
      BY <2>1, <2>2 DEF FlowTypeOK, Drips
    <3>2. owed.amount \in Nat /\ owed.cap \in Nat /\ owed.cursor \in Nat
      <4>1. CyclesDue(s) \in Nat /\ s.plan.perCycle \in Nat
        BY <3>1, CyclesDueNat
      <4>2. CyclesDue(s) * s.plan.perCycle \in Nat
        BY <4>1
      <4> QED BY <2>2, <3>1, <4>2, CyclesDueNat, CapNat
    <3> HIDE DEF s
    <3>3. owed \in OwedDrips
      BY <3>2 DEF OwedDrips
    <3> HIDE DEF owed
    <3>4. x \in Request /\ x.user \in Users /\ x.pc = "grant"
      <4>1. req[r] \in Request
        BY DEF FlowTypeOK
      <4> QED BY <2>1, <3>3, <4>1 DEF Request
    <3>5. Become(r, x)
      BY <1>1, <2>2 DEF ReadSubscription, s, owed
    <3> HIDE DEF x
    <3> QED BY <2>1, <3>4, <3>5, BecomeType
  <2>3. CASE ~(Drips(s) /\ CyclesDue(s) > 0)
    <3>1. Goto(r, "check")
      BY <1>1, <2>3 DEF ReadSubscription
    <3> QED BY <2>1, <3>1, GotoType
  <2> QED BY <2>2, <2>3
<1>2. CASE GrantDue(r)
  <2> DEFINE u == req[r].user
             row == [RowOf(u) EXCEPT !.total = @ - wallet[u]["sub"]
                                  + Rollover(wallet[u]["sub"], req[r].owed.amount, req[r].owed.cap)]
             x == [req[r] EXCEPT !.pc = "advance", !.row = row]
  <2>1. At(r, "grant") /\ u \in Users /\ UNCHANGED <<now, sub>>
    BY <1>2 DEF GrantDue, FlowTypeOK, At
  <2>2. /\ wallet[u]["free"] \in Nat /\ wallet[u]["sub"] \in Nat /\ wallet[u]["paid"] \in Nat
        /\ RowOf(u) \in Rows
        /\ RowOf(u).total = TotalHints(u)
    BY <2>1, RowType DEF WalletTypeOK, Buckets, RowOf
  <2>3. req[r].owed.amount \in Nat /\ req[r].owed.cap \in Nat
    BY DEF FlowTypeOK, Request, OwedDrips
  <2>4. Rollover(wallet[u]["sub"], req[r].owed.amount, req[r].owed.cap) \in Nat
    BY <2>2, <2>3, RolloverBound
  <2>5. row \in Rows
    BY <2>2, <2>4 DEF TotalHints, Rows
  <2>6. Become(r, x)
    BY <1>2 DEF GrantDue
  <2> HIDE DEF row
  <2>7. x \in Request /\ x.user \in Users /\ x.pc = "advance"
    <3>1. req[r] \in Request
      BY DEF FlowTypeOK
    <3> QED BY <2>1, <2>5, <3>1 DEF Request
  <2> HIDE DEF x
  <2> QED BY <2>1, <2>6, <2>7, BecomeType
<1>3. CASE AdvanceAccrual(r)
  <2>1. req[r].user \in Users /\ req[r].owed.cursor \in Nat
    BY <1>3 DEF AdvanceAccrual, FlowTypeOK, Request, OwedDrips, At
  <2> DEFINE x == [req[r] EXCEPT !.pc = "check", !.owed = NoDrip]
  <2>2. x \in Request /\ x.user \in Users /\ x.pc = "check"
    BY <2>1, IdleType DEF FlowTypeOK, Request
  <2>3. Become(r, x) /\ now' = now /\ sub' = [sub EXCEPT ![req[r].user].accrued = req[r].owed.cursor]
    BY <1>3 DEF AdvanceAccrual
  <2> HIDE DEF x
  <2> QED BY <2>1, <2>2, <2>3 DEF FlowTypeOK, Become, At
<1> QED BY <1>1, <1>2, <1>3

\* From the precheck to the response.
LEMMA SpendType ==
  ASSUME WalletTypeOK, FlowTypeOK, NEW r \in Requests,
         \/ Precheck(r) \/ ModelAnswers(r) \/ ModelFails(r) \/ ChargeBalance(r)
         \/ StampDay(r) \/ ChargeUnlimited(r) \/ Respond(r) \/ Crash(r)
  PROVE  FlowTypeOK'
<1>0. ~At(r, "idle") /\ req[r].user \in Users /\ req[r] \in Request /\ UNCHANGED <<now, sub>>
  BY DEF FlowTypeOK, At, InFlight, Precheck, ModelAnswers, ModelFails, ChargeBalance, StampDay,
         ChargeUnlimited, Respond, Crash
<1>1. CASE Precheck(r)
  <2> DEFINE m == IF Unlimited(req[r].user) THEN "unlimited" ELSE "balance"
             x == [req[r] EXCEPT !.pc = "model", !.row = NoRow, !.mode = m]
  <2>1. End(r, "refused") \/ Become(r, x)
    BY <1>1 DEF Precheck
  <2>2. x \in Request /\ x.user \in Users /\ x.pc = "model"
    BY <1>0, IdleType DEF Request
  <2> HIDE DEF x
  <2> QED BY <1>0, <2>1, <2>2, EndType, BecomeType
<1>2. CASE ModelAnswers(r)
  <2>1. req[r].mode \in {"balance", "unlimited"}
    BY <1>0 DEF Request
  <2>2. Goto(r, "stamp") \/ (Goto(r, "charge") /\ req[r].mode = "balance")
    <3>1. CASE req[r].mode = "unlimited"
      BY <1>2, <3>1 DEF ModelAnswers
    <3>2. CASE req[r].mode = "balance"
      BY <1>2, <3>2 DEF ModelAnswers
    <3> QED BY <2>1, <3>1, <3>2
  <2> QED BY <1>0, <2>2, GotoType
<1>3. CASE ModelFails(r)
  BY <1>0, <1>3, EndType DEF ModelFails
<1>4. CASE ChargeBalance(r)
  <2>1. Goto(r, "charged") \/ End(r, "refused")
    BY <1>4 DEF ChargeBalance
  <2> QED BY <1>0, <2>1, GotoType, EndType
<1>5. CASE StampDay(r)
  <2> DEFINE x == [req[r] EXCEPT !.pc = "charge", !.today = now]
  <2>1. x \in Request /\ x.user \in Users /\ x.today \in 1..now
    <3>1. now \in 0..LastDay /\ now \in 1..now
      BY DEF FlowTypeOK
    <3> QED BY <1>0, <3>1 DEF Request
  <2>2. Become(r, x)
    BY <1>5 DEF StampDay
  <2> HIDE DEF x
  <2> QED BY <1>0, <2>1, <2>2, BecomeType
<1>6. CASE ChargeUnlimited(r)
  <2> DEFINE x == [req[r] EXCEPT !.pc = "charged", !.chargedOn = now]
  <2>1. End(r, "refused") \/ Become(r, x)
    BY <1>6 DEF ChargeUnlimited
  <2>2. x \in Request /\ x.user \in Users /\ x.pc = "charged"
    <3>1. now \in 0..LastDay
      BY DEF FlowTypeOK
    <3> QED BY <1>0, <3>1 DEF Request
  <2> HIDE DEF x
  <2> QED BY <1>0, <2>1, <2>2, EndType, BecomeType
<1>7. CASE Respond(r)
  BY <1>0, <1>7, GotoType DEF Respond
<1>8. CASE Crash(r)
  <2>1. Goto(r, "lost") \/ End(r, "crashed")
    BY <1>8 DEF Crash
  <2> QED BY <1>0, <2>1, GotoType, EndType
<1> QED BY <1>1, <1>2, <1>3, <1>4, <1>5, <1>6, <1>7, <1>8

\* The clock and the other flows.
LEMMA EnvironmentType ==
  ASSUME FlowTypeOK,
         \/ Tick
         \/ \E u \in Users : TopUp(u) \/ EndSubscription(u) \/ \E p \in Plans : ChangePlan(u, p)
  PROVE  FlowTypeOK'
<1>1. CASE Tick
  BY <1>1 DEF Tick, FlowTypeOK, At
<1>2. ASSUME NEW u \in Users, TopUp(u) PROVE FlowTypeOK'
  BY <1>2 DEF TopUp, FlowTypeOK, At
<1>3. ASSUME NEW u \in Users, EndSubscription(u) PROVE FlowTypeOK'
  BY <1>3 DEF EndSubscription, FlowTypeOK, At
<1>4. ASSUME NEW u \in Users, NEW p \in Plans, ChangePlan(u, p) PROVE FlowTypeOK'
  BY <1>4 DEF ChangePlan, FlowTypeOK, At
<1> QED BY <1>1, <1>2, <1>3, <1>4

-----------------------------------------------------------------------------
(* The store, seen from the flow *)

\* Every step of the flow is one transaction of the store, or none.
LEMMA StepIsStoreStep ==
  ASSUME FlowTypeOK, Next
  PROVE  StoreStep \/ UNCHANGED wvars
<1>1. ASSUME NEW r \in Requests, GrantDue(r) PROVE StoreStep
  <2>1. req[r].user \in Users /\ req[r].owed.amount \in Nat /\ req[r].owed.cap \in Nat
    BY <1>1 DEF GrantDue, FlowTypeOK, Request, OwedDrips, At
  <2>2. GrantSubscriptionHints(req[r].user, req[r].owed.amount, req[r].owed.cap)
    BY <1>1 DEF GrantDue
  <2> QED BY <2>1, <2>2 DEF StoreStep
<1>2. ASSUME NEW r \in Requests, ChargeBalance(r) PROVE StoreStep \/ UNCHANGED wvars
  <2>1. req[r].user \in Users
    BY <1>2 DEF ChargeBalance, FlowTypeOK, At
  <2> QED BY <1>2, <2>1 DEF ChargeBalance, StoreStep
<1>3. ASSUME NEW r \in Requests, ChargeUnlimited(r) PROVE StoreStep \/ UNCHANGED wvars
  <2>1. req[r].user \in Users /\ req[r].today \in 1..LastDay
    BY <1>3 DEF ChargeUnlimited, FlowTypeOK, At
  <2>2. req[r].today \in Days
    BY <2>1
  <2>3. ConsumeUnlimited(req[r].user, req[r].today) \/ UNCHANGED wvars
    BY <1>3 DEF ChargeUnlimited
  <2> QED BY <2>1, <2>2, <2>3 DEF StoreStep
<1>4. ASSUME NEW u \in Users, TopUp(u) PROVE StoreStep
  BY <1>4 DEF TopUp, StoreStep
<1>5. ASSUME NEW r \in Requests,
             \/ \E u \in Users : Arrive(r, u) \/ ArriveConsume(r, u)
             \/ ReadSubscription(r) \/ AdvanceAccrual(r) \/ Precheck(r) \/ ModelAnswers(r)
             \/ ModelFails(r) \/ StampDay(r) \/ Respond(r) \/ Crash(r)
      PROVE  UNCHANGED wvars
  BY <1>5 DEF Arrive, ArriveConsume, ReadSubscription, AdvanceAccrual, Precheck, ModelAnswers,
              ModelFails, StampDay, Respond, Crash
<1>6. ASSUME \/ Tick
             \/ \E u \in Users : EndSubscription(u) \/ \E p \in Plans : ChangePlan(u, p)
      PROVE  UNCHANGED wvars
  BY <1>6 DEF Tick, EndSubscription, ChangePlan
<1> QED BY <1>1, <1>2, <1>3, <1>4, <1>5, <1>6 DEF Next

FlowInv == WalletInv /\ FlowTypeOK

LEMMA FlowInit == Init => FlowInv
<1> SUFFICES ASSUME Init PROVE FlowInv
  OBVIOUS
<1>1. \A u \in Users : FirstCycle(u) \in Nat
  BY DEF FirstCycle
<1>2. WalletTypeOK
  <2>1. wallet \in [Users -> [Buckets -> Nat]]
    <3>1. ASSUME NEW u \in Users
          PROVE  [b \in Buckets |-> IF b = "free" THEN Signup[u]
                                    ELSE IF b = "sub" THEN FirstCycle(u) ELSE 0] \in [Buckets -> Nat]
      BY <1>1, WalletAssumption DEF Buckets
    <3> QED BY <3>1 DEF Init
  <2>2. granted \in [Users -> [GrantSources -> Nat]]
    BY <1>1 DEF Init, GrantSources
  <2> QED BY <2>1, <2>2 DEF Init, WalletTypeOK, Buckets
<1>3. LedgerCoversBalance
  <2> SUFFICES ASSUME NEW u \in Users
               PROVE  TotalHints(u) + Drawn(u) <= Signup[u] + Granted(u)
    BY DEF LedgerCoversBalance
  <2>1. wallet[u]["free"] = Signup[u] /\ wallet[u]["sub"] = FirstCycle(u) /\ wallet[u]["paid"] = 0
    BY DEF Init, Buckets
  <2>2. drawn[u]["free"] = 0 /\ drawn[u]["sub"] = 0 /\ drawn[u]["paid"] = 0
    BY DEF Init, Buckets
  <2>3. /\ granted[u]["subscription_cycle"] = FirstCycle(u)
        /\ granted[u]["one_time"] = 0 /\ granted[u]["account_transfer"] = 0
    BY DEF Init, GrantSources
  <2> QED BY <1>1, <2>1, <2>2, <2>3, WalletAssumption DEF TotalHints, Drawn, Granted
<1>4. FlowTypeOK
  <2>1. \A p \in Plans : Activated(p) \in
          [live : BOOLEAN, plan : Plans \cup {NoPlan}, paidUntil : Nat, accrued : Nat]
    BY DEF Activated, Months
  <2>2. sub \in [Users -> [live : BOOLEAN, plan : Plans \cup {NoPlan}, paidUntil : Nat, accrued : Nat]]
    BY <2>1 DEF Init, NoSub
  <2>3. \A u \in Users : sub[u].live => sub[u].plan \in Plans
    BY DEF Init, NoSub, Activated
  <2>4. req \in [Requests -> Request] /\ \A r \in Requests : req[r].pc = "idle"
    BY IdleType DEF Init, Idle
  <2> QED BY <2>2, <2>3, <2>4 DEF Init, FlowTypeOK, At
<1> QED BY <1>2, <1>3, <1>4 DEF FlowInv, WalletInv

LEMMA FlowStep == FlowInv /\ [Next]_vars => FlowInv'
<1> SUFFICES ASSUME FlowInv, [Next]_vars PROVE FlowInv'
  OBVIOUS
<1> USE DEF FlowInv
<1>1. CASE Next
  <2>1. WalletInv'
    BY <1>1, StepIsStoreStep, StoreStepInv, StutterInv
  <2>2. WalletTypeOK
    BY DEF WalletInv
  <2>3. FlowTypeOK'
    BY <1>1, <2>2, ArriveType, AccrueType, SpendType, EnvironmentType DEF Next
  <2> QED BY <2>1, <2>3
<1>2. CASE UNCHANGED vars
  <2>1. WalletInv'
    BY <1>2, StutterInv DEF vars
  <2>2. FlowTypeOK'
    BY <1>2 DEF vars, FlowTypeOK, At
  <2> QED BY <2>1, <2>2
<1> QED BY <1>1, <1>2

\* Whatever requests overlap, crash or hold stale rows: no bucket is overdrawn,
\* and a request under way knows its user, a stamped one its day.
THEOREM ReadsTyped == Spec => []ReadsTypeOK
<1>1. FlowInv => ReadsTypeOK
  BY DEF FlowInv, WalletInv, FlowTypeOK, ReadsTypeOK
<1> QED BY <1>1, FlowInit, FlowStep, PTL DEF Spec

\* The ledgers account for every balance.
THEOREM ReadsSafe == Spec => []LedgerCoversBalance
<1>1. FlowInv => LedgerCoversBalance
  BY DEF FlowInv, WalletInv
<1> QED BY <1>1, FlowInit, FlowStep, PTL DEF Spec

-----------------------------------------------------------------------------
(* Hints are conserved *)

LEMMA FlowConserved == Init => Conserved
<1> SUFFICES ASSUME Init PROVE Conserved
  OBVIOUS
<1>1. \A u \in Users : /\ wallet[u]["paid"] = 0 /\ drawn[u]["paid"] = 0
                       /\ wallet[u]["free"] = Signup[u] /\ drawn[u]["free"] = 0
                       /\ granted[u]["one_time"] = 0
  BY DEF Init, Buckets, GrantSources
<1> QED BY <1>1, InitConserved

LEMMA FlowConserves == FlowInv /\ Conserved /\ [Next]_vars => Conserved'
BY StepIsStoreStep, StoreStepConserves, StutterConserves DEF FlowInv, WalletInv, vars

\* Reads that overlap, die or hold stale rows neither make nor lose a paid hint.
THEOREM ReadsConserve == Spec => []PaidHintsConserved
<1>1. FlowInv /\ Conserved /\ [Next]_vars => FlowInv' /\ Conserved'
  BY FlowStep, FlowConserves
<1>2. Conserved => PaidHintsConserved
  BY DEF Conserved
<1> QED BY <1>1, <1>2, FlowInit, FlowConserved, PTL DEF Spec

-----------------------------------------------------------------------------
(* How a request's record changes *)

Acts(r) ==
    \/ \E u \in Users : Arrive(r, u) \/ ArriveConsume(r, u)
    \/ ReadSubscription(r) \/ GrantDue(r) \/ AdvanceAccrual(r) \/ Precheck(r)
    \/ ModelAnswers(r) \/ ModelFails(r)
    \/ ChargeBalance(r) \/ StampDay(r) \/ ChargeUnlimited(r) \/ Respond(r)
    \/ Crash(r)

Environment ==
    \/ Tick
    \/ \E u \in Users : TopUp(u) \/ EndSubscription(u) \/ \E p \in Plans : ChangePlan(u, p)

\* Next is one request acting, or the rest of the system.
LEMMA NextSplit == Next <=> (\E r \in Requests : Acts(r)) \/ Environment
BY DEF Next, Acts, Environment

\* Only a request's own steps touch its record.
LEMMA OwnRecord ==
  ASSUME FlowTypeOK, Next, NEW r \in Requests
  PROVE  req'[r] = req[r] \/ Acts(r)
<1>1. ASSUME NEW q \in Requests, Acts(q) PROVE \E x : Become(q, x)
  BY <1>1 DEF Acts, Arrive, ArriveConsume, ReadSubscription, GrantDue, AdvanceAccrual, Precheck,
              ModelAnswers, ModelFails, ChargeBalance, StampDay, ChargeUnlimited, Respond, Crash,
              Goto, End
<1>2. ASSUME NEW q \in Requests, NEW x, Become(q, x), q # r PROVE req'[r] = req[r]
  BY <1>2 DEF FlowTypeOK, Become
<1>3. ASSUME Environment PROVE req'[r] = req[r]
  BY <1>3 DEF Environment, Tick, TopUp, EndSubscription, ChangePlan
<1> QED BY <1>1, <1>2, <1>3, NextSplit

\* The record a request becomes.
LEMMA Became ==
  ASSUME FlowTypeOK, NEW r \in Requests, NEW x, Become(r, x)
  PROVE  req'[r] = x
BY DEF FlowTypeOK, Become

LEMMA WentTo ==
  ASSUME FlowTypeOK, NEW r \in Requests, NEW l, Goto(r, l)
  PROVE  /\ req'[r].pc = l
         /\ req'[r].user = req[r].user /\ req'[r].owed = req[r].owed
         /\ req'[r].today = req[r].today /\ req'[r].chargedOn = req[r].chargedOn
<1>1. req'[r] = [req[r] EXCEPT !.pc = l] /\ req[r] \in Request
  BY Became DEF Goto, FlowTypeOK
<1> QED BY <1>1 DEF Request

LEMMA Ended ==
  ASSUME FlowTypeOK, NEW r \in Requests, NEW l, End(r, l)
  PROVE  req'[r].pc = l
<1>1. req'[r] = [Idle EXCEPT !.pc = l, !.user = req[r].user]
  BY Became DEF End
<1> QED BY <1>1 DEF Idle

\* Where each step leads.
LEMMA NextLabel ==
  ASSUME FlowTypeOK, NEW r \in Requests, Acts(r), ~ReadSubscription(r)
  PROVE  req'[r].pc # "grant" /\ (GrantDue(r) \/ req'[r].pc # "advance")
<1>0. req[r] \in Request
  BY DEF FlowTypeOK
<1>1. ASSUME NEW u \in Users, Arrive(r, u) \/ ArriveConsume(r, u)
      PROVE  req'[r].pc \notin {"grant", "advance"}
  <2>1. CASE Arrive(r, u)
    <3>1. req'[r] = [Idle EXCEPT !.pc = "accrue", !.user = u, !.row = RowOf(u)]
      BY <2>1, Became DEF Arrive
    <3> QED BY <3>1, IdleType DEF Request
  <2>2. CASE ArriveConsume(r, u)
    <3>1. req'[r] = [Idle EXCEPT !.pc = "charge", !.user = u]
      BY <2>2, Became DEF ArriveConsume
    <3> QED BY <3>1, IdleType DEF Request
  <2> QED BY <1>1, <2>1, <2>2
<1>2. CASE GrantDue(r)
  <2>1. PICK y : req'[r] = [req[r] EXCEPT !.pc = "advance", !.row = y]
    BY <1>2, Became DEF GrantDue
  <2> QED BY <1>0, <1>2, <2>1 DEF Request
<1>3. CASE AdvanceAccrual(r)
  <2>1. req'[r] = [req[r] EXCEPT !.pc = "check", !.owed = NoDrip]
    BY <1>3, Became DEF AdvanceAccrual
  <2> QED BY <1>0, <2>1 DEF Request
<1>4. CASE Precheck(r)
  <2>1. \/ End(r, "refused")
        \/ \E m : req'[r] = [req[r] EXCEPT !.pc = "model", !.row = NoRow, !.mode = m]
    BY <1>4, Became DEF Precheck
  <2> QED BY <1>0, <2>1, Ended DEF Request
<1>5. CASE ModelAnswers(r) \/ ModelFails(r)
  BY <1>5, WentTo, Ended DEF ModelAnswers, ModelFails
<1>6. CASE ChargeBalance(r)
  BY <1>6, WentTo, Ended DEF ChargeBalance
<1>7. CASE StampDay(r)
  <2>1. req'[r] = [req[r] EXCEPT !.pc = "charge", !.today = now]
    BY <1>7, Became DEF StampDay
  <2> QED BY <1>0, <2>1 DEF Request
<1>8. CASE ChargeUnlimited(r)
  <2>1. End(r, "refused") \/ req'[r] = [req[r] EXCEPT !.pc = "charged", !.chargedOn = now]
    BY <1>8, Became DEF ChargeUnlimited
  <2> QED BY <1>0, <2>1, Ended DEF Request
<1>9. CASE Respond(r) \/ Crash(r)
  BY <1>9, WentTo, Ended DEF Respond, Crash
<1> QED BY <1>1, <1>2, <1>3, <1>4, <1>5, <1>6, <1>7, <1>8, <1>9 DEF Acts

-----------------------------------------------------------------------------
(* The rollover cap *)

\* A token plan's cap is a positive number no smaller than its allotment.
LEMMA CapPositive ==
  ASSUME NEW p \in Plans, ~p.unlimited
  PROVE  Cap(p) \in Nat /\ Cap(p) > 0 /\ p.perCycle <= Cap(p)
<1>1. p.perCycle \in Nat \ {0} /\ RolloverCapCycles \in Nat \ {0}
  OBVIOUS
<1>2. p.perCycle <= p.perCycle * RolloverCapCycles
  BY <1>1
<1> QED BY <1>1, <1>2 DEF Cap

\* The bucket invariant needs one more fact: a request about to credit a drip
\* carries the cap of a token plan, read with the amount it carries.
CapInv ==
    /\ SubBucketBounded
    /\ \A r \in Requests :
         At(r, "grant") => \E p \in Plans : ~p.unlimited /\ req[r].owed.cap = Cap(p)

\* A bucket that only sinks stays within its bound.
LEMMA SinkingBucket ==
  ASSUME WalletTypeOK, WalletTypeOK', SubBucketBounded,
         \A u \in Users : wallet'[u]["sub"] <= wallet[u]["sub"]
  PROVE  SubBucketBounded'
<1> SUFFICES ASSUME NEW u \in Users
             PROVE  wallet'[u]["sub"] = 0 \/ \E p \in Plans : wallet'[u]["sub"] <= Cap(p)
  BY DEF SubBucketBounded
<1>1. wallet[u]["sub"] \in Nat /\ wallet'[u]["sub"] \in Nat /\ wallet'[u]["sub"] <= wallet[u]["sub"]
  BY DEF WalletTypeOK, Buckets
<1>2. CASE wallet[u]["sub"] = 0
  BY <1>1, <1>2
<1>3. ASSUME NEW p \in Plans, wallet[u]["sub"] <= Cap(p) PROVE wallet'[u]["sub"] <= Cap(p)
  BY <1>1, <1>3, CapNat
<1> QED BY <1>2, <1>3 DEF SubBucketBounded

LEMMA CapInit == Init => CapInv
<1> SUFFICES ASSUME Init PROVE CapInv
  OBVIOUS
<1>1. ASSUME NEW u \in Users
      PROVE  FirstCycle(u) = 0 \/ \E p \in Plans : FirstCycle(u) <= Cap(p)
  BY CapPositive DEF FirstCycle
<1>2. \A u \in Users : wallet[u]["sub"] = FirstCycle(u)
  BY DEF Init, Buckets
<1>3. \A r \in Requests : ~At(r, "grant")
  BY DEF Init, Idle, At
<1> QED BY <1>1, <1>2, <1>3 DEF CapInv, SubBucketBounded

\* The drip under its lock: clamped to the cap the request carries.
LEMMA GrantDueCap ==
  ASSUME FlowInv, FlowInv', CapInv, NEW r \in Requests, GrantDue(r)
  PROVE  CapInv'
<1> DEFINE u == req[r].user
<1>1. u \in Users /\ req[r].owed.amount \in Nat /\ At(r, "grant")
  BY DEF GrantDue, FlowInv, FlowTypeOK, Request, OwedDrips, At
<1>2. PICK p \in Plans : ~p.unlimited /\ req[r].owed.cap = Cap(p)
  BY <1>1 DEF CapInv
<1>3. wallet[u]["sub"] \in Nat /\ Cap(p) \in Nat /\ Cap(p) > 0
  BY <1>1, <1>2, CapPositive DEF FlowInv, WalletInv, WalletTypeOK, Buckets
<1>4. Rollover(wallet[u]["sub"], req[r].owed.amount, Cap(p)) <= Cap(p)
  BY <1>1, <1>3 DEF Rollover
<1>5. /\ wallet' = [wallet EXCEPT ![u]["sub"] = Rollover(wallet[u]["sub"], req[r].owed.amount, Cap(p))]
      /\ \E x : Become(r, x) /\ x.pc = "advance"
  <2>1. At(r, "grant") /\ req[r] \in Request
    BY <1>1 DEF FlowInv, FlowTypeOK
  <2>2. \A y : [req[r] EXCEPT !.pc = "advance", !.row = y].pc = "advance"
    BY <2>1 DEF Request
  <2> QED BY <1>2, <2>2 DEF GrantDue, GrantSubscriptionHints
<1>6. \A v \in Users : v # u => wallet'[v] = wallet[v]
  BY <1>1, <1>5 DEF FlowInv, WalletInv, WalletTypeOK
<1>7. wallet'[u]["sub"] <= Cap(p)
  BY <1>1, <1>4, <1>5 DEF FlowInv, WalletInv, WalletTypeOK, Buckets
<1>8. SubBucketBounded'
  BY <1>6, <1>7 DEF CapInv, SubBucketBounded
<1>9. \A q \in Requests : At(q, "grant")' => At(q, "grant") /\ req'[q] = req[q]
  BY <1>5 DEF FlowInv, FlowTypeOK, Become, At
<1> QED BY <1>8, <1>9 DEF CapInv

\* A bucket moves by a drip or by what is drawn from it.
LEMMA BucketMoves ==
  ASSUME FlowInv, Next, NEW u \in Users
  PROVE  \/ wallet'[u]["sub"] = wallet[u]["sub"]
         \/ /\ wallet'[u]["sub"] < wallet[u]["sub"]
            /\ drawn'[u]["sub"] = drawn[u]["sub"] + wallet[u]["sub"] - wallet'[u]["sub"]
         \/ \E r \in Requests : GrantDue(r) /\ req[r].user = u
<1> USE DEF FlowInv, WalletInv, WalletTypeOK
<1>1. ASSUME NEW r \in Requests, GrantDue(r), req[r].user # u
      PROVE  wallet'[u]["sub"] = wallet[u]["sub"]
  BY <1>1 DEF GrantDue, GrantSubscriptionHints
<1>2. ASSUME NEW r \in Requests, ChargeBalance(r)
      PROVE  \/ wallet'[u]["sub"] = wallet[u]["sub"]
             \/ /\ wallet'[u]["sub"] < wallet[u]["sub"]
                /\ drawn'[u]["sub"] = drawn[u]["sub"] + wallet[u]["sub"] - wallet'[u]["sub"]
  <2>1. CASE UNCHANGED wvars
    BY <2>1 DEF wvars
  <2>2. CASE Consume(req[r].user)
    <3>1. PICK b \in Buckets :
            /\ wallet' = [wallet EXCEPT ![req[r].user][b] = @ - 1]
            /\ drawn' = [drawn EXCEPT ![req[r].user][b] = @ + 1]
      BY <2>2 DEF Consume
    <3> QED BY <3>1 DEF Buckets
  <2> QED BY <1>2, <2>1, <2>2 DEF ChargeBalance
<1>3. ASSUME NEW r \in Requests, ChargeUnlimited(r) PROVE UNCHANGED wallet
  BY <1>3 DEF ChargeUnlimited, ConsumeUnlimited, wvars
<1>4. ASSUME NEW v \in Users, TopUp(v) PROVE wallet'[u]["sub"] = wallet[u]["sub"]
  BY <1>4 DEF TopUp, AddTopupHints, Buckets
<1>5. ASSUME NEW r \in Requests, Acts(r), ~GrantDue(r), ~ChargeBalance(r), ~ChargeUnlimited(r)
      PROVE  UNCHANGED wallet
  BY <1>5 DEF Acts, Arrive, ArriveConsume, ReadSubscription, AdvanceAccrual, Precheck, ModelAnswers,
              ModelFails, StampDay, Respond, Crash, wvars
<1>6. CASE Environment
  BY <1>4, <1>6 DEF Environment, Tick, EndSubscription, ChangePlan, wvars
<1> QED BY <1>1, <1>2, <1>3, <1>5, <1>6, NextSplit

\* A request about to credit a drip carries the cap its user's plan had when the
\* row was read.
LEMMA CapCarried ==
  ASSUME FlowInv, Next, NEW r \in Requests, At(r, "grant")', req'[r] # req[r]
  PROVE  LET plan == sub[req[r].user].plan IN
         /\ req'[r].user = req[r].user /\ req[r].user \in Users
         /\ plan \in Plans /\ ~plan.unlimited
         /\ req'[r].owed.cap = Cap(plan)
<1> DEFINE s == sub[req[r].user]
<1>1. ReadSubscription(r)
  BY OwnRecord, NextLabel DEF FlowInv, At
<1>2. req[r].user \in Users
  BY <1>1 DEF ReadSubscription, FlowInv, FlowTypeOK, At
<1>3. CASE Drips(s) /\ CyclesDue(s) > 0
  <2>1. s.plan \in Plans /\ ~s.plan.unlimited
    BY <1>2, <1>3 DEF Drips, FlowInv, FlowTypeOK
  <2>2. PICK a, c : req'[r] = [req[r] EXCEPT !.pc = "grant",
                                !.owed = [amount |-> a, cap |-> Cap(s.plan), cursor |-> c]]
    BY <1>1, <1>3, Became DEF ReadSubscription, FlowInv
  <2>3. req[r] \in Request
    BY DEF FlowInv, FlowTypeOK
  <2> HIDE DEF s
  <2>4. req'[r].owed.cap = Cap(s.plan) /\ req'[r].user = req[r].user
    BY <2>2, <2>3 DEF Request
  <2> QED BY <1>2, <2>1, <2>4 DEF s
<1>4. CASE ~(Drips(s) /\ CyclesDue(s) > 0)
  BY <1>1, <1>4, WentTo DEF ReadSubscription, FlowInv, At
<1> QED BY <1>3, <1>4

\* Every other step sinks the bucket or leaves it, and reads caps off token plans.
LEMMA OtherStepCap ==
  ASSUME FlowInv, FlowInv', CapInv, Next, \A r \in Requests : ~GrantDue(r)
  PROVE  CapInv'
<1>1. ASSUME NEW u \in Users PROVE wallet'[u]["sub"] <= wallet[u]["sub"]
  <2>1. wallet[u]["sub"] \in Nat /\ wallet'[u]["sub"] \in Nat
    BY DEF FlowInv, WalletInv, WalletTypeOK, Buckets
  <2> QED BY <2>1, BucketMoves
<1>2. SubBucketBounded'
  BY <1>1, SinkingBucket DEF FlowInv, WalletInv, CapInv
<1>3. ASSUME NEW r \in Requests, At(r, "grant")'
      PROVE  \E p \in Plans : ~p.unlimited /\ req'[r].owed.cap = Cap(p)
  <2>1. CASE req'[r] = req[r]
    BY <1>3, <2>1 DEF CapInv, At
  <2>2. CASE req'[r] # req[r]
    BY <1>3, <2>2, CapCarried
  <2> QED BY <2>1, <2>2
<1> QED BY <1>2, <1>3 DEF CapInv

\* The rollover cap bounds a subscription's bucket even when several requests
\* credit one month and while plans change between the two transactions.
THEOREM CapHolds == Spec => []SubBucketBounded
<1>1. Init => FlowInv /\ CapInv
  BY FlowInit, CapInit
<1>2. FlowInv /\ CapInv /\ [Next]_vars => FlowInv' /\ CapInv'
  <2> SUFFICES ASSUME FlowInv, CapInv, [Next]_vars PROVE FlowInv' /\ CapInv'
    OBVIOUS
  <2>1. FlowInv'
    BY FlowStep
  <2>2. CASE Next
    BY <2>1, <2>2, GrantDueCap, OtherStepCap
  <2>3. CASE UNCHANGED vars
    <3>1. wallet' = wallet /\ req' = req
      BY <2>3 DEF vars, wvars
    <3>2. SubBucketBounded'
      BY <3>1 DEF CapInv, SubBucketBounded
    <3>3. \A r \in Requests :
            At(r, "grant")' => \E p \in Plans : ~p.unlimited /\ req'[r].owed.cap = Cap(p)
      BY <3>1 DEF CapInv, At
    <3> QED BY <2>1, <3>2, <3>3 DEF CapInv
  <2> QED BY <2>1, <2>2, <2>3
<1>3. CapInv => SubBucketBounded
  BY DEF CapInv
<1> QED BY <1>1, <1>2, <1>3, PTL DEF Spec
-----------------------------------------------------------------------------
(* The accrual date *)

\* AccruedWithinPaid needs to know of the dates that are about to be written.
Owing(r) == req[r].pc \in {"grant", "advance"}

CursorsWithinPaid ==
    \A r \in Requests : Owing(r) =>
        req[r].owed.cursor <= now /\ req[r].owed.cursor <= sub[req[r].user].paidUntil

AccruedInv == AccruedWithinPaid /\ CursorsWithinPaid

LEMMA AccruedInit == Init => AccruedInv
<1> SUFFICES ASSUME Init PROVE AccruedInv
  OBVIOUS
<1>1. \A u \in Users : sub[u] = NoSub \/ sub[u] = Activated(InitialPlan[u])
  BY DEF Init
<1>2. \A p : (Activated(p)).accrued = 1 /\ (Activated(p)).paidUntil >= 1
  BY DEF Activated, Months
<1>3. AccruedWithinPaid
  BY <1>1, <1>2 DEF Init, AccruedWithinPaid, NoSub
<1>4. \A r \in Requests : ~Owing(r)
  BY DEF Init, Idle, Owing
<1> QED BY <1>3, <1>4 DEF AccruedInv, CursorsWithinPaid

\* The clock only goes forward, what is paid stays paid, and the one step that
\* moves an accrual date moves it to the date its request carries.
LEMMA DatesStep ==
  ASSUME FlowInv, Next
  PROVE  /\ now \in Nat /\ now' \in Nat /\ now <= now'
         /\ \A u \in Users :
              /\ sub'[u].paidUntil = sub[u].paidUntil
              /\ \/ sub'[u].accrued = sub[u].accrued
                 \/ \E r \in Requests : /\ AdvanceAccrual(r) /\ req[r].user = u
                                        /\ sub'[u].accrued = req[r].owed.cursor
<1> USE DEF FlowInv, FlowTypeOK
<1>1. CASE \E r \in Requests : AdvanceAccrual(r)
  <2>1. PICK r \in Requests : AdvanceAccrual(r)
    BY <1>1
  <2>2. req[r].user \in Users
    BY <2>1 DEF AdvanceAccrual, At
  <2>3. now' = now /\ sub' = [sub EXCEPT ![req[r].user].accrued = req[r].owed.cursor]
    BY <2>1 DEF AdvanceAccrual
  <2>4. /\ sub'[req[r].user].paidUntil = sub[req[r].user].paidUntil
        /\ sub'[req[r].user].accrued = req[r].owed.cursor
        /\ \A u \in Users : u # req[r].user => sub'[u] = sub[u]
    BY <2>2, <2>3
  <2> QED BY <2>1, <2>2, <2>3, <2>4
<1>2. CASE Tick
  BY <1>2 DEF Tick
<1>3. ASSUME NEW v \in Users, EndSubscription(v) \/ \E p \in Plans : ChangePlan(v, p)
      PROVE  now' = now /\ \A u \in Users : /\ sub'[u].paidUntil = sub[u].paidUntil
                                            /\ sub'[u].accrued = sub[u].accrued
  BY <1>3 DEF EndSubscription, ChangePlan
<1>4. CASE UNCHANGED <<now, sub>>
  BY <1>4
<1>5. ASSUME NEW r \in Requests, Acts(r), ~AdvanceAccrual(r) PROVE UNCHANGED <<now, sub>>
  BY <1>5 DEF Acts, Arrive, ArriveConsume, ReadSubscription, GrantDue, Precheck, ModelAnswers,
              ModelFails, ChargeBalance, StampDay, ChargeUnlimited, Respond, Crash
<1>6. ASSUME NEW u \in Users, TopUp(u) PROVE UNCHANGED <<now, sub>>
  BY <1>6 DEF TopUp
<1> QED BY <1>1, <1>2, <1>3, <1>4, <1>5, <1>6, NextSplit DEF Environment

\* A request comes to owe by counting cycles, within the clock and what is paid.
LEMMA OwingStep ==
  ASSUME FlowInv, CursorsWithinPaid, NEW r \in Requests, Acts(r), Owing(r)'
  PROVE  /\ req'[r].user = req[r].user /\ req[r].user \in Users
         /\ req'[r].owed.cursor <= now
         /\ req'[r].owed.cursor <= sub[req[r].user].paidUntil
<1>0. req[r] \in Request
  BY DEF FlowInv, FlowTypeOK
<1>1. CASE GrantDue(r)
  <2>1. PICK y : req'[r] = [req[r] EXCEPT !.pc = "advance", !.row = y]
    BY <1>1, Became DEF GrantDue, FlowInv
  <2>2. req'[r].user = req[r].user /\ req'[r].owed = req[r].owed
    BY <1>0, <2>1 DEF Request
  <2>3. Owing(r) /\ req[r].user \in Users
    BY <1>1 DEF GrantDue, Owing, At, FlowInv, FlowTypeOK
  <2> QED BY <2>2, <2>3 DEF CursorsWithinPaid
<1>2. CASE ReadSubscription(r)
  <2> DEFINE s == sub[req[r].user]
  <2>1. req[r].user \in Users
    BY <1>2 DEF ReadSubscription, At, FlowInv, FlowTypeOK
  <2>2. now \in Nat /\ s.paidUntil \in Nat /\ s.accrued \in Nat
    BY <2>1 DEF FlowInv, FlowTypeOK
  <2>3. CASE Drips(s) /\ CyclesDue(s) > 0
    <3>1. PICK a, c : req'[r] = [req[r] EXCEPT !.pc = "grant",
             !.owed = [amount |-> a, cap |-> c, cursor |-> s.accrued + CyclesDue(s) * MonthDays]]
      BY <1>2, <2>3, Became DEF ReadSubscription, FlowInv
    <3> HIDE DEF s
    <3>2. /\ req'[r].user = req[r].user
          /\ req'[r].owed.cursor = s.accrued + CyclesDue(s) * MonthDays
      BY <1>0, <3>1 DEF Request
    <3>3. /\ s.accrued + CyclesDue(s) * MonthDays <= now
          /\ s.accrued + CyclesDue(s) * MonthDays <= s.paidUntil
      BY <2>2, <2>3, CyclesDueNat
    <3> QED BY <2>1, <3>2, <3>3 DEF s
  <2>4. CASE ~(Drips(s) /\ CyclesDue(s) > 0)
    <3>1. Goto(r, "check")
      BY <1>2, <2>4 DEF ReadSubscription
    <3>2. req'[r].pc = "check"
      BY <3>1, WentTo DEF FlowInv
    <3> QED BY <3>2 DEF Owing
  <2> QED BY <2>3, <2>4
<1>3. CASE ~GrantDue(r) /\ ~ReadSubscription(r)
  BY <1>3, NextLabel DEF Owing, FlowInv
<1> QED BY <1>1, <1>2, <1>3

LEMMA AccruedStep ==
  ASSUME FlowInv, FlowInv', AccruedInv, Next
  PROVE  AccruedInv'
<1>1. AccruedWithinPaid'
  <2> SUFFICES ASSUME NEW u \in Users
               PROVE  sub'[u].accrued <= now' /\ sub'[u].accrued <= sub'[u].paidUntil
    BY DEF AccruedWithinPaid
  <2>1. /\ sub[u].accrued \in Nat /\ sub[u].paidUntil \in Nat
        /\ sub[u].accrued <= now /\ sub[u].accrued <= sub[u].paidUntil
    BY DEF FlowInv, FlowTypeOK, AccruedInv, AccruedWithinPaid
  <2>2. CASE sub'[u].accrued = sub[u].accrued
    BY <2>1, <2>2, DatesStep
  <2>3. ASSUME NEW r \in Requests, AdvanceAccrual(r), req[r].user = u,
               sub'[u].accrued = req[r].owed.cursor
        PROVE  sub'[u].accrued <= now' /\ sub'[u].accrued <= sub'[u].paidUntil
    <3>1. req[r].owed.cursor <= now /\ req[r].owed.cursor <= sub[u].paidUntil
      BY <2>3 DEF AdvanceAccrual, At, Owing, AccruedInv, CursorsWithinPaid
    <3>2. req[r].owed.cursor \in Nat
      BY DEF FlowInv, FlowTypeOK, Request, OwedDrips
    <3> QED BY <2>1, <2>3, <3>1, <3>2, DatesStep
  <2> QED BY <2>2, <2>3, DatesStep
<1>2. CursorsWithinPaid'
  <2> SUFFICES ASSUME NEW r \in Requests, Owing(r)'
               PROVE  /\ req'[r].owed.cursor <= now'
                      /\ req'[r].owed.cursor <= sub'[req'[r].user].paidUntil
    BY DEF CursorsWithinPaid
  <2>1. /\ req'[r].user \in Users /\ req'[r].owed.cursor \in Nat
    BY DEF FlowInv, FlowTypeOK, Request, OwedDrips, Owing, At
  <2>2. /\ req'[r].owed.cursor <= now
        /\ req'[r].owed.cursor <= sub[req'[r].user].paidUntil
    <3>1. CASE req'[r] = req[r]
      BY <3>1 DEF Owing, AccruedInv, CursorsWithinPaid
    <3>2. CASE Acts(r)
      BY <3>2, OwingStep DEF AccruedInv
    <3> QED BY <3>1, <3>2, OwnRecord DEF FlowInv
  <2> QED BY <2>1, <2>2, DatesStep
<1> QED BY <1>1, <1>2 DEF AccruedInv

\* No accrual date runs ahead of the clock or of what is paid, however many
\* requests compute it from however old a row, and wherever they die.
THEOREM AccruedHolds == Spec => []AccruedWithinPaid
<1>1. Init => FlowInv /\ AccruedInv
  BY FlowInit, AccruedInit
<1>2. FlowInv /\ AccruedInv /\ [Next]_vars => FlowInv' /\ AccruedInv'
  <2> SUFFICES ASSUME FlowInv, AccruedInv, [Next]_vars PROVE FlowInv' /\ AccruedInv'
    OBVIOUS
  <2>1. FlowInv'
    BY FlowStep
  <2>2. CASE Next
    BY <2>1, <2>2, AccruedStep
  <2>3. CASE UNCHANGED vars
    BY <2>1, <2>3 DEF vars, AccruedInv, AccruedWithinPaid, CursorsWithinPaid, Owing
  <2> QED BY <2>1, <2>2, <2>3
<1>3. AccruedInv => AccruedWithinPaid
  BY DEF AccruedInv
<1> QED BY <1>1, <1>2, <1>3, PTL DEF Spec

-----------------------------------------------------------------------------
(* The daily limit *)

\* Of a user nobody was charged late for: the row counts the last day there was a
\* charge on, and nothing is served after it.
Counted(u) ==
    /\ fairUse[u].day <= now
    /\ \A d \in Days :
         /\ servedOn[u][d] <= DailyLimit
         /\ d > fairUse[u].day => servedOn[u][d] = 0
         /\ d = fairUse[u].day => servedOn[u][d] = fairUse[u].used

FairUseInv == \A u \in Users : ~ChargedLate(u) => Counted(u)

\* A late charge stays on record: a request that was charged keeps both its days.
LEMMA LateStays ==
  ASSUME FlowInv, Next, NEW u \in Users, ChargedLate(u)
  PROVE  ChargedLate(u)'
<1>1. PICK r \in Requests :
        req[r].user = u /\ req[r].pc \in Paid /\ req[r].chargedOn # req[r].today
  BY DEF ChargedLate
<1>2. CASE req'[r] = req[r]
  BY <1>1, <1>2 DEF ChargedLate
<1>3. CASE Acts(r)
  <2>1. Respond(r) \/ Crash(r)
    BY <1>1, <1>3 DEF Acts, Paid, At, Arrive, ArriveConsume, MayArrive, ReadSubscription, GrantDue,
         AdvanceAccrual, Precheck, ModelAnswers, ModelFails, ChargeBalance, StampDay, ChargeUnlimited
  <2>2. PICK l \in {"answered", "lost"} : Goto(r, l)
    BY <1>1, <2>1 DEF Respond, Crash, InFlight, Paid, At
  <2>3. /\ req'[r].pc = l /\ req'[r].user = u
        /\ req'[r].chargedOn # req'[r].today
    BY <1>1, <2>2, WentTo DEF FlowInv
  <2> QED BY <2>3 DEF ChargedLate, Paid
<1> QED BY <1>2, <1>3, OwnRecord DEF FlowInv

\* Nothing else touches the counters, and the clock goes forward.
LEMMA CountedStays ==
  ASSUME FlowInv, NEW u \in Users, Counted(u), now' \in Nat, now <= now',
         fairUse'[u] = fairUse[u], servedOn'[u] = servedOn[u]
  PROVE  Counted(u)'
<1>1. now \in Nat /\ fairUse[u].day \in Nat
  BY DEF FlowInv, FlowTypeOK, WalletInv, WalletTypeOK
<1> QED BY <1>1 DEF Counted

\* A charge on the day it was stamped counts on from that day's number, or from 0
\* on a day nothing was served yet.
LEMMA CountedCharge ==
  ASSUME FlowInv, NEW u \in Users, Counted(u), now' = now, now \in Days,
         ConsumeUnlimited(u, now)
  PROVE  Counted(u)'
<1>1. /\ now \in Nat /\ DailyLimit \in Nat /\ Days \subseteq Nat
      /\ fairUse \in [Users -> [day : Nat, used : Nat]]
      /\ servedOn \in [Users -> [Days -> Nat]]
  BY WalletAssumption DEF FlowInv, FlowTypeOK, WalletInv, WalletTypeOK
<1>2. now \in Nat /\ fairUse[u].day \in Nat /\ fairUse[u].used \in Nat
  BY <1>1
<1>3. UsedOn(u, now) = servedOn[u][now]
  <2>1. CASE fairUse[u].day = now
    BY <2>1 DEF Counted, UsedOn
  <2>2. CASE fairUse[u].day # now
    <3>1. fairUse[u].day <= now
      BY DEF Counted
    <3>2. now > fairUse[u].day
      BY <1>2, <2>2, <3>1
    <3> QED BY <2>2, <3>2 DEF Counted, UsedOn
  <2> QED BY <2>1, <2>2
<1>4. /\ fairUse'[u] = [day |-> now, used |-> servedOn[u][now] + 1]
      /\ servedOn'[u] = [servedOn[u] EXCEPT ![now] = @ + 1]
      /\ servedOn[u][now] < DailyLimit
  BY <1>1, <1>3 DEF ConsumeUnlimited
<1>5. /\ fairUse'[u].day = now /\ fairUse'[u].used = servedOn[u][now] + 1
      /\ servedOn'[u][now] = servedOn[u][now] + 1
      /\ \A d \in Days : d # now => servedOn'[u][d] = servedOn[u][d]
  BY <1>1, <1>4
<1>6. ASSUME NEW d \in Days
      PROVE  /\ servedOn'[u][d] <= DailyLimit
             /\ d > now => servedOn'[u][d] = 0
             /\ d = now => servedOn'[u][d] = fairUse'[u].used
  <2>1. d \in Nat /\ servedOn[u][d] \in Nat
    BY <1>1
  <2>2. CASE d = now
    BY <1>1, <1>4, <1>5, <2>1, <2>2
  <2>3. CASE d # now
    BY <1>1, <1>2, <1>5, <2>1, <2>3 DEF Counted
  <2> QED BY <2>2, <2>3
<1> QED BY <1>1, <1>5, <1>6 DEF Counted

\* Only a charge in unlimited mode changes the counters, and only its user's.
LEMMA CountersChange ==
  ASSUME FlowInv, Next, NEW u \in Users
  PROVE  \/ fairUse'[u] = fairUse[u] /\ servedOn'[u] = servedOn[u]
         \/ \E r \in Requests :
              /\ ChargeUnlimited(r) /\ req[r].user = u
              /\ ConsumeUnlimited(u, req[r].today)
              /\ Become(r, [req[r] EXCEPT !.pc = "charged", !.chargedOn = now])
<1>1. CASE UNCHANGED <<fairUse, servedOn>>
  BY <1>1
<1>2. ASSUME NEW r \in Requests, ChargeUnlimited(r), ~UNCHANGED wvars
      PROVE  \/ fairUse'[u] = fairUse[u] /\ servedOn'[u] = servedOn[u]
             \/ /\ req[r].user = u
                /\ ConsumeUnlimited(u, req[r].today)
                /\ Become(r, [req[r] EXCEPT !.pc = "charged", !.chargedOn = now])
  <2>1. /\ ConsumeUnlimited(req[r].user, req[r].today)
        /\ Become(r, [req[r] EXCEPT !.pc = "charged", !.chargedOn = now])
    BY <1>2 DEF ChargeUnlimited
  <2>2. CASE req[r].user = u
    BY <2>1, <2>2
  <2>3. CASE req[r].user # u
    BY <2>1, <2>3 DEF ConsumeUnlimited, FlowInv, WalletInv, WalletTypeOK
  <2> QED BY <2>2, <2>3
<1>3. ASSUME NEW r \in Requests, Acts(r), ~ChargeUnlimited(r)
      PROVE  UNCHANGED <<fairUse, servedOn>>
  BY <1>3 DEF Acts, Arrive, ArriveConsume, ReadSubscription, GrantDue, GrantSubscriptionHints,
       AdvanceAccrual, Precheck, ModelAnswers, ModelFails, ChargeBalance, Consume, StampDay, Respond,
       Crash, wvars
<1>4. ASSUME Environment PROVE UNCHANGED <<fairUse, servedOn>>
  BY <1>4 DEF Environment, Tick, TopUp, AddTopupHints, EndSubscription, ChangePlan, wvars
<1>5. UNCHANGED wvars => UNCHANGED <<fairUse, servedOn>>
  BY DEF wvars
<1> QED BY <1>1, <1>2, <1>3, <1>4, <1>5, NextSplit

LEMMA FairUseStep ==
  ASSUME FlowInv, FlowInv', FairUseInv, Next
  PROVE  FairUseInv'
<1> SUFFICES ASSUME NEW u \in Users, ~ChargedLate(u)' PROVE Counted(u)'
  BY DEF FairUseInv
<1>1. ~ChargedLate(u) /\ Counted(u)
  BY LateStays DEF FairUseInv
<1>2. CASE fairUse'[u] = fairUse[u] /\ servedOn'[u] = servedOn[u]
  BY <1>1, <1>2, DatesStep, CountedStays
<1>3. ASSUME NEW r \in Requests, ChargeUnlimited(r), req[r].user = u,
             ConsumeUnlimited(u, req[r].today),
             Become(r, [req[r] EXCEPT !.pc = "charged", !.chargedOn = now])
      PROVE  Counted(u)'
  <2>1. req[r] \in Request /\ now' = now
    BY <1>3 DEF ChargeUnlimited, FlowInv, FlowTypeOK
  <2>2. req'[r] = [req[r] EXCEPT !.pc = "charged", !.chargedOn = now]
    BY <1>3, Became DEF FlowInv
  <2>3. /\ req'[r].user = u /\ req'[r].pc \in Paid
        /\ req'[r].chargedOn = now /\ req'[r].today = req[r].today
    BY <1>3, <2>1, <2>2 DEF Request, Paid
  <2>4. req[r].today = now
    BY <2>3 DEF ChargedLate
  <2>5. now \in Days
    BY DEF FlowInv, FlowTypeOK
  <2> QED BY <1>1, <1>3, <2>1, <2>4, <2>5, CountedCharge
<1> QED BY <1>2, <1>3, CountersChange

\* The fair-use limit of a day holds for every user whose charges were all made on
\* the day they were stamped with, however many requests race for the last read.
THEOREM FairUseHolds == Spec => []FairUseUnlessLate
<1>1. Init => FlowInv /\ FairUseInv
  <2> SUFFICES ASSUME Init PROVE FairUseInv
    BY FlowInit
  <2> QED BY WalletAssumption DEF Init, FairUseInv, Counted
<1>2. FlowInv /\ FairUseInv /\ [Next]_vars => FlowInv' /\ FairUseInv'
  <2> SUFFICES ASSUME FlowInv, FairUseInv, [Next]_vars PROVE FlowInv' /\ FairUseInv'
    OBVIOUS
  <2>1. FlowInv'
    BY FlowStep
  <2>2. CASE Next
    BY <2>1, <2>2, FairUseStep
  <2>3. CASE UNCHANGED vars
    BY <2>1, <2>3 DEF vars, wvars, FairUseInv, Counted, ChargedLate
  <2> QED BY <2>1, <2>2, <2>3
<1>3. FairUseInv => FairUseUnlessLate
  BY DEF FairUseInv, Counted, FairUseUnlessLate
<1> QED BY <1>1, <1>2, <1>3, PTL DEF Spec

-----------------------------------------------------------------------------
(* One charge per read *)

\* OneChargePerRead is inductive beside the types: every request enters the set of
\* the paid ones with the consumption row it writes, and stays there.
PaidFor(u) == {r \in Requests : req[r].user = u /\ req[r].pc \in Paid}

\* A step that charges nobody leaves the acting request as paid as it was.
LEMMA StaysPaid ==
  ASSUME FlowInv, NEW r \in Requests, Acts(r), ~ChargeBalance(r), ~ChargeUnlimited(r)
  PROVE  /\ req'[r].pc \in Paid <=> req[r].pc \in Paid
         /\ req[r].pc \in Paid => req'[r].user = req[r].user
         /\ UNCHANGED <<drawn, servedOn>>
<1>0. FlowTypeOK /\ req[r] \in Request
  BY DEF FlowInv, FlowTypeOK
<1> USE DEF Paid, At
<1>1. ASSUME NEW u \in Users, Arrive(r, u) \/ ArriveConsume(r, u)
      PROVE  req[r].pc = "idle" /\ req'[r].pc \in {"accrue", "charge"}
  <2>1. CASE Arrive(r, u)
    <3>1. req'[r] = [Idle EXCEPT !.pc = "accrue", !.user = u, !.row = RowOf(u)]
      BY <1>0, <2>1, Became DEF Arrive
    <3> QED BY <2>1, <3>1, IdleType DEF Request, Arrive, MayArrive
  <2>2. CASE ArriveConsume(r, u)
    <3>1. req'[r] = [Idle EXCEPT !.pc = "charge", !.user = u]
      BY <1>0, <2>2, Became DEF ArriveConsume
    <3> QED BY <2>2, <3>1, IdleType DEF Request, ArriveConsume, MayArrive
  <2> QED BY <1>1, <2>1, <2>2
<1>2. CASE ReadSubscription(r)
  <2>1. Goto(r, "check") \/ \E y : Become(r, [req[r] EXCEPT !.pc = "grant", !.owed = y])
    BY <1>2 DEF ReadSubscription
  <2>2. CASE Goto(r, "check")
    BY <1>0, <1>2, <2>2, WentTo DEF ReadSubscription, wvars
  <2>3. ASSUME NEW y, Become(r, [req[r] EXCEPT !.pc = "grant", !.owed = y])
        PROVE  req'[r].pc = "grant"
    <3>1. req'[r] = [req[r] EXCEPT !.pc = "grant", !.owed = y]
      BY <1>0, <2>3, Became
    <3> QED BY <1>0, <3>1 DEF Request
  <2> QED BY <1>2, <2>1, <2>2, <2>3 DEF ReadSubscription, wvars
<1>3. CASE GrantDue(r)
  <2>1. PICK y : req'[r] = [req[r] EXCEPT !.pc = "advance", !.row = y]
    BY <1>0, <1>3, Became DEF GrantDue
  <2> QED BY <1>0, <1>3, <2>1 DEF Request, GrantDue, GrantSubscriptionHints
<1>4. CASE AdvanceAccrual(r)
  <2>1. req'[r] = [req[r] EXCEPT !.pc = "check", !.owed = NoDrip]
    BY <1>0, <1>4, Became DEF AdvanceAccrual
  <2> QED BY <1>0, <1>4, <2>1 DEF Request, AdvanceAccrual, wvars
<1>5. CASE Precheck(r)
  <2>1. \/ End(r, "refused")
        \/ \E m : Become(r, [req[r] EXCEPT !.pc = "model", !.row = NoRow, !.mode = m])
    BY <1>5 DEF Precheck
  <2>2. CASE End(r, "refused")
    BY <1>0, <1>5, <2>2, Ended DEF Precheck, wvars
  <2>3. ASSUME NEW m, Become(r, [req[r] EXCEPT !.pc = "model", !.row = NoRow, !.mode = m])
        PROVE  req'[r].pc = "model"
    <3>1. req'[r] = [req[r] EXCEPT !.pc = "model", !.row = NoRow, !.mode = m]
      BY <1>0, <2>3, Became
    <3> QED BY <1>0, <3>1 DEF Request
  <2> QED BY <1>5, <2>1, <2>2, <2>3 DEF Precheck, wvars
<1>6. CASE ModelAnswers(r) \/ ModelFails(r)
  <2>1. req'[r].pc \in {"stamp", "charge", "failed"}
    BY <1>0, <1>6, WentTo, Ended DEF ModelAnswers, ModelFails
  <2> QED BY <1>6, <2>1 DEF ModelAnswers, ModelFails, wvars
<1>7. CASE StampDay(r)
  <2>1. req'[r] = [req[r] EXCEPT !.pc = "charge", !.today = now]
    BY <1>0, <1>7, Became DEF StampDay
  <2> QED BY <1>0, <1>7, <2>1 DEF Request, StampDay, wvars
<1>8. CASE Respond(r)
  BY <1>0, <1>8, WentTo DEF Respond, wvars
<1>9. CASE Crash(r)
  BY <1>0, <1>9, WentTo, Ended DEF Crash, InFlight, wvars
<1> QED BY <1>1, <1>2, <1>3, <1>4, <1>5, <1>6, <1>7, <1>8, <1>9
        DEF Acts, Arrive, ArriveConsume, wvars

\* A charge that goes through moves its request among the paid ones and writes one
\* row for its user; one that does not ends the request and writes none.
LEMMA Charges ==
  ASSUME FlowInv, NEW r \in Requests, ChargeBalance(r) \/ ChargeUnlimited(r)
  PROVE  /\ req[r].pc \notin Paid /\ req[r].user \in Users
         /\ \/ /\ req'[r].pc \in Paid /\ req'[r].user = req[r].user
               /\ \/ Consume(req[r].user)
                  \/ req[r].today \in Days /\ ConsumeUnlimited(req[r].user, req[r].today)
            \/ req'[r].pc \notin Paid /\ UNCHANGED <<drawn, servedOn>>
<1>0. FlowTypeOK /\ req[r] \in Request
  BY DEF FlowInv, FlowTypeOK
<1>1. req[r].pc = "charge" /\ req[r].user \in Users
  BY <1>0 DEF ChargeBalance, ChargeUnlimited, At, FlowTypeOK
<1>2. CASE ChargeBalance(r)
  <2>1. \/ Consume(req[r].user) /\ req'[r].pc = "charged" /\ req'[r].user = req[r].user
        \/ req'[r].pc = "refused" /\ UNCHANGED <<drawn, servedOn>>
    BY <1>0, <1>2, WentTo, Ended DEF ChargeBalance, wvars
  <2> QED BY <1>1, <2>1 DEF Paid
<1>3. CASE ChargeUnlimited(r)
  <2>1. \/ /\ ConsumeUnlimited(req[r].user, req[r].today)
           /\ req'[r] = [req[r] EXCEPT !.pc = "charged", !.chargedOn = now]
        \/ req'[r].pc = "refused" /\ UNCHANGED <<drawn, servedOn>>
    BY <1>0, <1>3, Became, Ended DEF ChargeUnlimited, wvars
  <2>2. req[r].today \in Days
    BY <1>0, <1>3 DEF ChargeUnlimited, FlowTypeOK, At
  <2>3. ASSUME req'[r] = [req[r] EXCEPT !.pc = "charged", !.chargedOn = now]
        PROVE  req'[r].pc = "charged" /\ req'[r].user = req[r].user
    BY <1>0, <2>3 DEF Request
  <2> QED BY <1>1, <2>1, <2>2, <2>3 DEF Paid
<1> QED BY <1>2, <1>3

\* The rows of a user are counted up by one for a spend, on either way to pay.
LEMMA RowsCount ==
  ASSUME WalletTypeOK, NEW u \in Users, NEW v \in Users,
         \/ Consume(v)
         \/ \E d \in Days : ConsumeUnlimited(v, d)
  PROVE  /\ Drawn(u) + Served(u) \in Int
         /\ Drawn(u)' + Served(u)' = Drawn(u) + Served(u) + IF u = v THEN 1 ELSE 0
<1>1. IsFiniteSet(Days) /\ \A d \in Days : servedOn[u][d] \in Int
  BY WalletAssumption DEF WalletTypeOK
<1>2. Drawn(u) \in Int /\ Served(u) \in Int
  BY <1>1, SumType DEF WalletTypeOK, Buckets, Drawn, Served
<1>3. CASE Consume(v)
  <2>1. PICK b \in Buckets : drawn' = [drawn EXCEPT ![v][b] = @ + 1]
    BY <1>3 DEF Consume
  <2>2. Drawn(u)' = Drawn(u) + IF u = v THEN 1 ELSE 0
    BY <2>1 DEF WalletTypeOK, Buckets, Drawn
  <2>3. Served(u)' = Served(u)
    BY <1>3 DEF Consume, Served
  <2> QED BY <1>2, <2>2, <2>3
<1>4. ASSUME NEW d \in Days, ConsumeUnlimited(v, d)
      PROVE  Drawn(u)' + Served(u)' = Drawn(u) + Served(u) + IF u = v THEN 1 ELSE 0
  <2>1. /\ Drawn(u)' = Drawn(u)
        /\ servedOn' = [servedOn EXCEPT ![v][d] = @ + 1]
    BY <1>4 DEF ConsumeUnlimited, Drawn
  <2>2. CASE u = v
    <3>1. /\ servedOn'[u][d] = servedOn[u][d] + 1
          /\ \A e \in Days \ {d} : servedOn'[u][e] = servedOn[u][e]
      BY <2>1, <2>2 DEF WalletTypeOK
    <3>2. DiffersAt(d, servedOn[u], servedOn'[u], Days)
      BY <1>1, <3>1 DEF DiffersAt
    <3>3. SumFunctionOnSet(servedOn'[u], Days)
            = SumFunctionOnSet(servedOn[u], Days) - servedOn[u][d] + servedOn'[u][d]
      BY <1>1, <3>2, SumChange
    <3>4. Served(u)' = Served(u) - servedOn[u][d] + servedOn'[u][d]
      BY <3>3 DEF Served
    <3>5. servedOn[u][d] \in Int
      BY <1>1
    <3> QED BY <1>2, <2>1, <2>2, <3>1, <3>4, <3>5
  <2>3. CASE u # v
    <3>1. servedOn'[u] = servedOn[u]
      BY <2>1, <2>3 DEF WalletTypeOK
    <3>2. Served(u)' = Served(u)
      BY <3>1 DEF Served
    <3> QED BY <1>2, <2>1, <2>3, <3>2
  <2> QED BY <2>2, <2>3
<1> QED BY <1>2, <1>3, <1>4

LEMMA OneChargeStep ==
  ASSUME FlowInv, OneChargePerRead, Next
  PROVE  OneChargePerRead'
<1> SUFFICES ASSUME NEW u \in Users
             PROVE  Drawn(u)' + Served(u)' = Cardinality(PaidFor(u)')
  BY DEF OneChargePerRead, PaidFor
<1>1. Drawn(u) + Served(u) = Cardinality(PaidFor(u))
  BY DEF OneChargePerRead, PaidFor
<1>2. CASE UNCHANGED <<drawn, servedOn>> /\ PaidFor(u)' = PaidFor(u)
  BY <1>1, <1>2 DEF Drawn, Served
<1>3. ASSUME NEW r \in Requests, Acts(r), ~ChargeBalance(r), ~ChargeUnlimited(r)
      PROVE  UNCHANGED <<drawn, servedOn>> /\ PaidFor(u)' = PaidFor(u)
  <2>1. \A q \in Requests \ {r} : req'[q] = req[q]
    <3>1. \E x : Become(r, x)
      BY <1>3 DEF Acts, Arrive, ArriveConsume, ReadSubscription, GrantDue, AdvanceAccrual, Precheck,
                  ModelAnswers, ModelFails, StampDay, Respond, Crash, Goto, End
    <3> QED BY <3>1 DEF Become, FlowInv, FlowTypeOK
  <2> QED BY <1>3, <2>1, StaysPaid DEF PaidFor
<1>4. ASSUME Environment PROVE UNCHANGED <<drawn, servedOn>> /\ PaidFor(u)' = PaidFor(u)
  BY <1>4 DEF Environment, Tick, TopUp, AddTopupHints, EndSubscription, ChangePlan, wvars, PaidFor
<1>5. ASSUME NEW r \in Requests, ChargeBalance(r) \/ ChargeUnlimited(r)
      PROVE  Drawn(u)' + Served(u)' = Cardinality(PaidFor(u)')
  <2>1. \A q \in Requests \ {r} : req'[q] = req[q]
    <3>1. \E x : Become(r, x)
      BY <1>5 DEF ChargeBalance, ChargeUnlimited, Goto, End
    <3> QED BY <3>1 DEF Become, FlowInv, FlowTypeOK
  <2>2. /\ r \notin PaidFor(u) /\ req[r].user \in Users
        /\ IsFiniteSet(PaidFor(u))
    <3>1. PaidFor(u) \in SUBSET Requests
      BY DEF PaidFor
    <3> QED BY <1>5, <3>1, Charges, FS_Subset, ReadsAssumption DEF PaidFor
  <2>3. CASE req'[r].pc \notin Paid /\ UNCHANGED <<drawn, servedOn>>
    <3>1. PaidFor(u)' = PaidFor(u)
      BY <1>5, <2>1, <2>3, Charges DEF PaidFor
    <3> QED BY <1>2, <2>3, <3>1
  <2>4. CASE /\ req'[r].pc \in Paid /\ req'[r].user = req[r].user
             /\ \/ Consume(req[r].user)
                \/ req[r].today \in Days /\ ConsumeUnlimited(req[r].user, req[r].today)
    <3>1. /\ Drawn(u) + Served(u) \in Int
          /\ Drawn(u)' + Served(u)' = Drawn(u) + Served(u) + IF u = req[r].user THEN 1 ELSE 0
      BY <2>2, <2>4, RowsCount DEF FlowInv, WalletInv
    <3>2. CASE u = req[r].user
      <4>1. PaidFor(u)' = PaidFor(u) \cup {r}
        BY <2>1, <2>4, <3>2 DEF PaidFor
      <4>2. Cardinality(PaidFor(u) \cup {r}) = Cardinality(PaidFor(u)) + 1
        BY <2>2, FS_AddElement
      <4> QED BY <1>1, <3>1, <3>2, <4>1, <4>2
    <3>3. CASE u # req[r].user
      <4>1. PaidFor(u)' = PaidFor(u)
        BY <2>1, <2>4, <3>3 DEF PaidFor
      <4> QED BY <1>1, <3>1, <3>3, <4>1
    <3> QED BY <3>2, <3>3
  <2> QED BY <1>5, <2>3, <2>4, Charges
<1> QED BY <1>2, <1>3, <1>4, <1>5, NextSplit

LEMMA OneChargeInit == Init => OneChargePerRead
<1> SUFFICES ASSUME Init, NEW u \in Users
             PROVE  Drawn(u) + Served(u) = Cardinality(PaidFor(u))
  BY DEF OneChargePerRead, PaidFor
<1>1. PaidFor(u) = {}
  BY DEF Init, Idle, PaidFor, Paid
<1>2. Drawn(u) = 0
  BY DEF Init, Drawn, Buckets
<1>3. Served(u) = 0
  BY WalletAssumption, SumZero DEF Init, Served
<1> QED BY <1>1, <1>2, <1>3, FS_EmptySet

\* However many requests of a user overlap, fail, are refused or die: she has one
\* consumption row for each request that got past its charge, and no other.
THEOREM OneChargeHolds == Spec => []OneChargePerRead
<1>1. FlowInv /\ OneChargePerRead /\ [Next]_vars => FlowInv' /\ OneChargePerRead'
  <2> SUFFICES ASSUME FlowInv, OneChargePerRead, [Next]_vars PROVE OneChargePerRead'
    BY FlowStep
  <2>1. CASE UNCHANGED vars
    BY <2>1 DEF vars, wvars, OneChargePerRead, Drawn, Served
  <2> QED BY <2>1, OneChargeStep
<1> QED BY <1>1, FlowInit, OneChargeInit, PTL DEF Spec

-----------------------------------------------------------------------------
(***************************************************************************)
(* Plan changes and cancellations beside any number of reads: the store's  *)
(* and the flow's invariants of above survive them, the plan shown is the  *)
(* plan billed, a subscriber's hints go only by being spent, but for the   *)
(* two exceptions the model names, and a month is dripped once.            *)
(***************************************************************************)

\* Marking what Paddle bills as ending keeps its type.
LEMMA MarkedEnding ==
  ASSUME NEW S, NEW x \in [plan : S, ending : BOOLEAN]
  PROVE  [x EXCEPT !.ending = TRUE] \in [plan : S, ending : BOOLEAN]
OBVIOUS

USE PlanChangeAssumption DEF Settled, CallLabels

-----------------------------------------------------------------------------
(* Types *)

ChangeRecords ==
    [pc : CallLabels, user : Users \cup {NoUser}, held : Nat,
     target : Plans \cup {NoPlan}, upgrade : BOOLEAN]

NeedsTarget == {"decide", "recheck", "push", "rewrite", "raise"}

CallOK(x) ==
    /\ x \in ChangeRecords
    /\ x.pc # "idle" => x.user \in Users
    /\ x.pc \in NeedsTarget => x.target \in Plans
    /\ x.pc = "raise" => x.upgrade /\ ~x.target.unlimited

CallsOK == change \in [Changes -> ChangeRecords] /\ \A c \in Changes : CallOK(change[c])

BilledTypeOK ==
    /\ enabled \in BOOLEAN
    /\ paddle \in [Users -> [plan : Plans \cup {NoPlan}, ending : BOOLEAN]]
    /\ ending \in [Users -> BOOLEAN]
    /\ past \in [changed : SUBSET Users, doubt : SUBSET Users, raised : [Users -> Nat]]

ChangeInv == FlowInv /\ CallsOK /\ BilledTypeOK

\* The conjuncts are those of PlanTypeOK, and the ledgers.
LEMMA ChangeInvTypes == ChangeInv => PlanTypeOK /\ LedgerCoversBalance
BY DEF ChangeInv, FlowInv, WalletInv, FlowTypeOK, ReadsTypeOK, CallsOK, CallOK, ChangeRecords,
       NeedsTarget, BilledTypeOK, PlanTypeOK, On, Owner

\* A blank call is typed.
LEMMA NoCallType == NoCall \in ChangeRecords /\ NoCall.pc = "idle"
BY DEF NoCall, ChangeRecords

\* A call's step writes its own record.
LEMMA Stepped ==
  ASSUME CallsOK, NEW c \in Changes, NEW x, Step(c, x)
  PROVE  /\ change'[c] = x
         /\ \A d \in Changes \ {c} : change'[d] = change[d]
         /\ CallOK(x) => CallsOK'
<1>1. change'[c] = x /\ \A d \in Changes \ {c} : change'[d] = change[d]
  BY DEF CallsOK, Step
<1>2. ASSUME CallOK(x) PROVE CallsOK'
  <2>1. change' \in [Changes -> ChangeRecords]
    BY <1>2 DEF CallsOK, CallOK, Step
  <2> QED BY <1>1, <1>2, <2>1 DEF CallsOK
<1> QED BY <1>1, <1>2

\* Moving on keeps what the call holds.
LEMMA Gone ==
  ASSUME CallsOK, NEW c \in Changes, ~On(c, "idle"), NEW l \in CallLabels, Go(c, l),
         l \in NeedsTarget => change[c].target \in Plans,
         l = "raise" => change[c].upgrade /\ ~change[c].target.unlimited
  PROVE  /\ CallsOK' /\ change'[c].pc = l /\ Owner(c)' = Owner(c)
         /\ change'[c].target = change[c].target
         /\ \A d \in Changes \ {c} : change'[d] = change[d]
<1> DEFINE x == [change[c] EXCEPT !.pc = l]
<1>1. /\ x \in ChangeRecords /\ x.pc = l /\ x.user = change[c].user /\ x.user \in Users
      /\ x.target = change[c].target /\ x.upgrade = change[c].upgrade
  BY DEF CallsOK, CallOK, ChangeRecords, On
<1>2. CallOK(x) /\ Step(c, x)
  <2>1. Step(c, x)
    BY DEF Go
  <2> HIDE DEF x
  <2>2. CallOK(x)
    BY <1>1 DEF CallOK
  <2> QED BY <2>1, <2>2
<1> HIDE DEF x
<1> QED BY <1>1, <1>2, Stepped DEF Owner

\* Ending forgets all but whose call it was.
LEMMA Over ==
  ASSUME CallsOK, NEW c \in Changes, ~On(c, "idle"), NEW l \in Settled, Done(c, l)
  PROVE  /\ CallsOK' /\ change'[c].pc = l /\ Owner(c)' = Owner(c)
         /\ \A d \in Changes \ {c} : change'[d] = change[d]
<1> DEFINE x == [NoCall EXCEPT !.pc = l, !.user = Owner(c)]
<1>1. x \in ChangeRecords /\ x.pc = l /\ x.user = Owner(c) /\ x.user \in Users
  BY NoCallType DEF CallsOK, CallOK, ChangeRecords, On, Owner
<1>2. Step(c, x)
  BY DEF Done
<1> HIDE DEF x
<1>3. CallOK(x)
  BY <1>1 DEF CallOK, NeedsTarget
<1> QED BY <1>1, <1>2, <1>3, Stepped DEF Owner

-----------------------------------------------------------------------------
(* Every step of a call keeps the types, the store's and the flow's too *)

\* Whose call it is, and what it changes to.
LEMMA CallFacts ==
  ASSUME CallsOK, NEW c \in Changes
  PROVE  /\ change[c] \in ChangeRecords /\ change[c].held \in Nat
         /\ ~On(c, "idle") => Owner(c) \in Users
         /\ change[c].pc \in NeedsTarget => change[c].target \in Plans
BY DEF CallsOK, CallOK, ChangeRecords, On, Owner

\* The steps that touch the calls alone.
LEMMA CallsOnly ==
  ASSUME ChangeInv, NEW c \in Changes,
         \/ \E u \in Users : ArriveCancel(c, u) \/ \E p \in Plans : ArriveChange(c, u, p)
         \/ Decide(c) \/ Recheck(c) \/ Refetch(c) \/ Find(c)
  PROVE  CallsOK' /\ UNCHANGED <<vars, enabled, paddle, ending, past>>
<1>0. CallsOK /\ UNCHANGED <<vars, enabled, paddle, ending, past>>
  BY DEF ChangeInv, ArriveCancel, ArriveChange, Decide, Recheck, Refetch, Find
<1>1. ASSUME NEW u \in Users, ArriveCancel(c, u) PROVE CallsOK'
  <2> DEFINE x == [NoCall EXCEPT !.pc = "find", !.user = u]
  <2>1. x \in ChangeRecords /\ x.pc = "find" /\ x.user = u
    BY NoCallType DEF ChangeRecords
  <2>2. Step(c, x)
    BY <1>1 DEF ArriveCancel
  <2> HIDE DEF x
  <2> QED BY <1>0, <2>1, <2>2, Stepped DEF CallOK, NeedsTarget
<1>2. ASSUME NEW u \in Users, NEW p \in Plans, ArriveChange(c, u, p) PROVE CallsOK'
  <2> DEFINE x == [NoCall EXCEPT !.pc = "decide", !.user = u, !.held = wallet[u]["sub"], !.target = p]
  <2>1. x \in ChangeRecords /\ x.pc = "decide" /\ x.user = u /\ x.target = p
    <3>1. wallet[u]["sub"] \in Nat
      BY DEF ChangeInv, FlowInv, WalletInv, WalletTypeOK, Buckets
    <3> QED BY <3>1, NoCallType DEF ChangeRecords
  <2>2. Step(c, x)
    BY <1>2 DEF ArriveChange
  <2> HIDE DEF x
  <2> QED BY <1>0, <2>1, <2>2, Stepped DEF CallOK
<1>3. CASE Decide(c)
  <2> DEFINE up == Outranks(change[c].target, sub[Owner(c)].plan)
             x == [change[c] EXCEPT !.pc = "recheck", !.upgrade = up]
  <2>1. On(c, "decide") /\ ~On(c, "idle")
    BY <1>3 DEF Decide, On
  <2>2. CASE Step(c, x) /\ sub[Owner(c)].live
    <3>1. Owner(c) \in Users /\ change[c].target \in Plans /\ sub[Owner(c)].plan \in Plans
      BY <1>0, <2>1, <2>2, CallFacts DEF ChangeInv, FlowInv, FlowTypeOK, NeedsTarget, On
    <3>2. up \in BOOLEAN
      BY <3>1 DEF Outranks
    <3> HIDE DEF up
    <3>3. x \in ChangeRecords /\ x.pc = "recheck" /\ x.user \in Users /\ x.target \in Plans
      BY <1>0, <3>1, <3>2, CallFacts DEF ChangeRecords, Owner
    <3> HIDE DEF x
    <3> QED BY <1>0, <2>2, <3>3, Stepped DEF CallOK
  <2>3. CASE Done(c, "refused")
    BY <1>0, <2>1, <2>3, Over
  <2> QED BY <1>3, <2>2, <2>3 DEF Decide
<1>4. CASE Recheck(c)
  <2>1. ~On(c, "idle") /\ change[c].target \in Plans
    BY <1>0, <1>4, CallFacts DEF Recheck, On, NeedsTarget
  <2>2. Done(c, "refused") \/ Go(c, "rewrite") \/ Go(c, "push")
    BY <1>4 DEF Recheck
  <2> QED BY <1>0, <2>1, <2>2, Gone, Over
<1>5. CASE Refetch(c)
  <2>1. ~On(c, "idle") /\ (Done(c, "answered") \/ Done(c, "failed"))
    BY <1>5 DEF Refetch, On
  <2> QED BY <1>0, <2>1, Over
<1>6. CASE Find(c)
  <2>1. ~On(c, "idle") /\ (Done(c, "refused") \/ Go(c, "flag") \/ Go(c, "stop"))
    BY <1>6 DEF Find, On
  <2> QED BY <1>0, <2>1, Gone, Over DEF NeedsTarget
<1> QED BY <1>0, <1>1, <1>2, <1>3, <1>4, <1>5, <1>6

\* The steps that touch Paddle, or its mirror in the row.
LEMMA PaddleTypes ==
  ASSUME ChangeInv, NEW c \in Changes,
         PushToPaddle(c) \/ CancelAtPaddle(c) \/ FlagEnding(c) \/ CrashChange(c)
  PROVE  CallsOK' /\ BilledTypeOK' /\ UNCHANGED <<vars, enabled>>
<1>0. /\ CallsOK /\ BilledTypeOK /\ UNCHANGED <<vars, enabled>>
      /\ ~On(c, "idle") /\ Owner(c) \in Users
  BY CallFacts DEF ChangeInv, PushToPaddle, CancelAtPaddle, FlagEnding, CrashChange, On
<1>1. CASE PushToPaddle(c)
  <2>1. change[c].target \in Plans
    BY <1>0, <1>1, CallFacts DEF PushToPaddle, On, NeedsTarget
  <2>2. CallsOK'
    BY <1>0, <1>1, <2>1, Gone, Over DEF PushToPaddle, NeedsTarget
  <2>3. paddle' \in [Users -> [plan : Plans \cup {NoPlan}, ending : BOOLEAN]]
    BY <1>0, <1>1, <2>1 DEF PushToPaddle, Repriced, BilledTypeOK
  <2>4. past' \in [changed : SUBSET Users, doubt : SUBSET Users, raised : [Users -> Nat]]
    BY <1>0, <1>1 DEF PushToPaddle, BilledTypeOK
  <2>5. BilledTypeOK'
    BY <1>0, <1>1, <2>3, <2>4 DEF PushToPaddle, BilledTypeOK
  <2> QED BY <1>0, <2>2, <2>5
<1>2. CASE CancelAtPaddle(c)
  <2>1. CallsOK'
    BY <1>0, <1>2, Gone, Over DEF CancelAtPaddle, NeedsTarget
  <2>2. BilledTypeOK'
    <3>1. /\ UNCHANGED <<enabled, ending, past>>
          /\ (UNCHANGED paddle \/ paddle' = [paddle EXCEPT ![Owner(c)].ending = TRUE])
      BY <1>2 DEF CancelAtPaddle
    <3>2. ASSUME NEW u \in Users
          PROVE  [paddle[u] EXCEPT !.ending = TRUE] \in [plan : Plans \cup {NoPlan}, ending : BOOLEAN]
      <4>1. paddle[u] \in [plan : Plans \cup {NoPlan}, ending : BOOLEAN]
        BY <1>0 DEF BilledTypeOK
      <4> QED BY <4>1, MarkedEnding, Zenon
    <3>3. paddle' \in [Users -> [plan : Plans \cup {NoPlan}, ending : BOOLEAN]]
      BY <1>0, <3>1, <3>2 DEF BilledTypeOK
    <3> QED BY <1>0, <3>1, <3>3 DEF BilledTypeOK
  <2> QED BY <1>0, <2>1, <2>2
<1>3. CASE FlagEnding(c)
  BY <1>0, <1>3, Over DEF FlagEnding, BilledTypeOK
<1>4. CASE CrashChange(c)
  BY <1>0, <1>4, Over DEF CrashChange, BilledTypeOK
<1> QED BY <1>1, <1>2, <1>3, <1>4

\* The row and the bucket.
LEMMA RowTypes ==
  ASSUME ChangeInv, NEW c \in Changes, RewritePlan(c) \/ RaiseBucket(c)
  PROVE  ChangeInv'
<1>0. /\ CallsOK /\ BilledTypeOK /\ FlowTypeOK /\ WalletInv
      /\ ~On(c, "idle") /\ Owner(c) \in Users /\ change[c].target \in Plans
  BY CallFacts DEF ChangeInv, FlowInv, RewritePlan, RaiseBucket, On, NeedsTarget
<1>1. CASE RewritePlan(c)
  <2>1. CallsOK'
    <3>1. Go(c, "refetch") \/ (Go(c, "raise") /\ change[c].upgrade /\ ~change[c].target.unlimited)
      BY <1>1 DEF RewritePlan
    <3> QED BY <1>0, <3>1, Gone DEF NeedsTarget
  <2>2. BilledTypeOK'
    BY <1>0, <1>1 DEF RewritePlan, BilledTypeOK
  <2>3. WalletInv'
    BY <1>0, <1>1, StutterInv DEF RewritePlan
  <2>4. FlowTypeOK'
    <3>1. /\ sub' = [sub EXCEPT ![Owner(c)].plan = change[c].target]
          /\ UNCHANGED <<now, req>>
      BY <1>1 DEF RewritePlan
    <3>2. /\ sub' \in [Users -> [live : BOOLEAN, plan : Plans \cup {NoPlan},
                                paidUntil : Nat, accrued : Nat]]
          /\ \A u \in Users : sub'[u].live => sub'[u].plan \in Plans
      BY <1>0, <3>1 DEF FlowTypeOK
    <3> QED BY <1>0, <3>1, <3>2 DEF FlowTypeOK, At
  <2> QED BY <2>1, <2>2, <2>3, <2>4 DEF ChangeInv, FlowInv
<1>2. CASE RaiseBucket(c)
  <2> DEFINE allotment == change[c].target.perCycle
             target == IF change[c].held > allotment THEN change[c].held ELSE allotment
  <2>1. target \in Nat
    BY <1>0, CallFacts
  <2>2. /\ SetSubscriptionHints(Owner(c), target)
        /\ past' = [past EXCEPT !.raised[Owner(c)] = @ + target]
        /\ Go(c, "refetch") /\ UNCHANGED <<now, sub, req, enabled, paddle, ending>>
    BY <1>2 DEF RaiseBucket
  <2> HIDE DEF target
  <2>3. CallsOK'
    BY <1>0, <2>2, Gone DEF NeedsTarget
  <2>4. BilledTypeOK'
    BY <1>0, <2>1, <2>2 DEF BilledTypeOK
  <2>5. WalletInv'
    BY <1>0, <2>1, <2>2, SetInv
  <2>6. FlowTypeOK'
    BY <1>0, <2>2 DEF FlowTypeOK, At
  <2> QED BY <2>3, <2>4, <2>5, <2>6 DEF ChangeInv, FlowInv
<1> QED BY <1>1, <1>2

LEMMA ChangeInit == PlanInit => ChangeInv
<1> SUFFICES ASSUME PlanInit PROVE ChangeInv
  OBVIOUS
<1>1. FlowInv
  BY FlowInit DEF PlanInit
<1>2. CallsOK
  BY NoCallType DEF PlanInit, CallsOK, CallOK, NeedsTarget
<1>3. BilledTypeOK
  BY DEF PlanInit, BilledTypeOK
<1> QED BY <1>1, <1>2, <1>3 DEF ChangeInv

LEMMA FrameInv == ChangeInv /\ UNCHANGED planVars => CallsOK' /\ BilledTypeOK'
BY DEF ChangeInv, planVars, CallsOK, BilledTypeOK

LEMMA ChangeInvStep == ChangeInv /\ [PlanNext]_pvars => ChangeInv'
<1> SUFFICES ASSUME ChangeInv, [PlanNext]_pvars PROVE ChangeInv'
  OBVIOUS
<1>1. ASSUME NEW c \in Changes, ChangeStep(c) PROVE ChangeInv'
  <2>1. CASE RewritePlan(c) \/ RaiseBucket(c)
    BY <2>1, RowTypes
  <2>2. CASE PushToPaddle(c) \/ CancelAtPaddle(c) \/ FlagEnding(c) \/ CrashChange(c)
    <3>1. CallsOK' /\ BilledTypeOK' /\ UNCHANGED vars
      BY <2>2, PaddleTypes
    <3> QED BY <3>1, FlowStep DEF ChangeInv
  <2>3. CASE \/ \E u \in Users : ArriveCancel(c, u) \/ \E p \in Plans : ArriveChange(c, u, p)
             \/ Decide(c) \/ Recheck(c) \/ Refetch(c) \/ Find(c)
    <3>1. CallsOK' /\ UNCHANGED <<vars, enabled, paddle, ending, past>>
      BY <2>3, CallsOnly
    <3>2. FlowInv'
      BY <3>1, FlowStep DEF ChangeInv
    <3>3. BilledTypeOK'
      BY <3>1 DEF ChangeInv, BilledTypeOK
    <3> QED BY <3>1, <3>2, <3>3 DEF ChangeInv
  <2> QED BY <1>1, <2>1, <2>2, <2>3 DEF ChangeStep
<1>2. CASE Next /\ UNCHANGED planVars
  BY <1>2, FlowStep, FrameInv DEF ChangeInv
<1>3. CASE UNCHANGED pvars
  BY <1>3, FlowStep, FrameInv DEF ChangeInv, pvars
<1> QED BY <1>1, <1>2, <1>3 DEF PlanNext

\* Plan changes and cancellations, with whatever stale rows they hold, overdraw no
\* bucket and keep the ledgers covering every balance.
THEOREM PlanSafe == PlanSpec => [](PlanTypeOK /\ LedgerCoversBalance)
BY ChangeInit, ChangeInvStep, ChangeInvTypes, PTL DEF PlanSpec

-----------------------------------------------------------------------------
(* The plan shown is the plan billed *)

\* c has told Paddle and not written the row of u yet.
Pending(c, u) == On(c, "rewrite") /\ Owner(c) = u

\* What BilledAsShown needs of calls under way: at most one is pending for a user
\* in no doubt, and Paddle has its plan; with none, Paddle has the row's.
BilledFor(u) ==
    /\ (\A c \in Changes : ~Pending(c, u)) => paddle[u].plan = sub[u].plan
    /\ \A c \in Changes : Pending(c, u) =>
         /\ paddle[u].plan = change[c].target
         /\ \A d \in Changes : Pending(d, u) => d = c

BilledInv == enabled => \A u \in Users \ past.doubt : BilledFor(u)

\* What CancelIsToldToPaddle needs: a call that will flag the row has been heard.
EndingInv ==
    enabled => /\ \A u \in Users : ending[u] => paddle[u].ending
               /\ \A c \in Changes : On(c, "flag") => paddle[Owner(c)].ending

LEMMA BilledInit == PlanInit => BilledInv /\ EndingInv
<1> SUFFICES ASSUME PlanInit PROVE BilledInv /\ EndingInv
  OBVIOUS
<1>1. \A c \in Changes : change[c].pc = "idle"
  BY NoCallType DEF PlanInit
<1>2. \A u \in Users : paddle[u].plan = sub[u].plan
  BY DEF PlanInit, Init, NoSub, Activated
<1>3. \A u \in Users : ~ending[u]
  BY DEF PlanInit
<1> QED BY <1>1, <1>2, <1>3 DEF BilledInv, BilledFor, EndingInv, Pending, On

\* What neither touches a user's plan, here or there, nor a pending call.
LEMMA BilledQuiet ==
  ASSUME NEW u \in Users, BilledFor(u),
         paddle'[u].plan = paddle[u].plan, sub'[u].plan = sub[u].plan,
         \A c \in Changes : \/ change'[c] = change[c]
                            \/ ~Pending(c, u) /\ ~Pending(c, u)'
  PROVE  BilledFor(u)'
<1>1. \A c \in Changes : Pending(c, u)' => Pending(c, u) /\ change'[c] = change[c]
  BY DEF Pending, On, Owner
<1>2. \A c \in Changes : Pending(c, u) => Pending(c, u)'
  BY DEF Pending, On, Owner
<1> QED BY <1>1, <1>2 DEF BilledFor

\* Where the steps of a call lead: to the labels that matter below from one step
\* each, as long as Paddle is enabled.
LEMMA CallLeads ==
  ASSUME ChangeInv, NEW c \in Changes, ChangeStep(c)
  PROVE  /\ \A d \in Changes \ {c} : change'[d] = change[d]
         /\ change'[c].pc = "raise" => RewritePlan(c) /\ Owner(c)' = Owner(c)
         /\ change'[c].pc = "rewrite" => PushToPaddle(c) \/ ~enabled
         /\ change'[c].pc = "flag" => CancelAtPaddle(c) \/ ~enabled
<1> DEFINE Others == \A d \in Changes \ {c} : change'[d] = change[d]
<1>0. CallsOK
  BY DEF ChangeInv
<1>1. ASSUME NEW u \in Users, ArriveCancel(c, u) PROVE Others /\ change'[c].pc = "find"
  <2> DEFINE x == [NoCall EXCEPT !.pc = "find", !.user = u]
  <2>1. Step(c, x) /\ x.pc = "find"
    BY <1>1, NoCallType DEF ArriveCancel, ChangeRecords
  <2> HIDE DEF x
  <2> QED BY <1>0, <2>1, Stepped
<1>2. ASSUME NEW u \in Users, NEW p \in Plans, ArriveChange(c, u, p)
      PROVE  Others /\ change'[c].pc = "decide"
  <2> DEFINE x == [NoCall EXCEPT !.pc = "decide", !.user = u, !.held = wallet[u]["sub"], !.target = p]
  <2>1. Step(c, x) /\ x.pc = "decide"
    BY <1>2, NoCallType DEF ArriveChange, ChangeRecords
  <2> HIDE DEF x
  <2> QED BY <1>0, <2>1, Stepped
<1>3. CASE Decide(c)
  <2> DEFINE up == Outranks(change[c].target, sub[Owner(c)].plan)
             x == [change[c] EXCEPT !.pc = "recheck", !.upgrade = up]
  <2>1. Step(c, x) \/ (Done(c, "refused") /\ ~On(c, "idle"))
    BY <1>3 DEF Decide, On
  <2>2. x.pc = "recheck"
    BY <1>0, CallFacts DEF ChangeRecords
  <2> HIDE DEF x
  <2>3. Others /\ change'[c].pc \in {"recheck", "refused"}
    BY <1>0, <2>1, <2>2, Stepped, Over
  <2> QED BY <2>3
<1>4. CASE Recheck(c) \/ PushToPaddle(c)
  <2>1. /\ ~On(c, "idle") /\ change[c].target \in Plans
        /\ \/ Done(c, "refused") \/ Go(c, "push")
           \/ Go(c, "rewrite") /\ (PushToPaddle(c) \/ ~enabled)
    BY <1>0, <1>4, CallFacts DEF Recheck, PushToPaddle, On, NeedsTarget
  <2> QED BY <1>0, <2>1, Gone, Over
<1>5. CASE RewritePlan(c)
  <2>1. /\ ~On(c, "idle") /\ change[c].target \in Plans
        /\ \/ Go(c, "refetch")
           \/ Go(c, "raise") /\ change[c].upgrade /\ ~change[c].target.unlimited
    BY <1>0, <1>5, CallFacts DEF RewritePlan, On, NeedsTarget
  <2> QED BY <1>0, <1>5, <2>1, Gone DEF NeedsTarget
<1>6. CASE RaiseBucket(c) \/ Refetch(c) \/ Find(c) \/ CancelAtPaddle(c) \/ FlagEnding(c)
           \/ CrashChange(c)
  <2>1. /\ ~On(c, "idle")
        /\ \/ \E l \in Settled : Done(c, l)
           \/ Go(c, "refetch") \/ Go(c, "stop")
           \/ Go(c, "flag") /\ (CancelAtPaddle(c) \/ ~enabled)
    BY <1>6 DEF RaiseBucket, Refetch, Find, CancelAtPaddle, FlagEnding, CrashChange, On
  <2> QED BY <1>0, <2>1, Gone, Over DEF NeedsTarget
<1> QED BY <1>1, <1>2, <1>3, <1>4, <1>5, <1>6 DEF ChangeStep

\* Where the steps of a call lead that do not come from or go to "rewrite".
LEMMA QuietCall ==
  ASSUME ChangeInv, enabled, NEW c \in Changes,
         \/ \E u \in Users : ArriveCancel(c, u) \/ \E p \in Plans : ArriveChange(c, u, p)
         \/ Decide(c) \/ Recheck(c) \/ RaiseBucket(c) \/ Refetch(c) \/ Find(c)
         \/ CancelAtPaddle(c) \/ FlagEnding(c)
  PROVE  /\ ~On(c, "rewrite") /\ change'[c].pc # "rewrite"
         /\ change'[c].pc = "flag" => CancelAtPaddle(c)
         /\ \A d \in Changes \ {c} : change'[d] = change[d]
         /\ \A u \in Users : sub'[u].plan = sub[u].plan /\ paddle'[u].plan = paddle[u].plan
         /\ past'.doubt = past.doubt /\ enabled' = enabled
<1>0. CallsOK /\ BilledTypeOK
  BY DEF ChangeInv
<1>1. /\ ~On(c, "rewrite") /\ UNCHANGED <<sub, enabled>>
      /\ \A u \in Users : paddle'[u].plan = paddle[u].plan
  <2>1. CASE CancelAtPaddle(c)
    <3>1. /\ On(c, "stop") /\ UNCHANGED <<vars, enabled>>
          /\ paddle' = paddle \/ paddle' = [paddle EXCEPT ![Owner(c)].ending = TRUE]
      BY <2>1 DEF CancelAtPaddle
    <3> QED BY <1>0, <3>1 DEF BilledTypeOK, On, vars
  <2>2. CASE ~CancelAtPaddle(c)
    BY <2>2 DEF ArriveCancel, ArriveChange, Decide, Recheck, RaiseBucket, Refetch, Find, FlagEnding,
                On, vars
  <2> QED BY <2>1, <2>2
<1>2. past'.doubt = past.doubt
  <2>1. CASE RaiseBucket(c)
    BY <1>0, <2>1 DEF RaiseBucket, BilledTypeOK
  <2>2. CASE ~RaiseBucket(c)
    BY <2>2 DEF ArriveCancel, ArriveChange, Decide, Recheck, Refetch, Find, CancelAtPaddle, FlagEnding
  <2> QED BY <2>1, <2>2
<1>3. /\ change'[c].pc # "rewrite" /\ (change'[c].pc = "flag" => CancelAtPaddle(c))
      /\ \A d \in Changes \ {c} : change'[d] = change[d]
  <2>1. ChangeStep(c)
    BY DEF ChangeStep
  <2>2. ~PushToPaddle(c)
    BY DEF PushToPaddle, ArriveCancel, ArriveChange, Decide, Recheck, RaiseBucket, Refetch, Find,
           CancelAtPaddle, FlagEnding, On
  <2> QED BY <2>1, <2>2, CallLeads
<1> QED BY <1>1, <1>2, <1>3

\* Telling Paddle, and writing the row.
LEMMA PushBilled ==
  ASSUME ChangeInv, BilledInv, enabled, NEW c \in Changes, PushToPaddle(c)
  PROVE  BilledInv'
<1>0. /\ CallsOK /\ BilledTypeOK /\ Owner(c) \in Users /\ change[c].target \in Plans
      /\ ~On(c, "idle") /\ ~On(c, "rewrite") /\ UNCHANGED <<sub, enabled>>
      /\ past' = past \/ past' = [past EXCEPT !.doubt = @ \cup {Owner(c)}]
  BY CallFacts DEF ChangeInv, PushToPaddle, On, NeedsTarget, vars
<1>1. past.doubt \subseteq past'.doubt
  BY <1>0 DEF BilledTypeOK
<1>2. \A d \in Changes \ {c} : change'[d] = change[d]
  BY <1>0, Gone, Over DEF PushToPaddle, NeedsTarget
<1> SUFFICES ASSUME NEW u \in Users, u \notin past'.doubt PROVE BilledFor(u)'
  BY DEF BilledInv
<1>3. BilledFor(u)
  BY <1>1 DEF BilledInv
<1>4. CASE u # Owner(c)
  <2>1. paddle'[u] = paddle[u] /\ Owner(c)' = Owner(c)
    BY <1>0, <1>4, Gone, Over DEF PushToPaddle, NeedsTarget, Repriced, BilledTypeOK
  <2> QED BY <1>0, <1>2, <1>3, <1>4, <2>1, BilledQuiet DEF Pending
<1>5. CASE u = Owner(c) /\ paddle' = paddle /\ Done(c, "refused")
  <2>1. change'[c].pc = "refused"
    BY <1>0, <1>5, Over
  <2> QED BY <1>0, <1>2, <1>3, <1>5, <2>1, BilledQuiet DEF Pending, On
<1>6. CASE u = Owner(c) /\ paddle' = Repriced(c) /\ Go(c, "rewrite") /\ ~Crossed(c)
  <2>1. /\ change'[c].pc = "rewrite" /\ Owner(c)' = u /\ change'[c].target = change[c].target
    BY <1>0, <1>6, Gone
  <2>2. paddle'[u].plan = change'[c].target
    BY <1>0, <1>6, <2>1 DEF Repriced, BilledTypeOK
  <2>3. \A d \in Changes : Pending(d, u)' => d = c
    BY <1>2, <1>6 DEF Pending, Crossed, On, Owner
  <2>4. Pending(c, u)'
    BY <2>1 DEF Pending, On
  <2> QED BY <2>2, <2>3, <2>4 DEF BilledFor
<1> QED
  <2>1. u = Owner(c) /\ past' = [past EXCEPT !.doubt = @ \cup {Owner(c)}] => FALSE
    BY <1>0 DEF BilledTypeOK
  <2> QED BY <1>4, <1>5, <1>6, <2>1 DEF PushToPaddle

LEMMA RewriteBilled ==
  ASSUME ChangeInv, BilledInv, enabled, NEW c \in Changes, RewritePlan(c)
  PROVE  BilledInv'
<1>0. /\ CallsOK /\ BilledTypeOK /\ FlowTypeOK /\ Owner(c) \in Users /\ change[c].target \in Plans
      /\ ~On(c, "idle") /\ On(c, "rewrite") /\ UNCHANGED <<paddle, enabled>>
      /\ sub' = [sub EXCEPT ![Owner(c)].plan = change[c].target]
      /\ past' = [past EXCEPT !.changed = @ \cup {Owner(c)}]
      /\ \/ Go(c, "refetch")
         \/ Go(c, "raise") /\ change[c].upgrade /\ ~change[c].target.unlimited
  BY CallFacts DEF ChangeInv, FlowInv, RewritePlan, On, NeedsTarget
<1>1. /\ change'[c].pc # "rewrite" /\ Owner(c)' = Owner(c)
      /\ \A d \in Changes \ {c} : change'[d] = change[d]
  BY <1>0, Gone DEF NeedsTarget
<1>2. past'.doubt = past.doubt
  BY <1>0 DEF BilledTypeOK
<1> SUFFICES ASSUME NEW u \in Users, u \notin past.doubt PROVE BilledFor(u)'
  BY <1>2 DEF BilledInv
<1>3. BilledFor(u)
  BY DEF BilledInv
<1>4. CASE u # Owner(c)
  <2>1. sub'[u] = sub[u]
    BY <1>0, <1>4 DEF FlowTypeOK
  <2> QED BY <1>0, <1>1, <1>3, <1>4, <2>1, BilledQuiet DEF Pending
<1>5. CASE u = Owner(c)
  <2>1. Pending(c, u)
    BY <1>0, <1>5 DEF Pending
  <2>2. paddle[u].plan = change[c].target /\ \A d \in Changes : Pending(d, u) => d = c
    BY <1>3, <2>1 DEF BilledFor
  <2>3. \A d \in Changes : ~Pending(d, u)'
    BY <1>1, <2>2 DEF Pending, On, Owner
  <2>4. paddle'[u].plan = sub'[u].plan
    BY <1>0, <1>5, <2>2 DEF FlowTypeOK
  <2> QED BY <2>3, <2>4 DEF BilledFor
<1> QED BY <1>4, <1>5

LEMMA CrashBilled ==
  ASSUME ChangeInv, BilledInv, enabled, NEW c \in Changes, CrashChange(c)
  PROVE  BilledInv'
<1>0. /\ CallsOK /\ BilledTypeOK /\ Owner(c) \in Users /\ ~On(c, "idle")
      /\ UNCHANGED <<sub, paddle, enabled>> /\ Done(c, "crashed")
  BY CallFacts DEF ChangeInv, CrashChange, On, vars
<1>1. /\ change'[c].pc = "crashed" /\ Owner(c)' = Owner(c)
      /\ \A d \in Changes \ {c} : change'[d] = change[d]
  BY <1>0, Over
<1> SUFFICES ASSUME NEW u \in Users, u \notin past'.doubt PROVE BilledFor(u)'
  BY DEF BilledInv
<1>2. u \notin past.doubt /\ ~Pending(c, u)
  BY <1>0 DEF CrashChange, BilledTypeOK, Pending
<1>3. BilledFor(u)
  BY <1>2 DEF BilledInv
<1> QED BY <1>0, <1>1, <1>2, <1>3, BilledQuiet DEF Pending, On

LEMMA BilledStep == ChangeInv /\ BilledInv /\ [PlanNext]_pvars => BilledInv'
<1> SUFFICES ASSUME ChangeInv, BilledInv, [PlanNext]_pvars, enabled' PROVE BilledInv'
  BY DEF BilledInv
<1>0. enabled' = enabled
  BY DEF PlanNext, ChangeStep, ArriveCancel, ArriveChange, Decide, Recheck, PushToPaddle,
         RewritePlan, RaiseBucket, Refetch, Find, CancelAtPaddle, FlagEnding, CrashChange,
         planVars, pvars
<1>1. ASSUME NEW c \in Changes, ChangeStep(c) PROVE BilledInv'
  <2>1. CASE PushToPaddle(c) \/ RewritePlan(c) \/ CrashChange(c)
    BY <1>0, <2>1, PushBilled, RewriteBilled, CrashBilled
  <2>2. CASE \/ \E u \in Users : ArriveCancel(c, u) \/ \E p \in Plans : ArriveChange(c, u, p)
             \/ Decide(c) \/ Recheck(c) \/ RaiseBucket(c) \/ Refetch(c) \/ Find(c)
             \/ CancelAtPaddle(c) \/ FlagEnding(c)
    <3>1. /\ ~On(c, "rewrite") /\ change'[c].pc # "rewrite"
          /\ \A d \in Changes \ {c} : change'[d] = change[d]
          /\ \A u \in Users : sub'[u].plan = sub[u].plan /\ paddle'[u].plan = paddle[u].plan
          /\ past'.doubt = past.doubt
      BY <1>0, <2>2, QuietCall
    <3> SUFFICES ASSUME NEW u \in Users, u \notin past.doubt PROVE BilledFor(u)'
      BY <3>1 DEF BilledInv
    <3>2. BilledFor(u)
      BY <1>0 DEF BilledInv
    <3>3. ~Pending(c, u) /\ ~Pending(c, u)'
      BY <3>1 DEF Pending, On
    <3> QED BY <3>1, <3>2, <3>3, BilledQuiet
  <2> QED BY <1>1, <2>1, <2>2 DEF ChangeStep
<1>2. CASE UNCHANGED planVars /\ \A u \in Users : sub'[u].plan = sub[u].plan
  <2>1. SUFFICES ASSUME NEW u \in Users \ past.doubt PROVE BilledFor(u)'
    BY <1>2 DEF BilledInv, planVars
  <2>2. BilledFor(u)
    BY <1>0, <2>1 DEF BilledInv
  <2> QED BY <1>2, <2>2, BilledQuiet DEF planVars
<1>3. CASE UNCHANGED pvars
  BY <1>2, <1>3 DEF pvars, vars
<1> QED BY <1>1, <1>2, <1>3 DEF PlanNext

\* Paddle never forgets a cancellation, and a row is flagged after it was told.
LEMMA EndingStep == ChangeInv /\ EndingInv /\ [PlanNext]_pvars => EndingInv'
<1> SUFFICES ASSUME ChangeInv, EndingInv, [PlanNext]_pvars, enabled' PROVE EndingInv'
  BY DEF EndingInv
<1>0. CallsOK /\ BilledTypeOK /\ enabled' = enabled
  BY DEF PlanNext, ChangeStep, ArriveCancel, ArriveChange, Decide, Recheck, PushToPaddle,
         RewritePlan, RaiseBucket, Refetch, Find, CancelAtPaddle, FlagEnding, CrashChange,
         planVars, pvars, ChangeInv
<1>1. ASSUME NEW c \in Changes, ChangeStep(c),
             \A u \in Users : (paddle[u].ending => paddle'[u].ending) /\ (ending'[u] => paddle'[u].ending),
             change'[c].pc = "flag" => Owner(c)' \in Users /\ paddle'[Owner(c)'].ending,
             \A d \in Changes \ {c} : change'[d] = change[d]
      PROVE  EndingInv'
  <2>1. ASSUME NEW d \in Changes, On(d, "flag")' PROVE paddle'[Owner(d)'].ending
    <3>1. CASE d = c
      BY <1>1, <2>1, <3>1 DEF On, Owner
    <3>2. CASE d # c
      <4>1. On(d, "flag") /\ Owner(d)' = Owner(d) /\ Owner(d) \in Users
        BY <1>0, <1>1, <2>1, <3>2, CallFacts DEF On, Owner
      <4> QED BY <1>0, <1>1, <4>1 DEF EndingInv
    <3> QED BY <3>1, <3>2
  <2> QED BY <1>1, <2>1 DEF EndingInv, On, Owner
<1>2. ASSUME NEW c \in Changes, ChangeStep(c) PROVE EndingInv'
  <2>1. CASE CancelAtPaddle(c)
    <3>1. /\ ~On(c, "idle") /\ Owner(c) \in Users /\ ending' = ending
          /\ \/ paddle' = paddle /\ Done(c, "refused")
             \/ /\ paddle' = [paddle EXCEPT ![Owner(c)].ending = TRUE]
                /\ Go(c, "flag") \/ Done(c, "refused")
      BY <1>0, <2>1, CallFacts DEF CancelAtPaddle, On
    <3>2. \A u \in Users : paddle[u].ending => paddle'[u].ending
      BY <1>0, <3>1 DEF BilledTypeOK
    <3>3. paddle' = paddle \/ paddle'[Owner(c)].ending
      BY <1>0, <3>1 DEF BilledTypeOK
    <3>4. /\ Owner(c)' = Owner(c) /\ \A d \in Changes \ {c} : change'[d] = change[d]
          /\ change'[c].pc = "flag" => paddle'[Owner(c)].ending
      <4>1. CASE Done(c, "refused")
        BY <1>0, <3>1, <4>1, Over
      <4>2. CASE Go(c, "flag") /\ paddle' = [paddle EXCEPT ![Owner(c)].ending = TRUE]
        <5>1. paddle'[Owner(c)].ending
          BY <1>0, <3>1, <4>2 DEF BilledTypeOK
        <5> QED BY <1>0, <3>1, <4>2, <5>1, Gone DEF NeedsTarget
      <4> QED BY <3>1, <4>1, <4>2
    <3> QED BY <1>0, <1>1, <1>2, <3>1, <3>2, <3>4 DEF EndingInv
  <2>2. CASE PushToPaddle(c)
    <3>1. /\ ~On(c, "idle") /\ Owner(c) \in Users /\ change[c].target \in Plans /\ ending' = ending
          /\ paddle' = paddle \/ paddle' = Repriced(c)
          /\ Go(c, "rewrite") \/ Done(c, "refused")
      BY <1>0, <2>2, CallFacts DEF PushToPaddle, On, NeedsTarget
    <3>2. \A u \in Users : paddle'[u].ending = paddle[u].ending
      BY <1>0, <3>1 DEF BilledTypeOK, Repriced
    <3>3. change'[c].pc # "flag" /\ \A d \in Changes \ {c} : change'[d] = change[d]
      BY <1>0, <3>1, Gone, Over
    <3> QED BY <1>0, <1>1, <1>2, <3>1, <3>2, <3>3 DEF EndingInv
  <2>3. CASE FlagEnding(c)
    <3>1. /\ ~On(c, "idle") /\ On(c, "flag") /\ Owner(c) \in Users
          /\ paddle' = paddle /\ ending' = [ending EXCEPT ![Owner(c)] = TRUE] /\ Done(c, "answered")
      BY <1>0, <2>3, CallFacts DEF FlagEnding, On
    <3>2. \A u \in Users : ending'[u] => ending[u] \/ u = Owner(c)
      BY <1>0, <3>1 DEF BilledTypeOK
    <3>3. paddle[Owner(c)].ending
      BY <1>0, <3>1 DEF EndingInv
    <3>4. change'[c].pc # "flag" /\ \A d \in Changes \ {c} : change'[d] = change[d]
      BY <1>0, <3>1, Over
    <3> QED BY <1>0, <1>1, <1>2, <3>1, <3>2, <3>3, <3>4 DEF EndingInv
  <2>4. CASE RewritePlan(c)
    <3>1. /\ ~On(c, "idle") /\ Owner(c) \in Users /\ change[c].target \in Plans
          /\ paddle' = paddle /\ ending' = [ending EXCEPT ![Owner(c)] = FALSE]
          /\ \/ Go(c, "refetch")
             \/ Go(c, "raise") /\ change[c].upgrade /\ ~change[c].target.unlimited
      BY <1>0, <2>4, CallFacts DEF RewritePlan, On, NeedsTarget
    <3>2. \A u \in Users : ending'[u] => ending[u]
      BY <1>0, <3>1 DEF BilledTypeOK
    <3>3. change'[c].pc # "flag" /\ \A d \in Changes \ {c} : change'[d] = change[d]
      BY <1>0, <3>1, Gone DEF NeedsTarget
    <3> QED BY <1>0, <1>1, <1>2, <3>1, <3>2, <3>3 DEF EndingInv
  <2>5. CASE CrashChange(c)
    <3>1. ~On(c, "idle") /\ paddle' = paddle /\ ending' = ending /\ Done(c, "crashed")
      BY <2>5 DEF CrashChange, On
    <3>2. change'[c].pc # "flag" /\ \A d \in Changes \ {c} : change'[d] = change[d]
      BY <1>0, <3>1, Over
    <3> QED BY <1>0, <1>1, <1>2, <3>1, <3>2 DEF EndingInv
  <2>6. CASE \/ \E u \in Users : ArriveCancel(c, u) \/ \E p \in Plans : ArriveChange(c, u, p)
             \/ Decide(c) \/ Recheck(c) \/ RaiseBucket(c) \/ Refetch(c) \/ Find(c)
    <3>1. CASE CancelAtPaddle(c)
      BY <2>1, <3>1
    <3>2. CASE ~CancelAtPaddle(c)
      <4>1. change'[c].pc # "flag" /\ \A d \in Changes \ {c} : change'[d] = change[d]
        BY <1>0, <2>6, <3>2, QuietCall
      <4>2. paddle' = paddle /\ ending' = ending
        BY <2>6 DEF ArriveCancel, ArriveChange, Decide, Recheck, RaiseBucket, Refetch, Find
      <4> QED BY <1>0, <1>1, <1>2, <4>1, <4>2 DEF EndingInv
    <3> QED BY <3>1, <3>2
  <2> QED BY <1>2, <2>1, <2>2, <2>3, <2>4, <2>5, <2>6 DEF ChangeStep
<1>3. CASE UNCHANGED <<change, paddle, ending>>
  BY <1>0, <1>3 DEF EndingInv, On, Owner
<1> QED BY <1>2, <1>3 DEF PlanNext, planVars, pvars

\* The plan shown to a user in no doubt is the plan Paddle bills, however many
\* calls, refusals, lost answers and crashes interleave with the reads.
THEOREM BilledHolds == PlanSpec => []BilledAsShown
<1>1. PlanInit => ChangeInv /\ BilledInv
  BY ChangeInit, BilledInit
<1>2. ChangeInv /\ BilledInv /\ [PlanNext]_pvars => ChangeInv' /\ BilledInv'
  BY ChangeInvStep, BilledStep
<1>3. BilledInv => BilledAsShown
  <2> SUFFICES ASSUME BilledInv, NEW u \in Users, enabled, u \notin past.doubt,
                      \A c \in Changes : Owner(c) = u => change[c].pc \in Settled
               PROVE  paddle[u].plan = sub[u].plan
    BY DEF BilledAsShown
  <2>1. \A c \in Changes : ~Pending(c, u)
    BY DEF Pending, On
  <2> QED BY <2>1 DEF BilledInv, BilledFor
<1> QED BY <1>1, <1>2, <1>3, PTL DEF PlanSpec

\* Nobody is shown a cancellation that Paddle does not know of, wherever a call is
\* refused, loses its answer, dies or is overtaken by a plan change.
THEOREM CancelsTold == PlanSpec => []CancelIsToldToPaddle
<1>1. PlanInit => ChangeInv /\ EndingInv
  BY ChangeInit, BilledInit
<1>2. ChangeInv /\ EndingInv /\ [PlanNext]_pvars => ChangeInv' /\ EndingInv'
  BY ChangeInvStep, EndingStep
<1>3. EndingInv => CancelIsToldToPaddle
  BY DEF EndingInv, CancelIsToldToPaddle
<1> QED BY <1>1, <1>2, <1>3, PTL DEF PlanSpec

-----------------------------------------------------------------------------
(* Hints go only by being spent *)

\* The cap of the plan a user started with.
FirstCap(u) == IF InitialPlan[u] = NoPlan THEN 0 ELSE Cap(InitialPlan[u])

\* A user no call has rewritten has that plan still, holds no more than its cap,
\* and no request carries another.
KeptFor(u) ==
    /\ sub[u].plan = InitialPlan[u]
    /\ wallet[u]["sub"] <= FirstCap(u)
    /\ \A r \in Requests :
         At(r, "grant") /\ req[r].user = u => FirstCap(u) > 0 /\ req[r].owed.cap = FirstCap(u)

\* A bucket is set only after the row was rewritten.
RaisesAreChanges == \A c \in Changes : On(c, "raise") => Owner(c) \in past.changed

KeptInv == RaisesAreChanges /\ \A u \in Users \ past.changed : KeptFor(u)

LEMMA FirstCapNat == \A u \in Users : FirstCap(u) \in Nat
BY CapNat DEF FirstCap

LEMMA KeptInit == PlanInit => KeptInv
<1> SUFFICES ASSUME PlanInit PROVE KeptInv
  OBVIOUS
<1>1. RaisesAreChanges
  BY NoCallType DEF PlanInit, RaisesAreChanges, On
<1>2. ASSUME NEW u \in Users PROVE KeptFor(u)
  <2>1. sub[u].plan = InitialPlan[u]
    BY DEF PlanInit, Init, NoSub, Activated
  <2>2. wallet[u]["sub"] = FirstCycle(u)
    BY DEF PlanInit, Init, Buckets
  <2>3. FirstCycle(u) <= FirstCap(u)
    <3>1. CASE InitialPlan[u] = NoPlan
      BY <3>1 DEF FirstCycle, FirstCap
    <3>2. CASE InitialPlan[u] \in Plans /\ ~InitialPlan[u].unlimited
      BY <3>2, CapPositive DEF FirstCycle, FirstCap
    <3>3. CASE InitialPlan[u] \in Plans /\ InitialPlan[u].unlimited
      BY <3>3 DEF FirstCycle, FirstCap, Cap
    <3> QED BY <3>1, <3>2, <3>3
  <2>4. \A r \in Requests : ~At(r, "grant")
    BY DEF PlanInit, Init, Idle, At
  <2> QED BY <2>1, <2>2, <2>3, <2>4 DEF KeptFor
<1> QED BY <1>1, <1>2 DEF KeptInv

\* A drip under the cap of the plan it was read with takes nothing away.
LEMMA DripKeeps ==
  ASSUME FlowInv, NEW u \in Users, KeptFor(u), NEW r \in Requests, GrantDue(r), req[r].user = u
  PROVE  wallet[u]["sub"] <= wallet'[u]["sub"] /\ wallet'[u]["sub"] <= FirstCap(u)
<1> DEFINE held == wallet[u]["sub"]
           amount == req[r].owed.amount
<1>1. held \in Nat /\ amount \in Nat /\ FirstCap(u) \in Nat
  BY FirstCapNat DEF FlowInv, WalletInv, WalletTypeOK, Buckets, FlowTypeOK, Request, OwedDrips
<1>2. held <= FirstCap(u) /\ FirstCap(u) > 0 /\ req[r].owed.cap = FirstCap(u)
  BY DEF KeptFor, GrantDue
<1>3. wallet'[u]["sub"] = Rollover(held, amount, FirstCap(u))
  <2>1. GrantSubscriptionHints(u, amount, FirstCap(u))
    BY <1>2 DEF GrantDue
  <2> QED BY <2>1 DEF GrantSubscriptionHints, FlowInv, WalletInv, WalletTypeOK, Buckets
<1> HIDE DEF held, amount
<1>4. held <= Rollover(held, amount, FirstCap(u)) /\ Rollover(held, amount, FirstCap(u)) <= FirstCap(u)
  BY <1>1, <1>2 DEF Rollover
<1> QED BY <1>3, <1>4 DEF held

LEMMA FlowKeeps ==
  ASSUME FlowInv, FlowInv', Next, NEW u \in Users, KeptFor(u), sub'[u].plan = sub[u].plan
  PROVE  KeptFor(u)'
<1>1. sub'[u].plan = InitialPlan[u]
  BY DEF KeptFor
<1>2. wallet'[u]["sub"] <= FirstCap(u)
  <2>1. wallet[u]["sub"] \in Nat /\ wallet'[u]["sub"] \in Nat /\ FirstCap(u) \in Nat
    BY FirstCapNat DEF FlowInv, WalletInv, WalletTypeOK, Buckets
  <2>2. wallet[u]["sub"] <= FirstCap(u)
    BY DEF KeptFor
  <2>3. CASE \E r \in Requests : GrantDue(r) /\ req[r].user = u
    BY <2>3, DripKeeps
  <2>4. CASE wallet'[u]["sub"] <= wallet[u]["sub"]
    BY <2>1, <2>2, <2>4
  <2> QED BY <2>1, <2>3, <2>4, BucketMoves
<1>3. ASSUME NEW r \in Requests, At(r, "grant")', req'[r].user = u
      PROVE  FirstCap(u) > 0 /\ req'[r].owed.cap = FirstCap(u)
  <2>1. CASE req'[r] = req[r]
    BY <1>3, <2>1 DEF KeptFor, At
  <2>2. CASE req'[r] # req[r]
    <3>1. /\ req[r].user = u /\ sub[u].plan \in Plans /\ ~sub[u].plan.unlimited
          /\ req'[r].owed.cap = Cap(sub[u].plan)
      BY <1>3, <2>2, CapCarried
    <3>2. FirstCap(u) = Cap(sub[u].plan)
      BY <3>1 DEF KeptFor, FirstCap
    <3> QED BY <3>1, <3>2, CapPositive
  <2> QED BY <2>1, <2>2
<1> QED BY <1>1, <1>2, <1>3 DEF KeptFor

\* What a call does to the rows of a user it has not changed: nothing.
LEMMA CallKeeps ==
  ASSUME ChangeInv, KeptInv, NEW c \in Changes, ChangeStep(c)
  PROVE  /\ past.changed \subseteq past'.changed
         /\ RewritePlan(c) => Owner(c) \in past'.changed
         /\ req' = req
         /\ \A u \in Users \ past'.changed : sub'[u] = sub[u] /\ wallet'[u] = wallet[u]
<1>0. CallsOK /\ BilledTypeOK /\ FlowTypeOK /\ WalletTypeOK
  BY DEF ChangeInv, FlowInv, WalletInv
<1>1. CASE RewritePlan(c)
  <2>1. /\ Owner(c) \in Users /\ past' = [past EXCEPT !.changed = @ \cup {Owner(c)}]
        /\ sub' = [sub EXCEPT ![Owner(c)].plan = change[c].target]
        /\ UNCHANGED <<wvars, req>>
    BY <1>0, <1>1, CallFacts DEF RewritePlan, On
  <2>2. past'.changed = past.changed \cup {Owner(c)}
    BY <1>0, <2>1 DEF BilledTypeOK
  <2>3. \A u \in Users : u # Owner(c) => sub'[u] = sub[u]
    BY <1>0, <2>1 DEF FlowTypeOK
  <2> QED BY <2>1, <2>2, <2>3 DEF wvars
<1>2. CASE RaiseBucket(c)
  <2>1. Owner(c) \in past.changed /\ ~RewritePlan(c) /\ UNCHANGED <<sub, req>>
    BY <1>2 DEF RaiseBucket, RewritePlan, On, KeptInv, RaisesAreChanges
  <2>2. PICK n : SetSubscriptionHints(Owner(c), n) /\ past' = [past EXCEPT !.raised[Owner(c)] = @ + n]
    BY <1>2 DEF RaiseBucket
  <2>3. past'.changed = past.changed
    BY <1>0, <2>2 DEF BilledTypeOK
  <2>4. \A u \in Users : u # Owner(c) => wallet'[u] = wallet[u]
    BY <1>0, <2>2 DEF SetSubscriptionHints, WalletTypeOK
  <2> QED BY <2>1, <2>3, <2>4
<1>3. CASE ~RewritePlan(c) /\ ~RaiseBucket(c)
  <2>1. UNCHANGED vars /\ (past' = past \/ past' = [past EXCEPT !.doubt = @ \cup {Owner(c)}])
    BY <1>3 DEF ChangeStep, ArriveCancel, ArriveChange, Decide, Recheck, PushToPaddle, Refetch, Find,
                CancelAtPaddle, FlagEnding, CrashChange
  <2>2. past'.changed = past.changed
    BY <1>0, <2>1 DEF BilledTypeOK
  <2> QED BY <1>3, <2>1, <2>2 DEF vars, wvars
<1> QED BY <1>1, <1>2, <1>3

LEMMA KeptStep == ChangeInv /\ ChangeInv' /\ KeptInv /\ [PlanNext]_pvars => KeptInv'
<1> SUFFICES ASSUME ChangeInv, ChangeInv', KeptInv, [PlanNext]_pvars PROVE KeptInv'
  OBVIOUS
<1>1. ASSUME NEW c \in Changes, ChangeStep(c) PROVE KeptInv'
  <2>1. RaisesAreChanges'
    <3> SUFFICES ASSUME NEW d \in Changes, On(d, "raise")' PROVE Owner(d)' \in past'.changed
      BY DEF RaisesAreChanges
    <3>1. CASE d = c
      BY <1>1, <3>1, CallLeads, CallKeeps DEF On
    <3>2. CASE d # c
      <4>1. On(d, "raise") /\ Owner(d)' = Owner(d)
        BY <1>1, <3>2, CallLeads DEF On, Owner
      <4> QED BY <1>1, <4>1, CallKeeps DEF KeptInv, RaisesAreChanges
    <3> QED BY <3>1, <3>2
  <2>2. ASSUME NEW u \in Users \ past'.changed PROVE KeptFor(u)'
    <3>1. sub'[u] = sub[u] /\ wallet'[u] = wallet[u] /\ req' = req /\ u \notin past.changed
      BY <1>1, CallKeeps
    <3>2. KeptFor(u)
      BY <3>1 DEF KeptInv
    <3> QED BY <3>1, <3>2 DEF KeptFor, At, FirstCap, Cap
  <2> QED BY <2>1, <2>2 DEF KeptInv
<1>2. CASE Next /\ UNCHANGED planVars /\ \A u \in Users : sub'[u].plan = sub[u].plan
  <2>1. RaisesAreChanges'
    BY <1>2 DEF KeptInv, RaisesAreChanges, planVars, On, Owner
  <2>2. ASSUME NEW u \in Users \ past.changed PROVE KeptFor(u)'
    <3>1. KeptFor(u)
      BY DEF KeptInv
    <3> QED BY <1>2, <3>1, FlowKeeps DEF ChangeInv
  <2> QED BY <1>2, <2>1, <2>2 DEF KeptInv, planVars
<1>3. CASE UNCHANGED pvars
  <2>1. UNCHANGED <<sub, wallet, req, change, past>>
    BY <1>3 DEF pvars, planVars, vars, wvars
  <2>2. RaisesAreChanges'
    BY <2>1 DEF KeptInv, RaisesAreChanges, On, Owner
  <2>3. ASSUME NEW u \in Users \ past.changed PROVE KeptFor(u)'
    <3>1. KeptFor(u)
      BY DEF KeptInv
    <3> QED BY <2>1, <3>1 DEF KeptFor, At, FirstCap, Cap
  <2> QED BY <2>1, <2>2, <2>3 DEF KeptInv
<1> QED BY <1>1, <1>2, <1>3 DEF PlanNext

\* A step that lowers a bucket draws from it, or is one of the two exceptions.
LEMMA Lowered ==
  ASSUME ChangeInv, KeptInv, [PlanNext]_pvars, NEW u \in Users,
         wallet'[u]["sub"] < wallet[u]["sub"]
  PROVE  \/ drawn'[u]["sub"] = drawn[u]["sub"] + wallet[u]["sub"] - wallet'[u]["sub"]
         \/ ClampedAfterChange(u)
         \/ RaisedFromStaleRow(u)
<1>0. FlowInv /\ WalletTypeOK /\ wallet[u]["sub"] \in Nat
  BY DEF ChangeInv, FlowInv, WalletInv, WalletTypeOK, Buckets
<1>1. CASE UNCHANGED wallet
  BY <1>0, <1>1
<1>2. ASSUME NEW c \in Changes, RaiseBucket(c) PROVE RaisedFromStaleRow(u)
  <2> DEFINE allotment == change[c].target.perCycle
             target == IF change[c].held > allotment THEN change[c].held ELSE allotment
  <2>1. change[c].held \in Nat /\ allotment \in Nat /\ On(c, "raise") /\ Owner(c) \in Users
    BY <1>2, CallFacts DEF RaiseBucket, On, ChangeInv, NeedsTarget
  <2>2. wallet' = [wallet EXCEPT ![Owner(c)]["sub"] = target]
    BY <1>2 DEF RaiseBucket, SetSubscriptionHints
  <2>3. target \in Nat /\ change[c].held <= target
    BY <2>1
  <2> HIDE DEF target
  <2>4. Owner(c) = u /\ wallet'[u]["sub"] = target
    BY <1>0, <2>1, <2>2 DEF WalletTypeOK, Buckets
  <2> QED BY <1>0, <2>1, <2>3, <2>4 DEF RaisedFromStaleRow
<1>3. ASSUME NEW c \in Changes, ChangeStep(c), ~RaiseBucket(c) PROVE UNCHANGED wallet
  BY <1>3 DEF ChangeStep, ArriveCancel, ArriveChange, Decide, Recheck, PushToPaddle, RewritePlan,
              Refetch, Find, CancelAtPaddle, FlagEnding, CrashChange, vars, wvars
<1>4. CASE Next
  <2>1. ASSUME NEW r \in Requests, GrantDue(r), req[r].user = u PROVE ClampedAfterChange(u)
    <3>1. At(r, "grant")
      BY <2>1 DEF GrantDue
    <3>2. u \in past.changed
      <4>1. ASSUME u \notin past.changed PROVE FALSE
        <5>1. KeptFor(u)
          BY <4>1 DEF KeptInv
        <5>2. wallet[u]["sub"] <= wallet'[u]["sub"]
          BY <1>0, <2>1, <5>1, DripKeeps
        <5>3. wallet'[u]["sub"] \in Nat
          BY <1>4, FlowStep DEF ChangeInv, FlowInv, WalletInv, WalletTypeOK, Buckets
        <5> QED BY <1>0, <5>2, <5>3
      <4> QED BY <4>1
    <3> QED BY <2>1, <3>1, <3>2 DEF ClampedAfterChange
  <2>2. wallet'[u]["sub"] # wallet[u]["sub"]
    BY <1>0
  <2> QED BY <1>0, <1>4, <2>1, <2>2, BucketMoves
<1>5. CASE UNCHANGED pvars
  BY <1>1, <1>5 DEF pvars, vars, wvars
<1> QED BY <1>1, <1>2, <1>3, <1>4, <1>5 DEF PlanNext

\* Whatever reads, drips, plan changes and cancellations interleave, a subscriber's
\* bucket is lowered only by a spend, by the clamp of a drip after a plan change, or
\* by an upgrade that set it from a row a drip has outdated.
THEOREM BalanceHolds == PlanSpec => BalanceKept
<1>1. PlanInit => ChangeInv /\ KeptInv
  BY ChangeInit, KeptInit
<1>2. ChangeInv /\ KeptInv /\ [PlanNext]_pvars => ChangeInv' /\ KeptInv'
  BY ChangeInvStep, KeptStep
<1>3. ChangeInv /\ KeptInv /\ [PlanNext]_pvars =>
        [\A u \in Users : SpentOnly(u) \/ ClampedAfterChange(u) \/ RaisedFromStaleRow(u)]_pvars
  BY Lowered DEF SpentOnly
<1> QED BY <1>1, <1>2, <1>3, PTL DEF PlanSpec, BalanceKept

-----------------------------------------------------------------------------
(* A month is dripped once *)

\* Some plan has the largest allotment, when there are finitely many.
LEMMA LargestOK ==
  ASSUME IsFiniteSet(Plans), Plans # {}
  PROVE  LargestCycle \in Nat /\ \A p \in Plans : p.perCycle <= LargestCycle
<1> DEFINE Tops(A) == \E p \in A : \A q \in A : q.perCycle <= p.perCycle
           Q == {A \in SUBSET Plans : A # {} /\ ~Tops(A)}
<1>1. ASSUME Q # {} PROVE FALSE
  <2>0. Q \in SUBSET (SUBSET Plans)
    OBVIOUS
  <2>1. PICK A \in Q : \A B \in Q : B \subseteq A => B = A
    <3> HIDE DEF Q
    <3> QED BY <1>1, <2>0, LeastSubset
  <2>2. PICK a \in A : TRUE
    BY <2>1
  <2>3. A \subseteq Plans /\ ~Tops(A) /\ a \in Plans /\ a.perCycle \in Nat
    BY <2>1, <2>2
  <2>4. A \ {a} # {}
    BY <2>2, <2>3
  <2>5. Tops(A \ {a})
    <3>1. A \ {a} \in SUBSET Plans /\ A \ {a} # A /\ A \ {a} \subseteq A
      BY <2>2, <2>3
    <3>2. A \ {a} \notin Q
      BY <2>1, <3>1
    <3> HIDE DEF Tops
    <3> QED BY <2>4, <3>1, <3>2
  <2>6. PICK m \in A \ {a} : \A q \in A \ {a} : q.perCycle <= m.perCycle
    BY <2>5
  <2>7. \A q \in A : q.perCycle \in Nat
    BY <2>3
  <2>8. CASE m.perCycle <= a.perCycle
    BY <2>2, <2>3, <2>6, <2>7, <2>8
  <2>9. CASE a.perCycle <= m.perCycle
    BY <2>3, <2>6, <2>9
  <2> QED BY <2>2, <2>6, <2>7, <2>8, <2>9
<1>2. Tops(Plans)
  BY <1>1
<1>3. \E n \in {p.perCycle : p \in Plans} : \A p \in Plans : p.perCycle <= n
  BY <1>2
<1>4. LargestCycle \in {p.perCycle : p \in Plans} /\ \A p \in Plans : p.perCycle <= LargestCycle
  BY <1>3 DEF LargestCycle
<1> QED BY <1>4

\* n months after k months are k + n months.
LEMMA MonthsAdd ==
  ASSUME NEW k \in Nat, NEW n \in Nat, NEW x \in Nat
  PROVE  k * x + n * x = (k + n) * x /\ x * k + x * n = x * (k + n)
OBVIOUS

\* No more than k months have gone by before the k-th is over.
LEMMA WholeMonths ==
  ASSUME NEW k \in Nat, NEW x \in Nat, NEW l \in Nat, NEW day \in Nat, 1 + k * MonthDays <= day
  PROVE  l * k <= l * ((day - 1) \div MonthDays)
<1>1. MonthDays \in Nat \ {0} /\ k * MonthDays \in Nat /\ day - 1 \in Nat
  OBVIOUS
<1>2. (day - 1) \div MonthDays \in Nat /\ k <= (day - 1) \div MonthDays
  BY <1>1
<1>3. ASSUME NEW q \in Nat, k <= q PROVE l * k <= l * q
  BY <1>3
<1> QED BY <1>2, <1>3

\* What drips have added to the bucket of u: the cycle rows but for what upgrades set.
Gained(u) == granted[u]["subscription_cycle"] - past.raised[u]

\* A gain that an accrual date pays for: whole months after day 1, an allotment each.
Earned(gained, u, date) ==
    \E k \in Nat : date = 1 + k * MonthDays /\ gained <= FirstCycle(u) + LargestCycle * k

\* One request at a time.
Alone == \A r \in Requests : \A q \in Requests : InFlight(r) /\ InFlight(q) => r = q

\* No request has credited a drip to u and not written the date yet.
Written(u) == \A r \in Requests : At(r, "advance") => req[r].user # u

\* What a request about to credit a drip carries: months after the accrual date,
\* and an allotment for each.
OwedMonths(owed, date) ==
    \E n \in Nat : owed.cursor = date + n * MonthDays /\ owed.amount <= LargestCycle * n

\* A user's drips are earned by the accrual date, or by the date a request is about
\* to write there.  Who started without a subscription never gets one here.
DripsOf(u) ==
    IF InitialPlan[u] = NoPlan
    THEN ~sub[u].live /\ Gained(u) <= 0
    ELSE Written(u) => Earned(Gained(u), u, sub[u].accrued)

DripOf(r) ==
    LET u == req[r].user IN
    /\ Owing(r) => InitialPlan[u] # NoPlan
    /\ At(r, "grant") => OwedMonths(req[r].owed, sub[u].accrued)
    /\ At(r, "advance") => Earned(Gained(u), u, req[r].owed.cursor)

DripInv == Alone /\ (\A u \in Users : DripsOf(u)) /\ \A r \in Requests : DripOf(r)

LEMMA DripInit ==
  ASSUME LargestCycle \in Nat, PlanInit
  PROVE  DripInv
<1>1. \A r \in Requests : ~InFlight(r) /\ ~Owing(r) /\ ~At(r, "grant") /\ ~At(r, "advance")
  BY DEF PlanInit, Init, Idle, InFlight, Finished, Owing, At
<1>2. ASSUME NEW u \in Users PROVE DripsOf(u)
  <2>1. granted[u]["subscription_cycle"] = FirstCycle(u) /\ past.raised[u] = 0
    BY DEF PlanInit, Init, GrantSources
  <2>2. CASE InitialPlan[u] = NoPlan
    BY <2>1, <2>2 DEF DripsOf, Gained, FirstCycle, PlanInit, Init, NoSub
  <2>3. CASE InitialPlan[u] # NoPlan
    <3>1. sub[u].accrued = 1 /\ FirstCycle(u) \in Nat
      BY <2>3 DEF PlanInit, Init, Activated, FirstCycle
    <3>2. 1 = 1 + 0 * MonthDays /\ LargestCycle * 0 = 0
      OBVIOUS
    <3>3. Earned(Gained(u), u, 1)
      BY <2>1, <3>1, <3>2 DEF Earned, Gained
    <3> QED BY <2>3, <3>1, <3>3 DEF DripsOf
  <2> QED BY <2>2, <2>3
<1> QED BY <1>1, <1>2 DEF DripInv, Alone, DripOf

-----------------------------------------------------------------------------
\* A request starts when none is under way.
LEMMA AloneStep ==
  ASSUME ~Overlapping, FlowTypeOK, Alone, Next
  PROVE  Alone'
<1>1. ASSUME NEW r \in Requests, Acts(r)
      PROVE  InFlight(r) \/ \A q \in Requests : ~InFlight(q)
  BY <1>1 DEF Acts, Arrive, ArriveConsume, MayArrive, ReadSubscription, GrantDue, AdvanceAccrual,
              Precheck, ModelAnswers, ModelFails, ChargeBalance, StampDay, ChargeUnlimited, Respond,
              Crash, At, InFlight, Finished
<1>2. ASSUME NEW r \in Requests, NEW q \in Requests, InFlight(r)', InFlight(q)', r # q
      PROVE  FALSE
  <2>1. InFlight(r) \/ Acts(r)
    BY <1>2, OwnRecord DEF InFlight
  <2>2. InFlight(q) \/ Acts(q)
    BY <1>2, OwnRecord DEF InFlight
  <2>3. req'[r] = req[r] \/ req'[q] = req[q]
    <3>1. ASSUME NEW a \in Requests, Acts(a), NEW b \in Requests, b # a PROVE req'[b] = req[b]
      <4>1. \E x : Become(a, x)
        BY <3>1 DEF Acts, Arrive, ArriveConsume, ReadSubscription, GrantDue, AdvanceAccrual,
             Precheck, ModelAnswers, ModelFails, ChargeBalance, StampDay, ChargeUnlimited, Respond,
             Crash, Goto, End
      <4> QED BY <3>1, <4>1 DEF FlowTypeOK, Become
    <3> QED BY <1>2, <3>1, OwnRecord
  <2> QED BY <1>1, <1>2, <2>1, <2>2, <2>3 DEF Alone, InFlight
<1> QED BY <1>2 DEF Alone

\* Only a drip adds to the cycle rows, and no more than the request carries.
LEMMA GainMoves ==
  ASSUME FlowInv, Next, NEW u \in Users
  PROVE  \/ granted'[u]["subscription_cycle"] = granted[u]["subscription_cycle"]
         \/ \E r \in Requests : /\ GrantDue(r) /\ req[r].user = u
                                /\ granted'[u]["subscription_cycle"]
                                     <= granted[u]["subscription_cycle"] + req[r].owed.amount
<1> USE DEF FlowInv, WalletInv, WalletTypeOK, GrantSources, Buckets
<1>1. ASSUME NEW r \in Requests, GrantDue(r), req[r].user # u
      PROVE  granted'[u]["subscription_cycle"] = granted[u]["subscription_cycle"]
  BY <1>1 DEF GrantDue, GrantSubscriptionHints, Credit
<1>2. ASSUME NEW r \in Requests, GrantDue(r), req[r].user = u
      PROVE  granted'[u]["subscription_cycle"]
                <= granted[u]["subscription_cycle"] + req[r].owed.amount
  <2> DEFINE held == wallet[u]["sub"]
             amount == req[r].owed.amount
             target == Rollover(held, amount, req[r].owed.cap)
             more == IF target > held THEN target - held ELSE 0
  <2>1. held \in Nat /\ amount \in Nat /\ req[r].owed.cap \in Nat
    BY DEF FlowTypeOK, Request, OwedDrips
  <2>2. granted' = [granted EXCEPT ![u]["subscription_cycle"] = @ + more]
    BY <1>2 DEF GrantDue, GrantSubscriptionHints, Credit
  <2>3. more \in Nat /\ more <= amount
    BY <2>1 DEF Rollover
  <2> HIDE DEF more
  <2>4. granted'[u]["subscription_cycle"] = granted[u]["subscription_cycle"] + more
    BY <2>2
  <2> QED BY <2>1, <2>3, <2>4
<1>3. ASSUME NEW v \in Users, TopUp(v)
      PROVE  granted'[u]["subscription_cycle"] = granted[u]["subscription_cycle"]
  BY <1>3 DEF TopUp, AddTopupHints, Credit
<1>4. ASSUME NEW r \in Requests, Acts(r), ~GrantDue(r) PROVE UNCHANGED granted
  BY <1>4 DEF Acts, Arrive, ArriveConsume, ReadSubscription, AdvanceAccrual, Precheck, ModelAnswers,
              ModelFails, ChargeBalance, Consume, StampDay, ChargeUnlimited, ConsumeUnlimited,
              Respond, Crash, wvars
<1>5. CASE Environment
  BY <1>3, <1>5 DEF Environment, Tick, EndSubscription, ChangePlan, wvars
<1> QED BY <1>1, <1>2, <1>4, <1>5, NextSplit

\* The steps that leave a request owing, or make one that did not owe before.
LEMMA OwingMoves ==
  ASSUME ~MayCrash, FlowTypeOK, Next, NEW r \in Requests
  PROVE  \/ /\ req'[r] = req[r] /\ ~GrantDue(r) /\ ~AdvanceAccrual(r)
         \/ ReadSubscription(r) /\ ~Owing(r)
         \/ GrantDue(r) \/ AdvanceAccrual(r)
         \/ ~Owing(r) /\ ~Owing(r)'
<1>1. ASSUME Acts(r), ~ReadSubscription(r), ~GrantDue(r), ~AdvanceAccrual(r)
      PROVE  ~Owing(r) /\ ~Owing(r)'
  <2>1. ~Owing(r)
    BY <1>1 DEF Acts, Arrive, ArriveConsume, MayArrive, Precheck, ModelAnswers, ModelFails,
                ChargeBalance, StampDay, ChargeUnlimited, Respond, Crash, At, Owing
  <2> QED BY <1>1, <2>1, NextLabel DEF Owing
<1>2. ReadSubscription(r) => ~Owing(r)
  BY DEF ReadSubscription, At, Owing
<1> QED BY <1>1, <1>2, OwnRecord

LEMMA FirstCycleNat == \A u \in Users : FirstCycle(u) \in Nat
BY DEF FirstCycle

LEMMA GainedInt ==
  ASSUME WalletTypeOK, BilledTypeOK, NEW u \in Users
  PROVE  Gained(u) \in Int
<1>1. granted[u]["subscription_cycle"] \in Nat /\ past.raised[u] \in Nat
  BY DEF WalletTypeOK, BilledTypeOK, GrantSources
<1> QED BY <1>1 DEF Gained

\* A drip of n allotments moves the date by n months.
LEMMA EarnedMore ==
  ASSUME LargestCycle \in Nat, NEW u \in Users, NEW g \in Int, NEW h \in Int, NEW date,
         NEW owed \in OwedDrips, Earned(g, u, date), OwedMonths(owed, date), h <= g + owed.amount
  PROVE  Earned(h, u, owed.cursor)
<1>1. PICK k \in Nat : date = 1 + k * MonthDays /\ g <= FirstCycle(u) + LargestCycle * k
  BY DEF Earned
<1>2. PICK n \in Nat : owed.cursor = date + n * MonthDays /\ owed.amount <= LargestCycle * n
  BY DEF OwedMonths
<1>3. /\ MonthDays \in Nat /\ FirstCycle(u) \in Nat /\ owed.amount \in Nat
      /\ k * MonthDays \in Nat /\ n * MonthDays \in Nat
      /\ LargestCycle * k \in Nat /\ LargestCycle * n \in Nat
  BY FirstCycleNat DEF OwedDrips
<1>4. /\ k * MonthDays + n * MonthDays = (k + n) * MonthDays
      /\ LargestCycle * k + LargestCycle * n = LargestCycle * (k + n)
  BY <1>3, MonthsAdd
<1> DEFINE a == k * MonthDays
           b == n * MonthDays
           c == LargestCycle * k
           d == LargestCycle * n
           e == (k + n) * MonthDays
           f == LargestCycle * (k + n)
<1>5. date = 1 + a /\ g <= FirstCycle(u) + c /\ owed.cursor = date + b /\ owed.amount <= d
      /\ a + b = e /\ c + d = f /\ a \in Nat /\ b \in Nat /\ c \in Nat /\ d \in Nat
  BY <1>1, <1>2, <1>3, <1>4
<1> HIDE DEF a, b, c, d, e, f
<1>6. owed.cursor = 1 + e /\ h <= FirstCycle(u) + f
  BY <1>3, <1>5
<1>7. k + n \in Nat
  OBVIOUS
<1> QED BY <1>6, <1>7 DEF Earned, e, f

\* What keeps DripsOf and DripOf.
LEMMA UserFrame ==
  ASSUME NEW u \in Users, DripsOf(u), Gained(u)' = Gained(u), sub'[u].accrued = sub[u].accrued,
         sub'[u].live => sub[u].live,
         \A q \in Requests : At(q, "advance") => At(q, "advance")' /\ req'[q].user = req[q].user
  PROVE  DripsOf(u)'
<1>1. Written(u)' => Written(u)
  BY DEF Written
<1> QED BY <1>1 DEF DripsOf, Earned, FirstCycle

LEMMA RequestFrame ==
  ASSUME NEW r \in Requests, DripOf(r), req'[r] = req[r],
         Gained(req[r].user)' = Gained(req[r].user), sub'[req[r].user].accrued = sub[req[r].user].accrued
  PROVE  DripOf(r)'
BY DEF DripOf, Owing, At, OwedMonths, Earned, FirstCycle

LEMMA NotOwing == ASSUME NEW r \in Requests, ~Owing(r)' PROVE DripOf(r)'
BY DEF DripOf, Owing, At

\* Nobody's subscription comes to life here.
LEMMA LiveStays ==
  ASSUME FlowInv, Next, NEW u \in Users
  PROVE  sub'[u].live => sub[u].live
<1> USE DEF FlowInv, FlowTypeOK
<1>1. ASSUME NEW r \in Requests, Acts(r) PROVE sub' = sub \/ AdvanceAccrual(r)
  BY <1>1 DEF Acts, Arrive, ArriveConsume, ReadSubscription, GrantDue, Precheck, ModelAnswers,
              ModelFails, ChargeBalance, StampDay, ChargeUnlimited, Respond, Crash
<1>2. ASSUME NEW r \in Requests, AdvanceAccrual(r) PROVE sub'[u].live = sub[u].live
  BY <1>2 DEF AdvanceAccrual
<1>3. CASE Environment
  BY <1>3 DEF Environment, Tick, TopUp, EndSubscription, ChangePlan
<1> QED BY <1>1, <1>2, <1>3, NextSplit

\* The three steps of a drip.
LEMMA ReadDrip ==
  ASSUME LargestCycle \in Nat, \A p \in Plans : p.perCycle <= LargestCycle,
         FlowInv, DripInv, NEW r \in Requests, ReadSubscription(r), UNCHANGED past
  PROVE  (\A u \in Users : DripsOf(u)') /\ \A q \in Requests : DripOf(q)'
<1> DEFINE s == sub[req[r].user]
<1>0. /\ FlowTypeOK /\ req[r] \in Request /\ req[r].user \in Users /\ UNCHANGED <<wvars, sub>>
      /\ At(r, "accrue") /\ UNCHANGED granted
  BY DEF FlowInv, FlowTypeOK, ReadSubscription, At, wvars
<1>1. \A v \in Users : Gained(v)' = Gained(v)
  BY <1>0 DEF Gained
<1>2. \A q \in Requests : q # r => req'[q] = req[q]
  BY <1>0 DEF ReadSubscription, Become, Goto, FlowTypeOK
<1>3. \A v \in Users : DripsOf(v)'
  <2>1. \A q \in Requests : At(q, "advance") => At(q, "advance")' /\ req'[q].user = req[q].user
    BY <1>0, <1>2 DEF At
  <2> QED BY <1>0, <1>1, <2>1, UserFrame DEF DripInv
<1>4. DripOf(r)'
  <2>1. CASE Drips(s) /\ CyclesDue(s) > 0
    <3> DEFINE n == CyclesDue(s)
               o == [amount |-> n * s.plan.perCycle, cap |-> Cap(s.plan),
                     cursor |-> s.accrued + n * MonthDays]
    <3>1. req'[r] = [req[r] EXCEPT !.pc = "grant", !.owed = o]
      BY <1>0, <2>1, Became DEF ReadSubscription
    <3>2. s.plan \in Plans /\ s.live /\ s.accrued \in Nat /\ s.paidUntil \in Nat /\ now \in Nat
      BY <1>0, <2>1 DEF Drips, FlowTypeOK
    <3>3. n \in Nat /\ s.plan.perCycle \in Nat /\ s.plan.perCycle <= LargestCycle
      BY <3>2, CyclesDueNat
    <3>4. o.amount = n * s.plan.perCycle /\ o.cursor = s.accrued + n * MonthDays
      OBVIOUS
    <3> HIDE DEF n, s, o
    <3>5. n * s.plan.perCycle <= LargestCycle * n
      BY <3>3
    <3>6. OwedMonths(o, s.accrued)
      BY <3>3, <3>4, <3>5 DEF OwedMonths
    <3>7. req'[r].pc = "grant" /\ req'[r].user = req[r].user /\ req'[r].owed = o
      BY <1>0, <3>1 DEF Request
    <3>8. InitialPlan[req[r].user] # NoPlan
      BY <1>0, <3>2 DEF DripInv, DripsOf, s
    <3>9. sub' = sub
      BY <1>0
    <3> QED BY <3>6, <3>7, <3>8, <3>9 DEF DripOf, Owing, At, OwedMonths, s
  <2>2. CASE ~(Drips(s) /\ CyclesDue(s) > 0)
    <3>1. Goto(r, "check")
      BY <2>2 DEF ReadSubscription
    <3>2. req'[r].pc = "check"
      BY <1>0, <3>1, WentTo
    <3> QED BY <3>2, NotOwing DEF Owing
  <2> QED BY <2>1, <2>2
<1>5. ASSUME NEW q \in Requests, q # r PROVE DripOf(q)'
  <2>1. CASE Owing(q)
    <3>1. req[q].user \in Users
      BY <1>0, <2>1 DEF FlowTypeOK, Owing, At
    <3> QED BY <1>0, <1>1, <1>2, <1>5, <3>1, RequestFrame DEF DripInv
  <2>2. CASE ~Owing(q)
    BY <1>2, <1>5, <2>2, NotOwing DEF Owing
  <2> QED BY <2>1, <2>2
<1> QED BY <1>3, <1>4, <1>5

\* While one request owes, no other does.
LEMMA OnlyOne ==
  ASSUME Alone, NEW r \in Requests, Owing(r), NEW q \in Requests, q # r
  PROVE  ~Owing(q)
BY DEF Alone, Owing, InFlight, Finished

LEMMA GrantDrip ==
  ASSUME LargestCycle \in Nat, FlowInv, BilledTypeOK, DripInv, NEW r \in Requests, GrantDue(r), Next,
         FlowInv', BilledTypeOK', UNCHANGED past
  PROVE  (\A u \in Users : DripsOf(u)') /\ \A q \in Requests : DripOf(q)'
<1> PICK u \in Users : u = req[r].user
  BY DEF FlowInv, FlowTypeOK, GrantDue, At
<1>0. /\ FlowTypeOK /\ req[r] \in Request /\ u \in Users /\ u = req[r].user /\ sub' = sub
      /\ At(r, "grant") /\ Owing(r)
  BY DEF FlowInv, FlowTypeOK, GrantDue, At, Owing
<1>1. \A q \in Requests : q # r => ~Owing(q)
  BY <1>0, OnlyOne DEF DripInv
<1>2. /\ req'[r].pc = "advance" /\ req'[r].user = u /\ req'[r].owed = req[r].owed
      /\ \A q \in Requests : q # r => req'[q] = req[q]
  <2>1. PICK y : Become(r, [req[r] EXCEPT !.pc = "advance", !.row = y])
    BY DEF GrantDue
  <2>2. req'[r] = [req[r] EXCEPT !.pc = "advance", !.row = y]
    BY <1>0, <2>1, Became
  <2>3. \A q \in Requests : q # r => req'[q] = req[q]
    BY <1>0, <2>1 DEF Become, FlowTypeOK
  <2> QED BY <1>0, <2>2, <2>3 DEF Request
<1>3. \A q \in Requests : GrantDue(q) => q = r
  BY <1>1 DEF GrantDue, At, Owing
<1>4. \A q \in Requests : ~At(q, "advance")
  BY <1>0, <1>1 DEF At, Owing
<1>5. InitialPlan[u] # NoPlan /\ OwedMonths(req[r].owed, sub[u].accrued)
      /\ Earned(Gained(u), u, sub[u].accrued)
  BY <1>0, <1>4 DEF DripInv, DripOf, DripsOf, Written
<1>6. ASSUME NEW v \in Users, v # u PROVE DripsOf(v)'
  <2>1. granted'[v]["subscription_cycle"] = granted[v]["subscription_cycle"]
    BY <1>3, <1>6, GainMoves
  <2>2. Gained(v)' = Gained(v)
    BY <2>1 DEF Gained
  <2> QED BY <1>0, <1>4, <2>2, UserFrame DEF DripInv
<1>7. DripsOf(u)'
  <2>1. ~Written(u)'
    BY <1>2 DEF Written, At
  <2> QED BY <1>5, <2>1 DEF DripsOf
<1>8. DripOf(r)'
  <2>1. req[r].owed \in OwedDrips /\ req[r].owed.amount \in Nat
    BY <1>0 DEF Request, OwedDrips
  <2>2. Gained(u) \in Int /\ Gained(u)' \in Int
    <3>1. granted[u]["subscription_cycle"] \in Nat /\ granted'[u]["subscription_cycle"] \in Nat
          /\ past.raised[u] \in Nat
      BY <1>0 DEF FlowInv, WalletInv, WalletTypeOK, BilledTypeOK, GrantSources
    <3> QED BY <3>1 DEF Gained
  <2>3. Gained(u)' <= Gained(u) + req[r].owed.amount
    <3>1. granted[u]["subscription_cycle"] \in Nat /\ granted'[u]["subscription_cycle"] \in Nat
          /\ past.raised[u] \in Nat
      BY <1>0 DEF FlowInv, WalletInv, WalletTypeOK, BilledTypeOK, GrantSources
    <3>2. granted'[u]["subscription_cycle"]
            <= granted[u]["subscription_cycle"] + req[r].owed.amount
      <4>1. CASE granted'[u]["subscription_cycle"] = granted[u]["subscription_cycle"]
        BY <2>1, <3>1, <4>1
      <4>2. ASSUME NEW q \in Requests, GrantDue(q),
                   granted'[u]["subscription_cycle"]
                     <= granted[u]["subscription_cycle"] + req[q].owed.amount
            PROVE  granted'[u]["subscription_cycle"]
                     <= granted[u]["subscription_cycle"] + req[r].owed.amount
        BY <1>3, <4>2
      <4> QED BY <1>0, <4>1, <4>2, GainMoves
    <3> QED BY <2>1, <3>1, <3>2 DEF Gained
  <2>4. Earned(Gained(u)', u, req[r].owed.cursor)
    BY <1>0, <1>5, <2>1, <2>2, <2>3, EarnedMore
  <2> QED BY <1>2, <1>5, <2>4 DEF DripOf, Owing, At, Earned, FirstCycle
<1>9. ASSUME NEW q \in Requests, q # r PROVE DripOf(q)'
  BY <1>1, <1>2, <1>9, NotOwing DEF Owing
<1> QED BY <1>6, <1>7, <1>8, <1>9

LEMMA AdvanceDrip ==
  ASSUME FlowInv, DripInv, NEW r \in Requests, AdvanceAccrual(r), UNCHANGED past
  PROVE  (\A u \in Users : DripsOf(u)') /\ \A q \in Requests : DripOf(q)'
<1> PICK u \in Users : u = req[r].user
  BY DEF FlowInv, FlowTypeOK, AdvanceAccrual, At
<1>0. /\ FlowTypeOK /\ req[r] \in Request /\ u \in Users /\ u = req[r].user /\ granted' = granted
      /\ At(r, "advance") /\ Owing(r)
  BY DEF FlowInv, FlowTypeOK, AdvanceAccrual, At, Owing, wvars
<1>1. \A q \in Requests : q # r => ~Owing(q)
  BY <1>0, OnlyOne DEF DripInv
<1>2. /\ req'[r].pc = "check"
      /\ \A q \in Requests : q # r => req'[q] = req[q]
  <2>1. Become(r, [req[r] EXCEPT !.pc = "check", !.owed = NoDrip])
    BY DEF AdvanceAccrual
  <2>2. req'[r] = [req[r] EXCEPT !.pc = "check", !.owed = NoDrip]
    BY <1>0, <2>1, Became
  <2>3. \A q \in Requests : q # r => req'[q] = req[q]
    BY <1>0, <2>1 DEF Become, FlowTypeOK
  <2> QED BY <1>0, <2>2, <2>3 DEF Request
<1>3. /\ sub'[u].accrued = req[r].owed.cursor /\ sub'[u].live = sub[u].live
      /\ \A v \in Users : v # u => sub'[v] = sub[v]
  <2>1. sub' = [sub EXCEPT ![u].accrued = req[r].owed.cursor]
    BY <1>0 DEF AdvanceAccrual
  <2> QED BY <1>0, <2>1 DEF FlowTypeOK
<1>4. \A v \in Users : Gained(v)' = Gained(v)
  BY <1>0 DEF Gained
<1>5. InitialPlan[u] # NoPlan /\ Earned(Gained(u), u, req[r].owed.cursor)
  BY <1>0 DEF DripInv, DripOf, Owing
<1>6. DripsOf(u)'
  BY <1>0, <1>3, <1>4, <1>5 DEF DripsOf, Earned, FirstCycle
<1>7. ASSUME NEW v \in Users, v # u PROVE DripsOf(v)'
  <2>1. Written(v)
    BY <1>0, <1>1, <1>7 DEF Written, At, Owing
  <2> QED BY <1>3, <1>4, <1>7, <2>1 DEF DripInv, DripsOf, Earned, FirstCycle
<1>8. \A q \in Requests : DripOf(q)'
  BY <1>1, <1>2, NotOwing DEF Owing
<1> QED BY <1>6, <1>7, <1>8

LEMMA FlowDrips ==
  ASSUME ~Overlapping, ~MayCrash, LargestCycle \in Nat, \A p \in Plans : p.perCycle <= LargestCycle,
         ChangeInv, ChangeInv', DripInv, Next, UNCHANGED past
  PROVE  DripInv'
<1>0. FlowInv /\ FlowInv' /\ FlowTypeOK /\ BilledTypeOK /\ BilledTypeOK' /\ Alone
  BY DEF ChangeInv, FlowInv, DripInv
<1>1. Alone'
  BY <1>0, AloneStep
<1>2. (\A u \in Users : DripsOf(u)') /\ \A q \in Requests : DripOf(q)'
  <2>1. CASE \E r \in Requests : ReadSubscription(r)
    BY <1>0, <2>1, ReadDrip
  <2>2. CASE \E r \in Requests : GrantDue(r)
    BY <1>0, <2>2, GrantDrip
  <2>3. CASE \E r \in Requests : AdvanceAccrual(r)
    BY <1>0, <2>3, AdvanceDrip
  <2>4. CASE \A r \in Requests : ~ReadSubscription(r) /\ ~GrantDue(r) /\ ~AdvanceAccrual(r)
    <3>1. \A r \in Requests : req'[r] = req[r] \/ (~Owing(r) /\ ~Owing(r)')
      BY <1>0, <2>4, OwingMoves
    <3>2. \A u \in Users : /\ Gained(u)' = Gained(u) /\ sub'[u].accrued = sub[u].accrued
                           /\ sub'[u].live => sub[u].live
      BY <1>0, <2>4, GainMoves, DatesStep, LiveStays DEF Gained
    <3>3. \A q \in Requests : At(q, "advance") => At(q, "advance")' /\ req'[q].user = req[q].user
      BY <3>1 DEF At, Owing
    <3>4. \A u \in Users : DripsOf(u)'
      BY <3>2, <3>3, UserFrame DEF DripInv
    <3>5. ASSUME NEW q \in Requests PROVE DripOf(q)'
      <4>1. CASE Owing(q)
        <5>1. req[q].user \in Users
          BY <1>0, <4>1 DEF FlowTypeOK, Owing, At
        <5> QED BY <3>1, <3>2, <4>1, <5>1, RequestFrame DEF DripInv
      <4>2. CASE ~Owing(q)
        <5>1. ~Owing(q)'
          BY <3>1, <4>2 DEF Owing
        <5> QED BY <5>1, NotOwing
      <4> QED BY <4>1, <4>2
    <3> QED BY <3>4, <3>5
  <2> QED BY <2>1, <2>2, <2>3, <2>4
<1> QED BY <1>1, <1>2 DEF DripInv

\* A call counts what it sets apart, and touches no date.
LEMMA CallDrips ==
  ASSUME ChangeInv, NEW c \in Changes, ChangeStep(c)
  PROVE  /\ UNCHANGED <<now, req>>
         /\ \A u \in Users : /\ Gained(u)' = Gained(u) /\ sub'[u].accrued = sub[u].accrued
                             /\ sub'[u].paidUntil = sub[u].paidUntil /\ sub'[u].live = sub[u].live
<1>0. CallsOK /\ BilledTypeOK /\ FlowTypeOK /\ WalletTypeOK
  BY DEF ChangeInv, FlowInv, WalletInv
<1>1. CASE RewritePlan(c)
  <2>1. /\ past' = [past EXCEPT !.changed = @ \cup {Owner(c)}]
        /\ sub' = [sub EXCEPT ![Owner(c)].plan = change[c].target]
        /\ UNCHANGED <<granted, now, req>>
    BY <1>1 DEF RewritePlan, wvars
  <2>2. past'.raised = past.raised
    BY <1>0, <2>1 DEF BilledTypeOK
  <2>3. \A u \in Users : /\ sub'[u].accrued = sub[u].accrued
                         /\ sub'[u].paidUntil = sub[u].paidUntil /\ sub'[u].live = sub[u].live
    BY <1>0, <2>1 DEF FlowTypeOK
  <2> QED BY <2>1, <2>2, <2>3 DEF Gained
<1>2. CASE RaiseBucket(c)
  <2>1. Owner(c) \in Users /\ change[c].target \in Plans /\ change[c].held \in Nat
    BY <1>0, <1>2, CallFacts DEF RaiseBucket, On, NeedsTarget
  <2>2. PICK n \in Nat : /\ SetSubscriptionHints(Owner(c), n)
                         /\ past' = [past EXCEPT !.raised[Owner(c)] = @ + n]
    BY <1>2, <2>1 DEF RaiseBucket
  <2>3. granted' = [granted EXCEPT ![Owner(c)]["subscription_cycle"] = @ + n]
    BY <2>2 DEF SetSubscriptionHints, Credit
  <2>4. ASSUME NEW u \in Users PROVE Gained(u)' = Gained(u)
    <3>1. granted[u]["subscription_cycle"] \in Nat /\ past.raised[u] \in Nat
      BY <1>0 DEF WalletTypeOK, BilledTypeOK, GrantSources
    <3>2. granted'[u]["subscription_cycle"]
            = granted[u]["subscription_cycle"] + (IF u = Owner(c) THEN n ELSE 0)
      BY <1>0, <2>1, <2>3, <3>1 DEF WalletTypeOK, GrantSources
    <3>3. past'.raised[u] = past.raised[u] + (IF u = Owner(c) THEN n ELSE 0)
      BY <1>0, <2>1, <2>2, <3>1 DEF BilledTypeOK
    <3> QED BY <3>1, <3>2, <3>3 DEF Gained
  <2>5. UNCHANGED <<now, sub, req>>
    BY <1>2 DEF RaiseBucket
  <2> QED BY <2>4, <2>5
<1>3. CASE ~RewritePlan(c) /\ ~RaiseBucket(c)
  <2>1. UNCHANGED vars /\ (past' = past \/ past' = [past EXCEPT !.doubt = @ \cup {Owner(c)}])
    BY <1>3 DEF ChangeStep, ArriveCancel, ArriveChange, Decide, Recheck, PushToPaddle, Refetch, Find,
                CancelAtPaddle, FlagEnding, CrashChange
  <2>2. past'.raised = past.raised
    BY <1>0, <2>1 DEF BilledTypeOK
  <2>3. UNCHANGED <<now, sub, req, granted>>
    BY <2>1 DEF vars, wvars
  <2> QED BY <2>2, <2>3 DEF Gained
<1> QED BY <1>1, <1>2, <1>3

\* Where the dates and gains stand still, both invariants do.
LEMMA StillDrips ==
  ASSUME ChangeInv, DripInv, AccruedInv, UNCHANGED <<now, req>>,
         \A u \in Users : /\ Gained(u)' = Gained(u) /\ sub'[u].accrued = sub[u].accrued
                          /\ sub'[u].paidUntil = sub[u].paidUntil /\ sub'[u].live = sub[u].live
  PROVE  DripInv' /\ AccruedInv'
<1>0. FlowTypeOK
  BY DEF ChangeInv, FlowInv
<1>1. \A u \in Users : DripsOf(u)'
  BY UserFrame DEF DripInv, At
<1>2. ASSUME NEW q \in Requests PROVE DripOf(q)'
  <2>1. CASE Owing(q)
    <3>1. req[q].user \in Users
      BY <1>0, <2>1 DEF FlowTypeOK, Owing, At
    <3> QED BY <3>1, RequestFrame DEF DripInv
  <2>2. CASE ~Owing(q)
    BY <2>2, NotOwing DEF Owing
  <2> QED BY <2>1, <2>2
<1>3. Alone'
  BY DEF DripInv, Alone, InFlight
<1>4. AccruedWithinPaid'
  BY DEF AccruedInv, AccruedWithinPaid
<1>5. CursorsWithinPaid'
  <2> SUFFICES ASSUME NEW r \in Requests, Owing(r)'
               PROVE  /\ req'[r].owed.cursor <= now'
                      /\ req'[r].owed.cursor <= sub'[req'[r].user].paidUntil
    BY DEF CursorsWithinPaid
  <2>1. Owing(r) /\ req[r].user \in Users
    BY <1>0 DEF Owing, FlowTypeOK, At
  <2> QED BY <2>1 DEF AccruedInv, CursorsWithinPaid
<1> QED BY <1>1, <1>2, <1>3, <1>4, <1>5 DEF DripInv, AccruedInv

LEMMA DripStep ==
  ASSUME ~Overlapping, ~MayCrash, LargestCycle \in Nat, \A p \in Plans : p.perCycle <= LargestCycle,
         ChangeInv, ChangeInv', DripInv, AccruedInv, [PlanNext]_pvars
  PROVE  DripInv' /\ AccruedInv'
<1>1. ASSUME NEW c \in Changes, ChangeStep(c) PROVE DripInv' /\ AccruedInv'
  BY <1>1, CallDrips, StillDrips
<1>2. CASE Next /\ UNCHANGED planVars
  BY <1>2, FlowDrips, AccruedStep DEF ChangeInv, planVars
<1>3. CASE UNCHANGED pvars
  BY <1>3, StillDrips DEF pvars, planVars, vars, wvars, Gained
<1> QED BY <1>1, <1>2, <1>3 DEF PlanNext

\* Of the months gone by, each has been dripped at most once, and at no more than
\* the largest allotment.
LEMMA DripsCounted ==
  ASSUME LargestCycle \in Nat, ChangeInv, DripInv, AccruedInv
  PROVE  DripsOncePerMonth
<1> SUFFICES ASSUME NEW u \in Users
             PROVE  Gained(u) <= FirstCycle(u) + LargestCycle * MonthsGone(u)
  BY DEF DripsOncePerMonth, Gained
<1>0. /\ FlowTypeOK /\ now \in Nat /\ Gained(u) \in Int /\ FirstCycle(u) \in Nat
      /\ sub[u].paidUntil \in Nat /\ Horizon(sub[u]) \in Nat
  BY GainedInt, FirstCycleNat DEF ChangeInv, FlowInv, WalletInv, FlowTypeOK, Horizon
<1>1. ASSUME NEW date \in Nat, date <= now, date <= sub[u].paidUntil, InitialPlan[u] # NoPlan,
             Earned(Gained(u), u, date)
      PROVE  Gained(u) <= FirstCycle(u) + LargestCycle * MonthsGone(u)
  <2> DEFINE n == (Horizon(sub[u]) - 1) \div MonthDays
  <2>0. date <= Horizon(sub[u])
    BY <1>1 DEF Horizon
  <2>1. PICK k \in Nat : date = 1 + k * MonthDays /\ Gained(u) <= FirstCycle(u) + LargestCycle * k
    BY <1>1 DEF Earned
  <2>2. LargestCycle * k <= LargestCycle * n
    BY <1>0, <1>1, <2>0, <2>1, WholeMonths
  <2>3. Horizon(sub[u]) - 1 \in Nat
    <3>1. k * MonthDays \in Nat
      OBVIOUS
    <3> QED BY <1>0, <2>0, <2>1, <3>1
  <2>4. LargestCycle * k \in Nat /\ n \in Nat /\ LargestCycle * n \in Nat
    BY <2>3, DivNat
  <2>5. MonthsGone(u) = n
    BY <1>1 DEF MonthsGone
  <2> HIDE DEF n
  <2> QED BY <1>0, <2>1, <2>2, <2>4, <2>5
<1>2. CASE InitialPlan[u] = NoPlan
  <2>1. Gained(u) <= 0 /\ MonthsGone(u) = 0
    BY <1>2 DEF DripInv, DripsOf, MonthsGone
  <2> QED BY <1>0, <2>1
<1>3. CASE InitialPlan[u] # NoPlan /\ Written(u)
  <2>1. Earned(Gained(u), u, sub[u].accrued)
    BY <1>3 DEF DripInv, DripsOf
  <2>2. sub[u].accrued \in Nat /\ sub[u].accrued <= now /\ sub[u].accrued <= sub[u].paidUntil
    BY <1>0 DEF FlowTypeOK, AccruedInv, AccruedWithinPaid
  <2> QED BY <1>1, <1>3, <2>1, <2>2
<1>4. CASE InitialPlan[u] # NoPlan /\ ~Written(u)
  <2>1. PICK r \in Requests : At(r, "advance") /\ req[r].user = u
    BY <1>4 DEF Written
  <2>2. Earned(Gained(u), u, req[r].owed.cursor)
    BY <2>1 DEF DripInv, DripOf
  <2>3. /\ req[r].owed.cursor \in Nat /\ req[r].owed.cursor <= now
        /\ req[r].owed.cursor <= sub[u].paidUntil
    BY <1>0, <2>1 DEF FlowTypeOK, Request, OwedDrips, AccruedInv, CursorsWithinPaid, Owing, At
  <2> QED BY <1>1, <1>4, <2>2, <2>3
<1> QED BY <1>2, <1>3, <1>4

\* Where requests come one at a time and none dies, a month is dripped once,
\* whatever plan changes come between the steps of the accrual (accrue_due).
THEOREM DripsHold ==
  ASSUME ~Overlapping, ~MayCrash, IsFiniteSet(Plans), Plans # {}
  PROVE  PlanSpec => []DripsOncePerMonth
<1>0. LargestCycle \in Nat /\ \A p \in Plans : p.perCycle <= LargestCycle
  BY LargestOK
<1>1. PlanInit => ChangeInv /\ DripInv /\ AccruedInv
  BY <1>0, ChangeInit, DripInit, AccruedInit DEF PlanInit
<1>2. ChangeInv /\ DripInv /\ AccruedInv /\ [PlanNext]_pvars => ChangeInv' /\ DripInv' /\ AccruedInv'
  BY <1>0, ChangeInvStep, DripStep
<1>3. ChangeInv /\ DripInv /\ AccruedInv => DripsOncePerMonth
  BY <1>0, DripsCounted
<1> QED BY <1>1, <1>2, <1>3, PTL DEF PlanSpec
=============================================================================
