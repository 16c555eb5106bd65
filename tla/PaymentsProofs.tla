--------------------------- MODULE PaymentsProofs ---------------------------
(***************************************************************************)
(* Payments, for any users, events, packs, plans and number of concurrent, *)
(* crashing calls.  PlacedInv says what a call holds at each of its steps; *)
(* CreditInv that at most one call at a time may credit a purchase, and    *)
(* only one whose hints have not landed; HandledInv what a call that goes  *)
(* on to mark its event or to answer has seen done.                        *)
(***************************************************************************)
EXTENDS Payments, WalletProofs

WellPlaced(k) ==
    /\ k.pc # "idle" => k.user \in Users
    /\ k.event # None => k.subject = EventData[k.event].subject
    /\ k.pc \in {"lookup", "record", "find", "create", "findEnded", "cancel", "mark"} =>
         k.event \in Events
    /\ k.pc \in {"complete", "credit"} => k.subject \in Txs
    /\ k.pc \in {"find", "create", "activate", "cycle", "findEnded", "cancel", "owner"} =>
         k.subject \in Subs
    /\ k.pc = "mock" => k.event = None /\ k.subject \in Txs \cup Subs
    /\ k.pc = "owner" => k.event = None
    /\ k.pc \in {"findEnded", "cancel"} => FirstStep(k.event) = "findEnded"

CallsOK == call \in [Calls -> Call] /\ \A c \in Calls : WellPlaced(call[c])

RowsOK ==
    /\ purchase \in [Txs -> Orders]
    /\ \A t \in Txs : purchase[t].status # "none" => purchase[t].user \in Users
    /\ subStatus \in [Subs -> SubStates]
    /\ pointer \in [Users -> Subs \cup {None}]
    /\ event \in [Events -> {"none", "recorded", "processed"}]

HistoryOK ==
    /\ acked \in SUBSET Events
    /\ credited \in SUBSET (Txs \cup Subs) /\ lost \in SUBSET (Txs \cup Subs)
    /\ crashes \in 0..MaxCrashes

-----------------------------------------------------------------------------
(* What a call holds *)

\* The blank record is in place.
LEMMA IdlePlaced == IdleCall \in Call /\ WellPlaced(IdleCall)
BY PaymentsAssumption DEF IdleCall, Call, Labels, SubStates, WellPlaced

\* Replacing one call's record by a well-placed one.
LEMMA MovePlaced ==
  ASSUME CallsOK, NEW c \in Calls, NEW k \in Call, WellPlaced(k),
         call' = [call EXCEPT ![c] = k]
  PROVE  CallsOK'
BY DEF CallsOK

LEMMA EndPlaced ==
  ASSUME CallsOK, NEW c \in Calls, End(c)
  PROVE  CallsOK'
BY IdlePlaced, MovePlaced DEF End

\* Moving on under another label, when the record fits it.
LEMMA GotoPlaced ==
  ASSUME CallsOK, NEW c \in Calls, NEW l \in Labels, Goto(c, l),
         WellPlaced([call[c] EXCEPT !.pc = l])
  PROVE  CallsOK'
<1> DEFINE k == [call[c] EXCEPT !.pc = l]
<1>1. k \in Call
  <2>1. call[c] \in Call
    BY DEF CallsOK
  <2> QED BY <2>1 DEF Call
<1>2. call' = [call EXCEPT ![c] = k]
  BY DEF Goto
<1> HIDE DEF k
<1> QED BY <1>1, <1>2, MovePlaced DEF k

\* The fields a move keeps.
LEMMA MoveFields ==
  ASSUME NEW k \in Call, NEW l \in Labels
  PROVE  LET n == [k EXCEPT !.pc = l] IN
         n.pc = l /\ n.event = k.event /\ n.subject = k.subject /\ n.user = k.user
BY DEF Call

\* Any call that is under way may go on to answer, a webhook to mark its event.
LEMMA ProceedPlaced ==
  ASSUME CallsOK, NEW c \in Calls, ~At(c, "idle"), Proceed(c)
  PROVE  CallsOK'
<1>1. call[c] \in Call /\ WellPlaced(call[c])
  BY DEF CallsOK
<1>2. CASE IsWebhook(c)
  <2>1. call[c].event \in Events
    BY <1>1, <1>2 DEF IsWebhook, Call
  <2>2. WellPlaced([call[c] EXCEPT !.pc = "mark"])
    BY <1>1, <2>1, MoveFields DEF WellPlaced, Labels, At
  <2> QED BY <1>2, <2>2, GotoPlaced DEF Proceed, Labels
<1>3. CASE ~IsWebhook(c)
  <2>1. WellPlaced([call[c] EXCEPT !.pc = "respond"])
    BY <1>1, MoveFields DEF WellPlaced, Labels, At
  <2> QED BY <1>3, <2>1, GotoPlaced DEF Proceed, Labels
<1> QED BY <1>2, <1>3

\* The branch an event takes fits what the event is about.
LEMMA FirstStepPlaced ==
  ASSUME CallsOK, NEW c \in Calls, At(c, "lookup") \/ At(c, "record"),
         Goto(c, FirstStep(call[c].event))
  PROVE  CallsOK'
<1> DEFINE k == call[c]
           e == k.event
           x == EventData[e].subject
<1>1. k \in Call /\ WellPlaced(k)
  BY DEF CallsOK
<1>2. e \in Events /\ k.subject = x /\ k.user \in Users /\ e # None
  BY <1>1, PaymentsAssumption DEF WellPlaced, At
<1>3. x \in Txs \cup Subs \cup {None}
  BY <1>2, PaymentsAssumption
<1>4. FirstStep(e) \in Labels
  BY DEF FirstStep, Labels
<1>5. /\ FirstStep(e) \in {"mark", "complete", "find", "findEnded"}
      /\ FirstStep(e) = "complete" => x \in Txs
      /\ FirstStep(e) \in {"find", "findEnded"} => x \in Subs
  BY <1>3 DEF FirstStep
<1> HIDE DEF k
<1>6. WellPlaced([k EXCEPT !.pc = FirstStep(e)])
  BY <1>1, <1>2, <1>4, <1>5, MoveFields DEF WellPlaced
<1> QED BY <1>4, <1>6, GotoPlaced DEF k

\* Goto to a label that asks nothing new of the record.
LEMMA ForwardPlaced ==
  ASSUME CallsOK, NEW c \in Calls, NEW l \in Labels, Goto(c, l), ~At(c, "idle"),
         \/ l = "respond"
         \/ At(c, "lookup") /\ l = "record"
         \/ At(c, "complete") /\ l = "credit"
         \/ At(c, "find") /\ l \in {"create", "activate", "mark"}
         \/ At(c, "create") /\ l = "activate"
         \/ At(c, "activate") /\ l = "cycle"
         \/ At(c, "findEnded") /\ l \in {"mark", "cancel"}
         \/ At(c, "cancel") /\ l = "mark"
         \/ At(c, "mock") /\ call[c].subject \in Txs /\ l = "complete"
         \/ At(c, "owner") /\ l = "activate"
  PROVE  CallsOK'
<1> DEFINE k == call[c]
<1>1. k \in Call /\ WellPlaced(k)
  BY DEF CallsOK
<1> HIDE DEF k
<1>2. WellPlaced([k EXCEPT !.pc = l])
  BY <1>1, MoveFields DEF WellPlaced, At, k
<1> QED BY <1>2, GotoPlaced DEF k

\* Taking a call in.
LEMMA ArrivePlaced ==
  ASSUME CallsOK, NEW c \in Calls,
         \/ \E e \in Events : Deliver(c, e)
         \/ \E u \in Users, x \in Txs \cup Subs : MockComplete(c, u, x)
  PROVE  CallsOK'
<1>1. ASSUME NEW e \in Events, Deliver(c, e)
      PROVE  CallsOK'
  <2> DEFINE k == [pc |-> "lookup", event |-> e, subject |-> EventData[e].subject,
                   user |-> EventData[e].user, seen |-> "none"]
  <2>1. k \in Call /\ WellPlaced(k)
    BY PaymentsAssumption DEF Call, Labels, SubStates, WellPlaced
  <2>2. call' = [call EXCEPT ![c] = k]
    BY <1>1 DEF Deliver
  <2> HIDE DEF k
  <2> QED BY <2>1, <2>2, MovePlaced
<1>2. ASSUME NEW u \in Users, NEW x \in Txs \cup Subs, MockComplete(c, u, x)
      PROVE  CallsOK'
  <2> DEFINE k == [IdleCall EXCEPT !.pc = "mock", !.subject = x, !.user = u]
  <2>1. k \in Call /\ WellPlaced(k)
    BY PaymentsAssumption DEF IdleCall, Call, Labels, SubStates, WellPlaced
  <2>2. call' = [call EXCEPT ![c] = k]
    BY <1>2 DEF MockComplete
  <2> HIDE DEF k
  <2> QED BY <2>1, <2>2, MovePlaced
<1> QED BY <1>1, <1>2

\* The two lookups of complete_mock.
LEMMA MockPlaced ==
  ASSUME CallsOK, RowsOK, NEW c \in Calls, MockLookup(c) \/ MockOwner(c)
  PROVE  CallsOK'
<1> DEFINE k == call[c]
<1>1. k \in Call /\ WellPlaced(k)
  BY DEF CallsOK
<1>2. CASE MockLookup(c) /\ k.subject \in Txs
  BY <1>2, EndPlaced, ForwardPlaced DEF MockLookup, At, Labels
<1>3. CASE MockLookup(c) /\ k.subject \notin Txs
  <2> DEFINE n == [k EXCEPT !.pc = "owner", !.seen = subStatus[k.subject]]
  <2>1. k.subject \in Subs /\ k.event = None /\ k.user \in Users
    BY <1>1, <1>3 DEF MockLookup, At, WellPlaced
  <2>2. n \in Call /\ WellPlaced(n)
    <3>1. subStatus[k.subject] \in SubStates
      BY <2>1 DEF RowsOK
    <3>2. /\ n \in Call /\ n.pc = "owner"
          /\ n.event = k.event /\ n.subject = k.subject /\ n.user = k.user
      BY <1>1, <3>1 DEF Call, Labels
    <3> HIDE DEF n
    <3> QED BY <2>1, <3>2, PaymentsAssumption DEF WellPlaced
  <2>3. call' = [call EXCEPT ![c] = n] \/ End(c)
    BY <1>3 DEF MockLookup
  <2> HIDE DEF n
  <2> QED BY <2>2, <2>3, MovePlaced, EndPlaced
<1>4. CASE MockOwner(c)
  BY <1>4, EndPlaced, ForwardPlaced DEF MockOwner, At, Labels
<1> QED BY <1>2, <1>3, <1>4

\* Every step leaves each call well placed.
LEMMA NextPlaced ==
  ASSUME CallsOK, RowsOK, Next
  PROVE  CallsOK'
<1>1. ASSUME UNCHANGED call
      PROVE  CallsOK'
  BY <1>1 DEF CallsOK
<1>2. ASSUME NEW c \in Calls, Step(c) \/ Crash(c)
      PROVE  CallsOK'
  <2>1. CASE LookupEvent(c)
    BY <2>1, FirstStepPlaced, ForwardPlaced DEF LookupEvent, At, Labels
  <2>2. CASE RecordEvent(c)
    BY <2>2, FirstStepPlaced, EndPlaced DEF RecordEvent
  <2>3. CASE CompletePurchase(c)
    BY <2>3, ProceedPlaced, ForwardPlaced DEF CompletePurchase, At, Labels
  <2>4. CASE CreditPurchase(c)
    BY <2>4, ProceedPlaced DEF CreditPurchase, At
  <2>5. CASE FindSubscription(c)
    BY <2>5, ForwardPlaced DEF FindSubscription, At, Labels
  <2>6. CASE CreateSubscription(c)
    BY <2>6, EndPlaced, ForwardPlaced DEF CreateSubscription, At, Labels
  <2>7. CASE Activate(c)
    BY <2>7, ProceedPlaced, ForwardPlaced DEF Activate, At, Labels
  <2>8. CASE GrantFirstCycle(c)
    BY <2>8, ProceedPlaced DEF GrantFirstCycle, At
  <2>9. CASE FindEnded(c)
    BY <2>9, ForwardPlaced DEF FindEnded, At, Labels
  <2>10. CASE CancelSubscription(c)
    BY <2>10, ForwardPlaced DEF CancelSubscription, At, Labels
  <2>11. CASE MarkProcessed(c)
    BY <2>11, ForwardPlaced DEF MarkProcessed, At, Labels
  <2>12. CASE Respond(c) \/ Crash(c)
    BY <2>12, EndPlaced DEF Respond, Crash
  <2>13. CASE MockLookup(c) \/ MockOwner(c)
    BY <2>13, MockPlaced
  <2> QED BY <1>2, <2>1, <2>2, <2>3, <2>4, <2>5, <2>6, <2>7, <2>8, <2>9, <2>10, <2>11,
             <2>12, <2>13 DEF Step
<1> QED BY <1>1, <1>2, ArrivePlaced DEF Next, Checkout, SubscriptionCheckout, Spend

-----------------------------------------------------------------------------
(* Who may credit a purchase *)

CreditInv ==
    /\ \A c \in Calls : At(c, "credit") =>
         purchase[call[c].subject].status = "completed" /\ call[c].subject \notin credited
    /\ \A c, d \in Calls : At(c, "credit") /\ At(d, "credit") /\ call[c].subject = call[d].subject
         => c = d
    /\ \A t \in Txs : t \in credited => purchase[t].status = "completed"

\* No call comes to the crediting step: those there were there before.
NoNewCredit ==
    \A d \in Calls : At(d, "credit")' => At(d, "credit") /\ call'[d].subject = call[d].subject

LEMMA ElsewhereGoto ==
  ASSUME CallsOK, NEW c \in Calls, NEW l, l # "credit", Goto(c, l)
  PROVE  NoNewCredit /\ ~At(c, "credit")'
BY DEF NoNewCredit, Goto, At, CallsOK, Call

LEMMA ElsewhereEnd ==
  ASSUME CallsOK, NEW c \in Calls, End(c)
  PROVE  NoNewCredit /\ ~At(c, "credit")'
BY DEF NoNewCredit, End, IdleCall, At, CallsOK, Call

LEMMA ElsewhereProceed ==
  ASSUME CallsOK, NEW c \in Calls, Proceed(c)
  PROVE  NoNewCredit /\ ~At(c, "credit")'
BY ElsewhereGoto DEF Proceed

LEMMA FirstStepElsewhere == \A e \in Events : FirstStep(e) # "credit"
BY DEF FirstStep

\* Every step but the flip of a purchase brings no call to the crediting step.
LEMMA ElsewhereStep ==
  ASSUME CallsOK, NEW c \in Calls, Step(c) \/ Crash(c),
         ~(CompletePurchase(c) /\ purchase[call[c].subject].status = "pending")
  PROVE  NoNewCredit
<1>1. At(c, "lookup") \/ At(c, "record") => FirstStep(call[c].event) # "credit"
  BY FirstStepElsewhere DEF CallsOK, WellPlaced, At
<1>2. CASE LookupEvent(c) \/ RecordEvent(c)
  BY <1>1, <1>2, ElsewhereGoto, ElsewhereEnd DEF LookupEvent, RecordEvent
<1>3. CASE CompletePurchase(c)
  BY <1>3, ElsewhereProceed DEF CompletePurchase
<1>4. CASE CreditPurchase(c) \/ GrantFirstCycle(c) \/ Activate(c)
  BY <1>4, ElsewhereProceed, ElsewhereGoto DEF CreditPurchase, GrantFirstCycle, Activate
<1>5. CASE FindSubscription(c) \/ CreateSubscription(c)
  BY <1>5, ElsewhereGoto, ElsewhereEnd DEF FindSubscription, CreateSubscription
<1>6. CASE FindEnded(c) \/ CancelSubscription(c) \/ MarkProcessed(c)
  BY <1>6, ElsewhereGoto DEF FindEnded, CancelSubscription, MarkProcessed
<1>7. CASE Respond(c) \/ Crash(c)
  BY <1>7, ElsewhereEnd DEF Respond, Crash
<1>8. CASE MockLookup(c) /\ ~Goto(c, "complete") /\ ~End(c)
  BY <1>8 DEF MockLookup, NoNewCredit, At, CallsOK, Call
<1>9. CASE MockOwner(c) \/ (MockLookup(c) /\ (Goto(c, "complete") \/ End(c)))
  BY <1>9, ElsewhereGoto, ElsewhereEnd DEF MockOwner
<1> QED BY <1>2, <1>3, <1>4, <1>5, <1>6, <1>7, <1>8, <1>9 DEF Step

LEMMA CreditKept ==
  ASSUME CreditInv, NoNewCredit, UNCHANGED purchase,
         \A t \in Txs : t \in credited' <=> t \in credited,
         CallsOK
  PROVE  CreditInv'
BY DEF CreditInv, NoNewCredit, CallsOK, WellPlaced, At

\* The two transactions of grant_purchase.
LEMMA CreditFlip ==
  ASSUME CreditInv, CallsOK, RowsOK, NEW c \in Calls, CompletePurchase(c),
         purchase[call[c].subject].status = "pending"
  PROVE  CreditInv'
<1> DEFINE t == call[c].subject
<1>1. t \in Txs
  BY DEF CallsOK, WellPlaced, CompletePurchase, At
<1>2. /\ purchase' = [purchase EXCEPT ![t].status = "completed"]
      /\ call' = [call EXCEPT ![c].pc = "credit"]
      /\ credited' = credited
  BY DEF CompletePurchase, Goto
<1>3. \A x \in Txs : purchase[x].status = "completed" => purchase'[x].status = "completed"
  BY <1>1, <1>2 DEF RowsOK, Orders
<1>4. purchase'[t].status = "completed" /\ t \notin credited
  BY <1>1, <1>2 DEF RowsOK, Orders, CreditInv
<1>5. \A d \in Calls : /\ d # c => call'[d] = call[d]
                       /\ call'[d].subject = call[d].subject
                       /\ At(d, "credit") => call[d].subject \in Txs /\ call[d].subject # t
  BY <1>1, <1>2 DEF CallsOK, Call, WellPlaced, CreditInv, At
<1>6. \A d \in Calls : At(d, "credit")' => d = c \/ At(d, "credit")
  BY <1>5 DEF At
<1> HIDE DEF t
<1>7. call[c].subject = t
  BY DEF t
<1> QED BY <1>1, <1>2, <1>3, <1>4, <1>5, <1>6, <1>7 DEF CreditInv

LEMMA CreditLand ==
  ASSUME CreditInv, CallsOK, NEW c \in Calls, CreditPurchase(c)
  PROVE  CreditInv'
<1> DEFINE t == call[c].subject
<1>1. t \in Txs /\ purchase[t].status = "completed"
  BY DEF CallsOK, WellPlaced, CreditPurchase, CreditInv, At
<1>2. purchase' = purchase /\ credited' = credited \cup {t}
  BY DEF CreditPurchase, rows
<1>3. NoNewCredit /\ ~At(c, "credit")'
  BY ElsewhereProceed DEF CreditPurchase
<1>4. \A d \in Calls : At(d, "credit")' => call[d].subject # t
  BY <1>3 DEF CreditInv, NoNewCredit, CreditPurchase
<1> HIDE DEF t
<1> QED BY <1>1, <1>2, <1>3, <1>4 DEF CreditInv, NoNewCredit

LEMMA CreditNext ==
  ASSUME CreditInv, CallsOK, RowsOK, Next
  PROVE  CreditInv'
<1>1. CASE \E u \in Users, t \in Txs : Checkout(u, t)
  <2> PICK u \in Users, t \in Txs : Checkout(u, t)
    BY <1>1
  <2>1. /\ purchase[t].status = "none" /\ call' = call /\ credited' = credited
        /\ purchase' = [purchase EXCEPT ![t] = [status |-> "pending", user |-> u]]
    BY DEF Checkout
  <2>2. \A x \in Txs : purchase[x].status = "completed" => purchase'[x].status = "completed"
    BY <2>1 DEF RowsOK
  <2>3. \A d \in Calls : At(d, "credit") => call[d].subject \in Txs
    BY DEF CallsOK, WellPlaced, At
  <2> QED BY <2>1, <2>2, <2>3 DEF CreditInv, At
<1>2. CASE \/ \E u \in Users : Spend(u)
           \/ \E u \in Users, s \in Subs : SubscriptionCheckout(u, s)
  BY <1>2, CreditKept DEF Spend, SubscriptionCheckout, rows, NoNewCredit, At
<1>3. ASSUME NEW c \in Calls,
             \/ \E e \in Events : Deliver(c, e)
             \/ \E u \in Users, x \in Txs \cup Subs : MockComplete(c, u, x)
      PROVE  CreditInv'
  <2>1. PICK k : k.pc # "credit" /\ call' = [call EXCEPT ![c] = k]
    <3>1. ASSUME NEW e \in Events, Deliver(c, e)
          PROVE  \E k : k.pc # "credit" /\ call' = [call EXCEPT ![c] = k]
      BY <3>1 DEF Deliver
    <3>2. ASSUME NEW u \in Users, NEW x \in Txs \cup Subs, MockComplete(c, u, x)
          PROVE  \E k : k.pc # "credit" /\ call' = [call EXCEPT ![c] = k]
      BY <3>2 DEF MockComplete, IdleCall
    <3> QED BY <1>3, <3>1, <3>2
  <2>2. NoNewCredit
    BY <2>1 DEF NoNewCredit, At, CallsOK
  <2> QED BY <1>3, <2>2, CreditKept DEF Deliver, MockComplete, rows
<1>4. ASSUME NEW c \in Calls, Step(c) \/ Crash(c)
      PROVE  CreditInv'
  <2>1. CASE CompletePurchase(c) /\ purchase[call[c].subject].status = "pending"
    BY <2>1, CreditFlip
  <2>2. CASE CreditPurchase(c)
    BY <2>2, CreditLand
  <2>3. CASE GrantFirstCycle(c)
    <3>1. call[c].subject \in Subs
      BY <2>3 DEF GrantFirstCycle, CallsOK, WellPlaced, At
    <3>2. \A t \in Txs : t \in credited' <=> t \in credited
      BY <2>3, <3>1, PaymentsAssumption DEF GrantFirstCycle
    <3>3. NoNewCredit /\ UNCHANGED purchase
      BY <2>3, ElsewhereProceed DEF GrantFirstCycle, rows
    <3> QED BY <3>2, <3>3, CreditKept
  <2>4. CASE /\ ~(CompletePurchase(c) /\ purchase[call[c].subject].status = "pending")
             /\ ~CreditPurchase(c) /\ ~GrantFirstCycle(c)
    <3>1. NoNewCredit
      BY <1>4, <2>4, ElsewhereStep
    <3>2. UNCHANGED <<purchase, credited>>
      BY <1>4, <2>4 DEF Step, Crash, LookupEvent, RecordEvent, CompletePurchase,
         FindSubscription, CreateSubscription, Activate, FindEnded, CancelSubscription,
         MarkProcessed, Respond, MockLookup, MockOwner, rows
    <3> QED BY <3>1, <3>2, CreditKept
  <2> QED BY <2>1, <2>2, <2>3, <2>4
<1> QED BY <1>1, <1>2, <1>3, <1>4 DEF Next

-----------------------------------------------------------------------------
(* Types *)

\* Rows keep their types, and an order its buyer.
LEMMA RowsNext ==
  ASSUME CallsOK, RowsOK, Next
  PROVE  RowsOK'
<1>1. CASE \E u \in Users, t \in Txs : Checkout(u, t)
  BY <1>1 DEF Checkout, RowsOK, Orders
<1>2. CASE \E u \in Users, s \in Subs : SubscriptionCheckout(u, s)
  BY <1>2 DEF SubscriptionCheckout, RowsOK, SubStates
<1>3. CASE UNCHANGED rows
  BY <1>3 DEF rows, RowsOK
<1>4. ASSUME NEW c \in Calls, Step(c), ~UNCHANGED rows
      PROVE  RowsOK'
  <2>1. call[c] \in Call /\ WellPlaced(call[c])
    BY DEF CallsOK
  <2>2. CASE RecordEvent(c) \/ MarkProcessed(c)
    BY <2>1, <2>2 DEF RecordEvent, MarkProcessed, RowsOK, WellPlaced, At
  <2>3. CASE CompletePurchase(c)
    <3>1. call[c].subject \in Txs
      BY <2>1, <2>3 DEF CompletePurchase, WellPlaced, At
    <3> QED BY <2>3, <3>1 DEF CompletePurchase, RowsOK, Orders
  <2>4. CASE CreateSubscription(c)
    <3>1. call[c].subject \in Subs /\ call[c].user \in Users
      BY <2>1, <2>4 DEF CreateSubscription, WellPlaced, At
    <3> QED BY <2>4, <3>1 DEF CreateSubscription, RowsOK, SubStates
  <2>5. CASE Activate(c) \/ CancelSubscription(c)
    <3>1. call[c].subject \in Subs
      BY <2>1, <2>5 DEF Activate, CancelSubscription, WellPlaced, At
    <3> QED BY <2>5, <3>1 DEF Activate, CancelSubscription, RowsOK, SubStates
  <2>6. \/ RecordEvent(c) \/ MarkProcessed(c) \/ CompletePurchase(c) \/ CreateSubscription(c)
        \/ Activate(c) \/ CancelSubscription(c)
    BY <1>4 DEF Step, LookupEvent, CreditPurchase, FindSubscription, GrantFirstCycle,
       FindEnded, Respond, MockLookup, MockOwner, rows
  <2> QED BY <2>2, <2>3, <2>4, <2>5, <2>6
<1> QED BY <1>1, <1>2, <1>3, <1>4 DEF Next, Deliver, MockComplete, Crash, Spend

LEMMA HistoryNext ==
  ASSUME CallsOK, HistoryOK, Next
  PROVE  HistoryOK'
<1>1. CASE UNCHANGED <<acked, credited, lost, crashes>>
  BY <1>1 DEF HistoryOK
<1>2. ASSUME NEW c \in Calls, Crash(c)
      PROVE  HistoryOK'
  <2>1. call[c] \in Call /\ WellPlaced(call[c])
    BY DEF CallsOK
  <2>2. call[c].pc \in {"credit", "cycle"} => call[c].subject \in Txs \cup Subs
    BY <2>1 DEF WellPlaced
  <2>3. lost' \in SUBSET (Txs \cup Subs)
    BY <1>2, <2>2 DEF Crash, HistoryOK
  <2> QED BY <1>2, <2>3, PaymentsAssumption DEF Crash, HistoryOK
<1>3. ASSUME NEW c \in Calls, Respond(c) \/ CreditPurchase(c) \/ GrantFirstCycle(c)
      PROVE  HistoryOK'
  <2>1. call[c] \in Call /\ WellPlaced(call[c])
    BY DEF CallsOK
  <2>2. IsWebhook(c) => call[c].event \in Events
    BY <2>1 DEF IsWebhook, Call
  <2> QED BY <1>3, <2>1, <2>2 DEF Respond, CreditPurchase, GrantFirstCycle, HistoryOK,
          WellPlaced, At
<1> QED BY <1>1, <1>2, <1>3 DEF Next, Step, Checkout, SubscriptionCheckout, Deliver,
        MockComplete, Spend, LookupEvent, RecordEvent, CompletePurchase, FindSubscription,
        CreateSubscription, Activate, FindEnded, CancelSubscription, MarkProcessed,
        MockLookup, MockOwner

\* Each step is a transaction of the store, of a typed amount, or leaves it alone.
LEMMA PaymentIsStoreStep ==
  ASSUME CallsOK, RowsOK, CreditInv, Next
  PROVE  StoreStep \/ UNCHANGED wvars
<1>1. CASE UNCHANGED wvars
  BY <1>1
<1>2. ASSUME NEW u \in Users, Spend(u)
      PROVE  StoreStep
  BY <1>2 DEF Spend, StoreStep
<1>3. ASSUME NEW c \in Calls, CreditPurchase(c)
      PROVE  StoreStep
  <2>1. call[c].subject \in Txs
    BY <1>3 DEF CreditPurchase, CallsOK, WellPlaced, At
  <2>2. purchase[call[c].subject].user \in Users /\ PackHints[call[c].subject] \in Nat
    BY <1>3, <2>1, PaymentsAssumption DEF CreditPurchase, CreditInv, RowsOK, At
  <2> QED BY <1>3, <2>2 DEF CreditPurchase, StoreStep
<1>4. ASSUME NEW c \in Calls, GrantFirstCycle(c)
      PROVE  StoreStep
  <2>1. call[c].subject \in Subs /\ call[c].user \in Users
    BY <1>4 DEF GrantFirstCycle, CallsOK, WellPlaced, At
  <2>2. CycleHints[call[c].subject] \in Nat
    BY <2>1, PaymentsAssumption
  <2> QED BY <1>4, <2>1, <2>2 DEF GrantFirstCycle, StoreStep
<1> QED BY <1>1, <1>2, <1>3, <1>4 DEF Next, Step, Checkout, SubscriptionCheckout, Deliver,
        MockComplete, Crash, LookupEvent, RecordEvent, CompletePurchase, FindSubscription,
        CreateSubscription, Activate, FindEnded, CancelSubscription, MarkProcessed, Respond,
        MockLookup, MockOwner

PaymentsInv == WalletInv /\ CallsOK /\ RowsOK /\ HistoryOK /\ CreditInv

LEMMA PaymentsInit == Init => PaymentsInv
<1> SUFFICES ASSUME Init PROVE PaymentsInv
  OBVIOUS
<1>1. WalletInv
  BY InitInv DEF Init
<1>2. CallsOK
  BY IdlePlaced DEF Init, CallsOK
<1>3. RowsOK /\ HistoryOK
  BY PaymentsAssumption DEF Init, RowsOK, Orders, SubStates, HistoryOK
<1>4. CreditInv
  BY DEF Init, CreditInv, IdleCall, At
<1> QED BY <1>1, <1>2, <1>3, <1>4 DEF PaymentsInv

LEMMA PaymentsStep == PaymentsInv /\ [Next]_vars => PaymentsInv'
<1> SUFFICES ASSUME PaymentsInv, [Next]_vars PROVE PaymentsInv'
  OBVIOUS
<1>1. CASE Next
  BY <1>1, NextPlaced, RowsNext, HistoryNext, CreditNext, PaymentIsStoreStep, StoreStepInv,
     StutterInv DEF PaymentsInv
<1>2. CASE UNCHANGED vars
  <2>1. WalletInv'
    BY <1>2, StutterInv DEF PaymentsInv, vars
  <2>2. CallsOK' /\ RowsOK' /\ HistoryOK'
    BY <1>2 DEF PaymentsInv, vars, rows, CallsOK, RowsOK, HistoryOK
  <2>3. CreditInv'
    BY <1>2 DEF PaymentsInv, vars, rows, CreditInv, At
  <2> QED BY <2>1, <2>2, <2>3 DEF PaymentsInv
<1> QED BY <1>1, <1>2

\* Types of all rows and calls, for any number of concurrent and crashing webhook
\* calls.
THEOREM PaymentsTyped == Spec => []PaymentsTypeOK
<1>1. PaymentsInv => PaymentsTypeOK
  BY DEF PaymentsInv, WalletInv, CallsOK, RowsOK, HistoryOK, PaymentsTypeOK
<1> QED BY <1>1, PaymentsInit, PaymentsStep, PTL DEF Spec

\* The ledgers account for every balance, and every paid hint held or spent was
\* credited by a purchase, whatever is delivered twice or dies half-way.
THEOREM PaymentsSafe == Spec => [](LedgerCoversBalance /\ PaidHintsConserved)
<1>1. Init => Conserved
  BY InitConserved DEF Init, WalletInit, Buckets, GrantSources
<1>2. PaymentsInv /\ Conserved /\ [Next]_vars => PaymentsInv' /\ Conserved'
  <2> SUFFICES ASSUME PaymentsInv, Conserved, [Next]_vars PROVE Conserved'
    BY PaymentsStep
  <2>1. CASE Next
    BY <2>1, PaymentIsStoreStep, StoreStepConserves, StutterConserves DEF PaymentsInv, WalletInv
  <2>2. CASE UNCHANGED vars
    BY <2>2, StutterConserves DEF vars
  <2> QED BY <2>1, <2>2
<1>3. PaymentsInv /\ Conserved => LedgerCoversBalance /\ PaidHintsConserved
  BY DEF PaymentsInv, WalletInv, Conserved
<1> QED BY <1>1, <1>2, <1>3, PaymentsInit, PTL DEF Spec

-----------------------------------------------------------------------------
(* Top-ups implement CreditOnce *)

OrderBar == [t \in Txs |-> [phase |-> Progress(t), user |-> purchase[t].user]]
TopupsBar == [u \in Users |-> granted[u]["one_time"]]

\* Steps that leave purchases, landed top-ups and the one-time ledger alone are
\* steps the promise does not see.
LEMMA Unseen ==
  ASSUME UNCHANGED purchase, \A t \in Txs : t \in credited' <=> t \in credited,
         \A u \in Users : granted'[u]["one_time"] = granted[u]["one_time"]
  PROVE  UNCHANGED <<OrderBar, TopupsBar>>
BY DEF OrderBar, TopupsBar, Progress

LEMMA PlaceStep ==
  ASSUME PaymentsInv, NEW u \in Users, NEW t \in Txs, Checkout(u, t)
  PROVE  Promise!Place(t, u)
<1>1. /\ purchase[t].status = "none" /\ credited' = credited /\ granted' = granted
      /\ purchase' = [purchase EXCEPT ![t] = [status |-> "pending", user |-> u]]
  BY DEF Checkout, wvars
<1>2. t \notin credited
  BY <1>1 DEF PaymentsInv, CreditInv
<1>3. purchase \in [Txs -> Orders]
  BY DEF PaymentsInv, RowsOK
<1>4. OrderBar[t].phase = "none"
  BY <1>1, <1>2 DEF OrderBar, Progress
<1>5. OrderBar' = [OrderBar EXCEPT ![t] = [phase |-> "pending", user |-> u]]
  BY <1>1, <1>2, <1>3 DEF OrderBar, Progress
<1>6. TopupsBar' = TopupsBar
  BY <1>1 DEF TopupsBar
<1> QED BY <1>4, <1>5, <1>6 DEF Promise!Place, OrderBar, TopupsBar

LEMMA PayStep ==
  ASSUME PaymentsInv, NEW c \in Calls, CompletePurchase(c),
         purchase[call[c].subject].status = "pending"
  PROVE  \E t \in Txs : Promise!Pay(t)
<1> DEFINE t == call[c].subject
<1>1. t \in Txs
  BY DEF PaymentsInv, CallsOK, WellPlaced, CompletePurchase, At
<1>2. /\ purchase[t].status = "pending" /\ credited' = credited /\ granted' = granted
      /\ purchase' = [purchase EXCEPT ![t].status = "completed"]
  BY DEF CompletePurchase, wvars
<1> HIDE DEF t
<1>3. t \notin credited
  BY <1>1, <1>2 DEF PaymentsInv, CreditInv
<1>4. purchase \in [Txs -> Orders]
  BY DEF PaymentsInv, RowsOK
<1>5. OrderBar[t].phase = "pending"
  BY <1>1, <1>2, <1>3 DEF OrderBar, Progress
<1>6. OrderBar' = [OrderBar EXCEPT ![t].phase = "completed"]
  BY <1>1, <1>2, <1>3, <1>4 DEF OrderBar, Progress, Orders
<1>7. TopupsBar' = TopupsBar
  BY <1>2 DEF TopupsBar
<1> QED BY <1>1, <1>5, <1>6, <1>7 DEF Promise!Pay, OrderBar, TopupsBar

LEMMA CreditingStep ==
  ASSUME PaymentsInv, NEW c \in Calls, CreditPurchase(c)
  PROVE  \E t \in Txs : Promise!Credit(t)
<1> DEFINE t == call[c].subject
           u == purchase[t].user
<1>1. t \in Txs /\ purchase[t].status = "completed" /\ t \notin credited
  BY DEF PaymentsInv, CallsOK, WellPlaced, CreditPurchase, CreditInv, At
<1>2. u \in Users
  BY <1>1 DEF PaymentsInv, RowsOK
<1>3. /\ purchase' = purchase /\ credited' = credited \cup {t}
      /\ granted' = [granted EXCEPT ![u]["one_time"] = @ + PackHints[t]]
  BY DEF CreditPurchase, AddTopupHints, Credit, rows
<1>4. granted \in [Users -> [GrantSources -> Nat]]
  BY DEF PaymentsInv, WalletInv, WalletTypeOK
<1> HIDE DEF t, u
<1>5. OrderBar[t].phase = "completed" /\ OrderBar[t].user = u
  BY <1>1 DEF OrderBar, Progress, u
<1>6. OrderBar' = [OrderBar EXCEPT ![t].phase = "credited"]
  BY <1>1, <1>3 DEF OrderBar, Progress
<1>7. TopupsBar' = [TopupsBar EXCEPT ![u] = @ + PackHints[t]]
  BY <1>2, <1>3, <1>4 DEF TopupsBar, GrantSources
<1> QED BY <1>1, <1>5, <1>6, <1>7 DEF Promise!Credit, OrderBar, TopupsBar

LEMMA PromiseStep ==
  PaymentsInv /\ [Next]_vars => [Promise!Next]_<<OrderBar, TopupsBar>>
<1> SUFFICES ASSUME PaymentsInv, [Next]_vars
             PROVE  Promise!Next \/ UNCHANGED <<OrderBar, TopupsBar>>
  OBVIOUS
<1>1. CASE UNCHANGED <<purchase, credited, granted>>
  BY <1>1, Unseen
<1>2. ASSUME NEW u \in Users, Spend(u)
      PROVE  UNCHANGED <<OrderBar, TopupsBar>>
  BY <1>2, Unseen DEF Spend, Consume, rows
<1>3. ASSUME NEW c \in Calls, GrantFirstCycle(c)
      PROVE  UNCHANGED <<OrderBar, TopupsBar>>
  <2>1. call[c].subject \in Subs
    BY <1>3 DEF GrantFirstCycle, PaymentsInv, CallsOK, WellPlaced, At
  <2>2. \A t \in Txs : t \in credited' <=> t \in credited
    BY <1>3, <2>1, PaymentsAssumption DEF GrantFirstCycle
  <2>3. \A u \in Users : granted'[u]["one_time"] = granted[u]["one_time"]
    BY <1>3 DEF GrantFirstCycle, SetSubscriptionHints, Credit, PaymentsInv, WalletInv,
       WalletTypeOK, GrantSources
  <2> QED BY <1>3, <2>2, <2>3, Unseen DEF GrantFirstCycle, rows
<1>4. ASSUME NEW u \in Users, NEW t \in Txs, Checkout(u, t)
      PROVE  Promise!Next
  BY <1>4, PlaceStep DEF Promise!Next
<1>5. ASSUME NEW c \in Calls, CompletePurchase(c), ~UNCHANGED purchase
      PROVE  Promise!Next
  BY <1>5, PayStep DEF Promise!Next, CompletePurchase
<1>6. ASSUME NEW c \in Calls, CreditPurchase(c)
      PROVE  Promise!Next
  BY <1>6, CreditingStep DEF Promise!Next
<1>7. CASE UNCHANGED vars
  BY <1>7, <1>1 DEF vars, wvars, rows
<1>8. ASSUME NEW c \in Calls, CompletePurchase(c), UNCHANGED purchase
      PROVE  UNCHANGED <<OrderBar, TopupsBar>>
  BY <1>8, Unseen DEF CompletePurchase, wvars
<1> QED BY <1>1, <1>2, <1>3, <1>4, <1>5, <1>6, <1>7, <1>8 DEF Next, Step,
        SubscriptionCheckout, Deliver, MockComplete, Crash, LookupEvent, RecordEvent,
        FindSubscription, CreateSubscription, Activate, FindEnded, CancelSubscription,
        MarkProcessed, Respond, MockLookup, MockOwner, wvars, rows

\* Top-ups are completed once and credited at most once, to their buyer: the
\* concurrent, crashing and repeated deliveries of the detailed module all look
\* like steps of CreditOnce.
THEOREM Implements == Spec => TopUpsCreditedOnce
<1>1. Init => Promise!Init
  BY DEF Init, WalletInit, GrantSources, Promise!Init, Progress
<1>2. PaymentsInv /\ [Next]_vars =>
        [Promise!Next]_<<OrderBar, TopupsBar>>
  BY PromiseStep
<1> QED BY <1>1, <1>2, PaymentsInit, PaymentsStep, PTL
        DEF Spec, TopUpsCreditedOnce, Promise!Spec, OrderBar, TopupsBar

-----------------------------------------------------------------------------
(* What a 200 stands for *)

\* What a call relies on: a webhook's purchase has a row, a call about to grant
\* a cycle has seen the activation, one about to mark or answer the whole effect.
Backed(k) ==
    /\ k.event # None /\ k.subject \in Txs => purchase[k.subject].status # "none"
    /\ k.pc = "cycle" => subStatus[k.subject] \in {"active", "canceled"}
    /\ k.pc \in {"mark", "respond"} /\ k.event # None => Handled(k.event)

HandledInv ==
    /\ \A e \in acked : Handled(e)
    /\ \A e \in Events : event[e] = "processed" => Handled(e)
    /\ \A c \in Calls : Backed(call[c])

\* Rows only move forward: a purchase never loses its row or its completion, a
\* subscription that was activated never goes back to pending.
Forward ==
    /\ \A t \in Txs : purchase[t].status # "none" => purchase'[t].status # "none"
    /\ \A t \in Txs : purchase[t].status = "completed" => purchase'[t].status = "completed"
    /\ \A s \in Subs : subStatus[s] \in {"active", "canceled"} =>
                         subStatus'[s] \in {"active", "canceled"}

LEMMA ForwardNext ==
  ASSUME CallsOK, RowsOK, Next
  PROVE  Forward
<1>1. CASE \E u \in Users, t \in Txs : Checkout(u, t)
  BY <1>1 DEF Checkout, Forward, RowsOK
<1>2. CASE \E u \in Users, s \in Subs : SubscriptionCheckout(u, s)
  BY <1>2 DEF SubscriptionCheckout, Forward, RowsOK
<1>3. CASE UNCHANGED <<purchase, subStatus>>
  BY <1>3 DEF Forward
<1>4. ASSUME NEW c \in Calls, CompletePurchase(c)
      PROVE  Forward
  BY <1>4 DEF CompletePurchase, Forward, RowsOK, Orders
<1>5. ASSUME NEW c \in Calls, CreateSubscription(c) \/ Activate(c) \/ CancelSubscription(c)
      PROVE  Forward
  BY <1>5 DEF CreateSubscription, Activate, CancelSubscription, Forward, RowsOK
<1> QED BY <1>1, <1>2, <1>3, <1>4, <1>5 DEF Next, Step, Deliver, MockComplete, Crash, Spend,
        LookupEvent, RecordEvent, CreditPurchase, FindSubscription, GrantFirstCycle, FindEnded,
        MarkProcessed, Respond, MockLookup, MockOwner, rows

\* What was handled stays handled, and so does what other calls rely on.
LEMMA HandledStays ==
  ASSUME Forward, NEW e \in Events, Handled(e)
  PROVE  Handled(e)'
BY DEF Forward, Handled, FirstStep

LEMMA BackedStays ==
  ASSUME Forward, CallsOK, NEW d \in Calls, Backed(call[d]), call'[d] = call[d]
  PROVE  Backed(call[d])'
<1>1. /\ call[d].event # None => call[d].event \in Events
      /\ call[d].pc = "cycle" => call[d].subject \in Subs
  BY DEF CallsOK, Call, WellPlaced
<1> QED BY <1>1, HandledStays DEF Backed, Forward

\* One call moves on, with what it now relies on.
LEMMA HandledMove ==
  ASSUME HandledInv, HistoryOK, CallsOK, Forward, NEW c \in Calls,
         \A d \in Calls : d # c => call'[d] = call[d],
         Backed(call[c])',
         \A e \in acked' : e \in acked \/ Handled(e)',
         \A e \in Events : event'[e] = "processed" => event[e] = "processed" \/ Handled(e)'
  PROVE  HandledInv'
<1>1. \A d \in Calls : Backed(call[d])'
  BY BackedStays DEF HandledInv
<1>2. \A e \in acked' : Handled(e)'
  BY HandledStays DEF HandledInv, HistoryOK
<1>3. \A e \in Events : event'[e] = "processed" => Handled(e)'
  BY HandledStays DEF HandledInv
<1> QED BY <1>1, <1>2, <1>3 DEF HandledInv

\* A relabelled call relies on the row of its purchase and on what l asks.
LEMMA BackedGoto ==
  ASSUME Forward, CallsOK, NEW c \in Calls, Backed(call[c]), NEW l \in Labels, Goto(c, l),
         l = "cycle" => /\ call[c].subject \in Subs
                        /\ subStatus'[call[c].subject] \in {"active", "canceled"},
         l \in {"mark", "respond"} /\ call[c].event # None =>
           Handled(call[c].event) \/ \E e \in {call[c].event} : Handled(e)'
  PROVE  /\ Backed(call[c])'
         /\ \A d \in Calls : d # c => call'[d] = call[d]
<1>1. /\ call'[c].pc = l /\ call'[c].event = call[c].event /\ call'[c].subject = call[c].subject
      /\ \A d \in Calls : d # c => call'[d] = call[d]
  BY DEF Goto, CallsOK, Call
<1>2. call[c].event # None => call[c].event \in Events
  BY DEF CallsOK, Call
<1> QED BY <1>1, <1>2, HandledStays DEF Backed, Forward, Handled

LEMMA BackedEnd ==
  ASSUME CallsOK, NEW c \in Calls, End(c)
  PROVE  /\ Backed(call[c])'
         /\ \A d \in Calls : d # c => call'[d] = call[d]
<1>1. call'[c] = IdleCall /\ \A d \in Calls : d # c => call'[d] = call[d]
  BY DEF End, CallsOK
<1> QED BY <1>1 DEF Backed, IdleCall

LEMMA BackedProceed ==
  ASSUME Forward, CallsOK, NEW c \in Calls, Backed(call[c]), Proceed(c),
         call[c].event # None =>
           Handled(call[c].event) \/ \E e \in {call[c].event} : Handled(e)'
  PROVE  /\ Backed(call[c])'
         /\ \A d \in Calls : d # c => call'[d] = call[d]
<1>1. PICK l \in {"mark", "respond"} : Goto(c, l)
  BY DEF Proceed
<1>2. l \in Labels
  BY DEF Labels
<1> QED BY <1>1, <1>2, BackedGoto

\* Steps of a call, by what they leave it relying on.
LEMMA HandledStep ==
  ASSUME PaymentsInv, HandledInv, Forward, NEW c \in Calls, Step(c)
  PROVE  HandledInv'
<1> DEFINE k == call[c]
<1>1. /\ CallsOK /\ RowsOK /\ HistoryOK /\ CreditInv
      /\ k \in Call /\ WellPlaced(k) /\ Backed(k)
  BY DEF PaymentsInv, CallsOK, HandledInv
<1>2. Txs \cap Subs = {} /\ None \notin Txs \cup Subs
  BY PaymentsAssumption
<1> DEFINE Moved == /\ Backed(call[c])'
                    /\ \A d \in Calls : d # c => call'[d] = call[d]
<1>3. ASSUME Moved, acked' = acked, event' = event
      PROVE  HandledInv'
  BY <1>1, <1>3, HandledMove
<1>4. ASSUME NEW e \in Events, k.event = e, Goto(c, FirstStep(e)),
             At(c, "lookup") \/ At(c, "record")
      PROVE  Moved
  <2>1. FirstStep(e) \in Labels \ {"cycle", "respond"}
    BY DEF FirstStep, Labels
  <2>2. FirstStep(e) = "mark" => Handled(e)
    BY <1>2 DEF FirstStep, Handled
  <2> QED BY <1>1, <1>4, <2>1, <2>2, BackedGoto
<1>5. CASE LookupEvent(c)
  <2>1. k.event \in Events
    BY <1>1, <1>5 DEF LookupEvent, At, WellPlaced
  <2>2. event[k.event] = "processed" /\ Goto(c, "respond") => Moved
    BY <1>1, <2>1, BackedGoto DEF HandledInv, Labels
  <2>3. Goto(c, "record") => Moved
    BY <1>1, BackedGoto DEF Labels
  <2>4. Goto(c, FirstStep(k.event)) => Moved
    BY <1>4, <1>5, <2>1 DEF LookupEvent
  <2> QED BY <1>3, <1>5, <2>2, <2>3, <2>4 DEF LookupEvent, rows
<1>6. CASE RecordEvent(c)
  <2>1. k.event \in Events
    BY <1>1, <1>6 DEF RecordEvent, At, WellPlaced
  <2>2. Moved
    BY <1>1, <1>4, <1>6, <2>1, BackedEnd DEF RecordEvent
  <2>3. /\ acked' = acked
        /\ \A e \in Events : event'[e] = "processed" => event[e] = "processed"
    BY <1>1, <1>6 DEF RecordEvent, RowsOK
  <2> QED BY <1>1, <2>2, <2>3, HandledMove
<1>7. CASE CompletePurchase(c)
  <2>1. k.subject \in Txs /\ (k.event # None => k.subject = EventData[k.event].subject)
    BY <1>1, <1>7 DEF CompletePurchase, At, WellPlaced
  <2>2. Goto(c, "credit") => Moved
    BY <1>1, BackedGoto DEF Labels
  <2>3. ASSUME purchase[k.subject].status # "pending", Proceed(c)
        PROVE  Moved
    <3>1. k.event # None => purchase[k.subject].status = "completed"
      BY <1>1, <2>1, <2>3 DEF RowsOK, Orders, Backed
    <3>2. k.event # None => Handled(k.event)
      BY <1>2, <2>1, <3>1 DEF Handled
    <3> QED BY <1>1, <2>3, <3>2, BackedProceed
  <2> QED BY <1>3, <1>7, <2>2, <2>3 DEF CompletePurchase
<1>8. CASE CreditPurchase(c)
  <2>1. k.subject \in Txs /\ (k.event # None => k.subject = EventData[k.event].subject)
    BY <1>1, <1>8 DEF CreditPurchase, At, WellPlaced
  <2>2. k.event # None => Handled(k.event)
    BY <1>1, <1>2, <1>8, <2>1 DEF CreditPurchase, CreditInv, Handled
  <2> QED BY <1>1, <1>3, <1>8, <2>2, BackedProceed DEF CreditPurchase, rows
<1>9. ASSUME k.subject \in Subs, k.event # None, k.subject = EventData[k.event].subject,
             subStatus'[k.subject] \in {"active", "canceled"}
      PROVE  \E e \in {k.event} : Handled(e)'
  BY <1>2, <1>9 DEF Handled, FirstStep
<1>10. CASE FindSubscription(c)
  <2>1. k.subject \in Subs /\ k.event # None /\ k.subject = EventData[k.event].subject
    BY <1>1, <1>10, PaymentsAssumption DEF FindSubscription, At, WellPlaced
  <2>2. CASE subStatus[k.subject] = "active" /\ Goto(c, "mark")
    <3>1. Handled(k.event)
      BY <1>2, <2>1, <2>2 DEF Handled
    <3> QED BY <1>1, <1>3, <1>10, <2>2, <3>1, BackedGoto DEF FindSubscription, rows, Labels
  <2>3. CASE Goto(c, "create") \/ Goto(c, "activate")
    BY <1>1, <1>3, <1>10, <2>3, BackedGoto DEF FindSubscription, rows, Labels
  <2> QED BY <1>10, <2>2, <2>3 DEF FindSubscription
<1>11. CASE CreateSubscription(c)
  BY <1>1, <1>3, <1>11, BackedGoto, BackedEnd DEF CreateSubscription, Labels
<1>12. CASE Activate(c)
  <2>1. k.subject \in Subs /\ subStatus'[k.subject] = "active"
    BY <1>1, <1>12 DEF Activate, At, WellPlaced, RowsOK
  <2>2. CASE Goto(c, "cycle")
    BY <1>1, <1>3, <1>12, <2>1, <2>2, BackedGoto DEF Activate, Labels
  <2>3. CASE Proceed(c)
    BY <1>1, <1>3, <1>9, <1>12, <2>1, <2>3, BackedProceed DEF Activate, WellPlaced
  <2> QED BY <1>12, <2>2, <2>3 DEF Activate
<1>13. CASE GrantFirstCycle(c)
  <2>1. k.subject \in Subs /\ subStatus[k.subject] \in {"active", "canceled"}
    BY <1>1, <1>13 DEF GrantFirstCycle, At, WellPlaced, Backed
  <2>2. k.event # None => Handled(k.event)
    BY <1>1, <1>2, <2>1 DEF WellPlaced, Handled
  <2> QED BY <1>1, <1>3, <1>13, <2>2, BackedProceed DEF GrantFirstCycle, rows
<1>14. CASE FindEnded(c) \/ CancelSubscription(c)
  <2>1. k.subject \in Subs /\ FirstStep(k.event) = "findEnded"
        /\ (k.event # None => k.subject = EventData[k.event].subject)
    BY <1>1, <1>14 DEF FindEnded, CancelSubscription, At, WellPlaced
  <2>2. k.event # None => Handled(k.event)
    BY <1>2, <2>1 DEF Handled
  <2>3. PICK l \in {"mark", "cancel"} : Goto(c, l)
    BY <1>14 DEF FindEnded, CancelSubscription
  <2>4. Moved
    BY <1>1, <2>2, <2>3, BackedGoto DEF Labels
  <2> QED BY <1>3, <1>14, <2>4 DEF FindEnded, CancelSubscription, rows
<1>15. CASE MarkProcessed(c)
  <2>1. k.event \in Events /\ k.event # None /\ Handled(k.event)
    BY <1>1, <1>15, PaymentsAssumption DEF MarkProcessed, At, WellPlaced, Backed
  <2>2. Moved
    BY <1>1, <1>15, <2>1, BackedGoto DEF MarkProcessed, Labels
  <2>3. acked' = acked /\ \A e \in Events : event'[e] = "processed" =>
          event[e] = "processed" \/ e = k.event
    BY <1>1, <1>15 DEF MarkProcessed, RowsOK
  <2>4. \A e \in {k.event} : Handled(e)'
    BY <2>1, HandledStays
  <2> QED BY <1>1, <2>2, <2>3, <2>4, HandledMove
<1>16. CASE Respond(c)
  <2>1. Moved
    BY <1>1, <1>16, BackedEnd DEF Respond
  <2>2. k.event # None => k.event \in Events /\ Handled(k.event)
    BY <1>1, <1>16 DEF Respond, At, Backed, Call
  <2>3. event' = event /\ \A e \in acked' : e \in acked \/ (k.event # None /\ e = k.event)
    BY <1>16 DEF Respond, IsWebhook, rows
  <2>4. \A e \in acked' : e \in acked \/ Handled(e)'
    BY <2>2, <2>3, HandledStays
  <2> QED BY <1>1, <2>1, <2>3, <2>4, HandledMove
<1>17. CASE MockLookup(c) \/ MockOwner(c)
  <2>1. k.event = None
    BY <1>1, <1>17 DEF MockLookup, MockOwner, At, WellPlaced
  <2>2. /\ call'[c].event = None /\ call'[c].pc # "cycle"
        /\ \A d \in Calls : d # c => call'[d] = call[d]
    BY <1>1, <1>17, <2>1 DEF MockLookup, MockOwner, Goto, End, IdleCall, Call, CallsOK
  <2>3. Moved
    BY <2>2 DEF Backed
  <2> QED BY <1>3, <1>17, <2>3 DEF MockLookup, MockOwner, rows
<1> QED BY <1>5, <1>6, <1>7, <1>8, <1>10, <1>11, <1>12, <1>13, <1>14, <1>15, <1>16, <1>17
        DEF Step

LEMMA HandledNext ==
  ASSUME PaymentsInv, HandledInv, [Next]_vars
  PROVE  HandledInv'
<1>1. CallsOK /\ RowsOK /\ HistoryOK
  BY DEF PaymentsInv
<1>2. CASE UNCHANGED vars
  BY <1>2 DEF HandledInv, Backed, Handled, FirstStep, vars, rows
<1>3. Next => Forward
  BY <1>1, ForwardNext
<1>4. ASSUME NEW c \in Calls, Step(c), Forward
      PROVE  HandledInv'
  BY <1>4, HandledStep
<1>5. ASSUME Forward, UNCHANGED <<call, acked, event>>
      PROVE  HandledInv'
  BY <1>1, <1>5, BackedStays, HandledStays DEF HandledInv, HistoryOK
<1>6. ASSUME NEW c \in Calls, Crash(c), Forward
      PROVE  HandledInv'
  BY <1>1, <1>6, BackedEnd, HandledMove DEF Crash, rows
<1>7. ASSUME NEW c \in Calls, NEW e \in Events, Deliver(c, e), Forward
      PROVE  HandledInv'
  <2>1. /\ call'[c] = [pc |-> "lookup", event |-> e, subject |-> EventData[e].subject,
                       user |-> EventData[e].user, seen |-> "none"]
        /\ \A d \in Calls : d # c => call'[d] = call[d]
        /\ EventData[e].subject \in Txs => purchase[EventData[e].subject].status # "none"
        /\ UNCHANGED <<purchase, acked, event>>
    BY <1>1, <1>7 DEF Deliver, CallsOK, rows
  <2>2. Backed(call[c])'
    BY <2>1 DEF Backed
  <2> QED BY <1>1, <1>7, <2>1, <2>2, HandledMove
<1>8. ASSUME NEW c \in Calls, NEW u \in Users, NEW x \in Txs \cup Subs,
             MockComplete(c, u, x), Forward
      PROVE  HandledInv'
  <2>1. /\ call'[c] = [IdleCall EXCEPT !.pc = "mock", !.subject = x, !.user = u]
        /\ \A d \in Calls : d # c => call'[d] = call[d]
        /\ UNCHANGED <<acked, event>>
    BY <1>1, <1>8 DEF MockComplete, CallsOK, rows
  <2>2. Backed(call[c])'
    BY <2>1 DEF Backed, IdleCall
  <2> QED BY <1>1, <1>8, <2>1, <2>2, HandledMove
<1> QED BY <1>2, <1>3, <1>4, <1>5, <1>6, <1>7, <1>8
        DEF Next, Checkout, SubscriptionCheckout, Spend, rows

\* A 200 is only ever given for an event that has taken effect, however often,
\* however concurrently it was delivered and wherever earlier calls died.
THEOREM AckedSafe == Spec => []AckedIsHandled
<1>1. Init => HandledInv
  BY DEF Init, HandledInv, Backed, IdleCall
<1>2. HandledInv => AckedIsHandled
  BY DEF HandledInv, AckedIsHandled
<1> QED BY <1>1, <1>2, PaymentsInit, PaymentsStep, HandledNext, PTL DEF Spec

-----------------------------------------------------------------------------
(* Activations do not stack *)

\* A bucket is filled by one step, a first cycle that replaces what was there.
LEMMA StacksStep ==
  ASSUME PaymentsInv, NeverStacks, [Next]_vars
  PROVE  NeverStacks'
<1> USE DEF PaymentsInv, WalletInv, WalletTypeOK
<1>1. CASE \E c \in Calls : GrantFirstCycle(c)
  <2>1. PICK c \in Calls : GrantFirstCycle(c)
    BY <1>1
  <2> DEFINE u == call[c].user
             s == call[c].subject
  <2>2. u \in Users /\ s \in Subs
    BY <2>1 DEF GrantFirstCycle, CallsOK, WellPlaced, At
  <2>3. wallet' = [wallet EXCEPT ![u]["sub"] = CycleHints[s]]
    BY <2>1 DEF GrantFirstCycle, SetSubscriptionHints
  <2> HIDE DEF u, s
  <2>4. /\ wallet'[u]["sub"] = CycleHints[s]
        /\ \A v \in Users : v # u => wallet'[v] = wallet[v]
    BY <2>2, <2>3 DEF Buckets
  <2>5. CycleHints[s] \in Nat
    BY <2>2, PaymentsAssumption
  <2> QED BY <2>2, <2>4, <2>5 DEF NeverStacks
<1>2. ASSUME \A u \in Users : wallet'[u]["sub"] \in Nat /\ wallet'[u]["sub"] <= wallet[u]["sub"]
      PROVE  NeverStacks'
  <2> SUFFICES ASSUME NEW u \in Users
               PROVE  wallet'[u]["sub"] = 0 \/ \E s \in Subs : wallet'[u]["sub"] <= CycleHints[s]
    BY DEF NeverStacks
  <2>1. wallet[u]["sub"] \in Nat
    BY DEF Buckets
  <2>2. CASE wallet[u]["sub"] = 0
    BY <1>2, <2>1, <2>2
  <2>3. ASSUME NEW s \in Subs, wallet[u]["sub"] <= CycleHints[s]
        PROVE  wallet'[u]["sub"] <= CycleHints[s]
    BY <1>2, <2>1, <2>3, PaymentsAssumption
  <2> QED BY <2>2, <2>3 DEF NeverStacks
<1>3. CASE UNCHANGED wallet
  BY <1>2, <1>3 DEF Buckets
<1>4. ASSUME NEW v \in Users, Spend(v)
      PROVE  NeverStacks'
  <2>1. PICK b \in Buckets : wallet[v][b] > 0 /\ wallet' = [wallet EXCEPT ![v][b] = @ - 1]
    BY <1>4 DEF Spend, Consume, NextToDrain
  <2> QED BY <1>2, <2>1 DEF Buckets
<1>5. ASSUME NEW c \in Calls, CreditPurchase(c)
      PROVE  NeverStacks'
  <2>1. PICK v, n : wallet' = [wallet EXCEPT ![v]["paid"] = @ + n]
    BY <1>5 DEF CreditPurchase, AddTopupHints
  <2> QED BY <1>2, <2>1 DEF Buckets
<1> QED
  BY <1>1, <1>3, <1>4, <1>5
     DEF Next, Step, Checkout, SubscriptionCheckout, Deliver, MockComplete, Crash, LookupEvent,
         RecordEvent, CompletePurchase, FindSubscription, CreateSubscription, Activate, FindEnded,
         CancelSubscription, MarkProcessed, Respond, MockLookup, MockOwner, vars, wvars

\* An active plan's first cycle has landed or is about to: a call leaves "cycle"
\* by granting it, or by dying.
LEMMA FirstCycleStep ==
  ASSUME PaymentsInv, FirstCycleUnlessCrash, [Next]_vars
  PROVE  FirstCycleUnlessCrash'
<1> USE DEF PaymentsInv
<1> SUFFICES ASSUME NEW s \in Subs, subStatus'[s] = "active", CycleHints[s] > 0
             PROVE  \/ s \in credited' \/ s \in lost'
                    \/ \E c \in Calls : At(c, "cycle")' /\ call'[c].subject = s
  BY DEF FirstCycleUnlessCrash, CycleGranted
<1> DEFINE Granting(c) == At(c, "cycle") /\ call[c].subject = s
<1>1. ASSUME lost \subseteq lost', credited \subseteq credited', subStatus[s] = "active",
             \A c \in Calls : Granting(c) => Granting(c)'
      PROVE  s \in credited' \/ s \in lost' \/ \E c \in Calls : Granting(c)'
  BY <1>1 DEF FirstCycleUnlessCrash, CycleGranted
<1>2. CASE UNCHANGED vars
  BY <1>1, <1>2 DEF vars, rows, At
<1>3. CASE \E u \in Users, t \in Txs : Checkout(u, t)
  BY <1>1, <1>3 DEF Checkout, At
<1>4. CASE \E u \in Users, p \in Subs : SubscriptionCheckout(u, p)
  BY <1>1, <1>4 DEF SubscriptionCheckout, RowsOK, At
<1>5. CASE \E u \in Users : Spend(u)
  BY <1>1, <1>5 DEF Spend, rows, At
<1>6. ASSUME NEW c \in Calls, Crash(c)
      PROVE  s \in credited' \/ s \in lost' \/ \E d \in Calls : Granting(d)'
  <2>1. /\ UNCHANGED <<subStatus, credited>> /\ lost \subseteq lost'
        /\ \A d \in Calls : d # c => call'[d] = call[d]
    BY <1>6 DEF Crash, End, rows, CallsOK
  <2>2. CASE Granting(c)
    BY <1>6, <2>2 DEF Crash, At
  <2>3. CASE ~Granting(c)
    <3>1. \A d \in Calls : Granting(d) => Granting(d)'
      BY <2>1, <2>3 DEF At
    <3> QED BY <1>1, <2>1, <3>1
  <2> QED BY <2>2, <2>3
<1>7. ASSUME NEW c \in Calls, Activate(c)
      PROVE  s \in credited' \/ s \in lost' \/ \E d \in Calls : Granting(d)'
  <2>1. call[c] \in Call /\ call[c].subject \in Subs
    BY <1>7 DEF Activate, CallsOK, WellPlaced, At
  <2>2. CASE call[c].subject = s
    <3>1. Goto(c, "cycle")
      BY <1>7, <2>1, <2>2, PaymentsAssumption DEF Activate
    <3>2. call'[c] = [call[c] EXCEPT !.pc = "cycle"]
      BY <3>1 DEF Goto, CallsOK
    <3>3. Granting(c)'
      BY <2>1, <2>2, <3>2 DEF At, Call
    <3> QED BY <3>3
  <2>3. CASE call[c].subject # s
    <3>1. subStatus[s] = "active" /\ lost' = lost /\ credited' = credited
      BY <1>7, <2>1, <2>3 DEF Activate, RowsOK
    <3>2. \A d \in Calls : d # c => call'[d] = call[d]
      BY <1>7 DEF Activate, Goto, Proceed, CallsOK
    <3>3. \A d \in Calls : Granting(d) => Granting(d)'
      BY <1>7, <3>2 DEF Activate, At
    <3> QED BY <1>1, <3>1, <3>3
  <2> QED BY <2>2, <2>3
<1>8. ASSUME NEW c \in Calls, GrantFirstCycle(c)
      PROVE  s \in credited' \/ s \in lost' \/ \E d \in Calls : Granting(d)'
  <2>1. credited' = credited \cup {call[c].subject} /\ UNCHANGED <<subStatus, lost>>
    BY <1>8 DEF GrantFirstCycle, rows
  <2>2. \A d \in Calls : d # c => call'[d] = call[d]
    BY <1>8 DEF GrantFirstCycle, Goto, Proceed, CallsOK
  <2>3. CASE call[c].subject = s
    BY <2>1, <2>3
  <2>4. CASE call[c].subject # s
    <3>1. \A d \in Calls : Granting(d) => Granting(d)'
      BY <2>2, <2>4 DEF At
    <3> QED BY <1>1, <2>1, <3>1
  <2> QED BY <2>3, <2>4
<1>9. ASSUME NEW c \in Calls, ~At(c, "cycle"), ~At(c, "activate"),
             lost' = lost, credited \subseteq credited',
             subStatus'[s] = subStatus[s],
             \A d \in Calls : d # c => call'[d] = call[d]
      PROVE  s \in credited' \/ s \in lost' \/ \E d \in Calls : Granting(d)'
  BY <1>1, <1>9 DEF At
<1>10. ASSUME NEW c \in Calls, NEW e \in Events, Deliver(c, e)
       PROVE  s \in credited' \/ s \in lost' \/ \E d \in Calls : Granting(d)'
  BY <1>9, <1>10 DEF Deliver, At, CallsOK, rows
<1>11. ASSUME NEW c \in Calls, NEW u \in Users, NEW x \in Txs \cup Subs, MockComplete(c, u, x)
       PROVE  s \in credited' \/ s \in lost' \/ \E d \in Calls : Granting(d)'
  BY <1>9, <1>11 DEF MockComplete, At, CallsOK, rows
<1>12. ASSUME NEW c \in Calls, CreateSubscription(c) \/ CancelSubscription(c)
       PROVE  s \in credited' \/ s \in lost' \/ \E d \in Calls : Granting(d)'
  <2>1. call[c].subject \in Subs
    BY <1>12 DEF CreateSubscription, CancelSubscription, CallsOK, WellPlaced, At
  <2>2. subStatus'[s] = subStatus[s]
    BY <1>12, <2>1 DEF CreateSubscription, CancelSubscription, RowsOK
  <2> QED
    BY <1>9, <1>12, <2>2 DEF CreateSubscription, CancelSubscription, At, Goto, End, CallsOK
<1>13. ASSUME NEW c \in Calls,
              \/ LookupEvent(c) \/ RecordEvent(c) \/ CompletePurchase(c) \/ CreditPurchase(c)
              \/ FindSubscription(c) \/ FindEnded(c) \/ MarkProcessed(c) \/ Respond(c)
              \/ MockLookup(c) \/ MockOwner(c)
       PROVE  s \in credited' \/ s \in lost' \/ \E d \in Calls : Granting(d)'
  <2>1. \A d \in Calls : d # c => call'[d] = call[d]
    BY <1>13 DEF LookupEvent, RecordEvent, CompletePurchase, CreditPurchase, FindSubscription,
         FindEnded, MarkProcessed, Respond, MockLookup, MockOwner, Goto, End, Proceed, CallsOK
  <2>2. ~At(c, "cycle") /\ ~At(c, "activate")
    BY <1>13 DEF LookupEvent, RecordEvent, CompletePurchase, CreditPurchase, FindSubscription,
         FindEnded, MarkProcessed, Respond, MockLookup, MockOwner, At
  <2>3. UNCHANGED <<subStatus, lost>> /\ credited \subseteq credited'
    BY <1>13 DEF LookupEvent, RecordEvent, CompletePurchase, CreditPurchase, FindSubscription,
         FindEnded, MarkProcessed, Respond, MockLookup, MockOwner, rows
  <2> QED BY <1>9, <2>1, <2>2, <2>3
<1> QED BY <1>2, <1>3, <1>4, <1>5, <1>6, <1>7, <1>8, <1>10, <1>11, <1>12, <1>13 DEF Next, Step

\* Whatever activations of whichever subscriptions overlap, repeat and crash, a
\* bucket holds no more than one plan's cycle.
THEOREM ActivationsSafe == Spec => []NeverStacks
<1>1. Init => NeverStacks
  BY DEF Init, WalletInit, NeverStacks, Buckets
<1>2. PaymentsInv /\ NeverStacks /\ [Next]_vars => NeverStacks'
  BY StacksStep
<1> QED BY <1>1, <1>2, PaymentsInit, PaymentsStep, PTL DEF Spec

\* An active plan's first cycle has landed, or a call is about to grant it, or the
\* call that was to grant it has died.
THEOREM FirstCycleGranted == Spec => []FirstCycleUnlessCrash
<1>1. Init => FirstCycleUnlessCrash
  BY DEF Init, FirstCycleUnlessCrash, CycleGranted
<1>2. PaymentsInv /\ FirstCycleUnlessCrash /\ [Next]_vars => FirstCycleUnlessCrash'
  BY FirstCycleStep
<1> QED BY <1>1, <1>2, PaymentsInit, PaymentsStep, PTL DEF Spec
=============================================================================
