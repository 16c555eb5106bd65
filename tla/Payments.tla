------------------------------ MODULE Payments ------------------------------
(***************************************************************************)
(* Money coming in: bl/paddle_webhook.py, the purchase and activation half *)
(* of bl/billing.py, and the rows they keep (purchases, subscriptions,     *)
(* paddle_events).  Paddle delivers an event until it gets a 200, so the   *)
(* same event may be in several calls at once; each step of a call is one  *)
(* transaction, and an instance may die between two of them.               *)
(***************************************************************************)
EXTENDS Wallet

CONSTANTS
    Txs,         \* Paddle transactions of top-up packs
    Subs,        \* Paddle subscriptions
    Events,      \* Paddle event ids
    EventData,   \* type, subject (None: the event lacks it) and uid of each
    PackHints,   \* hints of each transaction's pack
    CycleHints,  \* hints_per_cycle of each subscription's plan (0: unlimited)
    PaddleLive,  \* paddle_enabled: no staged checkouts, no mock completion
    Calls,       \* bound: calls the service works on at once
    MaxCrashes,  \* bound: calls that die or whose answer is lost
    None         \* no user, no event, no subject

Types == {"transaction.completed", "subscription.activated",
          "subscription.updated", "subscription.canceled"}

ASSUME PaymentsAssumption ==
    /\ EventData \in [Events -> [type : Types, subject : Txs \cup Subs \cup {None}, user : Users]]
    /\ \A e \in Events : EventData[e].subject # None =>
         (EventData[e].type = "transaction.completed" <=> EventData[e].subject \in Txs)
    /\ PackHints \in [Txs -> Nat] /\ CycleHints \in [Subs -> Nat]
    /\ Txs \cap Subs = {} /\ PaddleLive \in BOOLEAN /\ MaxCrashes \in Nat
    /\ None \notin Users \cup Events \cup Txs \cup Subs

VARIABLES
    purchase,    \* purchases rows, by transaction id
    subStatus,   \* subscriptions.status, by Paddle id ("none": no row)
    pointer,     \* users.subscription_id
    event,       \* paddle_events rows: "none", "recorded" or "processed"
    acked,       \* events Paddle has had its 200 for
    call,        \* one record per call being worked on
    credited,    \* history: transactions and subscriptions whose hints landed
    lost,        \* history: those whose call died with the hints still to be credited
    crashes      \* calls that died so far

rows == <<purchase, subStatus, pointer, event>>
vars == <<wvars, rows, acked, call, credited, lost, crashes>>

IdleCall == [pc |-> "idle", event |-> None, subject |-> None, user |-> None, seen |-> "none"]

Init ==
    /\ WalletInit
    /\ purchase = [t \in Txs |-> [status |-> "none", user |-> None]]
    /\ subStatus = [s \in Subs |-> "none"]
    /\ pointer = [u \in Users |-> None]
    /\ event = [e \in Events |-> "none"]
    /\ acked = {}
    /\ call = [c \in Calls |-> IdleCall]
    /\ credited = {}
    /\ lost = {}
    /\ crashes = 0

At(c, label) == call[c].pc = label
Goto(c, label) == call' = [call EXCEPT ![c].pc = label]
End(c) == call' = [call EXCEPT ![c] = IdleCall]
IsWebhook(c) == call[c].event # None

\* What follows the effect of a call: the webhook marks its event processed.
Proceed(c) == Goto(c, IF IsWebhook(c) THEN "mark" ELSE "respond")

-----------------------------------------------------------------------------
(* Checkouts *)

\* create_checkout: the customer learns the transaction id after the row is in.
\* (Opening a checkout with Paddle itself is not wired yet: it raises.)
Checkout(u, t) ==
    /\ ~PaddleLive
    /\ purchase[t].status = "none"
    /\ purchase' = [purchase EXCEPT ![t] = [status |-> "pending", user |-> u]]
    /\ UNCHANGED <<wvars, subStatus, pointer, event, acked, call, credited, lost, crashes>>

\* create_subscription_checkout stages a pending row and points the user at it.
SubscriptionCheckout(u, s) ==
    /\ ~PaddleLive
    /\ subStatus[s] = "none"
    /\ subStatus' = [subStatus EXCEPT ![s] = "pending"]
    /\ pointer' = [pointer EXCEPT ![u] = s]
    /\ UNCHANGED <<wvars, purchase, event, acked, call, credited, lost, crashes>>

-----------------------------------------------------------------------------
(* handle_webhook *)

\* Paddle (external) sends an event it has no 200 for; a top-up's event only
\* once the customer has a checkout to pay.
Deliver(c, e) ==
    LET x == EventData[e].subject IN
    /\ At(c, "idle") /\ e \notin acked
    /\ x \in Txs => purchase[x].status # "none"
    /\ call' = [call EXCEPT ![c] = [pc |-> "lookup", event |-> e, subject |-> x,
                                    user |-> EventData[e].user, seen |-> "none"]]
    /\ UNCHANGED <<wvars, rows, acked, credited, lost, crashes>>

\* The branches on event_type; an event without its data is only marked.
FirstStep(e) ==
    LET x == EventData[e].subject IN
    IF x = None THEN "mark"
    ELSE IF x \in Txs THEN "complete"
    ELSE IF EventData[e].type = "subscription.canceled" THEN "findEnded" ELSE "find"

\* Mutant: an event that is only recorded counts as handled.
LookupEvent_RecordedIsEnough(c) ==
    LET e == call[c].event IN
    /\ At(c, "lookup")
    /\ Goto(c, IF event[e] = "none" THEN "record" ELSE "respond")
    /\ UNCHANGED <<wvars, rows, acked, credited, lost, crashes>>

LookupEvent(c) ==
    LET e == call[c].event IN
    /\ At(c, "lookup")
    /\ \/ event[e] = "processed" /\ Goto(c, "respond")
       \/ event[e] = "recorded" /\ Goto(c, FirstStep(e))
       \/ event[e] = "none" /\ Goto(c, "record")
    /\ UNCHANGED <<wvars, rows, acked, credited, lost, crashes>>

\* event_id is unique: a second insert raises and the delivery ends in a 500.
RecordEvent(c) ==
    LET e == call[c].event IN
    /\ At(c, "record")
    /\ \/ /\ event[e] = "none"
          /\ event' = [event EXCEPT ![e] = "recorded"]
          /\ Goto(c, FirstStep(e))
       \/ event[e] # "none" /\ End(c) /\ UNCHANGED event
    /\ UNCHANGED <<wvars, purchase, subStatus, pointer, acked, credited, lost, crashes>>

\* Mutant: every caller goes on to credit.
CompletePurchase_Unguarded(c) ==
    LET t == call[c].subject IN
    /\ At(c, "complete")
    /\ purchase' = [purchase EXCEPT ![t].status = "completed"]
    /\ Goto(c, "credit")
    /\ UNCHANGED <<wvars, subStatus, pointer, event, acked, credited, lost, crashes>>

\* transition_to_completed: only the caller that flips the row goes on to credit.
CompletePurchase(c) ==
    LET t == call[c].subject IN
    /\ At(c, "complete")
    /\ \/ /\ purchase[t].status = "pending"
          /\ purchase' = [purchase EXCEPT ![t].status = "completed"]
          /\ Goto(c, "credit")
       \/ purchase[t].status # "pending" /\ Proceed(c) /\ UNCHANGED purchase
    /\ UNCHANGED <<wvars, subStatus, pointer, event, acked, credited, lost, crashes>>

\* add_topup_hints, a transaction of its own.
CreditPurchase(c) ==
    LET t == call[c].subject IN
    /\ At(c, "credit")
    /\ AddTopupHints(purchase[t].user, PackHints[t])
    /\ credited' = credited \cup {t}
    /\ Proceed(c)
    /\ UNCHANGED <<rows, acked, lost, crashes>>

\* activate_subscription_from_webhook: is there a row for this Paddle id?
FindSubscription(c) ==
    LET s == call[c].subject IN
    /\ At(c, "find")
    /\ \/ subStatus[s] = "none" /\ Goto(c, "create")
       \/ subStatus[s] = "active" /\ Goto(c, "mark")
       \/ subStatus[s] \in {"pending", "canceled"} /\ Goto(c, "activate")
    /\ UNCHANGED <<wvars, rows, acked, credited, lost, crashes>>

\* create_for_user; the Paddle id is unique, a second insert is a 500.
CreateSubscription(c) ==
    LET s == call[c].subject IN
    /\ At(c, "create")
    /\ \/ /\ subStatus[s] = "none"
          /\ subStatus' = [subStatus EXCEPT ![s] = "pending"]
          /\ pointer' = [pointer EXCEPT ![call[c].user] = s]
          /\ Goto(c, "activate")
       \/ subStatus[s] # "none" /\ End(c) /\ UNCHANGED <<subStatus, pointer>>
    /\ UNCHANGED <<wvars, purchase, event, acked, credited, lost, crashes>>

\* Mutant: a row that is revived is taken to have had its first cycle.
Activate_NewRowsOnly(c) ==
    LET s == call[c].subject IN
    /\ At(c, "activate")
    /\ subStatus' = [subStatus EXCEPT ![s] = "active"]
    /\ IF CycleHints[s] = 0 \/ subStatus[s] # "pending" THEN Proceed(c) ELSE Goto(c, "cycle")
    /\ UNCHANGED <<wvars, purchase, pointer, event, acked, credited, lost, crashes>>

\* _activate_subscription past its check of the row it read: status and periods
\* in one transaction, the first cycle in the next.
Activate(c) ==
    LET s == call[c].subject IN
    /\ At(c, "activate")
    /\ subStatus' = [subStatus EXCEPT ![s] = "active"]
    /\ IF CycleHints[s] = 0 THEN Proceed(c) ELSE Goto(c, "cycle")
    /\ UNCHANGED <<wvars, purchase, pointer, event, acked, credited, lost, crashes>>

GrantFirstCycle(c) ==
    /\ At(c, "cycle")
    /\ SetSubscriptionHints(call[c].user, CycleHints[call[c].subject])
    /\ credited' = credited \cup {call[c].subject}
    /\ Proceed(c)
    /\ UNCHANGED <<rows, acked, lost, crashes>>

\* cancel_subscription_from_webhook reads the row, then marks it canceled.
FindEnded(c) ==
    /\ At(c, "findEnded")
    /\ Goto(c, IF subStatus[call[c].subject] = "none" THEN "mark" ELSE "cancel")
    /\ UNCHANGED <<wvars, rows, acked, credited, lost, crashes>>

CancelSubscription(c) ==
    /\ At(c, "cancel")
    /\ subStatus' = [subStatus EXCEPT ![call[c].subject] = "canceled"]
    /\ Goto(c, "mark")
    /\ UNCHANGED <<wvars, purchase, pointer, event, acked, credited, lost, crashes>>

MarkProcessed(c) ==
    /\ At(c, "mark")
    /\ event' = [event EXCEPT ![call[c].event] = "processed"]
    /\ Goto(c, "respond")
    /\ UNCHANGED <<wvars, purchase, subStatus, pointer, acked, credited, lost, crashes>>

Respond(c) ==
    /\ At(c, "respond")
    /\ acked' = IF IsWebhook(c) THEN acked \cup {call[c].event} ELSE acked
    /\ End(c)
    /\ UNCHANGED <<wvars, rows, credited, lost, crashes>>

-----------------------------------------------------------------------------
(* complete_mock, open to the signed-in user while Paddle is not live *)

MockComplete(c, u, x) ==
    /\ ~PaddleLive /\ At(c, "idle")
    /\ call' = [call EXCEPT ![c] = [IdleCall EXCEPT !.pc = "mock", !.subject = x, !.user = u]]
    /\ UNCHANGED <<wvars, rows, acked, credited, lost, crashes>>

MockLookup(c) ==
    LET x == call[c].subject  u == call[c].user IN
    /\ At(c, "mock")
    /\ IF x \in Txs
       THEN IF purchase[x].user = u THEN Goto(c, "complete") ELSE End(c)
       ELSE IF subStatus[x] # "none"
            THEN call' = [call EXCEPT ![c].pc = "owner", ![c].seen = subStatus[x]]
            ELSE End(c)
    /\ UNCHANGED <<wvars, rows, acked, credited, lost, crashes>>

\* owner_id; the status the call goes by was read one transaction earlier.
MockOwner(c) ==
    /\ At(c, "owner")
    /\ IF pointer[call[c].user] = call[c].subject
       THEN Goto(c, IF call[c].seen = "active" THEN "respond" ELSE "activate")
       ELSE End(c)
    /\ UNCHANGED <<wvars, rows, acked, credited, lost, crashes>>

-----------------------------------------------------------------------------

\* The instance dies or the answer is lost: Paddle will deliver again.
Crash(c) ==
    /\ ~At(c, "idle") /\ crashes < MaxCrashes
    /\ crashes' = crashes + 1
    /\ lost' = IF call[c].pc \in {"credit", "cycle"} THEN lost \cup {call[c].subject} ELSE lost
    /\ End(c)
    /\ UNCHANGED <<wvars, rows, acked, credited>>

\* A read spends a hint.
Spend(u) == Consume(u) /\ UNCHANGED <<rows, acked, call, credited, lost, crashes>>

Step(c) ==
    \/ LookupEvent(c) \/ RecordEvent(c)
    \/ CompletePurchase(c) \/ CreditPurchase(c)
    \/ FindSubscription(c) \/ CreateSubscription(c) \/ Activate(c) \/ GrantFirstCycle(c)
    \/ FindEnded(c) \/ CancelSubscription(c)
    \/ MarkProcessed(c) \/ Respond(c)
    \/ MockLookup(c) \/ MockOwner(c)

Next ==
    \/ \E u \in Users, t \in Txs : Checkout(u, t)
    \/ \E u \in Users, s \in Subs : SubscriptionCheckout(u, s)
    \/ \E c \in Calls :
         \/ \E e \in Events : Deliver(c, e)
         \/ \E u \in Users, x \in Txs \cup Subs : MockComplete(c, u, x)
         \/ Step(c) \/ Crash(c)
    \/ \E u \in Users : Spend(u)

Spec == Init /\ [][Next]_vars

\* A call that is not killed runs on; Paddle keeps delivering until its 200.
\* (Strong: whether one of the model's calls is free comes and goes.)
Fairness ==
    /\ \A c \in Calls : WF_vars(Step(c))
    /\ \A e \in Events : SF_vars(\E c \in Calls : Deliver(c, e))

FairSpec == Spec /\ Fairness
-----------------------------------------------------------------------------
(* Properties *)

Labels == {"idle", "lookup", "record", "complete", "credit", "find", "create", "activate",
           "cycle", "findEnded", "cancel", "mark", "respond", "mock", "owner"}
SubStates == {"none", "pending", "active", "canceled"}
Orders == [status : {"none", "pending", "completed"}, user : Users \cup {None}]
Call == [pc : Labels, event : Events \cup {None}, subject : Txs \cup Subs \cup {None},
         user : Users \cup {None}, seen : SubStates]

PaymentsTypeOK ==
    /\ WalletTypeOK
    /\ purchase \in [Txs -> Orders]
    /\ subStatus \in [Subs -> SubStates]
    /\ pointer \in [Users -> Subs \cup {None}]
    /\ event \in [Events -> {"none", "recorded", "processed"}]
    /\ acked \in SUBSET Events
    /\ call \in [Calls -> Call]
    /\ credited \in SUBSET (Txs \cup Subs) /\ lost \in SUBSET (Txs \cup Subs)
    /\ crashes \in 0..MaxCrashes

\* A 200 tells Paddle never to send the event again, so by then it has taken
\* effect: the purchase is completed, the subscription was activated.  A call
\* that died after recording the event must not make its retry a duplicate.
Handled(e) ==
    LET x == EventData[e].subject IN
    /\ x \in Txs => purchase[x].status = "completed"
    /\ x \in Subs /\ FirstStep(e) = "find" => subStatus[x] \in {"active", "canceled"}

AckedIsHandled == \A e \in acked : Handled(e)

\* billing.py's "it never stacks": however activations of several subscriptions
\* and events interleave, the bucket is never more than one plan's cycle.
NeverStacks ==
    \A u \in Users : wallet[u]["sub"] = 0 \/ \E s \in Subs : wallet[u]["sub"] <= CycleHints[s]

\* _activate_subscription: "an already-active subscription is left untouched".
\* The status it goes by was read earlier: of two calls that both read pending,
\* the second activates an active row and grants its cycle again.
ActiveLeftUntouched ==
    [][\A c \in Calls : At(c, "activate") /\ subStatus[call[c].subject] = "active" =>
         ~At(c, "cycle")']_vars

\* A live token plan has been granted its first cycle, or a call is about to.
CycleGranted(s) ==
    \/ s \in credited
    \/ \E c \in Calls : At(c, "cycle") /\ call[c].subject = s

\* ... "(its first cycle was granted on the first activation)".  A call that dies
\* between the status and the grant leaves an active row every retry skips.
ActiveIsGranted ==
    \A s \in Subs : subStatus[s] = "active" /\ CycleHints[s] > 0 => CycleGranted(s)

\* What does hold of it, whatever else dies: only the call that had activated this
\* very subscription can lose its first cycle.
FirstCycleUnlessCrash ==
    \A s \in Subs : subStatus[s] = "active" /\ CycleHints[s] > 0 => CycleGranted(s) \/ s \in lost

\* The top-up half of this module does what CreditOnce promises: a purchase goes
\* from pending to completed once, and its hints land at most once, with the
\* user that bought them.
Progress(t) == IF t \in credited THEN "credited" ELSE purchase[t].status

Promise == INSTANCE CreditOnce WITH
    Hints <- PackHints,
    order <- [t \in Txs |-> [phase |-> Progress(t), user |-> purchase[t].user]],
    topups <- [u \in Users |-> granted[u]["one_time"]]

TopUpsCreditedOnce == Promise!Spec

\* A top-up that is paid for, whose event Paddle delivers until its 200.
Paid(t) == purchase[t].status = "pending" /\ \E e \in Events : EventData[e].subject = t

\* grant_purchase credits "a top-up's hints exactly once".  Not if the call dies
\* between its two transactions: the retry finds the purchase completed.
PaidIsCredited == \A t \in Txs : Paid(t) ~> t \in credited

\* What does hold of it: calls may overlap, repeat and die anywhere else, also on
\* other purchases, and a paid top-up is credited in the end.
TopUpsSettle == \A t \in Txs : Paid(t) ~> (t \in credited \/ t \in lost)
=============================================================================
