----------------------------- MODULE Deliveries -----------------------------
(***************************************************************************)
(* Posts pushed by SiteOps: siteops_webhook of views/webhooks.py over the  *)
(* webhook_deliveries rows and the content rows.  SiteOps sends a delivery *)
(* that got a 5xx or no answer once more, under the same id, possibly      *)
(* while the first call is still at work.  Every step of a call is a       *)
(* transaction of its own.                                                 *)
(***************************************************************************)
EXTENDS Content

CONSTANTS
    DeliveryIds, \* X-SiteOps-Delivery
    Payload,     \* what each delivery carries
    Tries,       \* how often SiteOps sends one: 2, it "retries once"
    Calls        \* bound: deliveries worked on at once

\* kind: a post to publish, another type of event, or an unreadable or
\* incomplete body; dated: it carries a readable publish_at.
PayloadRecord == [kind : {"post", "other", "broken"}, slug : Slugs, dated : BOOLEAN]

ASSUME DeliveriesAssumption ==
    /\ Payload \in [DeliveryIds -> PayloadRecord]
    /\ DeliveryIds \subseteq Sources
    /\ None \notin DeliveryIds
    /\ Tries \in Nat

VARIABLES
    row,         \* webhook_deliveries: status and post of each id
    call,        \* one record per call being worked on
    sent,        \* how often SiteOps has sent each delivery
    answers,     \* answers below 500 that reached SiteOps
    applied      \* history: how often each delivery was written to a post

dvars == <<row, call, sent, answers, applied>>
vars == <<cvars, dvars>>

NoRow == [status |-> "none", post |-> None]
IdleCall == [pc |-> "idle", id |-> None, post |-> None]

Init ==
    /\ ContentInit
    /\ row = [d \in DeliveryIds |-> NoRow]
    /\ call = [c \in Calls |-> IdleCall]
    /\ sent = [d \in DeliveryIds |-> 0]
    /\ answers = [d \in DeliveryIds |-> {}]
    /\ applied = [d \in DeliveryIds |-> 0]

In(c, label) == call[c].pc = label
Goto(c, label) == call' = [call EXCEPT ![c].pc = label]
End(c) == call' = [call EXCEPT ![c] = IdleCall]

\* The call answers.  A 5xx, or an answer that is lost, ends a call silently.
Answer(c, what) ==
    /\ answers' = [answers EXCEPT ![call[c].id] = @ \cup {what}]
    /\ End(c)

\* SiteOps (external) sends what it has no answer for, at most Tries times.
Send(c, d) ==
    /\ In(c, "idle") /\ answers[d] = {} /\ sent[d] < Tries
    /\ sent' = [sent EXCEPT ![d] = @ + 1]
    /\ call' = [call EXCEPT ![c] = [pc |-> "lookup", id |-> d, post |-> None]]
    /\ UNCHANGED <<cvars, row, answers, applied>>

Dismissal(d) == IF Payload[d].kind = "other" THEN "ignored" ELSE "rejected"

\* Mutant: a known delivery is an error, as a second insert of it would be.
LookUp_ErrorOnKnown(c) ==
    /\ In(c, "lookup")
    /\ IF row[call[c].id].status # "none"
       THEN End(c)
       ELSE Goto(c, IF Payload[call[c].id].kind = "post" THEN "claim" ELSE "dismiss")
    /\ UNCHANGED <<cvars, row, sent, answers, applied>>

\* Known by its id: a duplicate, whatever became of the first one.
LookUp(c) ==
    /\ In(c, "lookup")
    /\ IF row[call[c].id].status # "none"
       THEN Answer(c, "duplicate")
       ELSE /\ Goto(c, IF Payload[call[c].id].kind = "post" THEN "claim" ELSE "dismiss")
            /\ UNCHANGED answers
    /\ UNCHANGED <<cvars, row, sent, applied>>

\* record: the first insert of an id wins, a later one changes nothing.
Record(d, status) == row' = [row EXCEPT ![d] = IF @ = NoRow THEN [@ EXCEPT !.status = status] ELSE @]

\* Not a post, or not one that can be read.
Dismiss(c) ==
    /\ In(c, "dismiss")
    /\ Record(call[c].id, Dismissal(call[c].id))
    /\ Answer(c, Dismissal(call[c].id))
    /\ UNCHANGED <<cvars, sent, applied>>

\* Mutant: the loser of the race goes on too.
Claim_NotExclusive(c) ==
    /\ In(c, "claim")
    /\ Record(call[c].id, "accepted")
    /\ IF Payload[call[c].id].dated THEN End(c) ELSE Goto(c, "apply")
    /\ UNCHANGED <<cvars, sent, answers, applied>>

\* The claim comes before the work.  A readable publish_at is then compared, an
\* aware time with a naive one, which raises: a 500 that leaves the claim behind.
Claim(c) ==
    LET d == call[c].id IN
    /\ In(c, "claim")
    /\ Record(d, "accepted")
    /\ \/ row[d] # NoRow /\ Answer(c, "duplicate")
       \/ row[d] = NoRow /\ Payload[d].dated /\ End(c) /\ UNCHANGED answers
       \/ row[d] = NoRow /\ ~Payload[d].dated /\ Goto(c, "apply") /\ UNCHANGED answers
    /\ UNCHANGED <<cvars, sent, applied>>

\* upsert_post, published now.
Apply(c) ==
    LET d == call[c].id IN
    /\ In(c, "apply")
    /\ \E p \in Posts :
         /\ Upsert(p, Payload[d].slug, "published", NoTime, d)
         /\ call' = [call EXCEPT ![c].pc = "finish", ![c].post = p]
    /\ applied' = [applied EXCEPT ![d] = @ + 1]
    /\ UNCHANGED <<redirect, edit, due, now, crashes, row, sent, answers>>

\* Mutant: the error is swallowed and the delivery finished.
ApplyFails_Swallowed(c) ==
    /\ In(c, "apply")
    /\ Goto(c, "finish")
    /\ UNCHANGED <<cvars, row, sent, answers, applied>>

\* upsert_post raises (a clash on the slug, a lost connection).
ApplyFails(c) ==
    /\ In(c, "apply")
    /\ Goto(c, "fail")
    /\ UNCHANGED <<cvars, row, sent, answers, applied>>

\* Mutant: the words of the answer become the status.
MarkFailed_BadStatus(c) ==
    /\ In(c, "fail")
    /\ row' = [row EXCEPT ![call[c].id].status = "processing failed"]
    /\ End(c)
    /\ UNCHANGED <<cvars, sent, answers, applied>>

\* update_status
MarkFailed(c) ==
    /\ In(c, "fail")
    /\ row' = [row EXCEPT ![call[c].id].status = "failed"]
    /\ End(c)
    /\ UNCHANGED <<cvars, sent, answers, applied>>

Finish(c) ==
    /\ In(c, "finish")
    /\ row' = [row EXCEPT ![call[c].id] = [status |-> "accepted", post |-> call[c].post]]
    /\ Goto(c, "respond")
    /\ UNCHANGED <<cvars, sent, answers, applied>>

Respond(c) ==
    /\ In(c, "respond")
    /\ Answer(c, "ok")
    /\ UNCHANGED <<cvars, row, sent, applied>>

\* The instance dies or the answer is lost.
CrashCall(c) ==
    /\ ~In(c, "idle") /\ crashes < MaxCrashes
    /\ crashes' = crashes + 1
    /\ End(c)
    /\ UNCHANGED <<post, redirect, edit, due, now, row, sent, answers, applied>>

Step(c) ==
    \/ LookUp(c) \/ Dismiss(c) \/ Claim(c) \/ Apply(c) \/ ApplyFails(c)
    \/ MarkFailed(c) \/ Finish(c) \/ Respond(c)

Next ==
    \/ \E c \in Calls : (\E d \in DeliveryIds : Send(c, d)) \/ Step(c) \/ CrashCall(c)
    \/ ContentNext /\ UNCHANGED dvars

Spec == Init /\ [][Next]_vars

\* A call that is not killed runs on; SiteOps makes its tries.
FairSpec ==
    /\ Spec
    /\ \A c \in Calls : WF_vars(Step(c))
    /\ \A d \in DeliveryIds : WF_vars(\E c \in Calls : Send(c, d))
-----------------------------------------------------------------------------
(* Properties *)

CallRecord == [pc : {"idle", "lookup", "dismiss", "claim", "apply", "fail", "finish",
                     "respond"},
               id : DeliveryIds \cup {None}, post : Posts \cup {None}]

DeliveriesTypeOK ==
    /\ ContentTypeOK
    /\ row \in [DeliveryIds -> [status : {"none", "accepted", "rejected", "ignored", "failed"},
                                post : Posts \cup {None}]]
    /\ call \in [Calls -> CallRecord]
    /\ sent \in [DeliveryIds -> 0..Tries]
    /\ answers \in [DeliveryIds -> SUBSET {"ok", "duplicate", "rejected", "ignored"}]
    /\ applied \in [DeliveryIds -> Nat]

\* "The unique key lets exactly one request through": however often a delivery
\* is sent, by overlapping calls and after crashes, it is written once.  Written
\* twice, an old text would replace what a later delivery of the slug brought.
AppliedOnce == \A d \in DeliveryIds : applied[d] <= 1

\* Every answer that tells SiteOps to stop sending a post is true in the end:
\* the post was written, or a call is about to, unless that call failed, died or
\* had raised over publish_at.
Pending(d) == \E c \in Calls : call[c].id = d /\ call[c].pc \in {"apply", "fail"}

StoppedIsPublished ==
    \A d \in DeliveryIds : answers[d] # {} /\ Payload[d].kind = "post" =>
        applied[d] = 1 \/ Pending(d) \/ row[d].status = "failed" \/ Payload[d].dated \/ crashes > 0

\* One retry is enough ("SiteOps retries once with the SAME delivery id"): it gets
\* an answer to any delivery, even when a call dies.  Not so when as many calls
\* die as it makes tries, or one dies and another is answered 500, over
\* publish_at or a write that failed.
Unlucky(d) == crashes > 0 /\ (Payload[d].dated \/ row[d].status = "failed")

EveryDeliveryAnswered ==
    \A d \in DeliveryIds : <>(answers[d] # {} \/ Unlucky(d) \/ crashes >= Tries)

\* "Dedup - the retry of a delivery we already processed": a delivery that is
\* called a duplicate was processed, or is being processed, or its row says that
\* it failed.  Not so for one with a publish_at.
DuplicateWasProcessed ==
    \A d \in DeliveryIds : "duplicate" \in answers[d] /\ Payload[d].kind = "post" =>
        applied[d] = 1 \/ Pending(d) \/ row[d].status = "failed"
=============================================================================
