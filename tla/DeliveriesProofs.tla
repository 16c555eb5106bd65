-------------------------- MODULE DeliveriesProofs --------------------------
(***************************************************************************)
(* What holds of SiteOps deliveries for any number of calls, deliveries,   *)
(* posts and crashes: rows and calls stay well-formed, each delivery is    *)
(* written to a post at most once, and an answer that stops the retries of *)
(* an undated post is true.                                                *)
(***************************************************************************)
EXTENDS Deliveries, TLAPS

RowRecord == [status : {"none", "accepted", "rejected", "ignored", "failed"},
              post : Posts \cup {None}]

RowsOK(f) == f \in [DeliveryIds -> RowRecord]

CallsOK(f) ==
    /\ f \in [Calls -> CallRecord]
    /\ \A c \in Calls : f[c].pc # "idle" => f[c].id \in DeliveryIds

\* The part of DeliveriesTypeOK that does not speak of the content rows.
RowsAndCallsOK ==
    /\ RowsOK(row) /\ CallsOK(call)
    /\ answers \in [DeliveryIds -> SUBSET {"ok", "duplicate", "rejected", "ignored"}]
    /\ applied \in [DeliveryIds -> Nat]
    /\ crashes \in Nat

\* The row is the lock: whoever finds it there lets be; only the call that
\* inserted it comes to apply, and it comes there once.
Unclaimed == \A d \in DeliveryIds : row[d].status = "none" => row[d] = NoRow /\ applied[d] = 0

Holder ==
    \A c \in Calls : In(c, "apply") =>
        /\ row[call[c].id] # NoRow /\ applied[call[c].id] = 0
        /\ \A b \in Calls : In(b, "apply") /\ call[b].id = call[c].id => b = c

OnceInv == Unclaimed /\ Holder /\ AppliedOnce

\* What a claimed post has become of, and that only the claimed are answered.
Kinds ==
    \A c \in Calls :
        /\ In(c, "dismiss") => Payload[call[c].id].kind # "post"
        /\ call[c].pc \in {"finish", "respond"} => applied[call[c].id] = 1

ClaimedIsPublished ==
    \A d \in DeliveryIds :
        row[d].status # "none" /\ Payload[d].kind = "post" /\ ~Payload[d].dated /\ crashes = 0 =>
            applied[d] = 1 \/ Pending(d) \/ row[d].status = "failed"

AnsweredIsClaimed == \A d \in DeliveryIds : answers[d] # {} => row[d].status # "none"

StoppedInv == Kinds /\ ClaimedIsPublished /\ AnsweredIsClaimed

IInv == RowsAndCallsOK /\ OnceInv /\ StoppedInv

LEMMA InitInv == Init => IInv
<1> SUFFICES ASSUME Init PROVE IInv
  OBVIOUS
<1>1. NoRow \in RowRecord /\ NoRow.status = "none"
  BY DEF NoRow, RowRecord
<1>2. IdleCall \in CallRecord /\ IdleCall.pc = "idle"
  BY DEF IdleCall, CallRecord
<1>3. RowsAndCallsOK
  BY <1>1, <1>2 DEF Init, ContentInit, RowsAndCallsOK, RowsOK, CallsOK
<1>4. OnceInv
  BY <1>1, <1>2 DEF Init, OnceInv, Unclaimed, Holder, AppliedOnce, In
<1>5. StoppedInv
  BY <1>1, <1>2 DEF Init, StoppedInv, Kinds, ClaimedIsPublished, AnsweredIsClaimed, In
<1> QED
  BY <1>3, <1>4, <1>5 DEF IInv

-----------------------------------------------------------------------------
(* How the steps change the call records and the rows *)

LEMMA CallEdit ==
    ASSUME CallsOK(call), NEW c \in Calls, NEW k \in CallRecord,
           k.pc # "idle" => k.id \in DeliveryIds,
           call' = [call EXCEPT ![c] = k]
    PROVE  CallsOK(call') /\ call'[c] = k /\ \A x \in Calls : x # c => call'[x] = call[x]
  BY DEF CallsOK

LEMMA CallEnd ==
    ASSUME CallsOK(call), NEW c \in Calls, End(c)
    PROVE  /\ CallsOK(call') /\ call'[c].pc = "idle"
           /\ \A x \in Calls : x # c => call'[x] = call[x]
<1>1. IdleCall \in CallRecord /\ IdleCall.pc = "idle"
  BY DEF IdleCall, CallRecord
<1> QED
  BY <1>1, CallEdit DEF End

LEMMA CallGoto ==
    ASSUME CallsOK(call), NEW c \in Calls, ~In(c, "idle"),
           NEW label \in {"dismiss", "claim", "apply", "fail", "finish", "respond"}, Goto(c, label)
    PROVE  /\ CallsOK(call') /\ call'[c].pc = label /\ call'[c].id = call[c].id
           /\ \A x \in Calls : x # c => call'[x] = call[x]
<1> DEFINE k == [call[c] EXCEPT !.pc = label]
<1>1. call[c] \in CallRecord /\ call[c].id \in DeliveryIds
  BY DEF CallsOK, In
<1>2. k \in CallRecord /\ k.id \in DeliveryIds /\ k.pc = label /\ k.id = call[c].id
  BY <1>1 DEF CallRecord
<1>3. call' = [call EXCEPT ![c] = k]
  BY DEF Goto
<1> HIDE DEF k
<1> QED
  BY <1>2, <1>3, CallEdit

\* record changes no row but a missing one, which then is no longer missing.
LEMMA RowRecorded ==
    ASSUME RowsOK(row), NEW d \in DeliveryIds, NEW s \in {"accepted", "rejected", "ignored"},
           Record(d, s)
    PROVE  /\ RowsOK(row')
           /\ \A e \in DeliveryIds : e # d \/ row[d] # NoRow => row'[e] = row[e]
           /\ row[d] = NoRow => row'[d].status = s
<1> DEFINE r == [row[d] EXCEPT !.status = s]
<1>1. r \in RowRecord /\ r.status = s
  BY DEF RowsOK, RowRecord
<1>2. row' = [row EXCEPT ![d] = IF row[d] = NoRow THEN r ELSE row[d]]
  BY DEF Record
<1> HIDE DEF r
<1> QED
  BY <1>1, <1>2 DEF RowsOK

-----------------------------------------------------------------------------
(* Each step keeps IInv *)

\* A call that moves, without coming to apply or leaving apply or fail, and with
\* the rows it finds.
LEMMA MoveStep ==
    ASSUME IInv, NEW c \in Calls, CallsOK(call'),
           ~In(c, "apply"), ~In(c, "fail"),
           \A x \in Calls : x # c => call'[x] = call[x],
           call'[c].pc \notin {"apply", "finish", "respond"},
           call'[c].pc = "dismiss" => Payload[call'[c].id].kind # "post",
           \A d \in DeliveryIds : answers'[d] = answers[d] \/ row[d].status # "none",
           answers' \in [DeliveryIds -> SUBSET {"ok", "duplicate", "rejected", "ignored"}],
           UNCHANGED <<row, applied, crashes>>
    PROVE  IInv'
<1>1. RowsAndCallsOK'
  BY DEF IInv, RowsAndCallsOK, RowsOK
<1>2. OnceInv'
  BY DEF IInv, OnceInv, Unclaimed, Holder, AppliedOnce, In, NoRow
<1>3. Kinds' /\ AnsweredIsClaimed'
  BY DEF IInv, StoppedInv, Kinds, AnsweredIsClaimed, In
<1>4. \A d \in DeliveryIds : Pending(d) => Pending(d)'
  BY DEF Pending, In
<1>5. ClaimedIsPublished'
  BY <1>4 DEF IInv, StoppedInv, ClaimedIsPublished
<1> QED
  BY <1>1, <1>2, <1>3, <1>5 DEF IInv, StoppedInv

LEMMA SendStep ==
    ASSUME IInv, NEW c \in Calls, NEW d \in DeliveryIds, Send(c, d) PROVE IInv'
<1> DEFINE k == [pc |-> "lookup", id |-> d, post |-> None]
<1>1. k \in CallRecord /\ k.id \in DeliveryIds /\ k.pc = "lookup"
  BY DEF CallRecord
<1>2. In(c, "idle") /\ call' = [call EXCEPT ![c] = k]
      /\ UNCHANGED <<row, answers, applied, crashes>>
  BY DEF Send, cvars
<1> HIDE DEF k
<1>3. CallsOK(call') /\ call'[c] = k /\ \A x \in Calls : x # c => call'[x] = call[x]
  BY <1>1, <1>2, CallEdit DEF IInv, RowsAndCallsOK
<1>4. answers' \in [DeliveryIds -> SUBSET {"ok", "duplicate", "rejected", "ignored"}]
  BY <1>2 DEF IInv, RowsAndCallsOK
<1> QED
  BY <1>1, <1>2, <1>3, <1>4, MoveStep DEF In

\* An answer to a delivery whose row is there.
LEMMA AnswerStep ==
    ASSUME IInv, NEW c \in Calls, ~In(c, "idle"), ~In(c, "apply"), ~In(c, "fail"),
           NEW what \in {"ok", "duplicate", "rejected", "ignored"}, Answer(c, what),
           row[call[c].id].status # "none", UNCHANGED <<row, applied, crashes>>
    PROVE  IInv'
<1> DEFINE d == call[c].id
<1>1. d \in DeliveryIds
  BY DEF IInv, RowsAndCallsOK, CallsOK, In
<1>2. /\ answers' \in [DeliveryIds -> SUBSET {"ok", "duplicate", "rejected", "ignored"}]
      /\ \A e \in DeliveryIds : e # d => answers'[e] = answers[e]
  BY <1>1 DEF Answer, IInv, RowsAndCallsOK
<1>3. /\ CallsOK(call') /\ call'[c].pc = "idle"
      /\ \A x \in Calls : x # c => call'[x] = call[x]
  BY CallEnd DEF Answer, IInv, RowsAndCallsOK
<1> QED
  BY <1>1, <1>2, <1>3, MoveStep

LEMMA LookUpStep ==
    ASSUME IInv, NEW c \in Calls, LookUp(c) PROVE IInv'
<1>0. /\ In(c, "lookup") /\ ~In(c, "idle") /\ ~In(c, "apply") /\ ~In(c, "fail")
      /\ UNCHANGED <<row, applied, crashes>>
  BY DEF LookUp, In, cvars
<1>1. CASE row[call[c].id].status # "none" /\ Answer(c, "duplicate")
  BY <1>0, <1>1, AnswerStep
<1>2. ASSUME NEW label \in {"claim", "dismiss"}, Goto(c, label), UNCHANGED answers,
             label = "dismiss" => Payload[call[c].id].kind # "post"
      PROVE  IInv'
  <2>1. /\ CallsOK(call') /\ call'[c].pc = label /\ call'[c].id = call[c].id
        /\ \A x \in Calls : x # c => call'[x] = call[x]
    BY <1>0, <1>2, CallGoto DEF IInv, RowsAndCallsOK
  <2>2. answers' \in [DeliveryIds -> SUBSET {"ok", "duplicate", "rejected", "ignored"}]
    BY <1>2 DEF IInv, RowsAndCallsOK
  <2> QED
    BY <1>0, <1>2, <2>1, <2>2, MoveStep
<1> QED
  BY <1>1, <1>2 DEF LookUp

\* A step that records a row goes through record first; its effect on the other
\* deliveries is none.
LEMMA DismissStep ==
    ASSUME IInv, NEW c \in Calls, Dismiss(c) PROVE IInv'
<1> PICK d \in DeliveryIds : d = call[c].id
  BY DEF Dismiss, In, IInv, RowsAndCallsOK, CallsOK
<1>0. In(c, "dismiss") /\ UNCHANGED <<applied, crashes>>
  BY DEF Dismiss, cvars
<1>1. /\ RowsOK(row') /\ row'[d].status # "none"
      /\ \A e \in DeliveryIds : e # d \/ row[d] # NoRow => row'[e] = row[e]
  BY <1>0, RowRecorded DEF Dismiss, Dismissal, IInv, RowsAndCallsOK, OnceInv, Unclaimed
<1>2. /\ answers' \in [DeliveryIds -> SUBSET {"ok", "duplicate", "rejected", "ignored"}]
      /\ \A e \in DeliveryIds : e # d => answers'[e] = answers[e]
  BY <1>0 DEF Dismiss, Dismissal, Answer, IInv, RowsAndCallsOK
<1>3. /\ CallsOK(call') /\ call'[c].pc = "idle"
      /\ \A x \in Calls : x # c => call'[x] = call[x]
  BY CallEnd DEF Dismiss, Answer, IInv, RowsAndCallsOK
<1>4. Payload[d].kind # "post"
  BY <1>0 DEF IInv, StoppedInv, Kinds
<1>5. RowsAndCallsOK'
  BY <1>0, <1>1, <1>2, <1>3 DEF IInv, RowsAndCallsOK
<1>6. OnceInv'
  <2>1. \A x \in Calls : In(x, "apply") => call[x].id \in DeliveryIds
    BY DEF IInv, RowsAndCallsOK, CallsOK, In
  <2>2. Holder'
    BY <1>0, <1>1, <1>3, <2>1 DEF IInv, OnceInv, Holder, In, NoRow
  <2>3. Unclaimed' /\ AppliedOnce'
    BY <1>0, <1>1 DEF IInv, OnceInv, Unclaimed, AppliedOnce
  <2> QED
    BY <2>2, <2>3 DEF OnceInv
<1>7. Kinds' /\ AnsweredIsClaimed'
  BY <1>0, <1>1, <1>2, <1>3 DEF IInv, StoppedInv, Kinds, AnsweredIsClaimed, In
<1>8. \A e \in DeliveryIds : Pending(e) => Pending(e)'
  BY <1>0, <1>3 DEF Pending, In
<1>9. ClaimedIsPublished'
  BY <1>0, <1>1, <1>4, <1>8 DEF IInv, StoppedInv, ClaimedIsPublished
<1> QED
  BY <1>5, <1>6, <1>7, <1>9 DEF IInv, StoppedInv

LEMMA ClaimStep ==
    ASSUME IInv, NEW c \in Calls, Claim(c) PROVE IInv'
<1> PICK d \in DeliveryIds : d = call[c].id
  BY DEF Claim, In, IInv, RowsAndCallsOK, CallsOK
<1>0. /\ In(c, "claim") /\ ~In(c, "idle") /\ ~In(c, "apply") /\ ~In(c, "fail")
      /\ UNCHANGED <<applied, crashes>>
  BY DEF Claim, In, cvars
<1>1. /\ RowsOK(row')
      /\ \A e \in DeliveryIds : e # d \/ row[d] # NoRow => row'[e] = row[e]
      /\ row[d] = NoRow => row'[d].status = "accepted"
  BY <1>0, RowRecorded DEF Claim, IInv, RowsAndCallsOK
<1>2. CASE row[d] # NoRow /\ Answer(c, "duplicate")
  <2>1. row' = row
    BY <1>0, <1>1, <1>2 DEF IInv, RowsAndCallsOK, RowsOK
  <2>2. row[d].status # "none"
    BY <1>0, <1>2 DEF IInv, OnceInv, Unclaimed
  <2> QED
    BY <1>0, <1>2, <2>1, <2>2, AnswerStep
\* The call that claims the row.
<1>3. ASSUME row[d] = NoRow, UNCHANGED answers, CallsOK(call'),
             \A x \in Calls : x # c => call'[x] = call[x],
             \/ Payload[d].dated /\ call'[c].pc = "idle"
             \/ ~Payload[d].dated /\ call'[c].pc = "apply" /\ call'[c].id = d
      PROVE  IInv'
  <2>1. row[d].status = "none" /\ applied[d] = 0
    BY <1>0, <1>3 DEF NoRow, IInv, OnceInv, Unclaimed
  <2>2. \A x \in Calls : In(x, "apply") => call[x].id # d
    BY <1>3 DEF IInv, OnceInv, Holder
  <2>3. RowsAndCallsOK'
    BY <1>0, <1>1, <1>3 DEF IInv, RowsAndCallsOK
  <2>4. Unclaimed' /\ AppliedOnce'
    BY <1>0, <1>1, <1>3 DEF IInv, OnceInv, Unclaimed, AppliedOnce
  <2>5. Holder'
    <3>1. row'[d] # NoRow
      BY <1>1, <1>3 DEF NoRow
    <3>2. \A x \in Calls : In(x, "apply") => call[x].id \in DeliveryIds
      BY DEF IInv, RowsAndCallsOK, CallsOK, In
    <3> QED
      BY <1>0, <1>1, <1>3, <2>1, <2>2, <3>1, <3>2 DEF IInv, OnceInv, Holder, In
  <2>6. Kinds' /\ AnsweredIsClaimed'
    BY <1>0, <1>1, <1>3 DEF IInv, StoppedInv, Kinds, AnsweredIsClaimed, In
  <2>7. \A e \in DeliveryIds : Pending(e) => Pending(e)'
    BY <1>0, <1>3 DEF Pending, In
  <2>8. ~Payload[d].dated => Pending(d)'
    BY <1>3 DEF Pending
  <2>9. ClaimedIsPublished'
    BY <1>0, <1>1, <2>7, <2>8 DEF IInv, StoppedInv, ClaimedIsPublished
  <2> QED
    BY <2>3, <2>4, <2>5, <2>6, <2>9 DEF IInv, OnceInv, StoppedInv
<1>4. CASE row[d] = NoRow /\ Payload[d].dated /\ End(c) /\ UNCHANGED answers
  BY <1>3, <1>4, CallEnd DEF IInv, RowsAndCallsOK
<1>5. CASE row[d] = NoRow /\ ~Payload[d].dated /\ Goto(c, "apply") /\ UNCHANGED answers
  BY <1>0, <1>3, <1>5, CallGoto DEF IInv, RowsAndCallsOK
<1> QED
  BY <1>2, <1>4, <1>5 DEF Claim

\* The holder of a row leaves apply: with the post written, or to mark the row.
LEMMA LeaveApply ==
    ASSUME IInv, NEW c \in Calls, NEW d \in DeliveryIds, In(c, "apply"), d = call[c].id,
           CallsOK(call'), call'[c].id = d, \A x \in Calls : x # c => call'[x] = call[x],
           \/ call'[c].pc = "finish" /\ applied' = [applied EXCEPT ![d] = @ + 1]
           \/ call'[c].pc = "fail" /\ applied' = applied,
           UNCHANGED <<row, answers, crashes>>
    PROVE  IInv'
<1>1. /\ row[d] # NoRow /\ applied[d] = 0
      /\ \A b \in Calls : In(b, "apply") /\ call[b].id = d => b = c
  BY DEF IInv, OnceInv, Holder
<1>2. /\ applied' \in [DeliveryIds -> Nat]
      /\ \A e \in DeliveryIds : e # d => applied'[e] = applied[e]
      /\ applied'[d] <= 1 /\ (call'[c].pc = "finish" => applied'[d] = 1)
  BY <1>1 DEF IInv, RowsAndCallsOK
<1>3. RowsAndCallsOK'
  BY <1>2 DEF IInv, RowsAndCallsOK, RowsOK
<1>4. \A x \in Calls : call[x].pc # "idle" => call[x].id \in DeliveryIds
  BY DEF IInv, RowsAndCallsOK, CallsOK
<1>5. Unclaimed' /\ AppliedOnce'
  BY <1>1, <1>2 DEF IInv, OnceInv, Unclaimed, AppliedOnce, NoRow
<1>6. Holder'
  BY <1>1, <1>2, <1>4 DEF IInv, OnceInv, Holder, In, NoRow
<1>7. Kinds' /\ AnsweredIsClaimed'
  BY <1>1, <1>2, <1>4 DEF IInv, StoppedInv, Kinds, AnsweredIsClaimed, In
<1>8. \A e \in DeliveryIds : e # d /\ Pending(e) => Pending(e)'
  BY DEF Pending
<1>9. applied'[d] = 1 \/ Pending(d)'
  BY <1>2 DEF Pending
<1>10. ClaimedIsPublished'
  BY <1>2, <1>8, <1>9 DEF IInv, StoppedInv, ClaimedIsPublished
<1> QED
  BY <1>3, <1>5, <1>6, <1>7, <1>10 DEF IInv, OnceInv, StoppedInv

LEMMA ApplyStep ==
    ASSUME IInv, NEW c \in Calls, Apply(c) \/ ApplyFails(c) PROVE IInv'
<1> PICK d \in DeliveryIds : d = call[c].id
  BY DEF Apply, ApplyFails, In, IInv, RowsAndCallsOK, CallsOK
<1>0. In(c, "apply") /\ ~In(c, "idle") /\ UNCHANGED <<row, answers, crashes>>
  BY DEF Apply, ApplyFails, In, cvars
<1>1. CASE Apply(c)
  <2>1. PICK p \in Posts : call' = [call EXCEPT ![c].pc = "finish", ![c].post = p]
    BY <1>1 DEF Apply
  <2> DEFINE k == [call[c] EXCEPT !.pc = "finish", !.post = p]
  <2>2. call[c] \in CallRecord
    BY DEF IInv, RowsAndCallsOK, CallsOK
  <2>3. k \in CallRecord /\ k.id = d /\ k.pc = "finish"
    BY <2>2 DEF CallRecord
  <2>4. call' = [call EXCEPT ![c] = k]
    BY <2>1
  <2> HIDE DEF k
  <2>5. CallsOK(call') /\ call'[c] = k /\ \A x \in Calls : x # c => call'[x] = call[x]
    BY <2>3, <2>4, CallEdit DEF IInv, RowsAndCallsOK
  <2>6. applied' = [applied EXCEPT ![d] = @ + 1]
    BY <1>1 DEF Apply
  <2> QED
    BY <1>0, <2>3, <2>5, <2>6, LeaveApply
<1>2. CASE ApplyFails(c)
  <2>1. /\ CallsOK(call') /\ call'[c].pc = "fail" /\ call'[c].id = d
        /\ \A x \in Calls : x # c => call'[x] = call[x]
    BY <1>0, <1>2, CallGoto DEF ApplyFails, IInv, RowsAndCallsOK
  <2> QED
    BY <1>0, <1>2, <2>1, LeaveApply DEF ApplyFails
<1> QED
  BY <1>1, <1>2

\* The row is finalised: failed, or accepted with its post.
LEMMA Finalise ==
    ASSUME IInv, NEW c \in Calls, NEW d \in DeliveryIds, ~In(c, "apply"), d = call[c].id,
           CallsOK(call'), \A x \in Calls : x # c => call'[x] = call[x],
           \/ In(c, "fail") /\ call'[c].pc = "idle" /\ row'[d].status = "failed"
           \/ /\ In(c, "finish") /\ call'[c].pc = "respond" /\ call'[c].id = d
              /\ row'[d].status = "accepted",
           RowsOK(row'), \A e \in DeliveryIds : e # d => row'[e] = row[e],
           UNCHANGED <<answers, applied, crashes>>
    PROVE  IInv'
<1>1. RowsAndCallsOK'
  BY DEF IInv, RowsAndCallsOK
<1>2. Unclaimed' /\ AppliedOnce'
  BY DEF IInv, OnceInv, Unclaimed, AppliedOnce
<1>3. row'[d] # NoRow
  BY DEF NoRow
<1>4. \A x \in Calls : call[x].pc # "idle" => call[x].id \in DeliveryIds
  BY DEF IInv, RowsAndCallsOK, CallsOK
<1>5. Holder'
  BY <1>3, <1>4 DEF IInv, OnceInv, Holder, In, NoRow
<1>6. Kinds' /\ AnsweredIsClaimed'
  BY <1>4 DEF IInv, StoppedInv, Kinds, AnsweredIsClaimed, In
<1>7. \A e \in DeliveryIds : e # d /\ Pending(e) => Pending(e)'
  BY DEF Pending
<1>8. row'[d].status = "failed" \/ applied[d] = 1
  BY DEF IInv, StoppedInv, Kinds, In
<1>9. ClaimedIsPublished'
  BY <1>7, <1>8 DEF IInv, StoppedInv, ClaimedIsPublished
<1> QED
  BY <1>1, <1>2, <1>5, <1>6, <1>9 DEF IInv, OnceInv, StoppedInv

LEMMA FinaliseStep ==
    ASSUME IInv, NEW c \in Calls, MarkFailed(c) \/ Finish(c) PROVE IInv'
<1> PICK d \in DeliveryIds : d = call[c].id
  BY DEF MarkFailed, Finish, In, IInv, RowsAndCallsOK, CallsOK
<1>1. CASE MarkFailed(c)
  <2> DEFINE r == [row[d] EXCEPT !.status = "failed"]
  <2>1. r \in RowRecord /\ r.status = "failed"
    BY DEF IInv, RowsAndCallsOK, RowsOK, RowRecord
  <2>2. row' = [row EXCEPT ![d] = r]
    BY <1>1 DEF MarkFailed
  <2> HIDE DEF r
  <2>3. RowsOK(row') /\ row'[d].status = "failed" /\ \A e \in DeliveryIds : e # d => row'[e] = row[e]
    BY <2>1, <2>2 DEF IInv, RowsAndCallsOK, RowsOK
  <2>4. /\ CallsOK(call') /\ call'[c].pc = "idle"
        /\ \A x \in Calls : x # c => call'[x] = call[x]
    BY <1>1, CallEnd DEF MarkFailed, IInv, RowsAndCallsOK
  <2> QED
    BY <1>1, <2>3, <2>4, Finalise DEF MarkFailed, In, cvars
<1>2. CASE Finish(c)
  <2> DEFINE r == [status |-> "accepted", post |-> call[c].post]
  <2>1. r \in RowRecord /\ r.status = "accepted"
    BY DEF IInv, RowsAndCallsOK, CallsOK, CallRecord, RowRecord
  <2>2. row' = [row EXCEPT ![d] = r]
    BY <1>2 DEF Finish
  <2> HIDE DEF r
  <2>3. RowsOK(row') /\ row'[d].status = "accepted"
        /\ \A e \in DeliveryIds : e # d => row'[e] = row[e]
    BY <2>1, <2>2 DEF IInv, RowsAndCallsOK, RowsOK
  <2>4. /\ CallsOK(call') /\ call'[c].pc = "respond" /\ call'[c].id = d
        /\ \A x \in Calls : x # c => call'[x] = call[x]
    BY <1>2, CallGoto DEF Finish, In, IInv, RowsAndCallsOK
  <2> QED
    BY <1>2, <2>3, <2>4, Finalise DEF Finish, In, cvars
<1> QED
  BY <1>1, <1>2

LEMMA RespondStep ==
    ASSUME IInv, NEW c \in Calls, Respond(c) PROVE IInv'
<1>0. /\ ~In(c, "idle") /\ ~In(c, "apply") /\ ~In(c, "fail") /\ In(c, "respond")
      /\ UNCHANGED <<row, applied, crashes>>
  BY DEF Respond, In, cvars
<1>1. call[c].id \in DeliveryIds /\ applied[call[c].id] = 1
  BY <1>0 DEF In, IInv, RowsAndCallsOK, CallsOK, StoppedInv, Kinds
<1>2. row[call[c].id].status # "none"
  BY <1>1 DEF IInv, OnceInv, Unclaimed
<1> QED
  BY <1>0, <1>2, AnswerStep DEF Respond

\* Nothing but a crash counter moves, or a call dies besides.
LEMMA CrashStep ==
    ASSUME IInv, crashes' \in Nat, crashes' = crashes \/ crashes' > 0, UNCHANGED dvars
    PROVE  IInv'
<1>1. RowsAndCallsOK'
  BY DEF dvars, IInv, RowsAndCallsOK, RowsOK, CallsOK
<1>2. OnceInv'
  BY DEF dvars, IInv, OnceInv, Unclaimed, Holder, AppliedOnce, In
<1>3. StoppedInv'
  BY DEF dvars, IInv, RowsAndCallsOK, StoppedInv, Kinds, ClaimedIsPublished, AnsweredIsClaimed,
         Pending, In
<1> QED
  BY <1>1, <1>2, <1>3 DEF IInv

LEMMA CrashCallStep ==
    ASSUME IInv, NEW c \in Calls, CrashCall(c) PROVE IInv'
<1>0. crashes' = crashes + 1 /\ crashes' \in Nat /\ UNCHANGED <<row, answers, applied>>
  BY DEF CrashCall, IInv, RowsAndCallsOK
<1>1. /\ CallsOK(call') /\ call'[c].pc = "idle"
      /\ \A x \in Calls : x # c => call'[x] = call[x]
  BY CallEnd DEF CrashCall, IInv, RowsAndCallsOK
<1>2. RowsAndCallsOK'
  BY <1>0, <1>1 DEF IInv, RowsAndCallsOK, RowsOK
<1>3. OnceInv'
  BY <1>0, <1>1 DEF IInv, OnceInv, Unclaimed, Holder, AppliedOnce, In
<1>4. StoppedInv'
  BY <1>0, <1>1 DEF IInv, RowsAndCallsOK, StoppedInv, Kinds, ClaimedIsPublished, AnsweredIsClaimed, In
<1> QED
  BY <1>2, <1>3, <1>4 DEF IInv

LEMMA ContentStep ==
    ASSUME IInv, ContentNext, UNCHANGED dvars PROVE IInv'
<1>1. crashes' = crashes \/ crashes' = crashes + 1
  BY DEF ContentNext, AdminUpsert, ReadForPatch, ReadForPublish, Patch, AddRedirect, RedirectClashes,
         Publish, CrashEdit, Unpublish, Archive, FlipDue, ListDue, CrashCron, Tick
<1>2. crashes' \in Nat /\ (crashes' = crashes \/ crashes' > 0)
  BY <1>1 DEF IInv, RowsAndCallsOK
<1> QED
  BY <1>2, CrashStep

-----------------------------------------------------------------------------
(* The content rows under the deliveries, which write them with Apply, and     *)
(* under the admin calls and the cron: they stay well-formed                   *)

PostsOK(f) == f \in [Posts -> PostRecord]

\* A rename under way knows the slug the post is leaving.
EditsOK(f) ==
    /\ f \in [Editors -> EditRecord]
    /\ \A c \in Editors :
         /\ f[c].pc # "idle" => f[c].post \in Posts
         /\ f[c].pc \in {"patch", "redirect"} => f[c].old \in Slugs
         /\ f[c].pc = "redirect" => f[c].new \in Slugs

RowsInv ==
    /\ PostsOK(post) /\ EditsOK(edit)
    /\ redirect \in [Slugs -> Slugs \cup {None}]
    /\ due \in SUBSET Posts /\ now \in 1..MaxTime /\ crashes \in 0..MaxCrashes

LEMMA RowsInit == ContentInit => RowsInv
<1> SUFFICES ASSUME ContentInit PROVE RowsInv
  OBVIOUS
<1>1. NoPost \in PostRecord
  BY ContentAssumption DEF NoPost, PostRecord, Statuses, Times, NoTime
<1>2. NoEdit \in EditRecord /\ NoEdit.pc = "idle"
  BY DEF NoEdit, EditRecord
<1> QED
  BY <1>1, <1>2, ContentAssumption DEF ContentInit, RowsInv, PostsOK, EditsOK

LEMMA EditChange ==
    ASSUME EditsOK(edit), NEW c \in Editors, NEW k \in EditRecord,
           k.pc # "idle" => k.post \in Posts,
           k.pc \in {"patch", "redirect"} => k.old \in Slugs,
           k.pc = "redirect" => k.new \in Slugs,
           edit' = [edit EXCEPT ![c] = k]
    PROVE  EditsOK(edit')
  BY DEF EditsOK

LEMMA EditEnd ==
    ASSUME EditsOK(edit), NEW c \in Editors, EndEdit(c) PROVE EditsOK(edit')
<1>1. NoEdit \in EditRecord /\ NoEdit.pc = "idle"
  BY DEF NoEdit, EditRecord
<1> QED
  BY <1>1, EditChange DEF EndEdit

LEMMA UpsertTyped ==
    ASSUME RowsInv, NEW p \in Posts, NEW s \in Slugs, NEW st \in Statuses, NEW t \in Times,
           NEW by \in Sources \cup {None}, Upsert(p, s, st, t, by)
    PROVE  PostsOK(post')
<1>1. Row(s, st, t, by) \in PostRecord
  BY DEF Row, PublishTime, PostRecord, RowsInv, Times, NoTime
<1> QED
  BY <1>1 DEF Upsert, RowsInv, PostsOK

LEMMA StatusTyped ==
    ASSUME PostsOK(post), NEW p \in Posts, NEW s \in Statuses, SetStatus(p, s)
    PROVE  PostsOK(post')
<1>1. [post[p] EXCEPT !.status = s] \in PostRecord
  BY DEF PostsOK, PostRecord
<1>2. post' = [post EXCEPT ![p] = [post[p] EXCEPT !.status = s]]
  BY DEF SetStatus
<1> QED
  BY <1>1, <1>2 DEF PostsOK

LEMMA ReadsTyped ==
    ASSUME RowsInv, NEW c \in Editors, NEW p \in Posts, ReadForPatch(c, p) \/ ReadForPublish(c, p)
    PROVE  EditsOK(edit')
<1>1. CASE ReadForPatch(c, p)
  <2> DEFINE k == [NoEdit EXCEPT !.pc = "patch", !.post = p, !.old = post[p].slug]
  <2>1. k \in EditRecord /\ k.pc = "patch" /\ k.post = p /\ k.old \in Slugs
    BY <1>1 DEF ReadForPatch, Exists, RowsInv, PostsOK, PostRecord, NoEdit, EditRecord
  <2>2. edit' = [edit EXCEPT ![c] = k]
    BY <1>1 DEF ReadForPatch
  <2> HIDE DEF k
  <2> QED
    BY <2>1, <2>2, EditChange DEF RowsInv
<1>2. CASE ReadForPublish(c, p)
  <2> DEFINE k == [NoEdit EXCEPT !.pc = "publish", !.post = p, !.dated = post[p].at # NoTime]
  <2>1. k \in EditRecord /\ k.pc = "publish" /\ k.post = p
    BY DEF NoEdit, EditRecord
  <2>2. edit' = [edit EXCEPT ![c] = k]
    BY <1>2 DEF ReadForPublish
  <2> HIDE DEF k
  <2> QED
    BY <2>1, <2>2, EditChange DEF RowsInv
<1> QED
  BY <1>1, <1>2

LEMMA PatchTyped ==
    ASSUME RowsInv, NEW c \in Editors, NEW s \in Slugs \cup {None}, NEW st \in Statuses \cup {None},
           NEW t \in Times, Patch(c, s, st, t)
    PROVE  PostsOK(post') /\ EditsOK(edit')
<1>0. /\ edit[c] \in EditRecord /\ edit[c].post \in Posts /\ edit[c].old \in Slugs
  BY DEF Patch, At, RowsInv, EditsOK
<1> DEFINE k == Patched(post[edit[c].post], s, st, t)
           n == [edit[c] EXCEPT !.pc = "redirect", !.new = s,
                                !.fresh = (redirect[edit[c].old] = None)]
<1>1. k \in PostRecord
  BY <1>0 DEF Patched, RowsInv, PostsOK, PostRecord
<1>2. post' = post \/ post' = [post EXCEPT ![edit[c].post] = k]
  BY DEF Patch
<1>3. s # None => n \in EditRecord /\ n.pc = "redirect" /\ n.post \in Posts /\ n.old \in Slugs
                  /\ n.new \in Slugs
  BY <1>0 DEF EditRecord
<1>4. EndEdit(c) \/ (s # None /\ edit' = [edit EXCEPT ![c] = n])
  BY DEF Patch
<1> HIDE DEF k, n
<1>5. PostsOK(post')
  BY <1>0, <1>1, <1>2 DEF RowsInv, PostsOK
<1>6. EditsOK(edit')
  BY <1>3, <1>4, EditChange, EditEnd DEF RowsInv
<1> QED
  BY <1>5, <1>6

LEMMA PublishTyped ==
    ASSUME RowsInv, NEW c \in Editors, Publish(c)
    PROVE  PostsOK(post') /\ EditsOK(edit')
<1> DEFINE p == edit[c].post
           k == [post[p] EXCEPT !.status = "published", !.at = IF edit[c].dated THEN @ ELSE now]
<1>0. p \in Posts
  BY DEF Publish, At, RowsInv, EditsOK
<1>1. k \in PostRecord
  <2>1. post[p] \in PostRecord
    BY <1>0 DEF RowsInv, PostsOK
  <2>2. now \in Times /\ post[p].at \in Times
    BY <2>1, ContentAssumption DEF RowsInv, Times, NoTime, PostRecord
  <2> QED
    BY <2>1, <2>2 DEF PostRecord, Statuses
<1>2. post' = [post EXCEPT ![p] = k]
  BY <1>0 DEF Publish, RowsInv, PostsOK
<1>3. EditsOK(edit')
  BY EditEnd DEF Publish, RowsInv
<1> HIDE DEF k, p
<1> QED
  BY <1>0, <1>1, <1>2, <1>3 DEF RowsInv, PostsOK

LEMMA RowsStep ==
    ASSUME RowsInv, [ContentNext]_cvars PROVE RowsInv'
<1>1. ASSUME NEW s \in Slugs, NEW st \in Statuses, NEW t \in Times, AdminUpsert(s, st, t)
      PROVE  RowsInv'
  <2>1. PICK p \in Posts : Upsert(p, s, st, t, None)
    BY <1>1 DEF AdminUpsert
  <2>2. PostsOK(post')
    BY <2>1, UpsertTyped
  <2> QED
    BY <1>1, <2>2 DEF AdminUpsert, RowsInv
<1>2. ASSUME NEW c \in Editors, NEW p \in Posts, ReadForPatch(c, p) \/ ReadForPublish(c, p)
      PROVE  RowsInv'
  <2>1. EditsOK(edit')
    BY <1>2, ReadsTyped
  <2> QED
    BY <1>2, <2>1 DEF ReadForPatch, ReadForPublish, RowsInv
<1>3. ASSUME NEW c \in Editors, NEW s \in Slugs \cup {None}, NEW st \in Statuses \cup {None},
             NEW t \in Times, Patch(c, s, st, t)
      PROVE  RowsInv'
  <2>1. PostsOK(post') /\ EditsOK(edit')
    BY <1>3, PatchTyped
  <2>2. UNCHANGED <<redirect, due, now, crashes>>
    BY <1>3 DEF Patch
  <2> QED
    BY <2>1, <2>2 DEF RowsInv
<1>4. ASSUME NEW c \in Editors, AddRedirect(c) \/ RedirectClashes(c) PROVE RowsInv'
  <2>1. EditsOK(edit') /\ UNCHANGED <<post, due, now, crashes>>
    BY <1>4, EditEnd DEF AddRedirect, RedirectClashes, RowsInv
  <2>2. redirect' \in [Slugs -> Slugs \cup {None}]
    BY <1>4 DEF AddRedirect, RedirectClashes, At, RowsInv, EditsOK
  <2> QED
    BY <2>1, <2>2 DEF RowsInv
<1>5. ASSUME NEW c \in Editors, Publish(c) PROVE RowsInv'
  <2>1. PostsOK(post') /\ EditsOK(edit')
    BY <1>5, PublishTyped
  <2>2. UNCHANGED <<redirect, due, now, crashes>>
    BY <1>5 DEF Publish
  <2> QED
    BY <2>1, <2>2 DEF RowsInv
<1>6. ASSUME NEW p \in Posts, Unpublish(p) \/ Archive(p) \/ FlipDue(p) PROVE RowsInv'
  <2>1. PICK s \in Statuses : SetStatus(p, s)
    BY <1>6 DEF Unpublish, Archive, FlipDue, Statuses
  <2>2. PostsOK(post')
    BY <2>1, StatusTyped DEF RowsInv
  <2>3. UNCHANGED <<redirect, edit, now, crashes>> /\ due' \in SUBSET Posts
    BY <1>6 DEF Unpublish, Archive, FlipDue, RowsInv
  <2> QED
    BY <2>2, <2>3 DEF RowsInv
<1>7. CASE (\E c \in Editors : CrashEdit(c)) \/ ListDue \/ CrashCron \/ Tick \/ UNCHANGED cvars
  <2>1. UNCHANGED <<post, redirect>>
    BY <1>7 DEF CrashEdit, ListDue, CrashCron, Tick, cvars
  <2>2. EditsOK(edit')
    BY <1>7, EditEnd DEF CrashEdit, ListDue, CrashCron, Tick, cvars, RowsInv, EditsOK
  <2>3. due' \in SUBSET Posts
    BY <1>7 DEF CrashEdit, ListDue, CrashCron, Tick, cvars, RowsInv
  <2>4. now' \in 1..MaxTime /\ crashes' \in 0..MaxCrashes
    BY <1>7, ContentAssumption DEF CrashEdit, ListDue, CrashCron, Tick, cvars, RowsInv
  <2> QED
    BY <2>1, <2>2, <2>3, <2>4 DEF RowsInv, PostsOK
<1> QED
  BY <1>1, <1>2, <1>3, <1>4, <1>5, <1>6, <1>7 DEF ContentNext

\* A step of a delivery writes one post at most, with an id of its own.
LEMMA DeliveryRows ==
    ASSUME RowsInv, RowsAndCallsOK, [Next]_vars PROVE RowsInv'
<1>1. ASSUME NEW c \in Calls, Apply(c) PROVE RowsInv'
  <2> DEFINE d == call[c].id
  <2>1. d \in DeliveryIds
    BY <1>1 DEF Apply, In, RowsAndCallsOK, CallsOK
  <2>2. d \in Sources \cup {None} /\ Payload[d].slug \in Slugs
    BY <2>1, DeliveriesAssumption DEF PayloadRecord
  <2>3. "published" \in Statuses /\ NoTime \in Times
    BY ContentAssumption DEF Statuses, Times, NoTime
  <2>4. PICK p \in Posts : Upsert(p, Payload[d].slug, "published", NoTime, d)
    BY <1>1 DEF Apply
  <2>5. UNCHANGED <<redirect, edit, due, now, crashes>>
    BY <1>1 DEF Apply
  <2> HIDE DEF d
  <2>6. PostsOK(post')
    BY <2>2, <2>3, <2>4, UpsertTyped
  <2> QED
    BY <2>5, <2>6 DEF RowsInv
<1>2. ASSUME NEW c \in Calls, CrashCall(c) PROVE RowsInv'
  <2>1. crashes' \in 0..MaxCrashes /\ UNCHANGED <<post, redirect, edit, due, now>>
    BY <1>2, ContentAssumption DEF CrashCall, RowsInv
  <2> QED
    BY <2>1 DEF RowsInv
<1>3. ASSUME NEW c \in Calls,
             \/ \E d \in DeliveryIds : Send(c, d)
             \/ LookUp(c) \/ Dismiss(c) \/ Claim(c) \/ ApplyFails(c)
             \/ MarkFailed(c) \/ Finish(c) \/ Respond(c)
      PROVE  UNCHANGED cvars
  BY <1>3 DEF Send, LookUp, Dismiss, Claim, ApplyFails, MarkFailed, Finish, Respond
<1>4. CASE UNCHANGED vars
  BY <1>4, RowsStep DEF vars
<1> QED
  BY <1>1, <1>2, <1>3, <1>4, RowsStep DEF Next, Step

\* SiteOps keeps to its tries.
SentOK == sent \in [DeliveryIds -> 0..Tries]

LEMMA SentStep == ASSUME SentOK, [Next]_vars PROVE SentOK'
<1>1. ASSUME NEW c \in Calls, NEW d \in DeliveryIds, Send(c, d) PROVE SentOK'
  <2>1. sent[d] + 1 \in 0..Tries
    BY <1>1, DeliveriesAssumption DEF Send, SentOK
  <2> QED
    BY <1>1, <2>1 DEF Send, SentOK
<1>2. ASSUME NEW c \in Calls, Step(c) \/ CrashCall(c) PROVE UNCHANGED sent
  BY <1>2 DEF Step, LookUp, Dismiss, Claim, Apply, ApplyFails, MarkFailed, Finish, Respond, CrashCall
<1>3. CASE (ContentNext /\ UNCHANGED dvars) \/ UNCHANGED vars
  BY <1>3 DEF vars, dvars, SentOK
<1> QED
  BY <1>1, <1>2, <1>3 DEF Next, SentOK

-----------------------------------------------------------------------------
LEMMA IInvStep == ASSUME IInv, [Next]_vars PROVE IInv'
<1>1. CASE UNCHANGED vars
  BY <1>1, CrashStep DEF vars, cvars, IInv, RowsAndCallsOK
<1>2. CASE \E c \in Calls : (\E d \in DeliveryIds : Send(c, d)) \/ Step(c) \/ CrashCall(c)
  BY <1>2, SendStep, LookUpStep, DismissStep, ClaimStep, ApplyStep, FinaliseStep, RespondStep,
     CrashCallStep DEF Step
<1>3. CASE ContentNext /\ UNCHANGED dvars
  BY <1>3, ContentStep
<1> QED
  BY <1>1, <1>2, <1>3 DEF Next

\* The content rows, the delivery rows and the calls stay well-formed, whatever is
\* sent and whatever admin calls and the cron write meanwhile.
THEOREM DeliveriesTyped == Spec => []DeliveriesTypeOK
<1>1. Init => RowsInv /\ SentOK
  BY RowsInit, DeliveriesAssumption DEF Init, SentOK
<1>2. IInv /\ RowsInv /\ SentOK /\ [Next]_vars => RowsInv' /\ SentOK'
  BY DeliveryRows, SentStep DEF IInv
<1>3. IInv /\ RowsInv /\ SentOK => DeliveriesTypeOK
  BY DEF IInv, RowsAndCallsOK, RowsOK, CallsOK, RowRecord, RowsInv, PostsOK, EditsOK,
         SentOK, DeliveriesTypeOK, ContentTypeOK, At
<1> QED
  BY InitInv, IInvStep, <1>1, <1>2, <1>3, PTL DEF Spec

\* However often a delivery is sent, by however many calls, it is written to a
\* post at most once.
THEOREM DeliveriesAppliedOnce == Spec => []AppliedOnce
<1>1. IInv => AppliedOnce
  BY DEF IInv, OnceInv
<1> QED
  BY InitInv, IInvStep, <1>1, PTL DEF Spec

\* With no crash, the answer that stops SiteOps from sending an undated post again
\* is true: the post is written, or a call is about to, or the row says it failed.
THEOREM DeliveriesPublished == Spec => []StoppedIsPublished
<1>1. IInv => StoppedIsPublished
  <2> SUFFICES ASSUME IInv PROVE StoppedIsPublished
    OBVIOUS
  <2>1. crashes = 0 \/ crashes > 0
    BY DEF IInv, RowsAndCallsOK
  <2> QED
    BY <2>1 DEF IInv, StoppedInv, ClaimedIsPublished, AnsweredIsClaimed, StoppedIsPublished
<1> QED
  BY InitInv, IInvStep, <1>1, PTL DEF Spec
=============================================================================
