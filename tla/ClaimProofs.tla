---------------------------- MODULE ClaimProofs ----------------------------
(***************************************************************************)
(* Claims, for any number of them, of users and subscriptions, whatever    *)
(* they overlap with and wherever they die: rows stay well-formed and      *)
(* covered by their ledgers, a subscription has one owner, every row lock  *)
(* belongs to a claim between its two rows, a permanent account is drained *)
(* only of what another claim has brought it, and a plan paid for since    *)
(* before the claims, and never ended since, is not overwritten.           *)
(***************************************************************************)
EXTENDS Claim, WalletProofs

ClaimsOK(f) == f \in [Claims -> ClaimRecord]
SubsOK(f) == f \in [Subs -> SubRecord]

RowsOK ==
    /\ hasEmail \in [Users -> BOOLEAN] /\ pointer \in [Users -> Subs \cup {None}]
    /\ SubsOK(sub) /\ ClaimsOK(claim) /\ lock \in [Users -> Claims \cup {None}]

\* What a claim has found out by the time it is at each label.
Filled(k) ==
    /\ k.pc \notin {"new", "done"} => k.prev \in Users /\ k.to \in Users /\ k.prev # k.to
    /\ k.pc \in {"pays", "owner", "relinkFrom", "relinkTo"} => k.sub \in Subs
    /\ k.pc \in {"lockFirst", "lockSecond"} => k.from \in Users /\ k.from # k.to
    /\ k.pc = "relinkFrom" => k.from \in Users

AllFilled == \A c \in Claims : Filled(claim[c])

\* A row that is not there is pointed at by nobody, and no claim is after it.
Seen ==
    /\ \A u \in Users : pointer[u] # None => sub[pointer[u]].status # "none"
    /\ \A c \in Claims : claim[c].sub # None => sub[claim[c].sub].status # "none"

\* LocksHeld, of one row.
HeldRightly(u) ==
    lock[u] # None => \/ At(lock[u], "lockSecond") /\ u = First(lock[u])
                      \/ At(lock[u], "relinkTo") /\ u = claim[lock[u]].from

IInv == WalletInv /\ RowsOK /\ AllFilled /\ Seen /\ OneOwner /\ LocksHeld

LEMMA ClaimInit == Init => IInv
<1> SUFFICES ASSUME Init PROVE IInv
  OBVIOUS
<1>1. NewClaim \in ClaimRecord /\ Filled(NewClaim) /\ NewClaim.sub = None
  BY DEF NewClaim, ClaimRecord, Labels, Filled
<1>2. /\ NoRow \in SubRecord
      /\ \A u \in Users : [NoRow EXCEPT !.status = "active", !.payer = u] \in SubRecord
  BY DEF SubRecord, NoRow
<1>3. \A s \in Subs :
        /\ sub[s] \in SubRecord
        /\ \A u \in Users : Paying[u] = s => sub[s].status # "none"
  <2> TAKE s \in Subs
  <2>1. CASE \E u \in Users : Paying[u] = s
    <3>1. PICK payer \in Users : payer = CHOOSE u \in Users : Paying[u] = s
      BY <2>1
    <3>2. sub[s] = [NoRow EXCEPT !.status = "active", !.payer = payer]
      BY <2>1, <3>1 DEF Init
    <3>3. sub[s].status = "active"
      BY <3>2 DEF NoRow
    <3> QED
      BY <3>2, <3>3, <1>2
  <2>2. CASE ~ \E u \in Users : Paying[u] = s
    <3>1. sub[s] = NoRow
      BY <2>2 DEF Init
    <3> QED
      BY <2>2, <3>1, <1>2
  <2> QED
    BY <2>1, <2>2
<1>4. RowsOK
  <2>1. sub = [s \in Subs |-> sub[s]]
    BY DEF Init
  <2>2. SubsOK(sub)
    BY <1>3, <2>1 DEF SubsOK
  <2>3. /\ hasEmail = [u \in Users |-> u \in Permanent] /\ pointer = Paying
        /\ claim = [c \in Claims |-> NewClaim] /\ lock = [u \in Users |-> None]
    BY DEF Init
  <2> QED
    BY <1>1, <2>2, <2>3, ClaimAssumption DEF RowsOK, ClaimsOK
<1>5. AllFilled /\ LocksHeld
  BY <1>1 DEF Init, AllFilled, LocksHeld
<1>6. Seen /\ OneOwner
  BY <1>1, <1>3, ClaimAssumption DEF Init, Seen, OneOwner
<1> QED
  BY <1>4, <1>5, <1>6, InitInv DEF Init, IInv

-----------------------------------------------------------------------------
(* Steps of one claim, by what they do to its record and to the locks *)

\* The record is replaced by a well-formed one.
LEMMA RecordEdit ==
    ASSUME RowsOK, NEW c \in Claims, NEW k \in ClaimRecord, Become(c, k)
    PROVE  ClaimsOK(claim') /\ claim'[c] = k /\ \A d \in Claims : d # c => claim'[d] = claim[d]
  BY DEF RowsOK, ClaimsOK, Become

\* A claim that holds no lock reads on.
LEMMA ReadOn ==
    ASSUME IInv, NEW c \in Claims, NEW k \in ClaimRecord, Become(c, k), Filled(k),
           claim[c].pc \notin {"lockSecond", "relinkTo"},
           k.sub # None => sub[k.sub].status # "none",
           UNCHANGED <<wvars, hasEmail, pointer, sub, lock>>
    PROVE  IInv'
<1>1. ClaimsOK(claim') /\ claim'[c] = k /\ \A d \in Claims : d # c => claim'[d] = claim[d]
  BY RecordEdit DEF IInv
<1>2. RowsOK'
  BY <1>1 DEF IInv, RowsOK, SubsOK
<1>3. AllFilled'
  BY <1>1 DEF IInv, AllFilled
<1>4. Seen' /\ OneOwner'
  BY <1>1 DEF IInv, Seen, OneOwner
<1>5. LocksHeld'
  BY <1>1 DEF IInv, RowsOK, LocksHeld, At, First
<1>6. WalletInv'
  BY StutterInv DEF IInv
<1> QED
  BY <1>2, <1>3, <1>4, <1>5, <1>6 DEF IInv

\* Goto is Become with another label.
LEMMA GotoRecord ==
    ASSUME RowsOK, NEW c \in Claims, NEW label \in Labels, Goto(c, label)
    PROVE  LET k == [claim[c] EXCEPT !.pc = label]
           IN  /\ k \in ClaimRecord /\ Become(c, k) /\ k.pc = label
               /\ k.prev = claim[c].prev /\ k.to = claim[c].to /\ k.sub = claim[c].sub
               /\ k.from = claim[c].from
<1>1. claim[c] \in ClaimRecord
  BY DEF RowsOK, ClaimsOK
<1> QED
  BY <1>1 DEF ClaimRecord, Goto, Become

LEMMA ArriveStep ==
    ASSUME IInv, NEW c \in Claims, NEW p \in Users, NEW t \in Users, Arrive(c, p, t) PROVE IInv'
<1> DEFINE k == [NewClaim EXCEPT !.pc = "prev", !.prev = p, !.to = t]
<1>1. k \in ClaimRecord /\ k.pc = "prev" /\ k.prev = p /\ k.to = t /\ k.sub = None
  BY DEF NewClaim, ClaimRecord, Labels
<1>2. /\ Become(c, k) /\ p # t /\ claim[c].pc = "new"
      /\ UNCHANGED <<wvars, hasEmail, pointer, sub, lock>>
  BY DEF Arrive, At
<1> HIDE DEF k
<1>3. Filled(k)
  BY <1>1, <1>2 DEF Filled
<1> QED
  BY <1>1, <1>2, <1>3, ReadOn

\* A claim that is refused or has nothing to do ends.
LEMMA GiveUp ==
    ASSUME IInv, NEW c \in Claims, Goto(c, "done"),
           claim[c].pc \notin {"lockSecond", "relinkTo"},
           UNCHANGED <<wvars, hasEmail, pointer, sub, lock>>
    PROVE  IInv'
<1> DEFINE k == [claim[c] EXCEPT !.pc = "done"]
<1>1. k \in ClaimRecord /\ Become(c, k) /\ k.pc = "done" /\ k.sub = claim[c].sub
  BY GotoRecord DEF IInv, Labels
<1> HIDE DEF k
<1>2. Filled(k)
  BY <1>1 DEF Filled
<1>3. k.sub # None => sub[k.sub].status # "none"
  BY <1>1 DEF IInv, Seen
<1> QED
  BY <1>1, <1>2, <1>3, ReadOn

LEMMA ReadPrevStep ==
    ASSUME IInv, NEW c \in Claims, ReadPrev(c) PROVE IInv'
<1> DEFINE p == claim[c].prev
           k == [claim[c] EXCEPT !.pc = "recipient", !.sub = pointer[p], !.rich = TotalHints(p) > 0]
<1>0. /\ claim[c].pc = "prev" /\ claim[c] \in ClaimRecord /\ Filled(claim[c])
      /\ UNCHANGED <<wvars, hasEmail, pointer, sub, lock>>
  BY DEF ReadPrev, At, IInv, RowsOK, ClaimsOK, AllFilled
<1>1. p \in Users /\ claim[c].to \in Users /\ p # claim[c].to
  BY <1>0 DEF Filled
<1>2. CASE Goto(c, "done")
  BY <1>0, <1>2, GiveUp
<1>3. CASE Become(c, k)
  <2>1. pointer[p] \in Subs \cup {None}
    BY <1>1 DEF IInv, RowsOK
  <2>2. (TotalHints(p) > 0) \in BOOLEAN
    OBVIOUS
  <2>3. /\ k \in ClaimRecord /\ k.pc = "recipient" /\ k.sub = pointer[p]
        /\ k.prev = p /\ k.to = claim[c].to
    BY <1>0, <2>1, <2>2 DEF ClaimRecord, Labels
  <2>4. k.sub # None => sub[k.sub].status # "none"
    BY <1>1, <2>3 DEF IInv, Seen
  <2>5. Become(c, k)
    BY <1>3
  <2> HIDE DEF k
  <2>6. Filled(k)
    BY <1>1, <2>3 DEF Filled
  <2> QED
    BY <1>0, <2>3, <2>4, <2>5, <2>6, ReadOn
<1> QED
  BY <1>2, <1>3 DEF ReadPrev

LEMMA ReadRecipientStep ==
    ASSUME IInv, NEW c \in Claims, ReadRecipient(c) PROVE IInv'
<1>0. /\ claim[c].pc = "recipient" /\ claim[c] \in ClaimRecord /\ Filled(claim[c])
      /\ UNCHANGED <<wvars, hasEmail, pointer, sub, lock>>
  BY DEF ReadRecipient, At, IInv, RowsOK, ClaimsOK, AllFilled
<1>1. claim[c].prev \in Users /\ claim[c].to \in Users /\ claim[c].prev # claim[c].to
  BY <1>0 DEF Filled
<1>2. CASE /\ claim[c].sub # None
           /\ Become(c, [claim[c] EXCEPT !.pc = "pays", !.theirs = pointer[claim[c].to]])
  <2> DEFINE k == [claim[c] EXCEPT !.pc = "pays", !.theirs = pointer[claim[c].to]]
  <2>1. pointer[claim[c].to] \in Subs \cup {None}
    BY <1>1 DEF IInv, RowsOK
  <2>2. /\ k \in ClaimRecord /\ k.pc = "pays" /\ k.sub = claim[c].sub /\ k.sub \in Subs
        /\ k.prev = claim[c].prev /\ k.to = claim[c].to
    BY <1>0, <1>2, <2>1 DEF ClaimRecord, Labels
  <2>3. k.sub # None => sub[k.sub].status # "none"
    BY <2>2 DEF IInv, Seen
  <2>4. Become(c, k)
    BY <1>2
  <2> HIDE DEF k
  <2>5. Filled(k)
    BY <1>1, <2>2 DEF Filled
  <2> QED
    BY <1>0, <2>2, <2>3, <2>4, <2>5, ReadOn
<1>3. CASE /\ claim[c].sub = None
           /\ Become(c, [claim[c] EXCEPT !.pc = "lockFirst", !.from = claim[c].prev])
  <2> DEFINE k == [claim[c] EXCEPT !.pc = "lockFirst", !.from = claim[c].prev]
  <2>1. /\ k \in ClaimRecord /\ k.pc = "lockFirst" /\ k.sub = None
        /\ k.prev = claim[c].prev /\ k.to = claim[c].to /\ k.from = claim[c].prev
    BY <1>0, <1>3 DEF ClaimRecord, Labels
  <2>2. Become(c, k)
    BY <1>3
  <2> HIDE DEF k
  <2>3. Filled(k)
    BY <1>1, <2>1 DEF Filled
  <2> QED
    BY <1>0, <2>1, <2>2, <2>3, ReadOn
<1>4. CASE Goto(c, "done")
  BY <1>0, <1>4, GiveUp
<1> QED
  BY <1>2, <1>3, <1>4 DEF ReadRecipient

LEMMA CheckRecipientStep ==
    ASSUME IInv, NEW c \in Claims, CheckRecipient(c) PROVE IInv'
<1>0. /\ claim[c].pc = "pays" /\ claim[c] \in ClaimRecord /\ Filled(claim[c])
      /\ UNCHANGED <<wvars, hasEmail, pointer, sub, lock>>
  BY DEF CheckRecipient, At, IInv, RowsOK, ClaimsOK, AllFilled
<1>1. CASE Goto(c, "done")
  BY <1>0, <1>1, GiveUp
<1>2. CASE Goto(c, "owner")
  <2> DEFINE k == [claim[c] EXCEPT !.pc = "owner"]
  <2>1. /\ k \in ClaimRecord /\ Become(c, k) /\ k.pc = "owner"
        /\ k.prev = claim[c].prev /\ k.to = claim[c].to /\ k.sub = claim[c].sub
    BY <1>2, GotoRecord DEF IInv, Labels
  <2> HIDE DEF k
  <2>2. Filled(k)
    BY <1>0, <2>1 DEF Filled
  <2>3. k.sub # None => sub[k.sub].status # "none"
    BY <2>1 DEF IInv, Seen
  <2> QED
    BY <1>0, <2>1, <2>2, <2>3, ReadOn
<1> QED
  BY <1>1, <1>2 DEF CheckRecipient

LEMMA ReadOwnerStep ==
    ASSUME IInv, NEW c \in Claims, ReadOwner(c) PROVE IInv'
<1>0. /\ claim[c].pc = "owner" /\ claim[c] \in ClaimRecord /\ Filled(claim[c])
      /\ claim[c].sub \in Subs /\ UNCHANGED <<wvars, hasEmail, pointer, sub, lock>>
  BY DEF ReadOwner, At, IInv, RowsOK, ClaimsOK, AllFilled, Filled
<1>1. CASE Goto(c, "relinkTo")
  <2> DEFINE k == [claim[c] EXCEPT !.pc = "relinkTo"]
  <2>1. /\ k \in ClaimRecord /\ Become(c, k) /\ k.pc = "relinkTo"
        /\ k.prev = claim[c].prev /\ k.to = claim[c].to /\ k.sub = claim[c].sub
    BY <1>1, GotoRecord DEF IInv, Labels
  <2> HIDE DEF k
  <2>2. Filled(k)
    BY <1>0, <2>1 DEF Filled
  <2>3. k.sub # None => sub[k.sub].status # "none"
    BY <2>1 DEF IInv, Seen
  <2> QED
    BY <1>0, <2>1, <2>2, <2>3, ReadOn
<1>2. ASSUME NEW u \in Owner(claim[c].sub),
             Become(c, [claim[c] EXCEPT !.from = u,
                          !.pc = IF u = claim[c].to THEN "relinkFrom" ELSE "lockFirst"])
      PROVE  IInv'
  <2> DEFINE k == [claim[c] EXCEPT !.from = u,
                     !.pc = IF u = claim[c].to THEN "relinkFrom" ELSE "lockFirst"]
  <2>1. u \in Users
    BY DEF Owner
  <2>2. /\ k \in ClaimRecord /\ k.from = u
        /\ k.pc = IF u = claim[c].to THEN "relinkFrom" ELSE "lockFirst"
        /\ k.prev = claim[c].prev /\ k.to = claim[c].to /\ k.sub = claim[c].sub
    BY <1>0, <2>1 DEF ClaimRecord, Labels
  <2>3. Become(c, k)
    BY <1>2
  <2> HIDE DEF k
  <2>4. Filled(k)
    BY <1>0, <2>1, <2>2 DEF Filled
  <2>5. k.sub # None => sub[k.sub].status # "none"
    BY <2>2 DEF IInv, Seen
  <2> QED
    BY <1>0, <2>2, <2>3, <2>4, <2>5, ReadOn
<1> QED
  BY <1>1, <1>2 DEF ReadOwner

-----------------------------------------------------------------------------
(* Steps that take or give back locks *)

\* A claim without locks takes its first one.
LEMMA TakeLock ==
    ASSUME IInv, NEW c \in Claims, NEW r \in Users,
           lock' = [lock EXCEPT ![r] = c],
           claim[c].pc \notin {"lockSecond", "relinkTo"},
           \/ claim[c].pc = "lockFirst" /\ Goto(c, "lockSecond") /\ r = First(c)
           \/ claim[c].pc = "relinkFrom" /\ Goto(c, "relinkTo") /\ r = claim[c].from,
           UNCHANGED <<wvars, hasEmail, pointer, sub>>
    PROVE  IInv'
<1>1. PICK label \in {"lockSecond", "relinkTo"} :
        /\ Goto(c, label)
        /\ label = "lockSecond" => claim[c].pc = "lockFirst" /\ r = First(c)
        /\ label = "relinkTo" => claim[c].pc = "relinkFrom" /\ r = claim[c].from
  OBVIOUS
<1> DEFINE k == [claim[c] EXCEPT !.pc = label]
<1>2. /\ k \in ClaimRecord /\ Become(c, k) /\ k.pc = label
      /\ k.prev = claim[c].prev /\ k.to = claim[c].to /\ k.sub = claim[c].sub
      /\ k.from = claim[c].from
  <2>1. label \in Labels /\ RowsOK
    BY DEF Labels, IInv
  <2> QED
    BY <1>1, <2>1, GotoRecord
<1> HIDE DEF k
<1>3. ClaimsOK(claim') /\ claim'[c] = k /\ \A d \in Claims : d # c => claim'[d] = claim[d]
  BY <1>2, RecordEdit DEF IInv
<1>4. RowsOK'
  BY <1>3 DEF IInv, RowsOK, SubsOK
<1>5. Filled(k)
  BY <1>1, <1>2 DEF IInv, AllFilled, Filled
<1>6. AllFilled'
  BY <1>3, <1>5 DEF IInv, AllFilled
<1>7. Seen' /\ OneOwner'
  BY <1>2, <1>3 DEF IInv, Seen, OneOwner
<1>8. ASSUME NEW u \in Users, lock'[u] # None
      PROVE  HeldRightly(u)'
  <2>1. CASE u = r
    <3>1. lock'[u] = c
      BY <2>1 DEF IInv, RowsOK
    <3> QED
      BY <1>1, <1>2, <1>3, <2>1, <3>1 DEF HeldRightly, At, First
  <2>2. CASE u # r
    <3>1. lock'[u] = lock[u] /\ lock[u] \in Claims
      BY <1>8, <2>2 DEF IInv, RowsOK
    <3>2. lock[u] # c
      BY <1>8, <3>1 DEF IInv, LocksHeld, At
    <3>3. claim'[lock[u]] = claim[lock[u]]
      BY <1>3, <3>1, <3>2
    <3> QED
      BY <1>8, <3>1, <3>3 DEF IInv, LocksHeld, HeldRightly, At, First
  <2> QED
    BY <2>1, <2>2
<1>9. LocksHeld'
  BY <1>8 DEF LocksHeld, HeldRightly
<1>10. WalletInv'
  BY StutterInv DEF IInv
<1> QED
  BY <1>4, <1>6, <1>7, <1>9, <1>10 DEF IInv

\* A transaction ends, by commit or by rollback, and gives back its locks.
LEMMA GiveBack ==
    ASSUME IInv, NEW c \in Claims, Release(c), NEW label \in {"done", "relinkFrom"}, Goto(c, label),
           label = "relinkFrom" => claim[c].pc = "lockSecond" /\ claim[c].sub # None,
           pointer' \in [Users -> Subs \cup {None}],
           WalletInv', OneOwner', UNCHANGED <<hasEmail, sub>>,
           \A u \in Users : pointer'[u] # None => sub[pointer'[u]].status # "none"
    PROVE  IInv'
<1> DEFINE k == [claim[c] EXCEPT !.pc = label]
<1>2. /\ k \in ClaimRecord /\ Become(c, k) /\ k.pc = label
      /\ k.prev = claim[c].prev /\ k.to = claim[c].to /\ k.sub = claim[c].sub
      /\ k.from = claim[c].from
  <2>1. label \in Labels /\ RowsOK
    BY DEF Labels, IInv
  <2> QED
    BY <2>1, GotoRecord
<1> HIDE DEF k
<1>3. ClaimsOK(claim') /\ claim'[c] = k /\ \A d \in Claims : d # c => claim'[d] = claim[d]
  BY <1>2, RecordEdit DEF IInv
<1>4. RowsOK'
  BY <1>3 DEF IInv, RowsOK, SubsOK, Release
<1>5. Filled(k)
  BY <1>2 DEF IInv, AllFilled, Filled, ClaimRecord
<1>6. AllFilled'
  BY <1>3, <1>5 DEF IInv, AllFilled
<1>7. Seen'
  BY <1>2, <1>3 DEF IInv, Seen
<1>8. ASSUME NEW u \in Users, lock'[u] # None
      PROVE  HeldRightly(u)'
  <2>1. lock'[u] = lock[u] /\ lock[u] # c
    BY <1>8 DEF Release
  <2>2. claim'[lock[u]] = claim[lock[u]]
    BY <1>3, <1>8, <2>1 DEF IInv, RowsOK
  <2> QED
    BY <1>8, <2>1, <2>2 DEF IInv, LocksHeld, HeldRightly, At, First
<1>9. LocksHeld'
  BY <1>8 DEF LocksHeld, HeldRightly
<1> QED
  BY <1>4, <1>6, <1>7, <1>9 DEF IInv

LEMMA LockStep ==
    ASSUME IInv, NEW c \in Claims, LockFirst(c) \/ RelinkFrom(c) PROVE IInv'
<1>1. Filled(claim[c])
  BY DEF IInv, AllFilled
<1>2. CASE LockFirst(c)
  <2>1. First(c) \in Users
    BY <1>1, <1>2 DEF LockFirst, At, First, Filled
  <2> QED
    BY <1>2, <2>1, TakeLock DEF LockFirst, At
<1>3. CASE RelinkFrom(c)
  <2>1. claim[c].from \in Users
    BY <1>1, <1>3 DEF RelinkFrom, At, Filled
  <2> QED
    BY <1>3, <2>1, TakeLock DEF RelinkFrom, At
<1> QED
  BY <1>2, <1>3

LEMMA TransferStep ==
    ASSUME IInv, NEW c \in Claims, Transfer(c) PROVE IInv'
<1>1. claim[c].from \in Users /\ claim[c].to \in Users
  BY DEF IInv, AllFilled, Transfer, At, Filled
<1>2. WalletInv'
  BY <1>1, TransferInv DEF Transfer, IInv
<1>3. PICK label \in {"done", "relinkFrom"} :
        Goto(c, label) /\ (label = "relinkFrom" => claim[c].sub # None)
  BY DEF Transfer
<1>4. claim[c].pc = "lockSecond" /\ Release(c) /\ UNCHANGED <<hasEmail, pointer, sub>>
  BY DEF Transfer, At
<1>5. OneOwner' /\ pointer' \in [Users -> Subs \cup {None}]
      /\ \A u \in Users : pointer'[u] # None => sub[pointer'[u]].status # "none"
  BY <1>4 DEF IInv, OneOwner, RowsOK, Seen
<1> QED
  BY <1>2, <1>3, <1>4, <1>5, GiveBack

\* The claim's end: its transaction is rolled back.
LEMMA RollbackStep ==
    ASSUME IInv, NEW c \in Claims, Release(c), Goto(c, "done"),
           UNCHANGED <<wvars, hasEmail, pointer, sub>>
    PROVE  IInv'
<1>1. WalletInv'
  BY StutterInv DEF IInv
<1>2. OneOwner' /\ pointer' \in [Users -> Subs \cup {None}]
      /\ \A u \in Users : pointer'[u] # None => sub[pointer'[u]].status # "none"
  BY DEF IInv, OneOwner, RowsOK, Seen
<1> QED
  BY <1>1, <1>2, GiveBack

\* The pointer moves, unless a third user holds the subscription.
LEMMA RelinkStep ==
    ASSUME IInv, NEW c \in Claims, RelinkTo(c) PROVE IInv'
<1> DEFINE t == claim[c].to
<1>0. /\ Release(c) /\ Goto(c, "done") /\ UNCHANGED <<wvars, hasEmail, sub>>
      /\ claim[c].sub \in Subs /\ t \in Users
  BY DEF RelinkTo, At, IInv, AllFilled, Filled
<1>1. CASE pointer' = pointer
  BY <1>0, <1>1, RollbackStep
<1>2. CASE pointer' = Repointed(c) /\ ~\E u \in Users \ {t} : Repointed(c)[u] = claim[c].sub
  <2>1. WalletInv'
    BY <1>0, StutterInv DEF IInv
  <2>2. pointer' \in [Users -> Subs \cup {None}]
    BY <1>0, <1>2 DEF Repointed, IInv, RowsOK
  <2>3. \A u \in Users : pointer'[u] \in {None, pointer[u], claim[c].sub}
    BY <1>2 DEF Repointed
  <2>4. sub[claim[c].sub].status # "none"
    BY <1>0, ClaimAssumption DEF IInv, Seen
  <2>5. \A u \in Users : pointer'[u] # None => sub[pointer'[u]].status # "none"
    BY <2>3, <2>4 DEF IInv, Seen
  <2>6. ASSUME NEW u \in Users, NEW v \in Users, pointer'[u] # None, pointer'[u] = pointer'[v]
        PROVE  u = v
    <3>1. CASE pointer'[u] = claim[c].sub
      <4>1. u = t /\ v = t
        BY <1>2, <2>6, <3>1
      <4> QED
        BY <4>1
    <3>2. CASE pointer'[u] # claim[c].sub
      <4>1. pointer'[u] = pointer[u] /\ pointer'[v] = pointer[v]
        BY <2>3, <2>6, <3>2
      <4> QED
        BY <2>6, <4>1 DEF IInv, OneOwner
    <3> QED
      BY <3>1, <3>2
  <2>7. OneOwner'
    BY <2>6 DEF OneOwner
  <2> QED
    BY <1>0, <2>1, <2>2, <2>5, <2>7, GiveBack
<1> QED
  BY <1>1, <1>2 DEF RelinkTo

-----------------------------------------------------------------------------
(* The rest of the system *)

\* Claims and locks stay; a subscription that is there stays.
LEMMA Beside ==
    ASSUME IInv, UNCHANGED <<claim, lock>>, WalletInv', OneOwner',
           hasEmail' \in [Users -> BOOLEAN], pointer' \in [Users -> Subs \cup {None}], SubsOK(sub'),
           \A s \in Subs : sub[s].status # "none" => sub'[s].status # "none",
           \A u \in Users : pointer'[u] # None => sub'[pointer'[u]].status # "none"
    PROVE  IInv'
<1>1. RowsOK'
  BY DEF IInv, RowsOK, ClaimsOK
<1>2. AllFilled'
  BY DEF IInv, AllFilled
<1>3. Seen'
  <2>1. \A c \in Claims : claim[c].sub \in Subs \cup {None}
    BY DEF IInv, RowsOK, ClaimsOK, ClaimRecord
  <2> QED
    BY <2>1 DEF IInv, Seen
<1>4. LocksHeld'
  BY DEF IInv, LocksHeld, At, First
<1> QED
  BY <1>1, <1>2, <1>3, <1>4 DEF IInv

\* The rows of the users and the subscriptions stay as well.
LEMMA WalletOnly ==
    ASSUME IInv, UNCHANGED <<claim, lock, pointer, sub>>, WalletInv',
           hasEmail' \in [Users -> BOOLEAN]
    PROVE  IInv'
<1>1. OneOwner' /\ pointer' \in [Users -> Subs \cup {None}] /\ SubsOK(sub')
  BY DEF IInv, OneOwner, RowsOK
<1>2. /\ \A s \in Subs : sub[s].status # "none" => sub'[s].status # "none"
      /\ \A u \in Users : pointer'[u] # None => sub'[pointer'[u]].status # "none"
  BY DEF IInv, Seen
<1> QED
  BY <1>1, <1>2, Beside

LEMMA LinkStep ==
    ASSUME IInv, NEW u \in Users, Link(u) \/ Spend(u) PROVE IInv'
<1>1. WalletInv'
  BY StutterInv, ConsumeInv DEF Link, Spend, IInv
<1>2. hasEmail' \in [Users -> BOOLEAN]
  BY DEF Link, Spend, IInv, RowsOK
<1> QED
  BY <1>1, <1>2, WalletOnly DEF Link, Spend

LEMMA SubscribeStep ==
    ASSUME IInv, NEW u \in Users, NEW s \in Subs, Subscribe(u, s) PROVE IInv'
<1> DEFINE r == [NoRow EXCEPT !.status = "pending", !.payer = u]
<1>1. r \in SubRecord /\ r.status = "pending"
  BY DEF SubRecord, NoRow
<1>2. sub' = [sub EXCEPT ![s] = r]
  BY DEF Subscribe
<1> HIDE DEF r
<1>3. SubsOK(sub') /\ sub'[s].status = "pending" /\ \A x \in Subs : x # s => sub'[x] = sub[x]
  BY <1>1, <1>2 DEF IInv, RowsOK, SubsOK
<1>4. /\ pointer' = [pointer EXCEPT ![u] = s] /\ sub[s].status = "none"
      /\ UNCHANGED <<wvars, hasEmail, claim, lock>>
  BY DEF Subscribe
<1>5. /\ pointer' \in [Users -> Subs \cup {None}] /\ pointer'[u] = s
      /\ \A v \in Users : v # u => pointer'[v] = pointer[v]
  BY <1>4 DEF IInv, RowsOK
<1>6. \A v \in Users : pointer[v] # s
  BY <1>4, ClaimAssumption DEF IInv, Seen
<1>7. OneOwner'
  BY <1>5, <1>6 DEF IInv, OneOwner
<1>8. \A v \in Users : pointer'[v] # None => sub'[pointer'[v]].status # "none"
  BY <1>3, <1>5, <1>6 DEF IInv, Seen, RowsOK
<1>9. WalletInv' /\ hasEmail' \in [Users -> BOOLEAN]
  BY <1>4, StutterInv DEF IInv, RowsOK
<1> QED
  BY <1>3, <1>4, <1>5, <1>7, <1>8, <1>9, Beside

LEMMA SubscriptionStep ==
    ASSUME IInv, NEW s \in Subs, Activate(s) \/ GrantFirstCycle(s) \/ EndSubscription(s)
    PROVE  IInv'
<1>1. sub[s] \in SubRecord
  BY DEF IInv, RowsOK, SubsOK
<1>2. PICK r \in SubRecord : /\ sub' = [sub EXCEPT ![s] = r]
                             /\ sub[s].status # "none" => r.status # "none"
  <2>1. CASE Activate(s)
    <3>1. [sub[s] EXCEPT !.status = "active", !.granted = FALSE] \in SubRecord
      BY <1>1 DEF SubRecord
    <3> QED
      BY <1>1, <2>1, <3>1 DEF Activate, SubRecord
  <2>2. CASE GrantFirstCycle(s)
    <3>1. [sub[s] EXCEPT !.granted = TRUE] \in SubRecord
      BY <1>1 DEF SubRecord
    <3> QED
      BY <1>1, <2>2, <3>1 DEF GrantFirstCycle, SubRecord
  <2>3. CASE EndSubscription(s)
    <3>0. sub[s].ended + 1 \in Nat
      BY <1>1 DEF SubRecord
    <3>1. [sub[s] EXCEPT !.status = "canceled", !.ended = sub[s].ended + 1] \in SubRecord
      BY <1>1, <3>0 DEF SubRecord
    <3>2. sub' = [sub EXCEPT ![s] = [sub[s] EXCEPT !.status = "canceled", !.ended = sub[s].ended + 1]]
      BY <2>3 DEF EndSubscription, IInv, RowsOK, SubsOK
    <3>3. [sub[s] EXCEPT !.status = "canceled", !.ended = sub[s].ended + 1].status # "none"
      BY <1>1 DEF SubRecord
    <3> QED
      BY <3>1, <3>2, <3>3
  <2> QED
    BY <2>1, <2>2, <2>3
<1>3. SubsOK(sub') /\ \A x \in Subs : sub[x].status # "none" => sub'[x].status # "none"
  BY <1>2 DEF IInv, RowsOK, SubsOK
<1>4. UNCHANGED <<hasEmail, pointer, claim, lock>>
  BY DEF Activate, GrantFirstCycle, EndSubscription
<1>5. WalletInv'
  <2>1. CASE Activate(s) \/ EndSubscription(s)
    BY <2>1, StutterInv DEF Activate, EndSubscription, IInv
  <2>2. CASE GrantFirstCycle(s)
    <3>1. sub[s].payer \in Users /\ CycleHints[s] \in Nat
      BY <1>1, <2>2, ClaimAssumption DEF GrantFirstCycle, SubRecord
    <3> QED
      BY <2>2, <3>1, SetInv DEF GrantFirstCycle, IInv
  <2> QED
    BY <2>1, <2>2
<1>6. OneOwner' /\ pointer' \in [Users -> Subs \cup {None}] /\ hasEmail' \in [Users -> BOOLEAN]
      /\ \A u \in Users : pointer'[u] # None => sub'[pointer'[u]].status # "none"
  BY <1>3, <1>4 DEF IInv, OneOwner, RowsOK, Seen
<1> QED
  BY <1>3, <1>4, <1>5, <1>6, Beside

-----------------------------------------------------------------------------
LEMMA ClaimStep ==
    ASSUME IInv, NEW c \in Claims, Step(c) \/ Crash(c) PROVE IInv'
<1>1. CASE Crash(c) \/ DeadlockAbort(c)
  BY <1>1, RollbackStep DEF Crash, DeadlockAbort
<1>2. CASE Step(c) /\ ~DeadlockAbort(c)
  BY <1>2, ReadPrevStep, ReadRecipientStep, CheckRecipientStep, ReadOwnerStep, LockStep,
     TransferStep, RelinkStep DEF Step
<1> QED
  BY <1>1, <1>2

LEMMA ClaimsKeep == IInv /\ [Next]_vars => IInv'
<1> SUFFICES ASSUME IInv, [Next]_vars PROVE IInv'
  OBVIOUS
<1>1. CASE UNCHANGED vars
  BY <1>1, StutterInv, WalletOnly DEF vars, IInv, RowsOK
<1>2. CASE Next
  BY <1>2, ArriveStep, ClaimStep, LinkStep, SubscribeStep, SubscriptionStep DEF Next
<1> QED
  BY <1>1, <1>2

\* Rows and claims stay well-formed, whatever claims, checkouts, activations,
\* spends and crashes interleave.
THEOREM ClaimsTyped == Spec => []ClaimTypeOK
<1>1. IInv => ClaimTypeOK
  BY DEF IInv, WalletInv, RowsOK, ClaimsOK, SubsOK, ClaimTypeOK
<1> QED
  BY ClaimInit, ClaimsKeep, <1>1, PTL DEF Spec

\* No user holds more than the ledgers recorded, a subscription is pointed at by
\* one user, and a claim that is over holds no row lock.
THEOREM ClaimsSafe == Spec => [](LedgerCoversBalance /\ OneOwner /\ LocksHeld)
<1>1. IInv => LedgerCoversBalance /\ OneOwner /\ LocksHeld
  BY DEF IInv, WalletInv
<1> QED
  BY ClaimInit, ClaimsKeep, <1>1, PTL DEF Spec

-----------------------------------------------------------------------------
(* Moving an account's assets makes no hints *)

\* Every step is one transaction of the store, or none.
LEMMA ClaimStoreStep ==
    ASSUME IInv, Next PROVE StoreStep \/ UNCHANGED wvars
<1>1. ASSUME NEW c \in Claims, Transfer(c) PROVE StoreStep
  <2>1. claim[c].from \in Users /\ claim[c].to \in Users
    BY <1>1 DEF IInv, AllFilled, Transfer, At, Filled
  <2> QED
    BY <1>1, <2>1 DEF Transfer, StoreStep
<1>2. ASSUME NEW s \in Subs, GrantFirstCycle(s) PROVE StoreStep
  <2>1. sub[s].payer \in Users /\ CycleHints[s] \in Nat
    BY <1>2, ClaimAssumption DEF GrantFirstCycle, IInv, RowsOK, SubsOK, SubRecord
  <2> QED
    BY <1>2, <2>1 DEF GrantFirstCycle, StoreStep
<1>3. ASSUME NEW u \in Users, Spend(u) PROVE StoreStep
  BY <1>3 DEF Spend, StoreStep
<1>4. ASSUME NEW c \in Claims, Step(c) \/ Crash(c), ~Transfer(c) PROVE UNCHANGED wvars
  BY <1>4 DEF Step, Crash, ReadPrev, ReadRecipient, CheckRecipient, ReadOwner, LockFirst,
              RelinkFrom, RelinkTo, DeadlockAbort
<1>5. ASSUME NEW c \in Claims, NEW p \in Users, NEW t \in Users, Arrive(c, p, t)
      PROVE  UNCHANGED wvars
  BY <1>5 DEF Arrive
<1>6. ASSUME NEW u \in Users, Link(u) \/ \E s \in Subs : Subscribe(u, s) PROVE UNCHANGED wvars
  BY <1>6 DEF Link, Subscribe
<1>7. ASSUME NEW s \in Subs, Activate(s) \/ EndSubscription(s) PROVE UNCHANGED wvars
  BY <1>7 DEF Activate, EndSubscription
<1> QED
  BY <1>1, <1>2, <1>3, <1>4, <1>5, <1>6, <1>7 DEF Next

\* However balances are moved between accounts, by claims that overlap, deadlock or
\* die: the signup hints held and spent are those handed out, and the paid ones
\* those bought.
THEOREM ClaimsConserve == Spec => [](FreeHintsConserved /\ PaidHintsConserved)
<1>1. Init => IInv /\ Conserved
  <2>1. Init => WalletInit
    BY DEF Init
  <2> QED
    BY <2>1, ClaimInit, InitConserved DEF WalletInit, Buckets, GrantSources
<1>2. IInv /\ Conserved /\ [Next]_vars => IInv' /\ Conserved'
  <2> SUFFICES ASSUME IInv, Conserved, [Next]_vars PROVE Conserved'
    BY ClaimsKeep
  <2>1. CASE Next
    BY <2>1, ClaimStoreStep, StoreStepConserves, StutterConserves DEF IInv, WalletInv
  <2>2. CASE UNCHANGED vars
    BY <2>2, StutterConserves DEF vars
  <2> QED
    BY <2>1, <2>2
<1>3. Conserved => FreeHintsConserved /\ PaidHintsConserved
  BY DEF Conserved
<1> QED
  BY <1>1, <1>2, <1>3, PTL DEF Spec
-----------------------------------------------------------------------------
(* What claims leave alone: the trail of a subscription from row to row.     *)
(* f, q and r stand for claim, pointer and sub, of this state or of the next *)

\* Brought, of the claims f.
TakenOn(f, u, s) == \E d \in Claims : f[d].to = u /\ f[d].sub = s

\* The subscription of a row is live, and has been since it was activated.
NeverEnded(row) == row.status = "active" /\ row.ended = 0

\* PaysAllAlong, of the claims f and the rows q and r.
Kept(u, f, q, r) ==
    /\ Paying[u] # None /\ q[u] = Paying[u] /\ NeverEnded(r[Paying[u]])
    /\ ~TakenOn(f, u, Paying[u])

\* The recipient and the subscription are set once, and then stay.
Blank(k) ==
    /\ k.pc = "new" => k.to = None
    /\ k.pc \in {"new", "prev"} => k.sub = None

\* The donor had no email; a permanent account got the subscription from a claim.
OnTrail(k, f, q) ==
    /\ k.pc \notin {"new", "prev", "done"} => k.prev \notin Permanent
    /\ k.pc \in {"recipient", "pays", "owner"} /\ k.sub # None =>
         \A v \in Permanent : q[v] = k.sub => TakenOn(f, v, k.sub)
    /\ k.pc \in {"lockFirst", "lockSecond"} /\ k.from \in Permanent =>
         k.sub # None /\ TakenOn(f, k.from, k.sub)

\* No claim on the way to the pointer of a user who pays.
Spares(k, f, q, r) ==
    k.to \in Users /\ Kept(k.to, f, q, r) =>
        /\ k.pc = "pays" => k.theirs = Paying[k.to]
        /\ k.pc \notin {"owner", "relinkFrom", "relinkTo"}
        /\ k.pc \in {"lockFirst", "lockSecond"} => k.sub = None

Told(k, f, q, r) == Blank(k) /\ OnTrail(k, f, q) /\ Spares(k, f, q, r)

Emails == \A u \in Permanent : hasEmail[u]
Past(row) == row.status \in {"active", "canceled"} /\ (row.status = "canceled" => row.ended > 0)
Bought(r) == \A u \in Users : Paying[u] # None => Past(r[Paying[u]])

Trail == Emails /\ Bought(sub) /\ \A c \in Claims : Told(claim[c], claim, pointer, sub)

LEMMA TrailInit == Init => Trail
<1> SUFFICES ASSUME Init PROVE Trail
  OBVIOUS
<1>1. Emails
  BY ClaimAssumption DEF Init, Emails
<1>2. Bought(sub)
  <2> SUFFICES ASSUME NEW u \in Users, Paying[u] # None PROVE sub[Paying[u]].status = "active"
    BY DEF Bought, Past
  <2>1. Paying[u] \in Subs
    BY ClaimAssumption
  <2> QED
    BY <2>1 DEF Init, NoRow
<1>3. Told(NewClaim, claim, pointer, sub)
  BY ClaimAssumption DEF NewClaim, Told, Blank, OnTrail, Spares
<1> QED
  BY <1>1, <1>2, <1>3 DEF Init, Trail

\* Rows a step may change without a claim losing its trail: a pointer is new only
\* where a claim brought it or nobody claims it, and what has ended has ended, even
\* if a late event revives it.
Gentle ==
    /\ \A u \in Users : \/ pointer'[u] \in {pointer[u], None}
                        \/ TakenOn(claim', u, pointer'[u])
                        \/ sub[pointer'[u]].status = "none"
    /\ \A s \in Subs : Past(sub[s]) =>
         Past(sub'[s]) /\ (NeverEnded(sub'[s]) => NeverEnded(sub[s]))
    /\ \A u \in Users, s \in Subs : TakenOn(claim, u, s) => TakenOn(claim', u, s)

LEMMA KeptBefore ==
    ASSUME Trail, Gentle, NEW u \in Users, Kept(u, claim', pointer', sub')
    PROVE  Kept(u, claim, pointer, sub)
<1>1. Paying[u] \in Subs
  BY ClaimAssumption DEF Kept
<1>2. Past(sub[Paying[u]])
  BY <1>1, ClaimAssumption DEF Kept, Trail, Bought
<1>3. NeverEnded(sub[Paying[u]])
  BY <1>1, <1>2 DEF Kept, Gentle
<1>4. pointer'[u] = Paying[u] /\ ~TakenOn(claim', u, Paying[u])
  BY DEF Kept
<1>5. pointer[u] = Paying[u]
  BY <1>1, <1>3, <1>4, ClaimAssumption DEF Gentle, NeverEnded
<1>6. ~TakenOn(claim, u, Paying[u])
  BY <1>1, <1>4 DEF Gentle
<1> QED
  BY <1>1, <1>3, <1>5, <1>6, ClaimAssumption DEF Kept

\* What is on record of a claim stays true of it.
LEMMA StillTold ==
    ASSUME Trail, Gentle, NEW k \in ClaimRecord, Told(k, claim, pointer, sub),
           k.sub # None => sub[k.sub].status # "none"
    PROVE  Told(k, claim', pointer', sub')
<1>1. k.sub \in Subs \cup {None} /\ k.from \in Users \cup {None} /\ Permanent \subseteq Users
  BY ClaimAssumption DEF ClaimRecord
<1>2. OnTrail(k, claim', pointer')
  <2>1. ASSUME k.pc \in {"recipient", "pays", "owner"}, k.sub # None,
               NEW v \in Permanent, pointer'[v] = k.sub
        PROVE  TakenOn(claim', v, k.sub)
    <3>1. CASE pointer[v] = k.sub
      <4>1. TakenOn(claim, v, k.sub)
        BY <2>1, <3>1 DEF Told, OnTrail
      <4> QED
        BY <1>1, <2>1, <4>1 DEF Gentle
    <3>2. CASE pointer[v] # k.sub
      BY <1>1, <2>1, <3>2 DEF Gentle
    <3> QED
      BY <3>1, <3>2
  <2>2. ASSUME k.pc \in {"lockFirst", "lockSecond"}, k.from \in Permanent
        PROVE  k.sub # None /\ TakenOn(claim', k.from, k.sub)
    <3>1. k.sub # None /\ TakenOn(claim, k.from, k.sub)
      BY <2>2 DEF Told, OnTrail
    <3> QED
      BY <1>1, <2>2, <3>1 DEF Gentle
  <2> QED
    BY <2>1, <2>2 DEF Told, OnTrail
<1>3. Spares(k, claim', pointer', sub')
  <2>1. k.to \in Users /\ Kept(k.to, claim', pointer', sub') => Kept(k.to, claim, pointer, sub)
    BY KeptBefore
  <2> QED
    BY <2>1 DEF Told, Spares
<1> QED
  BY <1>2, <1>3 DEF Told

LEMMA BystanderTold ==
    ASSUME IInv, Trail, Gentle, NEW d \in Claims, claim'[d] = claim[d]
    PROVE  Told(claim'[d], claim', pointer', sub')
<1>1. /\ Told(claim[d], claim, pointer, sub) /\ claim[d] \in ClaimRecord
      /\ claim[d].sub # None => sub[claim[d].sub].status # "none"
  BY DEF Trail, IInv, RowsOK, ClaimsOK, Seen
<1> QED
  BY <1>1, StillTold

LEMMA TrailKept ==
    ASSUME IInv, Trail, Gentle, \A u \in Permanent : hasEmail[u] => hasEmail'[u],
           \A c \in Claims : claim'[c] # claim[c] => Told(claim'[c], claim', pointer', sub')
    PROVE  Trail'
<1>1. Emails'
  BY DEF Trail, Emails
<1>2. Bought(sub')
  <2> SUFFICES ASSUME NEW u \in Users, Paying[u] # None
               PROVE  Past(sub'[Paying[u]])
    BY DEF Bought
  <2>1. Paying[u] \in Subs
    BY ClaimAssumption
  <2> QED
    BY <2>1 DEF Trail, Bought, Gentle
<1>3. \A c \in Claims : Told(claim'[c], claim', pointer', sub')
  BY BystanderTold
<1> QED
  BY <1>1, <1>2, <1>3 DEF Trail, Bought, Past, Told, Blank, OnTrail, Spares, Kept, NeverEnded, TakenOn

-----------------------------------------------------------------------------
(* Every step keeps the trail *)

\* A claim goes on, and so far has changed no row but its locks.
LEMMA GoesOn ==
    ASSUME IInv, Trail, NEW c \in Claims, NEW k \in ClaimRecord, Become(c, k),
           claim[c].sub # None => k.to = claim[c].to /\ k.sub = claim[c].sub,
           k.sub # None => sub[k.sub].status # "none",
           Told(k, claim, pointer, sub), UNCHANGED <<hasEmail, pointer, sub>>
    PROVE  Trail'
<1>1. ClaimsOK(claim') /\ claim'[c] = k /\ \A d \in Claims : d # c => claim'[d] = claim[d]
  BY RecordEdit DEF IInv
<1>2. \A u \in Users, s \in Subs : TakenOn(claim, u, s) => TakenOn(claim', u, s)
  <2> SUFFICES ASSUME NEW u \in Users, NEW s \in Subs, NEW d \in Claims,
                      claim[d].to = u, claim[d].sub = s
               PROVE  claim'[d].to = u /\ claim'[d].sub = s
    BY DEF TakenOn
  <2>1. s # None
    BY ClaimAssumption
  <2> QED
    BY <1>1, <2>1
<1>3. Gentle
  BY <1>2 DEF Gentle
<1>4. Told(k, claim', pointer', sub')
  BY <1>3, StillTold
<1> QED
  BY <1>1, <1>3, <1>4, TrailKept

\* Only the label of the record changes.
LEMMA MovesOn ==
    ASSUME IInv, Trail, NEW c \in Claims, NEW label \in Labels, Goto(c, label),
           UNCHANGED <<hasEmail, pointer, sub>>,
           \A k \in ClaimRecord :
             /\ k.pc = label /\ k.prev = claim[c].prev /\ k.to = claim[c].to
             /\ k.sub = claim[c].sub /\ k.from = claim[c].from
             => Told(k, claim, pointer, sub)
    PROVE  Trail'
<1> DEFINE k == [claim[c] EXCEPT !.pc = label]
<1>1. /\ k \in ClaimRecord /\ Become(c, k) /\ k.pc = label
      /\ k.prev = claim[c].prev /\ k.to = claim[c].to /\ k.sub = claim[c].sub
      /\ k.from = claim[c].from
  BY GotoRecord DEF IInv
<1>2. k.sub # None => sub[k.sub].status # "none"
  BY <1>1 DEF IInv, Seen
<1> HIDE DEF k
<1> QED
  BY <1>1, <1>2, GoesOn

LEMMA ArriveTrail ==
    ASSUME IInv, Trail, NEW c \in Claims, NEW p \in Users, NEW t \in Users, Arrive(c, p, t)
    PROVE  Trail'
<1> DEFINE k == [NewClaim EXCEPT !.pc = "prev", !.prev = p, !.to = t]
<1>1. k \in ClaimRecord /\ k.pc = "prev" /\ k.to = t /\ k.sub = None
  BY DEF NewClaim, ClaimRecord, Labels
<1>2. Become(c, k) /\ UNCHANGED <<hasEmail, pointer, sub>>
  BY DEF Arrive
<1>3. claim[c].sub = None
  BY DEF Arrive, At, Trail, Told, Blank
<1> HIDE DEF k
<1>4. Told(k, claim, pointer, sub)
  BY <1>1 DEF Told, Blank, OnTrail, Spares
<1> QED
  BY <1>1, <1>2, <1>3, <1>4, GoesOn

\* A claim that is over or ends.
LEMMA EndsTrail ==
    ASSUME IInv, Trail, NEW c \in Claims, Goto(c, "done"), UNCHANGED <<hasEmail, pointer, sub>>
    PROVE  Trail'
<1>1. \A k \in ClaimRecord : k.pc = "done" => Told(k, claim, pointer, sub)
  BY DEF Told, Blank, OnTrail, Spares
<1> QED
  BY <1>1, MovesOn DEF Labels

LEMMA ReadPrevTrail ==
    ASSUME IInv, Trail, NEW c \in Claims, ReadPrev(c) PROVE Trail'
<1> DEFINE p == claim[c].prev
           k == [claim[c] EXCEPT !.pc = "recipient", !.sub = pointer[p], !.rich = TotalHints(p) > 0]
<1>0. /\ claim[c].pc = "prev" /\ claim[c] \in ClaimRecord /\ Filled(claim[c])
      /\ UNCHANGED <<hasEmail, pointer, sub>> /\ claim[c].sub = None
  BY DEF ReadPrev, At, IInv, RowsOK, ClaimsOK, AllFilled, Trail, Told, Blank
<1>1. p \in Users
  BY <1>0 DEF Filled
<1>2. CASE Goto(c, "done")
  BY <1>0, <1>2, EndsTrail
<1>3. CASE ~hasEmail[p] /\ Become(c, k)
  <2>1. pointer[p] \in Subs \cup {None} /\ (TotalHints(p) > 0) \in BOOLEAN
    BY <1>1 DEF IInv, RowsOK
  <2>2. /\ k \in ClaimRecord /\ k.pc = "recipient" /\ k.sub = pointer[p]
        /\ k.prev = p /\ k.to = claim[c].to
    BY <1>0, <2>1 DEF ClaimRecord, Labels
  <2>3. k.sub # None => sub[k.sub].status # "none"
    BY <1>1, <2>2 DEF IInv, Seen
  <2>4. Become(c, k)
    BY <1>3
  <2> HIDE DEF k
  <2>5. p \notin Permanent
    BY <1>3 DEF Trail, Emails
  <2>6. OnTrail(k, claim, pointer)
    <3>1. ASSUME k.sub # None, NEW v \in Permanent, pointer[v] = k.sub PROVE FALSE
      <4>1. v \in Users /\ pointer[v] # None /\ pointer[v] = pointer[p]
        BY <2>2, <3>1, ClaimAssumption
      <4>2. v = p
        BY <1>1, <4>1 DEF IInv, OneOwner
      <4> QED
        BY <2>5, <4>2
    <3> QED
      BY <2>2, <2>5, <3>1 DEF OnTrail
  <2>7. Told(k, claim, pointer, sub)
    BY <2>2, <2>6 DEF Told, Blank, Spares
  <2> QED
    BY <1>0, <2>2, <2>3, <2>4, <2>7, GoesOn
<1> QED
  BY <1>2, <1>3 DEF ReadPrev

LEMMA ReadRecipientTrail ==
    ASSUME IInv, Trail, NEW c \in Claims, ReadRecipient(c) PROVE Trail'
<1>0. /\ claim[c].pc = "recipient" /\ claim[c] \in ClaimRecord /\ Filled(claim[c])
      /\ UNCHANGED <<hasEmail, pointer, sub>> /\ Told(claim[c], claim, pointer, sub)
  BY DEF ReadRecipient, At, IInv, RowsOK, ClaimsOK, AllFilled, Trail
<1>1. claim[c].prev \in Users /\ claim[c].to \in Users /\ claim[c].prev \notin Permanent
  BY <1>0 DEF Filled, Told, OnTrail
<1>2. CASE /\ claim[c].sub # None
           /\ Become(c, [claim[c] EXCEPT !.pc = "pays", !.theirs = pointer[claim[c].to]])
  <2> DEFINE k == [claim[c] EXCEPT !.pc = "pays", !.theirs = pointer[claim[c].to]]
  <2>1. pointer[claim[c].to] \in Subs \cup {None}
    BY <1>1 DEF IInv, RowsOK
  <2>2. /\ k \in ClaimRecord /\ k.pc = "pays" /\ k.sub = claim[c].sub
        /\ k.prev = claim[c].prev /\ k.to = claim[c].to /\ k.theirs = pointer[claim[c].to]
    BY <1>0, <2>1 DEF ClaimRecord, Labels
  <2>3. k.sub # None => sub[k.sub].status # "none"
    BY <2>2 DEF IInv, Seen
  <2>4. Become(c, k)
    BY <1>2
  <2> HIDE DEF k
  <2>5. Told(k, claim, pointer, sub)
    BY <1>0, <2>2 DEF Told, Blank, OnTrail, Spares, Kept
  <2> QED
    BY <1>0, <2>2, <2>3, <2>4, <2>5, GoesOn
<1>3. CASE /\ claim[c].sub = None
           /\ Become(c, [claim[c] EXCEPT !.pc = "lockFirst", !.from = claim[c].prev])
  <2> DEFINE k == [claim[c] EXCEPT !.pc = "lockFirst", !.from = claim[c].prev]
  <2>1. /\ k \in ClaimRecord /\ k.pc = "lockFirst" /\ k.sub = None
        /\ k.prev = claim[c].prev /\ k.to = claim[c].to /\ k.from = claim[c].prev
    BY <1>0, <1>1, <1>3 DEF ClaimRecord, Labels
  <2>2. Become(c, k)
    BY <1>3
  <2> HIDE DEF k
  <2>3. Told(k, claim, pointer, sub)
    BY <1>1, <2>1 DEF Told, Blank, OnTrail, Spares
  <2> QED
    BY <1>0, <1>3, <2>1, <2>2, <2>3, GoesOn
<1>4. CASE Goto(c, "done")
  BY <1>0, <1>4, EndsTrail
<1> QED
  BY <1>2, <1>3, <1>4 DEF ReadRecipient

LEMMA CheckRecipientTrail ==
    ASSUME IInv, Trail, NEW c \in Claims, CheckRecipient(c) PROVE Trail'
<1>0. /\ claim[c].pc = "pays" /\ claim[c].to \in Users /\ UNCHANGED <<hasEmail, pointer, sub>>
      /\ Told(claim[c], claim, pointer, sub)
  BY DEF CheckRecipient, At, IInv, AllFilled, Filled, Trail
<1>1. CASE Goto(c, "done")
  BY <1>0, <1>1, EndsTrail
<1>2. CASE ~Live(claim[c].theirs) /\ Goto(c, "owner")
  <2>1. ~Kept(claim[c].to, claim, pointer, sub)
    BY <1>0, <1>2, ClaimAssumption DEF Told, Spares, Kept, NeverEnded, Live
  <2>2. ASSUME NEW k \in ClaimRecord, k.pc = "owner", k.prev = claim[c].prev,
               k.to = claim[c].to, k.sub = claim[c].sub
        PROVE  Told(k, claim, pointer, sub)
    BY <1>0, <2>1, <2>2 DEF Told, Blank, OnTrail, Spares
  <2> QED
    BY <1>0, <1>2, <2>2, MovesOn DEF Labels
<1> QED
  BY <1>1, <1>2 DEF CheckRecipient

LEMMA ReadOwnerTrail ==
    ASSUME IInv, Trail, NEW c \in Claims, ReadOwner(c) PROVE Trail'
<1>0. /\ claim[c].pc = "owner" /\ claim[c] \in ClaimRecord /\ claim[c].to \in Users
      /\ claim[c].sub \in Subs /\ claim[c].sub # None /\ UNCHANGED <<hasEmail, pointer, sub>>
      /\ Told(claim[c], claim, pointer, sub)
  BY ClaimAssumption DEF ReadOwner, At, IInv, RowsOK, ClaimsOK, AllFilled, Filled, Trail
<1>1. ~Kept(claim[c].to, claim, pointer, sub) /\ claim[c].prev \notin Permanent
  BY <1>0 DEF Told, Spares, OnTrail
<1>2. CASE Goto(c, "relinkTo")
  <2>1. ASSUME NEW k \in ClaimRecord, k.pc = "relinkTo", k.prev = claim[c].prev,
               k.to = claim[c].to
        PROVE  Told(k, claim, pointer, sub)
    BY <1>1, <2>1 DEF Told, Blank, OnTrail, Spares
  <2> QED
    BY <1>0, <1>2, <2>1, MovesOn DEF Labels
<1>3. ASSUME NEW u \in Owner(claim[c].sub),
             Become(c, [claim[c] EXCEPT !.from = u,
                          !.pc = IF u = claim[c].to THEN "relinkFrom" ELSE "lockFirst"])
      PROVE  Trail'
  <2> DEFINE k == [claim[c] EXCEPT !.from = u,
                     !.pc = IF u = claim[c].to THEN "relinkFrom" ELSE "lockFirst"]
  <2>1. u \in Users /\ pointer[u] = claim[c].sub
    BY DEF Owner
  <2>2. /\ k \in ClaimRecord /\ k.from = u /\ k.pc \in {"relinkFrom", "lockFirst"}
        /\ k.prev = claim[c].prev /\ k.to = claim[c].to /\ k.sub = claim[c].sub
    BY <1>0, <2>1 DEF ClaimRecord, Labels
  <2>3. k.sub # None => sub[k.sub].status # "none"
    BY <2>2 DEF IInv, Seen
  <2>4. Become(c, k)
    BY <1>3
  <2> HIDE DEF k
  <2>5. u \in Permanent => TakenOn(claim, u, claim[c].sub)
    BY <1>0, <2>1 DEF Told, OnTrail
  <2>6. Told(k, claim, pointer, sub)
    BY <1>0, <1>1, <2>2, <2>5 DEF Told, Blank, OnTrail, Spares
  <2> QED
    BY <1>0, <2>2, <2>3, <2>4, <2>6, GoesOn
<1> QED
  BY <1>2, <1>3 DEF ReadOwner

LEMMA LockTrail ==
    ASSUME IInv, Trail, NEW c \in Claims, LockFirst(c) \/ RelinkFrom(c) \/ Transfer(c)
    PROVE  Trail'
<1>0. /\ Told(claim[c], claim, pointer, sub) /\ UNCHANGED <<hasEmail, pointer, sub>>
      /\ Filled(claim[c])
  BY DEF LockFirst, RelinkFrom, Transfer, Trail, IInv, AllFilled
<1>1. PICK label \in Labels :
        /\ Goto(c, label)
        /\ \/ claim[c].pc = "lockFirst" /\ label = "lockSecond"
           \/ claim[c].pc = "relinkFrom" /\ label = "relinkTo"
           \/ claim[c].pc = "lockSecond" /\ label = "done"
           \/ claim[c].pc = "lockSecond" /\ label = "relinkFrom" /\ claim[c].sub # None
  BY DEF LockFirst, RelinkFrom, Transfer, At, Labels
<1>2. ASSUME NEW k \in ClaimRecord, k.pc = label, k.prev = claim[c].prev, k.to = claim[c].to,
             k.sub = claim[c].sub, k.from = claim[c].from
      PROVE  Told(k, claim, pointer, sub)
  <2>1. OnTrail(k, claim, pointer)
    BY <1>0, <1>1, <1>2 DEF Told, OnTrail
  <2>2. Spares(k, claim, pointer, sub)
    BY <1>0, <1>1, <1>2 DEF Told, Spares
  <2> QED
    BY <1>1, <1>2, <2>1, <2>2 DEF Told, Blank
<1> QED
  BY <1>0, <1>1, <1>2, MovesOn

\* The recipient now points at the subscription its claim has taken on for it.
LEMMA RelinkTrail ==
    ASSUME IInv, Trail, NEW c \in Claims, RelinkTo(c) PROVE Trail'
<1>0. /\ Goto(c, "done") /\ UNCHANGED <<hasEmail, sub>> /\ RowsOK
      /\ claim[c].pc = "relinkTo" /\ pointer' \in {pointer, Repointed(c)}
  BY DEF RelinkTo, At, IInv
<1> DEFINE k == [claim[c] EXCEPT !.pc = "done"]
<1>1. /\ k \in ClaimRecord /\ Become(c, k) /\ k.pc = "done"
      /\ k.to = claim[c].to /\ k.sub = claim[c].sub
  BY <1>0, GotoRecord DEF Labels
<1> HIDE DEF k
<1>2. claim'[c] = k /\ \A d \in Claims : d # c => claim'[d] = claim[d]
  BY <1>0, <1>1, RecordEdit
<1>3. \A u \in Users, s \in Subs : TakenOn(claim, u, s) => TakenOn(claim', u, s)
  BY <1>1, <1>2 DEF TakenOn
<1>4. \A u \in Users : \/ pointer'[u] \in {pointer[u], None}
                       \/ TakenOn(claim', u, pointer'[u])
  BY <1>0, <1>1, <1>2 DEF Repointed, TakenOn
<1>5. Gentle
  BY <1>0, <1>3, <1>4 DEF Gentle
<1>6. Told(k, claim', pointer', sub')
  BY <1>1 DEF Told, Blank, OnTrail, Spares
<1> QED
  BY <1>0, <1>2, <1>5, <1>6, TrailKept

\* Steps of the rest of the system.
LEMMA BesideTrail ==
    ASSUME IInv, Trail,
           \/ \E u \in Users : Link(u) \/ Spend(u) \/ \E s \in Subs : Subscribe(u, s)
           \/ \E s \in Subs : Activate(s) \/ GrantFirstCycle(s) \/ EndSubscription(s)
    PROVE  Trail'
<1>1. claim' = claim /\ \A u \in Permanent : hasEmail[u] => hasEmail'[u]
  BY ClaimAssumption DEF Link, Spend, Subscribe, Activate, GrantFirstCycle, EndSubscription, IInv, RowsOK
<1>2. \A u \in Users : pointer'[u] \in {pointer[u], None} \/ sub[pointer'[u]].status = "none"
  BY DEF Link, Spend, Subscribe, Activate, GrantFirstCycle, EndSubscription, IInv, RowsOK
<1>3. \A s \in Subs : Past(sub[s]) =>
         Past(sub'[s]) /\ (NeverEnded(sub'[s]) => NeverEnded(sub[s]))
  <2> SUFFICES ASSUME NEW s \in Subs, Past(sub[s]), sub'[s] # sub[s]
               PROVE  Past(sub'[s]) /\ (NeverEnded(sub'[s]) => NeverEnded(sub[s]))
    OBVIOUS
  <2>1. \A x \in Subs : sub[x] \in SubRecord
    BY DEF IInv, RowsOK, SubsOK
  <2>2. sub[s].ended \in Nat
    BY <2>1 DEF SubRecord
  <2>3. CASE Activate(s)
    <3>1. sub'[s].status = "active" /\ sub'[s].ended = sub[s].ended
      BY <2>1, <2>3 DEF Activate, SubRecord, IInv, RowsOK, SubsOK
    <3>2. sub[s].ended > 0
      BY <2>3 DEF Activate, Past
    <3> QED
      BY <2>2, <3>1, <3>2 DEF Past, NeverEnded
  <2>4. CASE GrantFirstCycle(s)
    BY <2>1, <2>4 DEF GrantFirstCycle, SubRecord, IInv, RowsOK, SubsOK, Past, NeverEnded
  <2>5. CASE EndSubscription(s)
    <3>1. sub'[s].status = "canceled" /\ sub'[s].ended = sub[s].ended + 1
      BY <2>1, <2>5 DEF EndSubscription, SubRecord, IInv, RowsOK, SubsOK
    <3> QED
      BY <2>2, <3>1 DEF Past, NeverEnded
  <2>6. CASE \E u \in Users : Subscribe(u, s)
    BY <2>6 DEF Subscribe, Past
  <2> QED
    BY <2>3, <2>4, <2>5, <2>6
       DEF Link, Spend, Subscribe, Activate, GrantFirstCycle, EndSubscription, IInv, RowsOK, SubsOK
<1>4. Gentle
  BY <1>1, <1>2, <1>3 DEF Gentle
<1> QED
  BY <1>1, <1>4, TrailKept

LEMMA TrailStep ==
    ASSUME IInv, Trail, [Next]_vars PROVE Trail'
<1>1. CASE UNCHANGED vars
  <2>1. Gentle
    BY <1>1 DEF vars, Gentle
  <2> QED
    BY <1>1, <2>1, TrailKept DEF vars
<1>2. ASSUME NEW c \in Claims, Step(c) \/ Crash(c) PROVE Trail'
  <2>1. CASE Crash(c) \/ DeadlockAbort(c)
    BY <2>1, EndsTrail DEF Crash, DeadlockAbort
  <2>2. CASE Step(c) /\ ~DeadlockAbort(c)
    BY <2>2, ReadPrevTrail, ReadRecipientTrail, CheckRecipientTrail, ReadOwnerTrail, LockTrail,
       RelinkTrail DEF Step
  <2> QED
    BY <1>2, <2>1, <2>2
<1> QED
  BY <1>1, <1>2, ArriveTrail, BesideTrail DEF Next
LEMMA TrailsKeep == IInv /\ Trail /\ [Next]_vars => IInv' /\ Trail'
  BY ClaimsKeep, TrailStep

\* A claim takes hints from an account that was permanent all along only if
\* another claim has brought that account the subscription this one is after.
THEOREM DrainsSafe == Spec => DrainedOnlyInChain
<1>1. ASSUME IInv, Trail, NEW c \in Claims, Drains(c), claim[c].from \in Permanent
      PROVE  /\ claim[c].from \notin {claim[c].prev, claim[c].to}
             /\ Brought(claim[c].from, claim[c].sub)
  <2>1. claim[c].pc = "lockSecond" /\ Told(claim[c], claim, pointer, sub) /\ Filled(claim[c])
    BY <1>1 DEF Drains, At, Trail, IInv, AllFilled
  <2> QED
    BY <1>1, <2>1 DEF Told, OnTrail, Filled, TakenOn, Brought
<1>2. IInv /\ Trail /\ [Next]_vars =>
        [\A c \in Claims : Drains(c) /\ claim[c].from \in Permanent
           => /\ claim[c].from \notin {claim[c].prev, claim[c].to}
              /\ Brought(claim[c].from, claim[c].sub)]_vars
  BY <1>1
<1> QED
  BY ClaimInit, TrailInit, TrailsKeep, <1>2, PTL DEF Spec, DrainedOnlyInChain

\* A claim never takes the plan a user has been paying for all along: live since
\* before the claims, never ended, and never brought back by a claim.
THEOREM PlansKept == Spec => PaidAllAlongKept
<1>1. ASSUME IInv, Trail, [Next]_vars, NEW u \in Users, claim' # claim, PaysAllAlong(u)
      PROVE  pointer'[u] \in {pointer[u], None}
  <2>1. Kept(u, claim, pointer, sub)
    BY <1>1 DEF PaysAllAlong, Kept, NeverEnded, Live, TakenOn, Brought
  <2>2. CASE \E c \in Claims : RelinkTo(c)
    <3>1. PICK c \in Claims : RelinkTo(c)
      BY <2>2
    <3>2. /\ claim[c].pc = "relinkTo" /\ claim[c].to \in Users
          /\ Told(claim[c], claim, pointer, sub)
      BY <1>1, <3>1 DEF RelinkTo, At, Trail, IInv, AllFilled, Filled
    <3>3. claim[c].to # u
      BY <2>1, <3>2 DEF Told, Spares
    <3> QED
      BY <3>1, <3>3 DEF RelinkTo, Repointed
  <2>3. CASE ~ \E c \in Claims : RelinkTo(c)
    <3>1. pointer' = pointer
      <4>1. CASE UNCHANGED vars
        BY <4>1 DEF vars
      <4>2. CASE \E c \in Claims : (\E p, t \in Users : Arrive(c, p, t)) \/ Step(c) \/ Crash(c)
        BY <2>3, <4>2 DEF Arrive, Step, Crash, ReadPrev, ReadRecipient, CheckRecipient,
           ReadOwner, LockFirst, Transfer, RelinkFrom, DeadlockAbort
      <4>3. CASE claim' = claim
        BY <1>1, <4>3
      <4> QED
        BY <1>1, <4>1, <4>2, <4>3 DEF Next, Link, Spend, Subscribe, Activate, GrantFirstCycle,
           EndSubscription
    <3> QED
      BY <3>1
  <2> QED
    BY <2>2, <2>3
<1>2. IInv /\ Trail /\ [Next]_vars =>
        [\A u \in Users :
           claim' # claim /\ PaysAllAlong(u) => pointer'[u] \in {pointer[u], None}]_vars
  BY <1>1
<1> QED
  BY ClaimInit, TrailInit, TrailsKeep, <1>2, PTL DEF Spec, PaidAllAlongKept
=============================================================================
