---------------------------- MODULE SignupProofs ----------------------------
(***************************************************************************)
(* What holds of the login calls for any number of them, of users, emails  *)
(* and devices: the rows stay well-formed, a row inserted with its email   *)
(* is announced at most once, without crashes no registration goes         *)
(* unreported, and a device collects no more grants than calls can be in   *)
(* flight.                                                                 *)
(***************************************************************************)
EXTENDS Signup, FiniteSetTheorems, TLAPS

\* Of announcing: a call reports a uid only when its row is there, and a row that
\* was inserted with an email by one call only, the one that inserted it, which
\* has not done so yet.  The others read that email, so they never will.
Refreshing(c) == At(c, "refresh") \/ At(c, "reread") \/ At(c, "announce")

Absent == \A u \in Users : ~user[u].exists => user[u] = NoUser /\ announced[u] = 0

Present == \A c \in Calls : Refreshing(c) => user[call[c].uid].exists

EmailKept == \A u \in Users : user[u].born # None => user[u].email # None

SeenIsKept ==
    \A c \in Calls : At(c, "refresh") =>
        /\ user[call[c].uid].born # None => call[c].seen # None
        /\ call[c].seen # None => user[call[c].uid].email # None

SoleAnnouncer ==
    \A c \in Calls : At(c, "announce") /\ user[call[c].uid].born # None =>
        /\ announced[call[c].uid] = 0
        /\ \A d \in Calls : At(d, "announce") /\ call[d].uid = call[c].uid => d = c

AnnouncedInv == Absent /\ Present /\ EmailKept /\ SeenIsKept /\ SoleAnnouncer /\ AnnouncedOnce

\* ... and RegisteredIsAnnounced, from the same facts.
IInv == SignupTypeOK /\ AnnouncedInv /\ RegisteredIsAnnounced

LEMMA InitInv == Init => IInv
  BY SignupAssumption
     DEF Init, IInv, SignupTypeOK, AnnouncedInv, Absent, Present, EmailKept, SeenIsKept,
         SoleAnnouncer, AnnouncedOnce, RegisteredIsAnnounced, Refreshing, At, NoUser, IdleCall,
         UserRecord, CallRecord, Labels, Maybe

-----------------------------------------------------------------------------
\* A call record that is replaced by a well-formed one leaves all well-formed.
CallsOK(f) == f \in [Calls -> CallRecord] /\ \A x \in Calls : f[x].pc # "idle" => f[x].uid \in Users

LEMMA CallEdit ==
    ASSUME CallsOK(call), NEW c \in Calls, NEW k \in CallRecord,
           k.pc # "idle" => k.uid \in Users,
           call' = [call EXCEPT ![c] = k]
    PROVE  CallsOK(call')
  BY DEF CallsOK

LEMMA CallEnd ==
    ASSUME CallsOK(call), NEW c \in Calls, End(c) PROVE CallsOK(call')
<1>1. IdleCall \in CallRecord /\ IdleCall.pc = "idle"
  BY SignupAssumption DEF IdleCall, CallRecord, Labels, Maybe
<1> QED
  BY <1>1, CallEdit DEF End

LEMMA CallGoto ==
    ASSUME CallsOK(call), NEW c \in Calls, ~At(c, "idle"), NEW label \in Labels \ {"idle"},
           Goto(c, label)
    PROVE  CallsOK(call')
<1> DEFINE k == [call[c] EXCEPT !.pc = label]
<1>1. call[c] \in CallRecord /\ call[c].uid \in Users
  BY DEF CallsOK, At
<1>2. k \in CallRecord /\ k.uid \in Users
  BY <1>1 DEF CallRecord
<1>3. call' = [call EXCEPT ![c] = k]
  BY DEF Goto
<1> HIDE DEF k
<1> QED
  BY <1>2, <1>3, CallEdit

\* Every action keeps the rows and the call records well-formed.
UsersOK(f) == f \in [Users -> UserRecord]

LEMMA TypeStep ==
    ASSUME SignupTypeOK, [Next]_vars PROVE SignupTypeOK'
<1>0. /\ UsersOK(user) /\ CallsOK(call) /\ announced \in [Users -> Nat]
      /\ crashes \in 0..MaxCrashes
  BY DEF SignupTypeOK, UsersOK, CallsOK, At
<1>a. SUFFICES /\ UsersOK(user') /\ CallsOK(call') /\ announced' \in [Users -> Nat]
               /\ crashes' \in 0..MaxCrashes
  BY DEF SignupTypeOK, UsersOK, CallsOK, At
<1>1. CASE UNCHANGED vars
  BY <1>0, <1>1 DEF vars, UsersOK, CallsOK
<1>2. ASSUME NEW c \in Calls, NEW u \in Users, NEW e \in Maybe(Emails), NEW d \in Maybe(Devices),
             Login(c, u, e, d)
      PROVE  CallsOK(call') /\ UNCHANGED <<user, announced, crashes>>
  <2> DEFINE k == [IdleCall EXCEPT !.pc = "read", !.uid = u, !.email = e, !.device = d]
  <2>1. k \in CallRecord /\ k.uid \in Users
    BY DEF IdleCall, CallRecord, Labels, Maybe
  <2>2. call' = [call EXCEPT ![c] = k] /\ UNCHANGED <<user, announced, crashes>>
    BY <1>2 DEF Login
  <2> HIDE DEF k
  <2> QED
    BY <1>0, <2>1, <2>2, CallEdit
<1>3. ASSUME NEW c \in Calls, ReadUser(c)
      PROVE  CallsOK(call') /\ UNCHANGED <<user, announced, crashes>>
  <2>1. CASE user[call[c].uid].exists
    <3> DEFINE k == [call[c] EXCEPT !.pc = "refresh", !.seen = user[call[c].uid].email]
    <3>1. call[c] \in CallRecord /\ call[c].uid \in Users
      BY <1>0, <1>3 DEF CallsOK, ReadUser, At
    <3>2. user[call[c].uid].email \in Maybe(Emails)
      BY <1>0, <3>1 DEF UsersOK, UserRecord
    <3>3. k \in CallRecord /\ k.uid \in Users
      BY <3>1, <3>2 DEF CallRecord, Labels
    <3>4. call' = [call EXCEPT ![c] = k]
      BY <1>3, <2>1 DEF ReadUser
    <3> HIDE DEF k
    <3> QED
      BY <1>0, <1>3, <3>3, <3>4, CallEdit DEF ReadUser
  <2>2. CASE ~user[call[c].uid].exists
    BY <1>0, <1>3, <2>2, CallGoto DEF ReadUser, At, Labels
  <2> QED
    BY <2>1, <2>2
<1>4. ASSUME NEW c \in Calls, DecideGrant(c)
      PROVE  CallsOK(call') /\ UNCHANGED <<user, announced, crashes>>
  <2> DEFINE k == [call[c] EXCEPT !.pc = "insert",
                        !.grant = IF DeviceHasGrant(call[c].device) THEN 0 ELSE FreeGrant]
  <2>1. call[c] \in CallRecord /\ call[c].uid \in Users
    BY <1>0, <1>4 DEF CallsOK, DecideGrant, At
  <2>2. k \in CallRecord /\ k.uid \in Users
    BY <2>1 DEF CallRecord, Labels
  <2>3. call' = [call EXCEPT ![c] = k]
    BY <1>4 DEF DecideGrant
  <2> HIDE DEF k
  <2> QED
    BY <1>0, <1>4, <2>2, <2>3, CallEdit DEF DecideGrant
<1>5. ASSUME NEW c \in Calls, Insert(c)
      PROVE  UsersOK(user') /\ CallsOK(call') /\ UNCHANGED <<announced, crashes>>
  <2>1. call[c] \in CallRecord /\ call[c].uid \in Users /\ ~At(c, "idle")
    BY <1>0, <1>5 DEF CallsOK, Insert, At
  <2>2. CallsOK(call')
    BY <1>0, <1>5, <2>1, CallGoto, CallEnd DEF Insert, Labels
  <2>3. NewRow(c) \in UserRecord
    BY <2>1 DEF NewRow, CallRecord, UserRecord
  <2>4. UsersOK(user')
    BY <1>0, <1>5, <2>1, <2>3 DEF Insert, UsersOK
  <2> QED
    BY <1>5, <2>2, <2>4 DEF Insert
<1>6. ASSUME NEW c \in Calls, Reread(c)
      PROVE  CallsOK(call') /\ UNCHANGED <<user, announced, crashes>>
  <2> DEFINE k == [call[c] EXCEPT !.pc = "refresh", !.seen = user[call[c].uid].email]
  <2>1. call[c] \in CallRecord /\ call[c].uid \in Users
    BY <1>0, <1>6 DEF CallsOK, Reread, At
  <2>2. user[call[c].uid].email \in Maybe(Emails)
    BY <1>0, <2>1 DEF UsersOK, UserRecord
  <2>3. k \in CallRecord /\ k.uid \in Users
    BY <2>1, <2>2 DEF CallRecord, Labels
  <2>4. call' = [call EXCEPT ![c] = k]
    BY <1>6 DEF Reread
  <2> HIDE DEF k
  <2> QED
    BY <1>0, <1>6, <2>3, <2>4, CallEdit DEF Reread
<1>7. ASSUME NEW c \in Calls, Refresh(c)
      PROVE  UsersOK(user') /\ CallsOK(call') /\ UNCHANGED <<announced, crashes>>
  <2>1. call[c] \in CallRecord /\ call[c].uid \in Users /\ ~At(c, "idle")
    BY <1>0, <1>7 DEF CallsOK, Refresh, At
  <2>2. CallsOK(call')
    BY <1>0, <1>7, <2>1, CallGoto, CallEnd DEF Refresh, Labels
  <2> DEFINE u == call[c].uid
             r == [user[u] EXCEPT !.email = call[c].email]
  <2>3. r \in UserRecord
    BY <1>0, <2>1 DEF CallRecord, UserRecord, UsersOK
  <2>4. user' = user \/ user' = [user EXCEPT ![u] = r]
    BY <1>7 DEF Refresh
  <2> HIDE DEF r
  <2>5. UsersOK(user')
    BY <1>0, <2>1, <2>3, <2>4 DEF UsersOK
  <2> QED
    BY <1>7, <2>2, <2>5 DEF Refresh
<1>8. ASSUME NEW c \in Calls, Announce(c)
      PROVE  CallsOK(call') /\ announced' \in [Users -> Nat] /\ UNCHANGED <<user, crashes>>
  <2>1. call[c].uid \in Users
    BY <1>0, <1>8 DEF CallsOK, Announce, At
  <2> QED
    BY <1>0, <1>8, <2>1, CallEnd DEF Announce
<1>9. ASSUME NEW c \in Calls, Crash(c)
      PROVE  CallsOK(call') /\ crashes' \in 0..MaxCrashes /\ UNCHANGED <<user, announced>>
  BY <1>0, <1>9, CallEnd, SignupAssumption DEF Crash
<1> QED
  BY <1>0, <1>1, <1>2, <1>3, <1>4, <1>5, <1>6, <1>7, <1>8, <1>9 DEF Next, Step, UsersOK, vars

-----------------------------------------------------------------------------
\* A call that does not come to refresh, reread or announce, and a table that
\* stays as it is, disturb nothing.
LEMMA QuietStep ==
    ASSUME SignupTypeOK, AnnouncedInv, NEW c \in Calls, NEW k,
           k.pc \notin {"refresh", "reread", "announce"},
           call' = [call EXCEPT ![c] = k], UNCHANGED <<user, announced>>
    PROVE  AnnouncedInv'
<1>1. \A x \in Calls : x # c => call'[x] = call[x]
  BY DEF SignupTypeOK
<1>2. call'[c] = k
  BY DEF SignupTypeOK
<1> QED
  BY <1>1, <1>2
     DEF AnnouncedInv, Absent, Present, EmailKept, SeenIsKept, SoleAnnouncer, AnnouncedOnce,
         Refreshing, At

\* A call that goes on to refresh with the email the row has now.
LEMMA ReadStep ==
    ASSUME SignupTypeOK, AnnouncedInv, NEW c \in Calls, NEW k,
           k.pc = "refresh", k.uid \in Users, user[k.uid].exists, k.seen = user[k.uid].email,
           call' = [call EXCEPT ![c] = k], UNCHANGED <<user, announced>>
    PROVE  AnnouncedInv'
<1>1. \A x \in Calls : x # c => call'[x] = call[x]
  BY DEF SignupTypeOK
<1>2. call'[c] = k
  BY DEF SignupTypeOK
<1> QED
  BY <1>1, <1>2
     DEF AnnouncedInv, Absent, Present, EmailKept, SeenIsKept, SoleAnnouncer, AnnouncedOnce,
         Refreshing, At

LEMMA AnnouncedStep ==
    ASSUME SignupTypeOK, AnnouncedInv, [Next]_vars PROVE AnnouncedInv'
<1>0. call \in [Calls -> CallRecord] /\ user \in [Users -> UserRecord]
      /\ announced \in [Users -> Nat] /\ \A c \in Calls : ~At(c, "idle") => call[c].uid \in Users
  BY DEF SignupTypeOK
<1>1. CASE UNCHANGED vars
  BY <1>1 DEF vars, AnnouncedInv, Absent, Present, EmailKept, SeenIsKept, SoleAnnouncer,
              AnnouncedOnce, Refreshing, At
<1>2. ASSUME NEW c \in Calls, NEW u \in Users, NEW e \in Maybe(Emails), NEW d \in Maybe(Devices),
             Login(c, u, e, d)
      PROVE  AnnouncedInv'
  <2> DEFINE k == [IdleCall EXCEPT !.pc = "read", !.uid = u, !.email = e, !.device = d]
  <2>1. k.pc = "read"
    BY DEF IdleCall
  <2>2. call' = [call EXCEPT ![c] = k] /\ UNCHANGED <<user, announced>>
    BY <1>2 DEF Login
  <2> HIDE DEF k
  <2> QED
    BY <2>1, <2>2, QuietStep
<1>3. ASSUME NEW c \in Calls, ReadUser(c) PROVE AnnouncedInv'
  <2>1. CASE user[call[c].uid].exists
    <3> DEFINE k == [call[c] EXCEPT !.pc = "refresh", !.seen = user[call[c].uid].email]
    <3>1. /\ k.pc = "refresh" /\ k.uid \in Users /\ user[k.uid].exists
          /\ k.seen = user[k.uid].email
      BY <1>0, <1>3, <2>1 DEF ReadUser, At, CallRecord
    <3>2. call' = [call EXCEPT ![c] = k] /\ UNCHANGED <<user, announced>>
      BY <1>3, <2>1 DEF ReadUser
    <3> HIDE DEF k
    <3> QED
      BY <3>1, <3>2, ReadStep
  <2>2. CASE ~user[call[c].uid].exists
    <3> DEFINE k == [call[c] EXCEPT !.pc = "grant"]
    <3>1. k.pc = "grant"
      BY <1>0 DEF CallRecord
    <3>2. call' = [call EXCEPT ![c] = k] /\ UNCHANGED <<user, announced>>
      BY <1>3, <2>2 DEF ReadUser, Goto
    <3> HIDE DEF k
    <3> QED
      BY <3>1, <3>2, QuietStep
  <2> QED
    BY <2>1, <2>2
<1>4. ASSUME NEW c \in Calls, DecideGrant(c) PROVE AnnouncedInv'
  <2> DEFINE k == [call[c] EXCEPT !.pc = "insert",
                        !.grant = IF DeviceHasGrant(call[c].device) THEN 0 ELSE FreeGrant]
  <2>1. k.pc = "insert"
    BY <1>0 DEF CallRecord
  <2>2. call' = [call EXCEPT ![c] = k] /\ UNCHANGED <<user, announced>>
    BY <1>4 DEF DecideGrant
  <2> HIDE DEF k
  <2> QED
    BY <2>1, <2>2, QuietStep
<1>5. ASSUME NEW c \in Calls, End(c), UNCHANGED <<user, announced>> PROVE AnnouncedInv'
  BY <1>5, QuietStep DEF End, IdleCall
<1>6. ASSUME NEW c \in Calls, Insert(c) PROVE AnnouncedInv'
  <2> DEFINE u == call[c].uid
  <2>0. u \in Users /\ announced' = announced /\ At(c, "insert")
    BY <1>0, <1>6 DEF Insert, At
  <2>1. CASE user[u].exists /\ Goto(c, "reread") /\ UNCHANGED user
    <3>1. \A x \in Calls : x # c => call'[x] = call[x]
      BY <1>0, <2>1 DEF Goto
    <3>2. call'[c].pc = "reread" /\ call'[c].uid = u
      BY <1>0, <2>1 DEF Goto, CallRecord
    <3> QED
      BY <2>0, <2>1, <3>1, <3>2
         DEF AnnouncedInv, Absent, Present, EmailKept, SeenIsKept, SoleAnnouncer, AnnouncedOnce,
             Refreshing, At
  <2>2. CASE End(c) /\ UNCHANGED user
    BY <1>5, <2>0, <2>2
  <2>3. CASE /\ ~user[u].exists
             /\ user' = [user EXCEPT ![u] = NewRow(c)]
             /\ IF call[c].email # None THEN Goto(c, "announce") ELSE End(c)
    <3>1. \A x \in Calls : x # c => call'[x] = call[x]
      BY <1>0, <2>3 DEF Goto, End
    <3>2. \/ call'[c].pc = "announce" /\ call'[c].uid = u
          \/ call'[c].pc = "idle"
      BY <1>0, <2>3 DEF Goto, End, CallRecord, IdleCall
    <3>3. /\ \A v \in Users : v # u => user'[v] = user[v]
          /\ user'[u].exists /\ user'[u].email = user'[u].born
      BY <1>0, <2>0, <2>3 DEF NewRow
    <3>4. announced[u] = 0
      BY <2>0, <2>3 DEF AnnouncedInv, Absent
    <3>5. \A x \in Calls : Refreshing(x) => call[x].uid # u /\ call[x].uid \in Users
      BY <1>0, <2>3 DEF AnnouncedInv, Present, Refreshing, At
    <3>6. Absent' /\ EmailKept' /\ AnnouncedOnce'
      BY <2>0, <3>3, <3>4 DEF AnnouncedInv, Absent, EmailKept, AnnouncedOnce
    <3>7. Present' /\ SeenIsKept'
      BY <2>0, <3>1, <3>2, <3>3, <3>5
         DEF AnnouncedInv, Present, SeenIsKept, Refreshing, At
    <3>8. SoleAnnouncer'
      BY <2>0, <3>1, <3>2, <3>3, <3>4, <3>5
         DEF AnnouncedInv, SoleAnnouncer, Refreshing, At
    <3> QED
      BY <3>6, <3>7, <3>8 DEF AnnouncedInv
  <2> QED
    BY <1>6, <2>1, <2>2, <2>3 DEF Insert
<1>7. ASSUME NEW c \in Calls, Reread(c) PROVE AnnouncedInv'
  <2> DEFINE k == [call[c] EXCEPT !.pc = "refresh", !.seen = user[call[c].uid].email]
  <2>1. /\ k.pc = "refresh" /\ k.uid \in Users /\ user[k.uid].exists
        /\ k.seen = user[k.uid].email
    BY <1>0, <1>7 DEF Reread, At, CallRecord, AnnouncedInv, Present, Refreshing
  <2>2. call' = [call EXCEPT ![c] = k] /\ UNCHANGED <<user, announced>>
    BY <1>7 DEF Reread
  <2> HIDE DEF k
  <2> QED
    BY <2>1, <2>2, ReadStep
<1>8. ASSUME NEW c \in Calls, Refresh(c) PROVE AnnouncedInv'
  <2> DEFINE u == call[c].uid
  <2>0. u \in Users /\ announced' = announced /\ At(c, "refresh") /\ user[u].exists
    BY <1>0, <1>8 DEF Refresh, At, AnnouncedInv, Present, Refreshing
  <2>1. CASE End(c) /\ UNCHANGED user
    BY <1>5, <2>0, <2>1
  <2>2. CASE /\ call[c].email \notin {None, call[c].seen}
             /\ user' = [user EXCEPT ![u].email = call[c].email]
             /\ IF IsRegistration(c) THEN Goto(c, "announce") ELSE End(c)
    <3>1. \A x \in Calls : x # c => call'[x] = call[x]
      BY <1>0, <2>2 DEF Goto, End
    <3>2. \/ call'[c].pc = "announce" /\ call'[c].uid = u /\ call[c].seen = None
          \/ call'[c].pc = "idle"
      BY <1>0, <2>2 DEF Goto, End, CallRecord, IdleCall, IsRegistration
    <3>3. /\ \A v \in Users : v # u => user'[v] = user[v]
          /\ user'[u].exists /\ user'[u].born = user[u].born /\ user'[u].email # None
      BY <1>0, <2>0, <2>2 DEF UserRecord
    <3>4. call[c].seen = None => user[u].born = None
      BY <2>0 DEF AnnouncedInv, SeenIsKept
    <3>5. \A x \in Calls : Refreshing(x) => call[x].uid \in Users
      BY <1>0 DEF Refreshing, At
    <3>6. Absent' /\ EmailKept' /\ AnnouncedOnce'
      BY <2>0, <3>3 DEF AnnouncedInv, Absent, EmailKept, AnnouncedOnce
    <3>7. Present' /\ SeenIsKept'
      BY <2>0, <3>1, <3>2, <3>3, <3>5
         DEF AnnouncedInv, Present, SeenIsKept, Refreshing, At
    <3>8. SoleAnnouncer'
      BY <2>0, <3>1, <3>2, <3>3, <3>4, <3>5
         DEF AnnouncedInv, SoleAnnouncer, Refreshing, At
    <3> QED
      BY <3>6, <3>7, <3>8 DEF AnnouncedInv
  <2> QED
    BY <1>8, <2>1, <2>2 DEF Refresh
<1>9. ASSUME NEW c \in Calls, Announce(c) PROVE AnnouncedInv'
  <2> DEFINE u == call[c].uid
  <2>0. u \in Users /\ user' = user /\ At(c, "announce") /\ user[u].exists
    BY <1>0, <1>9 DEF Announce, At, AnnouncedInv, Present, Refreshing
  <2>1. (\A x \in Calls : x # c => call'[x] = call[x]) /\ call'[c].pc = "idle"
    BY <1>0, <1>9 DEF Announce, End, IdleCall
  <2>2. (\A v \in Users : v # u => announced'[v] = announced[v]) /\ announced'[u] = announced[u] + 1
    BY <1>0, <1>9, <2>0 DEF Announce
  <2>3. user[u].born # None =>
            announced[u] = 0 /\ \A x \in Calls : At(x, "announce") /\ call[x].uid = u => x = c
    BY <2>0 DEF AnnouncedInv, SoleAnnouncer
  <2>4. \A x \in Calls : Refreshing(x) => call[x].uid \in Users
    BY <1>0 DEF Refreshing, At
  <2>5. Absent' /\ EmailKept' /\ AnnouncedOnce'
    BY <2>0, <2>2, <2>3 DEF AnnouncedInv, Absent, EmailKept, AnnouncedOnce
  <2>6. Present' /\ SeenIsKept'
    BY <2>0, <2>1 DEF AnnouncedInv, Present, SeenIsKept, Refreshing, At
  <2>7. SoleAnnouncer'
    BY <2>0, <2>1, <2>2, <2>3, <2>4 DEF AnnouncedInv, SoleAnnouncer, Refreshing, At
  <2> QED
    BY <2>5, <2>6, <2>7 DEF AnnouncedInv
<1>10. ASSUME NEW c \in Calls, Crash(c) PROVE AnnouncedInv'
  BY <1>5, <1>10 DEF Crash
<1> QED
  BY <1>1, <1>2, <1>3, <1>4, <1>6, <1>7, <1>8, <1>9, <1>10 DEF Next, Step

-----------------------------------------------------------------------------
\* An account has an email only once the call that wrote it is about to announce
\* it or has done so; one that overwrites an email finds that settled already.
LEMMA RegisteredStep ==
    ASSUME SignupTypeOK, AnnouncedInv, RegisteredIsAnnounced, [Next]_vars
    PROVE  RegisteredIsAnnounced'
<1>0. /\ call \in [Calls -> CallRecord] /\ user \in [Users -> UserRecord]
      /\ announced \in [Users -> Nat] /\ crashes \in Nat
      /\ \A c \in Calls : ~At(c, "idle") => call[c].uid \in Users
  BY SignupAssumption DEF SignupTypeOK
<1>1. CASE UNCHANGED vars
  BY <1>1 DEF vars, RegisteredIsAnnounced, At
\* A call that is not announcing moves on, and the rows stay.
<1>2. ASSUME NEW c \in Calls, ~At(c, "announce"), \A x \in Calls : x # c => call'[x] = call[x],
             UNCHANGED <<user, announced, crashes>>
      PROVE  RegisteredIsAnnounced'
  BY <1>2 DEF RegisteredIsAnnounced, At
<1>3. ASSUME NEW c \in Calls, NEW u \in Users, NEW e \in Maybe(Emails), NEW d \in Maybe(Devices),
             Login(c, u, e, d)
      PROVE  RegisteredIsAnnounced'
  <2>1. ~At(c, "announce") /\ UNCHANGED <<user, announced, crashes>>
    BY <1>3 DEF Login, At
  <2>2. \A x \in Calls : x # c => call'[x] = call[x]
    BY <1>0, <1>3 DEF Login
  <2> QED
    BY <1>2, <2>1, <2>2
<1>9. ASSUME NEW c \in Calls, ReadUser(c) \/ DecideGrant(c) \/ Reread(c)
      PROVE  RegisteredIsAnnounced'
  <2>1. ~At(c, "announce") /\ UNCHANGED <<user, announced, crashes>>
    BY <1>9 DEF ReadUser, DecideGrant, Reread, At
  <2>2. \A x \in Calls : x # c => call'[x] = call[x]
    BY <1>0, <1>9 DEF ReadUser, DecideGrant, Reread, Goto
  <2> QED
    BY <1>2, <2>1, <2>2
\* A call that writes an email.
<1>4. ASSUME NEW c \in Calls, NEW u \in Users, ~At(c, "announce"),
             \A x \in Calls : x # c => call'[x] = call[x],
             \A v \in Users : v # u => user'[v] = user[v],
             UNCHANGED <<announced, crashes>>,
             \/ user'[u].email = None
             \/ call'[c].pc = "announce" /\ call'[c].uid = u
             \/ user[u].email # None
      PROVE  RegisteredIsAnnounced'
  BY <1>4 DEF RegisteredIsAnnounced, At
<1>5. ASSUME NEW c \in Calls, Insert(c) PROVE RegisteredIsAnnounced'
  <2> DEFINE u == call[c].uid
  <2>0. u \in Users /\ ~At(c, "announce") /\ UNCHANGED <<announced, crashes>>
    BY <1>0, <1>5 DEF Insert, At
  <2>1. \A x \in Calls : x # c => call'[x] = call[x]
    BY <1>0, <1>5 DEF Insert, Goto, End
  <2>2. CASE UNCHANGED user
    BY <1>2, <2>0, <2>1, <2>2
  <2>3. CASE /\ user' = [user EXCEPT ![u] = NewRow(c)]
             /\ IF call[c].email # None THEN Goto(c, "announce") ELSE End(c)
    <3>1. (\A v \in Users : v # u => user'[v] = user[v]) /\ user'[u].email = call[c].email
      BY <1>0, <2>0, <2>3 DEF NewRow
    <3>2. call[c].email # None => call'[c].pc = "announce" /\ call'[c].uid = u
      BY <1>0, <2>3 DEF Goto, CallRecord
    <3> QED
      BY <1>4, <2>0, <2>1, <3>1, <3>2
  <2> QED
    BY <1>5, <2>2, <2>3 DEF Insert
<1>6. ASSUME NEW c \in Calls, Refresh(c) PROVE RegisteredIsAnnounced'
  <2> DEFINE u == call[c].uid
  <2>0. u \in Users /\ ~At(c, "announce") /\ At(c, "refresh") /\ UNCHANGED <<announced, crashes>>
    BY <1>0, <1>6 DEF Refresh, At
  <2>1. \A x \in Calls : x # c => call'[x] = call[x]
    BY <1>0, <1>6 DEF Refresh, Goto, End
  <2>2. CASE UNCHANGED user
    BY <1>2, <2>0, <2>1, <2>2
  <2>3. CASE /\ call[c].email \notin {None, call[c].seen}
             /\ user' = [user EXCEPT ![u].email = call[c].email]
             /\ IF IsRegistration(c) THEN Goto(c, "announce") ELSE End(c)
    <3>1. \A v \in Users : v # u => user'[v] = user[v]
      BY <1>0, <2>3
    <3>2. call[c].seen = None => call'[c].pc = "announce" /\ call'[c].uid = u
      BY <1>0, <2>3 DEF Goto, CallRecord, IsRegistration
    <3>3. call[c].seen # None => user[u].email # None
      BY <2>0 DEF AnnouncedInv, SeenIsKept
    <3> QED
      BY <1>4, <2>0, <2>1, <3>1, <3>2, <3>3
  <2> QED
    BY <1>6, <2>2, <2>3 DEF Refresh
<1>7. ASSUME NEW c \in Calls, Announce(c) PROVE RegisteredIsAnnounced'
  <2> DEFINE u == call[c].uid
  <2>0. u \in Users /\ UNCHANGED <<user, crashes>>
    BY <1>0, <1>7 DEF Announce, At
  <2>1. \A x \in Calls : x # c => call'[x] = call[x]
    BY <1>0, <1>7 DEF Announce, End
  <2>2. (\A v \in Users : v # u => announced'[v] = announced[v]) /\ announced'[u] > 0
    BY <1>0, <1>7, <2>0 DEF Announce
  <2> QED
    BY <2>0, <2>1, <2>2 DEF RegisteredIsAnnounced, At
<1>8. ASSUME NEW c \in Calls, Crash(c) PROVE RegisteredIsAnnounced'
  BY <1>0, <1>8 DEF Crash, RegisteredIsAnnounced
<1> QED
  BY <1>1, <1>3, <1>5, <1>6, <1>7, <1>8, <1>9 DEF Next, Step

-----------------------------------------------------------------------------
\* Of the grants: the rows of a device that got hints, and the calls that are about
\* to insert one.  A call decides for a grant only while no row has the device, so
\* there are then no more of them than calls; an insert turns a call into a row.
Granting(d) == {c \in Calls : At(c, "insert") /\ call[c].device = d /\ call[c].grant > 0}

Within(H, G) == IsFiniteSet(H) /\ Cardinality(H) + Cardinality(G) <= Cardinality(Calls)

GrantsCounted == \A d \in Devices : Within(Holders(d), Granting(d))

\* Fewer of either, no row at all, or a call that became a row: still within.
LEMMA FewerWithin ==
    ASSUME NEW H, NEW G \in SUBSET Calls, Within(H, G), NEW I \in SUBSET H, NEW F \in SUBSET G
    PROVE  Within(I, F)
<1>1. IsFiniteSet(I) /\ Cardinality(I) <= Cardinality(H) /\ Cardinality(I) \in Nat
      /\ Cardinality(H) \in Nat
  BY FS_Subset, FS_CardinalityType DEF Within
<1>2. IsFiniteSet(G) /\ Cardinality(G) \in Nat /\ Cardinality(Calls) \in Nat
  BY FS_Subset, FS_CardinalityType, SignupAssumption
<1>3. Cardinality(F) <= Cardinality(G) /\ Cardinality(F) \in Nat
  BY <1>2, FS_Subset, FS_CardinalityType
<1> QED
  BY <1>1, <1>2, <1>3 DEF Within

LEMMA NoRowWithin == ASSUME NEW G \in SUBSET Calls PROVE Within({}, G)
<1>1. Cardinality(G) <= Cardinality(Calls) /\ Cardinality(G) \in Nat
  BY FS_Subset, FS_CardinalityType, SignupAssumption
<1>2. IsFiniteSet({}) /\ Cardinality({}) = 0
  BY FS_EmptySet
<1> QED
  BY <1>1, <1>2 DEF Within

LEMMA InsertWithin ==
    ASSUME NEW H, NEW G \in SUBSET Calls, Within(H, G), NEW u, NEW c \in G
    PROVE  Within(H \cup {u}, G \ {c})
<1>1. /\ IsFiniteSet(H) /\ IsFiniteSet(G) /\ Cardinality(Calls) \in Nat
      /\ Cardinality(H) \in Nat /\ Cardinality(G) \in Nat
  BY FS_Subset, FS_CardinalityType, SignupAssumption DEF Within
<1>2. /\ IsFiniteSet(H \cup {u})
      /\ Cardinality(H \cup {u}) <= Cardinality(H) + 1 /\ Cardinality(H \cup {u}) \in Nat
  <2>1. IsFiniteSet(H \cup {u})
        /\ (Cardinality(H \cup {u}) = Cardinality(H)
            \/ Cardinality(H \cup {u}) = Cardinality(H) + 1)
    BY <1>1, FS_AddElement
  <2> QED
    BY <1>1, <2>1
<1>3. Cardinality(G \ {c}) = Cardinality(G) - 1
  BY <1>1, FS_RemoveElement
<1> QED
  BY <1>1, <1>2, <1>3 DEF Within

\* A call that is not about to insert a granted row moves on, and no row gets a
\* device or hints.
LEMMA SameHolders ==
    ASSUME SignupTypeOK, GrantsCounted,
           \A x \in Calls : call'[x] = call[x]
                            \/ ~(call'[x].pc = "insert" /\ call'[x].grant > 0),
           \A v \in Users : user'[v].device = user[v].device /\ user'[v].free = user[v].free
    PROVE  GrantsCounted'
<1> SUFFICES ASSUME NEW d \in Devices PROVE Within(Holders(d)', Granting(d)')
  BY DEF GrantsCounted, Within
<1>1. Holders(d)' = Holders(d)
  BY DEF Holders
<1>2. Granting(d)' \in SUBSET Granting(d)
  BY DEF Granting, At
<1>3. Granting(d) \in SUBSET Calls
  BY DEF Granting
<1>4. Within(Holders(d), Granting(d))
  BY DEF GrantsCounted
<1> HIDE DEF Holders, Granting
<1> QED
  BY <1>1, <1>2, <1>3, <1>4, FewerWithin

LEMMA GrantsStep ==
    ASSUME SignupTypeOK, AnnouncedInv, GrantsCounted, [Next]_vars PROVE GrantsCounted'
<1>0. /\ call \in [Calls -> CallRecord] /\ user \in [Users -> UserRecord]
      /\ \A c \in Calls : ~At(c, "idle") => call[c].uid \in Users
  BY DEF SignupTypeOK
<1>1. CASE UNCHANGED vars
  BY <1>1, SameHolders DEF vars
\* A call that does not come to the insert, and rows that keep device and hints.
<1>2. ASSUME NEW c \in Calls, \A x \in Calls : x # c => call'[x] = call[x],
             call'[c].pc # "insert",
             \A v \in Users : user'[v].device = user[v].device /\ user'[v].free = user[v].free
      PROVE  GrantsCounted'
  BY <1>2, SameHolders
<1>3. ASSUME NEW c \in Calls, NEW u \in Users, NEW e \in Maybe(Emails), NEW d \in Maybe(Devices),
             Login(c, u, e, d)
      PROVE  GrantsCounted'
  <2> DEFINE k == [IdleCall EXCEPT !.pc = "read", !.uid = u, !.email = e, !.device = d]
  <2>1. k.pc # "insert"
    BY DEF IdleCall
  <2>2. call' = [call EXCEPT ![c] = k] /\ user' = user
    BY <1>3 DEF Login
  <2> HIDE DEF k
  <2>3. (\A x \in Calls : x # c => call'[x] = call[x]) /\ call'[c].pc # "insert"
    BY <1>0, <2>1, <2>2
  <2> QED
    BY <1>2, <2>2, <2>3
<1>7. ASSUME NEW c \in Calls, ReadUser(c) \/ Reread(c) \/ Announce(c) \/ Crash(c)
      PROVE  GrantsCounted'
  <2>1. (\A x \in Calls : x # c => call'[x] = call[x]) /\ user' = user
    BY <1>0, <1>7 DEF ReadUser, Reread, Announce, Crash, Goto, End
  <2>2. call'[c].pc # "insert"
    BY <1>0, <1>7 DEF ReadUser, Reread, Announce, Crash, Goto, End, IdleCall, CallRecord
  <2> QED
    BY <1>2, <2>1, <2>2
<1>4. ASSUME NEW c \in Calls, Refresh(c) PROVE GrantsCounted'
  <2>1. \A x \in Calls : x # c => call'[x] = call[x]
    BY <1>0, <1>4 DEF Refresh, Goto, End
  <2>2. call'[c].pc # "insert"
    BY <1>0, <1>4 DEF Refresh, Goto, End, IdleCall, CallRecord
  <2>3. \A v \in Users : user'[v].device = user[v].device /\ user'[v].free = user[v].free
    BY <1>0, <1>4 DEF Refresh, UserRecord
  <2> QED
    BY <1>2, <2>1, <2>2, <2>3
\* A call takes the grant only when no row has the device.
<1>5. ASSUME NEW c \in Calls, DecideGrant(c) PROVE GrantsCounted'
  <2> SUFFICES ASSUME NEW d \in Devices PROVE Within(Holders(d)', Granting(d)')
    BY DEF GrantsCounted, Within
  <2>1. (\A x \in Calls : x # c => call'[x] = call[x]) /\ user' = user
    BY <1>0, <1>5 DEF DecideGrant
  <2>2. /\ call'[c].device = call[c].device
        /\ call'[c].grant = IF DeviceHasGrant(call[c].device) THEN 0 ELSE FreeGrant
    BY <1>0, <1>5 DEF DecideGrant, CallRecord
  <2>3. Holders(d)' = Holders(d) /\ Granting(d)' \in SUBSET Calls
    BY <2>1 DEF Holders, Granting
  <2>4. CASE Holders(d) = {}
    <3> HIDE DEF Holders, Granting
    <3> QED
      BY <2>3, <2>4, NoRowWithin
  <2>5. CASE Holders(d) # {}
    <3>1. d # None
      BY SignupAssumption
    <3>2. DeviceHasGrant(d)
      BY <2>5, <3>1 DEF DeviceHasGrant, Holders
    <3>3. c \notin Granting(d)'
      BY <2>2, <3>2 DEF Granting
    <3>4. Granting(d)' \in SUBSET Granting(d)
      BY <2>1, <3>3 DEF Granting, At
    <3>5. Within(Holders(d), Granting(d)) /\ Granting(d) \in SUBSET Calls
      BY DEF GrantsCounted, Granting
    <3> HIDE DEF Holders, Granting
    <3> QED
      BY <2>3, <3>4, <3>5, FewerWithin
  <2> QED
    BY <2>4, <2>5
<1>6. ASSUME NEW c \in Calls, Insert(c) PROVE GrantsCounted'
  <2> DEFINE u == call[c].uid
  <2>0. u \in Users /\ At(c, "insert")
    BY <1>0, <1>6 DEF Insert, At
  <2>1. \A x \in Calls : x # c => call'[x] = call[x]
    BY <1>0, <1>6 DEF Insert, Goto, End
  <2>2. call'[c].pc # "insert"
    BY <1>0, <1>6 DEF Insert, Goto, End, IdleCall, CallRecord
  <2>3. CASE UNCHANGED user
    BY <1>2, <2>1, <2>2, <2>3
  <2>4. CASE user' = [user EXCEPT ![u] = NewRow(c)]
    <3> SUFFICES ASSUME NEW d \in Devices PROVE Within(Holders(d)', Granting(d)')
      BY DEF GrantsCounted, Within
    <3>1. /\ \A v \in Users : v # u => user'[v] = user[v]
          /\ user'[u].device = call[c].device /\ user'[u].free = call[c].grant
      BY <1>0, <2>0, <2>4 DEF NewRow
    <3>2. Granting(d)' \in SUBSET (Granting(d) \ {c})
      BY <2>1, <2>2 DEF Granting, At
    <3>3. Within(Holders(d), Granting(d)) /\ Granting(d) \in SUBSET Calls
      BY DEF GrantsCounted, Granting
    <3>4. CASE c \in Granting(d)
      <4>1. Holders(d)' \in SUBSET (Holders(d) \cup {u})
        BY <3>1 DEF Holders
      <4>2. Granting(d) \ {c} \in SUBSET Calls
        BY <3>3
      <4> HIDE DEF Holders, Granting, u
      <4>3. Within(Holders(d) \cup {u}, Granting(d) \ {c})
        BY <3>3, <3>4, InsertWithin
      <4> QED
        BY <3>2, <4>1, <4>2, <4>3, FewerWithin
    <3>5. CASE c \notin Granting(d)
      <4>1. ~(call[c].device = d /\ call[c].grant > 0)
        BY <2>0, <3>5 DEF Granting
      <4>2. Holders(d)' \in SUBSET Holders(d) /\ Granting(d)' \in SUBSET Granting(d)
        BY <3>1, <3>2, <4>1 DEF Holders
      <4> HIDE DEF Holders, Granting
      <4> QED
        BY <3>3, <4>2, FewerWithin
    <3> QED
      BY <3>4, <3>5
  <2> QED
    BY <1>6, <2>3, <2>4 DEF Insert
<1> QED
  BY <1>1, <1>3, <1>4, <1>5, <1>6, <1>7 DEF Next, Step

LEMMA InitGrants == Init => GrantsCounted
<1> SUFFICES ASSUME Init, NEW d \in Devices PROVE Within(Holders(d), Granting(d))
  BY DEF GrantsCounted
<1>1. Holders(d) = {} /\ Granting(d) \in SUBSET Calls
  BY DEF Init, NoUser, Holders, Granting
<1> HIDE DEF Holders, Granting
<1> QED
  BY <1>1, NoRowWithin

LEMMA GrantsBounded == ASSUME GrantsCounted PROVE DeviceGrantsBounded
<1> SUFFICES ASSUME NEW d \in Devices PROVE Cardinality(Holders(d)) <= Cardinality(Calls)
  BY DEF DeviceGrantsBounded, Holders
<1>1. Within(Holders(d), Granting(d)) /\ Granting(d) \in SUBSET Calls
  BY DEF GrantsCounted, Granting
<1> HIDE DEF Holders, Granting
<1>2. /\ Cardinality(Holders(d)) \in Nat /\ Cardinality(Granting(d)) \in Nat
      /\ Cardinality(Calls) \in Nat
  BY <1>1, FS_Subset, FS_CardinalityType, SignupAssumption DEF Within
<1> QED
  BY <1>1, <1>2 DEF Within

-----------------------------------------------------------------------------
LEMMA IInvStep == ASSUME IInv, [Next]_vars PROVE IInv'
  BY TypeStep, AnnouncedStep, RegisteredStep DEF IInv

\* Rows and calls stay well-formed, whatever the calls and their order.
THEOREM SignupTyped == Spec => []SignupTypeOK
<1>1. IInv => SignupTypeOK
  BY DEF IInv
<1> QED
  BY InitInv, IInvStep, <1>1, PTL DEF Spec

\* A row inserted with its email is announced at most once: one call inserts it,
\* and every other has read the email it was inserted with.
THEOREM SignupAnnouncesOnce == Spec => []AnnouncedOnce
<1>1. IInv => AnnouncedOnce
  BY DEF IInv, AnnouncedInv
<1> QED
  BY InitInv, IInvStep, <1>1, PTL DEF Spec

\* With no call killed, every account with an email has been or is being announced.
THEOREM SignupAnnounces == Spec => []RegisteredIsAnnounced
<1>1. IInv => RegisteredIsAnnounced
  BY DEF IInv
<1> QED
  BY InitInv, IInvStep, <1>1, PTL DEF Spec

\* A device collects at most as many grants as there can be calls in flight, for
\* any number of users that sign out and start again on it.
THEOREM SignupGrantsBounded == Spec => []DeviceGrantsBounded
<1>1. IInv /\ GrantsCounted /\ [Next]_vars => GrantsCounted'
  BY GrantsStep DEF IInv
<1>2. GrantsCounted => DeviceGrantsBounded
  BY GrantsBounded
<1> QED
  BY InitInv, InitGrants, IInvStep, <1>1, <1>2, PTL DEF Spec
=============================================================================
