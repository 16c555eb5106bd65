------------------------------- MODULE Signup -------------------------------
(***************************************************************************)
(* POST /auth/firebase: verify_firebase_token_and_upsert_user of           *)
(* bl/auth.py over the users table.  A browser has several of these calls  *)
(* in flight, for one uid and for several (it signs out and starts again   *)
(* as a new anonymous user).  Every database step is a transaction of its  *)
(* own.  Names and avatars follow the email and are left out.              *)
(***************************************************************************)
EXTENDS Naturals, FiniteSets

CONSTANTS
    Users,       \* Firebase uids
    Emails,
    Devices,
    Calls,       \* bound: calls in flight at once
    FreeGrant,   \* config.free_hints_grant
    MaxCrashes,  \* bound: calls that die half-way
    None

ASSUME SignupAssumption ==
    /\ FreeGrant \in Nat /\ MaxCrashes \in Nat /\ IsFiniteSet(Calls)
    /\ None \notin Users \cup Emails \cup Devices

VARIABLES
    user,        \* the rows
    call,        \* one record per call
    announced,   \* history: how often a uid's registration was reported
    crashes

vars == <<user, call, announced, crashes>>

Maybe(S) == S \cup {None}

\* born: history, the email the row was inserted with.
NoUser == [exists |-> FALSE, email |-> None, device |-> None, free |-> 0, born |-> None]

\* uid, email, device: the token and the header.  grant, seen: what was read.
IdleCall == [pc |-> "idle", uid |-> None, email |-> None, device |-> None,
             grant |-> 0, seen |-> None]

Init ==
    /\ user = [u \in Users |-> NoUser]
    /\ call = [c \in Calls |-> IdleCall]
    /\ announced = [u \in Users |-> 0]
    /\ crashes = 0

At(c, label) == call[c].pc = label
Goto(c, label) == call' = [call EXCEPT ![c].pc = label]
End(c) == call' = [call EXCEPT ![c] = IdleCall]

\* email is a unique column.
Taken(c) == \E v \in Users \ {call[c].uid} : user[v].email # None /\ user[v].email = call[c].email

\* A verified token: of an anonymous user, or with the email it has linked.
Login(c, u, email, device) ==
    /\ At(c, "idle")
    /\ call' = [call EXCEPT ![c] = [IdleCall EXCEPT !.pc = "read", !.uid = u, !.email = email,
                                                    !.device = device]]
    /\ UNCHANGED <<user, announced, crashes>>

\* get_by_id
ReadUser(c) ==
    LET u == call[c].uid IN
    /\ At(c, "read")
    /\ IF user[u].exists
       THEN call' = [call EXCEPT ![c].pc = "refresh", ![c].seen = user[u].email]
       ELSE Goto(c, "grant")
    /\ UNCHANGED <<user, announced, crashes>>

DeviceHasGrant(d) == d # None /\ \E v \in Users : user[v].device = d

\* Mutant: the device is not asked about.
DecideGrant_Always(c) ==
    /\ At(c, "grant")
    /\ call' = [call EXCEPT ![c].pc = "insert", ![c].grant = FreeGrant]
    /\ UNCHANGED <<user, announced, crashes>>

DecideGrant(c) ==
    /\ At(c, "grant")
    /\ call' = [call EXCEPT ![c].pc = "insert",
                            ![c].grant = IF DeviceHasGrant(call[c].device) THEN 0 ELSE FreeGrant]
    /\ UNCHANGED <<user, announced, crashes>>

\* Mutant: the column's default comes on top.
NewRow_Defaulted(c) ==
    [exists |-> TRUE, email |-> call[c].email, device |-> call[c].device,
     free |-> call[c].grant + FreeGrant, born |-> call[c].email]

NewRow(c) ==
    [exists |-> TRUE, email |-> call[c].email, device |-> call[c].device,
     free |-> call[c].grant, born |-> call[c].email]

\* get_or_create: ON CONFLICT (id) DO NOTHING; a clash on the email is a 500.
Insert(c) ==
    LET u == call[c].uid IN
    /\ At(c, "insert")
    /\ \/ user[u].exists /\ Goto(c, "reread") /\ UNCHANGED user
       \/ ~user[u].exists /\ Taken(c) /\ End(c) /\ UNCHANGED user
       \/ /\ ~user[u].exists /\ ~Taken(c)
          /\ user' = [user EXCEPT ![u] = NewRow(c)]
          /\ IF call[c].email # None THEN Goto(c, "announce") ELSE End(c)
    /\ UNCHANGED <<announced, crashes>>

\* Mutant: the loser goes on with the row it did not find.
Reread_Nothing(c) ==
    /\ At(c, "reread")
    /\ Goto(c, "refresh")
    /\ UNCHANGED <<user, announced, crashes>>

\* The loser of the insert takes the winner's row for the one it read.
Reread(c) ==
    /\ At(c, "reread")
    /\ call' = [call EXCEPT ![c].pc = "refresh", ![c].seen = user[call[c].uid].email]
    /\ UNCHANGED <<user, announced, crashes>>

\* Mutant: asked of the refreshed row.
IsRegistration_AfterUpdate(c) == user'[call[c].uid].email = None /\ call[c].email # None

IsRegistration(c) == call[c].seen = None /\ call[c].email # None

\* update: the email the token has and the row read had not.
Refresh(c) ==
    /\ At(c, "refresh")
    /\ \/ call[c].email \in {None, call[c].seen} /\ End(c) /\ UNCHANGED user
       \/ call[c].email \notin {None, call[c].seen} /\ Taken(c) /\ End(c) /\ UNCHANGED user
       \/ /\ call[c].email \notin {None, call[c].seen} /\ ~Taken(c)
          /\ user' = [user EXCEPT ![call[c].uid].email = call[c].email]
          /\ IF IsRegistration(c) THEN Goto(c, "announce") ELSE End(c)
    /\ UNCHANGED <<announced, crashes>>

\* _on_registration never raises; then the answer carries its event id.
Announce(c) ==
    /\ At(c, "announce")
    /\ announced' = [announced EXCEPT ![call[c].uid] = @ + 1]
    /\ End(c)
    /\ UNCHANGED <<user, crashes>>

\* The instance dies, or the client hangs up and the handler is cancelled.
Crash(c) ==
    /\ ~At(c, "idle") /\ crashes < MaxCrashes
    /\ crashes' = crashes + 1
    /\ End(c)
    /\ UNCHANGED <<user, announced>>

Step(c) ==
    ReadUser(c) \/ DecideGrant(c) \/ Insert(c) \/ Reread(c) \/ Refresh(c) \/ Announce(c)

Next ==
    \E c \in Calls :
        \/ \E u \in Users, e \in Maybe(Emails), d \in Maybe(Devices) : Login(c, u, e, d)
        \/ Step(c)
        \/ Crash(c)

Spec == Init /\ [][Next]_vars
-----------------------------------------------------------------------------
(* Properties *)

Labels == {"idle", "read", "grant", "insert", "reread", "refresh", "announce"}
UserRecord == [exists : BOOLEAN, email : Maybe(Emails), device : Maybe(Devices),
               free : {0, FreeGrant}, born : Maybe(Emails)]
CallRecord == [pc : Labels, uid : Maybe(Users), email : Maybe(Emails), device : Maybe(Devices),
               grant : {0, FreeGrant}, seen : Maybe(Emails)]

SignupTypeOK ==
    /\ user \in [Users -> UserRecord]
    /\ call \in [Calls -> CallRecord]
    /\ \A c \in Calls : ~At(c, "idle") => call[c].uid \in Users
    /\ announced \in [Users -> Nat]
    /\ crashes \in 0..MaxCrashes

\* "New users receive the configured free-hint grant - but only ONCE per device"
\* (verify_firebase_token_and_upsert_user).
Holders(d) == {u \in Users : user[u].device = d /\ user[u].free > 0}

GrantedOncePerDevice == \A d \in Devices : Cardinality(Holders(d)) <= 1

\* It is true of calls that follow each other: device_has_grant is read before the
\* insert and nothing holds the device.  When calls overlap this remains: a device
\* never collects more grants than it can have calls in flight, however often it
\* signs out and starts again.
DeviceGrantsBounded == \A d \in Devices : Cardinality(Holders(d)) <= Cardinality(Calls)

\* "Only the request that actually inserted may announce a registration, or one
\* sign-up would alert the operator and bill Meta several times over"
\* (get_or_create).
SignupAnnouncedOnce == \A u \in Users : announced[u] <= 1

\* Two calls that upgrade one anonymous row both announce it.  A row that was
\* inserted with its email is announced once, whatever the calls' order.
AnnouncedOnce ==
    \A u \in Users : user[u].exists /\ user[u].born # None => announced[u] <= 1

\* No registration goes unreported while calls run to their end: an account that
\* has an email was announced, or a call is about to.
RegisteredIsAnnounced ==
    \A u \in Users : user[u].email # None /\ crashes = 0 =>
        announced[u] > 0 \/ \E c \in Calls : At(c, "announce") /\ call[c].uid = u
=============================================================================
