------------------------------ MODULE Archive ------------------------------
(***************************************************************************)
(* A user's matches: what the paid reads of views/reads.py return, the     *)
(* screenshots services/storage.py keeps for them, and the rows of         *)
(* views/matches.py that a device saves and resumes them from.  How a hint *)
(* is spent is in Reads; here a paid read is a number.  A device is the    *)
(* client, which is not in the repository: it keeps the matches it worked  *)
(* on, saves a match as a whole, and may change account.                   *)
(***************************************************************************)
EXTENDS Integers, FiniteSets, Sequences

CONSTANTS
    Users, Devices,
    Ids,         \* match ids, which the client chooses
    Calls,       \* bound: requests under way at once
    Screenshots, \* how many images a profile may come with
    MaxPhotos,   \* images of a profile that are read and stored: 6 in the code
    MaxReads,    \* bound: paid reads
    Nothing

ASSUME ArchiveAssumption ==
    MaxPhotos \in Nat \ {0} /\ MaxReads \in Nat /\ Screenshots \subseteq Nat /\ Nothing \notin Users

VARIABLES
    user,        \* the account a device is signed in to
    copy,        \* a device's matches
    row,         \* the matches table
    stored,      \* objects in the bucket: user, read and place
    call,        \* the requests under way
    images,      \* the screenshots each paid read came with
    behind,      \* history: the matches of which a device may lack what its
                 \* account has saved
    late         \* history: the saves and deletions sent from such a copy, or
                 \* overtaken by another save of the match

history == <<behind, late>>
vars == <<user, copy, row, stored, call, images, history>>

\* links: analysis.imageUrls; the rest says which reads the content was paid with.
NoMatch == [analysis |-> 0, links |-> {}, messages |-> {}, followUp |-> 0]
NoRow == [owner |-> Nothing, match |-> NoMatch]
Idle == [pc |-> "idle", device |-> Nothing, user |-> Nothing, id |-> Nothing, match |-> NoMatch]

Init ==
    /\ user \in [Devices -> Users]
    /\ copy = [d \in Devices |-> [i \in Ids |-> NoMatch]]
    /\ row = [i \in Ids |-> NoRow]
    /\ stored = {}
    /\ call = [c \in Calls |-> Idle]
    /\ images = <<>>
    /\ behind = {} /\ late = {}

In(c, label) == call[c].pc = label
Go(c, label) == call' = [call EXCEPT ![c].pc = label]
End(c) == call' = [call EXCEPT ![c] = Idle]
Owns(u, i) == row[i].owner = u
New(i, d) == copy[d][i].analysis = 0

Request(c, d, i, pc, match) ==
    /\ In(c, "idle")
    /\ call' = [call EXCEPT ![c] = [pc |-> pc, device |-> d, user |-> user[d], id |-> i,
                                    match |-> match]]
    /\ late' = IF pc = "put" /\ <<d, i>> \in behind THEN late \cup {c} ELSE late
    /\ UNCHANGED <<user, copy, row, stored, images, behind>>

Writing(c) == call[c].pc \in {"put", "insert", "remove"}

\* A save reaches the row: the account's other devices fall behind, and the other
\* requests that will write it are overtaken.
Saved(c) ==
    LET i == call[c].id IN
    /\ behind' = behind \cup {<<d, i>> : d \in {e \in Devices \ {call[c].device} :
                                                user[e] = call[c].user}}
    /\ late' = {x \in Calls \ {c} : x \in late \/ (call[x].id = i /\ Writing(x))}

-----------------------------------------------------------------------------
(* Paid reads: a new match; openers, a rewrite of one, and a reply for it *)

Ask(c, d, i) ==
    /\ Len(images) < MaxReads
    /\ \/ Request(c, d, i, "other", NoMatch)
       \/ New(i, d) /\ Request(c, d, i, "analyze", NoMatch)
       \/ ~New(i, d) /\ \E pc \in {"openers", "tweak", "reply"} : Request(c, d, i, pc, NoMatch)

\* The model has answered and the hint is spent.
Spends(c, n) ==
    /\ Len(images) < MaxReads
    /\ images' = Append(images, n)
    /\ UNCHANGED <<user, copy, row, stored, history>>

Last == Len(images) + 1

\* The first MaxPhotos images are read.
AnalyzeProfile(c) ==
    \E n \in Screenshots :
        /\ In(c, "analyze") /\ Spends(c, n)
        /\ call' = [call EXCEPT ![c].pc = IF n = 0 THEN "answer" ELSE "upload",
                                ![c].match.analysis = Last]

GenerateMessages(c) ==
    /\ In(c, "openers") /\ Spends(c, 0)
    /\ call' = [call EXCEPT ![c].pc = "answer", ![c].match.messages = {Last}]

\* A rewrite of one message takes its place among the openers.
RegenerateMessage(c) ==
    /\ In(c, "tweak") /\ Spends(c, 0)
    /\ call' = [call EXCEPT ![c].pc = "answer", ![c].match.messages = {Last}]

AnalyzeReply(c) ==
    /\ In(c, "reply") /\ Spends(c, 0)
    /\ call' = [call EXCEPT ![c].pc = "answer", ![c].match.followUp = Last]

\* decode and optimize: paid for like the rest, and part of no match.
OtherRead(c) ==
    /\ In(c, "other") /\ Spends(c, 0)
    /\ End(c)

\* An image that cannot be decoded, a call that fails, an answer that does not
\* parse, or no hint left: an error, and nothing spent.
GenerationFails(c) ==
    /\ call[c].pc \in {"analyze", "openers", "tweak", "reply", "other"}
    /\ End(c)
    /\ UNCHANGED <<user, copy, row, stored, images, history>>

-----------------------------------------------------------------------------
(* upload_read_images, one object after the other *)

Read(c) == call[c].match.analysis
Photo(u, r, k) == [user |-> u, read |-> r, place |-> k]
Wanted(r) == IF images[r] < MaxPhotos THEN images[r] ELSE MaxPhotos
Uploaded(c) == Cardinality(call[c].match.links)

\* Mutant: every image sent is stored.
UploadPhoto_Uncapped(c) ==
    LET photo == Photo(call[c].user, Read(c), Uploaded(c) + 1) IN
    /\ In(c, "upload")
    /\ stored' = stored \cup {photo}
    /\ call' = [call EXCEPT ![c].match.links = @ \cup {photo},
                            ![c].pc = IF photo.place = images[Read(c)] THEN "answer" ELSE @]
    /\ UNCHANGED <<user, copy, row, images, history>>

UploadPhoto(c) ==
    LET photo == Photo(call[c].user, Read(c), Uploaded(c) + 1) IN
    /\ In(c, "upload")
    /\ stored' = stored \cup {photo}
    /\ call' = [call EXCEPT ![c].match.links = @ \cup {photo},
                            ![c].pc = IF photo.place = Wanted(Read(c)) THEN "answer" ELSE @]
    /\ UNCHANGED <<user, copy, row, images, history>>

\* Mutant: the answer links what was stored so far.
UploadFails_KeepsSome(c) ==
    /\ In(c, "upload")
    /\ Go(c, "answer")
    /\ UNCHANGED <<user, copy, row, stored, images, history>>

\* Never fails the read: it is answered without links, and what was stored stays.
UploadFails(c) ==
    /\ In(c, "upload")
    /\ call' = [call EXCEPT ![c].pc = "answer", ![c].match.links = {}]
    /\ UNCHANGED <<user, copy, row, stored, images, history>>

\* The device adds the answer to its match; a second analysis replaces the first.
Answer(c) ==
    LET got == call[c].match
        old == copy[call[c].device][call[c].id]
        more == [old EXCEPT !.messages = @ \cup got.messages,
                            !.followUp = IF got.followUp # 0 THEN got.followUp ELSE @] IN
    /\ In(c, "answer")
    /\ copy' = [copy EXCEPT ![call[c].device][call[c].id] =
                  IF got.analysis # 0 THEN got ELSE more]
    /\ behind' = IF got.analysis # 0 /\ old # NoMatch
                 THEN behind \cup {<<call[c].device, call[c].id>>} ELSE behind
    /\ End(c)
    /\ UNCHANGED <<user, row, stored, images, late>>

\* signed_urls: the first MaxPhotos links that lie under the user's own prefix.
\* (The bucket drops objects after storage_retention_days; that is left out.)
Signed(u, links) == {o \in links : o.user = u /\ o.place <= MaxPhotos}

-----------------------------------------------------------------------------
(* upsert_match *)

Put(c, d, i) == ~New(i, d) /\ Request(c, d, i, "put", copy[d][i])

\* Mutant: the row is looked up by id alone.
PutFinds_AnyOwner(c) ==
    /\ In(c, "put") /\ row[call[c].id] # NoRow
    /\ row' = [row EXCEPT ![call[c].id].match = call[c].match]
    /\ Saved(c) /\ End(c)
    /\ UNCHANGED <<user, copy, stored, images>>

\* The user's row of that id, locked, is replaced.
PutFinds(c) ==
    /\ In(c, "put") /\ Owns(call[c].user, call[c].id)
    /\ row' = [row EXCEPT ![call[c].id].match = call[c].match]
    /\ Saved(c) /\ End(c)
    /\ UNCHANGED <<user, copy, stored, images>>

\* There is none: an insert, which fails on an id that is taken (a 500).
PutMisses(c) ==
    /\ In(c, "put") /\ ~Owns(call[c].user, call[c].id)
    /\ Go(c, "insert")
    /\ UNCHANGED <<user, copy, row, stored, images, history>>

PutInserts(c) ==
    /\ In(c, "insert")
    /\ IF row[call[c].id] = NoRow
       THEN /\ row' = [row EXCEPT ![call[c].id] = [owner |-> call[c].user, match |-> call[c].match]]
            /\ Saved(c)
       ELSE late' = late \ {c} /\ UNCHANGED <<row, behind>>
    /\ End(c)
    /\ UNCHANGED <<user, copy, stored, images>>

-----------------------------------------------------------------------------
(* delete_match, list_matches *)

Delete(c, d, i) == Request(c, d, i, "delete", NoMatch)

\* The row is looked up by id and user, without a lock ...
DeleteFinds(c) ==
    /\ In(c, "delete")
    /\ IF Owns(call[c].user, call[c].id) THEN Go(c, "remove") ELSE End(c)
    /\ UNCHANGED <<user, copy, row, stored, images, history>>

\* ... and deleted by its primary key, the id.
DeleteRemoves(c) ==
    /\ In(c, "remove")
    /\ row' = [row EXCEPT ![call[c].id] = NoRow]
    /\ End(c) /\ late' = late \ {c}
    /\ UNCHANGED <<user, copy, stored, images, behind>>

\* A save of the device's own is under way.
Saving(d, i) ==
    \E c \in Calls : call[c].pc \in {"put", "insert"} /\ call[c].device = d /\ call[c].id = i

\* The device takes over what its account has saved: the row before a save of its
\* own that is still under way.
List(d) ==
    /\ copy' = [copy EXCEPT ![d] = [i \in Ids |-> IF Owns(user[d], i) THEN row[i].match ELSE @[i]]]
    /\ behind' = {x \in behind : x[1] # d} \cup {<<d, i>> : i \in {j \in Ids : Saving(d, j)}}
    /\ UNCHANGED <<user, row, stored, call, images, late>>

\* The device signs in to another account and keeps its matches.
SignIn(d, u) ==
    /\ u # user[d]
    /\ user' = [user EXCEPT ![d] = u]
    /\ behind' = behind \cup ({d} \X Ids)
    /\ UNCHANGED <<copy, row, stored, call, images, late>>

\* The instance dies or the answer is lost.
Dies(c) ==
    /\ ~In(c, "idle")
    /\ End(c) /\ late' = late \ {c}
    /\ UNCHANGED <<user, copy, row, stored, images, behind>>

Next ==
    \/ \E c \in Calls :
         \/ \E d \in Devices, i \in Ids : Ask(c, d, i) \/ Put(c, d, i) \/ Delete(c, d, i)
         \/ AnalyzeProfile(c) \/ GenerateMessages(c) \/ RegenerateMessage(c) \/ AnalyzeReply(c)
         \/ OtherRead(c) \/ GenerationFails(c) \/ UploadPhoto(c) \/ UploadFails(c) \/ Answer(c)
         \/ PutFinds(c) \/ PutMisses(c) \/ PutInserts(c)
         \/ DeleteFinds(c) \/ DeleteRemoves(c) \/ Dies(c)
    \/ \E d \in Devices : List(d) \/ \E u \in Users : SignIn(d, u)

Spec == Init /\ [][Next]_vars
-----------------------------------------------------------------------------
(* Properties *)

Reads == 1..MaxReads
Photos == [user : Users, read : Reads, place : 1..MaxPhotos]
Matches == [analysis : 0..MaxReads, links : SUBSET Photos, messages : SUBSET Reads,
            followUp : 0..MaxReads]

\* Types; at most MaxPhotos objects of a read; a row has an owner and an analysis,
\* and a request that found no row or is done with the model carries what it will
\* write.
ArchiveTypeOK ==
    /\ user \in [Devices -> Users]
    /\ copy \in [Devices -> [Ids -> Matches]]
    /\ row \in [Ids -> [owner : Users \cup {Nothing}, match : Matches]]
    /\ \A i \in Ids : row[i] = NoRow \/ (row[i].owner # Nothing /\ row[i].match.analysis # 0)
    /\ stored \subseteq Photos
    /\ images \in UNION {[1..n -> Screenshots \cup {0}] : n \in 0..MaxReads}
    /\ behind \subseteq Devices \X Ids /\ late \subseteq Calls
    /\ \A c \in Calls : ~In(c, "idle") => call[c].device \in Devices /\ call[c].id \in Ids
    /\ \A c \in Calls :
         /\ call[c].match \in Matches
         /\ call[c].pc \in {"put", "insert", "upload"} => call[c].match.analysis # 0
         /\ In(c, "answer") => call[c].match # NoMatch

\* "Generated openers the user paid a hint for - kept so a match resumes with them
\* intact" (models/match.py): they leave a saved match only with it, when its owner
\* deletes it.
Lost(i) == row[i].match.messages \ row'[i].match.messages # {}
Ends(c, i) == call[c].id = i /\ ~In(c, "idle") /\ In(c, "idle")'
DeletedByOwner(c, i) == In(c, "remove") /\ Owns(call[c].user, i)

ResumesIntact ==
    [][\A i \in Ids : Lost(i) => \E c \in Calls : Ends(c, i) /\ DeletedByOwner(c, i)]_vars

\* "Always scoped to one user" (storages/matches.py): a deletion removes a row of
\* the account that asked for it.
ScopedToOwner ==
    [][\A i \in Ids : row[i] # NoRow /\ row'[i] = NoRow =>
         \E c \in Calls : Ends(c, i) /\ DeletedByOwner(c, i)]_vars

\* Neither holds of the code.  What does: a request that takes openers and is not a
\* deletion by the owner was late.  Another save of the match reached the row after
\* it was sent (a deletion: after it found the row); or it is a save from a device
\* that, since it last listed, has changed account, or seen another device save the
\* match, or analysed it a second time, or had listed while it saved.  So the
\* devices of one account, each listing before it works on a match and saving one
\* after the other, lose nothing, whatever is answered, lost or retried meanwhile
\* and whatever another account does under the same id.
OpenersKept ==
    [][\A i \in Ids : Lost(i) =>
         \E c \in Calls : Ends(c, i) /\ (DeletedByOwner(c, i) \/ c \in late)]_vars

\* Upload is best effort, but a match is not left with half its screenshots: its
\* owner is shown all of the first MaxPhotos that were sent, or none; and each was
\* in the bucket, whatever failed on the way.
PhotosAllOrNone ==
    \A i \in Ids : LET match == row[i].match
                       shown == Signed(row[i].owner, match.links)
                   IN shown # {} =>
                        /\ Cardinality(shown) = Wanted(match.analysis)
                        /\ shown \subseteq stored
=============================================================================
