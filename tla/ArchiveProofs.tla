--------------------------- MODULE ArchiveProofs ---------------------------
(***************************************************************************)
(* The matches and their screenshots for any number of users, devices and  *)
(* requests: everything stays well-formed, a match shows its owner all of  *)
(* its screenshots or none, and openers that were paid for leave a saved   *)
(* match only as OpenersKept says.                                         *)
(***************************************************************************)
EXTENDS Archive, FiniteSetTheorems, TLAPS

Labels == {"idle", "other", "analyze", "openers", "tweak", "reply", "upload", "answer", "put",
           "insert", "delete", "remove"}

CallRecord == [pc : Labels, device : Devices \cup {Nothing}, user : Users \cup {Nothing},
               id : Ids \cup {Nothing}, match : Matches]

\* A request knows who sent it; one that asks the model, or deletes, carries nothing
\* yet; one that saves carries an analysed match.
CallOK(k) ==
    /\ k \in CallRecord
    /\ k.pc # "idle" => k.device \in Devices /\ k.user \in Users /\ k.id \in Ids
    /\ k.pc \in Labels \ {"upload", "answer", "put", "insert"} => k.match = NoMatch
    /\ k.pc \in {"upload", "put", "insert"} => k.match.analysis # 0
    /\ k.pc = "answer" => k.match # NoMatch

CallsOK(f) == DOMAIN f = Calls /\ f = [c \in Calls |-> f[c]] /\ \A c \in Calls : CallOK(f[c])

RowOK(r) ==
    /\ r \in [owner : Users \cup {Nothing}, match : Matches]
    /\ r = NoRow \/ (r.owner # Nothing /\ r.match.analysis # 0)

RowsOK(f) == f \in [Ids -> [owner : Users \cup {Nothing}, match : Matches]]
             /\ \A i \in Ids : RowOK(f[i])

ImagesOK(f) == f \in Seq(Screenshots \cup {0}) /\ Len(f) <= MaxReads

TypeInv ==
    /\ user \in [Devices -> Users]
    /\ copy \in [Devices -> [Ids -> Matches]]
    /\ RowsOK(row) /\ CallsOK(call) /\ ImagesOK(images)
    /\ stored \subseteq Photos

\* The first j screenshots of a read, all among the objects S.
Strip(u, r, j) == {Photo(u, r, k) : k \in 1..j}

HasStrip(links, u, r, j, S) ==
    links = Strip(u, r, j) /\ IsFiniteSet(links) /\ Cardinality(links) = j /\ links \subseteq S

Kept(n) == IF n < MaxPhotos THEN n ELSE MaxPhotos

\* A match has no links, or those of all the screenshots its read (of the reads f) wants.
Whole(match, f, S) ==
    match.links # {} =>
        /\ match.analysis \in 1..Len(f)
        /\ \E u \in Users : HasStrip(match.links, u, match.analysis, Kept(f[match.analysis]), S)

\* An upload has got somewhere, and not yet to the end.
Uploading(k, f, S) ==
    k.pc = "upload" =>
        /\ k.match.analysis \in 1..Len(f)
        /\ \E j \in 0..(Kept(f[k.match.analysis]) - 1) :
             HasStrip(k.match.links, k.user, k.match.analysis, j, S)

CallWhole(k, f, S) == Uploading(k, f, S) /\ (k.pc # "upload" => Whole(k.match, f, S))

PhotosInv ==
    /\ \A d \in Devices : \A i \in Ids : Whole(copy[d][i], images, stored)
    /\ \A i \in Ids : Whole(row[i].match, images, stored)
    /\ \A c \in Calls : CallWhole(call[c], images, stored)

IInv == TypeInv /\ PhotosInv

-----------------------------------------------------------------------------
LEMMA NoMatchOK == NoMatch \in Matches /\ NoMatch.analysis = 0 /\ NoMatch.links = {}
  BY ArchiveAssumption DEF NoMatch, Matches

LEMMA IdleOK == CallOK(Idle) /\ Idle.pc = "idle" /\ Idle.match = NoMatch
  BY NoMatchOK DEF CallOK, Idle, CallRecord, Labels

LEMMA InitInv == Init => IInv
<1> SUFFICES ASSUME Init PROVE IInv
  OBVIOUS
<1>1. RowsOK(row)
  BY NoMatchOK DEF Init, RowsOK, RowOK, NoRow
<1>2. CallsOK(call)
  BY IdleOK DEF Init, CallsOK
<1>3. ImagesOK(images)
  BY ArchiveAssumption DEF Init, ImagesOK
<1>4. TypeInv
  BY <1>1, <1>2, <1>3, NoMatchOK DEF Init, TypeInv
<1>5. PhotosInv
  BY NoMatchOK, IdleOK DEF Init, PhotosInv, Whole, CallWhole, Uploading, NoRow
<1> QED
  BY <1>4, <1>5 DEF IInv

LEMMA CallEdit ==
    ASSUME CallsOK(call), NEW c \in Calls, NEW k, CallOK(k), call' = [call EXCEPT ![c] = k]
    PROVE  CallsOK(call') /\ call'[c] = k /\ \A x \in Calls : x # c => call'[x] = call[x]
  BY DEF CallsOK

\* A match stays whole while objects and reads are added.
LEMMA StaysWhole ==
    ASSUME NEW f, NEW g, NEW S, NEW T, ImagesOK(f), ImagesOK(g), S \subseteq T, Len(f) <= Len(g),
           \A r \in 1..Len(f) : g[r] = f[r]
    PROVE  /\ \A m : Whole(m, f, S) => Whole(m, g, T)
           /\ \A k : CallWhole(k, f, S) => CallWhole(k, g, T)
<1>1. Len(f) \in Nat /\ Len(g) \in Nat
  BY DEF ImagesOK
<1>2. \A r \in 1..Len(f) : r \in 1..Len(g) /\ Kept(g[r]) = Kept(f[r])
  BY <1>1
<1>3. \A l, u, r, j : HasStrip(l, u, r, j, S) => HasStrip(l, u, r, j, T)
  BY DEF HasStrip
<1>4. ASSUME NEW m, Whole(m, f, S) PROVE Whole(m, g, T)
  BY <1>2, <1>3, <1>4 DEF Whole
<1>5. ASSUME NEW k, Uploading(k, f, S) PROVE Uploading(k, g, T)
  BY <1>2, <1>3, <1>5 DEF Uploading
<1> QED
  BY <1>4, <1>5 DEF CallWhole

-----------------------------------------------------------------------------
(* Each step keeps IInv *)

\* A request moves on, and nothing else changes.
LEMMA CallStep ==
    ASSUME IInv, NEW c \in Calls, NEW k, CallOK(k), CallWhole(k, images, stored),
           call' = [call EXCEPT ![c] = k], UNCHANGED <<user, copy, row, stored, images>>
    PROVE  IInv'
<1>1. CallsOK(call') /\ call'[c] = k /\ \A x \in Calls : x # c => call'[x] = call[x]
  BY CallEdit DEF IInv, TypeInv
<1>2. TypeInv'
  BY <1>1 DEF IInv, TypeInv
<1>3. PhotosInv'
  BY <1>1 DEF IInv, PhotosInv
<1> QED
  BY <1>2, <1>3 DEF IInv

LEMMA IdleWhole == ASSUME NEW f, NEW S PROVE CallWhole(Idle, f, S) /\ Whole(NoMatch, f, S)
  BY IdleOK, NoMatchOK DEF CallWhole, Uploading, Whole

\* A request ends; the others are as they were.
LEMMA EndCall ==
    ASSUME IInv, NEW c \in Calls, End(c)
    PROVE  CallsOK(call') /\ \A x \in Calls : CallWhole(call'[x], images, stored)
<1>1. CallsOK(call) /\ \A x \in Calls : CallWhole(call[x], images, stored)
  BY DEF IInv, TypeInv, PhotosInv
<1>2. call' = [call EXCEPT ![c] = Idle]
  BY DEF End
<1>3. CallsOK(call') /\ call'[c] = Idle /\ \A x \in Calls : x # c => call'[x] = call[x]
  BY <1>1, <1>2, IdleOK, CallEdit
<1> QED
  BY <1>1, <1>3, IdleWhole

LEMMA EndStep ==
    ASSUME IInv, NEW c \in Calls, End(c), UNCHANGED <<user, copy, row, stored, images>>
    PROVE  IInv'
  BY CallStep, IdleOK, IdleWhole DEF End

\* A request under way, by its fields.
LEMMA CallFields ==
    ASSUME IInv, NEW c \in Calls, ~In(c, "idle")
    PROVE  /\ CallOK(call[c]) /\ CallWhole(call[c], images, stored)
           /\ call[c] \in CallRecord /\ call[c].device \in Devices /\ call[c].user \in Users
           /\ call[c].id \in Ids /\ call[c].match \in Matches
<1>1. CallOK(call[c]) /\ CallWhole(call[c], images, stored)
  BY DEF IInv, TypeInv, CallsOK, PhotosInv
<1> QED
  BY <1>1 DEF CallOK, CallRecord, In

LEMMA RequestStep ==
    ASSUME IInv, NEW c \in Calls, NEW d \in Devices, NEW i \in Ids,
           Ask(c, d, i) \/ Put(c, d, i) \/ Delete(c, d, i)
    PROVE  IInv'
<1>1. ASSUME NEW pc \in Labels \ {"idle", "upload", "answer", "insert"}, NEW match \in Matches,
             pc # "put" => match = NoMatch, pc = "put" => match.analysis # 0,
             Whole(match, images, stored), Request(c, d, i, pc, match)
      PROVE  IInv'
  <2> DEFINE k == [pc |-> pc, device |-> d, user |-> user[d], id |-> i, match |-> match]
  <2>1. k \in CallRecord /\ user[d] \in Users
    BY DEF CallRecord, IInv, TypeInv
  <2>2. CallOK(k)
    BY <1>1, <2>1 DEF CallOK
  <2>3. CallWhole(k, images, stored)
    BY <1>1 DEF CallWhole, Uploading
  <2>4. call' = [call EXCEPT ![c] = k] /\ UNCHANGED <<user, copy, row, stored, images>>
    BY <1>1 DEF Request
  <2> HIDE DEF k
  <2> QED
    BY <2>2, <2>3, <2>4, CallStep
<1>2. NoMatch \in Matches /\ Whole(NoMatch, images, stored)
  BY NoMatchOK, IdleWhole
<1>3. CASE Ask(c, d, i)
  BY <1>1, <1>2, <1>3 DEF Ask, Labels
<1>4. CASE Put(c, d, i)
  <2>1. copy[d][i] \in Matches /\ Whole(copy[d][i], images, stored)
    BY DEF IInv, TypeInv, PhotosInv
  <2> QED
    BY <1>1, <1>4, <2>1 DEF Put, New, Labels
<1>5. CASE Delete(c, d, i)
  BY <1>1, <1>2, <1>5 DEF Delete, Labels
<1> QED
  BY <1>3, <1>4, <1>5

\* A paid read is one more; the matches of the earlier ones stay as they were.
LEMMA SpendStep ==
    ASSUME IInv, NEW c \in Calls, NEW n \in Screenshots \cup {0}, Spends(c, n),
           NEW k, CallOK(k), CallWhole(k, images', stored), call' = [call EXCEPT ![c] = k]
    PROVE  IInv'
<1>1. CallsOK(call') /\ call'[c] = k /\ \A x \in Calls : x # c => call'[x] = call[x]
  BY CallEdit DEF IInv, TypeInv
<1>0. ImagesOK(images) /\ images' = Append(images, n) /\ Len(images) < MaxReads
  BY DEF Spends, IInv, TypeInv
<1>2. ImagesOK(images')
  <2> DEFINE T == Screenshots \cup {0}
  <2>1. images \in Seq(T) /\ n \in T
    BY <1>0 DEF ImagesOK
  <2> HIDE DEF T
  <2>2. images' \in Seq(T) /\ Len(images') = Len(images) + 1 /\ Len(images) \in Nat
    BY <1>0, <2>1
  <2>3. Len(images') <= MaxReads
    BY <1>0, <2>2, ArchiveAssumption
  <2> QED
    BY <2>2, <2>3 DEF ImagesOK, T
<1>3. Len(images) <= Len(images') /\ \A r \in 1..Len(images) : images'[r] = images[r]
  BY <1>0 DEF ImagesOK
<1>4. UNCHANGED <<user, copy, row, stored>>
  BY DEF Spends
<1>5. TypeInv'
  BY <1>1, <1>2, <1>4 DEF IInv, TypeInv
<1>6. /\ \A m : Whole(m, images, stored) => Whole(m, images', stored)
      /\ \A x : CallWhole(x, images, stored) => CallWhole(x, images', stored)
  BY <1>2, <1>3, StaysWhole DEF IInv, TypeInv
<1>7. PhotosInv'
  BY <1>1, <1>4, <1>6 DEF IInv, PhotosInv
<1> QED
  BY <1>5, <1>7 DEF IInv

LEMMA ImageOK ==
    ASSUME NEW f, ImagesOK(f), NEW r \in 1..Len(f)
    PROVE  f[r] \in Nat /\ r \in Reads
<1>1. Len(f) \in Nat /\ Len(f) <= MaxReads /\ f[r] \in Screenshots \cup {0}
  BY DEF ImagesOK
<1>2. r \in 1..MaxReads
  BY <1>1, ArchiveAssumption
<1>3. f[r] \in Nat
  <2>1. CASE f[r] \in Screenshots
    BY <2>1, ArchiveAssumption, Zenon
  <2>2. CASE f[r] = 0
    BY <2>2
  <2> QED
    BY <1>1, <2>1, <2>2
<1> QED
  BY <1>2, <1>3 DEF Reads

LEMMA LastOK ==
    ASSUME IInv, NEW c \in Calls, NEW n \in Screenshots \cup {0}, Spends(c, n)
    PROVE  /\ Last \in 1..MaxReads /\ Last \in 1..Len(images') /\ images'[Last] = n
           /\ Last # 0
  BY ArchiveAssumption DEF Spends, Last, IInv, TypeInv, ImagesOK

LEMMA AnalyzeStep ==
    ASSUME IInv, NEW c \in Calls, AnalyzeProfile(c) PROVE IInv'
<1>1. PICK n \in Screenshots : /\ In(c, "analyze") /\ Spends(c, n)
                               /\ call' = [call EXCEPT ![c].pc = IF n = 0 THEN "answer" ELSE "upload",
                                                       ![c].match.analysis = Last]
  BY DEF AnalyzeProfile
<1>3. /\ CallOK(call[c]) /\ call[c] \in CallRecord /\ call[c].match = NoMatch
      /\ call[c].device \in Devices /\ call[c].user \in Users /\ call[c].id \in Ids
  BY <1>1, CallFields DEF CallOK, In, Labels
<1>4. /\ Last \in 1..MaxReads /\ Last \in 1..Len(images') /\ images'[Last] = n /\ Last # 0
  BY <1>1, LastOK
<1> DEFINE m == [NoMatch EXCEPT !.analysis = Last]
           k == [call[c] EXCEPT !.pc = IF n = 0 THEN "answer" ELSE "upload", !.match = m]
<1>2. call' = [call EXCEPT ![c] = k]
  BY <1>1, <1>3
<1>6. m \in Matches /\ m.analysis = Last /\ m.links = {}
  BY <1>4, NoMatchOK DEF NoMatch, Matches
<1> HIDE DEF m
<1>5. /\ k.pc = (IF n = 0 THEN "answer" ELSE "upload") /\ k.device = call[c].device
      /\ k.user = call[c].user /\ k.id = call[c].id /\ k.match = m
  BY <1>3 DEF CallRecord
<1>7. k \in CallRecord
  BY <1>3, <1>6 DEF CallRecord, Labels
<1> HIDE DEF k
<1>8. CallOK(k)
  BY <1>3, <1>4, <1>5, <1>6, <1>7, NoMatchOK DEF CallOK
<1>9. CallWhole(k, images', stored)
  <2>1. CASE n = 0
    BY <1>5, <1>6, <2>1 DEF CallWhole, Uploading, Whole
  <2>2. CASE n # 0
    <3>1. n \in Nat /\ 0 \in 0..(Kept(n) - 1)
      BY <2>2, ArchiveAssumption DEF Kept
    <3>2. HasStrip({}, k.user, Last, 0, stored)
      BY FS_EmptySet DEF HasStrip, Strip
    <3> QED
      BY <1>4, <1>5, <1>6, <2>2, <3>1, <3>2 DEF CallWhole, Uploading
  <2> QED
    BY <2>1, <2>2
<1> QED
  BY <1>1, <1>2, <1>8, <1>9, SpendStep

\* Openers, a rewrite and a reply bring no links.
LEMMA GenerateStep ==
    ASSUME IInv, NEW c \in Calls,
           GenerateMessages(c) \/ RegenerateMessage(c) \/ AnalyzeReply(c) \/ OtherRead(c)
    PROVE  IInv'
<1>0. Spends(c, 0) /\ 0 \in Screenshots \cup {0} /\ call[c].pc \in {"openers", "tweak", "reply", "other"}
  BY DEF GenerateMessages, RegenerateMessage, AnalyzeReply, OtherRead, In
<1>1. /\ CallOK(call[c]) /\ call[c] \in CallRecord /\ call[c].match = NoMatch
      /\ call[c].device \in Devices /\ call[c].user \in Users /\ call[c].id \in Ids
  BY <1>0, CallFields DEF CallOK, In, Labels
<1>2. Last \in 1..MaxReads /\ Last # 0
  BY <1>0, LastOK
<1>3. ASSUME NEW m \in Matches, m # NoMatch, m.links = {}, NEW k,
             k = [call[c] EXCEPT !.pc = "answer", !.match = m], call' = [call EXCEPT ![c] = k]
      PROVE  IInv'
  <2>1. /\ k \in CallRecord /\ k.pc = "answer" /\ k.device = call[c].device
        /\ k.user = call[c].user /\ k.id = call[c].id /\ k.match = m
    BY <1>1, <1>3 DEF CallRecord, Labels
  <2>2. CallOK(k)
    BY <1>1, <1>3, <2>1 DEF CallOK
  <2>3. CallWhole(k, images', stored)
    BY <1>3, <2>1 DEF CallWhole, Uploading, Whole
  <2> QED
    BY <1>0, <1>3, <2>2, <2>3, SpendStep
<1>4. CASE call' = [call EXCEPT ![c].pc = "answer", ![c].match.messages = {Last}]
  <2> DEFINE m == [NoMatch EXCEPT !.messages = {Last}]
             k == [call[c] EXCEPT !.pc = "answer", !.match = m]
  <2>1. m \in Matches /\ m # NoMatch /\ m.links = {}
    BY <1>2, NoMatchOK DEF NoMatch, Matches, Reads
  <2>2. call' = [call EXCEPT ![c] = k]
    BY <1>1, <1>4
  <2> HIDE DEF m
  <2> QED
    BY <1>3, <2>1, <2>2
<1>5. CASE call' = [call EXCEPT ![c].pc = "answer", ![c].match.followUp = Last]
  <2> DEFINE m == [NoMatch EXCEPT !.followUp = Last]
             k == [call[c] EXCEPT !.pc = "answer", !.match = m]
  <2>1. m \in Matches /\ m # NoMatch /\ m.links = {}
    BY <1>2, NoMatchOK DEF NoMatch, Matches, Reads
  <2>2. call' = [call EXCEPT ![c] = k]
    BY <1>1, <1>5
  <2> HIDE DEF m
  <2> QED
    BY <1>3, <2>1, <2>2
<1>6. CASE End(c)
  BY <1>0, <1>6, SpendStep, IdleOK, IdleWhole DEF End
<1> QED
  BY <1>4, <1>5, <1>6 DEF GenerateMessages, RegenerateMessage, AnalyzeReply, OtherRead

\* The next object goes to the next place of the strip.
LEMMA NextPhoto ==
    ASSUME NEW links, NEW u, NEW r, NEW j \in Nat, NEW S, HasStrip(links, u, r, j, S)
    PROVE  HasStrip(links \cup {Photo(u, r, j + 1)}, u, r, j + 1, S \cup {Photo(u, r, j + 1)})
<1> DEFINE o == Photo(u, r, j + 1)
<1>1. links = Strip(u, r, j) /\ IsFiniteSet(links) /\ Cardinality(links) = j /\ links \subseteq S
  BY DEF HasStrip
<1>2. o \notin links
  BY <1>1 DEF Strip, Photo
<1>3. links \cup {o} = Strip(u, r, j + 1)
  <2>1. 1..(j + 1) = (1..j) \cup {j + 1}
    OBVIOUS
  <2> QED
    BY <1>1, <2>1 DEF Strip
<1> HIDE DEF o
<1>4. IsFiniteSet(links \cup {o}) /\ Cardinality(links \cup {o}) = j + 1
  BY <1>1, <1>2, FS_AddElement
<1> QED
  BY <1>1, <1>3, <1>4 DEF HasStrip, o

LEMMA UploadPhotoStep ==
    ASSUME IInv, NEW c \in Calls, UploadPhoto(c) PROVE IInv'
<1> DEFINE m == call[c].match
           r == Read(c)
           u == call[c].user
           photo == Photo(u, r, Uploaded(c) + 1)
           n == [m EXCEPT !.links = m.links \cup {photo}]
           k == [call[c] EXCEPT !.match = n,
                                !.pc = IF photo.place = Wanted(r) THEN "answer" ELSE @]
<1>0. In(c, "upload") /\ ~In(c, "idle") /\ UNCHANGED <<user, copy, row, images>>
      /\ stored' = stored \cup {photo}
  BY DEF UploadPhoto, In
<1>1. /\ CallOK(call[c]) /\ CallWhole(call[c], images, stored) /\ call[c] \in CallRecord
      /\ call[c].device \in Devices /\ u \in Users /\ call[c].id \in Ids /\ m \in Matches
      /\ m.analysis # 0
  BY <1>0, CallFields DEF CallOK, In
<1>2. PICK j \in 0..(Kept(images[r]) - 1) : HasStrip(m.links, u, r, j, stored)
  BY <1>0, <1>1 DEF CallWhole, Uploading, In, Read
<1>3. r \in 1..Len(images) /\ r = m.analysis /\ r \in Reads /\ images[r] \in Nat
  <2>1. r \in 1..Len(images) /\ r = m.analysis
    BY <1>0, <1>1 DEF CallWhole, Uploading, In, Read
  <2> QED
    BY <2>1, ImageOK DEF IInv, TypeInv
<1>4. Wanted(r) = Kept(images[r]) /\ Kept(images[r]) \in 0..MaxPhotos
  BY <1>3, ArchiveAssumption DEF Wanted, Kept
<1>5. j \in Nat /\ j + 1 \in 1..Kept(images[r]) /\ j + 1 \in 1..MaxPhotos /\ Uploaded(c) = j
  BY <1>2, <1>4, ArchiveAssumption DEF HasStrip, Uploaded
<1>6. photo = Photo(u, r, j + 1) /\ photo \in Photos /\ photo.place = j + 1
  BY <1>1, <1>3, <1>5 DEF Photo, Photos
<1>7. call' = [call EXCEPT ![c] = k]
  BY DEF UploadPhoto
<1> HIDE DEF photo
<1>9. n \in Matches /\ n.analysis = r /\ n.links = m.links \cup {photo}
  BY <1>1, <1>3, <1>6 DEF Matches
<1> HIDE DEF n
<1>8. /\ k.pc = (IF photo.place = Wanted(r) THEN "answer" ELSE "upload")
      /\ k.device = call[c].device /\ k.user = u /\ k.id = call[c].id /\ k.match = n
  BY <1>0, <1>1 DEF CallRecord, In
<1>10. k \in CallRecord
  BY <1>1, <1>9 DEF CallRecord, Labels
<1> HIDE DEF k
<1>11. CallOK(k)
  BY <1>1, <1>3, <1>8, <1>9, <1>10, NoMatchOK DEF CallOK
<1>12. HasStrip(k.match.links, u, r, j + 1, stored')
  <2>1. HasStrip(m.links \cup {Photo(u, r, j + 1)}, u, r, j + 1, stored \cup {Photo(u, r, j + 1)})
    BY <1>2, <1>5, NextPhoto
  <2> QED
    BY <1>0, <1>6, <1>8, <1>9, <2>1
<1>13. CallWhole(k, images', stored')
  <2>1. CASE j + 1 = Kept(images[r])
    BY <1>0, <1>1, <1>3, <1>4, <1>6, <1>8, <1>9, <1>12, <2>1 DEF CallWhole, Uploading, Whole
  <2>2. CASE j + 1 # Kept(images[r])
    <3>1. j + 1 \in 0..(Kept(images[r]) - 1)
      BY <1>4, <1>5, <2>2
    <3> QED
      BY <1>0, <1>3, <1>4, <1>6, <1>8, <1>9, <1>12, <2>2, <3>1 DEF CallWhole, Uploading
  <2> QED
    BY <2>1, <2>2
<1>14. CallsOK(call') /\ call'[c] = k /\ \A x \in Calls : x # c => call'[x] = call[x]
  BY <1>7, <1>11, CallEdit DEF IInv, TypeInv
<1>15. TypeInv'
  BY <1>0, <1>6, <1>14 DEF IInv, TypeInv
<1>16. /\ \A x : Whole(x, images, stored) => Whole(x, images, stored')
       /\ \A x : CallWhole(x, images, stored) => CallWhole(x, images, stored')
  <2>1. ImagesOK(images)
    BY DEF IInv, TypeInv
  <2>2. Len(images) <= Len(images)
    BY <2>1 DEF ImagesOK
  <2> QED
    BY <1>0, <2>1, <2>2, StaysWhole
<1>17. PhotosInv'
  BY <1>0, <1>13, <1>14, <1>16 DEF IInv, PhotosInv
<1> QED
  BY <1>15, <1>17 DEF IInv

LEMMA UploadFailsStep ==
    ASSUME IInv, NEW c \in Calls, UploadFails(c) PROVE IInv'
<1> DEFINE m == call[c].match
           n == [m EXCEPT !.links = {}]
           k == [call[c] EXCEPT !.pc = "answer", !.match = n]
<1>0. In(c, "upload") /\ ~In(c, "idle") /\ UNCHANGED <<user, copy, row, stored, images>>
  BY DEF UploadFails, In
<1>1. /\ CallOK(call[c]) /\ call[c] \in CallRecord
      /\ call[c].device \in Devices /\ call[c].user \in Users /\ call[c].id \in Ids /\ m \in Matches
      /\ m.analysis # 0
  BY <1>0, CallFields DEF CallOK, In
<1>2. call' = [call EXCEPT ![c] = k]
  BY DEF UploadFails
<1>4. n \in Matches /\ n.analysis # 0 /\ n.links = {}
  BY <1>1 DEF Matches
<1> HIDE DEF n
<1>3. /\ k.pc = "answer" /\ k.device = call[c].device /\ k.user = call[c].user
      /\ k.id = call[c].id /\ k.match = n
  BY <1>1 DEF CallRecord
<1>5. k \in CallRecord
  BY <1>1, <1>4 DEF CallRecord, Labels
<1> HIDE DEF k
<1>6. CallOK(k)
  BY <1>1, <1>3, <1>4, <1>5, NoMatchOK DEF CallOK
<1>7. CallWhole(k, images, stored)
  BY <1>3, <1>4 DEF CallWhole, Uploading, Whole
<1> QED
  BY <1>0, <1>2, <1>6, <1>7, CallStep

\* What an answer adds to the device's match.
LEMMA AnswerStep ==
    ASSUME IInv, NEW c \in Calls, Answer(c) PROVE IInv'
<1> DEFINE d == call[c].device
           i == call[c].id
           got == call[c].match
           old == copy[d][i]
           more == [old EXCEPT !.messages = @ \cup got.messages,
                               !.followUp = IF got.followUp # 0 THEN got.followUp ELSE @]
           new == IF got.analysis # 0 THEN got ELSE more
<1>0. In(c, "answer") /\ ~In(c, "idle") /\ End(c) /\ UNCHANGED <<user, row, stored, images>>
  BY DEF Answer, In
<1>10. copy' = [copy EXCEPT ![d][i] = new]
  BY DEF Answer
<1>1. /\ CallWhole(call[c], images, stored)
      /\ d \in Devices /\ i \in Ids /\ got \in Matches
  BY <1>0, CallFields
<1>2. copy \in [Devices -> [Ids -> Matches]] /\ old \in Matches /\ Whole(old, images, stored)
  BY <1>1 DEF IInv, TypeInv, PhotosInv
<1>3. Whole(got, images, stored)
  BY <1>0, <1>1 DEF CallWhole, In
<1>4. more \in Matches /\ more.links = old.links /\ more.analysis = old.analysis
  BY <1>1, <1>2 DEF Matches
<1> HIDE DEF more
<1>5. new \in Matches /\ Whole(new, images, stored)
  BY <1>1, <1>2, <1>3, <1>4 DEF Whole
<1> HIDE DEF new, d, i
<1>6. /\ copy' \in [Devices -> [Ids -> Matches]]
      /\ \A e \in Devices : \A x \in Ids : Whole(copy'[e][x], images, stored)
  <2>1. ASSUME NEW e \in Devices, NEW x \in Ids
        PROVE  copy'[e][x] = IF e = d /\ x = i THEN new ELSE copy[e][x]
    BY <1>1, <1>2, <1>10
  <2>2. copy' \in [Devices -> [Ids -> Matches]]
    BY <1>1, <1>2, <1>5, <1>10
  <2> QED
    BY <1>5, <2>1, <2>2 DEF IInv, PhotosInv
<1>7. /\ CallsOK(call')
      /\ \A x \in Calls : CallWhole(call'[x], images, stored)
  BY <1>0, EndCall
<1>8. TypeInv'
  BY <1>0, <1>6, <1>7 DEF IInv, TypeInv
<1>9. PhotosInv'
  BY <1>0, <1>6, <1>7 DEF IInv, PhotosInv
<1> QED
  BY <1>8, <1>9 DEF IInv

\* A request ends, and a row becomes one that is well-formed and whole.
LEMMA RowStep ==
    ASSUME IInv, NEW c \in Calls, NEW i \in Ids, NEW r, RowOK(r), Whole(r.match, images, stored),
           row' = [row EXCEPT ![i] = r], End(c), UNCHANGED <<user, copy, stored, images>>
    PROVE  IInv'
<1>1. /\ CallsOK(call')
      /\ \A x \in Calls : CallWhole(call'[x], images, stored)
  BY EndCall
<1>2. row \in [Ids -> [owner : Users \cup {Nothing}, match : Matches]]
      /\ \A x \in Ids : row'[x] = IF x = i THEN r ELSE row[x]
  BY DEF IInv, TypeInv, RowsOK
<1>3. RowsOK(row')
  BY <1>2 DEF IInv, TypeInv, RowsOK, RowOK
<1>4. \A x \in Ids : Whole(row'[x].match, images, stored)
  BY <1>2 DEF IInv, PhotosInv
<1>5. TypeInv'
  BY <1>1, <1>3 DEF IInv, TypeInv
<1>6. PhotosInv'
  BY <1>1, <1>4 DEF IInv, PhotosInv
<1> QED
  BY <1>5, <1>6 DEF IInv

LEMMA PutFindsStep ==
    ASSUME IInv, NEW c \in Calls, PutFinds(c) PROVE IInv'
<1> DEFINE i == call[c].id
           m == call[c].match
           r == [row[i] EXCEPT !.match = m]
<1>0. /\ In(c, "put") /\ ~In(c, "idle") /\ row[i].owner = call[c].user /\ End(c)
      /\ UNCHANGED <<user, copy, stored, images>>
  BY DEF PutFinds, In, Owns
<1>1. /\ call[c].user \in Users /\ i \in Ids /\ m \in Matches /\ m.analysis # 0
      /\ Whole(m, images, stored)
  BY <1>0, CallFields DEF CallOK, CallWhole, In
<1>2. row' = [row EXCEPT ![i] = r]
  BY DEF PutFinds
<1>3. row[i] \in [owner : Users \cup {Nothing}, match : Matches]
  BY <1>1 DEF IInv, TypeInv, RowsOK
<1>4. RowOK(r) /\ r.match = m
  BY <1>0, <1>1, <1>3, ArchiveAssumption DEF RowOK
<1> HIDE DEF r
<1> QED
  BY <1>0, <1>1, <1>2, <1>4, RowStep

LEMMA PutMissesStep ==
    ASSUME IInv, NEW c \in Calls, PutMisses(c) PROVE IInv'
<1> DEFINE k == [call[c] EXCEPT !.pc = "insert"]
<1>0. In(c, "put") /\ ~In(c, "idle") /\ UNCHANGED <<user, copy, row, stored, images>>
      /\ call' = [call EXCEPT ![c] = k]
  BY DEF PutMisses, In, Go
<1>1. CallOK(call[c]) /\ CallWhole(call[c], images, stored) /\ call[c] \in CallRecord
  BY <1>0, CallFields
<1>2. /\ k \in CallRecord /\ k.pc = "insert" /\ k.device = call[c].device
      /\ k.user = call[c].user /\ k.id = call[c].id /\ k.match = call[c].match
  BY <1>1 DEF CallRecord, Labels
<1> HIDE DEF k
<1>3. CallOK(k)
  BY <1>0, <1>1, <1>2 DEF CallOK, In
<1>4. CallWhole(k, images, stored)
  BY <1>0, <1>1, <1>2 DEF CallWhole, Uploading, In
<1> QED
  BY <1>0, <1>3, <1>4, CallStep

LEMMA PutInsertsStep ==
    ASSUME IInv, NEW c \in Calls, PutInserts(c) PROVE IInv'
<1> DEFINE i == call[c].id
           m == call[c].match
           new == [owner |-> call[c].user, match |-> m]
<1>0. In(c, "insert") /\ ~In(c, "idle") /\ End(c) /\ UNCHANGED <<user, copy, stored, images>>
  BY DEF PutInserts, In
<1>1. /\ call[c].user \in Users /\ i \in Ids /\ m \in Matches /\ m.analysis # 0
      /\ Whole(m, images, stored)
  BY <1>0, CallFields DEF CallOK, CallWhole, In
<1>2. RowOK(row[i]) /\ Whole(row[i].match, images, stored)
  BY <1>1 DEF IInv, TypeInv, RowsOK, PhotosInv
<1>3. RowOK(new)
  BY <1>1, ArchiveAssumption DEF RowOK
<1>4. row' = [row EXCEPT ![i] = IF row[i] = NoRow THEN new ELSE row[i]]
  BY <1>1 DEF PutInserts, IInv, TypeInv, RowsOK
<1>5. CASE row[i] = NoRow
  BY <1>0, <1>1, <1>3, <1>4, <1>5, RowStep
<1>6. CASE row[i] # NoRow
  BY <1>0, <1>1, <1>2, <1>4, <1>6, RowStep
<1> QED
  BY <1>5, <1>6

LEMMA DeleteFindsStep ==
    ASSUME IInv, NEW c \in Calls, DeleteFinds(c) PROVE IInv'
<1> DEFINE k == [call[c] EXCEPT !.pc = "remove"]
<1>0. In(c, "delete") /\ ~In(c, "idle") /\ UNCHANGED <<user, copy, row, stored, images>>
      /\ (End(c) \/ call' = [call EXCEPT ![c] = k])
  BY DEF DeleteFinds, In, Go
<1>1. CallOK(call[c]) /\ CallWhole(call[c], images, stored) /\ call[c] \in CallRecord
  BY <1>0, CallFields
<1>2. /\ k \in CallRecord /\ k.pc = "remove" /\ k.device = call[c].device
      /\ k.user = call[c].user /\ k.id = call[c].id /\ k.match = call[c].match
  BY <1>1 DEF CallRecord, Labels
<1> HIDE DEF k
<1>3. CallOK(k)
  BY <1>0, <1>1, <1>2 DEF CallOK, In, Labels
<1>4. CallWhole(k, images, stored)
  BY <1>0, <1>1, <1>2 DEF CallWhole, Uploading, In
<1>5. CASE End(c)
  BY <1>0, <1>5, EndStep
<1>6. CASE call' = [call EXCEPT ![c] = k]
  BY <1>0, <1>3, <1>4, <1>6, CallStep
<1> QED
  BY <1>0, <1>5, <1>6

LEMMA DeleteRemovesStep ==
    ASSUME IInv, NEW c \in Calls, DeleteRemoves(c) PROVE IInv'
<1>0. In(c, "remove") /\ ~In(c, "idle") /\ End(c) /\ UNCHANGED <<user, copy, stored, images>>
      /\ row' = [row EXCEPT ![call[c].id] = NoRow]
  BY DEF DeleteRemoves, In
<1>1. call[c].id \in Ids
  BY <1>0, CallFields
<1>2. RowOK(NoRow) /\ Whole(NoRow.match, images, stored)
  BY NoMatchOK, IdleWhole DEF RowOK, NoRow
<1> QED
  BY <1>0, <1>1, <1>2, RowStep

LEMMA ListStep ==
    ASSUME IInv, NEW d \in Devices, List(d) PROVE IInv'
<1> DEFINE new == [i \in Ids |-> IF Owns(user[d], i) THEN row[i].match ELSE copy[d][i]]
<1>0. copy' = [copy EXCEPT ![d] = new] /\ UNCHANGED <<user, row, stored, call, images>>
  BY DEF List
<1>1. /\ copy \in [Devices -> [Ids -> Matches]]
      /\ \A i \in Ids : row[i].match \in Matches /\ copy[d][i] \in Matches
      /\ \A i \in Ids : Whole(row[i].match, images, stored) /\ Whole(copy[d][i], images, stored)
  BY DEF IInv, TypeInv, RowsOK, PhotosInv
<1>2. new \in [Ids -> Matches] /\ \A i \in Ids : Whole(new[i], images, stored)
  BY <1>1
<1> HIDE DEF new
<1>3. /\ copy' \in [Devices -> [Ids -> Matches]]
      /\ \A e \in Devices : copy'[e] = IF e = d THEN new ELSE copy[e]
  BY <1>0, <1>1, <1>2
<1>4. \A e \in Devices : \A i \in Ids : Whole(copy'[e][i], images, stored)
  BY <1>2, <1>3 DEF IInv, PhotosInv
<1>5. TypeInv'
  BY <1>0, <1>3 DEF IInv, TypeInv
<1>6. PhotosInv'
  BY <1>0, <1>4 DEF IInv, PhotosInv
<1> QED
  BY <1>5, <1>6 DEF IInv

LEMMA SignInStep ==
    ASSUME IInv, NEW d \in Devices, NEW u \in Users, SignIn(d, u) PROVE IInv'
<1>1. TypeInv'
  BY DEF SignIn, IInv, TypeInv
<1>2. PhotosInv'
  BY DEF SignIn, IInv, PhotosInv
<1> QED
  BY <1>1, <1>2 DEF IInv

LEMMA StepInv == IInv /\ [Next]_vars => IInv'
<1> SUFFICES ASSUME IInv, [Next]_vars PROVE IInv'
  OBVIOUS
<1>1. ASSUME NEW c \in Calls, NEW d \in Devices, NEW i \in Ids,
             Ask(c, d, i) \/ Put(c, d, i) \/ Delete(c, d, i)
      PROVE  IInv'
  BY <1>1, RequestStep
<1>2. ASSUME NEW c \in Calls,
             \/ AnalyzeProfile(c) \/ GenerateMessages(c) \/ RegenerateMessage(c) \/ AnalyzeReply(c)
             \/ OtherRead(c)
      PROVE  IInv'
  BY <1>2, AnalyzeStep, GenerateStep
<1>3. ASSUME NEW c \in Calls, GenerationFails(c) \/ Dies(c) PROVE IInv'
  BY <1>3, EndStep DEF GenerationFails, Dies
<1>4. ASSUME NEW c \in Calls, UploadPhoto(c) \/ UploadFails(c) \/ Answer(c) PROVE IInv'
  BY <1>4, UploadPhotoStep, UploadFailsStep, AnswerStep
<1>5. ASSUME NEW c \in Calls, PutFinds(c) \/ PutMisses(c) \/ PutInserts(c) PROVE IInv'
  BY <1>5, PutFindsStep, PutMissesStep, PutInsertsStep
<1>6. ASSUME NEW c \in Calls, DeleteFinds(c) \/ DeleteRemoves(c) PROVE IInv'
  BY <1>6, DeleteFindsStep, DeleteRemovesStep
<1>7. ASSUME NEW d \in Devices, List(d) \/ \E u \in Users : SignIn(d, u) PROVE IInv'
  BY <1>7, ListStep, SignInStep
<1>8. CASE UNCHANGED vars
  <2>1. TypeInv'
    BY <1>8 DEF vars, IInv, TypeInv
  <2>2. PhotosInv'
    BY <1>8 DEF vars, IInv, PhotosInv
  <2> QED
    BY <2>1, <2>2 DEF IInv
<1> QED
  BY <1>1, <1>2, <1>3, <1>4, <1>5, <1>6, <1>7, <1>8 DEF Next

LEMMA Invariance == Spec => []IInv
<1> QED
  BY InitInv, StepInv, PTL DEF Spec

-----------------------------------------------------------------------------
\* However an upload fails, and whichever account a device saves a match under,
\* a saved match shows its owner all the screenshots that were sent (the first
\* MaxPhotos) or none of them (upload_read_images, signed_urls).
THEOREM PhotosHold == Spec => []PhotosAllOrNone
<1>1. IInv => PhotosAllOrNone
  <2> SUFFICES ASSUME IInv, NEW i \in Ids, Signed(row[i].owner, row[i].match.links) # {}
               PROVE  /\ Cardinality(Signed(row[i].owner, row[i].match.links))
                           = Wanted(row[i].match.analysis)
                      /\ Signed(row[i].owner, row[i].match.links) \subseteq stored
    BY DEF PhotosAllOrNone
  <2> DEFINE links == row[i].match.links
             r == row[i].match.analysis
             shown == Signed(row[i].owner, links)
  <2>1. Whole(row[i].match, images, stored) /\ links # {}
    BY DEF IInv, PhotosInv, Signed
  <2>2. PICK u \in Users : r \in 1..Len(images) /\ HasStrip(links, u, r, Kept(images[r]), stored)
    BY <2>1 DEF Whole
  <2>3. Kept(images[r]) \in 0..MaxPhotos /\ Wanted(r) = Kept(images[r])
    BY <2>2, ImageOK, ArchiveAssumption DEF IInv, TypeInv, Kept, Wanted
  <2>4. \A o \in links : o.user = u /\ o.place <= MaxPhotos
    BY <2>2, <2>3, ArchiveAssumption DEF HasStrip, Strip, Photo
  <2>5. row[i].owner = u
    BY <2>4 DEF Signed
  <2>6. shown = links
    BY <2>4, <2>5 DEF Signed
  <2> QED
    BY <2>2, <2>3, <2>6 DEF HasStrip
<1> QED
  BY <1>1, Invariance, PTL

-----------------------------------------------------------------------------
(* Openers that are saved stay saved.  What a device holds covers the row of   *)
(* its account unless it is behind, and what a save carries covers the row     *)
(* unless it is late; both must be known of every device and every request,    *)
(* since any of them may write the row next.                                   *)

Openers(match) == match.messages

HistoryOK == behind \subseteq Devices \X Ids /\ late \subseteq {c \in Calls : Writing(c)}

DevicesCover ==
    \A d \in Devices : \A i \in Ids :
        <<d, i>> \notin behind /\ Owns(user[d], i) => Openers(row[i].match) \subseteq Openers(copy[d][i])

\* A device goes on holding what it is saving.
SavesHeld ==
    \A c \in Calls :
        call[c].pc \in {"put", "insert"} /\ <<call[c].device, call[c].id>> \notin behind =>
            Openers(call[c].match) \subseteq Openers(copy[call[c].device][call[c].id])

SavesCover ==
    \A c \in Calls :
        In(c, "put") /\ c \notin late /\ Owns(call[c].user, call[c].id) =>
            Openers(row[call[c].id].match) \subseteq Openers(call[c].match)

DeletesOwn ==
    \A c \in Calls :
        In(c, "remove") /\ c \notin late =>
            Owns(call[c].user, call[c].id) \/ row[call[c].id] = NoRow

LateInv == HistoryOK /\ DevicesCover /\ SavesHeld /\ SavesCover /\ DeletesOwn

LEMMA LateInit == Init => LateInv
<1> SUFFICES ASSUME Init PROVE LateInv
  OBVIOUS
<1>1. \A c \in Calls : call[c].pc = "idle"
  BY IdleOK DEF Init
<1>2. \A i \in Ids : row[i].owner = Nothing
  BY DEF Init, NoRow
<1>3. \A d \in Devices : user[d] # Nothing
  BY ArchiveAssumption DEF Init
<1>4. HistoryOK
  BY DEF Init, HistoryOK
<1>5. DevicesCover
  BY <1>2, <1>3 DEF DevicesCover, Owns
<1> QED
  BY <1>1, <1>4, <1>5 DEF LateInv, SavesHeld, SavesCover, DeletesOwn, In

\* A request that neither saves nor removes, or no longer does.
LEMMA QuietStep ==
    ASSUME LateInv, NEW c \in Calls, UNCHANGED <<user, copy, row, behind>>, ~Writing(c)',
           \A x \in Calls : x # c => call'[x] = call[x],
           late' = late \ {c} \/ (late' = late /\ ~Writing(c))
    PROVE  LateInv'
<1>1. late' = late \ {c}
  BY DEF LateInv, HistoryOK
<1>2. HistoryOK'
  BY <1>1 DEF LateInv, HistoryOK, Writing
<1>3. DevicesCover'
  BY DEF LateInv, DevicesCover, Owns
<1>4. SavesHeld'
  BY DEF LateInv, SavesHeld, Writing
<1>5. SavesCover'
  BY <1>1 DEF LateInv, SavesCover, Writing, In, Owns
<1>6. DeletesOwn'
  BY <1>1 DEF LateInv, DeletesOwn, Writing, In, Owns
<1> QED
  BY <1>2, <1>3, <1>4, <1>5, <1>6 DEF LateInv

\* One request moves on; what it becomes.
LEMMA OneCall ==
    ASSUME IInv, NEW c \in Calls, NEW k, call' = [call EXCEPT ![c] = k]
    PROVE  call'[c] = k /\ \A x \in Calls : x # c => call'[x] = call[x]
  BY DEF IInv, TypeInv, CallsOK

LEMMA QuietRequest ==
    ASSUME IInv, LateInv, NEW c \in Calls, NEW d \in Devices, NEW i \in Ids,
           Ask(c, d, i) \/ Delete(c, d, i)
    PROVE  LateInv'
<1>1. PICK pc \in {"other", "analyze", "openers", "tweak", "reply", "delete"} :
        Request(c, d, i, pc, NoMatch)
  BY DEF Ask, Delete
<1> DEFINE k == [pc |-> pc, device |-> d, user |-> user[d], id |-> i, match |-> NoMatch]
<1>2. k.pc = pc /\ call' = [call EXCEPT ![c] = k] /\ late' = late /\ In(c, "idle")
      /\ UNCHANGED <<user, copy, row, behind>>
  BY <1>1 DEF Request
<1> HIDE DEF k
<1>3. ~Writing(c)
  BY <1>2 DEF In, Writing
<1>4. call'[c] = k /\ \A x \in Calls : x # c => call'[x] = call[x]
  BY <1>2, OneCall
<1>5. ~Writing(c)'
  BY <1>2, <1>4 DEF Writing
<1> QED
  BY <1>2, <1>3, <1>4, <1>5, QuietStep

LEMMA PutLate ==
    ASSUME IInv, LateInv, NEW c \in Calls, NEW d \in Devices, NEW i \in Ids, Put(c, d, i)
    PROVE  LateInv'
<1> DEFINE k == [pc |-> "put", device |-> d, user |-> user[d], id |-> i, match |-> copy[d][i]]
<1>1. /\ k.pc = "put" /\ k.device = d /\ k.user = user[d] /\ k.id = i /\ k.match = copy[d][i]
      /\ call' = [call EXCEPT ![c] = k] /\ In(c, "idle")
      /\ late' = (IF <<d, i>> \in behind THEN late \cup {c} ELSE late)
      /\ UNCHANGED <<user, copy, row, behind>>
  BY DEF Put, Request
<1> HIDE DEF k
<1>2. call'[c] = k /\ \A x \in Calls : x # c => call'[x] = call[x]
  BY <1>1, OneCall
<1>3. c \notin late
  BY <1>1 DEF LateInv, HistoryOK, Writing, In
<1>4. HistoryOK'
  BY <1>1, <1>2 DEF LateInv, HistoryOK, Writing
<1>5. DevicesCover'
  BY <1>1 DEF LateInv, DevicesCover, Owns
<1>6. SavesHeld'
  BY <1>1, <1>2 DEF LateInv, SavesHeld
<1>7. SavesCover'
  <2>1. c \notin late' /\ Owns(user[d], i) => Openers(row[i].match) \subseteq Openers(copy[d][i])
    BY <1>1 DEF LateInv, DevicesCover
  <2>2. \A x \in Calls : x # c => (x \in late' <=> x \in late)
    BY <1>1
  <2> QED
    BY <1>1, <1>2, <2>1, <2>2 DEF LateInv, SavesCover, In, Owns
<1>8. DeletesOwn'
  <2>1. \A x \in Calls : x # c => (x \in late' <=> x \in late)
    BY <1>1
  <2> QED
    BY <1>1, <1>2, <2>1 DEF LateInv, DeletesOwn, In, Owns
<1> QED
  BY <1>4, <1>5, <1>6, <1>7, <1>8 DEF LateInv

\* The steps of a request that reads, and the ends of any.
LEMMA ReadLate ==
    ASSUME IInv, LateInv, NEW c \in Calls,
           \/ AnalyzeProfile(c) \/ GenerateMessages(c) \/ RegenerateMessage(c) \/ AnalyzeReply(c)
           \/ OtherRead(c) \/ GenerationFails(c) \/ UploadPhoto(c) \/ UploadFails(c) \/ Dies(c)
    PROVE  LateInv'
<1>1. UNCHANGED <<user, copy, row, behind>>
  BY DEF AnalyzeProfile, GenerateMessages, RegenerateMessage, AnalyzeReply, OtherRead, Spends,
         GenerationFails, UploadPhoto, UploadFails, Dies, history
<1>2. late' = late \ {c} \/ (late' = late /\ ~Writing(c))
  BY DEF AnalyzeProfile, GenerateMessages, RegenerateMessage, AnalyzeReply, OtherRead, Spends,
         GenerationFails, UploadPhoto, UploadFails, Dies, history, In, Writing
<1>3. ~In(c, "idle")
  BY DEF AnalyzeProfile, GenerateMessages, RegenerateMessage, AnalyzeReply, OtherRead,
         GenerationFails, UploadPhoto, UploadFails, Dies, In
<1>5. /\ \A x \in Calls : x # c => call'[x] = call[x]
      /\ ~Writing(c)'
  <2>1. CASE End(c)
    BY <2>1, IdleOK, OneCall DEF End, Writing
  <2>2. CASE AnalyzeProfile(c)
    <3>1. PICK n \in Screenshots :
            call' = [call EXCEPT ![c].pc = IF n = 0 THEN "answer" ELSE "upload",
                                 ![c].match.analysis = Last]
      BY <2>2 DEF AnalyzeProfile
    <3> DEFINE k == [call[c] EXCEPT !.pc = IF n = 0 THEN "answer" ELSE "upload",
                                    !.match = [call[c].match EXCEPT !.analysis = Last]]
    <3>2. call' = [call EXCEPT ![c] = k]
      BY <3>1
    <3>3. k.pc \in {"answer", "upload"}
      BY <1>3, CallFields DEF CallRecord
    <3> HIDE DEF k
    <3> QED
      BY <3>2, <3>3, OneCall DEF Writing
  <2>3. CASE GenerateMessages(c) \/ RegenerateMessage(c) \/ AnalyzeReply(c) \/ UploadFails(c)
    <3>1. PICK m : call' = [call EXCEPT ![c] = [call[c] EXCEPT !.pc = "answer", !.match = m]]
      <4>1. CASE call' = [call EXCEPT ![c].pc = "answer", ![c].match.messages = {Last}]
        <5>1. call' = [call EXCEPT ![c] = [call[c] EXCEPT !.pc = "answer",
                         !.match = [call[c].match EXCEPT !.messages = {Last}]]]
          BY <4>1
        <5> QED
          BY <5>1
      <4>2. CASE call' = [call EXCEPT ![c].pc = "answer", ![c].match.followUp = Last]
        <5>1. call' = [call EXCEPT ![c] = [call[c] EXCEPT !.pc = "answer",
                         !.match = [call[c].match EXCEPT !.followUp = Last]]]
          BY <4>2
        <5> QED
          BY <5>1
      <4>3. CASE call' = [call EXCEPT ![c].pc = "answer", ![c].match.links = {}]
        <5>1. call' = [call EXCEPT ![c] = [call[c] EXCEPT !.pc = "answer",
                         !.match = [call[c].match EXCEPT !.links = {}]]]
          BY <4>3
        <5> QED
          BY <5>1
      <4> QED
        BY <2>3, <4>1, <4>2, <4>3 DEF GenerateMessages, RegenerateMessage, AnalyzeReply, UploadFails
    <3> DEFINE k == [call[c] EXCEPT !.pc = "answer", !.match = m]
    <3>2. k.pc = "answer" /\ call' = [call EXCEPT ![c] = k]
      BY <1>3, <3>1, CallFields DEF CallRecord
    <3> HIDE DEF k
    <3> QED
      BY <3>2, OneCall DEF Writing
  <2>4. CASE UploadPhoto(c)
    <3> DEFINE photo == Photo(call[c].user, Read(c), Uploaded(c) + 1)
               pc == IF photo.place = Wanted(Read(c)) THEN "answer" ELSE call[c].pc
               m == [call[c].match EXCEPT !.links = @ \cup {photo}]
               k == [call[c] EXCEPT !.match = m, !.pc = pc]
    <3>1. call' = [call EXCEPT ![c] = k]
      BY <2>4 DEF UploadPhoto
    <3>2. pc \in {"answer", "upload"}
      BY <2>4 DEF UploadPhoto, In
    <3> HIDE DEF pc, m
    <3>3. k.pc \in {"answer", "upload"}
      BY <1>3, <3>2, CallFields DEF CallRecord
    <3> HIDE DEF k
    <3> QED
      BY <3>1, <3>3, OneCall DEF Writing
  <2> QED
    BY <2>1, <2>2, <2>3, <2>4 DEF OtherRead, GenerationFails, Dies
<1> QED
  BY <1>1, <1>2, <1>5, QuietStep

\* An answer adds to what the device holds, or it is behind.
LEMMA AnswerLate ==
    ASSUME IInv, LateInv, NEW c \in Calls, Answer(c) PROVE LateInv'
<1> DEFINE d == call[c].device
           i == call[c].id
           got == call[c].match
           old == copy[d][i]
           more == [old EXCEPT !.messages = @ \cup got.messages,
                               !.followUp = IF got.followUp # 0 THEN got.followUp ELSE @]
           new == IF got.analysis # 0 THEN got ELSE more
<1>1. In(c, "answer") /\ ~In(c, "idle") /\ End(c) /\ UNCHANGED <<user, row, late>>
  BY DEF Answer, In
<1>2. copy' = [copy EXCEPT ![d][i] = new]
  BY DEF Answer
<1>3. behind' = (IF got.analysis # 0 /\ old # NoMatch THEN behind \cup {<<d, i>>} ELSE behind)
  BY DEF Answer
<1>4. d \in Devices /\ i \in Ids /\ got \in Matches
  BY <1>1, CallFields
<1>5. copy \in [Devices -> [Ids -> Matches]] /\ old \in Matches
  BY <1>4 DEF IInv, TypeInv
<1>6. more.messages = old.messages \cup got.messages
  BY <1>5 DEF Matches
<1>7. NoMatch.messages = {}
  BY DEF NoMatch
<1> HIDE DEF more
<1>8. <<d, i>> \notin behind' => Openers(old) \subseteq Openers(new)
  BY <1>3, <1>6, <1>7 DEF Openers
<1> HIDE DEF new
<1>9. \A e \in Devices : \A x \in Ids :
        /\ <<e, x>> \notin behind' => Openers(copy[e][x]) \subseteq Openers(copy'[e][x])
        /\ <<e, x>> \notin behind' => <<e, x>> \notin behind
  <2>1. ASSUME NEW e \in Devices, NEW x \in Ids
        PROVE  copy'[e][x] = IF e = d /\ x = i THEN new ELSE copy[e][x]
    BY <1>2, <1>4, <1>5
  <2> QED
    BY <1>3, <1>8, <2>1
<1>10. ~Writing(c) /\ ~Writing(c)' /\ \A x \in Calls : x # c => call'[x] = call[x]
  BY <1>1, IdleOK, OneCall DEF End, Writing, In
<1>11. HistoryOK'
  BY <1>1, <1>3, <1>4, <1>10 DEF LateInv, HistoryOK, Writing
<1> HIDE DEF d, i, got, old
<1>12. DevicesCover'
  BY <1>1, <1>9 DEF LateInv, DevicesCover, Owns
<1>13. SavesHeld'
  <2> SUFFICES ASSUME NEW x \in Calls, call'[x].pc \in {"put", "insert"},
                      <<call'[x].device, call'[x].id>> \notin behind'
               PROVE  Openers(call'[x].match) \subseteq Openers(copy'[call'[x].device][call'[x].id])
    BY DEF SavesHeld
  <2>1. x # c /\ call'[x] = call[x] /\ call[x].pc \in {"put", "insert"}
    BY <1>10 DEF Writing
  <2>2. call[x].device \in Devices /\ call[x].id \in Ids
    BY <2>1, CallFields DEF In
  <2>3. Openers(call[x].match) \subseteq Openers(copy[call[x].device][call[x].id])
    BY <1>9, <2>1, <2>2 DEF LateInv, SavesHeld
  <2> QED
    BY <1>9, <2>1, <2>2, <2>3
<1>14. SavesCover'
  BY <1>1, <1>10 DEF LateInv, SavesCover, Owns, In, Writing
<1>15. DeletesOwn'
  BY <1>1, <1>10 DEF LateInv, DeletesOwn, Owns, In, Writing
<1> QED
  BY <1>11, <1>12, <1>13, <1>14, <1>15 DEF LateInv

\* What a save leaves behind: its row, the devices that lack it, the requests it
\* has overtaken.
LEMMA SavedLate ==
    ASSUME IInv, LateInv, NEW c \in Calls, call[c].pc \in {"put", "insert"}, Saved(c), End(c),
           UNCHANGED <<user, copy>>,
           NEW r, r.owner = call[c].user, r.match = call[c].match,
           row' = [row EXCEPT ![call[c].id] = r]
    PROVE  LateInv'
<1> DEFINE d == call[c].device
           i == call[c].id
<1>1. /\ behind' = behind \cup {<<e, i>> : e \in {x \in Devices \ {d} : user[x] = call[c].user}}
      /\ late' = {x \in Calls \ {c} : x \in late \/ (call[x].id = i /\ Writing(x))}
      /\ call' = [call EXCEPT ![c] = Idle]
  BY DEF Saved, End
<1>2. d \in Devices /\ i \in Ids /\ call[c].user \in Users
  BY CallFields DEF In
<1>3. /\ ~Writing(c)' /\ \A x \in Calls : x # c => call'[x] = call[x]
  BY <1>1, IdleOK, OneCall DEF Writing
<1>4. \A x \in Ids : row'[x] = IF x = i THEN r ELSE row[x]
  BY DEF IInv, TypeInv, RowsOK
<1>5. /\ \A e \in Devices : e # d /\ user[e] = call[c].user => <<e, i>> \in behind'
      /\ \A e \in Devices : \A x \in Ids : <<e, x>> \notin behind' => <<e, x>> \notin behind
  BY <1>1
<1>6. \A x \in Calls : x \notin late' /\ x # c => x \notin late /\ (call[x].id # i \/ ~Writing(x))
  BY <1>1
<1>7. HistoryOK'
  BY <1>1, <1>2, <1>3 DEF LateInv, HistoryOK, Writing
<1>8. DevicesCover'
  <2> SUFFICES ASSUME NEW e \in Devices, NEW x \in Ids, <<e, x>> \notin behind',
                      row'[x].owner = user[e]
               PROVE  Openers(row'[x].match) \subseteq Openers(copy[e][x])
    BY DEF DevicesCover, Owns
  <2>1. CASE x # i
    BY <1>4, <1>5, <2>1 DEF LateInv, DevicesCover, Owns
  <2>2. CASE x = i
    <3>1. row'[x] = r /\ e = d
      BY <1>4, <1>5, <2>2
    <3> QED
      BY <1>5, <2>2, <3>1 DEF LateInv, SavesHeld
  <2> QED
    BY <2>1, <2>2
<1>9. SavesHeld'
  <2> SUFFICES ASSUME NEW x \in Calls, call'[x].pc \in {"put", "insert"},
                      <<call'[x].device, call'[x].id>> \notin behind'
               PROVE  Openers(call'[x].match) \subseteq Openers(copy[call'[x].device][call'[x].id])
    BY DEF SavesHeld
  <2>1. x # c /\ call'[x] = call[x]
    BY <1>3 DEF Writing
  <2>2. call[x].device \in Devices /\ call[x].id \in Ids
    BY <2>1, CallFields DEF In
  <2> QED
    BY <1>5, <2>1, <2>2 DEF LateInv, SavesHeld
<1>10. SavesCover'
  <2> SUFFICES ASSUME NEW x \in Calls, call'[x].pc = "put", x \notin late',
                      row'[call'[x].id].owner = call'[x].user
               PROVE  Openers(row'[call'[x].id].match) \subseteq Openers(call'[x].match)
    BY DEF SavesCover, In, Owns
  <2>1. x # c /\ call'[x] = call[x]
    BY <1>3 DEF Writing
  <2>2. x \notin late /\ call[x].id # i /\ call[x].id \in Ids
    BY <1>6, <2>1, CallFields DEF Writing, In
  <2>3. row'[call[x].id] = row[call[x].id]
    BY <1>4, <2>2
  <2> QED
    BY <2>1, <2>2, <2>3 DEF LateInv, SavesCover, In, Owns
<1>11. DeletesOwn'
  <2> SUFFICES ASSUME NEW x \in Calls, call'[x].pc = "remove", x \notin late'
               PROVE  row'[call'[x].id].owner = call'[x].user \/ row'[call'[x].id] = NoRow
    BY DEF DeletesOwn, In, Owns
  <2>1. x # c /\ call'[x] = call[x]
    BY <1>3 DEF Writing
  <2>2. x \notin late /\ call[x].id # i /\ call[x].id \in Ids
    BY <1>6, <2>1, CallFields DEF Writing, In
  <2>3. row'[call[x].id] = row[call[x].id]
    BY <1>4, <2>2
  <2> QED
    BY <2>1, <2>2, <2>3 DEF LateInv, DeletesOwn, In, Owns
<1> QED
  BY <1>7, <1>8, <1>9, <1>10, <1>11 DEF LateInv

LEMMA PutLands ==
    ASSUME IInv, LateInv, NEW c \in Calls, PutFinds(c) \/ PutInserts(c) PROVE LateInv'
<1> DEFINE i == call[c].id
<1>1. /\ call[c].pc \in {"put", "insert"} /\ i \in Ids /\ UNCHANGED <<user, copy>>
  BY CallFields DEF PutFinds, PutInserts, In
<1>2. CASE PutFinds(c)
  <2> DEFINE r == [row[i] EXCEPT !.match = call[c].match]
  <2>1. row' = [row EXCEPT ![i] = r] /\ row[i].owner = call[c].user /\ Saved(c) /\ End(c)
    BY <1>2 DEF PutFinds, Owns
  <2>2. row[i] \in [owner : Users \cup {Nothing}, match : Matches]
    BY <1>1 DEF IInv, TypeInv, RowsOK
  <2>3. r.owner = call[c].user /\ r.match = call[c].match
    BY <2>1, <2>2
  <2> HIDE DEF r
  <2> QED
    BY <1>1, <2>1, <2>3, SavedLate
<1>3. CASE PutInserts(c) /\ row[i] = NoRow
  <2> DEFINE r == [owner |-> call[c].user, match |-> call[c].match]
  <2>1. row' = [row EXCEPT ![i] = r] /\ Saved(c) /\ End(c)
    BY <1>3 DEF PutInserts
  <2>2. r.owner = call[c].user /\ r.match = call[c].match
    OBVIOUS
  <2> HIDE DEF r
  <2> QED
    BY <1>1, <2>1, <2>2, SavedLate
<1>4. CASE PutInserts(c) /\ row[i] # NoRow
  <2>1. End(c) /\ late' = late \ {c} /\ UNCHANGED <<row, behind>>
    BY <1>4 DEF PutInserts
  <2>2. ~Writing(c)' /\ \A x \in Calls : x # c => call'[x] = call[x]
    BY <2>1, IdleOK, OneCall DEF End, Writing
  <2> QED
    BY <1>1, <2>1, <2>2, QuietStep
<1> QED
  BY <1>2, <1>3, <1>4

LEMMA PutMissesLate ==
    ASSUME IInv, LateInv, NEW c \in Calls, PutMisses(c) PROVE LateInv'
<1> DEFINE k == [call[c] EXCEPT !.pc = "insert"]
<1>1. /\ In(c, "put") /\ call' = [call EXCEPT ![c] = k] /\ UNCHANGED <<user, copy, row, behind, late>>
  BY DEF PutMisses, Go, history
<1>2. call[c] \in CallRecord
  BY <1>1, CallFields DEF In
<1>3. /\ k.pc = "insert" /\ k.device = call[c].device /\ k.id = call[c].id
      /\ k.match = call[c].match
  BY <1>2 DEF CallRecord
<1> HIDE DEF k
<1>4. call'[c] = k /\ \A x \in Calls : x # c => call'[x] = call[x]
  BY <1>1, OneCall
<1>5. HistoryOK'
  BY <1>1, <1>3, <1>4 DEF LateInv, HistoryOK, Writing
<1>6. DevicesCover'
  BY <1>1 DEF LateInv, DevicesCover, Owns
<1>7. SavesHeld'
  BY <1>1, <1>3, <1>4 DEF LateInv, SavesHeld, In
<1>8. SavesCover'
  BY <1>1, <1>3, <1>4 DEF LateInv, SavesCover, In, Owns
<1>9. DeletesOwn'
  BY <1>1, <1>3, <1>4 DEF LateInv, DeletesOwn, In, Owns
<1> QED
  BY <1>5, <1>6, <1>7, <1>8, <1>9 DEF LateInv

LEMMA DeleteLate ==
    ASSUME IInv, LateInv, NEW c \in Calls, DeleteFinds(c) \/ DeleteRemoves(c) PROVE LateInv'
<1>1. CASE DeleteFinds(c) /\ End(c)
  <2>1. /\ UNCHANGED <<user, copy, row, behind, late>> /\ ~Writing(c)
    BY <1>1 DEF DeleteFinds, history, In, Writing
  <2>2. ~Writing(c)' /\ \A x \in Calls : x # c => call'[x] = call[x]
    BY <1>1, IdleOK, OneCall DEF End, Writing
  <2> QED
    BY <2>1, <2>2, QuietStep
<1>2. CASE DeleteFinds(c) /\ ~End(c)
  <2> DEFINE k == [call[c] EXCEPT !.pc = "remove"]
  <2>1. /\ In(c, "delete") /\ call' = [call EXCEPT ![c] = k] /\ Owns(call[c].user, call[c].id)
        /\ UNCHANGED <<user, copy, row, behind, late>>
    BY <1>2 DEF DeleteFinds, Go, history
  <2>2. call[c] \in CallRecord
    BY <2>1, CallFields DEF In
  <2>3. k.pc = "remove" /\ k.user = call[c].user /\ k.id = call[c].id
    BY <2>2 DEF CallRecord
  <2> HIDE DEF k
  <2>4. call'[c] = k /\ \A x \in Calls : x # c => call'[x] = call[x]
    BY <2>1, OneCall
  <2>5. HistoryOK'
    BY <2>1, <2>3, <2>4 DEF LateInv, HistoryOK, Writing
  <2>6. DevicesCover'
    BY <2>1 DEF LateInv, DevicesCover, Owns
  <2>7. SavesHeld'
    BY <2>1, <2>3, <2>4 DEF LateInv, SavesHeld
  <2>8. SavesCover'
    BY <2>1, <2>3, <2>4 DEF LateInv, SavesCover, In, Owns
  <2>9. DeletesOwn'
    BY <2>1, <2>3, <2>4 DEF LateInv, DeletesOwn, In, Owns
  <2> QED
    BY <2>5, <2>6, <2>7, <2>8, <2>9 DEF LateInv
<1>3. CASE DeleteRemoves(c)
  <2>1. /\ row' = [row EXCEPT ![call[c].id] = NoRow] /\ End(c) /\ late' = late \ {c}
        /\ UNCHANGED <<user, copy, behind>> /\ In(c, "remove")
    BY <1>3 DEF DeleteRemoves
  <2>2. ~Writing(c)' /\ \A x \in Calls : x # c => call'[x] = call[x]
    BY <2>1, IdleOK, OneCall DEF End, Writing
  <2>3. \A x \in Ids : row'[x] = row[x] \/ row'[x] = NoRow
    BY <2>1 DEF IInv, TypeInv, RowsOK
  <2>4. \A u \in Users : NoRow.owner # u
    BY ArchiveAssumption DEF NoRow
  <2>5. HistoryOK'
    BY <2>1, <2>2 DEF LateInv, HistoryOK, Writing
  <2>6. DevicesCover'
    <3>1. \A d \in Devices : user[d] \in Users
      BY DEF IInv, TypeInv
    <3> QED
      BY <2>1, <2>3, <2>4, <3>1 DEF LateInv, DevicesCover, Owns
  <2>7. SavesHeld'
    BY <2>1, <2>2 DEF LateInv, SavesHeld, Writing
  <2>8. \A x \in Calls : ~In(x, "idle") => call[x].user \in Users /\ call[x].id \in Ids
    BY CallFields
  <2>9. SavesCover'
    BY <2>1, <2>2, <2>3, <2>4, <2>8 DEF LateInv, SavesCover, In, Owns, Writing
  <2>10. DeletesOwn'
    BY <2>1, <2>2, <2>3, <2>8 DEF LateInv, DeletesOwn, In, Owns, Writing
  <2> QED
    BY <2>5, <2>6, <2>7, <2>9, <2>10 DEF LateInv
<1> QED
  BY <1>1, <1>2, <1>3

LEMMA ListLate ==
    ASSUME IInv, LateInv, NEW d \in Devices, List(d) PROVE LateInv'
<1> DEFINE new == [i \in Ids |-> IF Owns(user[d], i) THEN row[i].match ELSE copy[d][i]]
<1>1. /\ copy' = [copy EXCEPT ![d] = new] /\ UNCHANGED <<user, row, call, late>>
      /\ behind' = {x \in behind : x[1] # d} \cup {<<d, i>> : i \in {j \in Ids : Saving(d, j)}}
  BY DEF List
<1>2. \A e \in Devices : copy'[e] = IF e = d THEN new ELSE copy[e]
  BY <1>1 DEF IInv, TypeInv
<1>3. \A i \in Ids : Owns(user[d], i) => new[i] = row[i].match
  OBVIOUS
<1> HIDE DEF new
<1>4. behind \subseteq Devices \X Ids
  BY DEF LateInv, HistoryOK
<1>5. HistoryOK'
  BY <1>1, <1>4 DEF LateInv, HistoryOK, Writing
<1>6. \A e \in Devices : \A i \in Ids : e # d /\ <<e, i>> \notin behind' => <<e, i>> \notin behind
  BY <1>1
<1>7. DevicesCover'
  BY <1>1, <1>2, <1>3, <1>6 DEF LateInv, DevicesCover, Owns
<1>8. SavesHeld'
  <2> SUFFICES ASSUME NEW x \in Calls, call[x].pc \in {"put", "insert"},
                      <<call[x].device, call[x].id>> \notin behind'
               PROVE  Openers(call[x].match) \subseteq Openers(copy'[call[x].device][call[x].id])
    BY <1>1 DEF SavesHeld
  <2>1. call[x].device \in Devices /\ call[x].id \in Ids
    BY CallFields DEF In
  <2>2. call[x].device # d
    BY <1>1, <2>1 DEF Saving
  <2> QED
    BY <1>2, <1>6, <2>1, <2>2 DEF LateInv, SavesHeld
<1>9. SavesCover' /\ DeletesOwn'
  BY <1>1 DEF LateInv, SavesCover, DeletesOwn, In, Owns
<1> QED
  BY <1>5, <1>7, <1>8, <1>9 DEF LateInv

LEMMA SignInLate ==
    ASSUME IInv, LateInv, NEW d \in Devices, NEW u \in Users, SignIn(d, u) PROVE LateInv'
<1>1. /\ user' = [user EXCEPT ![d] = u] /\ behind' = behind \cup ({d} \X Ids)
      /\ UNCHANGED <<copy, row, call, late>>
  BY DEF SignIn
<1>2. \A e \in Devices : e # d => user'[e] = user[e]
  BY <1>1 DEF IInv, TypeInv
<1>3. HistoryOK'
  BY <1>1 DEF LateInv, HistoryOK, Writing
<1>4. DevicesCover'
  BY <1>1, <1>2 DEF LateInv, DevicesCover, Owns
<1>5. SavesHeld'
  BY <1>1 DEF LateInv, SavesHeld
<1>6. SavesCover' /\ DeletesOwn'
  BY <1>1 DEF LateInv, SavesCover, DeletesOwn, In, Owns
<1> QED
  BY <1>3, <1>4, <1>5, <1>6 DEF LateInv

LEMMA LateStep == IInv /\ LateInv /\ [Next]_vars => LateInv'
<1> SUFFICES ASSUME IInv, LateInv, [Next]_vars PROVE LateInv'
  OBVIOUS
<1>1. CASE UNCHANGED vars
  <2>1. UNCHANGED <<user, copy, row, call, behind, late>>
    BY <1>1 DEF vars, history
  <2> QED
    BY <2>1 DEF LateInv, HistoryOK, Writing, DevicesCover, SavesHeld, SavesCover, DeletesOwn, In, Owns
<1>2. ASSUME NEW c \in Calls, NEW d \in Devices, NEW i \in Ids,
             Ask(c, d, i) \/ Put(c, d, i) \/ Delete(c, d, i)
      PROVE  LateInv'
  BY <1>2, QuietRequest, PutLate
<1>3. ASSUME NEW c \in Calls,
             \/ AnalyzeProfile(c) \/ GenerateMessages(c) \/ RegenerateMessage(c) \/ AnalyzeReply(c)
             \/ OtherRead(c) \/ GenerationFails(c) \/ UploadPhoto(c) \/ UploadFails(c) \/ Dies(c)
      PROVE  LateInv'
  BY <1>3, ReadLate
<1>4. ASSUME NEW c \in Calls,
             \/ Answer(c) \/ PutFinds(c) \/ PutMisses(c) \/ PutInserts(c)
             \/ DeleteFinds(c) \/ DeleteRemoves(c)
      PROVE  LateInv'
  BY <1>4, AnswerLate, PutLands, PutMissesLate, DeleteLate
<1>5. ASSUME NEW d \in Devices, List(d) \/ \E u \in Users : SignIn(d, u) PROVE LateInv'
  BY <1>5, ListLate, SignInLate
<1> QED
  BY <1>1, <1>2, <1>3, <1>4, <1>5 DEF Next

LEMMA LateInvariance == Spec => []LateInv
<1>1. IInv /\ LateInv /\ [Next]_vars => (IInv /\ LateInv)'
  BY StepInv, LateStep
<1> QED
  BY <1>1, InitInv, LateInit, PTL DEF Spec

-----------------------------------------------------------------------------
\* Every device, row, object and request is well-formed: at most MaxPhotos places
\* of a read, no row without an owner and an analysis, and a request that saves
\* or uploads carries an analysed match (upsert_match, upload_read_images).
THEOREM ArchiveTyped == Spec => []ArchiveTypeOK
<1>1. IInv /\ LateInv => ArchiveTypeOK
  <2> SUFFICES ASSUME IInv, LateInv PROVE ArchiveTypeOK
    OBVIOUS
  <2>1. images \in UNION {[1..n -> Screenshots \cup {0}] : n \in 0..MaxReads}
    <3>1. /\ images \in [1..Len(images) -> Screenshots \cup {0}]
          /\ Len(images) \in 0..MaxReads
      BY ArchiveAssumption DEF IInv, TypeInv, ImagesOK
    <3> QED
      BY <3>1
  <2>2. \A i \in Ids : row[i] = NoRow \/ (row[i].owner # Nothing /\ row[i].match.analysis # 0)
    BY DEF IInv, TypeInv, RowsOK, RowOK
  <2>3. ASSUME NEW c \in Calls
        PROVE  /\ ~In(c, "idle") => call[c].device \in Devices /\ call[c].id \in Ids
               /\ call[c].match \in Matches
               /\ call[c].pc \in {"put", "insert", "upload"} => call[c].match.analysis # 0
               /\ In(c, "answer") => call[c].match # NoMatch
    BY DEF IInv, TypeInv, CallsOK, CallOK, CallRecord, In
  <2> QED
    BY <2>1, <2>2, <2>3 DEF LateInv, HistoryOK, IInv, TypeInv, RowsOK, ArchiveTypeOK
<1> QED
  BY <1>1, Invariance, LateInvariance, PTL

\* Openers that were paid for and saved leave the match only by their owner's
\* deletion, or by a request that was late: from a device that was behind, or
\* overtaken by another save (upsert_match, delete_match).
THEOREM OpenersKeptHolds == Spec => OpenersKept
<1> DEFINE Kept1 == \A i \in Ids : Lost(i) =>
                      \E c \in Calls : Ends(c, i) /\ (DeletedByOwner(c, i) \/ c \in late)
<1>1. ASSUME IInv, LateInv, [Next]_vars PROVE Kept1
  <2> SUFFICES ASSUME NEW i \in Ids, Lost(i)
               PROVE  \E c \in Calls : Ends(c, i) /\ (DeletedByOwner(c, i) \/ c \in late)
    OBVIOUS
  <2>1. row'[i] # row[i]
    BY DEF Lost
  <2>2. PICK c \in Calls : PutFinds(c) \/ PutInserts(c) \/ DeleteRemoves(c)
    <3>1. ASSUME NEW c \in Calls, NEW d \in Devices, NEW x \in Ids,
                 Ask(c, d, x) \/ Put(c, d, x) \/ Delete(c, d, x)
          PROVE  row' = row
      BY <3>1 DEF Ask, Put, Delete, Request
    <3>2. ASSUME NEW c \in Calls,
                 \/ AnalyzeProfile(c) \/ GenerateMessages(c) \/ RegenerateMessage(c)
                 \/ AnalyzeReply(c) \/ OtherRead(c)
          PROVE  row' = row
      BY <3>2 DEF AnalyzeProfile, GenerateMessages, RegenerateMessage, AnalyzeReply, OtherRead,
                  Spends
    <3>3. ASSUME NEW c \in Calls,
                 \/ GenerationFails(c) \/ UploadPhoto(c) \/ UploadFails(c) \/ Answer(c)
                 \/ PutMisses(c) \/ DeleteFinds(c) \/ Dies(c)
          PROVE  row' = row
      BY <3>3 DEF GenerationFails, UploadPhoto, UploadFails, Answer, PutMisses, DeleteFinds, Dies
    <3>4. ASSUME NEW d \in Devices, List(d) \/ \E u \in Users : SignIn(d, u) PROVE row' = row
      BY <3>4 DEF List, SignIn
    <3>5. UNCHANGED vars => row' = row
      BY DEF vars
    <3> QED
      BY <1>1, <2>1, <3>1, <3>2, <3>3, <3>4, <3>5 DEF Next
  <2>3. row \in [Ids -> [owner : Users \cup {Nothing}, match : Matches]]
    BY <1>1 DEF IInv, TypeInv, RowsOK
  <2>4. call[c].id = i
    BY <2>1, <2>2, <2>3 DEF PutFinds, PutInserts, DeleteRemoves
  <2>5. ~In(c, "idle") /\ call' = [call EXCEPT ![c] = Idle]
    BY <2>2 DEF PutFinds, PutInserts, DeleteRemoves, End, In
  <2>6. Ends(c, i)
    BY <1>1, <2>4, <2>5, OneCall, IdleOK DEF Ends, In
  <2>7. CASE PutFinds(c)
    <3>1. row'[i].match = call[c].match /\ In(c, "put") /\ Owns(call[c].user, i)
      BY <2>3, <2>4, <2>7 DEF PutFinds
    <3>2. c \notin late => Openers(row[i].match) \subseteq Openers(row'[i].match)
      BY <1>1, <2>4, <3>1 DEF LateInv, SavesCover
    <3> QED
      BY <2>6, <3>2 DEF Lost, Openers
  <2>8. CASE PutInserts(c)
    <3>1. row[i] = NoRow
      BY <2>1, <2>4, <2>8 DEF PutInserts
    <3> QED
      BY <3>1 DEF Lost, NoRow, NoMatch
  <2>9. CASE DeleteRemoves(c)
    <3>1. In(c, "remove")
      BY <2>9 DEF DeleteRemoves
    <3>2. row[i] # NoRow
      BY DEF Lost, NoRow, NoMatch
    <3>3. c \notin late => Owns(call[c].user, i)
      BY <1>1, <2>4, <3>1, <3>2 DEF LateInv, DeletesOwn
    <3> QED
      BY <2>6, <3>1, <3>3 DEF DeletedByOwner
  <2> QED
    BY <2>2, <2>7, <2>8, <2>9
<1> QED
  BY <1>1, Invariance, LateInvariance, PTL DEF Spec, OpenersKept
=============================================================================
