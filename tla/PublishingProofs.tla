-------------------------- MODULE PublishingProofs --------------------------
(***************************************************************************)
(* The content rows, and what their writes set off, for any number of      *)
(* posts, slugs, admin calls and crashes.  Of the rows: they stay          *)
(* well-formed, and the writes that can publish a post without a date are  *)
(* exactly the ones PublishingDates names.  Of the rest: the site's cached *)
(* page follows the rows, and a page that was withdrawn is what Google was *)
(* told, with the exceptions SiteFollows and WithdrawnIsTold name.         *)
(***************************************************************************)
EXTENDS Publishing, TLAPS

-----------------------------------------------------------------------------
(* The content rows *)

PostsOK(f) == f \in [Posts -> PostRecord]

\* A rename under way knows the slug the post is leaving.
EditsOK(f) ==
    /\ f \in [Editors -> EditRecord]
    /\ \A c \in Editors :
         /\ f[c].pc # "idle" => f[c].post \in Posts
         /\ f[c].pc \in {"patch", "redirect"} => f[c].old \in Slugs
         /\ f[c].pc = "redirect" => f[c].new \in Slugs

RowsInv ==
    /\ PostsOK(post) /\ EditsOK(edit)
    /\ redirect \in [Slugs -> Slugs \cup {None}]
    /\ due \in SUBSET Posts /\ now \in 1..MaxTime /\ crashes \in 0..MaxCrashes

LEMMA RowsInit == ContentInit => RowsInv
<1> SUFFICES ASSUME ContentInit PROVE RowsInv
  OBVIOUS
<1>1. NoPost \in PostRecord
  BY ContentAssumption DEF NoPost, PostRecord, Statuses, Times, NoTime
<1>2. NoEdit \in EditRecord /\ NoEdit.pc = "idle"
  BY DEF NoEdit, EditRecord
<1> QED
  BY <1>1, <1>2, ContentAssumption DEF ContentInit, RowsInv, PostsOK, EditsOK

LEMMA PostEdit ==
    ASSUME PostsOK(post), NEW p \in Posts, NEW k \in PostRecord, post' = [post EXCEPT ![p] = k]
    PROVE  PostsOK(post') /\ post'[p] = k /\ \A q \in Posts : q # p => post'[q] = post[q]
  BY DEF PostsOK

LEMMA EditChange ==
    ASSUME EditsOK(edit), NEW c \in Editors, NEW k \in EditRecord,
           k.pc # "idle" => k.post \in Posts,
           k.pc \in {"patch", "redirect"} => k.old \in Slugs,
           k.pc = "redirect" => k.new \in Slugs,
           edit' = [edit EXCEPT ![c] = k]
    PROVE  EditsOK(edit')
  BY DEF EditsOK

LEMMA EditEnd ==
    ASSUME EditsOK(edit), NEW c \in Editors, EndEdit(c) PROVE EditsOK(edit')
<1>1. NoEdit \in EditRecord /\ NoEdit.pc = "idle"
  BY DEF NoEdit, EditRecord
<1> QED
  BY <1>1, EditChange DEF EndEdit

\* update with a status alone: no date comes or goes.
LEMMA StatusSet ==
    ASSUME PostsOK(post), NEW p \in Posts, NEW s \in Statuses, SetStatus(p, s)
    PROVE  /\ PostsOK(post') /\ post'[p].status = s /\ post'[p].at = post[p].at
           /\ \A q \in Posts : q # p => post'[q] = post[q]
<1> DEFINE k == [post[p] EXCEPT !.status = s]
<1>1. k \in PostRecord /\ k.status = s /\ k.at = post[p].at
  BY DEF PostsOK, PostRecord
<1>2. post' = [post EXCEPT ![p] = k]
  BY DEF SetStatus
<1> HIDE DEF k
<1> QED
  BY <1>1, <1>2, PostEdit

-----------------------------------------------------------------------------
(* Each action keeps RowsInv and undates nothing it may not *)

\* The excuses of PublishingDates.
MayUndate(p) ==
    \/ \E c \in Editors : edit[c].post = p /\ At(c, "patch") /\ ~At(c, "patch")'
    \/ \E c \in Editors : /\ edit[c].post = p /\ edit[c].dated /\ post[p].at = NoTime
                         /\ At(c, "publish") /\ ~At(c, "publish")'
    \/ p \in due \ due' /\ post[p].at = NoTime

DatesKept == \A p \in Posts : Undated(p)' /\ ~Undated(p) => MayUndate(p)

LEMMA AdminStep ==
    ASSUME RowsInv, NEW s \in Slugs, NEW st \in Statuses, NEW t \in Times, AdminUpsert(s, st, t)
    PROVE  RowsInv' /\ DatesKept
<1>1. PICK p \in Posts : Upsert(p, s, st, t, None)
  BY DEF AdminUpsert
<1> DEFINE k == Row(s, st, t, None)
<1>2. k \in PostRecord /\ ~(k.status = "published" /\ k.at = NoTime)
  BY DEF Row, PublishTime, PostRecord, RowsInv, Times, NoTime
<1>3. post' = [post EXCEPT ![p] = k]
  BY <1>1 DEF Upsert
<1> HIDE DEF k
<1>4. PostsOK(post') /\ post'[p] = k /\ \A q \in Posts : q # p => post'[q] = post[q]
  BY <1>2, <1>3, PostEdit DEF RowsInv
<1> QED
  BY <1>2, <1>4 DEF AdminUpsert, RowsInv, DatesKept, Undated

LEMMA ReadStep ==
    ASSUME RowsInv, NEW c \in Editors, NEW p \in Posts, ReadForPatch(c, p) \/ ReadForPublish(c, p)
    PROVE  RowsInv' /\ DatesKept
<1>1. post[p].slug \in Slugs
  BY DEF ReadForPatch, ReadForPublish, Exists, RowsInv, PostsOK, PostRecord
<1>2. EditsOK(edit')
  <2>1. CASE ReadForPatch(c, p)
    <3> DEFINE k == [NoEdit EXCEPT !.pc = "patch", !.post = p, !.old = post[p].slug]
    <3>1. k \in EditRecord /\ k.pc = "patch" /\ k.post = p /\ k.old \in Slugs
      BY <1>1 DEF NoEdit, EditRecord
    <3>2. edit' = [edit EXCEPT ![c] = k]
      BY <2>1 DEF ReadForPatch
    <3> HIDE DEF k
    <3> QED
      BY <3>1, <3>2, EditChange DEF RowsInv
  <2>2. CASE ReadForPublish(c, p)
    <3> DEFINE k == [NoEdit EXCEPT !.pc = "publish", !.post = p, !.dated = post[p].at # NoTime]
    <3>1. k \in EditRecord /\ k.pc = "publish" /\ k.post = p
      BY DEF NoEdit, EditRecord
    <3>2. edit' = [edit EXCEPT ![c] = k]
      BY <2>2 DEF ReadForPublish
    <3> HIDE DEF k
    <3> QED
      BY <3>1, <3>2, EditChange DEF RowsInv
  <2> QED
    BY <2>1, <2>2
<1>3. UNCHANGED <<post, redirect, due, now, crashes>>
  BY DEF ReadForPatch, ReadForPublish
<1> QED
  BY <1>2, <1>3 DEF RowsInv, PostsOK, DatesKept, Undated

LEMMA PatchStep ==
    ASSUME RowsInv, NEW c \in Editors, NEW s \in Slugs \cup {None}, NEW st \in Statuses \cup {None},
           NEW t \in Times, Patch(c, s, st, t)
    PROVE  RowsInv' /\ DatesKept
<1>0. /\ At(c, "patch") /\ edit[c] \in EditRecord /\ edit[c].post \in Posts
      /\ edit[c].old \in Slugs /\ UNCHANGED <<redirect, due, now, crashes>>
  BY DEF Patch, At, RowsInv, EditsOK
<1> DEFINE p == edit[c].post
           k == Patched(post[p], s, st, t)
           n == [edit[c] EXCEPT !.pc = "redirect", !.new = s, !.fresh = (redirect[edit[c].old] = None)]
<1>1. k \in PostRecord
  BY <1>0 DEF Patched, RowsInv, PostsOK, PostRecord
<1>2. post' = post \/ post' = [post EXCEPT ![p] = k]
  BY DEF Patch
<1>3. s # None => n \in EditRecord /\ n.pc = "redirect" /\ n.post \in Posts /\ n.old \in Slugs
                  /\ n.new \in Slugs
  BY <1>0 DEF EditRecord
<1>4. EndEdit(c) \/ (s # None /\ edit' = [edit EXCEPT ![c] = n])
  BY DEF Patch
<1>5. p \in Posts /\ MayUndate(p)
  <2>1. NoEdit.pc # "patch" /\ n.pc # "patch"
    BY <1>0 DEF NoEdit, EditRecord
  <2>2. edit'[c] = NoEdit \/ edit'[c] = n
    BY <1>4 DEF EndEdit, RowsInv, EditsOK
  <2>3. ~At(c, "patch")'
    BY <2>1, <2>2 DEF At
  <2> QED
    BY <1>0, <2>3 DEF MayUndate
<1> HIDE DEF k, n, p
<1>6. PostsOK(post') /\ \A q \in Posts : q # p => post'[q] = post[q]
  BY <1>1, <1>2, <1>5, PostEdit DEF RowsInv
<1>7. EditsOK(edit')
  BY <1>3, <1>4, EditChange, EditEnd DEF RowsInv
<1> QED
  BY <1>0, <1>5, <1>6, <1>7 DEF RowsInv, DatesKept, Undated

LEMMA RedirectStep ==
    ASSUME RowsInv, NEW c \in Editors, AddRedirect(c) \/ RedirectClashes(c)
    PROVE  RowsInv' /\ DatesKept
<1>1. EditsOK(edit') /\ UNCHANGED <<post, due, now, crashes>>
  BY EditEnd DEF AddRedirect, RedirectClashes, RowsInv
<1>2. redirect' \in [Slugs -> Slugs \cup {None}]
  BY DEF AddRedirect, RedirectClashes, At, RowsInv, EditsOK
<1> QED
  BY <1>1, <1>2 DEF RowsInv, PostsOK, DatesKept, Undated

LEMMA PublishStep ==
    ASSUME RowsInv, NEW c \in Editors, Publish(c) PROVE RowsInv' /\ DatesKept
<1> DEFINE p == edit[c].post
           k == [post[p] EXCEPT !.status = "published", !.at = IF edit[c].dated THEN @ ELSE now]
<1>0. At(c, "publish") /\ p \in Posts /\ UNCHANGED <<redirect, due, now, crashes>>
  BY DEF Publish, At, RowsInv, EditsOK
<1>1. k \in PostRecord
  <2>1. post[p] \in PostRecord
    BY <1>0 DEF RowsInv, PostsOK
  <2>2. now \in Times /\ post[p].at \in Times
    BY <2>1, ContentAssumption DEF RowsInv, Times, NoTime, PostRecord
  <2> QED
    BY <2>1, <2>2 DEF PostRecord, Statuses
<1>2. ~edit[c].dated => k.at # NoTime
  BY <1>0 DEF RowsInv, PostsOK, PostRecord, NoTime
<1>3. post' = [post EXCEPT ![p] = k]
  BY <1>0 DEF Publish, RowsInv, PostsOK
<1>4. edit[c].dated /\ post[p].at = NoTime => MayUndate(p)
  <2>1. ~At(c, "publish")'
    BY DEF Publish, EndEdit, NoEdit, At, RowsInv, EditsOK
  <2> QED
    BY <1>0, <2>1 DEF MayUndate
<1>5. EditsOK(edit')
  BY EditEnd DEF Publish, RowsInv
<1>7. edit[c].dated => k.at = post[p].at
  BY <1>0 DEF RowsInv, PostsOK, PostRecord
<1> HIDE DEF k, p
<1>6. PostsOK(post') /\ post'[p] = k /\ \A q \in Posts : q # p => post'[q] = post[q]
  BY <1>0, <1>1, <1>3, PostEdit DEF RowsInv
<1> QED
  BY <1>0, <1>2, <1>4, <1>5, <1>6, <1>7 DEF RowsInv, DatesKept, Undated

LEMMA StatusStep ==
    ASSUME RowsInv, NEW p \in Posts, Unpublish(p) \/ Archive(p) \/ FlipDue(p)
    PROVE  RowsInv' /\ DatesKept
<1>1. /\ EditsOK(edit') /\ UNCHANGED <<redirect, now, crashes>> /\ due' \in SUBSET Posts
  BY DEF Unpublish, Archive, FlipDue, RowsInv, EditsOK
<1>2. PICK s \in Statuses : SetStatus(p, s) /\ (s = "published" => p \in due \ due')
  BY DEF Unpublish, Archive, FlipDue, Statuses
<1>3. /\ PostsOK(post') /\ post'[p].status = s /\ post'[p].at = post[p].at
      /\ \A q \in Posts : q # p => post'[q] = post[q]
  BY <1>2, StatusSet DEF RowsInv
<1> QED
  BY <1>1, <1>2, <1>3 DEF RowsInv, DatesKept, Undated, MayUndate

\* The rest leaves the rows alone.
LEMMA OtherStep ==
    ASSUME RowsInv, (\E c \in Editors : CrashEdit(c)) \/ ListDue \/ CrashCron \/ Tick
                 \/ UNCHANGED cvars
    PROVE  RowsInv' /\ DatesKept
<1>1. UNCHANGED <<post, redirect>>
  BY DEF CrashEdit, ListDue, CrashCron, Tick, cvars
<1>2. EditsOK(edit')
  BY EditEnd DEF CrashEdit, ListDue, CrashCron, Tick, cvars, RowsInv, EditsOK
<1>3. due' \in SUBSET Posts
  BY DEF CrashEdit, ListDue, CrashCron, Tick, cvars, RowsInv
<1>4. now' \in 1..MaxTime /\ crashes' \in 0..MaxCrashes
  BY ContentAssumption DEF CrashEdit, ListDue, CrashCron, Tick, cvars, RowsInv
<1> QED
  BY <1>1, <1>2, <1>3, <1>4 DEF RowsInv, PostsOK, DatesKept, Undated

-----------------------------------------------------------------------------
LEMMA RowsStep == ASSUME RowsInv, [ContentNext]_cvars PROVE RowsInv' /\ DatesKept
  BY AdminStep, ReadStep, PatchStep, RedirectStep, PublishStep, StatusStep, OtherStep
     DEF ContentNext

LEMMA RowsTyped == ASSUME RowsInv PROVE ContentTypeOK
  BY DEF RowsInv, PostsOK, EditsOK, ContentTypeOK, At

\* Of every post, slug and interleaving: the rows stay well-formed.
THEOREM ContentTyped == ContentSpec => []ContentTypeOK
  BY RowsInit, RowsStep, RowsTyped, PTL DEF ContentSpec

\* A post is published without a date only by patch_post, by a publish that read a
\* date since cleared, or by the cron flipping a row it listed earlier.
THEOREM ContentDated == ContentSpec => PublishingDates
  BY RowsInit, RowsStep, PTL DEF ContentSpec, PublishingDates, DatesKept, MayUndate

-----------------------------------------------------------------------------
(* Old addresses keep leading to a post: unless a call dies or renames cross, *)
(* what is closed and without a post after a step was so before it            *)

HasPost(A) == \E p \in Posts : post[p].slug \in A

Links ==
    \A A \in SUBSET Slugs : Closed(A)' /\ ~HasPost(A)' => Closed(A) /\ ~HasPost(A)

Excused == crashes' # crashes \/ RenamesCross \/ \E c \in Editors : RedirectClashes(c)

RedirectsKept ==
    \A s \in Slugs :
        \/ Resolves(s)' \/ ~Resolves(s) \/ crashes' # crashes
        \/ RenamesCross \/ \E c \in Editors : RedirectClashes(c)

\* A step that takes no redirect away, whether written or about to be.
LEMMA MoreLinks ==
    ASSUME UNCHANGED redirect, \A d \in Editors : At(d, "redirect") => edit'[d] = edit[d],
           NEW A \in SUBSET Slugs, Closed(A)'
    PROVE  Closed(A)
<1>1. \A t \in A : Leads(t) \subseteq Leads(t)'
  BY DEF Leads, At
<1> QED
  BY <1>1 DEF Closed

\* A step that leaves every row the slug it had.
LEMMA MorePosts ==
    ASSUME RowsInv, \A p \in Posts : Exists(p) => post'[p].slug = post[p].slug,
           NEW A \in SUBSET Slugs, HasPost(A)
    PROVE  HasPost(A)'
  BY ContentAssumption DEF HasPost, Exists

LEMMA EditLinks ==
    ASSUME RowsInv, NEW c \in Editors, ~At(c, "redirect"), NEW k, edit' = [edit EXCEPT ![c] = k]
    PROVE  \A d \in Editors : At(d, "redirect") => edit'[d] = edit[d]
  BY DEF RowsInv, EditsOK, At

LEMMA PatchLinks ==
    ASSUME RowsInv, NEW c \in Editors, NEW s \in Slugs \cup {None}, NEW st \in Statuses \cup {None},
           NEW t \in Times, Patch(c, s, st, t)
    PROVE  Links \/ Excused
<1> PICK p \in Posts : p = edit[c].post
  BY DEF Patch, At, RowsInv, EditsOK
<1> PICK old \in Slugs : old = edit[c].old
  BY DEF Patch, At, RowsInv, EditsOK
<1>0. /\ At(c, "patch") /\ UNCHANGED redirect
      /\ edit[c] \in EditRecord /\ post[p] \in PostRecord
  BY DEF Patch, At, RowsInv, EditsOK, PostsOK
<1> DEFINE n == [edit[c] EXCEPT !.pc = "redirect", !.new = s, !.fresh = (redirect[old] = None)]
<1>1. edit' = [edit EXCEPT ![c] = NoEdit] \/ edit' = [edit EXCEPT ![c] = n]
  BY DEF Patch, EndEdit
<1>2. \A d \in Editors : At(d, "redirect") => edit'[d] = edit[d]
  <2> HIDE DEF n
  <2> QED
    BY <1>0, <1>1, EditLinks DEF At
<1>3. \A A \in SUBSET Slugs : Closed(A)' => Closed(A)
  BY <1>0, <1>2, MoreLinks
<1>4. CASE \A q \in Posts : Exists(q) => post'[q].slug = post[q].slug
  BY <1>3, <1>4, MorePosts DEF Links
<1>5. ASSUME NEW q \in Posts, post'[q].slug # post[q].slug PROVE Links \/ Excused
  <2>0. post' = [post EXCEPT ![p] = Patched(post[p], s, st, t)]
    BY <1>5 DEF Patch
  <2>1. q = p /\ post'[p] = Patched(post[p], s, st, t)
    BY <1>5, <2>0 DEF RowsInv, PostsOK
  <2>2. post'[p].slug = s /\ s \in Slugs /\ post[p].slug # s
    <3>1. Patched(post[p], s, st, t).slug = IF s = None THEN post[p].slug ELSE s
      BY <1>0 DEF Patched, PostRecord
    <3> QED
      BY <1>5, <2>1, <3>1
  <2>3. \A r \in Posts : r # p => post'[r].slug = post[r].slug
    BY <2>0 DEF RowsInv, PostsOK
  <2>4. CASE post[p].slug # old
    <3>1. NoEdit.pc # "patch" /\ n.pc # "patch"
      BY <1>0 DEF NoEdit, EditRecord
    <3>2. edit'[c] = NoEdit \/ edit'[c] = n
      BY <1>1 DEF RowsInv, EditsOK
    <3>3. ~At(c, "patch")'
      BY <3>1, <3>2 DEF At
    <3> QED
      BY <1>0, <2>1, <2>2, <2>4, <3>3 DEF Excused, RenamesCross
  <2>5. CASE post[p].slug = old
    <3>1. edit' = [edit EXCEPT ![c] = n]
      <4>1. post' = post \/ s \in {None, edit[c].old} \/ edit' = [edit EXCEPT ![c] = n]
        BY DEF Patch
      <4> QED
        BY <1>5, <2>2, <2>5, <4>1, ContentAssumption
    <3>2. edit'[c] = n /\ n.pc = "redirect" /\ n.old = old /\ n.new = s
      BY <1>0, <3>1 DEF RowsInv, EditsOK, EditRecord
    <3>3. s \in Leads(old)'
      <4> HIDE DEF n
      <4> QED
        BY <3>2 DEF Leads, At
    <3>4. ASSUME NEW A \in SUBSET Slugs, Closed(A)', ~HasPost(A)' PROVE ~HasPost(A)
      <4>1. s \notin A
        BY <2>2, <3>4 DEF HasPost
      <4>2. old \notin A
        BY <2>2, <3>3, <3>4, <4>1, ContentAssumption DEF Closed
      <4> QED
        BY <2>3, <2>5, <3>4, <4>2 DEF HasPost
    <3> QED
      BY <1>3, <3>4 DEF Links
  <2> QED
    BY <2>4, <2>5
<1> QED
  BY <1>4, <1>5

LEMMA RedirectLinks ==
    ASSUME RowsInv, NEW c \in Editors, AddRedirect(c)
    PROVE  Links \/ Excused
<1> PICK p \in Posts : p = edit[c].post
  BY DEF AddRedirect, At, RowsInv, EditsOK
<1> PICK old \in Slugs, new \in Slugs : old = edit[c].old /\ new = edit[c].new
  BY DEF AddRedirect, At, RowsInv, EditsOK
<1>0. At(c, "redirect") /\ ~At(c, "redirect")'
  BY DEF AddRedirect, At, EndEdit, RowsInv, EditsOK, NoEdit
<1>1. CASE post[p].slug # new
  BY <1>0, <1>1 DEF Excused, RenamesCross
<1>2. CASE post[p].slug = new
  <2>1. /\ redirect'[old] = new
        /\ \A t \in Slugs : t # old => redirect'[t] = redirect[t]
    BY <1>0 DEF AddRedirect, RowsInv
  <2>2. \A d \in Editors : d # c => edit'[d] = edit[d]
    BY DEF AddRedirect, EndEdit, RowsInv, EditsOK
  <2>3. ASSUME NEW A \in SUBSET Slugs, Closed(A)', ~HasPost(A)' PROVE Closed(A) /\ ~HasPost(A)
    <3>1. ~HasPost(A)
      BY <2>3 DEF HasPost, AddRedirect
    <3>2. old \notin A
      <4>1. new \in Leads(old)'
        BY <2>1 DEF Leads
      <4> QED
        BY <1>0, <1>2, <2>3, <3>1, <4>1, ContentAssumption DEF Closed, HasPost
    <3>3. \A t \in A : Leads(t) \subseteq Leads(t)'
      <4> SUFFICES ASSUME NEW t \in A PROVE Leads(t) \subseteq Leads(t)'
        OBVIOUS
      <4>1. t \in Slugs /\ t # old
        BY <3>2
      <4>2. redirect'[t] = redirect[t]
        BY <2>1, <4>1
      <4>3. \A d \in Editors : At(d, "redirect") /\ edit[d].old = t => edit'[d] = edit[d]
        BY <2>2, <4>1
      <4> QED
        BY <4>2, <4>3 DEF Leads, At
    <3> QED
      BY <2>3, <3>1, <3>3 DEF Closed
  <2> QED
    BY <2>3 DEF Links
<1> QED
  BY <1>1, <1>2

LEMMA LinksStep == ASSUME RowsInv, [ContentNext]_cvars PROVE Links \/ Excused
<1>1. ASSUME UNCHANGED redirect, \A d \in Editors : At(d, "redirect") => edit'[d] = edit[d],
             \A p \in Posts : Exists(p) => post'[p].slug = post[p].slug
      PROVE  Links
  BY <1>1, MoreLinks, MorePosts DEF Links
<1>2. ASSUME NEW s \in Slugs, NEW st \in Statuses, NEW t \in Times, AdminUpsert(s, st, t)
      PROVE  Links
  <2>1. UNCHANGED <<redirect, edit>>
    BY <1>2 DEF AdminUpsert
  <2>2. \A p \in Posts : Exists(p) => post'[p].slug = post[p].slug
    BY <1>2 DEF AdminUpsert, Upsert, Row, Exists, RowsInv, PostsOK
  <2> QED
    BY <1>1, <2>1, <2>2
<1>3. ASSUME NEW c \in Editors, NEW p \in Posts, ReadForPatch(c, p) \/ ReadForPublish(c, p)
      PROVE  Links
  <2>1. UNCHANGED <<redirect, post>>
    BY <1>3 DEF ReadForPatch, ReadForPublish
  <2>2. \A d \in Editors : At(d, "redirect") => edit'[d] = edit[d]
    BY <1>3, EditLinks DEF ReadForPatch, ReadForPublish, At
  <2> QED
    BY <1>1, <2>1, <2>2
<1>4. ASSUME NEW c \in Editors, Publish(c) PROVE Links
  <2>1. UNCHANGED redirect
    BY <1>4 DEF Publish
  <2>2. \A d \in Editors : At(d, "redirect") => edit'[d] = edit[d]
    BY <1>4, EditLinks DEF Publish, EndEdit, At
  <2>3. \A q \in Posts : post'[q].slug = post[q].slug
    BY <1>4 DEF Publish, RowsInv, PostsOK, PostRecord
  <2> QED
    BY <1>1, <2>1, <2>2, <2>3
<1>5. ASSUME NEW p \in Posts, Unpublish(p) \/ Archive(p) \/ FlipDue(p) PROVE Links
  <2>1. UNCHANGED <<redirect, edit>>
    BY <1>5 DEF Unpublish, Archive, FlipDue
  <2>2. \A q \in Posts : post'[q].slug = post[q].slug
    BY <1>5 DEF Unpublish, Archive, FlipDue, SetStatus, RowsInv, PostsOK, PostRecord
  <2> QED
    BY <1>1, <2>1, <2>2
<1>6. CASE ListDue \/ Tick \/ UNCHANGED cvars
  BY <1>1, <1>6 DEF ListDue, Tick, cvars
<1>7. ASSUME CrashCron \/ \E c \in Editors : CrashEdit(c) \/ RedirectClashes(c) PROVE Excused
  BY <1>7 DEF CrashCron, CrashEdit, Excused, RowsInv
<1> QED
  BY <1>2, <1>3, <1>4, <1>5, <1>6, <1>7, PatchLinks, RedirectLinks DEF ContentNext

LEMMA RedirectsStep == ASSUME RowsInv, [ContentNext]_cvars PROVE RedirectsKept
<1> SUFFICES ASSUME NEW s \in Slugs, Links, Resolves(s) PROVE Resolves(s)'
  BY LinksStep DEF RedirectsKept, Excused
<1>1. ASSUME NEW A \in SUBSET Vacant', s \in A, Closed(A)' PROVE FALSE
  <2>1. A \in SUBSET Slugs /\ ~HasPost(A)'
    BY <1>1 DEF Vacant, HasPost
  <2>2. Closed(A) /\ ~HasPost(A)
    BY <1>1, <2>1 DEF Links
  <2>3. A \in SUBSET Vacant
    BY <2>1, <2>2 DEF Vacant, HasPost
  <2> QED
    BY <1>1, <2>2, <2>3 DEF Resolves
<1> QED
  BY <1>1 DEF Resolves

\* The old address of a post keeps leading to one, whatever is renamed back, taken
\* over or chained, for any number of slugs and of renames: only a call that dies
\* or renames that cross undo that.
THEOREM RedirectsHold == ContentSpec => RedirectsResolve
<1>1. RowsInv /\ [ContentNext]_cvars => [RedirectsKept]_cvars
  BY RedirectsStep
<1> QED
  BY RowsInit, RowsStep, <1>1, PTL DEF ContentSpec, RedirectsResolve, RedirectsKept

-----------------------------------------------------------------------------
(* A row that is there stays: what a call or the cron has read still exists *)

Present ==
    /\ \A c \in Editors : edit[c].pc # "idle" => Exists(edit[c].post)
    /\ due \subseteq {p \in Posts : Exists(p)}

Stays == \A p \in Posts : Exists(p) => Exists(p)'

LEMMA RowStays ==
    ASSUME RowsInv, ContentNext
    PROVE  Stays
<1>0. \A p \in Posts : post[p] \in PostRecord
  BY DEF RowsInv, PostsOK
<1>1. ASSUME NEW s \in Slugs, NEW st \in Statuses, NEW t \in Times, AdminUpsert(s, st, t)
      PROVE  Stays
  BY <1>1, ContentAssumption DEF AdminUpsert, Upsert, Row, RowsInv, PostsOK, Exists, Stays
<1>2. ASSUME NEW c \in Editors, NEW s \in Slugs \cup {None}, NEW st \in Statuses \cup {None},
             NEW t \in Times, Patch(c, s, st, t)
      PROVE  Stays
  <2> DEFINE p == edit[c].post
             k == Patched(post[p], s, st, t)
  <2>1. p \in Posts
    BY <1>2 DEF Patch, At, RowsInv, EditsOK
  <2>2. k.slug = None => post[p].slug = None
    BY <1>0, <2>1 DEF Patched, PostRecord
  <2>3. post' = post \/ post' = [post EXCEPT ![p] = k]
    BY <1>2 DEF Patch
  <2> HIDE DEF k, p
  <2> QED
    BY <2>1, <2>2, <2>3 DEF RowsInv, PostsOK, Exists, Stays
<1>3. ASSUME NEW c \in Editors, Publish(c) PROVE Stays
  <2> DEFINE p == edit[c].post
             k == [post[p] EXCEPT !.status = "published", !.at = IF edit[c].dated THEN @ ELSE now]
  <2>1. p \in Posts
    BY <1>3 DEF Publish, At, RowsInv, EditsOK
  <2>2. k.slug = post[p].slug
    BY <1>0, <2>1 DEF PostRecord
  <2>3. post' = [post EXCEPT ![p] = k]
    BY <1>3, <2>1 DEF Publish, RowsInv, PostsOK
  <2> HIDE DEF k, p
  <2> QED
    BY <2>1, <2>2, <2>3 DEF RowsInv, PostsOK, Exists, Stays
<1>4. ASSUME NEW p \in Posts, NEW s, SetStatus(p, s) PROVE Stays
  <2> DEFINE k == [post[p] EXCEPT !.status = s]
  <2>1. k.slug = post[p].slug
    BY <1>0 DEF PostRecord
  <2>2. post' = [post EXCEPT ![p] = k]
    BY <1>4 DEF SetStatus
  <2> HIDE DEF k
  <2> QED
    BY <2>1, <2>2 DEF RowsInv, PostsOK, Exists, Stays
<1>5. ASSUME NEW p \in Posts, Unpublish(p) \/ Archive(p) \/ FlipDue(p) PROVE Stays
  BY <1>4, <1>5 DEF Unpublish, Archive, FlipDue
<1>6. ASSUME UNCHANGED post PROVE Stays
  BY <1>6 DEF Exists, Stays
<1>7. ASSUME NEW c \in Editors,
             (\E p \in Posts : ReadForPatch(c, p) \/ ReadForPublish(c, p))
             \/ AddRedirect(c) \/ RedirectClashes(c) \/ CrashEdit(c)
      PROVE  Stays
  BY <1>6, <1>7 DEF ReadForPatch, ReadForPublish, AddRedirect, RedirectClashes, CrashEdit
<1>8. ASSUME ListDue \/ CrashCron \/ Tick PROVE Stays
  BY <1>6, <1>8 DEF ListDue, CrashCron, Tick
<1> QED
  BY <1>1, <1>2, <1>3, <1>5, <1>7, <1>8 DEF ContentNext

LEMMA PresentStep ==
    ASSUME RowsInv, Present, ContentNext PROVE Present'
<1>1. /\ Stays /\ edit \in [Editors -> EditRecord]
      /\ \A c \in Editors : edit[c].pc # "idle" => edit[c].post \in Posts
  BY RowStays DEF RowsInv, EditsOK
<1>2. \A c \in Editors :
          \/ edit'[c] = edit[c] \/ edit'[c].pc = "idle"
          \/ edit[c].pc # "idle" /\ edit'[c].post = edit[c].post
          \/ edit'[c].post \in Posts /\ Exists(edit'[c].post)
  <2> SUFFICES ASSUME NEW c \in Editors, edit' # edit
               PROVE  \/ edit'[c] = edit[c] \/ edit'[c].pc = "idle"
                      \/ edit[c].pc # "idle" /\ edit'[c].post = edit[c].post
                      \/ edit'[c].post \in Posts /\ Exists(edit'[c].post)
    OBVIOUS
  <2>1. ASSUME NEW d \in Editors, EndEdit(d) PROVE edit'[c] = edit[c] \/ edit'[c].pc = "idle"
    BY <1>1, <2>1 DEF EndEdit, NoEdit
  <2>2. ASSUME NEW d \in Editors, NEW p \in Posts, ReadForPatch(d, p)
        PROVE  edit'[c] = edit[c] \/ (edit'[c].post \in Posts /\ Exists(edit'[c].post))
    <3> DEFINE k == [NoEdit EXCEPT !.pc = "patch", !.post = p, !.old = post[p].slug]
    <3>1. k.post = p
      BY DEF NoEdit
    <3>2. edit' = [edit EXCEPT ![d] = k] /\ Exists(p)
      BY <2>2 DEF ReadForPatch
    <3> HIDE DEF k
    <3> QED
      BY <1>1, <3>1, <3>2
  <2>3. ASSUME NEW d \in Editors, NEW p \in Posts, ReadForPublish(d, p)
        PROVE  edit'[c] = edit[c] \/ (edit'[c].post \in Posts /\ Exists(edit'[c].post))
    <3> DEFINE k == [NoEdit EXCEPT !.pc = "publish", !.post = p, !.dated = post[p].at # NoTime]
    <3>1. k.post = p
      BY DEF NoEdit
    <3>2. edit' = [edit EXCEPT ![d] = k] /\ Exists(p)
      BY <2>3 DEF ReadForPublish
    <3> HIDE DEF k
    <3> QED
      BY <1>1, <3>1, <3>2
  <2>4. ASSUME NEW d \in Editors, NEW s \in Slugs \cup {None}, NEW st \in Statuses \cup {None},
               NEW t \in Times, Patch(d, s, st, t)
        PROVE  \/ edit'[c] = edit[c] \/ edit'[c].pc = "idle"
               \/ edit[c].pc # "idle" /\ edit'[c].post = edit[c].post
    <3> DEFINE k == [edit[d] EXCEPT !.pc = "redirect", !.new = s,
                                !.fresh = (redirect[edit[d].old] = None)]
    <3>1. k.post = edit[d].post
      BY <1>1 DEF EditRecord
    <3>2. (EndEdit(d) \/ edit' = [edit EXCEPT ![d] = k]) /\ edit[d].pc # "idle"
      BY <2>4 DEF Patch, At
    <3> HIDE DEF k
    <3> QED
      BY <1>1, <2>1, <3>1, <3>2
  <2>5. \/ \E d \in Editors :
             \/ \E p \in Posts : ReadForPatch(d, p) \/ ReadForPublish(d, p)
             \/ \E s \in Slugs \cup {None}, st \in Statuses \cup {None}, t \in Times :
                  Patch(d, s, st, t)
             \/ EndEdit(d)
    BY DEF ContentNext, AdminUpsert, AddRedirect, RedirectClashes, Publish, CrashEdit,
           Unpublish, Archive, FlipDue, ListDue, CrashCron, Tick
  <2> QED
    BY <2>1, <2>2, <2>3, <2>4, <2>5
<1>3. due' \subseteq due \/ due' \subseteq {p \in Posts : Exists(p)}
  BY DEF ContentNext, AdminUpsert, ReadForPatch, ReadForPublish, Patch, AddRedirect, RedirectClashes,
         Publish, CrashEdit, Unpublish, Archive, FlipDue, ListDue, IsDue, CrashCron, Tick
<1> QED
  BY <1>1, <1>2, <1>3 DEF Present, Stays

-----------------------------------------------------------------------------
(* The steps of Publishing, seen from the rows: a step of Content, or a job   *)
(* that dies, or nothing                                                      *)

SameRows == UNCHANGED <<post, redirect, edit, due, now>>

JobDies == SameRows /\ crashes < MaxCrashes /\ crashes' = crashes + 1

LEMMA UpsertIsContent ==
    ASSUME NEW p \in Posts, NEW s \in Slugs, NEW st \in Statuses, NEW t \in Times,
           Upsert(p, s, st, t, None), UNCHANGED <<redirect, edit, due, now, crashes>>
    PROVE  AdminUpsert(s, st, t)
  BY DEF AdminUpsert

LEMMA RowsMove ==
    ASSUME RowsInv, [PublishingNext]_vars
    PROVE  ContentNext \/ JobDies \/ UNCHANGED cvars
<1>1. ASSUME NEW c \in Editors, NEW p \in Posts, NEW s \in Slugs, NEW st \in Statuses,
             NEW t \in Times, NEW b, UpsertPost(c, p, [slug |-> s, status |-> st, at |-> t,
                                                       noindex |-> b])
      PROVE  ContentNext
  <2>1. AdminUpsert(s, st, t)
    BY <1>1, UpsertIsContent DEF UpsertPost
  <2> QED
    BY <2>1 DEF ContentNext
<1>2. ASSUME NEW c \in Editors, NEW p \in Posts, NEW body \in Upserts, UpsertPost(c, p, body)
      PROVE  ContentNext
  BY <1>1, <1>2, PublishingAssumption DEF UpsertBody
<1>3. ASSUME NEW f \in Files
      PROVE  /\ f.slug \in Slugs /\ "published" \in Statuses /\ ParseDate(f.date) \in Times
             /\ BuildRow(f) = [slug |-> f.slug, status |-> "published", at |-> ParseDate(f.date),
                               noindex |-> f.noindex]
  BY <1>3, PublishingAssumption, ContentAssumption
     DEF File, Statuses, ParseDate, RowsInv, Times, NoTime, BuildRow
<1>4. ASSUME NEW c \in Editors, NEW p \in Posts, NEW f \in Files, ImportByApi(c, p, BuildRow(f))
      PROVE  ContentNext
  BY <1>1, <1>3, <1>4 DEF ImportByApi
<1>5. ASSUME NEW p \in Posts, NEW f \in Files, ImportFile(p, BuildRow(f)) PROVE ContentNext
  <2>1. AdminUpsert(f.slug, "published", ParseDate(f.date))
    BY <1>3, <1>5, UpsertIsContent DEF ImportFile
  <2> QED
    BY <1>3, <2>1 DEF ContentNext
<1>6. ASSUME NEW c \in Editors, NEW body \in Patches, PatchPost(c, body) PROVE ContentNext
  <2>1. /\ body.slug \in Slugs \cup {None} /\ body.status \in Statuses \cup {None}
        /\ body.at \in Times /\ Patch(c, body.slug, body.status, body.at)
    BY <1>6, PublishingAssumption DEF PatchBody, PatchPost
  <2> QED
    BY <2>1 DEF ContentNext
<1>7. ASSUME NEW c \in Editors,
             \/ RenamePost(c) \/ RenameFails(c) \/ PublishPost(c) \/ CrashPatch(c)
             \/ \E p \in Posts : WithdrawPost(c, p) \/ FlipPost(c, p)
      PROVE  ContentNext
  BY <1>7 DEF ContentNext, RenamePost, RenameFails, PublishPost, CrashPatch, WithdrawPost, FlipPost
<1>8. ASSUME TimePasses \/ Reading PROVE ContentNext
  BY <1>8 DEF ContentNext, TimePasses, Reading
<1>9. ASSUME NEW c \in Editors,
             \/ \E p \in Posts : Reindex(c, p)
             \/ RevalidateOld(c) \/ Revalidate(c) \/ CheckHead(c) \/ Submit(c)
      PROVE  UNCHANGED cvars
  BY <1>9 DEF Reindex, RevalidateOld, Revalidate, CheckHead, Submit
<1>10. ASSUME Visit \/ Expire \/ UNCHANGED vars PROVE UNCHANGED cvars
  BY <1>10 DEF Visit, Expire, vars
<1>11. ASSUME NEW c \in Editors, CrashJob(c) PROVE JobDies
  BY <1>11 DEF CrashJob, JobDies, SameRows
<1> QED
  BY <1>2, <1>4, <1>5, <1>6, <1>7, <1>8, <1>9, <1>10, <1>11 DEF PublishingNext, Write

LEMMA PublishingRows ==
    ASSUME RowsInv, Present, [PublishingNext]_vars
    PROVE  RowsInv' /\ Present' /\ DatesKept
<1>1. CASE ContentNext
  BY <1>1, RowsStep, PresentStep
<1>2. CASE JobDies
  <2>1. crashes' \in 0..MaxCrashes
    BY <1>2, ContentAssumption DEF JobDies, RowsInv
  <2> QED
    BY <1>2, <2>1 DEF JobDies, SameRows, RowsInv, PostsOK, EditsOK, Present, Exists, DatesKept,
                      Undated
<1>3. CASE UNCHANGED cvars
  BY <1>3, RowsStep DEF Present, Exists, cvars
<1> QED
  BY <1>1, <1>2, <1>3, RowsMove

-----------------------------------------------------------------------------
(* What lies outside: types, and what the jobs still owe *)

JobsOK(f) ==
    /\ f \in [Editors -> JobRecord]
    /\ \A c \in Editors :
         /\ f[c].pc # "idle" => f[c].slug \in Slugs
         /\ f[c].pc = "old" => f[c].old \in Slugs
         /\ f[c].pc = "check" => ~f[c].deleted /\ ~f[c].silent
         /\ f[c].pc = "submit" => ~f[c].silent

\* A call that is still editing has no job yet.
OneThing == \A c \in Editors : edit[c].pc # "idle" => job[c].pc = "idle"

WebOK ==
    /\ JobsOK(job) /\ OneThing
    /\ mute \in [Posts -> {"no", "noindex", "import"}]
    /\ page \in Slugs
    /\ site \in {"none", "own", "other"}
    /\ gone \in BOOLEAN /\ withdrawn \in BOOLEAN /\ behind \in BOOLEAN

\* A call owes the site a revalidation of the page, or Google a word about it.
Owes(c) ==
    \/ On(c, "old") /\ page \in {job[c].old, job[c].slug}
    \/ On(c, "revalidate") /\ page = job[c].slug
    \/ At(c, "redirect") /\ page \in {edit[c].old, edit[c].new}

Tells(c) == ~On(c, "idle") /\ job[c].slug = page /\ ~job[c].silent

\* After a withdrawal that overlapped nothing, whoever has still to tell Google
\* will tell it that the page is gone; when nobody has, Google was told.
WithdrawnInv ==
    withdrawn => (gone \/ Telling) /\ \A c \in Editors : Tells(c) => job[c].deleted

PubInv == RowsInv /\ Present /\ WebOK /\ SiteFollows /\ WithdrawnInv

LEMMA OwesTells ==
    (ToRevalidate <=> \E c \in Editors : Owes(c)) /\ (Telling <=> \E c \in Editors : Tells(c))
  BY DEF ToRevalidate, Owes, Telling, Tells

\* The page shows the same to a new visitor when no row comes to its slug, leaves
\* it or changes there.
LEMMA SameHead ==
    ASSUME UNCHANGED <<page, now>>,
           \A q \in Posts : post'[q] = post[q] \/ (post[q].slug # page /\ post'[q].slug # page)
    PROVE  LiveHead' = LiveHead
  BY DEF LiveHead, Visible

\* The cached page stays: then so does the property, if whoever changed the page
\* behind it owes a revalidation.
LEMMA StillFollows ==
    ASSUME SiteFollows, UNCHANGED <<site, page>>, behind => behind',
           LiveHead' = LiveHead \/ ToRevalidate' \/ behind',
           ToRevalidate => ToRevalidate' \/ behind'
    PROVE  SiteFollows'
  BY DEF SiteFollows

\* What a call owes and tells changes with its own edit and job only.
LEMMA OthersOwe ==
    ASSUME NEW c \in Editors, UNCHANGED page, Owes(c) => Owes(c)' \/ behind',
           \A x \in Editors : x # c => job'[x] = job[x] /\ edit'[x] = edit[x]
    PROVE  ToRevalidate => ToRevalidate' \/ behind'
<1>1. \A x \in Editors : x # c => (Owes(x) <=> Owes(x)')
  BY DEF Owes, On, At
<1> QED
  BY <1>1 DEF ToRevalidate, Owes

\* A call that tells what it told before, or nothing, while Google hears nothing.
LEMMA StillWithdrawn ==
    ASSUME WithdrawnInv, NEW c \in Editors, UNCHANGED <<page, gone>>, withdrawn' => withdrawn,
           \A x \in Editors : x # c => job'[x] = job[x],
           withdrawn' => (Tells(c) <=> Tells(c)'),
           withdrawn' /\ Tells(c) => job'[c].deleted = job[c].deleted
    PROVE  WithdrawnInv'
<1>1. \A x \in Editors : x # c => (Tells(x) <=> Tells(x)')
  BY DEF Tells, On
<1> QED
  BY <1>1, OwesTells DEF WithdrawnInv, Tells, Telling, On

\* A call that has written starts its job.
LEMMA StartStep ==
    ASSUME PubInv, NEW c \in Editors, On(c, "idle"),
           NEW pc \in {"old", "revalidate", "check"}, NEW old \in Slugs \cup {None},
           NEW slug \in Slugs, NEW deleted \in BOOLEAN, NEW silent \in BOOLEAN,
           pc = "old" => old \in Slugs, pc = "check" => ~deleted /\ ~silent,
           StartsWith(c, pc, old, slug, deleted, silent),
           UNCHANGED <<page, web>>, behind' \in BOOLEAN, behind => behind',
           mute' \in [Posts -> {"no", "noindex", "import"}],
           edit'[c].pc = "idle", \A x \in Editors : x # c => edit'[x] = edit[x],
           Owes(c) => Owes(c)' \/ behind',
           LiveHead' = LiveHead \/ Owes(c)' \/ behind'
    PROVE  WebOK' /\ SiteFollows' /\ WithdrawnInv'
<1> DEFINE k == [pc |-> pc, old |-> old, slug |-> slug, deleted |-> deleted, silent |-> silent]
<1>1. k \in JobRecord
  BY DEF JobRecord
<1>2. job' = [job EXCEPT ![c] = k]
  BY DEF StartsWith
<1>3. job \in [Editors -> JobRecord]
  BY DEF PubInv, WebOK, JobsOK
<1>4. job'[c] = k /\ \A x \in Editors : x # c => job'[x] = job[x]
  BY <1>2, <1>3
<1>5. JobsOK(job')
  BY <1>1, <1>2, <1>4 DEF PubInv, WebOK, JobsOK
<1>6. OneThing'
  BY <1>4 DEF PubInv, WebOK, OneThing
<1>7. withdrawn' \in BOOLEAN
  BY DEF StartsWith, PubInv, WebOK
<1>8. WebOK'
  BY <1>5, <1>6, <1>7 DEF PubInv, WebOK, web
<1>9. SiteFollows'
  <2>1. ToRevalidate => ToRevalidate' \/ behind'
    BY <1>4, OthersOwe
  <2>2. Owes(c)' => ToRevalidate'
    BY DEF ToRevalidate, Owes
  <2> QED
    BY <2>1, <2>2, StillFollows DEF PubInv, web
<1>10. WithdrawnInv'
  <2>1. ~Tells(c) /\ (Tells(c)' <=> slug = page /\ ~silent)
    BY <1>4 DEF Tells, On
  <2>2. CASE silent \/ slug # page
    BY <1>4, <2>1, <2>2, StillWithdrawn DEF StartsWith, PubInv, web
  <2>3. CASE ~(silent \/ slug # page)
    <3>1. withdrawn' = (deleted /\ ~Telling)
      BY <2>3 DEF StartsWith
    <3>2. \A x \in Editors : x # c => (Tells(x) <=> Tells(x)')
      BY <1>4 DEF Tells, On
    <3>3. Telling'
      BY <2>1, <2>3 DEF Telling, Tells
    <3>4. withdrawn' => \A x \in Editors : Tells(x)' => x = c
      BY <3>1, <3>2, OwesTells
    <3>5. withdrawn' => job'[c].deleted
      BY <1>4, <3>1
    <3> QED
      BY <3>3, <3>4, <3>5 DEF WithdrawnInv
  <2> QED
    BY <2>2, <2>3
<1> QED
  BY <1>8, <1>9, <1>10

-----------------------------------------------------------------------------
(* Each action *)

\* Writing a row changes the page of no slug but the one it writes.
LEMMA UpsertHead ==
    ASSUME PubInv, NEW p \in Posts, NEW slug \in Slugs, NEW st, NEW t, slug # page,
           Upsert(p, slug, st, t, None), UNCHANGED <<page, now>>
    PROVE  LiveHead' = LiveHead
<1>1. post[p].slug # page
  BY ContentAssumption DEF Upsert, Exists, PubInv, WebOK
<1>2. post'[p].slug = slug /\ \A q \in Posts : q # p => post'[q] = post[q]
  BY DEF Upsert, Row, PubInv, RowsInv, PostsOK
<1> QED
  BY <1>1, <1>2, SameHead

LEMMA UpsertPostStep ==
    ASSUME PubInv, NEW c \in Editors, NEW p \in Posts, NEW body,
           body.slug \in Slugs, body.noindex \in BOOLEAN, UpsertPost(c, p, body)
    PROVE  WebOK' /\ SiteFollows' /\ WithdrawnInv'
<1>1. /\ On(c, "idle") /\ At(c, "idle")
      /\ Upsert(p, body.slug, body.status, body.at, None)
      /\ StartsWith(c, "revalidate", None, body.slug, FALSE, body.noindex)
      /\ UNCHANGED <<redirect, edit, due, now, crashes, page, web, behind>>
  BY DEF UpsertPost, Free
<1>2. job'[c].pc = "revalidate" /\ job'[c].slug = body.slug
  BY <1>1 DEF StartsWith, PubInv, WebOK, JobsOK
<1>3. LiveHead' = LiveHead \/ Owes(c)'
  BY <1>1, <1>2, UpsertHead DEF Owes, On
<1>4. mute' \in [Posts -> {"no", "noindex", "import"}]
  BY DEF UpsertPost, PubInv, WebOK
<1>5. edit'[c].pc = "idle" /\ ~Owes(c)
  BY <1>1 DEF At, On, Owes
<1>6. behind' \in BOOLEAN
  BY <1>1 DEF PubInv, WebOK
<1> QED
  BY <1>1, <1>3, <1>4, <1>5, <1>6, StartStep

\* The update of a patch shows at the slug the row loses and at the one it gets.
LEMMA PatchStarts ==
    ASSUME PubInv, NEW c \in Editors, NEW body \in Patches, PatchPost(c, body)
    PROVE  WebOK' /\ SiteFollows' /\ WithdrawnInv'
<1> DEFINE p == edit[c].post
           k == Patched(post[p], body.slug, body.status, body.at)
<1>0. /\ body.slug \in Slugs \cup {None} /\ body.status \in Statuses \cup {None}
      /\ body.at \in Times /\ body.noindex \in {"same", "no", "noindex"}
  BY PublishingAssumption DEF PatchBody
<1>1. /\ Patch(c, body.slug, body.status, body.at) /\ At(c, "patch")
      /\ UNCHANGED <<redirect, due, now, crashes, page, web>>
  BY DEF PatchPost, Patch
<1>2. /\ edit[c] \in EditRecord /\ p \in Posts /\ edit[c].old \in Slugs /\ Exists(p)
      /\ On(c, "idle")
  BY <1>1 DEF At, On, PubInv, RowsInv, EditsOK, Present, WebOK, OneThing
<1>3. ~Owes(c)
  BY <1>1, <1>2 DEF Owes, At, On
<1>4. post[p] \in PostRecord /\ post[p].slug \in Slugs
  BY <1>2 DEF PubInv, RowsInv, PostsOK, PostRecord, Exists
<1>5. k.slug = (IF body.slug = None THEN post[p].slug ELSE body.slug) /\ k.slug \in Slugs
  BY <1>0, <1>4 DEF Patched, PostRecord
<1>6. \A x \in Editors : x # c => edit'[x] = edit[x]
  BY <1>1 DEF Patch, EndEdit, PubInv, RowsInv, EditsOK
<1>7. CASE SlugTaken(c, body.slug)
  <2>1. EndEdit(c) /\ UNCHANGED <<post, mute, job, history>>
    BY <1>1, <1>7 DEF Patch, PatchPost, SlugTaken
  <2>2. edit'[c].pc = "idle"
    BY <2>1 DEF EndEdit, PubInv, RowsInv, EditsOK, NoEdit
  <2>3. WebOK'
    BY <1>1, <1>6, <2>1, <2>2 DEF PubInv, WebOK, OneThing, JobsOK, web, history
  <2>4. ToRevalidate => ToRevalidate' \/ behind'
    BY <1>1, <1>3, <1>6, <2>1, OthersOwe
  <2>5. LiveHead' = LiveHead
    BY <1>1, <2>1, SameHead
  <2>6. SiteFollows'
    BY <1>1, <2>1, <2>4, <2>5, StillFollows DEF PubInv, web, history
  <2>7. WithdrawnInv'
    BY <1>1, <2>1 DEF PubInv, WithdrawnInv, Tells, Telling, On, web, history
  <2> QED
    BY <2>3, <2>6, <2>7
<1>8. CASE ~SlugTaken(c, body.slug)
  <2>1. /\ post' = [post EXCEPT ![p] = k]
        /\ behind' = (behind \/ page \in Lost(c, body.slug))
    BY <1>1, <1>8 DEF Patch, PatchPost, SlugTaken
  <2>2. post'[p] = k /\ \A q \in Posts : q # p => post'[q] = post[q]
    BY <1>2, <2>1 DEF PubInv, RowsInv, PostsOK
  <2>3. mute' \in [Posts -> {"no", "noindex", "import"}]
    BY <1>0, <1>8 DEF PatchPost, PubInv, WebOK
  <2>4. behind' \in BOOLEAN /\ (behind => behind')
    BY <2>1 DEF PubInv, WebOK
  <2>5. LiveHead' = LiveHead \/ page = k.slug \/ page = post[p].slug
    BY <1>1, <2>2, SameHead
  <2>6. page = post[p].slug => page = k.slug \/ page = edit[c].old \/ behind'
    BY <1>5, <2>1 DEF Lost
  <2>7. CASE body.slug \in {None, edit[c].old}
    <3>1. EndEdit(c) /\ StartsWith(c, "revalidate", None, k.slug, FALSE, TRUE)
      BY <1>1, <1>8, <2>2, <2>7 DEF Patch, PatchPost, SlugTaken
    <3>2. edit'[c].pc = "idle"
      BY <3>1 DEF EndEdit, PubInv, RowsInv, EditsOK, NoEdit
    <3>3. job'[c].pc = "revalidate" /\ job'[c].slug = k.slug
      BY <3>1 DEF StartsWith, PubInv, WebOK, JobsOK
    <3>4. page = k.slug => Owes(c)'
      BY <1>1, <3>3 DEF Owes, On
    <3>5. body.slug # None => k.slug = edit[c].old
      BY <1>5, <2>7
    <3>6. body.slug = None => k.slug = post[p].slug
      BY <1>5
    <3>7. LiveHead' = LiveHead \/ Owes(c)' \/ behind'
      BY <2>5, <2>6, <3>4, <3>5, <3>6
    <3> HIDE DEF k, p
    <3> QED
      BY <1>1, <1>2, <1>3, <1>5, <1>6, <2>3, <2>4, <3>1, <3>2, <3>7, StartStep
  <2>8. CASE body.slug \notin {None, edit[c].old}
    <3> DEFINE n == [edit[c] EXCEPT !.pc = "redirect", !.new = body.slug,
                                    !.fresh = (redirect[edit[c].old] = None)]
    <3>1. edit' = [edit EXCEPT ![c] = n] /\ UNCHANGED <<job, withdrawn>>
      BY <1>1, <1>8, <2>8 DEF Patch, PatchPost, SlugTaken
    <3>2. n.pc = "redirect" /\ n.old = edit[c].old /\ n.new = body.slug
      BY <1>2 DEF EditRecord
    <3> HIDE DEF n
    <3>3. edit'[c].pc = "redirect" /\ edit'[c].old = edit[c].old /\ edit'[c].new = body.slug
      BY <3>1, <3>2 DEF PubInv, RowsInv, EditsOK
    <3>4. WebOK'
      BY <1>1, <1>2, <1>6, <2>3, <2>4, <3>1 DEF PubInv, WebOK, OneThing, JobsOK, web, On
    <3>5. page \in {edit[c].old, body.slug} => Owes(c)'
      BY <1>1, <3>3 DEF Owes, At
    <3>6. ToRevalidate => ToRevalidate' \/ behind'
      BY <1>1, <1>3, <1>6, <3>1, OthersOwe
    <3>7. LiveHead' = LiveHead \/ ToRevalidate' \/ behind'
      BY <1>5, <2>5, <2>6, <2>8, <3>5 DEF ToRevalidate, Owes
    <3>8. SiteFollows'
      BY <1>1, <2>4, <3>6, <3>7, StillFollows DEF PubInv, web
    <3>9. WithdrawnInv'
      BY <1>1, <3>1 DEF PubInv, WithdrawnInv, Tells, Telling, On, web
    <3> QED
      BY <3>4, <3>8, <3>9
  <2> QED
    BY <2>7, <2>8
<1> QED
  BY <1>7, <1>8

LEMMA RenamePostStep ==
    ASSUME PubInv, NEW c \in Editors, RenamePost(c)
    PROVE  WebOK' /\ SiteFollows' /\ WithdrawnInv'
<1>1. /\ At(c, "redirect") /\ EndEdit(c)
      /\ StartsWith(c, "old", edit[c].old, edit[c].new, FALSE, TRUE)
      /\ UNCHANGED <<post, now, mute, page, web, behind>>
  BY DEF RenamePost, AddRedirect
<1>2. On(c, "idle") /\ edit[c].old \in Slugs /\ edit[c].new \in Slugs
  BY <1>1 DEF At, On, PubInv, RowsInv, EditsOK, WebOK, OneThing
<1>3. edit'[c].pc = "idle" /\ \A x \in Editors : x # c => edit'[x] = edit[x]
  BY <1>1 DEF EndEdit, PubInv, RowsInv, EditsOK, NoEdit
<1>4. job'[c].pc = "old" /\ job'[c].old = edit[c].old /\ job'[c].slug = edit[c].new
  BY <1>1 DEF StartsWith, PubInv, WebOK, JobsOK
<1>5. Owes(c) => Owes(c)'
  BY <1>1, <1>2, <1>4 DEF Owes, On, At
<1>6. LiveHead' = LiveHead
  BY <1>1, SameHead
<1>7. behind' \in BOOLEAN /\ mute' \in [Posts -> {"no", "noindex", "import"}]
  BY <1>1 DEF PubInv, WebOK
<1> QED
  BY <1>1, <1>2, <1>3, <1>5, <1>6, <1>7, StartStep

\* set_published, archive_post, the cron: the page of the row's own slug.
LEMMA ShownAt ==
    ASSUME PubInv, NEW c \in Editors, NEW p \in Posts, Exists(p), On(c, "idle"),
           NEW deleted \in BOOLEAN,
           StartsWith(c, "revalidate", None, post[p].slug, deleted, mute[p] # "no"),
           UNCHANGED <<now, mute, page, web, behind>>,
           edit'[c].pc = "idle", \A x \in Editors : x # c => edit'[x] = edit[x],
           ~At(c, "redirect"),
           post'[p].slug = post[p].slug, \A q \in Posts : q # p => post'[q] = post[q]
    PROVE  WebOK' /\ SiteFollows' /\ WithdrawnInv'
<1>1. post[p].slug \in Slugs
  BY DEF PubInv, RowsInv, PostsOK, PostRecord, Exists
<1>2. job'[c].pc = "revalidate" /\ job'[c].slug = post[p].slug
  BY DEF StartsWith, PubInv, WebOK, JobsOK
<1>3. ~Owes(c)
  BY DEF Owes, On
<1>4. LiveHead' = LiveHead \/ Owes(c)'
  BY <1>2, SameHead DEF Owes, On
<1>5. behind' \in BOOLEAN /\ mute' \in [Posts -> {"no", "noindex", "import"}]
      /\ (mute[p] # "no") \in BOOLEAN
  BY DEF PubInv, WebOK
<1> QED
  BY <1>1, <1>3, <1>4, <1>5, StartStep

LEMMA PublishPostStep ==
    ASSUME PubInv, NEW c \in Editors, PublishPost(c)
    PROVE  WebOK' /\ SiteFollows' /\ WithdrawnInv'
<1> DEFINE p == edit[c].post
           k == [post[p] EXCEPT !.status = "published", !.at = IF edit[c].dated THEN @ ELSE now]
<1>1. At(c, "publish") /\ EndEdit(c)
      /\ StartsWith(c, "revalidate", None, post[p].slug, FALSE, mute[p] # "no")
      /\ UNCHANGED <<now, mute, page, web, behind>>
  BY DEF PublishPost, Publish
<1>2. On(c, "idle") /\ p \in Posts /\ Exists(p) /\ ~At(c, "redirect")
  BY <1>1 DEF At, On, PubInv, RowsInv, EditsOK, WebOK, OneThing, Present
<1>3. edit'[c].pc = "idle" /\ \A x \in Editors : x # c => edit'[x] = edit[x]
  BY <1>1 DEF EndEdit, PubInv, RowsInv, EditsOK, NoEdit
<1>4. k.slug = post[p].slug
  BY <1>2 DEF PubInv, RowsInv, PostsOK, PostRecord
<1>5. post' = [post EXCEPT ![p] = k]
  BY <1>2 DEF PublishPost, Publish, PubInv, RowsInv, PostsOK
<1> HIDE DEF k, p
<1>6. post'[p].slug = post[p].slug /\ \A q \in Posts : q # p => post'[q] = post[q]
  BY <1>2, <1>4, <1>5 DEF PubInv, RowsInv, PostsOK
<1> QED
  BY <1>1, <1>2, <1>3, <1>6, ShownAt

LEMMA StatusPostStep ==
    ASSUME PubInv, NEW c \in Editors, NEW p \in Posts, WithdrawPost(c, p) \/ FlipPost(c, p)
    PROVE  WebOK' /\ SiteFollows' /\ WithdrawnInv'
<1>1. PICK s \in Statuses : SetStatus(p, s)
  BY DEF WithdrawPost, FlipPost, Unpublish, Archive, FlipDue, Statuses
<1>2. /\ Exists(p) /\ At(c, "idle") /\ On(c, "idle")
      /\ \E d \in BOOLEAN : StartsWith(c, "revalidate", None, post[p].slug, d, mute[p] # "no")
      /\ UNCHANGED <<edit, now, mute, page, web, behind>>
  BY DEF WithdrawPost, FlipPost, Unpublish, Archive, FlipDue, Free, PubInv, Present
<1> DEFINE k == [post[p] EXCEPT !.status = s]
<1>3. k.slug = post[p].slug
  BY DEF PubInv, RowsInv, PostsOK, PostRecord
<1>4. post' = [post EXCEPT ![p] = k]
  BY <1>1 DEF SetStatus
<1> HIDE DEF k
<1>5. post'[p].slug = post[p].slug /\ \A q \in Posts : q # p => post'[q] = post[q]
  BY <1>3, <1>4 DEF PubInv, RowsInv, PostsOK
<1>6. edit'[c].pc = "idle" /\ ~At(c, "redirect")
  BY <1>2 DEF At
<1> QED
  BY <1>2, <1>5, <1>6, ShownAt

LEMMA ReindexStep ==
    ASSUME PubInv, NEW c \in Editors, NEW p \in Posts, Reindex(c, p)
    PROVE  WebOK' /\ SiteFollows' /\ WithdrawnInv'
<1>1. /\ Exists(p) /\ At(c, "idle") /\ On(c, "idle")
      /\ StartsWith(c, "check", None, post[p].slug, FALSE, FALSE)
      /\ UNCHANGED <<post, edit, now, mute, page, web, behind>>
  BY DEF Reindex, Free, cvars
<1>2. post[p].slug \in Slugs
  BY <1>1 DEF PubInv, RowsInv, PostsOK, PostRecord, Exists
<1>3. LiveHead' = LiveHead
  BY <1>1, SameHead
<1>4. ~Owes(c) /\ edit'[c].pc = "idle"
  BY <1>1 DEF Owes, At, On
<1>5. behind' \in BOOLEAN /\ mute' \in [Posts -> {"no", "noindex", "import"}]
  BY <1>1 DEF PubInv, WebOK
<1> QED
  BY <1>1, <1>2, <1>3, <1>4, <1>5, StartStep

LEMMA ImportStep ==
    ASSUME PubInv, NEW p \in Posts, NEW row, row.slug \in Slugs, ImportFile(p, row)
    PROVE  WebOK' /\ SiteFollows' /\ WithdrawnInv'
<1>1. /\ Upsert(p, row.slug, row.status, row.at, None)
      /\ behind' = (behind \/ row.slug = page)
      /\ UNCHANGED <<edit, now, job, page, web, withdrawn>>
  BY DEF ImportFile
<1>2. LiveHead' = LiveHead \/ behind'
  BY <1>1, UpsertHead
<1>3. mute' \in [Posts -> {"no", "noindex", "import"}]
  BY DEF ImportFile, PubInv, WebOK
<1>4. behind' \in BOOLEAN /\ (behind => behind')
  BY <1>1 DEF PubInv, WebOK
<1>5. WebOK'
  BY <1>1, <1>3, <1>4 DEF PubInv, WebOK, OneThing, JobsOK, web
<1>6. ToRevalidate => ToRevalidate'
  BY <1>1 DEF ToRevalidate, On, At
<1>7. SiteFollows'
  BY <1>1, <1>2, <1>4, <1>6, StillFollows DEF PubInv, web
<1>8. WithdrawnInv'
  BY <1>1 DEF PubInv, WithdrawnInv, Tells, Telling, On, web
<1> QED
  BY <1>5, <1>7, <1>8

\* A job goes on or ends.
LEMMA JobChange ==
    ASSUME PubInv, NEW c \in Editors, ~On(c, "idle"), NEW k \in JobRecord,
           k.pc # "idle" => k.slug \in Slugs, k.pc = "old" => k.old \in Slugs,
           k.pc = "check" => ~k.deleted /\ ~k.silent, k.pc = "submit" => ~k.silent,
           job' = [job EXCEPT ![c] = k], UNCHANGED edit
    PROVE  /\ JobsOK(job') /\ OneThing' /\ job'[c] = k
           /\ \A x \in Editors : x # c => job'[x] = job[x] /\ edit'[x] = edit[x]
<1>1. job'[c] = k /\ \A x \in Editors : x # c => job'[x] = job[x]
  BY DEF PubInv, WebOK, JobsOK
<1>2. JobsOK(job')
  BY <1>1 DEF PubInv, WebOK, JobsOK
<1>3. edit[c].pc = "idle"
  BY DEF PubInv, WebOK, OneThing, On
<1> QED
  BY <1>1, <1>2, <1>3 DEF PubInv, WebOK, OneThing

LEMMA JobEnds ==
    ASSUME PubInv, NEW c \in Editors, ~On(c, "idle"), Finish(c), UNCHANGED edit
    PROVE  /\ JobsOK(job') /\ OneThing' /\ job'[c].pc = "idle"
           /\ \A x \in Editors : x # c => job'[x] = job[x] /\ edit'[x] = edit[x]
<1>1. NoJob \in JobRecord /\ NoJob.pc = "idle"
  BY DEF NoJob, JobRecord
<1> QED
  BY <1>1, JobChange DEF Finish

LEMMA JobGoes ==
    ASSUME PubInv, NEW c \in Editors, ~On(c, "idle"), NEW pc \in {"revalidate", "check", "submit"},
           pc = "check" => ~job[c].deleted /\ ~job[c].silent, pc = "submit" => ~job[c].silent,
           Go(c, pc), UNCHANGED edit
    PROVE  /\ JobsOK(job') /\ OneThing' /\ job'[c].pc = pc
           /\ job'[c].slug = job[c].slug /\ job'[c].silent = job[c].silent
           /\ job'[c].deleted = job[c].deleted
           /\ \A x \in Editors : x # c => job'[x] = job[x] /\ edit'[x] = edit[x]
<1> DEFINE k == [job[c] EXCEPT !.pc = pc]
<1>1. job[c] \in JobRecord /\ job[c].slug \in Slugs
  BY DEF PubInv, WebOK, JobsOK, On
<1>2. /\ k \in JobRecord /\ k.pc = pc /\ k.slug = job[c].slug /\ k.old = job[c].old
      /\ k.deleted = job[c].deleted /\ k.silent = job[c].silent
  BY <1>1 DEF JobRecord
<1>3. job' = [job EXCEPT ![c] = k]
  BY DEF Go
<1> HIDE DEF k
<1> QED
  BY <1>1, <1>2, <1>3, JobChange

\* A page that is dropped follows; one that is not is known to be behind.
LEMMA DropFollows ==
    ASSUME PubInv, NEW c \in Editors, NEW s, Drop(s), UNCHANGED <<post, now, page>>,
           s # page => (Owes(c) => Owes(c)'),
           \A x \in Editors : x # c => job'[x] = job[x] /\ edit'[x] = edit[x]
    PROVE  SiteFollows' /\ site' \in {"none", "own", "other"} /\ behind' \in BOOLEAN
<1>1. CASE s # page /\ UNCHANGED <<site, behind>>
  <2>1. ToRevalidate => ToRevalidate' \/ behind'
    BY <1>1, OthersOwe
  <2>2. LiveHead' = LiveHead
    BY SameHead
  <2>3. SiteFollows'
    BY <1>1, <2>1, <2>2, StillFollows DEF PubInv
  <2> QED
    BY <1>1, <2>3 DEF PubInv, WebOK
<1>2. CASE site' = "none" /\ behind' = FALSE
  BY <1>2 DEF SiteFollows
<1>3. CASE UNCHANGED site /\ behind' = TRUE
  BY <1>3 DEF SiteFollows, PubInv, WebOK
<1> QED
  BY <1>1, <1>2, <1>3 DEF Drop

LEMMA RevalidateOldStep ==
    ASSUME PubInv, NEW c \in Editors, RevalidateOld(c)
    PROVE  WebOK' /\ SiteFollows' /\ WithdrawnInv'
<1>1. /\ On(c, "old") /\ ~On(c, "idle") /\ Drop(job[c].old) /\ Go(c, "revalidate")
      /\ UNCHANGED <<post, edit, now, mute, page, gone, withdrawn>>
  BY DEF RevalidateOld, On, cvars
<1>2. /\ JobsOK(job') /\ OneThing' /\ job'[c].pc = "revalidate"
      /\ job'[c].slug = job[c].slug /\ job'[c].silent = job[c].silent
      /\ job'[c].deleted = job[c].deleted
      /\ \A x \in Editors : x # c => job'[x] = job[x] /\ edit'[x] = edit[x]
  BY <1>1, JobGoes
<1>3. job[c].old # page => (Owes(c) => Owes(c)')
  BY <1>1, <1>2 DEF Owes, On, At
<1>4. SiteFollows' /\ site' \in {"none", "own", "other"} /\ behind' \in BOOLEAN
  BY <1>1, <1>2, <1>3, DropFollows
<1>5. Tells(c) <=> Tells(c)'
  BY <1>1, <1>2 DEF Tells, On
<1>6. WithdrawnInv'
  BY <1>1, <1>2, <1>5, StillWithdrawn DEF PubInv
<1> QED
  BY <1>1, <1>2, <1>4, <1>6 DEF PubInv, WebOK

LEMMA RevalidateStep ==
    ASSUME PubInv, NEW c \in Editors, Revalidate(c)
    PROVE  WebOK' /\ SiteFollows' /\ WithdrawnInv'
<1>1. /\ On(c, "revalidate") /\ ~On(c, "idle") /\ Drop(job[c].slug)
      /\ UNCHANGED <<post, edit, now, mute, page, gone, withdrawn>>
  BY DEF Revalidate, On, cvars
<1>2. edit[c].pc = "idle"
  BY <1>1 DEF PubInv, WebOK, OneThing, On
<1>3. job[c].slug # page => ~Owes(c)
  BY <1>1, <1>2 DEF Owes, On, At
<1>4. CASE job[c].silent /\ Finish(c)
  <2>1. /\ JobsOK(job') /\ OneThing' /\ job'[c].pc = "idle"
        /\ \A x \in Editors : x # c => job'[x] = job[x] /\ edit'[x] = edit[x]
    BY <1>1, <1>4, JobEnds
  <2>2. SiteFollows' /\ site' \in {"none", "own", "other"} /\ behind' \in BOOLEAN
    BY <1>1, <1>3, <2>1, DropFollows
  <2>3. ~Tells(c) /\ ~Tells(c)'
    BY <1>4, <2>1 DEF Tells, On
  <2>4. WithdrawnInv'
    BY <1>1, <2>1, <2>3, StillWithdrawn DEF PubInv
  <2> QED
    BY <1>1, <2>1, <2>2, <2>4 DEF PubInv, WebOK
<1>5. CASE ~job[c].silent /\ Go(c, IF job[c].deleted THEN "submit" ELSE "check")
  <2>1. PICK pc \in {"check", "submit"} : Go(c, pc) /\ (pc = "check" => ~job[c].deleted)
    BY <1>5
  <2>2. /\ JobsOK(job') /\ OneThing' /\ job'[c].pc = pc
        /\ job'[c].slug = job[c].slug /\ job'[c].silent = job[c].silent
        /\ job'[c].deleted = job[c].deleted
        /\ \A x \in Editors : x # c => job'[x] = job[x] /\ edit'[x] = edit[x]
    BY <1>1, <1>5, <2>1, JobGoes
  <2>3. SiteFollows' /\ site' \in {"none", "own", "other"} /\ behind' \in BOOLEAN
    BY <1>1, <1>3, <2>2, DropFollows
  <2>4. Tells(c) <=> Tells(c)'
    BY <1>1, <2>2 DEF Tells, On
  <2>5. WithdrawnInv'
    BY <1>1, <2>2, <2>4, StillWithdrawn DEF PubInv
  <2> QED
    BY <1>1, <2>2, <2>3, <2>5 DEF PubInv, WebOK
<1> QED
  BY <1>4, <1>5 DEF Revalidate

\* A call past the revalidation owes the site nothing.
LEMMA PastFollows ==
    ASSUME PubInv, NEW c \in Editors, On(c, "check") \/ On(c, "submit"),
           UNCHANGED <<post, now, page, behind>>, site' = site \/ site' = Served,
           \A x \in Editors : x # c => job'[x] = job[x] /\ edit'[x] = edit[x]
    PROVE  SiteFollows' /\ site' \in {"none", "own", "other"}
<1>1. edit[c].pc = "idle"
  BY DEF PubInv, WebOK, OneThing, On
<1>2. ~Owes(c)
  BY <1>1 DEF Owes, On, At
<1>3. ToRevalidate => ToRevalidate' \/ behind'
  BY <1>2, OthersOwe
<1>4. LiveHead' = LiveHead
  BY SameHead
<1>5. LiveHead \in {"own", "other"}
  BY DEF LiveHead
<1> QED
  BY <1>3, <1>4, <1>5 DEF SiteFollows, Served, PubInv, WebOK

LEMMA CheckHeadStep ==
    ASSUME PubInv, NEW c \in Editors, CheckHead(c)
    PROVE  WebOK' /\ SiteFollows' /\ WithdrawnInv'
<1>1. /\ On(c, "check") /\ ~On(c, "idle") /\ ~job[c].deleted /\ ~job[c].silent
      /\ UNCHANGED <<post, edit, now, mute, page, gone, withdrawn, behind>>
      /\ site' = site \/ site' = Served
  BY DEF CheckHead, On, cvars, history, PubInv, WebOK, JobsOK
\* While a withdrawal is to be told, nobody who checks a page is on that one.
<1>2. ~Tells(c) \/ ~withdrawn
  BY <1>1 DEF PubInv, WithdrawnInv
<1>3. CASE Go(c, "submit")
  <2>1. /\ JobsOK(job') /\ OneThing' /\ job'[c].pc = "submit"
        /\ job'[c].slug = job[c].slug /\ job'[c].silent = job[c].silent
        /\ job'[c].deleted = job[c].deleted
        /\ \A x \in Editors : x # c => job'[x] = job[x] /\ edit'[x] = edit[x]
    BY <1>1, <1>3, JobGoes
  <2>2. SiteFollows' /\ site' \in {"none", "own", "other"}
    BY <1>1, <2>1, PastFollows
  <2>3. Tells(c) <=> Tells(c)'
    BY <1>1, <2>1 DEF Tells, On
  <2>4. WithdrawnInv'
    BY <1>1, <2>1, <2>3, StillWithdrawn DEF PubInv
  <2> QED
    BY <1>1, <2>1, <2>2, <2>4 DEF PubInv, WebOK
<1>4. CASE Finish(c)
  <2>1. /\ JobsOK(job') /\ OneThing' /\ job'[c].pc = "idle"
        /\ \A x \in Editors : x # c => job'[x] = job[x] /\ edit'[x] = edit[x]
    BY <1>1, <1>4, JobEnds
  <2>2. SiteFollows' /\ site' \in {"none", "own", "other"}
    BY <1>1, <2>1, PastFollows
  <2>3. ~Tells(c)'
    BY <2>1 DEF Tells, On
  <2>4. WithdrawnInv'
    BY <1>1, <1>2, <2>1, <2>3, StillWithdrawn DEF PubInv
  <2> QED
    BY <1>1, <2>1, <2>2, <2>4 DEF PubInv, WebOK
<1> QED
  BY <1>3, <1>4 DEF CheckHead

LEMMA SubmitStep ==
    ASSUME PubInv, NEW c \in Editors, Submit(c)
    PROVE  WebOK' /\ SiteFollows' /\ WithdrawnInv'
<1>1. /\ On(c, "submit") /\ ~On(c, "idle") /\ ~job[c].silent /\ Finish(c)
      /\ UNCHANGED <<post, edit, now, mute, page, site, behind>>
  BY DEF Submit, On, cvars, PubInv, WebOK, JobsOK
<1>2. /\ JobsOK(job') /\ OneThing' /\ job'[c].pc = "idle"
      /\ \A x \in Editors : x # c => job'[x] = job[x] /\ edit'[x] = edit[x]
  BY <1>1, JobEnds
<1>3. SiteFollows' /\ site' \in {"none", "own", "other"}
  BY <1>1, <1>2, PastFollows
<1>4. job[c].deleted \in BOOLEAN
  BY DEF PubInv, WebOK, JobsOK, JobRecord
<1>5. gone' \in BOOLEAN /\ withdrawn' \in BOOLEAN
  BY <1>4 DEF Submit, PubInv, WebOK
<1>6. ~Tells(c)' /\ \A x \in Editors : x # c => (Tells(x) <=> Tells(x)')
  BY <1>1, <1>2 DEF Tells, On
<1>7. Tells(c) <=> job[c].slug = page
  BY <1>1 DEF Tells
<1>8. WithdrawnInv'
  <2>1. CASE job[c].slug # page
    <3>1. gone' = gone /\ (withdrawn' => withdrawn)
      BY <1>5, <2>1 DEF Submit, PubInv, WebOK
    <3> QED
      BY <1>1, <1>2, <1>6, <1>7, <2>1, <3>1, StillWithdrawn DEF PubInv
  <2>2. CASE job[c].slug = page /\ withdrawn'
    <3>1. withdrawn /\ gone' = job[c].deleted
      BY <2>2 DEF Submit
    <3>2. gone'
      BY <1>7, <2>2, <3>1 DEF PubInv, WithdrawnInv
    <3>3. \A x \in Editors : Tells(x)' => job'[x].deleted
      BY <1>2, <1>6, <3>1 DEF PubInv, WithdrawnInv
    <3> QED
      BY <3>2, <3>3 DEF WithdrawnInv
  <2> QED
    BY <2>1, <2>2 DEF WithdrawnInv
<1> QED
  BY <1>1, <1>2, <1>3, <1>5, <1>8 DEF PubInv, WebOK

LEMMA CrashJobStep ==
    ASSUME PubInv, NEW c \in Editors, CrashJob(c)
    PROVE  WebOK' /\ SiteFollows' /\ WithdrawnInv'
<1>1. /\ ~On(c, "idle") /\ Finish(c)
      /\ withdrawn' = (withdrawn /\ (job[c].silent \/ job[c].slug # page))
      /\ UNCHANGED <<post, edit, now, mute, page, site, gone>>
  BY DEF CrashJob, web
<1>2. /\ JobsOK(job') /\ OneThing' /\ job'[c].pc = "idle"
      /\ \A x \in Editors : x # c => job'[x] = job[x] /\ edit'[x] = edit[x]
  BY <1>1, JobEnds
<1>3. behind' \in BOOLEAN /\ (behind => behind')
  BY DEF CrashJob, PubInv, WebOK
<1>4. edit[c].pc = "idle"
  BY <1>1 DEF PubInv, WebOK, OneThing, On
<1>5. Owes(c) => behind'
  BY <1>4 DEF CrashJob, Owes, At
<1>6. ToRevalidate => ToRevalidate' \/ behind'
  BY <1>1, <1>2, <1>5, OthersOwe
<1>7. LiveHead' = LiveHead
  BY <1>1, SameHead
<1>8. SiteFollows'
  BY <1>1, <1>3, <1>6, <1>7, StillFollows DEF PubInv
<1>9. withdrawn' \in BOOLEAN
  BY <1>1 DEF PubInv, WebOK
<1>10. ~Tells(c)' /\ (withdrawn' => ~Tells(c))
  BY <1>1, <1>2 DEF Tells, On
<1>11. WithdrawnInv'
  BY <1>1, <1>2, <1>10, StillWithdrawn DEF PubInv
<1> QED
  BY <1>1, <1>2, <1>3, <1>8, <1>9, <1>11 DEF PubInv, WebOK

LEMMA CrashPatchStep ==
    ASSUME PubInv, NEW c \in Editors, CrashPatch(c)
    PROVE  WebOK' /\ SiteFollows' /\ WithdrawnInv'
<1>1. /\ ~At(c, "idle") /\ EndEdit(c)
      /\ behind' = (behind \/ (At(c, "redirect") /\ page \in {edit[c].old, edit[c].new}))
      /\ UNCHANGED <<post, now, mute, job, page, web, withdrawn>>
  BY DEF CrashPatch, CrashEdit
<1>2. edit'[c].pc = "idle" /\ \A x \in Editors : x # c => edit'[x] = edit[x]
  BY <1>1 DEF EndEdit, PubInv, RowsInv, EditsOK, NoEdit
<1>3. On(c, "idle")
  BY <1>1 DEF At, On, PubInv, WebOK, OneThing
<1>4. Owes(c) => behind'
  BY <1>1, <1>3 DEF Owes, On
<1>5. behind' \in BOOLEAN /\ (behind => behind')
  BY <1>1 DEF PubInv, WebOK
<1>6. OneThing'
  BY <1>1, <1>2 DEF PubInv, WebOK, OneThing
<1>7. ToRevalidate => ToRevalidate' \/ behind'
  BY <1>1, <1>2, <1>4, OthersOwe
<1>8. LiveHead' = LiveHead
  BY <1>1, SameHead
<1>9. SiteFollows'
  BY <1>1, <1>5, <1>7, <1>8, StillFollows DEF PubInv, web
<1>10. WithdrawnInv'
  BY <1>1 DEF PubInv, WithdrawnInv, Tells, Telling, On, web
<1> QED
  BY <1>1, <1>5, <1>6, <1>9, <1>10 DEF PubInv, WebOK, JobsOK, web

LEMMA RenameFailsStep ==
    ASSUME PubInv, NEW c \in Editors, RenameFails(c)
    PROVE  WebOK' /\ SiteFollows' /\ WithdrawnInv'
<1>1. /\ ~At(c, "idle") /\ EndEdit(c)
      /\ behind' = (behind \/ page \in {edit[c].old, edit[c].new})
      /\ UNCHANGED <<post, now, mute, job, page, web, withdrawn>>
  BY DEF RenameFails, RedirectClashes, At
<1>2. edit'[c].pc = "idle" /\ \A x \in Editors : x # c => edit'[x] = edit[x]
  BY <1>1 DEF EndEdit, PubInv, RowsInv, EditsOK, NoEdit
<1>3. On(c, "idle")
  BY <1>1 DEF At, On, PubInv, WebOK, OneThing
<1>4. Owes(c) => behind'
  BY <1>1, <1>3 DEF Owes, On
<1>5. behind' \in BOOLEAN /\ (behind => behind')
  BY <1>1 DEF PubInv, WebOK
<1>6. OneThing'
  BY <1>1, <1>2 DEF PubInv, WebOK, OneThing
<1>7. ToRevalidate => ToRevalidate' \/ behind'
  BY <1>1, <1>2, <1>4, OthersOwe
<1>8. LiveHead' = LiveHead
  BY <1>1, SameHead
<1>9. SiteFollows'
  BY <1>1, <1>5, <1>7, <1>8, StillFollows DEF PubInv, web
<1>10. WithdrawnInv'
  BY <1>1 DEF PubInv, WithdrawnInv, Tells, Telling, On, web
<1> QED
  BY <1>1, <1>5, <1>6, <1>9, <1>10 DEF PubInv, WebOK, JobsOK, web

\* A visitor caches what is live, a page that expires is fetched anew, and a date
\* that passes is a known reason.
LEMMA CacheStep ==
    ASSUME PubInv, Visit \/ Expire \/ TimePasses
    PROVE  WebOK' /\ SiteFollows' /\ WithdrawnInv'
<1>1. UNCHANGED <<post, edit, mute, job, page, gone, withdrawn>>
  BY DEF Visit, Expire, TimePasses, Tick, cvars, web, history
<1>2. LiveHead \in {"own", "other"}
  BY DEF LiveHead
<1>3. site' \in {"none", "own", "other"} /\ behind' \in BOOLEAN
  BY <1>2 DEF Visit, Expire, TimePasses, Tick, web, history, PubInv, WebOK
<1>4. WebOK'
  BY <1>1, <1>3 DEF PubInv, WebOK, JobsOK, OneThing
<1>5. WithdrawnInv'
  BY <1>1 DEF PubInv, WithdrawnInv, Tells, Telling, On
<1>6. SiteFollows'
  <2>1. CASE Visit
    <3>1. LiveHead' = LiveHead /\ site' = LiveHead
      BY <2>1, SameHead DEF Visit, cvars
    <3> QED
      BY <3>1 DEF SiteFollows
  <2>2. CASE Expire
    BY <2>2 DEF Expire, SiteFollows
  <2>3. CASE TimePasses
    <3>1. ToRevalidate => ToRevalidate'
      BY <1>1 DEF ToRevalidate, On, At
    <3>2. (behind => behind') /\ (LiveHead' = LiveHead \/ behind') /\ site' = site
      BY <2>3 DEF TimePasses, web
    <3> QED
      BY <1>1, <3>1, <3>2, StillFollows DEF PubInv
  <2> QED
    BY <2>1, <2>2, <2>3
<1> QED
  BY <1>4, <1>5, <1>6

\* Reading a row, listing what is due and losing the list change no page.
LEMMA ReadingStep ==
    ASSUME PubInv, Reading \/ UNCHANGED vars
    PROVE  WebOK' /\ SiteFollows' /\ WithdrawnInv'
<1>1. UNCHANGED <<post, now, mute, job, page, site, gone, withdrawn, behind>>
  BY DEF Reading, ReadForPatch, ReadForPublish, ListDue, CrashCron, vars, cvars, pubVars, web,
         history
<1>2. \A c \in Editors :
          \/ edit'[c] = edit[c]
          \/ edit[c].pc = "idle" /\ job[c].pc = "idle" /\ edit'[c].pc # "redirect"
  <2>1. ASSUME NEW d \in Editors, NEW p \in Posts, On(d, "idle"), ReadForPatch(d, p),
               NEW c \in Editors
        PROVE  \/ edit'[c] = edit[c]
               \/ edit[c].pc = "idle" /\ job[c].pc = "idle" /\ edit'[c].pc # "redirect"
    <3> DEFINE k == [NoEdit EXCEPT !.pc = "patch", !.post = p, !.old = post[p].slug]
    <3>1. k.pc = "patch"
      BY DEF NoEdit
    <3>2. edit' = [edit EXCEPT ![d] = k] /\ edit[d].pc = "idle" /\ job[d].pc = "idle"
      BY <2>1 DEF ReadForPatch, At, On
    <3> HIDE DEF k
    <3> QED
      BY <3>1, <3>2 DEF PubInv, RowsInv, EditsOK
  <2>2. ASSUME NEW d \in Editors, NEW p \in Posts, On(d, "idle"), ReadForPublish(d, p),
               NEW c \in Editors
        PROVE  \/ edit'[c] = edit[c]
               \/ edit[c].pc = "idle" /\ job[c].pc = "idle" /\ edit'[c].pc # "redirect"
    <3> DEFINE k == [NoEdit EXCEPT !.pc = "publish", !.post = p, !.dated = post[p].at # NoTime]
    <3>1. k.pc = "publish"
      BY DEF NoEdit
    <3>2. edit' = [edit EXCEPT ![d] = k] /\ edit[d].pc = "idle" /\ job[d].pc = "idle"
      BY <2>2 DEF ReadForPublish, At, On
    <3> HIDE DEF k
    <3> QED
      BY <3>1, <3>2 DEF PubInv, RowsInv, EditsOK
  <2> QED
    BY <2>1, <2>2 DEF Reading, ListDue, CrashCron, vars, cvars
<1>3. WebOK'
  BY <1>1, <1>2 DEF PubInv, WebOK, JobsOK, OneThing
<1>4. \A c \in Editors : Owes(c) => Owes(c)'
  BY <1>1, <1>2 DEF Owes, On, At
<1>5. ToRevalidate => ToRevalidate'
  BY <1>4 DEF ToRevalidate, Owes
<1>6. LiveHead' = LiveHead
  BY <1>1, SameHead
<1>7. SiteFollows'
  BY <1>1, <1>5, <1>6, StillFollows DEF PubInv
<1>8. WithdrawnInv'
  BY <1>1 DEF PubInv, WithdrawnInv, Tells, Telling, On
<1> QED
  BY <1>3, <1>7, <1>8

-----------------------------------------------------------------------------
LEMMA PubInit == PublishingInit => PubInv
<1> SUFFICES ASSUME PublishingInit PROVE PubInv
  OBVIOUS
<1>1. RowsInv
  BY RowsInit DEF PublishingInit
<1>2. Present
  BY DEF PublishingInit, ContentInit, Present, NoEdit
<1>3. NoJob \in JobRecord /\ NoJob.pc = "idle"
  BY DEF NoJob, JobRecord
<1>4. WebOK
  BY <1>3 DEF PublishingInit, WebOK, JobsOK, OneThing
<1>5. SiteFollows /\ WithdrawnInv
  BY DEF PublishingInit, SiteFollows, WithdrawnInv
<1> QED
  BY <1>1, <1>2, <1>4, <1>5 DEF PubInv

LEMMA PubStep == ASSUME PubInv, [PublishingNext]_vars PROVE PubInv' /\ DatesKept
<1>1. RowsInv' /\ Present' /\ DatesKept
  BY PublishingRows DEF PubInv
<1>2. ASSUME NEW f \in Files
      PROVE  BuildRow(f).slug \in Slugs /\ BuildRow(f).noindex \in BOOLEAN
  BY <1>2, PublishingAssumption DEF File, BuildRow
<1>3. ASSUME NEW c \in Editors, Write(c) PROVE WebOK' /\ SiteFollows' /\ WithdrawnInv'
  <2>1. ASSUME NEW p \in Posts, NEW body \in Upserts, UpsertPost(c, p, body)
        PROVE  WebOK' /\ SiteFollows' /\ WithdrawnInv'
    BY <2>1, UpsertPostStep, PublishingAssumption DEF UpsertBody
  <2>2. ASSUME NEW p \in Posts, NEW f \in Files, ImportByApi(c, p, BuildRow(f))
        PROVE  WebOK' /\ SiteFollows' /\ WithdrawnInv'
    BY <1>2, <2>2, UpsertPostStep DEF ImportByApi
  <2> QED
    BY <1>3, <2>1, <2>2, StatusPostStep, ReindexStep, PatchStarts, RenamePostStep,
       RenameFailsStep, PublishPostStep
       DEF Write
<1>4. ASSUME NEW p \in Posts, NEW f \in Files, ImportFile(p, BuildRow(f))
      PROVE  WebOK' /\ SiteFollows' /\ WithdrawnInv'
  BY <1>2, <1>4, ImportStep
<1>5. WebOK' /\ SiteFollows' /\ WithdrawnInv'
  BY <1>3, <1>4, RevalidateOldStep, RevalidateStep, CheckHeadStep, SubmitStep, CrashJobStep,
     CrashPatchStep, CacheStep, ReadingStep
     DEF PublishingNext
<1> QED
  BY <1>1, <1>5 DEF PubInv

\* Rows, jobs and the outside stay well-formed; a call past its write knows its
\* slug, a deletion is not checked against the live page, a muted row is not
\* submitted.
THEOREM PublishingTyped == PublishingSpec => []PublishingTypeOK
<1>1. PubInv => PublishingTypeOK
  BY RowsTyped DEF PubInv, WebOK, JobsOK, PublishingTypeOK, On
<1> QED
  BY PubInit, PubStep, <1>1, PTL DEF PublishingSpec

\* The cached page is the right one, or a call is about to revalidate it, or one of
\* the reasons SiteFollows names applies: for any number of calls, posts and slugs.
THEOREM SiteFollowsHolds == PublishingSpec => []SiteFollows
<1>1. PubInv => SiteFollows
  BY DEF PubInv
<1> QED
  BY PubInit, PubStep, <1>1, PTL DEF PublishingSpec

\* A page withdrawn by the last call that had something to tell Google, by itself
\* and with success, is one Google was told is gone.
THEOREM WithdrawnIsToldHolds == PublishingSpec => []WithdrawnIsTold
<1>1. PubInv => WithdrawnIsTold
  BY DEF PubInv, WithdrawnInv, WithdrawnIsTold
<1> QED
  BY PubInit, PubStep, <1>1, PTL DEF PublishingSpec

\* The dates of the rows under all that is set off by a write, and the importer.
THEOREM PublishingDated == PublishingSpec => PublishingDates
<1>1. PubInv /\ [PublishingNext]_vars => [DatesKept]_cvars
  BY PubStep
<1>2. (UNCHANGED vars) => (UNCHANGED cvars)
  BY DEF vars
<1> QED
  BY PubInit, PubStep, <1>1, <1>2, PTL DEF PublishingSpec, PublishingDates, DatesKept, MayUndate

\* Old addresses, while the importer and the dying jobs are at it too.
THEOREM RedirectsHeld == PublishingSpec => RedirectsResolve
<1>1. ASSUME PubInv, [PublishingNext]_vars PROVE [RedirectsKept]_cvars
  <2>1. CASE JobDies
    BY <1>1, <2>1 DEF JobDies, RedirectsKept, PubInv, RowsInv
  <2> QED
    BY <1>1, <2>1, RowsMove, RedirectsStep DEF PubInv
<1>2. (UNCHANGED vars) => (UNCHANGED cvars)
  BY DEF vars
<1> QED
  BY PubInit, PubStep, <1>1, <1>2, PTL DEF PublishingSpec, RedirectsResolve, RedirectsKept
=============================================================================
