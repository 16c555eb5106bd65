------------------------------- MODULE Content -------------------------------
(***************************************************************************)
(* Guides and stories: the write paths of bl/content.py over content_posts *)
(* and content_slug_redirects.  One collection stands for both kinds (they *)
(* share nothing but the table).  A call that reads a row and then writes  *)
(* does so in separate transactions, as in the code.  What leaves the      *)
(* system after the write is in Publishing.                                *)
(***************************************************************************)
EXTENDS Integers

CONSTANTS
    Posts,       \* row ids of content_posts
    Slugs,       \* slugs callers use
    Sources,     \* external_id: who wrote a row last
    Editors,     \* admin calls (views/content_admin.py) at work at once
    MaxTime,     \* bound: the clock stops here
    MaxCrashes,  \* bound: calls that die half-way
    None

ASSUME ContentAssumption ==
    /\ MaxTime \in Nat \ {0} /\ MaxCrashes \in Nat
    /\ None \notin Posts \cup Slugs \cup Sources

VARIABLES
    post,        \* the rows; slug None: not there yet
    redirect,    \* to_slug of each retired slug
    edit,        \* what each admin call read and has to do
    due,         \* scheduled posts the cron has listed and not yet flipped
    now,
    crashes

cvars == <<post, redirect, edit, due, now, crashes>>

Statuses == {"draft", "scheduled", "published", "archived"}
NoTime == 0      \* published_at IS NULL
NoPost == [slug |-> None, status |-> "draft", at |-> NoTime, by |-> None]
NoEdit == [pc |-> "idle", post |-> None, old |-> None, new |-> None, fresh |-> FALSE, dated |-> FALSE]

ContentInit ==
    /\ post = [p \in Posts |-> NoPost]
    /\ redirect = [s \in Slugs |-> None]
    /\ edit = [c \in Editors |-> NoEdit]
    /\ due = {}
    /\ now = 1
    /\ crashes = 0

Exists(p) == post[p].slug # None
At(c, label) == edit[c].pc = label
EndEdit(c) == edit' = [edit EXCEPT ![c] = NoEdit]
SetStatus(p, status) == post' = [post EXCEPT ![p].status = status]

\* The one definition of "a visitor can see this".
Visible(p) == post[p].status = "published" /\ post[p].at # NoTime /\ post[p].at <= now

-----------------------------------------------------------------------------
(* upsert_post *)

\* Mutant: the local time of a zone east of UTC.
PublishTime_Local(status, at) == IF status = "published" /\ at = NoTime THEN now + 1 ELSE at

\* _prepare: publishing without a time means now.
PublishTime(status, at) == IF status = "published" /\ at = NoTime THEN now ELSE at

Row(slug, status, at, by) ==
    [slug |-> slug, status |-> status, at |-> PublishTime(status, at), by |-> by]

\* Inserts or overwrites by slug, in one transaction under the row lock; two
\* first inserts of one slug clash and the loser fails, which changes nothing.
Upsert(p, slug, status, at, by) ==
    /\ IF \E q \in Posts : post[q].slug = slug THEN post[p].slug = slug ELSE ~Exists(p)
    /\ post' = [post EXCEPT ![p] = Row(slug, status, at, by)]

AdminUpsert(slug, status, at) ==
    /\ \E p \in Posts : Upsert(p, slug, status, at, None)
    /\ UNCHANGED <<redirect, edit, due, now, crashes>>

-----------------------------------------------------------------------------
(* patch_post: read the row, patch it, leave a redirect behind *)

ReadForPatch(c, p) ==
    /\ At(c, "idle") /\ Exists(p)
    /\ edit' = [edit EXCEPT ![c] = [NoEdit EXCEPT !.pc = "patch", !.post = p,
                                                  !.old = post[p].slug]]
    /\ UNCHANGED <<post, redirect, due, now, crashes>>

\* A field the caller left out keeps its value.
Patched(row, slug, status, at) ==
    [row EXCEPT !.slug = IF slug = None THEN @ ELSE slug,
                !.status = IF status = None THEN @ ELSE status,
                !.at = IF at = NoTime THEN @ ELSE at]

\* (kind, slug) is unique: a slug another row holds is a 500.  A rename goes on to
\* look for the redirect of the slug it left: fresh, there was none yet.
Patch(c, slug, status, at) ==
    LET p == edit[c].post IN
    /\ At(c, "patch")
    /\ IF \E q \in Posts \ {p} : post[q].slug = slug /\ slug # None
       THEN EndEdit(c) /\ UNCHANGED post
       ELSE /\ post' = [post EXCEPT ![p] = Patched(post[p], slug, status, at)]
            /\ IF slug \in {None, edit[c].old} THEN EndEdit(c)
               ELSE edit' = [edit EXCEPT ![c].pc = "redirect", ![c].new = slug,
                                             ![c].fresh = (redirect[edit[c].old] = None)]
    /\ UNCHANGED <<redirect, due, now, crashes>>

\* Mutant: the wrong way round.
AddRedirect_Swapped(c) ==
    /\ At(c, "redirect")
    /\ redirect' = [redirect EXCEPT ![edit[c].new] = edit[c].old]
    /\ EndEdit(c)
    /\ UNCHANGED <<post, due, now, crashes>>

\* add_redirect: looks the slug up, without a lock, and inserts or overwrites.
AddRedirect(c) ==
    /\ At(c, "redirect")
    /\ redirect' = [redirect EXCEPT ![edit[c].old] = edit[c].new]
    /\ EndEdit(c)
    /\ UNCHANGED <<post, due, now, crashes>>

\* The lookup came before another call's first insert of the slug, which is
\* unique: a 500, and no redirect.
RedirectClashes(c) ==
    /\ At(c, "redirect") /\ edit[c].fresh /\ redirect[edit[c].old] # None
    /\ EndEdit(c)
    /\ UNCHANGED <<post, redirect, due, now, crashes>>

-----------------------------------------------------------------------------
(* set_published, archive_post *)

ReadForPublish(c, p) ==
    /\ At(c, "idle") /\ Exists(p)
    /\ edit' = [edit EXCEPT ![c] = [NoEdit EXCEPT !.pc = "publish", !.post = p,
                                                  !.dated = post[p].at # NoTime]]
    /\ UNCHANGED <<post, redirect, due, now, crashes>>

\* Mutant: the time is left as it is.
Publish_Undated(c) ==
    /\ At(c, "publish")
    /\ SetStatus(edit[c].post, "published")
    /\ EndEdit(c)
    /\ UNCHANGED <<redirect, due, now, crashes>>

Publish(c) ==
    LET p == edit[c].post IN
    /\ At(c, "publish")
    /\ post' = [post EXCEPT ![p].status = "published",
                            ![p].at = IF edit[c].dated THEN @ ELSE now]
    /\ EndEdit(c)
    /\ UNCHANGED <<redirect, due, now, crashes>>

Unpublish(p) ==
    /\ Exists(p) /\ SetStatus(p, "draft")
    /\ UNCHANGED <<redirect, edit, due, now, crashes>>

Archive(p) ==
    /\ Exists(p) /\ SetStatus(p, "archived")
    /\ UNCHANGED <<redirect, edit, due, now, crashes>>

-----------------------------------------------------------------------------
(* publish_due_scheduled: list, then flip the rows one by one *)

IsDue(p) ==
    Exists(p) /\ post[p].status = "scheduled" /\ post[p].at # NoTime /\ post[p].at <= now

ListDue ==
    /\ due = {} /\ \E p \in Posts : IsDue(p)
    /\ due' = {p \in Posts : IsDue(p)}
    /\ UNCHANGED <<post, redirect, edit, now, crashes>>

\* Whatever became of the row since it was listed.
FlipDue(p) ==
    /\ p \in due
    /\ SetStatus(p, "published")
    /\ due' = due \ {p}
    /\ UNCHANGED <<redirect, edit, now, crashes>>

-----------------------------------------------------------------------------

CrashEdit(c) ==
    /\ ~At(c, "idle") /\ crashes < MaxCrashes
    /\ EndEdit(c)
    /\ crashes' = crashes + 1
    /\ UNCHANGED <<post, redirect, due, now>>

CrashCron ==
    /\ due # {} /\ crashes < MaxCrashes
    /\ due' = {}
    /\ crashes' = crashes + 1
    /\ UNCHANGED <<post, redirect, edit, now>>

Tick == now < MaxTime /\ now' = now + 1 /\ UNCHANGED <<post, redirect, edit, due, crashes>>

Times == NoTime..MaxTime

ContentNext ==
    \/ \E s \in Slugs, st \in Statuses, t \in Times : AdminUpsert(s, st, t)
    \/ \E c \in Editors :
         \/ \E p \in Posts : ReadForPatch(c, p) \/ ReadForPublish(c, p)
         \/ \E s \in Slugs \cup {None}, st \in Statuses \cup {None}, t \in Times :
              Patch(c, s, st, t)
         \/ AddRedirect(c) \/ RedirectClashes(c) \/ Publish(c) \/ CrashEdit(c)
    \/ \E p \in Posts : Unpublish(p) \/ Archive(p) \/ FlipDue(p)
    \/ ListDue \/ CrashCron \/ Tick

ContentSpec == ContentInit /\ [][ContentNext]_cvars
-----------------------------------------------------------------------------
(* Properties *)

PostRecord == [slug : Slugs \cup {None}, status : Statuses, at : Times, by : Sources \cup {None}]
EditRecord == [pc : {"idle", "patch", "redirect", "publish"}, post : Posts \cup {None},
               old : Slugs \cup {None}, new : Slugs \cup {None},
               fresh : BOOLEAN, dated : BOOLEAN]

ContentTypeOK ==
    /\ post \in [Posts -> PostRecord]
    /\ redirect \in [Slugs -> Slugs \cup {None}]
    /\ edit \in [Editors -> EditRecord]
    /\ \A c \in Editors : ~At(c, "idle") => edit[c].post \in Posts
    /\ \A c \in Editors : At(c, "redirect") => edit[c].old \in Slugs /\ edit[c].new \in Slugs
    /\ due \in SUBSET Posts
    /\ now \in 1..MaxTime
    /\ crashes \in 0..MaxCrashes

\* "Publishing without a timestamp means now - otherwise the post would be published
\* and invisible, which is the most confusing state there is" (_prepare, and all
\* "that writes content funnels through" it).
Undated(p) == post[p].status = "published" /\ post[p].at = NoTime

PublishedIsDated == \A p \in Posts : ~Undated(p)

\* Three writes only leave a post published without a date: a patch, at which the
\* code does not prepare the row (PublishedIsDated fails); a publish that had read a
\* date; and the cron's flip of a row it had listed with one, when another call has
\* cleared the date since.
PublishingDates ==
    [][\A p \in Posts : Undated(p)' /\ ~Undated(p) =>
         \/ \E c \in Editors : edit[c].post = p /\ At(c, "patch") /\ ~At(c, "patch")'
         \/ \E c \in Editors : /\ edit[c].post = p /\ edit[c].dated /\ post[p].at = NoTime
                              /\ At(c, "publish") /\ ~At(c, "publish")'
         \/ p \in due \ due' /\ post[p].at = NoTime]_cvars

\* "It must keep resolving, so it becomes a 301" (patch_post): following the redirects
\* from an old slug leads to a post, and no later call undoes that: not a rename
\* back, a slug taken over by another row, or a loop in the table.  A call that dies
\* before its redirect does, of course.
Leads(s) ==
    {redirect[s]} \cup {edit[c].new : c \in {d \in Editors : At(d, "redirect") /\ edit[d].old = s}}

\* The redirects lead from s to a post, unless some slugs without one, s among them,
\* redirect to each other only.
Vacant == Slugs \ {post[p].slug : p \in Posts}
Closed(A) == \A t \in A : Leads(t) \subseteq A \cup {None}
Resolves(s) == ~\E A \in SUBSET Vacant : s \in A /\ Closed(A)

OldUrlsResolve ==
    [][\A s \in Slugs : Resolves(s)' \/ ~Resolves(s) \/ crashes' # crashes]_cvars

\* So does a call whose redirect clashes with another one's, and two renames of one
\* row that cross: the later update was decided on the row before the earlier one
\* (the slug in between is lost), or the redirect of one is written when the other
\* has renamed the row again.  Nothing else does.
RenamesCross ==
    \E c \in Editors : LET row == post[edit[c].post] IN
        \/ /\ At(c, "patch") /\ ~At(c, "patch")'
           /\ row.slug # edit[c].old /\ row.slug # post'[edit[c].post].slug
        \/ At(c, "redirect") /\ ~At(c, "redirect")' /\ row.slug # edit[c].new

RedirectsResolve ==
    [][\A s \in Slugs :
         \/ Resolves(s)' \/ ~Resolves(s) \/ crashes' # crashes
         \/ RenamesCross \/ \E c \in Editors : RedirectClashes(c)]_cvars
=============================================================================
