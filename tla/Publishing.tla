----------------------------- MODULE Publishing -----------------------------
(***************************************************************************)
(* What a write of bl/content.py sets off outside the database: the site's *)
(* cached page is dropped (revalidate), the live page is fetched and its   *)
(* head checked, and the search engines are told (submit_to_indexes).  The *)
(* call that wrote does all this one after the other, on the row it wrote, *)
(* while other calls write on; any of it may fail and none of it is        *)
(* undone.  scripts/import_content_md.py writes rows as well and sets      *)
(* nothing off.                                                            *)
(*                                                                         *)
(* One slug, picked at the start, is watched: of what lies outside the     *)
(* database only the part about it is kept.  Its cached page is the page   *)
(* of the post at that slug ("own") or another one ("other": not found, or *)
(* a redirect).                                                            *)
(***************************************************************************)
EXTENDS Content

CONSTANTS
    Upserts,     \* what callers send: the jobs,
    Patches,     \* the admin,
    Files        \* and the importer

\* PostUpsertValidator and PostPatchValidator: what a caller may send.  NoTime
\* and None stand for a field left out.
UpsertBody == [slug : Slugs, status : Statuses, at : Times, noindex : BOOLEAN]
PatchBody == [slug : Slugs \cup {None}, status : Statuses \cup {None}, at : Times,
              noindex : {"same", "no", "noindex"}]
File == [slug : Slugs, date : Times, noindex : BOOLEAN]    \* front matter

ASSUME PublishingAssumption ==
    Upserts \subseteq UpsertBody /\ Patches \subseteq PatchBody /\ Files \subseteq File

VARIABLES
    mute,        \* why a row is kept from the search engines, if it is
    job,         \* what a call that has written still has to do (one of the
                 \* Editors, after or instead of its edit)
    page,        \* the slug watched
    site,        \* the page the frontend has cached there
    gone,        \* what Google was last told about it: URL_DELETED or not
    withdrawn,   \* history: the last call to tell Google about it was one that
                 \* withdrew it, overlapped no other and reached Google
    behind       \* history: the cached page may be old for a known reason

web == <<site, gone>>
history == <<withdrawn, behind>>
pubVars == <<mute, job, page, web, history>>
vars == <<cvars, pubVars>>

NoJob == [pc |-> "idle", old |-> None, slug |-> None, deleted |-> FALSE, silent |-> FALSE]

PublishingInit ==
    /\ ContentInit
    /\ mute = [p \in Posts |-> "no"]
    /\ job = [c \in Editors |-> NoJob]
    /\ page \in Slugs
    /\ site = "none" /\ gone = FALSE /\ withdrawn = FALSE
    /\ behind = FALSE

On(c, label) == job[c].pc = label
Free(c) == At(c, "idle") /\ On(c, "idle")
Go(c, label) == job' = [job EXCEPT ![c].pc = label]
Finish(c) == job' = [job EXCEPT ![c] = NoJob]

\* get_post: a visible post; otherwise a redirect or a 404.
LiveHead == IF \E p \in Posts : post[p].slug = page /\ Visible(p) THEN "own" ELSE "other"
Served == IF site = "none" THEN LiveHead ELSE site

\* Some call has still to tell Google about the slug.
Telling == \E c \in Editors : ~On(c, "idle") /\ job[c].slug = page /\ ~job[c].silent

-----------------------------------------------------------------------------
(* The write, and what is left to do after it *)

\* A call that has just written the row at this slug; a silent one will only
\* revalidate.
StartsWith(c, pc, old, slug, deleted, silent) ==
    /\ job' = [job EXCEPT ![c] = [pc |-> pc, old |-> old, slug |-> slug,
                                  deleted |-> deleted, silent |-> silent]]
    /\ withdrawn' = IF silent \/ slug # page THEN withdrawn ELSE deleted /\ ~Telling

\* upsert_post: an upsert says anew whether the row is muted.
UpsertPost(c, p, body) ==
    /\ Free(c)
    /\ Upsert(p, body.slug, body.status, body.at, None)
    /\ mute' = [mute EXCEPT ![p] = IF body.noindex THEN "noindex" ELSE "no"]
    /\ StartsWith(c, "revalidate", None, body.slug, FALSE, body.noindex)
    /\ UNCHANGED <<redirect, edit, due, now, crashes, page, web, behind>>

SlugTaken(c, slug) == slug # None /\ \E q \in Posts \ {edit[c].post} : post[q].slug = slug

\* The slug the row loses although this call had read another one: two renames
\* crossed, and no redirect is left for it.
Lost(c, slug) ==
    IF slug = None THEN {} ELSE {post[edit[c].post].slug} \ {slug, edit[c].old}

\* The update of patch_post; when the slug changes the redirect comes first.  A
\* patch tells no search engine.
PatchPost(c, body) ==
    LET p == edit[c].post IN
    /\ Patch(c, body.slug, body.status, body.at)
    /\ IF SlugTaken(c, body.slug)
       THEN UNCHANGED <<mute, job, history>>
       ELSE /\ mute' = [mute EXCEPT ![p] = IF body.noindex = "same" \/ @ = "import" THEN @
                                           ELSE body.noindex]
            /\ behind' = (behind \/ page \in Lost(c, body.slug))
            /\ IF body.slug \in {None, edit[c].old}
               THEN StartsWith(c, "revalidate", None, post'[p].slug, FALSE, TRUE)
               ELSE UNCHANGED <<job, withdrawn>>
    /\ UNCHANGED <<page, web>>

\* Mutant: the old address is not revalidated.
RenamePost_NewOnly(c) ==
    /\ AddRedirect(c)
    /\ StartsWith(c, "revalidate", None, edit[c].new, FALSE, TRUE)
    /\ UNCHANGED <<mute, page, web, behind>>

\* add_redirect, and what follows it.
RenamePost(c) ==
    /\ AddRedirect(c)
    /\ StartsWith(c, "old", edit[c].old, edit[c].new, FALSE, TRUE)
    /\ UNCHANGED <<mute, page, web, behind>>

\* An error there ends the call: the site is told of neither slug.
RenameFails(c) ==
    /\ RedirectClashes(c)
    /\ behind' = (behind \/ page \in {edit[c].old, edit[c].new})
    /\ UNCHANGED <<mute, job, page, web, withdrawn>>

\* set_published and archive_post, and the flip of the cron.
PublishPost(c) ==
    LET p == edit[c].post IN
    /\ Publish(c)
    /\ StartsWith(c, "revalidate", None, post[p].slug, FALSE, mute[p] # "no")
    /\ UNCHANGED <<mute, page, web, behind>>

WithdrawPost(c, p) ==
    /\ Free(c)
    /\ Unpublish(p) \/ Archive(p)
    /\ StartsWith(c, "revalidate", None, post[p].slug, TRUE, mute[p] # "no")
    /\ UNCHANGED <<mute, page, web, behind>>

FlipPost(c, p) ==
    /\ Free(c) /\ FlipDue(p)
    /\ StartsWith(c, "revalidate", None, post[p].slug, FALSE, mute[p] # "no")
    /\ UNCHANGED <<mute, page, web, behind>>

\* reindex_post: the row as it is, whatever its status.
Reindex(c, p) ==
    /\ Free(c) /\ Exists(p) /\ mute[p] = "no"
    /\ StartsWith(c, "check", None, post[p].slug, FALSE, FALSE)
    /\ UNCHANGED <<cvars, mute, page, web, behind>>

-----------------------------------------------------------------------------
(* import_content_md.py, a file at a time.  A file that does not parse is    *)
(* counted and passed over; a run that dies has done the files before.       *)

\* parse_date: a date that is missing or unreadable is now.
ParseDate(date) == IF date = NoTime THEN now ELSE date

\* build_row: every file is a published post.
BuildRow(file) ==
    [slug |-> file.slug, status |-> "published", at |-> ParseDate(file.date),
     noindex |-> file.noindex]

\* With --api-url each file is the upsert of any other job (to_payload).
ImportByApi(c, p, row) == UpsertPost(c, p, row)

\* Otherwise it goes straight to the table, and the site learns nothing.
ImportFile(p, row) ==
    /\ Upsert(p, row.slug, row.status, row.at, None)
    /\ mute' = [mute EXCEPT ![p] = "import"]
    /\ behind' = (behind \/ row.slug = page)
    /\ UNCHANGED <<redirect, edit, due, now, crashes, job, page, web, withdrawn>>

-----------------------------------------------------------------------------
(* The rest of the call *)

\* revalidate: the page is dropped, or three attempts fail.
Drop(s) ==
    \/ s # page /\ UNCHANGED <<site, behind>>
    \/ s = page /\ site' = "none" /\ behind' = FALSE
    \/ s = page /\ UNCHANGED site /\ behind' = TRUE

RevalidateOld(c) ==
    /\ On(c, "old")
    /\ Drop(job[c].old)
    /\ Go(c, "revalidate")
    /\ UNCHANGED <<cvars, mute, page, gone, withdrawn>>

\* Mutant: a deletion goes through the head check like the rest.
Revalidate_ChecksDeletions(c) ==
    /\ On(c, "revalidate")
    /\ Drop(job[c].slug)
    /\ IF job[c].silent THEN Finish(c) ELSE Go(c, "check")
    /\ UNCHANGED <<cvars, mute, page, gone, withdrawn>>

\* Deletions skip the head check: the page is supposed to be gone.
Revalidate(c) ==
    /\ On(c, "revalidate")
    /\ Drop(job[c].slug)
    /\ IF job[c].silent THEN Finish(c) ELSE Go(c, IF job[c].deleted THEN "submit" ELSE "check")
    /\ UNCHANGED <<cvars, mute, page, gone, withdrawn>>

\* _head_is_correct: the page as a visitor gets it, which caches it.  False ends
\* the call; a check that could not run does not.
CheckHead(c) ==
    /\ On(c, "check")
    /\ \/ Go(c, "submit") /\ UNCHANGED site
       \/ Finish(c) /\ job[c].slug # page /\ UNCHANGED site
       \/ /\ job[c].slug = page /\ site' = Served
          /\ IF Served = "own" THEN Go(c, "submit") ELSE Finish(c)
    /\ UNCHANGED <<cvars, mute, page, gone, history>>

\* Mutant: the notification that was meant for a page that is still there.
Submit_AlwaysUpdated(c) ==
    /\ On(c, "submit")
    /\ \/ gone' = (gone /\ job[c].slug # page) /\ UNCHANGED withdrawn
       \/ UNCHANGED gone /\ withdrawn' = (withdrawn /\ job[c].slug # page)
    /\ Finish(c)
    /\ UNCHANGED <<cvars, mute, page, site, behind>>

\* submit_indexnow only pings; then submit_google, which may fail.  (What
\* mark_indexed notes on the row is read by nobody.)
Submit(c) ==
    LET about == job[c].slug = page
    IN  /\ On(c, "submit")
        /\ \/ gone' = (IF about THEN job[c].deleted ELSE gone) /\ UNCHANGED withdrawn
           \/ UNCHANGED gone /\ withdrawn' = (withdrawn /\ ~about)
        /\ Finish(c)
        /\ UNCHANGED <<cvars, mute, page, site, behind>>

\* The instance dies under a call.
CrashJob(c) ==
    /\ ~On(c, "idle") /\ crashes < MaxCrashes
    /\ crashes' = crashes + 1
    /\ behind' = (behind \/ (On(c, "old") /\ page \in {job[c].old, job[c].slug})
                         \/ (On(c, "revalidate") /\ page = job[c].slug))
    /\ withdrawn' = (withdrawn /\ (job[c].silent \/ job[c].slug # page))
    /\ Finish(c)
    /\ UNCHANGED <<post, redirect, edit, due, now, mute, page, web>>

-----------------------------------------------------------------------------
(* Readers, the cache's own clock, and the rest of Content *)

Visit ==
    /\ site = "none"
    /\ site' = LiveHead
    /\ UNCHANGED <<cvars, mute, job, page, gone, history>>

\* s-maxage runs out.
Expire ==
    /\ site # "none"
    /\ site' = "none" /\ behind' = FALSE
    /\ UNCHANGED <<cvars, mute, job, page, gone, withdrawn>>

\* A date that passes makes a published post visible; nobody tells the site.
TimePasses ==
    /\ Tick
    /\ UNCHANGED <<mute, job, page, web, withdrawn>>
    /\ behind' = (behind \/ LiveHead' # LiveHead)

\* A rename that dies before its redirect is not revalidated either.
CrashPatch(c) ==
    /\ CrashEdit(c)
    /\ behind' = (behind \/ (At(c, "redirect") /\ page \in {edit[c].old, edit[c].new}))
    /\ UNCHANGED <<mute, job, page, web, withdrawn>>

Reading ==
    /\ \/ \E c \in Editors, p \in Posts :
            On(c, "idle") /\ (ReadForPatch(c, p) \/ ReadForPublish(c, p))
       \/ ListDue \/ CrashCron
    /\ UNCHANGED pubVars

Write(c) ==
    \/ \E p \in Posts :
         \/ \E body \in Upserts : UpsertPost(c, p, body)
         \/ \E f \in Files : ImportByApi(c, p, BuildRow(f))
         \/ WithdrawPost(c, p) \/ FlipPost(c, p) \/ Reindex(c, p)
    \/ \E body \in Patches : PatchPost(c, body)
    \/ RenamePost(c) \/ RenameFails(c) \/ PublishPost(c)

PublishingNext ==
    \/ \E c \in Editors : \/ Write(c)
                          \/ RevalidateOld(c) \/ Revalidate(c) \/ CheckHead(c)
                          \/ Submit(c) \/ CrashJob(c) \/ CrashPatch(c)
    \/ \E p \in Posts, f \in Files : ImportFile(p, BuildRow(f))
    \/ Visit \/ Expire \/ TimePasses \/ Reading

PublishingSpec == PublishingInit /\ [][PublishingNext]_vars

-----------------------------------------------------------------------------
(* Properties *)

JobRecord == [pc : {"idle", "old", "revalidate", "check", "submit"}, old : Slugs \cup {None},
              slug : Slugs \cup {None}, deleted : BOOLEAN, silent : BOOLEAN]

\* Types; a call past its write knows its slug, a deletion is not checked against
\* the live page, and nothing is submitted for a muted row.
PublishingTypeOK ==
    /\ ContentTypeOK
    /\ mute \in [Posts -> {"no", "noindex", "import"}]
    /\ job \in [Editors -> JobRecord]
    /\ \A c \in Editors : ~On(c, "idle") =>
         /\ job[c].slug \in Slugs
         /\ On(c, "old") => job[c].old \in Slugs
         /\ On(c, "check") => ~job[c].deleted
         /\ On(c, "submit") => ~job[c].silent
    /\ page \in Slugs
    /\ site \in {"none", "own", "other"}
    /\ {gone, withdrawn, behind} \subseteq BOOLEAN

\* The site follows the database: a cached page is the right one, or the call that
\* changed it is still to revalidate it, or one of the known reasons applies: the
\* frontend could not be reached, the call died, the importer wrote the row, a
\* publication date passed, or renames crossed or clashed.
ToRevalidate ==
    \E c \in Editors :
        \/ On(c, "old") /\ page \in {job[c].old, job[c].slug}
        \/ On(c, "revalidate") /\ page = job[c].slug
        \/ At(c, "redirect") /\ page \in {edit[c].old, edit[c].new}

SiteFollows == site \in {"none", LiveHead} \/ ToRevalidate \/ behind

\* archive_post: "Tell Google the URL is gone so it drops out instead of going
\* stale".  If the last call about a slug withdrew it, overlapped no other, and
\* reached Google, then that is what Google was told last.
WithdrawnIsTold == withdrawn /\ ~Telling => gone
=============================================================================
