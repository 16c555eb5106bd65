# A verification of dating-api

TLA+ modules of the part of dating-api that keeps state: hints and what they are
spent on, the money that buys them, accounts and what moves between them, and the
published content. TLC checks small instances of them; TLAPS proves what matters
most for instances of every size. Paths below are relative to `src/dating/`.

## The system

A FastAPI service over Postgres, run as several instances. A request is handled by
one coroutine. Every storage method opens a session of its own
(`storages/base.py`), so a handler is a sequence of short transactions with
nothing held between them, and it works on rows it read one or more transactions
ago. `models/` gives the rows a few unique keys and no CHECK constraint. That
shape decides how everything here is modelled: **one action is one transaction**,
a request carries what it has read in a record, requests interleave between any
two of their transactions, and an instance may die between any two of them.

| Part | State it keeps | Operations | Talks to |
|---|---|---|---|
| hint store (`storages/hints.py`) | three buckets and the fair-use counter on the user row; `hint_consumptions`, `hint_grants` | consume, consume_unlimited, grant, set, top up, transfer; one row lock each, transfer two | called by all flows |
| paid reads (`bl/reads.py`, `bl/hints.py`) | `subscriptions.last_accrued_at`, otherwise the request's own copies | accrue_due, precheck, model call, commit | hint store, subscriptions, Gemini |
| payments (`bl/billing.py`, `bl/paddle_webhook.py`) | `purchases`, `subscriptions`, `users.subscription_id`, `paddle_events` | checkouts, webhook, mock completion, activation, cancellation | Paddle, which redelivers; hint store |
| asset moves (`bl/billing.py` 321-383) | the subscription pointer and the balances of two users | claim_anonymous_assets, reattach_subscription | hint store, subscriptions |
| plan changes (`views/billing.py`, `bl/billing.py` 225-318) | columns of the subscription row, the bucket; what Paddle bills | upgrade, downgrade, cancel | Paddle, hint store |
| content (`bl/content.py`, `storages/content.py`) | `content_posts`, `content_slug_redirects` | upsert, patch, publish, unpublish, archive, the scheduled flip | admin calls, SiteOps, a cron |
| publishing (`bl/content.py`, `services/indexing.py`, `scripts/import_content_md.py`) | the site's cached page, what Google was told | revalidate, head check, submit, reindex; the importer's two ways to write | the site, Google, IndexNow |
| SiteOps deliveries (`views/webhooks.py`) | `webhook_deliveries` | one handler: look up, claim, write, report | SiteOps, which retries; content |
| login (`bl/auth.py`, `storages/users.py`) | `users` (email, device, first grant) | verify-and-upsert | Firebase, Telegram and Meta alerts |
| matches (`views/matches.py`, `storages/matches.py`, `services/storage.py`) | `matches`, objects in the bucket; a device's own copy | read, upload, put, delete, list | the reads, Cloud Storage, devices |
| profile, legal, prompts, email links, alerts, wiring | none | see "Not modelled" | |

What is hard here: rows read before an `await` and used after it (accrual,
precheck, activation, claims, patches, logins); a crash between two transactions of
one handler (purchase completed but not credited, subscription active without its
first cycle, delivery claimed but not written); other machines that are told
before or after the row is written (Paddle, the site's cache, Google, the bucket)
and whose answer may be lost; senders that repeat and overlap (Paddle, SiteOps, a
browser); two row locks taken in different orders; and clocks
(midnight between reading a day and locking a row, months counted up to a paid
end). `PROJECT.json` lists each of these at its line with the property that covers
it, or the reason why none does.

### What makes each part correct

- Hint store: no bucket is overdrawn; the ledgers account for every balance; paid
  and free hints are neither made nor lost by moving them.
- Reads: an answered read is charged exactly once; the cap, the daily limit and the
  paid period bound what a plan yields.
- Payments: a purchase is credited once, to its buyer; an acknowledged event has
  taken effect; an active plan has its first cycle, and activations do not stack.
- Moves: one owner per subscription; permanent and paying accounts keep what no
  claim has brought them; claims end.
- Plan changes: what is shown is what Paddle bills; a change takes no hints away.
- Content: publishing dates the post; an old address keeps leading to a post.
- Publishing: the cached page follows the database; a withdrawn page is withdrawn at
  Google.
- Matches: openers paid for stay with the match, and with its owner; screenshots are
  all there or none.
- Deliveries: written once, and an answer that stops the retries is true.
- Login: grants per device are bounded; a registration is reported, once.

## The modules

`Wallet` is the hint store. `Reads`, `Payments` and `Claim` EXTEND it and conjoin
its transactions with the steps of their requests, so each composes a flow with the
store it runs on. `Payments` implements the abstract `CreditOnce`. `PlanChange`
EXTENDS `Reads`: its calls run beside the reads and drips of the same user.
`Deliveries` and `Publishing` EXTEND `Content`: the one uses its `Upsert`, the other
conjoins every write with what follows it outside the database. `Signup` and
`Archive` stand alone: the one creates the rows the others start from, the other
takes up what the paid reads return. `MC*` hold the instances, `*Proofs` the theorems
(`PlanChange`'s are in `ReadsProofs`, `Content`'s in `PublishingProofs`).

**Wallet.** `wallet[u]` is `free_hints/sub_hints/paid_hints`, `fairUse[u]` is
`ultimate_day/ultimate_used`; the ledgers are kept as sums (`drawn` by bucket,
`servedOn` by day, `granted` by source), because the properties ask for sums and
the rows are append-only. Every method is one action named after it.
`SetSubscriptionHints` logs the whole new content and the cap can clamp a bucket
down without a ledger row, as in the code, hence the ledgers bound the balance from
above rather than equal it. The signup grant has no `hint_grants` row in the code;
it is the constant `Signup`.

**Reads.** `req[r]` is one request: its program counter, the user row it read, the
drip it is about to credit, the mode it resolved and the day it stamped. Steps:
`Arrive`, `ReadSubscription`, `GrantDue`, `AdvanceAccrual`, `Precheck`,
`ModelAnswers`/`ModelFails`, `StampDay`, `ChargeBalance`/`ChargeUnlimited`,
`Respond`, `Crash`; `ArriveConsume` is `POST /hints/consume`. Beside them a clock,
a top-up, and the plan-column half of upgrade, downgrade and cancellation. A month
is `MonthDays` days and a paid year `YearMonths` months (the calendar arithmetic of
`_add_one_month` is abstracted), so that a year fits into the days of a run and
`Horizon`, the `min(utcnow(), paid_until)` of `accrue_due`, is bounded by either half.

**Payments.** Rows are statuses by Paddle id. `call[c]` is a call being worked on,
from the webhook or the mock endpoint; `Deliver` is Paddle, which repeats an event
until `acked`. A unique-key clash ends a call in a 500 (`RecordEvent`,
`CreateSubscription`). `Activate` goes by the status an earlier step read, so two
calls can pass it. An event may arrive whose row is already canceled: the code
revives the subscription, and so does the model. `credited`, `crashes` and `lost` are
history: `lost` names the purchase or subscription whose own call died with the hints
still to be granted, so that no other death excuses anything.

**CreditOnce.** An order is placed, paid, and its hints land with the user who
placed it, once. `Payments` refines it with `order[t] = [phase, user]` read off
`purchase` and `credited`, and `topups` off the one-time ledger.

**Claim.** `claim[c]` walks the reads of `claim_anonymous_assets` one by one.
`transfer_balance` and `relink` lock two rows one after the other, so their locks
are state (`lock`); every other transaction locks one row and is atomic, guarded by
that row being free. `DeadlockAbort` is Postgres failing one of two claims that
wait for each other. Around the claims: linking an email, a checkout, activation
(whose first cycle goes to the uid of the event), the end of a subscription, its
revival by a late `updated` event (at most `Revivals` times), spends. `Paying` gives
some users a plan from the start; `ended` counts the ends of a subscription.

**PlanChange.** `change[c]` is one call of POST /billing/change-plan or
/billing/cancel with the user row it was given on arrival (`held` is its
`sub_hints`): choose the direction, read the row again, tell Paddle, rewrite the
row, set the bucket, read the answer. `paddle[u]` is what Paddle bills; its answer is
a yes, a refusal, or lost after the change was made there, which the code cannot
tell from a refusal. Reads of the same user go on meanwhile. `past` is history.

**Content.** A row is slug, status, `published_at` and who wrote it. `edit[c]` is
an admin call between its read and its writes; `due` is what the cron has listed
and not yet flipped. `add_redirect` looks a slug up without a lock, so of two first
inserts of one slug the later ends in a 500 (`RedirectClashes`, in Publishing
`RenameFails`). `PublishTime` is the part of `_prepare` that touches state. The cron's caller is
not in the repository: its steps are possible, never assumed to happen.

**Publishing.** After its write a call is a `job`: revalidate (the old address first
after a rename), check the head of the live page, submit. Each step is its own, since
other calls write between them, and each may fail without undoing anything. One slug,
`page`, chosen at the start, is watched: `site` is the page the frontend has cached
there, `gone` what Google was last told. As any slug may be the watched one, what
holds of it holds of all. The importer's direct path writes rows and tells nobody.
`withdrawn` and `behind` are history.

**Archive.** `copy[d]` is what a device keeps (the client is not in the repository:
it is taken to keep the matches it worked on and to save a match as a whole, which is
what the API offers it); `row[i]` the table, whose primary key is the match id alone.
A match is kept as the numbers of the paid reads its parts came from. Screenshots are
uploaded one after the other into `stored`, and `Signed` is what the owner is shown.
A device may change account between any two requests. `behind` and `late` are history:
the devices that may lack what their account has saved, and the saves and deletions
sent from such a copy or overtaken by another save.

**Deliveries.** The handler of `views/webhooks.py` past its signature check.
`Payload` says whether a delivery is a post, another event or unreadable, and
whether it carries a readable `publish_at`; one that does raises in `Claim`, since
an aware time is compared with the naive `utcnow()`. A failed write marks the row
`failed` and answers 500. `answers` are the answers below 500 that reached SiteOps,
which sends a delivery without one `Tries` times: twice, as it "retries once" (line
197).

**Signup.** `verify_firebase_token_and_upsert_user`: read, ask about the device,
insert with `ON CONFLICT DO NOTHING`, re-read as the loser, refresh the email,
announce. `born` and `announced` are history.

### External parts

Paddle (sends until acknowledged), SiteOps (sends, and retries once), Postgres (row locks, unique keys, a
deadlock victim), Gemini (answers or fails) and Firebase (a verified token) are
modelled by what the code relies on and marked external in `PROJECT.json`.

## The runs

Every property of a passing run has a mutant of the code, listed in `PROJECT.json`,
under which its run fails. A text of the repository that claims more than the code
does is a property of its own, which TLC refutes (below); the passing runs check what
does hold of it, with the excuse named.

| Run | Question | Bounds, and why they are enough |
|---|---|---|
| `reads_overlap` | Do charges, ledgers, cap, paid period and daily limit survive three overlapping requests? | 3 requests (two that race and one that sees the result), 4 days of one-day months and a paid year of 2 (midnights, and days past the paid end), a yearly token plan and Ultimate, limit 1, one top-up, crashes |
| `payments` | Is a purchase credited at most once? Do activations stack, leave a plan without its first cycle, or get acknowledged early? | one pack and one subscription, with a staged checkout, the mock endpoint and events that pay, activate, cancel and are empty, in any order and repeated; 2 calls (a delivery and its overlap), one crash. One buyer; two are in `topups.cfg` |
| `plan_changes` | Is the plan shown the plan billed, is a cancellation told, are hints kept and months dripped once while plans change? | 2 calls racing each other and 2 reads, two token tiers (one also monthly) and an Ultimate without a price, Paddle on and off, 3 days of one-day months, a paid year of 1 that ends in between |
| `claims` | One owner, balances conserved, permanent and paying accounts left alone, claims end | 2 claims, 2 subscriptions (one paid for from the start, which may end and be revived once), 3 accounts with the anonymous uid sorted between the others so that both lock orders occur, linking of emails; liveness checked |
| `publishing` | Does the cache follow the database, does Google learn of withdrawals, are posts dated, do old addresses resolve? | 1 row moving between 2 slugs, 2 calls (a write and the one that crosses it) with the importer, the cron and the admin, one crash; time 1-2, so a date can lie ahead |
| `archive` | Do openers stay with their match, and are screenshots all there or none? | 2 accounts, 2 devices, 1 match, 2 calls, 2 reads, profiles with no image or one more than is stored; nothing blocks, and deadlock is checked |
| `deliveries` | Written once, answered truly, answered in the end | 2 calls over 3 deliveries (undated post, dated post, other event), each sent twice at most, one crash; liveness checked |
| `signup` | Grants, announcements | 3 uids of one device with 2 emails, 2 calls: the third uid shows that the bound is the overlap, not the number of accounts; one crash |
| `accrual_overlap` | "The advanced `last_accrued_at` is the guard": violated | 2 of 3 requests suffice, no crash |
| `topup_lost` | A purchase is credited "exactly once", so a paid one in the end: violated | 2 buyers, one pack, 2 calls, one crash, Paddle delivers until its 200 |
| `claim_drain` | "A permanent account can never be drained": violated | 2 claims, no linking |
| `siteops_lost` | A delivery called a duplicate is one "we already processed": violated | 1 delivery, one retry |

Runs that may stop (requests used up, events acknowledged, the clock at its end)
switch deadlock checking off; `signup` and `archive` cannot stop and check it. Symmetry is used
on interchangeable requests, calls, rows and names, and only in runs without
liveness.

More instances are kept beside the runs, one `.cfg` each. Three pass, on other bounds:

- `topups.cfg` (MCPayments): two buyers, under fairness. A purchase is credited to its
  buyer, and a paid one in the end, unless its own call died between completing and
  crediting it (`TopUpsSettle`).
- `activations.cfg` (MCPayments): two subscriptions of unlike size, so that a bucket is
  replaced by another plan's cycle.
- `content_renames.cfg` (MCContent): Content alone, two rows in three slugs, two calls.
  Three slugs are what it takes for a loop, a take-over and a chain of redirects; it is
  2.5 minutes, without a crash, which `publishing` has.

The others end in a violation, each of one claim that the repository makes and the code
does not keep:

| Instance (module) | Property | The claim, and where it stands |
|---|---|---|
| `cycle_lost` (MCPayments) | `ActiveIsGranted` | "its first cycle was granted on the first activation" (`bl/billing.py` 148) |
| `cycle_twice` (MCPayments) | `ActiveLeftUntouched` | "an already-active subscription is left untouched" (the same line) |
| `claim_overwrite` (MCClaim) | `PayingNeverOverwritten` | "we never overwrite ... an account that is already paying" (`bl/billing.py` 355) |
| `paid_year` (MCReads) | `AllotmentPerPaidMonth` | "drip that same monthly amount across the paid year" (`bl/plans.py` 5) |
| `downgrade_keeps` (MCPlanChange) | `DowngradeKeepsBalance` | "we do NOT subtract hints" (`bl/billing.py` 284) |
| `upgrade_stale` (MCPlanChange) | `UpgradeSetsMaximum` | "Sets `sub_hints` to `max(current, new_allotment)`" (`bl/billing.py` 245) |
| `patch_undated` (MCContent) | `PublishedIsDated` | a published post without a date would be "published and invisible" (`bl/content.py` 68) |
| `renames_cross` (MCContent) | `OldUrlsResolve` | the old address "must keep resolving" (`bl/content.py` 120) |
| `device_twice` (MCSignup) | `GrantedOncePerDevice` | the grant "only ONCE per device" (`bl/auth.py` 39) |
| `signup_twice` (MCSignup) | `SignupAnnouncedOnce` | "only the request that actually inserted may announce" (`storages/users.py` 64) |
| `resume_lost` (MCArchive) | `ResumesIntact` | openers are "kept so a match resumes with them intact" (`models/match.py` 48) |
| `delete_foreign` (MCArchive) | `ScopedToOwner` | "always scoped to one user" (`storages/matches.py` 14) |

### Fairness

Weak fairness on the steps of a call that has started: a coroutine that is not
killed runs on. Strong fairness on Paddle's sending: it keeps retrying until its 200,
but whether one of the model's few call slots is free comes and goes. SiteOps does
not: it retries once, and only its two tries are assumed, by weak fairness.
Strong fairness on the steps of a claim: a lock it waits for may be taken and given
back by others. None for crashes, for users, for the clock or for the cron.

### What the runs found

The claims of the repository that are violated, by a run or by an instance beside the
runs, and what is behind them.

A row that was read in an earlier transaction:

- `accrual_overlap`: `accrue_due` credits in one transaction and moves
  `last_accrued_at` in the next. Two prechecks that read the old date both credit
  the month. The rollover cap still bounds the damage (`SubBucketBounded`).
- `cycle_twice`: two calls that read a row as pending both activate it. The bucket is
  replaced, not added to (`NeverStacks`), but a spend in between is undone.
- `claim_drain`: the donor's email is checked, but `reattach_subscription` looks the
  owner up again and drains whoever that is by then: the permanent recipient of an
  earlier claim. Only a link of such a chain is drained (`DrainedOnlyInChain`).
- `claim_overwrite`: the recipient's plan is looked at before the balance moves; one
  that goes live after that, newly activated or revived by a late event, loses its user.
  One that was live all along does not (`PaidAllAlongKept`).
- `upgrade_stale`: the balance an upgrade keeps is the one before Paddle was asked; a
  spend meanwhile is given back, a drip is taken away.
- `renames_cross`: of two renames of one row that cross, one overwrites a slug that gets
  no redirect, or writes its redirect to a slug the row has left.
- `device_twice`, `signup_twice`: overlapping logins of one device each collect the
  grant (at most as many as overlap: `DeviceGrantsBounded`), and overlapping upgrades of
  one anonymous row are both announced (a row born with its email is not: `AnnouncedOnce`).
- `resume_lost`: a save replaces the row by what the device holds; from an outdated copy,
  or arriving after another save, it removes openers. Devices that list before they
  work, and save one after the other, lose none (`OpenersKept`).
- `delete_foreign`: a deletion finds the row by id and user, without a lock, and removes
  it by its id alone; by then it may be another account's.

A call that dies, or raises, between two transactions:

- `topup_lost`: after `transition_to_completed`, before the credit; every retry finds the
  purchase completed. Only that one death loses it (`TopUpsSettle`, in `topups.cfg`).
- `cycle_lost`: after the status, before the first cycle; every retry finds the row
  active. Again only that death (`FirstCycleUnlessCrash`).
- `siteops_lost`: a delivery with a `publish_at` raises after its claim was stored;
  the retry is told "duplicate" and SiteOps stops. The post is lost.

No concurrency at all:

- `paid_year`: the first allotment is granted on activation, and one more at the end of
  every month up to and including the last, so a yearly plan has had thirteen if it is
  read after `paid_until` and before Paddle's cancellation.
- `downgrade_keeps`: the balance is kept until the first drip under the lower cap clamps it.
- `patch_undated`: `patch_post` writes the status and the date it is given; only a new text
  goes through `_prepare`, and the date that fills in is dropped.

Behaviour of the code that the properties of passing runs excuse by name, beside the
above: a fair-use charge that waits past midnight restarts the count
(`FairUseUnlessLate`); a rename that dies before its redirect, or whose redirect clashes
with another call's, leaves the old address without one (`RedirectsResolve`); two plan
changes of one user that cross, one that dies after Paddle said yes, or one whose answer
is lost leave a plan on the row that is not the one billed (`BilledAsShown`); a
registration is not reported when the call dies after storing the email
(`RegisteredIsAnnounced`); a patch revalidates but submits nothing, a post that becomes
visible because its date passes is announced by nobody, a row of the importer is cached
over until the cache runs out, and an import publishes an archived post again
(`SiteFollows`).

One reading of the plan rules has no run. A renewal reaches `_activate_subscription`
with an active row and returns: it moves no period and grants no cycle
(`last_granted_period`, kept "for idempotency on monthly renewals", is written and never
read), so a monthly plan gets one cycle in all.

## The proofs

Eight modules hold the theorems, each for all constants that satisfy the named
ASSUMEs of its component (TLC evaluates each in a run): types, distinctness of
`None`, positive months and cap, and finite sets where a sum or a count is taken
over them, for the rows of a table, the days gone by, the requests served and the
calls in flight are always finitely many. Every safety invariant and every action
property that a passing run checks is a theorem. Each follows from an inductive
invariant that adds to it what the requests in flight know and are about to do.

**Store** (`WalletProofs`). `StoreSafe`: any sequence of transactions, of any
amount, keeps types and `LedgerCoversBalance`. That pair is inductive as it stands;
there is a lemma per transaction, and the flows' proofs cite them: a step of a flow is
a store step or leaves the store alone. `StoreConserves`: the sums `PaidHintsConserved`
and `FreeHintsConserved`, over any number of users. What a sum does when one or
two of its terms change (`SumChange`, `SumMove`) is proved without an induction
over sets: a set on which it failed would have a least subset on which it fails
(`LeastSubset`, from the well-foundedness of inclusion on finite sets), which is
empty or can be had from a smaller one. The flows cite the same lemmas (`ReadsConserve`,
`PaymentsSafe`, `ClaimsConserve`).

**Reads** (`ReadsProofs`, first half). `ReadsTyped` and `ReadsSafe` add the requests'
types (`FlowInv`). `OneChargeHolds`: the requests of a user past their charge are
counted by the rows of her ledger; a step moves at most one request past its
charge, and only together with a row (`OneChargePerRead` is inductive beside the
types). `CapHolds`: `SubBucketBounded` is not inductive alone, since a request about to
credit might carry a cap that no plan has, so `CapInv` adds that it carries the cap of
a token plan; a plan may have changed since, which is why the bound is over plans.
`AccruedHolds` needs the dates requests are about to write (`CursorsWithinPaid`): they
were counted from a row that may be old, but the clock and `paid_until` only grow.
`FairUseHolds` goes by user: while nobody was charged late for her, her row counts the
last day with a charge and nothing was served after it (`Counted`), and a late charge
stays on record (`LateStays`).

**Plan changes** (`ReadsProofs`, second half: a composition with the reads, by the
lemmas of the first). `PlanSafe` carries the store's and the flow's invariants over to
calls that write both (`ChangeInv`). `BilledHolds` needs the calls between Paddle and
the row: a user in no doubt has at most one, and Paddle has its plan (`BilledFor`);
`CancelsTold`: a call that will flag a row has been heard (`EndingInv`). `BalanceHolds` is
about every step (`BalanceKept`): a drip takes nothing from a user whose plan never
changed, since she holds no more than the cap of her first plan and no request carries
another (`KeptFor`), and a bucket is set only after the row was rewritten. `DripsHold`
has hypotheses: requests come one at a time and none dies, as the property says and
the run's instance has it (`accrual_overlap` shows that it fails otherwise), and there
are finitely many plans, at least one. What drips have added is bought by the accrual
date, at the largest allotment a month, or by the date that the one request
between its credit and its write is about to put there (`DripInv`).

**Payments** (`PaymentsProofs`). `PaymentsTyped` and `PaymentsSafe` need what a call
holds at each step (`WellPlaced`). `Implements` proves `Spec => TopUpsCreditedOnce`, the
refinement of `CreditOnce`, from `CreditInv`: at most one call is at `credit` for a
purchase, that purchase is completed, and it has not been credited. Every step maps to
`Place`, `Pay`, `Credit` or a stutter. `AckedSafe` needs `HandledInv`: a call that goes
on to mark or answer has seen the whole effect done, and effects are never taken back
(a canceled subscription was activated). `ActivationsSafe` (`NeverStacks`) and
`FirstCycleGranted` are inductive beside the types: the bucket is only ever replaced or
drawn from, which bounds what it holds and not how often it is set (`cycle_twice`), and
a live row without its first cycle has a call about to set it, or is one whose own call
died there (`lost`).

**Moves** (`ClaimProofs`). `ClaimsTyped` and `ClaimsSafe`: `OneOwner` and `LocksHeld` (a
row lock belongs to a claim between its two rows) with what a claim has found out at
each label (`AllFilled`) and `Seen`: nobody points at, or claims, a subscription
without a row, so a checkout's new row is pointed at by its buyer only. The first
state may have paying users, whose rows are there and distinct. `DrainsSafe`
(`DrainedOnlyInChain`) and `PlansKept` (`PaidAllAlongKept`) are about every step
and rest on `Trail`: a subscription gets from one row to another by claims only, each
of which leaves a record (`Brought`), so whoever points at it by the time a claim
looks the owner up was the donor, or was brought it; and a claim whose recipient has
paid all along, for a plan that never ended and no claim has brought it, has read that
plan or not got to it yet (`Spares`); a revived plan has ended, which tells it apart.
Two claims are too few for either to be tried hard, which is why they are proved: with
three, a plan can be moved on twice, or away from its owner and back.

**Content and publishing** (`PublishingProofs`). `ContentTyped` and `ContentDated`
(`PublishingDates`) from the types and what an edit holds (`RowsInv`). `RedirectsHold`
is about every step, with any number of slugs: `Resolves` is stated by closed sets,
without a path, so that a step need only be shown to leave no set closed and without
a post that was not so before (`Links`); the cases are the two writes of a rename, and the
excuses of `RedirectsResolve` are the places where that fails. `PublishingDated` and
`RedirectsHeld` say the same beside the importer and the jobs, whose every step is one of
Content, a job that dies, or none on the rows (`RowsMove`). `SiteFollowsHolds` needs that
a call that is editing has no job yet and that what it read is still there (`OneThing`,
`Present`), else a rename could lose the job that is to revalidate its old address.
`WithdrawnIsToldHolds` needs that after a withdrawal that overlapped nothing,
whoever has still to tell Google will say that the page is gone (`WithdrawnInv`).

**Matches** (`ArchiveProofs`). `PhotosHold`: wherever a match is, on a device, in a row
or in a request, its links are those of all the screenshots its read wants, or none; an
upload under way has a strict prefix of them, in the bucket (`Uploading`), and the
objects of a read are never taken away. `OpenersKeptHolds` is about every step and rests
on `LateInv`: a device that is not behind holds all the openers of its account's row
(`DevicesCover`), a save that is not late carries them (`SavesHeld`, `SavesCover`), and a
deletion that is not late is about to remove the row it found or one that is gone
(`DeletesOwn`).

**Deliveries** (`DeliveriesProofs`). The row is the lock. `DeliveriesAppliedOnce`: only
the call that inserted the row reaches `apply`, it is there once, and what is applied
has a row (`OnceInv`). `DeliveriesPublished`: an answered delivery has a row, and a
claimed post was written, is about to be, or failed (`StoppedInv`). `DeliveriesTyped`
adds the content rows, written by the deliveries and by others.

**Login** (`SignupProofs`). `SignupAnnouncesOnce`: only the call that inserted a row
with its email can announce it, for the others read that email (`AnnouncedInv`).
`SignupAnnounces` follows from the same facts. `SignupGrantsBounded`: the rows of a device
that got hints and the calls about to insert one are together no more than the calls
(`GrantsCounted`): a call decides for a grant only while no row has the device, and an
insert turns a call into a row. It is why overlap, not the number of accounts, bounds
the grants.

Only model-checked: the liveness properties (`ClaimsEnd`, `TopUpsSettle`,
`EveryDeliveryAnswered`), as fairness and ENABLED are beyond the prover; and the
claims of the repository that are false, each refuted by its instance.

## Not modelled

Profile and legal pages (one read each), prompts, parsing and the remote model, sign-in
links by email, token and signature verification, markdown (pure functions or I/O),
alerts, configuration, start-up, migrations and the other scripts. Names, avatars,
texts, amounts in cents and customer ids are data no property tells apart.
`detach_user`, `has_granted_period` and `list_period_due` have no caller.

Left out of a module that models the rest: the calendar (`_add_one_month` clamps the
31st, months are of equal length here); `indexed_at`, which is written after a
submission and read by nobody; IndexNow, which cannot withdraw a page; the thirty
days after which the bucket drops a screenshot; that PATCH does not check a slug or
a status, so that a row may get one that no reader asks for; and in the instance of
`publishing`, rows kept from the search engines by the caller (the action is there,
the importer's rows exercise the branch). A claim moves hints and the plan but
neither matches nor screenshots, so Archive and Claim share nothing.

## Plan

Done: Wallet and Reads; Payments with CreditOnce; Claim; Content; Deliveries; Signup;
PlanChange; Publishing; Archive; theorems for all their safety properties.

Next:

1. What overlap can cost: how often a month can be dripped when requests overlap, where
   `DripsOncePerMonth` assumes that they do not (a request may write an old accrual date
   back), tried with TLC first.
2. Abstract specifications of the deliveries (written once, then answered) and of the
   fair-use day, with the modules shown to implement them as Payments does CreditOnce.
3. The calendar: `_add_one_month` clamping month ends, as a function checked against
   adding months to the day of activation.
4. Renewals, once the code has them.
