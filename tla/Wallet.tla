------------------------------- MODULE Wallet -------------------------------
(***************************************************************************)
(* storages/hints.py: the hint balance of every user row and the two       *)
(* ledgers beside it.  Each method is one short transaction under the row  *)
(* lock of the user (SELECT ... FOR UPDATE), hence one atomic action here. *)
(* The flows of bl/ are sequences of these actions; their modules EXTEND   *)
(* this one and conjoin the actions with the steps of their requests.      *)
(*                                                                         *)
(* Ledger rows are kept as sums: how many hints each bucket gave           *)
(* (hint_consumptions), how many each source added (hint_grants), and how  *)
(* many unlimited reads were counted on each day.                          *)
(***************************************************************************)
EXTENDS Integers, FiniteSetsExt

CONSTANTS
    Users,       \* the rows of the users table
    Signup,      \* the free hints each of them was created with (3, or 0)
    Days,        \* calendar days, numbered from 1
    DailyLimit   \* fair_use_daily_limit

ASSUME WalletAssumption ==
    /\ IsFiniteSet(Users) /\ IsFiniteSet(Days)
    /\ Signup \in [Users -> Nat]
    /\ Days \subseteq Nat \ {0}
    /\ DailyLimit \in Nat

VARIABLES
    wallet,      \* free_hints / sub_hints / paid_hints of each user
    fairUse,     \* ultimate_day / ultimate_used of each user
    drawn,       \* consumption rows by user and bucket
    servedOn,    \* unlimited consumption rows by user and counted day
    granted      \* grant ledger: sum of amounts by user and source

wvars == <<wallet, fairUse, drawn, servedOn, granted>>

Buckets == {"free", "sub", "paid"}
GrantSources == {"subscription_cycle", "one_time", "account_transfer"}
NoDay == 0       \* ultimate_day IS NULL

WalletInit ==
    /\ wallet = [u \in Users |-> [b \in Buckets |-> IF b = "free" THEN Signup[u] ELSE 0]]
    /\ fairUse = [u \in Users |-> [day |-> NoDay, used |-> 0]]
    /\ drawn = [u \in Users |-> [b \in Buckets |-> 0]]
    /\ servedOn = [u \in Users |-> [d \in Days |-> 0]]
    /\ granted = [u \in Users |-> [s \in GrantSources |-> 0]]

-----------------------------------------------------------------------------
(* Spending *)

TotalHints(u) == wallet[u]["free"] + wallet[u]["sub"] + wallet[u]["paid"]

OutOfHints(u) == \A b \in Buckets : wallet[u][b] <= 0

\* Mutant: an empty bucket counts as one to draw from.
NextToDrain_OffByOne(u, b) ==
    /\ wallet[u][b] >= 0
    /\ b \in {"sub", "paid"} => wallet[u]["free"] <= 0
    /\ b = "paid" => wallet[u]["sub"] <= 0

\* Drain order free -> subscription -> paid: b is the first non-empty bucket.
NextToDrain(u, b) ==
    /\ wallet[u][b] > 0
    /\ b \in {"sub", "paid"} => wallet[u]["free"] <= 0
    /\ b = "paid" => wallet[u]["sub"] <= 0

Consume(u) ==
    \E b \in Buckets :
        /\ NextToDrain(u, b)
        /\ wallet' = [wallet EXCEPT ![u][b] = @ - 1]
        /\ drawn' = [drawn EXCEPT ![u][b] = @ + 1]
        /\ UNCHANGED <<fairUse, servedOn, granted>>

UsedOn(u, today) == IF fairUse[u].day = today THEN fairUse[u].used ELSE 0

\* Mutant: the limit is left to the precheck.
ConsumeUnlimited_Unlocked(u, today) ==
    /\ fairUse' = [fairUse EXCEPT ![u] = [day |-> today, used |-> UsedOn(u, today) + 1]]
    /\ servedOn' = [servedOn EXCEPT ![u][today] = @ + 1]
    /\ UNCHANGED <<wallet, drawn, granted>>

\* today is read from the clock before the row lock is taken, so it may lie
\* behind the day another request has already written.
ConsumeUnlimited(u, today) ==
    /\ UsedOn(u, today) < DailyLimit
    /\ fairUse' = [fairUse EXCEPT ![u] = [day |-> today, used |-> UsedOn(u, today) + 1]]
    /\ servedOn' = [servedOn EXCEPT ![u][today] = @ + 1]
    /\ UNCHANGED <<wallet, drawn, granted>>

-----------------------------------------------------------------------------
(* Crediting *)

Credit(u, source, amount) == granted' = [granted EXCEPT ![u][source] = @ + amount]

\* Mutant: no rollover cap.
Rollover_Uncapped(held, amount, cap) == held + amount

\* The bucket after a cycle's grant: clamped to the rollover cap, 0 = no cap.
\* A bucket above the cap (the plan was lowered) comes DOWN to it.
Rollover(held, amount, cap) ==
    IF cap > 0 /\ held + amount > cap THEN cap ELSE held + amount

GrantSubscriptionHints(u, amount, cap) ==
    LET held   == wallet[u]["sub"]
        target == Rollover(held, amount, cap)
    IN  /\ wallet' = [wallet EXCEPT ![u]["sub"] = target]
        /\ Credit(u, "subscription_cycle", IF target > held THEN target - held ELSE 0)
        /\ UNCHANGED <<fairUse, drawn, servedOn>>

\* Mutant: adds to the bucket.
SetSubscriptionHints_Adds(u, amount) ==
    /\ wallet' = [wallet EXCEPT ![u]["sub"] = @ + amount]
    /\ Credit(u, "subscription_cycle", amount)
    /\ UNCHANGED <<fairUse, drawn, servedOn>>

\* Replaces the subscription bucket; the ledger records the new content whole.
SetSubscriptionHints(u, amount) ==
    /\ wallet' = [wallet EXCEPT ![u]["sub"] = amount]
    /\ Credit(u, "subscription_cycle", amount)
    /\ UNCHANGED <<fairUse, drawn, servedOn>>

\* Mutant: no ledger row.
AddTopupHints_Unlogged(u, amount) ==
    /\ wallet' = [wallet EXCEPT ![u]["paid"] = @ + amount]
    /\ UNCHANGED <<fairUse, drawn, servedOn, granted>>

\* Mutant: the pack lands in the subscription bucket.
AddTopupHints_WrongBucket(u, amount) ==
    /\ wallet' = [wallet EXCEPT ![u]["sub"] = @ + amount]
    /\ Credit(u, "one_time", amount)
    /\ UNCHANGED <<fairUse, drawn, servedOn>>

AddTopupHints(u, amount) ==
    /\ wallet' = [wallet EXCEPT ![u]["paid"] = @ + amount]
    /\ Credit(u, "one_time", amount)
    /\ UNCHANGED <<fairUse, drawn, servedOn>>

\* Mutant: the donor keeps what the recipient gets.
TransferBalance_Copies(donor, recipient) ==
    /\ donor # recipient
    /\ wallet' = [wallet EXCEPT
                    ![recipient] = [b \in Buckets |-> wallet[recipient][b] + wallet[donor][b]]]
    /\ Credit(recipient, "account_transfer", TotalHints(donor))
    /\ UNCHANGED <<fairUse, drawn, servedOn>>

\* Mutant: no ledger row.
TransferBalance_Unlogged(donor, recipient) ==
    /\ donor # recipient
    /\ wallet' = [wallet EXCEPT
                    ![recipient] = [b \in Buckets |-> wallet[recipient][b] + wallet[donor][b]],
                    ![donor] = [b \in Buckets |-> 0]]
    /\ UNCHANGED <<fairUse, drawn, servedOn, granted>>

\* Both rows are locked; only the recipient gets a ledger row (of amount 0 here
\* when nothing moved, where the code writes none).  No caller transfers a
\* user's balance to that same user.
TransferBalance(donor, recipient) ==
    /\ donor # recipient
    /\ wallet' = [wallet EXCEPT
                    ![recipient] = [b \in Buckets |-> wallet[recipient][b] + wallet[donor][b]],
                    ![donor] = [b \in Buckets |-> 0]]
    /\ Credit(recipient, "account_transfer", TotalHints(donor))
    /\ UNCHANGED <<fairUse, drawn, servedOn>>

-----------------------------------------------------------------------------
(* The store on its own *)

\* What the flows may ever do to it: one of its transactions, of any size.
StoreStep ==
    \E u \in Users :
        \/ Consume(u)
        \/ \E d \in Days : ConsumeUnlimited(u, d)
        \/ \E n \in Nat, c \in Nat : GrantSubscriptionHints(u, n, c)
        \/ \E n \in Nat : SetSubscriptionHints(u, n)
        \/ \E n \in Nat : AddTopupHints(u, n)
        \/ \E v \in Users : TransferBalance(u, v)

StoreSpec == WalletInit /\ [][StoreStep]_wvars

-----------------------------------------------------------------------------
(* Properties *)

\* Every counter is a natural number: no bucket is ever overdrawn, whatever
\* transactions the flows interleave (the columns carry no CHECK constraint).
WalletTypeOK ==
    /\ wallet \in [Users -> [Buckets -> Nat]]
    /\ fairUse \in [Users -> [day : Nat, used : Nat]]
    /\ drawn \in [Users -> [Buckets -> Nat]]
    /\ servedOn \in [Users -> [Days -> Nat]]
    /\ granted \in [Users -> [GrantSources -> Nat]]

Drawn(u) == drawn[u]["free"] + drawn[u]["sub"] + drawn[u]["paid"]
Granted(u) ==
    granted[u]["subscription_cycle"] + granted[u]["one_time"] + granted[u]["account_transfer"]

\* The ledgers account for the balance (models/hint.py calls the grant ledger
\* the source of truth): what a user holds and has spent never exceeds the
\* signup hints plus the credits recorded for that user.
LedgerCoversBalance ==
    \A u \in Users : TotalHints(u) + Drawn(u) <= Signup[u] + Granted(u)

HeldOrSpent(b) == [u \in Users |-> wallet[u][b] + drawn[u][b]]
ToppedUp == [u \in Users |-> granted[u]["one_time"]]

\* Top-ups are money: over all users the paid hints held and spent are exactly
\* those the one-time rows credited. Replacing or clamping the subscription
\* bucket, draining out of order or a transfer that copies would break it.
PaidHintsConserved ==
    SumFunctionOnSet(HeldOrSpent("paid"), Users) = SumFunctionOnSet(ToppedUp, Users)

\* Signup hints are handed out once and only move: accounts cannot be used to
\* multiply them, however balances are transferred between them.
FreeHintsConserved ==
    SumFunctionOnSet(HeldOrSpent("free"), Users) = SumFunctionOnSet(Signup, Users)
=============================================================================
