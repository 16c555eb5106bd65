---------------------------- MODULE WalletProofs ----------------------------
(***************************************************************************)
(* What every transaction of storages/hints.py preserves, for any number   *)
(* of users and any amounts.  The lemmas are about single transactions, so *)
(* the proofs of the flows built from them cite them.                      *)
(***************************************************************************)
EXTENDS Wallet, FiniteSetTheorems, TLAPS

-----------------------------------------------------------------------------
(* Sums over a finite set, which the conservation of hints is about.  There *)
(* is no induction over sets here: what some subset lacks, a least subset   *)
(* lacks, and all of its own subsets have.                                  *)

\* A property that some subset of a finite set lacks is lacked by a least one.
LEMMA LeastSubset ==
    ASSUME NEW S, IsFiniteSet(S), NEW Q \in SUBSET (SUBSET S), Q # {}
    PROVE  \E A \in Q : \A B \in Q : B \subseteq A => B = A
<1>1. IsWellFoundedOn(StrictSubsetOrdering(S), SUBSET S)
  BY FS_StrictSubsetOrderingWellFounded, FS_FiniteSubsetsOfFinite
<1>2. PICK A \in Q : \A B \in Q : ~(<<B, A>> \in StrictSubsetOrdering(S))
  BY <1>1, WFMin
<1>3. ASSUME NEW B \in Q, B \subseteq A PROVE B = A
  BY <1>2, <1>3 DEF StrictSubsetOrdering
<1> QED BY <1>3

\* The element a sum over s is taken from first.
Picked(s) == CHOOSE x \in s : TRUE

\* g gives every subset of A the sum of f over it, taken element by element.
Adds(g, f, A) ==
    \A s \in SUBSET A : g[s] = IF s = {} THEN 0 ELSE f[Picked(s)] + g[s \ {Picked(s)}]

\* Two such g agree.
LEMMA AddsUnique ==
    ASSUME NEW A, IsFiniteSet(A), NEW f, NEW g, NEW h, Adds(g, f, A), Adds(h, f, A)
    PROVE  \A s \in SUBSET A : g[s] = h[s]
<1> DEFINE Q == {s \in SUBSET A : g[s] # h[s]}
<1>1. SUFFICES ASSUME Q # {} PROVE FALSE
  OBVIOUS
<1>2. PICK s \in Q : \A B \in Q : B \subseteq s => B = s
  <2>1. Q \in SUBSET (SUBSET A)
    OBVIOUS
  <2> HIDE DEF Q
  <2> QED BY <1>1, <2>1, LeastSubset
<1>3. s # {}
  BY DEF Adds
<1>4. Picked(s) \in s
  BY <1>3 DEF Picked
<1>5. s \ {Picked(s)} \in SUBSET A /\ s \ {Picked(s)} \notin Q
  BY <1>2, <1>4
<1> QED BY <1>3, <1>5 DEF Adds

\* The recursive function by which the fold is defined.
IsAdder(g, f, S) == g = [s \in SUBSET S |-> IF s = {} THEN 0 ELSE f[Picked(s)] + g[s \ {Picked(s)}]]

\* It exists: for a least subset without one, the sums of its own subsets make one.
LEMMA AddsExist ==
    ASSUME NEW S, IsFiniteSet(S), NEW f
    PROVE  \E g : IsAdder(g, f, S)
<1> DEFINE Sums(A) == \E g : Adds(g, f, A)
           Value(A) == CHOOSE v : \E g : Adds(g, f, A) /\ v = g[A]
           Q == {A \in SUBSET S : ~Sums(A)}
<1>0. \A A \in SUBSET S : IsFiniteSet(A)
  BY FS_Subset
<1>1. ASSUME NEW A \in SUBSET S, NEW g, Adds(g, f, A) PROVE Value(A) = g[A]
  <2>1. PICK h : Adds(h, f, A) /\ Value(A) = h[A]
    BY <1>1
  <2> QED BY <1>0, <1>1, <2>1, AddsUnique
<1>2. ASSUME NEW A \in SUBSET S, \A B \in SUBSET A : B # A => Sums(B)
      PROVE  \A B \in SUBSET A : B # {} /\ B # A => Value(B) = f[Picked(B)] + Value(B \ {Picked(B)})
  <2> TAKE B \in SUBSET A
  <2> HAVE B # {} /\ B # A
  <2>1. PICK g : Adds(g, f, B)
    BY <1>2
  <2>2. Picked(B) \in B
    BY DEF Picked
  <2>3. Adds(g, f, B \ {Picked(B)})
    BY <2>1 DEF Adds
  <2>4. Value(B) = g[B] /\ Value(B \ {Picked(B)}) = g[B \ {Picked(B)}]
    BY <1>1, <2>1, <2>3
  <2> QED BY <2>1, <2>4 DEF Adds
<1>3. ASSUME NEW A \in SUBSET S, \A B \in SUBSET A : B # A => Sums(B)
      PROVE  Sums(A)
  <2> DEFINE g == [B \in SUBSET A |-> IF B # A THEN Value(B)
                     ELSE IF A = {} THEN 0 ELSE f[Picked(A)] + Value(A \ {Picked(A)})]
  <2>1. ASSUME NEW B \in SUBSET A, B # {}
        PROVE  g[B] = f[Picked(B)] + g[B \ {Picked(B)}]
    <3>1. Picked(B) \in B
      BY <2>1 DEF Picked
    <3>2. g[B \ {Picked(B)}] = Value(B \ {Picked(B)})
      BY <3>1
    <3>3. g[B] = f[Picked(B)] + Value(B \ {Picked(B)})
      BY <1>2, <1>3, <2>1
    <3> QED BY <3>2, <3>3
  <2>2. g[{}] = 0
    <3>1. Adds([s \in SUBSET {} |-> 0], f, {})
      BY DEF Adds
    <3>2. Value({}) = 0
      BY <1>1, <3>1
    <3> QED BY <3>2
  <2> HIDE DEF g
  <2>3. Adds(g, f, A)
    BY <2>1, <2>2 DEF Adds
  <2> QED BY <2>3
<1>4. \A A \in SUBSET S : Sums(A)
  <2>1. SUFFICES ASSUME Q # {} PROVE FALSE
    OBVIOUS
  <2>2. Q \in SUBSET (SUBSET S)
    OBVIOUS
  <2>3. PICK A \in Q : \A B \in Q : B \subseteq A => B = A
    <3> HIDE DEF Q
    <3> QED BY <2>1, <2>2, LeastSubset
  <2>4. \A B \in SUBSET A : B # A => Sums(B)
    BY <2>3
  <2> QED BY <1>3, <2>4
<1>5. PICK g : Adds(g, f, S)
  BY <1>4
<1> DEFINE h == [s \in SUBSET S |-> g[s]]
<1>6. IsAdder(h, f, S)
  BY <1>5 DEF Adds, IsAdder
<1> QED BY <1>6

\* The sum of the community module is the value of such a g.
LEMMA SumIs ==
    ASSUME NEW S, IsFiniteSet(S), NEW f
    PROVE  \E g : Adds(g, f, S) /\ SumFunctionOnSet(f, S) = g[S]
<1> DEFINE it == CHOOSE g : IsAdder(g, f, S)
<1>1. SumFunctionOnSet(f, S) = it[S]
  BY DEF SumFunctionOnSet, FoldFunctionOnSet, MapThenFoldSet, IsAdder, Picked
<1>2. IsAdder(it, f, S)
  BY AddsExist
<1> HIDE DEF it
<1>3. Adds(it, f, S)
  BY <1>2 DEF IsAdder, Adds
<1> QED BY <1>1, <1>3

\* A sum is taken element by element, in some order.
LEMMA SumStep ==
    ASSUME NEW S, IsFiniteSet(S), NEW f
    PROVE  SumFunctionOnSet(f, S) = IF S = {} THEN 0 ELSE f[Picked(S)] + SumFunctionOnSet(f, S \ {Picked(S)})
<1>1. PICK g : Adds(g, f, S) /\ SumFunctionOnSet(f, S) = g[S]
  BY SumIs
<1>2. CASE S = {}
  BY <1>1, <1>2 DEF Adds
<1>3. CASE S # {}
  <2> DEFINE R == S \ {Picked(S)}
  <2>1. IsFiniteSet(R) /\ R \in SUBSET S
    BY FS_Subset
  <2>2. PICK h : Adds(h, f, R) /\ SumFunctionOnSet(f, R) = h[R]
    BY <2>1, SumIs
  <2>3. Adds(g, f, R)
    BY <1>1, <2>1 DEF Adds
  <2>4. g[R] = h[R]
    BY <2>1, <2>2, <2>3, AddsUnique
  <2> QED BY <1>1, <1>3, <2>2, <2>4 DEF Adds
<1> QED BY <1>2, <1>3

\* Sums of integers are integers.
LEMMA SumType ==
    ASSUME NEW S, IsFiniteSet(S), NEW f, \A x \in S : f[x] \in Int
    PROVE  SumFunctionOnSet(f, S) \in Int
<1> DEFINE Q == {A \in SUBSET S : SumFunctionOnSet(f, A) \notin Int}
<1>1. SUFFICES ASSUME Q # {} PROVE FALSE
  OBVIOUS
<1>2. PICK A \in Q : \A B \in Q : B \subseteq A => B = A
  <2>1. Q \in SUBSET (SUBSET S)
    OBVIOUS
  <2> HIDE DEF Q
  <2> QED BY <1>1, <2>1, LeastSubset
<1>3. SumFunctionOnSet(f, A) = IF A = {} THEN 0 ELSE f[Picked(A)] + SumFunctionOnSet(f, A \ {Picked(A)})
  BY FS_Subset, SumStep
<1>4. A # {} => Picked(A) \in A
  BY DEF Picked
<1>5. A # {} => SumFunctionOnSet(f, A \ {Picked(A)}) \in Int
  BY <1>2, <1>4
<1> QED BY <1>3, <1>4, <1>5

\* Only the terms count.
LEMMA SumSame ==
    ASSUME NEW S, IsFiniteSet(S), NEW f, NEW g, \A x \in S : f[x] = g[x]
    PROVE  SumFunctionOnSet(f, S) = SumFunctionOnSet(g, S)
<1> DEFINE Q == {A \in SUBSET S : SumFunctionOnSet(f, A) # SumFunctionOnSet(g, A)}
<1>1. SUFFICES ASSUME Q # {} PROVE FALSE
  OBVIOUS
<1>2. PICK A \in Q : \A B \in Q : B \subseteq A => B = A
  <2>1. Q \in SUBSET (SUBSET S)
    OBVIOUS
  <2> HIDE DEF Q
  <2> QED BY <1>1, <2>1, LeastSubset
<1>3. /\ SumFunctionOnSet(f, A) = IF A = {} THEN 0 ELSE f[Picked(A)] + SumFunctionOnSet(f, A \ {Picked(A)})
      /\ SumFunctionOnSet(g, A) = IF A = {} THEN 0 ELSE g[Picked(A)] + SumFunctionOnSet(g, A \ {Picked(A)})
  BY FS_Subset, SumStep
<1>4. A # {} => Picked(A) \in A
  BY DEF Picked
<1>5. A # {} => SumFunctionOnSet(f, A \ {Picked(A)}) = SumFunctionOnSet(g, A \ {Picked(A)})
  BY <1>2, <1>4
<1> QED BY <1>3, <1>4, <1>5

\* Nothing adds up to nothing.
LEMMA SumZero ==
    ASSUME NEW S, IsFiniteSet(S), NEW f, \A x \in S : f[x] = 0
    PROVE  SumFunctionOnSet(f, S) = 0
<1> DEFINE Q == {A \in SUBSET S : SumFunctionOnSet(f, A) # 0}
<1>1. SUFFICES ASSUME Q # {} PROVE FALSE
  OBVIOUS
<1>2. PICK A \in Q : \A B \in Q : B \subseteq A => B = A
  <2>1. Q \in SUBSET (SUBSET S)
    OBVIOUS
  <2> HIDE DEF Q
  <2> QED BY <1>1, <2>1, LeastSubset
<1>3. SumFunctionOnSet(f, A) = IF A = {} THEN 0 ELSE f[Picked(A)] + SumFunctionOnSet(f, A \ {Picked(A)})
  BY FS_Subset, SumStep
<1>4. A # {} => Picked(A) \in A
  BY DEF Picked
<1>5. A # {} => SumFunctionOnSet(f, A \ {Picked(A)}) = 0
  BY <1>2, <1>4
<1> QED BY <1>3, <1>4, <1>5

\* Any element can be taken out first.
LEMMA SumPick ==
    ASSUME NEW S, IsFiniteSet(S), NEW f, \A x \in S : f[x] \in Int, NEW u \in S
    PROVE  SumFunctionOnSet(f, S) = f[u] + SumFunctionOnSet(f, S \ {u})
<1> DEFINE Q == {A \in SUBSET S : \E x \in A : SumFunctionOnSet(f, A) # f[x] + SumFunctionOnSet(f, A \ {x})}
<1>1. SUFFICES ASSUME Q # {} PROVE FALSE
  OBVIOUS
<1>2. PICK A \in Q : \A B \in Q : B \subseteq A => B = A
  <2>1. Q \in SUBSET (SUBSET S)
    OBVIOUS
  <2> HIDE DEF Q
  <2> QED BY <1>1, <2>1, LeastSubset
<1>3. PICK x \in A : SumFunctionOnSet(f, A) # f[x] + SumFunctionOnSet(f, A \ {x})
  BY <1>2
<1> DEFINE y == Picked(A)
<1>4. y \in A
  BY DEF Picked
<1>5. IsFiniteSet(A) /\ IsFiniteSet(A \ {x}) /\ IsFiniteSet((A \ {x}) \ {y})
  BY FS_Subset
<1>6. SumFunctionOnSet(f, A) = f[y] + SumFunctionOnSet(f, A \ {y})
  BY <1>4, <1>5, SumStep
<1> HIDE DEF y
<1>7. x # y
  BY <1>3, <1>6
<1>8. SumFunctionOnSet(f, A \ {y}) = f[x] + SumFunctionOnSet(f, (A \ {y}) \ {x})
  <2>1. A \ {y} \in SUBSET S /\ A \ {y} \notin Q /\ x \in A \ {y}
    BY <1>2, <1>4, <1>7
  <2> QED BY <2>1
<1>9. SumFunctionOnSet(f, A \ {x}) = f[y] + SumFunctionOnSet(f, (A \ {x}) \ {y})
  <2>1. A \ {x} \in SUBSET S /\ A \ {x} \notin Q /\ y \in A \ {x}
    BY <1>2, <1>4, <1>7
  <2> QED BY <2>1
<1>10. (A \ {x}) \ {y} = (A \ {y}) \ {x}
  OBVIOUS
<1> DEFINE rest == SumFunctionOnSet(f, (A \ {x}) \ {y})
<1>11. rest \in Int
  BY <1>5, SumType
<1>12. f[x] \in Int /\ f[y] \in Int
  BY <1>4
<1>13. SumFunctionOnSet(f, A) = f[y] + (f[x] + rest) /\ SumFunctionOnSet(f, A \ {x}) = f[y] + rest
  BY <1>6, <1>8, <1>9, <1>10
<1> HIDE DEF rest
<1> QED BY <1>3, <1>11, <1>12, <1>13

\* g is f but for one term.
DiffersAt(u, f, g, S) ==
    /\ u \in S /\ g[u] \in Int
    /\ \A x \in S : f[x] \in Int
    /\ \A x \in S \ {u} : g[x] = f[x]

\* One term changes.
LEMMA SumChange ==
    ASSUME NEW S, IsFiniteSet(S), NEW f, NEW g, NEW u, DiffersAt(u, f, g, S)
    PROVE  SumFunctionOnSet(g, S) = SumFunctionOnSet(f, S) - f[u] + g[u]
<1> USE DEF DiffersAt
<1>1. IsFiniteSet(S \ {u})
  BY FS_Subset
<1>2. SumFunctionOnSet(f, S) = f[u] + SumFunctionOnSet(f, S \ {u})
  BY SumPick
<1>3. SumFunctionOnSet(g, S) = g[u] + SumFunctionOnSet(g, S \ {u})
  BY SumPick
<1>4. SumFunctionOnSet(g, S \ {u}) = SumFunctionOnSet(f, S \ {u})
  BY <1>1, SumSame
<1>5. SumFunctionOnSet(f, S \ {u}) \in Int
  BY <1>1, SumType
<1> QED BY <1>2, <1>3, <1>4, <1>5

\* What one term gives another, the sum does not notice.
LEMMA SumMove ==
    ASSUME NEW S, IsFiniteSet(S), NEW f, NEW g, NEW u \in S, NEW v \in S \ {u},
           \A x \in S : f[x] \in Int, g[u] \in Int, g[v] \in Int,
           g[u] + g[v] = f[u] + f[v], \A x \in S \ {u, v} : g[x] = f[x]
    PROVE  SumFunctionOnSet(g, S) = SumFunctionOnSet(f, S)
<1> DEFINE h == [x \in S |-> IF x = u THEN g[u] ELSE f[x]]
<1>1. /\ h[u] = g[u] /\ h[v] = f[v] /\ \A x \in S : h[x] \in Int
      /\ \A x \in S \ {u} : h[x] = f[x]
      /\ \A x \in S \ {v} : g[x] = h[x]
  OBVIOUS
<1> HIDE DEF h
<1>a. DiffersAt(u, f, h, S) /\ DiffersAt(v, h, g, S)
  BY <1>1 DEF DiffersAt
<1>2. SumFunctionOnSet(h, S) = SumFunctionOnSet(f, S) - f[u] + h[u]
  BY <1>a, SumChange
<1>3. SumFunctionOnSet(g, S) = SumFunctionOnSet(h, S) - h[v] + g[v]
  BY <1>a, SumChange
<1>4. SumFunctionOnSet(f, S) \in Int /\ f[u] \in Int /\ f[v] \in Int
  BY SumType
<1> DEFINE total == SumFunctionOnSet(f, S)
<1>5. total \in Int /\ SumFunctionOnSet(g, S) = total - f[u] + g[u] - f[v] + g[v]
  BY <1>1, <1>2, <1>3, <1>4
<1> HIDE DEF total
<1>6. total - f[u] + g[u] - f[v] + g[v] = total
  BY <1>4, <1>5
<1> QED BY <1>5, <1>6 DEF total

-----------------------------------------------------------------------------
(* Types and the ledger bound *)

\* The invariant is inductive as it stands: types, and the ledger bound.
WalletInv == WalletTypeOK /\ LedgerCoversBalance

USE WalletAssumption DEF Buckets, GrantSources, NoDay

\* The rows the users start with are typed, and signup hints cover them.
LEMMA InitInv == WalletInit => WalletInv
  BY DEF WalletInit, WalletInv, WalletTypeOK, LedgerCoversBalance, TotalHints, Drawn, Granted

\* A spend takes one hint from a bucket that has one and logs it.
LEMMA ConsumeInv ==
  ASSUME WalletInv, NEW u \in Users, Consume(u)
  PROVE  WalletInv'
<1>1. PICK b \in Buckets :
        /\ NextToDrain(u, b)
        /\ wallet' = [wallet EXCEPT ![u][b] = @ - 1]
        /\ drawn' = [drawn EXCEPT ![u][b] = @ + 1]
        /\ UNCHANGED <<fairUse, servedOn, granted>>
  BY DEF Consume
<1>2. wallet[u][b] > 0
  BY <1>1 DEF NextToDrain
<1>3. WalletTypeOK'
  BY <1>1, <1>2 DEF WalletInv, WalletTypeOK
<1>4. ASSUME NEW v \in Users PROVE TotalHints(v)' + Drawn(v)' = TotalHints(v) + Drawn(v)
  BY <1>1, <1>2 DEF WalletInv, WalletTypeOK, TotalHints, Drawn
<1>5. LedgerCoversBalance'
  BY <1>1, <1>4 DEF WalletInv, LedgerCoversBalance, Granted
<1> QED BY <1>3, <1>5 DEF WalletInv

\* An unlimited read draws no balance.
LEMMA ConsumeUnlimitedInv ==
  ASSUME WalletInv, NEW u \in Users, NEW d \in Days, ConsumeUnlimited(u, d)
  PROVE  WalletInv'
<1>1. WalletTypeOK'
  BY DEF WalletInv, WalletTypeOK, ConsumeUnlimited, UsedOn
<1>2. LedgerCoversBalance'
  BY DEF WalletInv, LedgerCoversBalance, ConsumeUnlimited, TotalHints, Drawn, Granted
<1> QED BY <1>1, <1>2 DEF WalletInv

\* What the clamp leaves is a count, and raises the bucket by no more than the
\* ledger row written for it.
LEMMA RolloverBound ==
  ASSUME NEW held \in Nat, NEW amount \in Nat, NEW cap \in Nat
  PROVE  /\ Rollover(held, amount, cap) \in Nat
         /\ Rollover(held, amount, cap) <= held + amount
  BY DEF Rollover

\* Replacing the subscription bucket under a ledger row that covers the rise.
LEMMA SubBucketInv ==
  ASSUME WalletInv, NEW u \in Users, NEW held \in Nat, NEW row \in Nat,
         held <= wallet[u]["sub"] + row,
         wallet' = [wallet EXCEPT ![u]["sub"] = held],
         Credit(u, "subscription_cycle", row),
         UNCHANGED <<fairUse, drawn, servedOn>>
  PROVE  WalletInv'
<1>1. WalletTypeOK'
  BY DEF WalletInv, WalletTypeOK, Credit
<1>2. ASSUME NEW v \in Users
      PROVE  TotalHints(v)' + Drawn(v)' <= Signup[v] + Granted(v)'
  <2>1. TotalHints(v) + Drawn(v) <= Signup[v] + Granted(v)
    BY DEF WalletInv, LedgerCoversBalance
  <2> QED BY <2>1 DEF WalletInv, WalletTypeOK, Credit, TotalHints, Drawn, Granted
<1> QED BY <1>1, <1>2 DEF WalletInv, LedgerCoversBalance

\* A cycle's grant, clamped up or down.
LEMMA GrantInv ==
  ASSUME WalletInv, NEW u \in Users, NEW n \in Nat, NEW c \in Nat,
         GrantSubscriptionHints(u, n, c)
  PROVE  WalletInv'
<1> DEFINE held   == wallet[u]["sub"]
           target == Rollover(held, n, c)
           row    == IF target > held THEN target - held ELSE 0
<1>1. held \in Nat
  BY DEF WalletInv, WalletTypeOK
<1>2. target \in Nat
  BY <1>1, RolloverBound
<1>3. row \in Nat /\ target <= held + row
  BY <1>1, <1>2
<1>4. /\ wallet' = [wallet EXCEPT ![u]["sub"] = target]
      /\ Credit(u, "subscription_cycle", row)
      /\ UNCHANGED <<fairUse, drawn, servedOn>>
  BY DEF GrantSubscriptionHints
<1> HIDE DEF target, row
<1> QED BY <1>2, <1>3, <1>4, SubBucketInv

\* A replaced bucket: the row holds the whole new content.
LEMMA SetInv ==
  ASSUME WalletInv, NEW u \in Users, NEW n \in Nat, SetSubscriptionHints(u, n)
  PROVE  WalletInv'
<1>1. n <= wallet[u]["sub"] + n
  BY DEF WalletInv, WalletTypeOK
<1>2. /\ wallet' = [wallet EXCEPT ![u]["sub"] = n]
      /\ Credit(u, "subscription_cycle", n)
      /\ UNCHANGED <<fairUse, drawn, servedOn>>
  BY DEF SetSubscriptionHints
<1> QED BY <1>1, <1>2, SubBucketInv

\* A top-up and its row.
LEMMA TopupInv ==
  ASSUME WalletInv, NEW u \in Users, NEW n \in Nat, AddTopupHints(u, n)
  PROVE  WalletInv'
<1>1. WalletTypeOK'
  BY DEF WalletInv, WalletTypeOK, AddTopupHints, Credit
<1>2. ASSUME NEW v \in Users
      PROVE  TotalHints(v)' + Drawn(v)' <= Signup[v] + Granted(v)'
  <2>1. TotalHints(v) + Drawn(v) <= Signup[v] + Granted(v)
    BY DEF WalletInv, LedgerCoversBalance
  <2> QED BY <2>1 DEF WalletInv, WalletTypeOK, AddTopupHints, Credit, TotalHints, Drawn, Granted
<1> QED BY <1>1, <1>2 DEF WalletInv, LedgerCoversBalance

\* A transfer empties the donor and logs what it moved for the recipient.
LEMMA TransferInv ==
  ASSUME WalletInv, NEW d \in Users, NEW r \in Users, TransferBalance(d, r)
  PROVE  WalletInv'
<1> DEFINE moved == TotalHints(d)
<1>1. moved \in Nat
  BY DEF WalletInv, WalletTypeOK, TotalHints
<1>2. WalletTypeOK'
  <2>1. /\ [b \in Buckets |-> wallet[r][b] + wallet[d][b]] \in [Buckets -> Nat]
        /\ [b \in Buckets |-> 0] \in [Buckets -> Nat]
    BY DEF WalletInv, WalletTypeOK
  <2>2. wallet' \in [Users -> [Buckets -> Nat]]
    BY <2>1 DEF WalletInv, WalletTypeOK, TransferBalance
  <2>3. granted' \in [Users -> [GrantSources -> Nat]]
    BY <1>1 DEF WalletInv, WalletTypeOK, TransferBalance, Credit
  <2> QED BY <2>2, <2>3 DEF WalletInv, WalletTypeOK, TransferBalance
<1>3. ASSUME NEW v \in Users
      PROVE  TotalHints(v)' + Drawn(v)' <= Signup[v] + Granted(v)'
  <2>1. TotalHints(v) + Drawn(v) <= Signup[v] + Granted(v)
    BY DEF WalletInv, LedgerCoversBalance
  <2>2. CASE v = r
    BY <2>1, <2>2 DEF WalletInv, WalletTypeOK, TransferBalance, Credit, TotalHints, Drawn, Granted
  <2>3. CASE v = d
    BY <2>1, <2>3 DEF WalletInv, WalletTypeOK, TransferBalance, Credit, TotalHints, Drawn, Granted
  <2>4. CASE v \notin {d, r}
    BY <2>1, <2>4 DEF WalletInv, WalletTypeOK, TransferBalance, Credit, TotalHints, Drawn, Granted
  <2> QED BY <2>2, <2>3, <2>4
<1> QED BY <1>2, <1>3 DEF WalletInv, LedgerCoversBalance

\* A step that leaves the store alone.
LEMMA StutterInv == WalletInv /\ UNCHANGED wvars => WalletInv'
  BY DEF WalletInv, WalletTypeOK, LedgerCoversBalance, wvars, TotalHints, Drawn, Granted

\* Any transaction, with any amounts.
LEMMA StoreStepInv ==
  ASSUME WalletInv, StoreStep
  PROVE  WalletInv'
BY ConsumeInv, ConsumeUnlimitedInv, GrantInv, SetInv, TopupInv, TransferInv DEF StoreStep

\* The store keeps its types and its ledgers account for every balance, for any
\* users, signup grants and amounts, whatever order its transactions come in.
THEOREM StoreSafe == StoreSpec => [](WalletTypeOK /\ LedgerCoversBalance)
<1>1. WalletInit => WalletInv
  BY InitInv
<1>2. WalletInv /\ [StoreStep]_wvars => WalletInv'
  BY StoreStepInv, StutterInv
<1>3. WalletInv => WalletTypeOK /\ LedgerCoversBalance
  BY DEF WalletInv
<1> QED BY <1>1, <1>2, <1>3, PTL DEF StoreSpec

-----------------------------------------------------------------------------
(* Conservation: beside the types each equation is inductive by itself *)

Conserved == PaidHintsConserved /\ FreeHintsConserved

\* The terms are counts.
LEMMA TermsType ==
  ASSUME WalletTypeOK
  PROVE  \A u \in Users : /\ \A b \in Buckets : HeldOrSpent(b)[u] \in Int
                          /\ ToppedUp[u] \in Int
BY DEF WalletTypeOK, HeldOrSpent, ToppedUp

\* A step that changes no term.
LEMMA SameTerms ==
  ASSUME Conserved, HeldOrSpent("paid")' = HeldOrSpent("paid"),
         HeldOrSpent("free")' = HeldOrSpent("free"), ToppedUp' = ToppedUp
  PROVE  Conserved'
BY DEF Conserved, PaidHintsConserved, FreeHintsConserved

\* Nobody starts with a paid hint, and everybody with the signup hints.
LEMMA InitConserved ==
  ASSUME \A u \in Users : /\ wallet[u]["paid"] = 0 /\ drawn[u]["paid"] = 0
                          /\ wallet[u]["free"] = Signup[u] /\ drawn[u]["free"] = 0
                          /\ granted[u]["one_time"] = 0
  PROVE  Conserved
<1>1. \A u \in Users : /\ HeldOrSpent("paid")[u] = ToppedUp[u]
                       /\ HeldOrSpent("free")[u] = Signup[u]
  BY DEF HeldOrSpent, ToppedUp
<1> QED BY <1>1, SumSame DEF Conserved, PaidHintsConserved, FreeHintsConserved

\* A spend takes from a bucket what it logs.
LEMMA ConsumeConserves ==
  ASSUME WalletTypeOK, Conserved, NEW u \in Users, Consume(u)
  PROVE  Conserved'
<1>1. PICK b \in Buckets :
        /\ wallet' = [wallet EXCEPT ![u][b] = @ - 1]
        /\ drawn' = [drawn EXCEPT ![u][b] = @ + 1]
        /\ granted' = granted
  BY DEF Consume
<1>2. ASSUME NEW c \in Buckets, NEW v \in Users
      PROVE  wallet'[v][c] + drawn'[v][c] = wallet[v][c] + drawn[v][c]
  BY <1>1 DEF WalletTypeOK
<1>3. \A c \in Buckets : HeldOrSpent(c)' = HeldOrSpent(c)
  BY <1>2 DEF HeldOrSpent
<1> QED BY <1>1, <1>3, SameTerms DEF ToppedUp

\* A transaction on the subscription bucket alone, or on none.
LEMMA SubBucketConserves ==
  ASSUME WalletTypeOK, Conserved,
         \A u \in Users : /\ \A b \in {"free", "paid"} : wallet'[u][b] = wallet[u][b]
                          /\ granted'[u]["one_time"] = granted[u]["one_time"],
         drawn' = drawn
  PROVE  Conserved'
BY SameTerms DEF HeldOrSpent, ToppedUp

\* A top-up raises one term on each side.
LEMMA TopupConserves ==
  ASSUME WalletTypeOK, Conserved, NEW u \in Users, NEW n \in Nat, AddTopupHints(u, n)
  PROVE  Conserved'
<1> DEFINE held == HeldOrSpent("paid")'
           bought == ToppedUp'
<1>1. /\ held[u] = HeldOrSpent("paid")[u] + n /\ bought[u] = ToppedUp[u] + n
      /\ \A v \in Users \ {u} : held[v] = HeldOrSpent("paid")[v] /\ bought[v] = ToppedUp[v]
      /\ HeldOrSpent("free")' = HeldOrSpent("free")
  BY DEF AddTopupHints, Credit, HeldOrSpent, ToppedUp, WalletTypeOK
<1>2. \A v \in Users : HeldOrSpent("paid")[v] \in Int /\ ToppedUp[v] \in Int
  BY TermsType
<1> HIDE DEF held, bought
<1>3. /\ held[u] \in Int /\ bought[u] \in Int
      /\ DiffersAt(u, HeldOrSpent("paid"), held, Users)
      /\ DiffersAt(u, ToppedUp, bought, Users)
  BY <1>1, <1>2 DEF DiffersAt
<1>4. SumFunctionOnSet(held, Users)
        = SumFunctionOnSet(HeldOrSpent("paid"), Users) - HeldOrSpent("paid")[u] + held[u]
  BY <1>3, SumChange
<1>5. SumFunctionOnSet(bought, Users)
        = SumFunctionOnSet(ToppedUp, Users) - ToppedUp[u] + bought[u]
  BY <1>3, SumChange
<1>6. SumFunctionOnSet(HeldOrSpent("paid"), Users) = SumFunctionOnSet(ToppedUp, Users)
  BY DEF Conserved, PaidHintsConserved
<1>7. SumFunctionOnSet(ToppedUp, Users) \in Int
  BY <1>2, SumType
<1>8. SumFunctionOnSet(held, Users) = SumFunctionOnSet(bought, Users)
  BY <1>1, <1>2, <1>4, <1>5, <1>6, <1>7
<1> QED BY <1>1, <1>8 DEF held, bought, Conserved, PaidHintsConserved, FreeHintsConserved

\* A transfer moves both kinds from the donor's term to the recipient's.
LEMMA TransferConserves ==
  ASSUME WalletTypeOK, Conserved, NEW d \in Users, NEW r \in Users, TransferBalance(d, r)
  PROVE  Conserved'
<1>1. d # r /\ drawn' = drawn
  BY DEF TransferBalance
<1>2. ASSUME NEW b \in Buckets
      PROVE  /\ wallet'[d][b] = 0 /\ wallet'[r][b] = wallet[r][b] + wallet[d][b]
             /\ \A v \in Users \ {d, r} : wallet'[v][b] = wallet[v][b]
  BY DEF TransferBalance, WalletTypeOK
<1>3. ASSUME NEW b \in Buckets
      PROVE  SumFunctionOnSet(HeldOrSpent(b)', Users) = SumFunctionOnSet(HeldOrSpent(b), Users)
  <2> DEFINE held == HeldOrSpent(b)'
  <2>0. \A v \in Users : wallet[v][b] \in Int /\ drawn[v][b] \in Int
    BY DEF WalletTypeOK
  <2>1. /\ held[d] = drawn[d][b] /\ held[r] = wallet[r][b] + wallet[d][b] + drawn[r][b]
        /\ \A v \in Users \ {d, r} : held[v] = HeldOrSpent(b)[v]
    BY <1>1, <1>2, <2>0 DEF HeldOrSpent
  <2>2. /\ HeldOrSpent(b)[d] = wallet[d][b] + drawn[d][b]
        /\ HeldOrSpent(b)[r] = wallet[r][b] + drawn[r][b]
        /\ \A v \in Users : wallet[v][b] \in Int /\ drawn[v][b] \in Int
    BY DEF HeldOrSpent, WalletTypeOK
  <2>3. \A v \in Users : HeldOrSpent(b)[v] \in Int
    BY TermsType
  <2> HIDE DEF held
  <2>4. held[d] \in Int /\ held[r] \in Int
        /\ held[d] + held[r] = HeldOrSpent(b)[d] + HeldOrSpent(b)[r]
    BY <2>1, <2>2
  <2>5. r \in Users \ {d}
    BY <1>1
  <2>6. SumFunctionOnSet(held, Users) = SumFunctionOnSet(HeldOrSpent(b), Users)
    BY <2>1, <2>3, <2>4, <2>5, SumMove
  <2> QED BY <2>6 DEF held
<1>4. ToppedUp' = ToppedUp
  BY DEF ToppedUp, TransferBalance, Credit, WalletTypeOK
<1> QED BY <1>3, <1>4 DEF Conserved, PaidHintsConserved, FreeHintsConserved

\* Any transaction, with any amounts.
LEMMA StoreStepConserves ==
  ASSUME WalletTypeOK, Conserved, StoreStep
  PROVE  Conserved'
<1>1. ASSUME NEW u \in Users, NEW n \in Nat, NEW c \in Nat,
             GrantSubscriptionHints(u, n, c) \/ SetSubscriptionHints(u, n)
      PROVE  Conserved'
  <2>1. PICK held, row : /\ wallet' = [wallet EXCEPT ![u]["sub"] = held]
                         /\ Credit(u, "subscription_cycle", row)
                         /\ drawn' = drawn
    BY <1>1 DEF GrantSubscriptionHints, SetSubscriptionHints
  <2> QED BY <2>1, SubBucketConserves DEF Credit, WalletTypeOK
<1>2. ASSUME NEW u \in Users, NEW d \in Days, ConsumeUnlimited(u, d) PROVE Conserved'
  BY <1>2, SubBucketConserves DEF ConsumeUnlimited
<1> QED BY <1>1, <1>2, ConsumeConserves, TopupConserves, TransferConserves DEF StoreStep

\* A step that leaves the store alone.
LEMMA StutterConserves == Conserved /\ UNCHANGED wvars => Conserved'
  BY SameTerms DEF wvars, HeldOrSpent, ToppedUp

\* Paid and signup hints are neither made nor lost, whatever order the store's
\* transactions come in: only a top-up row makes paid ones.
THEOREM StoreConserves == StoreSpec => [](PaidHintsConserved /\ FreeHintsConserved)
<1>1. WalletInit => WalletInv /\ Conserved
  BY InitInv, InitConserved DEF WalletInit
<1>2. WalletInv /\ Conserved /\ [StoreStep]_wvars => WalletInv' /\ Conserved'
  BY StoreStepInv, StutterInv, StoreStepConserves, StutterConserves DEF WalletInv
<1>3. Conserved => PaidHintsConserved /\ FreeHintsConserved
  BY DEF Conserved
<1> QED BY <1>1, <1>2, <1>3, PTL DEF StoreSpec
=============================================================================
