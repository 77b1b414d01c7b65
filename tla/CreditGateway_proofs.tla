------------------------ MODULE CreditGateway_proofs ------------------------
(***************************************************************************)
(* The safety properties of CreditGateway, for any wallets, calls, claims, *)
(* prices and bounds.  The inductive invariant says of every call where it *)
(* can be (Fits), that it has paid for what it does (Paid), that a refund  *)
(* it can still make has not been made (Unrefunded), and what it has paid  *)
(* while nothing failed (Settled); and of every claim how far its stage    *)
(* and the record of its hash agree (Claimed).  That the counters of a     *)
(* wallet are sums over its calls and claims is inductive as it stands,    *)
(* since only a purchase is ever granted; the sums are those of Induction. *)
(***************************************************************************)
EXTENDS CreditGateway, Induction, TLAPS

\* A route does not stray into the steps of another; only creditDebit owes.
Fits(c) ==
    /\ step[c] = "refund" => route[c] \in {"plugin", "scrape"}
    /\ step[c] = "reread" => route[c] = "scrape"
    /\ step[c] = "fallback" => route[c] = "plugin"
    /\ step[c] = "recover" => route[c] # "middleware"
    /\ owed[c] => route[c] = "middleware" /\ step[c] = "done" /\ told[c] = "refunded"

Paid(c) ==
    route[c] # "scrape" /\ (\/ step[c] \in {"work", "refund", "fallback", "recover"}
                            \/ owed[c] \/ told[c] = "served")
    => charged[c] >= 1

Unrefunded(c) ==
    route[c] \in {"middleware", "metered"} =>
        /\ refunds[c] <= 1 /\ refunds[c] <= charged[c]
        /\ step[c] \in {"check", "debit", "work", "recover"} \/ owed[c] => refunds[c] = 0

Settled(c) ==
    faults = 0 /\ route[c] # "scrape" =>
        /\ step[c] # "lost"
        /\ step[c] \in {"check", "debit"} => charged[c] = 0 /\ refunds[c] = 0
        /\ step[c] \in {"work", "refund", "fallback", "recover"} => charged[c] = 1 /\ refunds[c] = 0
        /\ step[c] = "done" =>
             IF owed[c] \/ told[c] \in {"served", "failed"}
             THEN charged[c] = 1 /\ refunds[c] = 0
             ELSE charged[c] = refunds[c]

Claimed(k) ==
    /\ got[k] <= 1
    /\ got[k] > 0 => row[txHash[k]] = k /\ stage[k] = "done"
    /\ stage[k] \in {"cache", "database", "chain", "record"} => row[txHash[k]] # k
    /\ stage[k] = "grant" => row[txHash[k]] = k /\ kind[k] = "purchase"
    /\ faults = 0 /\ stage[k] = "done" /\ row[txHash[k]] = k => got[k] = 1

CallInv == \A c \in Call : Fits(c) /\ Paid(c) /\ Unrefunded(c) /\ Settled(c)
ClaimInv == \A k \in Claim : Claimed(k)

IInv == TypeOK /\ NeverOverdrawn /\ CallInv /\ ClaimInv /\ BooksAgree

-----------------------------------------------------------------------------
(* Balances *)

\* The operations on balances keep them typed, and above zero if the price is
\* there; the amounts are natural numbers.
LEMMA BalancesKept ==
  ASSUME account \in [Wallet -> Balance], NeverOverdrawn, NEW w \in Wallet, NEW n \in Nat
  PROVE  /\ account' = Debited(w, n) /\ Affords(w, n) => account' \in [Wallet -> Balance] /\ NeverOverdrawn'
         /\ account' = Refunded(w, n) => account' \in [Wallet -> Balance] /\ NeverOverdrawn'
         /\ account' = Purchased(w, n) => account' \in [Wallet -> Balance] /\ NeverOverdrawn'
<1> USE DEF Inc, Balance, NeverOverdrawn
<1>1. account' = Debited(w, n) /\ Affords(w, n) => account' \in [Wallet -> Balance] /\ NeverOverdrawn'
  BY DEF Debited, Affords
<1>2. account' = Refunded(w, n) => account' \in [Wallet -> Balance] /\ NeverOverdrawn'
  BY DEF Refunded
<1>3. account' = Purchased(w, n) => account' \in [Wallet -> Balance] /\ NeverOverdrawn'
  BY DEF Purchased
<1> QED
  BY <1>1, <1>2, <1>3

\* What a service call writes, if it writes at all.
LEMMA CallWrites ==
  ASSUME TypeOK, NeverOverdrawn, NEW c \in Call, (CanDebit(c) /\ TakeCredits(c)) \/ GiveBack(c) \/ NoWrite
  PROVE  /\ account' \in [Wallet -> Balance] /\ NeverOverdrawn'
         /\ charged' \in [Call -> Nat] /\ refunds' \in [Call -> Nat]
<1>1. WalletOf[c] \in Wallet /\ Cost[c] \in Nat
  BY CallAssumption
<1>2. CASE CanDebit(c) /\ TakeCredits(c)
  BY <1>1, <1>2, BalancesKept DEF TypeOK, CanDebit, TakeCredits
<1>3. CASE GiveBack(c)
  BY <1>1, <1>3, BalancesKept DEF TypeOK, GiveBack
<1>4. CASE NoWrite
  BY <1>4 DEF TypeOK, NoWrite, NeverOverdrawn
<1> QED
  BY <1>2, <1>3, <1>4

-----------------------------------------------------------------------------
(* Service calls *)

\* A step of a call keeps the types and the balances.
LEMMA CallTypes ==
  ASSUME TypeOK, NeverOverdrawn, NEW c \in Call, CallNext(c), UNCHANGED claimVars
  PROVE  TypeOK' /\ NeverOverdrawn'
<1> USE StoreAssumption, CallAssumption DEF GoTo, Answer, Answers, Fails, Steps, Told, claimVars
<1>1. (CanDebit(c) /\ TakeCredits(c)) \/ GiveBack(c) \/ NoWrite
  BY DEF CallNext, CheckBalance, Debit, DebitFails, WorkSucceeds, WorkFails, Refund, Reread,
         Fallback, Recover, Settle
<1>2. /\ account' \in [Wallet -> Balance] /\ NeverOverdrawn'
      /\ charged' \in [Call -> Nat] /\ refunds' \in [Call -> Nat]
  BY <1>1, CallWrites
<1>3. /\ faults' \in 0..MaxFaults /\ route' \in [Call -> Routes] /\ step' \in [Call -> Steps]
      /\ told' \in [Call -> Told] /\ tries' \in [Call -> 0..Retries] /\ owed' \in [Call -> BOOLEAN]
  <2> USE DEF TypeOK
  <2>1. CASE CheckBalance(c) BY <2>1 DEF CheckBalance
  <2>2. CASE Debit(c) BY <2>2 DEF Debit
  <2>3. CASE DebitFails(c) BY <2>3 DEF DebitFails
  <2>4. CASE WorkSucceeds(c) BY <2>4 DEF WorkSucceeds
  <2>5. CASE WorkFails(c) BY <2>5 DEF WorkFails
  <2>6. CASE Refund(c) BY <2>6 DEF Refund
  <2>7. CASE Reread(c) BY <2>7 DEF Reread
  <2>8. CASE Fallback(c)
    <3>1. CASE GiveBack(c) /\ Answers /\ Answer(c, "free")
      BY <2>8, <3>1 DEF Fallback
    <3>2. CASE Fails /\ Answer(c, "served")
      BY <2>8, <3>2 DEF Fallback
    <3> QED
      BY <2>8, <3>1, <3>2 DEF Fallback
  <2>9. CASE Recover(c) BY <2>9 DEF Recover
  <2>10. CASE Settle(c) BY <2>10 DEF Settle
  <2> QED
    BY <2>1, <2>2, <2>3, <2>4, <2>5, <2>6, <2>7, <2>8, <2>9, <2>10 DEF CallNext
<1> QED
  BY <1>2, <1>3 DEF TypeOK

\* A step of a call keeps what is said of it, and of the others.
LEMMA CallStep ==
  ASSUME TypeOK, CallInv, NEW c \in Call, CallNext(c)
  PROVE  CallInv'
<1> SUFFICES ASSUME NEW d \in Call
             PROVE  Fits(d)' /\ Paid(d)' /\ Unrefunded(d)' /\ Settled(d)'
  BY DEF CallInv
<1>1. Fits(d) /\ Paid(d) /\ Unrefunded(d) /\ Settled(d)
  BY DEF CallInv
<1> USE <1>1, StoreAssumption DEF TypeOK, Fits, Paid, Unrefunded, Settled, GoTo, Answer,
      Answers, Fails, TakeCredits, GiveBack, NoWrite, Routes
<1>2. CASE CheckBalance(c) BY <1>2 DEF CheckBalance
<1>3. CASE Debit(c) BY <1>3 DEF Debit
<1>4. CASE DebitFails(c) BY <1>4 DEF DebitFails
<1>5. CASE WorkSucceeds(c) BY <1>5 DEF WorkSucceeds
<1>6. CASE WorkFails(c) BY <1>6 DEF WorkFails
<1>7. CASE Refund(c) BY <1>7 DEF Refund
<1>8. CASE Reread(c) BY <1>8 DEF Reread
<1>9. CASE Fallback(c) BY <1>9 DEF Fallback
<1>10. CASE Recover(c) BY <1>10 DEF Recover
<1>11. CASE Settle(c) BY <1>11 DEF Settle
<1> QED
  BY <1>2, <1>3, <1>4, <1>5, <1>6, <1>7, <1>8, <1>9, <1>10, <1>11 DEF CallNext

-----------------------------------------------------------------------------
(* Claims *)

\* A step of a claim keeps the types and the balances.
LEMMA ClaimTypes ==
  ASSUME TypeOK, NeverOverdrawn, NEW k \in Claim, ClaimNext(k), UNCHANGED callVars
  PROVE  TypeOK' /\ NeverOverdrawn'
<1> USE StoreAssumption, ClaimAssumption DEF Answers, Fails, Advance, Stages, Kinds, callVars
<1>1. PayerOf[k] \in Wallet /\ txHash[k] \in Hash /\ Worth[PaymentOf[txHash[k]]] \in Nat
  BY DEF TypeOK
<1>2. account' \in [Wallet -> Balance] /\ NeverOverdrawn'
  <2>1. CASE UNCHANGED account
    BY <2>1 DEF TypeOK, NeverOverdrawn
  <2>2. CASE GrantCredits(k)
    BY <1>1, <2>2, BalancesKept DEF GrantCredits, TypeOK
  <2> QED
    BY <2>1, <2>2 DEF ClaimNext, LookInCache, LookInDatabase, Verified, NotVerified, Record,
                      RecordFails, Grant
<1>3. /\ faults' \in 0..MaxFaults /\ kind' \in [Claim -> Kinds] /\ stage' \in [Claim -> Stages]
      /\ row' \in [Hash -> Claim \union {Nobody}] /\ usedTxHashes' \in [Kinds -> SUBSET Hash]
      /\ txHash' \in [Claim -> Hash]
      /\ got' \in [Claim -> Nat]
  <2> USE DEF TypeOK
  <2>1. CASE LookInCache(k) BY <2>1 DEF LookInCache
  <2>2. CASE LookInDatabase(k) BY <2>2 DEF LookInDatabase
  <2>3. CASE Verified(k) BY <2>3 DEF Verified
  <2>4. CASE NotVerified(k) BY <2>4 DEF NotVerified
  <2>5. CASE Record(k) BY <2>5 DEF Record, Insert
  <2>6. CASE RecordFails(k) BY <2>6 DEF RecordFails, Insert
  <2>7. CASE Grant(k) BY <2>7 DEF Grant, GrantCredits
  <2> QED
    BY <2>1, <2>2, <2>3, <2>4, <2>5, <2>6, <2>7 DEF ClaimNext
<1> QED
  BY <1>2, <1>3 DEF TypeOK

\* A step of a claim keeps what is said of it, and of the others.
LEMMA ClaimStep ==
  ASSUME TypeOK, ClaimInv, NEW k \in Claim, ClaimNext(k)
  PROVE  ClaimInv'
<1> SUFFICES ASSUME NEW j \in Claim
             PROVE  Claimed(j)'
  BY DEF ClaimInv
<1>1. Claimed(j) /\ Claimed(k)
  BY DEF ClaimInv
<1> USE <1>1, StoreAssumption, ClaimAssumption DEF TypeOK, Claimed, Answers, Fails, Advance, Stages, Kinds
<1>2. CASE LookInCache(k) BY <1>2 DEF LookInCache
<1>3. CASE LookInDatabase(k) BY <1>3 DEF LookInDatabase
<1>4. CASE Verified(k) BY <1>4 DEF Verified
<1>5. CASE NotVerified(k) BY <1>5 DEF NotVerified
<1>6. CASE Record(k) BY <1>6 DEF Record, Insert
<1>7. CASE RecordFails(k) BY <1>7 DEF RecordFails, Insert
<1>8. CASE Grant(k) BY <1>8 DEF Grant, GrantCredits
<1> QED
  BY <1>2, <1>3, <1>4, <1>5, <1>6, <1>7, <1>8 DEF ClaimNext

\* Calls and claims have no variable in common but the balances and the count
\* of failures, which only grows.
LEMMA Apart ==
  ASSUME TypeOK, faults' \in Nat, faults' >= faults
  PROVE  /\ CallInv /\ UNCHANGED callVars => CallInv'
         /\ ClaimInv /\ UNCHANGED claimVars => ClaimInv'
<1> USE StoreAssumption DEF TypeOK
<1>1. CallInv /\ UNCHANGED callVars => CallInv'
  BY DEF CallInv, callVars, Fits, Paid, Unrefunded, Settled
<1>2. ClaimInv /\ UNCHANGED claimVars => ClaimInv'
  BY DEF ClaimInv, claimVars, Claimed
<1> QED
  BY <1>1, <1>2

\* The count of failures never falls.
LEMMA FaultsGrow ==
  ASSUME TypeOK, [Next]_vars
  PROVE  faults' \in Nat /\ faults' >= faults
<1>1. Answers \/ Fails
  BY DEF Next, vars, storeVars, Answers, Fails, Expire, Crash, CallNext, ClaimNext, CheckBalance, Debit,
         DebitFails, WorkSucceeds, WorkFails, Refund, Reread, Fallback, Recover, Settle, LookInCache,
         LookInDatabase, Verified, NotVerified, Record, RecordFails, Grant
<1> QED
  BY <1>1, StoreAssumption DEF TypeOK, Answers, Fails

-----------------------------------------------------------------------------
(* The books *)

\* The terms of both sums are integers, over finite sets.
LEMMA BooksAreSums ==
  ASSUME TypeOK, NEW w \in Wallet
  PROVE  IntegersOn(Spent, CallsOf(w)) /\ IntegersOn(Bought, PurchasesOf(w))
<1>1. IsFiniteSet(CallsOf(w)) /\ IsFiniteSet(PurchasesOf(w))
  BY FiniteAssumption, FS_Subset DEF CallsOf, PurchasesOf
<1>2. ASSUME NEW c \in Call PROVE Spent[c] \in Int
  <2>1. charged[c] \in Int /\ refunds[c] \in Int /\ Cost[c] \in Int
    BY CallAssumption DEF TypeOK
  <2> QED
    BY <2>1 DEF Spent
<1>3. ASSUME NEW k \in Claim PROVE Bought[k] \in Int
  <2>1. got[k] \in Int /\ Worth[PaymentOf[txHash[k]]] \in Int
    BY ClaimAssumption DEF TypeOK
  <2> QED
    BY <2>1 DEF Bought
<1> QED
  BY <1>1, <1>2, <1>3 DEF IntegersOn, CallsOf, PurchasesOf

\* One call more or less pays: only the sum of its own wallet moves, by its price.
LEMMA SpentMoves ==
  ASSUME TypeOK, TypeOK', NEW c \in Call, NEW n \in Int, NEW w \in Wallet,
         \A d \in Call : charged'[d] - refunds'[d]
                            = charged[d] - refunds[d] + (IF d = c THEN n ELSE 0)
  PROVE  SumFunctionOnSet(Spent, CallsOf(w))'
           = SumFunctionOnSet(Spent, CallsOf(w)) + (IF w = WalletOf[c] THEN n * Cost[c] ELSE 0)
<1>1. PICK f, g, S : f = Spent /\ g = Spent' /\ S = CallsOf(w)
  OBVIOUS
<1>2. IntegersOn(f, S)
  BY <1>1, BooksAreSums
<1>3. ASSUME NEW d \in Call
      PROVE  g[d] = f[d] + (IF d = c THEN n * Cost[c] ELSE 0) /\ f[d] \in Int /\ n * Cost[d] \in Int
  <2>1. PICK x \in Int, y \in Int, p \in Int :
          x = charged[d] - refunds[d] /\ y = (charged[d] - refunds[d])' /\ p = Cost[d]
    BY CallAssumption DEF TypeOK
  <2>2. f[d] = x * p /\ g[d] = y * p
    BY <1>1, <2>1 DEF Spent
  <2>3. y = x + (IF d = c THEN n ELSE 0)
    BY <2>1
  <2>4. CASE d = c
    <3>1. y * p = x * p + n * p
      BY <2>3, <2>4
    <3> QED
      BY <2>1, <2>2, <2>4, <3>1
  <2>5. CASE d # c
    BY <2>1, <2>2, <2>3, <2>5
  <2> QED
    BY <2>4, <2>5
<1>4. S \subseteq Call /\ (c \in S <=> w = WalletOf[c])
  BY <1>1 DEF CallsOf
<1>5. IntegersOn(g, S)
  BY <1>2, <1>3, <1>4 DEF IntegersOn
<1>6. \A x \in S : x # c => g[x] = f[x]
  BY <1>3, <1>4
<1>7. SumFunctionOnSet(g, S) = SumFunctionOnSet(f, S) + (IF c \in S THEN g[c] - f[c] ELSE 0)
  BY <1>2, <1>5, <1>6, SumChange
<1>8. g[c] - f[c] = n * Cost[c]
  BY <1>3
<1>9. SumFunctionOnSet(Spent, CallsOf(w))' = SumFunctionOnSet(g, S)
  BY <1>1 DEF CallsOf
<1> QED
  BY <1>1, <1>4, <1>7, <1>8, <1>9

\* One claim gets its value once more: the sum of the wallet it buys for
\* grows by what the payment is worth, if the claim is a purchase.
LEMMA BoughtMoves ==
  ASSUME TypeOK, TypeOK', NEW k \in Claim, NEW w \in Wallet,
         kind' = kind, txHash' = txHash,
         got' = [got EXCEPT ![k] = @ + 1]
  PROVE  SumFunctionOnSet(Bought, PurchasesOf(w))'
           = SumFunctionOnSet(Bought, PurchasesOf(w))
             + (IF k \in PurchasesOf(w) THEN Worth[PaymentOf[txHash[k]]] ELSE 0)
<1>1. PICK f, g, S : f = Bought /\ g = Bought' /\ S = PurchasesOf(w)
  OBVIOUS
<1>2. IntegersOn(f, S)
  BY <1>1, BooksAreSums
<1>3. ASSUME NEW j \in Claim
      PROVE  g[j] = f[j] + (IF j = k THEN Worth[PaymentOf[txHash[k]]] ELSE 0)
             /\ f[j] \in Int /\ Worth[PaymentOf[txHash[j]]] \in Int
  <2>1. PICK x \in Int, y \in Int, p \in Int :
          x = got[j] /\ y = got'[j] /\ p = Worth[PaymentOf[txHash[j]]]
    <3>1. got[j] \in Nat /\ got'[j] \in Nat
      BY DEF TypeOK
    <3>2. Worth[PaymentOf[txHash[j]]] \in Nat
      BY ClaimAssumption DEF TypeOK
    <3> QED
      BY <3>1, <3>2
  <2>2. f[j] = x * p /\ g[j] = y * p
    BY <1>1, <2>1 DEF Bought
  <2>3. y = x + (IF j = k THEN 1 ELSE 0)
    BY <2>1 DEF TypeOK
  <2>4. CASE j = k
    <3>1. y * p = x * p + p
      BY <2>3, <2>4
    <3> QED
      BY <2>1, <2>2, <2>4, <3>1
  <2>5. CASE j # k
    BY <2>1, <2>2, <2>3, <2>5
  <2> QED
    BY <2>4, <2>5
<1>4. S \subseteq Claim
  BY <1>1 DEF PurchasesOf
<1>5. IntegersOn(g, S)
  BY <1>2, <1>3, <1>4 DEF IntegersOn
<1>6. \A x \in S : x # k => g[x] = f[x]
  BY <1>3, <1>4
<1>7. SumFunctionOnSet(g, S) = SumFunctionOnSet(f, S) + (IF k \in S THEN g[k] - f[k] ELSE 0)
  BY <1>2, <1>5, <1>6, SumChange
<1>8. g[k] - f[k] = Worth[PaymentOf[txHash[k]]]
  BY <1>3
<1>9. SumFunctionOnSet(Bought, PurchasesOf(w))' = SumFunctionOnSet(g, S)
  BY <1>1 DEF PurchasesOf
<1> QED
  BY <1>1, <1>7, <1>8, <1>9

\* Nothing that the books are about has changed.
LEMMA BooksStay ==
  ASSUME BooksAgree, UNCHANGED <<account, charged, refunds, kind, txHash, got>>
  PROVE  BooksAgree'
<1>1. Spent' = Spent /\ Bought' = Bought
  BY DEF Spent, Bought
<1>2. \A w \in Wallet : CallsOf(w)' = CallsOf(w) /\ PurchasesOf(w)' = PurchasesOf(w)
  BY DEF CallsOf, PurchasesOf
<1> QED
  BY <1>1, <1>2 DEF BooksAgree

\* No claim moved, so no purchase did.
LEMMA BoughtStays ==
  ASSUME TypeOK, NEW w \in Wallet, UNCHANGED <<kind, txHash, got>>
  PROVE  SumFunctionOnSet(Bought, PurchasesOf(w))' = SumFunctionOnSet(Bought, PurchasesOf(w))
BY DEF Bought, PurchasesOf

\* No call moved, so nothing was spent.
LEMMA SpentStays ==
  ASSUME TypeOK, NEW w \in Wallet, UNCHANGED <<charged, refunds>>
  PROVE  SumFunctionOnSet(Spent, CallsOf(w))' = SumFunctionOnSet(Spent, CallsOf(w))
BY DEF Spent, CallsOf

\* A service call books what it takes and gives back.
LEMMA CallBooks ==
  ASSUME TypeOK, TypeOK', BooksAgree, NEW c \in Call, CallNext(c), UNCHANGED claimVars
  PROVE  BooksAgree'
<1>1. TakeCredits(c) \/ GiveBack(c) \/ NoWrite
  BY DEF CallNext, CheckBalance, Debit, DebitFails, WorkSucceeds, WorkFails, Refund, Reread,
         Fallback, Recover, Settle
<1>2. ASSUME NEW w \in Wallet
      PROVE  SumFunctionOnSet(Bought, PurchasesOf(w))' = SumFunctionOnSet(Bought, PurchasesOf(w))
  BY BoughtStays DEF claimVars
<1>3. ASSUME NEW n \in {-1, 1},
             \A d \in Call : charged'[d] - refunds'[d]
                                = charged[d] - refunds[d] + (IF d = c THEN n ELSE 0),
             account' = Inc(WalletOf[c], -(n * Cost[c]), 0, n * Cost[c], IF n = 1 THEN 0 ELSE Cost[c])
      PROVE  BooksAgree'
  <2>1. PICK p \in Int : p = n * Cost[c]
    BY CallAssumption
  <2>2. SUFFICES ASSUME NEW w \in Wallet
                 PROVE  /\ account'[w].credits = account'[w].totalPurchased - account'[w].totalSpent
                        /\ account'[w].totalPurchased = account[w].totalPurchased
                        /\ account'[w].totalSpent = SumFunctionOnSet(Spent, CallsOf(w))'
    BY <1>2 DEF BooksAgree
  <2>3. SumFunctionOnSet(Spent, CallsOf(w))'
          = SumFunctionOnSet(Spent, CallsOf(w)) + (IF w = WalletOf[c] THEN p ELSE 0)
    BY <1>3, <2>1, SpentMoves
  <2>4. /\ account[w].credits = account[w].totalPurchased - account[w].totalSpent
        /\ account[w].totalSpent = SumFunctionOnSet(Spent, CallsOf(w))
    BY DEF BooksAgree
  <2>5. account[w] \in Balance
    BY DEF TypeOK
  <2>6. CASE w = WalletOf[c]
    <3>1. /\ account'[w].credits = account[w].credits + -p
          /\ account'[w].totalPurchased = account[w].totalPurchased + 0
          /\ account'[w].totalSpent = account[w].totalSpent + p
      BY <1>3, <2>1, <2>6 DEF Inc, TypeOK
    <3> QED
      BY <2>3, <2>4, <2>5, <2>6, <3>1 DEF Balance
  <2>7. CASE w # WalletOf[c]
    <3>1. account'[w] = account[w]
      BY <1>3, <2>7 DEF Inc, TypeOK
    <3> QED
      BY <2>3, <2>4, <2>5, <2>7, <3>1 DEF Balance
  <2> QED
    BY <2>6, <2>7
<1>4. Cost[c] \in Nat /\ -(1 * Cost[c]) = -Cost[c] /\ 1 * Cost[c] = Cost[c]
      /\ -((-1) * Cost[c]) = Cost[c] /\ (-1) * Cost[c] = -Cost[c]
  BY CallAssumption
<1>5. CASE TakeCredits(c)
  <2>1. account' = Inc(WalletOf[c], -(1 * Cost[c]), 0, 1 * Cost[c], 0)
    BY <1>4, <1>5 DEF TakeCredits, Debited
  <2>2. \A d \in Call : charged'[d] - refunds'[d]
                             = charged[d] - refunds[d] + (IF d = c THEN 1 ELSE 0)
    <3>1. charged' = [charged EXCEPT ![c] = @ + 1] /\ refunds' = refunds
      BY <1>5 DEF TakeCredits
    <3>2. ASSUME NEW d \in Call
          PROVE  /\ charged[d] \in Nat /\ refunds[d] \in Nat /\ refunds'[d] = refunds[d]
                 /\ charged'[d] = charged[d] + (IF d = c THEN 1 ELSE 0)
      BY <3>1 DEF TypeOK
    <3> QED
      BY <3>2
  <2> QED
    BY <1>3, <2>1, <2>2
<1>6. CASE GiveBack(c)
  <2>1. account' = Inc(WalletOf[c], -((-1) * Cost[c]), 0, (-1) * Cost[c], Cost[c])
    BY <1>4, <1>6 DEF GiveBack, Refunded
  <2>2. \A d \in Call : charged'[d] - refunds'[d]
                             = charged[d] - refunds[d] + (IF d = c THEN -1 ELSE 0)
    <3>1. refunds' = [refunds EXCEPT ![c] = @ + 1] /\ charged' = charged
      BY <1>6 DEF GiveBack
    <3>2. ASSUME NEW d \in Call
          PROVE  /\ charged[d] \in Nat /\ refunds[d] \in Nat /\ charged'[d] = charged[d]
                 /\ refunds'[d] = refunds[d] + (IF d = c THEN 1 ELSE 0)
      BY <3>1 DEF TypeOK
    <3> QED
      BY <3>2
  <2> QED
    BY <1>3, <2>1, <2>2
<1>7. CASE NoWrite
  BY <1>7, BooksStay DEF NoWrite, claimVars
<1> QED
  BY <1>1, <1>5, <1>6, <1>7

\* A purchase books what it grants; the service a payment buys is booked
\* nowhere.
LEMMA ClaimBooks ==
  ASSUME TypeOK, TypeOK', BooksAgree, ClaimInv, NEW k \in Claim, ClaimNext(k), UNCHANGED callVars
  PROVE  BooksAgree'
<1>1. kind' = kind /\ txHash' = txHash /\ UNCHANGED <<charged, refunds>>
  BY DEF ClaimNext, LookInCache, LookInDatabase, Verified, NotVerified, Record, RecordFails, Grant,
         callVars
<1>2. ASSUME NEW w \in Wallet
      PROVE  SumFunctionOnSet(Spent, CallsOf(w))' = SumFunctionOnSet(Spent, CallsOf(w))
  BY <1>1, SpentStays
<1>3. \/ UNCHANGED <<account, got>>
      \/ GrantCredits(k) /\ kind[k] = "purchase"
      \/ kind[k] = "service" /\ got' = [got EXCEPT ![k] = @ + 1] /\ UNCHANGED account
  <2>1. CASE Record(k)
    BY <2>1 DEF Record, TypeOK, Kinds
  <2>2. CASE Grant(k)
    BY <2>2 DEF Grant, ClaimInv, Claimed
  <2> QED
    BY <2>1, <2>2 DEF ClaimNext, LookInCache, LookInDatabase, Verified, NotVerified, RecordFails
<1>4. CASE UNCHANGED <<account, got>>
  BY <1>1, <1>4, BooksStay
<1>5. CASE GrantCredits(k) /\ kind[k] = "purchase"
  <2>1. PICK p \in Nat : p = Worth[PaymentOf[txHash[k]]]
    BY ClaimAssumption DEF TypeOK
  <2>2. account' = Inc(PayerOf[k], p, p, 0, 0) /\ got' = [got EXCEPT ![k] = @ + 1]
    BY <1>5, <2>1 DEF GrantCredits, Purchased
  <2>3. SUFFICES ASSUME NEW w \in Wallet
                 PROVE  /\ account'[w].credits = account'[w].totalPurchased - account'[w].totalSpent
                        /\ account'[w].totalPurchased
                             = Endowment + SumFunctionOnSet(Bought, PurchasesOf(w))'
                        /\ account'[w].totalSpent = account[w].totalSpent
    BY <1>2 DEF BooksAgree
  <2>4. SumFunctionOnSet(Bought, PurchasesOf(w))'
          = SumFunctionOnSet(Bought, PurchasesOf(w)) + (IF w = PayerOf[k] THEN p ELSE 0)
    BY <1>1, <1>5, <2>1, <2>2, BoughtMoves DEF PurchasesOf
  <2>5. SumFunctionOnSet(Bought, PurchasesOf(w)) \in Int
    BY BooksAreSums, SumType
  <2>6. /\ account[w].credits = account[w].totalPurchased - account[w].totalSpent
        /\ account[w].totalPurchased = Endowment + SumFunctionOnSet(Bought, PurchasesOf(w))
    BY DEF BooksAgree
  <2>7. account[w] \in Balance
    BY DEF TypeOK
  <2>8. CASE w = PayerOf[k]
    <3>1. /\ account'[w].credits = account[w].credits + p
          /\ account'[w].totalPurchased = account[w].totalPurchased + p
          /\ account'[w].totalSpent = account[w].totalSpent + 0
      BY <2>2, <2>8 DEF Inc, TypeOK
    <3> QED
      BY <2>4, <2>5, <2>6, <2>7, <2>8, <3>1, StoreAssumption DEF Balance
  <2>9. CASE w # PayerOf[k]
    <3>1. account'[w] = account[w]
      BY <2>2, <2>9 DEF Inc, TypeOK
    <3> QED
      BY <2>4, <2>5, <2>6, <2>7, <2>9, <3>1 DEF Balance
  <2> QED
    BY <2>8, <2>9
<1>6. CASE kind[k] = "service" /\ got' = [got EXCEPT ![k] = @ + 1] /\ UNCHANGED account
  <2>1. SUFFICES ASSUME NEW w \in Wallet
                 PROVE  SumFunctionOnSet(Bought, PurchasesOf(w))'
                          = SumFunctionOnSet(Bought, PurchasesOf(w))
    BY <1>2, <1>6 DEF BooksAgree
  <2>2. SumFunctionOnSet(Bought, PurchasesOf(w))'
          = SumFunctionOnSet(Bought, PurchasesOf(w)) + 0
    BY <1>1, <1>6, BoughtMoves DEF PurchasesOf
  <2>3. SumFunctionOnSet(Bought, PurchasesOf(w)) \in Int
    BY BooksAreSums, SumType
  <2> QED
    BY <2>2, <2>3
<1> QED
  BY <1>3, <1>4, <1>5, <1>6

\* At first nothing is booked but the endowment.
LEMMA BooksStart ==
  ASSUME Init, TypeOK
  PROVE  BooksAgree
<1> USE DEF Init, StoreInit, CallInit, ClaimInit
<1>1. SUFFICES ASSUME NEW w \in Wallet
               PROVE  /\ SumFunctionOnSet(Bought, PurchasesOf(w)) = 0
                      /\ SumFunctionOnSet(Spent, CallsOf(w)) = 0
  <2>1. ASSUME NEW w \in Wallet
        PROVE  /\ account[w].credits = Endowment /\ account[w].totalPurchased = Endowment
               /\ account[w].totalSpent = 0
    OBVIOUS
  <2>2. Endowment = Endowment - 0 /\ Endowment = Endowment + 0
    BY StoreAssumption
  <2> QED
    BY <2>1, <2>2 DEF BooksAgree
<1>2. IsFiniteSet(PurchasesOf(w)) /\ IsFiniteSet(CallsOf(w))
  BY BooksAreSums DEF IntegersOn
<1>3. ASSUME NEW k \in PurchasesOf(w) PROVE Bought[k] = 0
  <2>1. k \in Claim /\ got[k] = 0 /\ Worth[PaymentOf[txHash[k]]] \in Nat
    BY ClaimAssumption DEF PurchasesOf
  <2> QED
    BY <2>1 DEF Bought
<1>4. ASSUME NEW c \in CallsOf(w) PROVE Spent[c] = 0
  <2>1. c \in Call /\ charged[c] = 0 /\ refunds[c] = 0 /\ Cost[c] \in Nat
    BY CallAssumption DEF CallsOf
  <2> QED
    BY <2>1 DEF Spent
<1> QED
  BY <1>2, <1>3, <1>4, SumZero

-----------------------------------------------------------------------------
(* Caches and crashes *)

\* A cache that forgets touches nothing that is promised.
LEMMA ExpireStep ==
  ASSUME IInv, NEW i \in Kinds, Expire(i), UNCHANGED callVars
  PROVE  IInv'
<1>1. TypeOK' /\ NeverOverdrawn'
  BY DEF IInv, TypeOK, NeverOverdrawn, Expire, Answers, callVars
<1>2. ClaimInv'
  BY DEF IInv, ClaimInv, Claimed, Expire, Answers
<1>3. CallInv'
  BY Apart, StoreAssumption DEF IInv, TypeOK, Expire, Answers
<1>4. BooksAgree'
  BY BooksStay DEF IInv, Expire, callVars
<1> QED
  BY <1>1, <1>2, <1>3, <1>4 DEF IInv

\* A crash ends everything halfway, and what was promised holds halfway.
LEMMA CrashStep ==
  ASSUME IInv, Crash
  PROVE  IInv'
<1> USE StoreAssumption DEF IInv, TypeOK, Crash, ChargesCrash, ClaimsCrash, Fails
<1>1. TypeOK' /\ NeverOverdrawn'
  BY DEF NeverOverdrawn, Steps, Stages
<1>2. CallInv'
  BY DEF CallInv, Fits, Paid, Unrefunded, Settled
<1>3. ClaimInv'
  BY DEF ClaimInv, Claimed
<1>4. BooksAgree'
  BY BooksStay DEF IInv, Crash, ChargesCrash, ClaimsCrash
<1> QED
  BY <1>1, <1>2, <1>3, <1>4

-----------------------------------------------------------------------------
(* Theorems *)

\* The invariant holds at first and is kept by every step.
THEOREM Invariance == Spec => []IInv
<1>1. Init => IInv
  <2> SUFFICES ASSUME Init PROVE IInv
    OBVIOUS
  <2> USE StoreAssumption, ClaimAssumption, CallAssumption
      DEF Init, StoreInit, CallInit, ClaimInit
  <2>1. TypeOK
    BY DEF TypeOK, Balance, Routes, Steps, Told, First, Stages
  <2>2. NeverOverdrawn
    <3>1. \A w \in Wallet : account[w].credits = Endowment
      OBVIOUS
    <3>2. Endowment >= 0
      BY StoreAssumption
    <3> QED
      BY <3>1, <3>2 DEF NeverOverdrawn
  <2>3. CallInv
    BY DEF CallInv, Fits, Paid, Unrefunded, Settled, First
  <2>4. ClaimInv
    BY DEF ClaimInv, Claimed
  <2>5. BooksAgree
    BY <2>1, BooksStart
  <2> QED
    BY <2>1, <2>2, <2>3, <2>4, <2>5 DEF IInv
<1>2. IInv /\ [Next]_vars => IInv'
  <2> SUFFICES ASSUME IInv, [Next]_vars PROVE IInv'
    OBVIOUS
  <2>1. faults' \in Nat /\ faults' >= faults
    BY FaultsGrow DEF IInv
  <2>2. ASSUME NEW c \in Call, CallNext(c), UNCHANGED claimVars PROVE IInv'
    BY <2>1, <2>2, CallTypes, CallStep, CallBooks, Apart DEF IInv
  <2>3. ASSUME NEW k \in Claim, ClaimNext(k), UNCHANGED callVars PROVE IInv'
    BY <2>1, <2>3, ClaimTypes, ClaimStep, ClaimBooks, Apart DEF IInv
  <2>4. CASE UNCHANGED vars
    <3>1. TypeOK' /\ NeverOverdrawn'
      BY <2>4 DEF IInv, TypeOK, NeverOverdrawn, vars, storeVars, callVars, claimVars
    <3>2. BooksAgree'
      BY <2>4, BooksStay DEF IInv, vars, storeVars, callVars, claimVars
    <3> QED
      BY <2>1, <2>4, <3>1, <3>2, Apart DEF IInv, vars
  <2> QED
    BY <2>2, <2>3, <2>4, ExpireStep, CrashStep DEF Next
<1> QED
  BY <1>1, <1>2, PTL DEF Spec

\* Every variable always has its type; creditDebit makes no more debits than
\* its retries allow.
THEOREM TypeCorrect == Spec => []TypeOK
<1>1. IInv => TypeOK
  BY DEF IInv
<1> QED
  BY <1>1, Invariance, PTL

\* No balance is ever below zero.
THEOREM NeverOverdrawnHolds == Spec => []NeverOverdrawn
<1>1. IInv => NeverOverdrawn
  BY DEF IInv
<1> QED
  BY <1>1, Invariance, PTL

\* The counters of every wallet always agree with its calls and purchases.
THEOREM BooksAgreeHolds == Spec => []BooksAgree
<1>1. IInv => BooksAgree
  BY DEF IInv
<1> QED
  BY <1>1, Invariance, PTL

\* creditDebit and the metered routes refund once, and only what they took.
THEOREM RefundsAreCoveredHolds == Spec => []RefundsAreCovered
<1>1. IInv => RefundsAreCovered
  BY DEF IInv, CallInv, Unrefunded, RefundsAreCovered
<1> QED
  BY <1>1, Invariance, PTL

\* Whoever is served was charged, except by the scraper.
THEOREM ServedIsChargedHolds == Spec => []ServedIsCharged
<1>1. IInv => ServedIsCharged
  BY DEF IInv, CallInv, Paid, ServedIsCharged
<1> QED
  BY <1>1, Invariance, PTL

\* Without failures, the client pays what the answer says.
THEOREM PaysWhatItSaysHolds == Spec => []PaysWhatItSays
<1>1. ASSUME IInv, NEW c \in Call, faults = 0, step[c] = "done", ~owed[c], route[c] # "scrape"
      PROVE  charged[c] - refunds[c] = IF told[c] \in {"served", "failed"} THEN 1 ELSE 0
  <2>1. Settled(c) /\ charged[c] \in Nat /\ refunds[c] \in Nat
    BY <1>1 DEF IInv, CallInv, TypeOK
  <2> QED
    BY <1>1, <2>1 DEF Settled
<1>2. IInv => PaysWhatItSays
  BY <1>1 DEF PaysWhatItSays
<1> QED
  BY <1>2, Invariance, PTL

\* A hash, as it is written, yields its value at most once: the caches, the
\* query and the unique index of ExternalPayment compare the same strings.
THEOREM OneUseHolds == Spec => []OneUse
<1>1. ASSUME IInv, NEW h \in Hash, NEW j \in Claim, NEW k \in Claim,
             txHash[j] = h, txHash[k] = h, got[j] > 0, got[k] > 0
      PROVE  j = k /\ got[j] = 1
  <2>1. Claimed(j) /\ Claimed(k) /\ got[j] \in Nat
    BY <1>1 DEF IInv, ClaimInv, TypeOK
  <2> QED
    BY <1>1, <2>1 DEF Claimed
<1>2. IInv => OneUse
  BY <1>1 DEF OneUse
<1> QED
  BY <1>2, Invariance, PTL

\* Without failures, a recorded hash is used.
THEOREM RecordedIsUsedHolds == Spec => []RecordedIsUsed
<1>1. IInv => RecordedIsUsed
  BY DEF IInv, ClaimInv, Claimed, RecordedIsUsed
<1> QED
  BY <1>1, Invariance, PTL
=============================================================================
