---------------------------- MODULE CreditGateway ----------------------------
(***************************************************************************)
(* The paid side of the external API: service calls and payment claims of  *)
(* the same wallets, one process, one database, and a process that may end *)
(* at any time.                                                            *)
(***************************************************************************)
EXTENDS CreditCharges, PaymentClaims, FiniteSetsExt

ASSUME FiniteAssumption == IsFiniteSet(Call) /\ IsFiniteSet(Claim)

vars == <<storeVars, callVars, claimVars>>

Init == StoreInit /\ CallInit /\ ClaimInit

Crash ==
    /\ Fails
    /\ ChargesCrash /\ ClaimsCrash
    /\ UNCHANGED account

Next ==
    \/ \E c \in Call : CallNext(c) /\ UNCHANGED claimVars
    \/ \E k \in Claim : ClaimNext(k) /\ UNCHANGED callVars
    \/ \E i \in Kinds : Expire(i) /\ UNCHANGED callVars
    \/ Crash

Spec == Init /\ [][Next]_vars

-----------------------------------------------------------------------------
(* Invariants *)

\* Every variable keeps to its values.
TypeOK ==
    /\ account \in [Wallet -> Balance]
    /\ faults \in 0..MaxFaults
    /\ route \in [Call -> Routes]
    /\ step \in [Call -> Steps]
    /\ told \in [Call -> Told]
    /\ tries \in [Call -> 0..Retries]
    /\ owed \in [Call -> BOOLEAN]
    /\ charged \in [Call -> Nat]
    /\ refunds \in [Call -> Nat]
    /\ kind \in [Claim -> Kinds]
    /\ stage \in [Claim -> Stages]
    /\ txHash \in [Claim -> Hash]
    /\ row \in [Hash -> Claim \union {Nobody}]
    /\ usedTxHashes \in [Kinds -> SUBSET Hash]
    /\ got \in [Claim -> Nat]

\* No balance falls below zero, although calls compare the balance with
\* their price long before they debit it, and a debit whose answer was lost
\* is sent again.
NeverOverdrawn == \A w \in Wallet : account[w].credits >= 0

\* What a call has paid, and what a claim has bought, in credits.
Spent == [c \in Call |-> (charged[c] - refunds[c]) * Cost[c]]
Bought == [k \in Claim |-> got[k] * Worth[PaymentOf[txHash[k]]]]

CallsOf(w) == {c \in Call : WalletOf[c] = w}
PurchasesOf(w) == {k \in Claim : kind[k] = "purchase" /\ PayerOf[k] = w}

\* The three counters of a wallet account for its balance, and agree with the
\* calls and claims that moved them: nothing is booked that did not happen.
BooksAgree ==
    \A w \in Wallet :
        /\ account[w].credits = account[w].totalPurchased - account[w].totalSpent
        /\ account[w].totalPurchased = Endowment + SumFunctionOnSet(Bought, PurchasesOf(w))
        /\ account[w].totalSpent = SumFunctionOnSet(Spent, CallsOf(w))

\* A refund gives back a price that was taken, and only once.  Routes whose
\* refund can be reached twice, or without a debit, are not promised this:
\* see NoFreeCredits.
RefundsAreCovered ==
    \A c \in Call : route[c] \in {"middleware", "metered"} =>
        refunds[c] <= 1 /\ refunds[c] <= charged[c]

\* The answer to a client who was served says that the price was taken.  The
\* scraper works without asking whether it was.
ServedIsCharged ==
    \A c \in Call : told[c] = "served" /\ route[c] # "scrape" => charged[c] >= 1

\* While nothing fails, the client pays what the answer says: the price for
\* an answer or an error of his own, nothing for a refusal or a refund.
PaysWhatItSays ==
    \A c \in Call :
        /\ faults = 0 /\ step[c] = "done" /\ ~owed[c] /\ route[c] # "scrape"
        => charged[c] - refunds[c] = IF told[c] \in {"served", "failed"} THEN 1 ELSE 0

\* One hash, as it is written, yields its value once, whichever handlers race
\* for it, with whatever their caches have forgotten, and across restarts.  Two
\* strings for one payment are two hashes to the code, and yield it twice.
OneUse ==
    \A h \in Hash :
        \A j, k \in {k \in Claim : txHash[k] = h /\ got[k] > 0} : j = k /\ got[j] = 1

\* While nothing fails, a hash that is recorded is not recorded in vain.
RecordedIsUsed ==
    \A k \in Claim : faults = 0 /\ stage[k] = "done" /\ row[txHash[k]] = k => got[k] = 1

-----------------------------------------------------------------------------
(* What the code does not keep *)

\* No call gives back more than it took.  The scraper's debit may find too
\* little, after another call, and its failure is refunded all the same.
NoFreeCredits == \A c \in Call : refunds[c] <= charged[c]
=============================================================================
