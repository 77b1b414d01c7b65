---------------------------- MODULE CreditStore ----------------------------
(***************************************************************************)
(* The balances of the external API, the collection ExternalCreditBalance, *)
(* and the failures of the calls to it.  Every change of a balance is one  *)
(* findOneAndUpdate, which MongoDB runs atomically.  A call that fails may *)
(* have changed the document all the same: only its answer was lost.       *)
(*                                                                         *)
(* A wallet without a document counts as one whose numbers are all zero:   *)
(* debitCredits answers null for both, and the upsert of a purchase        *)
(* creates the document.                                                   *)
(***************************************************************************)
EXTENDS Integers

CONSTANTS Wallet,       \* the wallets that pay
          Endowment,    \* the credits each has bought before
          MaxFaults     \* bound on failed database calls and crashes

ASSUME StoreAssumption == Endowment \in Nat /\ MaxFaults \in Nat

VARIABLES account,      \* account[w]: the document of the wallet
          faults        \* how many calls have failed so far

storeVars == <<account, faults>>

Balance == [credits: Int, totalPurchased: Int, totalSpent: Int, totalRefunded: Int]

StoreInit ==
    /\ account = [w \in Wallet |-> [credits |-> Endowment, totalPurchased |-> Endowment,
                                    totalSpent |-> 0, totalRefunded |-> 0]]
    /\ faults = 0

\* The filter of debitCredits.
Affords(w, n) == account[w].credits >= n

\* The balances after the $inc of an update of w.
Inc(w, credits, purchased, spent, refunded) ==
    [account EXCEPT ![w] = [credits |-> @.credits + credits,
                            totalPurchased |-> @.totalPurchased + purchased,
                            totalSpent |-> @.totalSpent + spent,
                            totalRefunded |-> @.totalRefunded + refunded]]

\* debitCredits, once it has found the document; refundCredits; a purchase.
Debited(w, n) == Inc(w, -n, 0, n, 0)
Purchased(w, n) == Inc(w, n, n, 0, 0)

\* BUG: a refund that does not lower what was spent.
RefundedStillSpent(w, n) == Inc(w, n, 0, 0, n)

Refunded(w, n) == Inc(w, n, 0, -n, n)

\* The call answers, or it fails.
Answers == UNCHANGED faults
Fails == faults < MaxFaults /\ faults' = faults + 1
=============================================================================
