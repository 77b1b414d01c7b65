---------------------------- MODULE PaymentClaims ----------------------------
(***************************************************************************)
(* Requests that present the hash of a payment on the chain: POST          *)
(* /credits/purchase turns it into credits, paymentMiddleware into one     *)
(* call of a service.  Both record it in ExternalPayment, whose txHash is  *)
(* unique; each keeps its own cache of hashes it has seen, in memory.      *)
(*                                                                         *)
(* A hash is the string that the request holds.  The caches, the query and *)
(* the unique index compare strings, as they were written; the chain reads *)
(* the digits of a hash in either case, so that several strings may name   *)
(* one payment.                                                            *)
(***************************************************************************)
EXTENDS CreditStore

CONSTANTS Claim,        \* the requests
          Payment,      \* the payments on the chain
          Hash,         \* the strings that requests write
          PaymentOf,    \* PaymentOf[h]: the payment that the chain finds by h
          PayerOf,      \* PayerOf[k]: the wallet a purchase is for
          Worth,        \* Worth[p]: the credits a payment buys
          Nobody        \* no request

ASSUME ClaimAssumption ==
    /\ PaymentOf \in [Hash -> Payment]
    /\ PayerOf \in [Claim -> Wallet]
    /\ Worth \in [Payment -> Nat]
    /\ Nobody \notin Claim

Kinds == {"purchase", "service"}
Stages == {"cache", "database", "chain", "record", "grant", "done"}

VARIABLES kind,         \* kind[k]: what the request wants for the payment
          txHash,       \* txHash[k]: the hash that the request presents
          stage,        \* stage[k]: what it does next
          row,          \* row[h]: the request that recorded the hash
          usedTxHashes, \* usedTxHashes[i]: the cache of either kind
          got           \* got[k]: how often the request was given its value

claimVars == <<kind, txHash, stage, row, usedTxHashes, got>>

ClaimInit ==
    /\ kind \in [Claim -> Kinds]
    /\ txHash \in [Claim -> Hash]
    /\ stage = [k \in Claim |-> "cache"]
    /\ row = [h \in Hash |-> Nobody]
    /\ usedTxHashes = [i \in Kinds |-> {}]
    /\ got = [k \in Claim |-> 0]

-----------------------------------------------------------------------------
Advance(k, s) == stage' = [stage EXCEPT ![k] = s]

\* The first double-spend check, in memory.
LookInCache(k) ==
    /\ stage[k] = "cache"
    /\ Advance(k, IF txHash[k] \in usedTxHashes[kind[k]] THEN "done" ELSE "database")
    /\ Answers
    /\ UNCHANGED <<account, kind, txHash, row, usedTxHashes, got>>

\* The second, in the database.
LookInDatabase(k) ==
    /\ stage[k] = "database"
    /\ \/ /\ Advance(k, IF row[txHash[k]] = Nobody THEN "chain" ELSE "done")
          /\ Answers
       \/ Advance(k, "done") /\ Fails
    /\ UNCHANGED <<account, kind, txHash, row, usedTxHashes, got>>

\* The chain confirms the payment: recipient, amount, confirmations and, for
\* a purchase, the payer.  The hash enters the cache before it is recorded.
Verified(k) ==
    /\ stage[k] = "chain"
    /\ Advance(k, "record")
    /\ usedTxHashes' = [usedTxHashes EXCEPT ![kind[k]] = @ \union {txHash[k]}]
    /\ Answers
    /\ UNCHANGED <<account, kind, txHash, row, got>>

\* BUG: the payment is recorded although the chain has not confirmed it.
NotVerifiedRecorded(k) ==
    /\ stage[k] = "chain"
    /\ row' = [row EXCEPT ![txHash[k]] = IF @ = Nobody THEN k ELSE @]
    /\ Advance(k, "done")
    /\ Answers
    /\ UNCHANGED <<account, kind, txHash, usedTxHashes, got>>

\* It does not: the request ends and leaves no trace.
NotVerified(k) ==
    /\ stage[k] = "chain"
    /\ Advance(k, "done")
    /\ Answers
    /\ UNCHANGED <<account, kind, txHash, row, usedTxHashes, got>>

Insert(k) == row[txHash[k]] = Nobody /\ row' = [row EXCEPT ![txHash[k]] = k]

\* BUG: txHash is not unique, and the checks before must do.
RecordAnyway(k) ==
    /\ stage[k] = "record"
    /\ row' = [row EXCEPT ![txHash[k]] = k]
    /\ Advance(k, IF kind[k] = "purchase" THEN "grant" ELSE "done")
    /\ got' = [got EXCEPT ![k] = @ + (IF kind[k] = "service" THEN 1 ELSE 0)]
    /\ Answers
    /\ UNCHANGED <<account, kind, txHash, usedTxHashes>>

\* ExternalPayment.create: the unique index refuses a second record of one
\* string.  A service call then runs, a purchase still has to be granted.
Record(k) ==
    /\ stage[k] = "record"
    /\ \/ /\ Insert(k)
          /\ Advance(k, IF kind[k] = "purchase" THEN "grant" ELSE "done")
          /\ got' = [got EXCEPT ![k] = @ + (IF kind[k] = "service" THEN 1 ELSE 0)]
       \/ row[txHash[k]] # Nobody /\ Advance(k, "done") /\ UNCHANGED <<row, got>>
    /\ Answers
    /\ UNCHANGED <<account, kind, txHash, usedTxHashes>>

RecordFails(k) ==
    /\ stage[k] = "record"
    /\ Insert(k) \/ UNCHANGED row
    /\ Advance(k, "done")
    /\ Fails
    /\ UNCHANGED <<account, kind, txHash, usedTxHashes, got>>

GrantCredits(k) ==
    /\ account' = Purchased(PayerOf[k], Worth[PaymentOf[txHash[k]]])
    /\ got' = [got EXCEPT ![k] = @ + 1]

\* The $inc of the purchase.
Grant(k) ==
    /\ stage[k] = "grant"
    /\ Advance(k, "done")
    /\ (GrantCredits(k) /\ Answers) \/ ((GrantCredits(k) \/ UNCHANGED <<account, got>>) /\ Fails)
    /\ UNCHANGED <<kind, txHash, row, usedTxHashes>>

\* A hash leaves a cache after an hour.
Expire(i) ==
    /\ \E h \in usedTxHashes[i] : usedTxHashes' = [usedTxHashes EXCEPT ![i] = @ \ {h}]
    /\ Answers
    /\ UNCHANGED <<account, kind, txHash, stage, row, got>>

\* The process ends: its requests and its caches are gone.
ClaimsCrash ==
    /\ stage' = [k \in Claim |-> "done"]
    /\ usedTxHashes' = [i \in Kinds |-> {}]
    /\ UNCHANGED <<kind, txHash, row, got>>

ClaimNext(k) ==
    \/ LookInCache(k) \/ LookInDatabase(k) \/ Verified(k) \/ NotVerified(k)
    \/ Record(k) \/ RecordFails(k) \/ Grant(k)
=============================================================================
