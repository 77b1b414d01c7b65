--------------------------- MODULE MCCreditGateway ---------------------------
(***************************************************************************)
(* All requests come from the same wallet, every call costs one credit,    *)
(* and all hashes name the same payment.                                   *)
(***************************************************************************)
EXTENDS CreditGateway, TLC

MCWalletOf == [c \in Call |-> CHOOSE w \in Wallet : TRUE]
MCCost == [c \in Call |-> 1]
MCPaymentOf == [h \in Hash |-> CHOOSE p \in Payment : TRUE]
MCPayerOf == [k \in Claim |-> CHOOSE w \in Wallet : TRUE]
MCWorth == [p \in Payment |-> 1]

\* Calls differ in nothing but their routes, claims in nothing but their kinds
\* and hashes, and a hash is as good as another.
MCSymmetry == Permutations(Call) \union Permutations(Claim) \union Permutations(Hash)
=============================================================================
