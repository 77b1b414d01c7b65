\* Two calls for one credit; nothing fails.
CONSTANTS
  Wallet = {w}
  Endowment = 1
  MaxFaults = 0
  Call = {c1, c2}
  Retries = 1
  Claim = {k1, k2}
  Payment = {p}
  Hash = {lower, upper}
  Nobody = Nobody
  WalletOf <- MCWalletOf
  Cost <- MCCost
  PaymentOf <- MCPaymentOf
  PayerOf <- MCPayerOf
  Worth <- MCWorth
SPECIFICATION Spec
SYMMETRY MCSymmetry
CHECK_DEADLOCK FALSE
INVARIANT NoFreeCredits
