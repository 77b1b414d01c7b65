\* Two calls by any routes and two claims of one payment by the same hash or
\* by two spellings of it, two failures or crashes.
CONSTANTS
  Wallet = {w}
  Endowment = 1
  MaxFaults = 2
  Call = {c1, c2}
  Retries = 1
  Claim = {k1, k2}
  Payment = {p}
  Hash = {lower, upper}
  Nobody = Nobody
  WalletOf <- MCWalletOf
  Cost <- MCCost
  PaymentOf <- MCPaymentOf
  PayerOf <- MCPayerOf
  Worth <- MCWorth
SPECIFICATION Spec
SYMMETRY MCSymmetry
CHECK_DEADLOCK FALSE
INVARIANTS TypeOK NeverOverdrawn BooksAgree RefundsAreCovered ServedIsCharged PaysWhatItSays OneUse RecordedIsUsed
