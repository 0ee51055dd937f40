\* Duplicate and racing settlements, both kinds of payments,
\* and adjustments by fractions of a cent.
CONSTANTS
  Customers = {c1, c2}
  NoCustomer = none
  TopupRefs = {t1, t2}
  VoucherRefs = {v1}
  Calls = {k1, k2, k3}
  Generators = {}
  Statuses = {"token"}
  TopupAmounts <- MCTopups
  AdjustAmounts <- MCFractions
  MonthlyFee = 15
  Synchronous = TRUE
  LastMonth = 1
  MaxAdjusts = 1
  MaxStamps = 0
SPECIFICATION Spec
SYMMETRY SettleSymmetry
INVARIANTS NoDoubleBooking BookingsAreBacked CreditOwed BalanceCoversLedger
PROPERTY CreditsStrandOnlyWhenCutOff
