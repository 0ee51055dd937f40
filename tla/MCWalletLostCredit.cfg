\* A settlement that is cut off between its two transactions.
CONSTANTS
  Customers = {c1}
  NoCustomer = none
  TopupRefs = {t1}
  VoucherRefs = {}
  Calls = {k1, k2}
  Generators = {}
  Statuses = {"token"}
  TopupAmounts <- OneTopup
  AdjustAmounts <- NoAmounts
  MonthlyFee = 15
  Synchronous = TRUE
  LastMonth = 1
  MaxAdjusts = 0
  MaxStamps = 0
SPECIFICATION Spec
INVARIANTS SettledIsCredited
