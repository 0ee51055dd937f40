\* Billing windows, both ways to pay them and adjustments, under the worker's
\* fairness.
CONSTANTS
  Customers = {c1, c2}
  NoCustomer = none
  TopupRefs = {}
  VoucherRefs = {}
  Calls = {}
  Generators = {api, worker}
  Statuses = {"token", "active"}
  TopupAmounts <- NoAmounts
  AdjustAmounts <- MCTwoFees
  MonthlyFee = 15
  Synchronous = FALSE
  LastMonth = 2
  MaxAdjusts = 1
  MaxStamps = 1
SPECIFICATION FairSpec
INVARIANTS TypeOK LedgerChain
PROPERTIES  ImplementsAccountBook TokenCustomersAreBilled
