\* Three guests race for one voucher: one pays at once, one later, and one's batch
\* may not be readable.
CONSTANTS
  Batches = {1}
  Vouchers = {1}
  BatchOf <- MCBatchOf
  Priced = {1}
  Requests = {g1, g2, g3}
  Synchronous = {g1}
  Unreadable = {g3}
SPECIFICATION Spec
INVARIANTS TypeOK RedeemedOnce SessionIsPaid
PROPERTIES LateGuestNotCharged ImplementsVoucherUse
