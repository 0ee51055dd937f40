---------------------------- MODULE MCVoucherPortal ----------------------------
(***************************************************************************)
(* The instance of VoucherPortal for TLC: a batch of one voucher, and a    *)
(* guest for each way the charge may go.                                   *)
(***************************************************************************)
EXTENDS VoucherPortal

\* Batches and vouchers have ids of the same range.
MCBatchOf == [v \in Vouchers |-> v]

================================================================================
