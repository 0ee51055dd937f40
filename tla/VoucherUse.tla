------------------------------- MODULE VoucherUse ------------------------------
(***************************************************************************)
(* What a voucher promises: it is issued once, and from then on it is      *)
(* either used by one guest or made void, and neither can be undone.       *)
(***************************************************************************)
CONSTANTS Vouchers, Guests

VARIABLES
  state,   \* what has become of each voucher
  used     \* who has used which

Init == state = [v \in Vouchers |-> "fresh"] /\ used = {}

Issue(batch) ==
  /\ \A v \in batch : state[v] = "fresh"
  /\ state' = [v \in Vouchers |-> IF v \in batch THEN "live" ELSE state[v]]
  /\ UNCHANGED used

Use(v, g) ==
  /\ state[v] = "live"
  /\ \A w \in Vouchers : <<w, g>> \notin used
  /\ state' = [state EXCEPT ![v] = "used"]
  /\ used' = used \cup {<<v, g>>}

MakeVoid(v) ==
  /\ state[v] = "live"
  /\ state' = [state EXCEPT ![v] = "void"]
  /\ UNCHANGED used

Next ==
  \/ \E batch \in SUBSET Vouchers : Issue(batch)
  \/ \E v \in Vouchers : MakeVoid(v) \/ (\E g \in Guests : Use(v, g))

Spec == Init /\ [][Next]_<<state, used>>

================================================================================
