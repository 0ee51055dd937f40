---------------------------- MODULE MCWalletLedger -----------------------------
(***************************************************************************)
(* Instances of WalletLedger for TLC.  Amounts are in half cents: a top-up *)
(* of 40 nets 19 cents, and a top-up of 1 (half a cent) nets nothing.      *)
(***************************************************************************)
EXTENDS WalletLedger, TLC

MCTopups == {40, 1}
OneTopup == {40}
NoAmounts == {}

\* A credit that just covers two fees.
MCTwoFees == {60}

\* With fractions: half a cent up and down, one and a half cents up.
MCFractions == {1, -1, 3}

\* Customers, calls and refs of a kind are interchangeable.
SettleSymmetry ==
  Permutations(Customers) \cup Permutations(TopupRefs) \cup Permutations(Calls)

================================================================================
