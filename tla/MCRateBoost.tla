------------------------------ MODULE MCRateBoost ------------------------------
(***************************************************************************)
(* Instances of RateBoost for TLC: the configurations MCBoost*.cfg.        *)
(***************************************************************************)
EXTENDS RateBoost

\* Windows that double and that triple the rate.
OneBoost == [w \in Windows |-> 2]
TwoBoosts == [w \in Windows |-> w + 1]

================================================================================
