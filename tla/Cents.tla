--------------------------------- MODULE Cents ---------------------------------
(***************************************************************************)
(* The money arithmetic of FIHOS.  Every amount the API receives is a      *)
(* float64; every amount the database keeps is NUMERIC(12,2), so a stored  *)
(* value is a whole number of cents and storing rounds.                    *)
(*                                                                         *)
(* A request's amount is counted here in HALF cents: a half cent is the    *)
(* one fraction on which rounding is a question at all, every other        *)
(* fraction rounds like the whole cent it is nearest to.                   *)
(***************************************************************************)
EXTENDS Integers

\* What Postgres stores for h half cents: the nearest cent, a tie away from 0.
Cents(h) == IF h >= 0 THEN (h + 1) \div 2 ELSE -((1 - h) \div 2)

\* What it stores for a sum of h half cents that Go computed in float64: a
\* tie has usually become a neighbour of the tie, on either side.
FloatCents(h) == IF h % 2 = 0 THEN {h \div 2} ELSE {h \div 2, h \div 2 + 1}

\* The net amount kept for a gross amount of h half cents: 97% of it (feeRate
\* is fixed at 0.03), stored to the nearest cent.
NetCents(h) == (97 * h + 100) \div 200

================================================================================
