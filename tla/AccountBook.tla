------------------------------ MODULE AccountBook ------------------------------
(***************************************************************************)
(* What the wallet promises, without requests, transactions or retries:    *)
(* customers hold funds that are never negative, and funds move only by    *)
(* booking something new.  A payment is deposited at most once, a bill is  *)
(* charged at most once, every correction is an entry of its own, and one  *)
(* booking moves the funds of one customer.                                *)
(***************************************************************************)
EXTENDS Integers

CONSTANTS Customers, Deposits, Charges, Corrections, Fee

VARIABLES funds, booked

Init == funds = [c \in Customers |-> 0] /\ booked = {}

\* Only c's funds change, and they stay non-negative.
Move(c) ==
  /\ funds'[c] \in Nat
  /\ funds' = [funds EXCEPT ![c] = funds'[c]]

\* e is booked for the first time and only e is booked.
Book(e) ==
  /\ e \notin booked
  /\ booked' = booked \cup {e}

Deposit(c, d) == Book(d) /\ Move(c) /\ funds'[c] > funds[c]

Charge(c, b) == Book(b) /\ Move(c) /\ funds'[c] = funds[c] - Fee

Correct(c, e) == Book(e) /\ Move(c)

Next ==
  \E c \in Customers :
    \/ \E d \in Deposits : Deposit(c, d)
    \/ \E b \in Charges : Charge(c, b)
    \/ \E e \in {x \in booked' : x \in Corrections} : Correct(c, e)

Spec == Init /\ [][Next]_<<funds, booked>>

================================================================================
