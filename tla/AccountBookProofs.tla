--------------------------- MODULE AccountBookProofs ---------------------------
(***************************************************************************)
(* The ledger as a statement of account and its sum, the windows paid at   *)
(* the counter, that WalletLedger implements AccountBook, and when Settle  *)
(* keeps what it says: what follows from the invariant of                  *)
(* WalletLedgerProofs, for all values of the constants.                    *)
(***************************************************************************)
EXTENDS WalletLedgerProofs, FiniteSetTheorems

-------------------------------------------------------------------------------
(* The only steps that touch a wallet.                                        *)

Adjusted == \E c \in Customers, half \in AdjustAmounts : Book(c, "adjustment", half, NoRef)

Credited ==
  \E c \in Customers, r \in TopupRefs, net \in Nat \ {0} :
    Unbooked(PaymentRef(r)) /\ Book(c, "topup", 2 * net, PaymentRef(r))

Charged ==
  \E w \in Windows :
    /\ window[w].status = "issued" /\ Unbooked(WindowRef(w))
    /\ Book(w[1], "bill_payment", -2 * MonthlyFee, WindowRef(w))

LEMMA WalletSteps == IInv /\ [Next]_vars => UNCHANGED walletVars \/ Adjusted \/ Credited \/ Charged
<1> SUFFICES ASSUME IInv, [Next]_vars
             PROVE  UNCHANGED walletVars \/ Adjusted \/ Credited \/ Charged
  OBVIOUS
<1>1. ASSUME NEW k \in Calls, SettleCredit(k)
      PROVE  UNCHANGED walletVars \/ Credited
  <2>1. PICK r \in TopupRefs : r = call[k].ref /\ payment[r].status = "succeeded" /\ Unbooked(PaymentRef(r))
    BY <1>1 DEF SettleCredit, IInv, CreditOwed, Unbooked
  <2>2. payment[r].customer \in Customers /\ payment[r].net \in Nat
    BY <2>1 DEF IInv, OwnersInv, TypeOK, Payments, Refs
  <2> QED  BY <1>1, <2>1, <2>2 DEF SettleCredit, Credited
<1>2. ASSUME NEW w \in Windows, PayFromWallet(w)
      PROVE  Charged
  <2>1. window[w].status = "issued"
    BY <1>2 DEF PayFromWallet, IInv, TypeOK, WindowRecords
  <2> QED  BY <1>2, <2>1, UnpaidUnbooked DEF PayFromWallet, Charged
<1>3. CASE UNCHANGED vars
  BY <1>3 DEF vars, walletVars
<1>4. CASE WalletNext
  BY <1>4 DEF WalletNext, AdjustWallet, Adjusted
<1>5. CASE PaymentNext
  BY <1>1, <1>5 DEF PaymentNext, PostCustomerTopup, ChargeVoucher, PostPaymentComplete,
     SettleRead, SettleMark, SettleAborted
<1>6. CASE BillingNext
  BY <1>2, <1>6 DEF BillingNext, PatchCustomerStatus, NextMonth, GenerateRead, GenerateInsert,
     PayManually
<1> QED  BY <1>3, <1>4, <1>5, <1>6 DEF Next

\* A booking of a whole number of cents.
LEMMA WholeBooking ==
  ASSUME TypeOK, NEW c \in Customers, NEW type \in EntryTypes, NEW half \in Int, half % 2 = 0,
         NEW ref \in EntryRefs, Book(c, type, half, ref)
  PROVE  /\ balance' = [balance EXCEPT ![c] = balance[c] + half \div 2]
         /\ \E e \in Entries :
              /\ e.type = type /\ e.ref = ref
              /\ e.amount = half \div 2 /\ e.after = balance[c] + half \div 2
              /\ ledger' = [ledger EXCEPT ![c] = Append(ledger[c], e)]
<1>1. balance[c] \in Nat
  BY DEF TypeOK
<1>2. PICK n \in Int : n = half \div 2 /\ half = 2 * n
  OBVIOUS
<1>3. 2 * balance[c] + half = 2 * (balance[c] + n) /\ balance[c] + n \in Int
  BY <1>1, <1>2
<1>4. Cents(2 * balance[c] + half) = balance[c] + n /\ Cents(half) = n
  BY <1>2, <1>3, CentsWhole
<1>5. FloatCents(2 * balance[c] + half) = {balance[c] + n}
  BY <1>3, FloatCentsWhole
<1>6. balance' = [balance EXCEPT ![c] = balance[c] + n]
  BY <1>4 DEF Book
<1>7. PICK e \in Entries :
        /\ e.type = type /\ e.ref = ref /\ e.amount = Cents(half)
        /\ e.after \in FloatCents(2 * balance[c] + half)
        /\ ledger' = [ledger EXCEPT ![c] = Append(ledger[c], e)]
  BY BookRow
<1>8. e.amount = n /\ e.after = balance[c] + n
  BY <1>4, <1>5, <1>7
<1> QED  BY <1>2, <1>6, <1>7, <1>8

LEMMA RowsTyped ==
  /\ {"topup", "bill_payment", "adjustment"} \subseteq EntryTypes
  /\ \A r \in TopupRefs : PaymentRef(r) \in EntryRefs
  /\ \A w \in Windows : WindowRef(w) \in EntryRefs /\ w[1] \in Customers
  /\ NoRef \in EntryRefs
BY RefTypes DEF EntryTypes, Refs, Windows

-------------------------------------------------------------------------------
(* The statement of account.                                                  *)

Chained(c) ==
  /\ balance[c] = BalanceAfter(c, Len(ledger[c]))
  /\ \A i \in 1..Len(ledger[c]) :
       ledger[c][i].after = BalanceAfter(c, i - 1) + ledger[c][i].amount

LEMMA BookingChains ==
  ASSUME TypeOK, \A d \in Customers : Chained(d), NEW c \in Customers, NEW type \in EntryTypes,
         NEW half \in Int, half % 2 = 0, NEW ref \in EntryRefs, Book(c, type, half, ref)
  PROVE  \A d \in Customers : Chained(d)'
<1>0. PICK n \in Int : n = half \div 2
  OBVIOUS
<1>1. balance' = [balance EXCEPT ![c] = balance[c] + n]
  BY <1>0, WholeBooking
<1>2. PICK e \in Entries :
        /\ e.amount = n /\ e.after = balance[c] + n
        /\ ledger' = [ledger EXCEPT ![c] = Append(ledger[c], e)]
  BY <1>0, WholeBooking
<1>3. ASSUME NEW d \in Customers, d # c PROVE Chained(d)'
  BY <1>1, <1>2, <1>3 DEF Chained, BalanceAfter
<1>4. Chained(c)'
  <2>0. PICK rows : rows = ledger[c]
    OBVIOUS
  <2>1. rows \in Seq(Entries) /\ ledger'[c] = Append(rows, e) /\ balance'[c] = balance[c] + n
    BY <1>1, <1>2, <2>0 DEF TypeOK
  <2>2. Len(rows) \in Nat /\ Len(ledger'[c]) = Len(rows) + 1
    BY <2>1
  <2>3. /\ \A i \in 1..Len(rows) : ledger'[c][i] = rows[i]
        /\ ledger'[c][Len(rows) + 1] = e
    BY <2>1
  <2>4. \A i \in 0..Len(rows) : BalanceAfter(c, i)' = BalanceAfter(c, i)
    BY <2>0, <2>3 DEF BalanceAfter
  <2>5. balance'[c] = BalanceAfter(c, Len(rows) + 1)'
    BY <1>2, <2>1, <2>2, <2>3 DEF BalanceAfter
  <2>6. ASSUME NEW i \in 1..(Len(rows) + 1)
        PROVE  ledger'[c][i].after = BalanceAfter(c, i - 1)' + ledger'[c][i].amount
    <3>1. CASE i \in 1..Len(rows)
      <4>1. rows[i].after = BalanceAfter(c, i - 1) + rows[i].amount
        BY <2>0, <3>1 DEF Chained
      <4>2. i - 1 \in 0..Len(rows)
        BY <2>2, <3>1
      <4> QED  BY <2>3, <2>4, <3>1, <4>1, <4>2
    <3>2. CASE i = Len(rows) + 1
      <4>1. balance[c] = BalanceAfter(c, Len(rows)) /\ i - 1 = Len(rows) /\ i - 1 \in 0..Len(rows)
        BY <2>0, <2>2, <3>2 DEF Chained
      <4> QED  BY <1>2, <2>3, <2>4, <3>2, <4>1
    <3> QED  BY <2>2, <3>1, <3>2
  <2> QED  BY <2>2, <2>5, <2>6 DEF Chained
<1> QED  BY <1>3, <1>4

LEMMA ChainStep == IInv /\ LedgerChain /\ [Next]_vars => LedgerChain'
<1> SUFFICES ASSUME IInv, [Next]_vars, WholeCents, \A d \in Customers : Chained(d)
             PROVE  \A d \in Customers : Chained(d)'
  BY DEF LedgerChain, WholeCents, Chained
<1>0. TypeOK
  BY DEF IInv
<1>1. CASE UNCHANGED walletVars
  BY <1>1 DEF walletVars, Chained, BalanceAfter
<1>2. CASE Adjusted
  <2>1. PICK c \in Customers, half \in AdjustAmounts : Book(c, "adjustment", half, NoRef)
    BY <1>2 DEF Adjusted
  <2>2. half \in Int /\ half % 2 = 0
    BY AmountAssumption DEF WholeCents
  <2> QED  BY <1>0, <2>1, <2>2, BookingChains, RowsTyped
<1>3. CASE Credited
  <2>1. PICK c \in Customers, r \in TopupRefs, net \in Nat : Book(c, "topup", 2 * net, PaymentRef(r))
    BY <1>3 DEF Credited
  <2>2. 2 * net \in Int /\ (2 * net) % 2 = 0
    OBVIOUS
  <2> QED  BY <1>0, <2>1, <2>2, BookingChains, RowsTyped
<1>4. CASE Charged
  <2>1. PICK w \in Windows : Book(w[1], "bill_payment", -2 * MonthlyFee, WindowRef(w))
    BY <1>4 DEF Charged
  <2>2. -2 * MonthlyFee \in Int /\ (-2 * MonthlyFee) % 2 = 0
    BY AmountAssumption
  <2> QED  BY <1>0, <2>1, <2>2, BookingChains, RowsTyped
<1> QED  BY <1>1, <1>2, <1>3, <1>4, WalletSteps

LEMMA ChainInit == Init => LedgerChain
BY DEF Init, LedgerChain, BalanceAfter

\* While requests carry whole cents, balance_after of every row continues the
\* row before it and the last is the balance, for any number of concurrent
\* credits, debits and adjustments (lockAndApply).
THEOREM LedgerIsStatement == Spec => []LedgerChain
BY IInvInit, IInvNext, ChainInit, ChainStep, PTL DEF Spec

-------------------------------------------------------------------------------
(* Windows paid at the counter.                                               *)

\* A step that books a row for a window finds the window issued.
LEMMA DebitFindsIssued ==
  ASSUME IInv, [Next]_vars, NEW w \in Windows, Debited(w)', ~Debited(w)
  PROVE  window[w].status = "issued"
<1>0. TypeOK /\ ledger \in [Customers -> Seq(Entries)] /\ w[1] \in Customers
  BY RowsTyped DEF IInv, TypeOK
<1>1. ASSUME NEW c \in Customers, NEW e \in Entries,
             ledger' = [ledger EXCEPT ![c] = Append(ledger[c], e)]
      PROVE  e.ref = WindowRef(w)
  <2>1. PICK i \in 1..Len(ledger'[w[1]]) : ledger'[w[1]][i].ref = WindowRef(w)
    BY DEF Debited
  <2> QED  BY <1>0, <1>1, <2>1, AppendedRows DEF Debited
<1>2. ~UNCHANGED walletVars
  BY DEF walletVars, Debited
<1>3. ~Adjusted
  <2> SUFFICES ASSUME NEW c \in Customers, NEW half \in AdjustAmounts,
                      Book(c, "adjustment", half, NoRef)
               PROVE  FALSE
    BY DEF Adjusted
  <2>1. half \in Int
    BY AmountAssumption
  <2>2. PICK e \in Entries :
          e.ref = NoRef /\ ledger' = [ledger EXCEPT ![c] = Append(ledger[c], e)]
    BY <1>0, <2>1, BookRow, RowsTyped
  <2> QED  BY <1>1, <2>2, RefsDistinct
<1>4. ~Credited
  <2> SUFFICES ASSUME NEW c \in Customers, NEW r \in TopupRefs, NEW net \in Nat,
                      Book(c, "topup", 2 * net, PaymentRef(r))
               PROVE  FALSE
    BY DEF Credited
  <2>1. 2 * net \in Int /\ "topup" \in EntryTypes /\ PaymentRef(r) \in EntryRefs
    BY RowsTyped
  <2>2. PICK e \in Entries :
          e.ref = PaymentRef(r) /\ ledger' = [ledger EXCEPT ![c] = Append(ledger[c], e)]
    BY <1>0, <2>1, BookRow
  <2> QED  BY <1>1, <2>2, RefsDistinct
<1>5. CASE Charged
  <2>1. PICK v \in Windows : window[v].status = "issued"
                             /\ Book(v[1], "bill_payment", -2 * MonthlyFee, WindowRef(v))
    BY <1>5 DEF Charged
  <2>2. -2 * MonthlyFee \in Int /\ v[1] \in Customers
    BY AmountAssumption, RowsTyped
  <2>3. WindowRef(v) = WindowRef(w)
    BY <1>0, <1>1, <2>1, <2>2, BookRow, RowsTyped
  <2> QED  BY <2>1, <2>3, RefsDistinct
<1> QED  BY <1>2, <1>3, <1>4, <1>5, WalletSteps

\* A window settled at the counter is never debited from the wallet afterwards,
\* for any number of pay requests under way (DebitWalletForBillByWindow).
THEOREM PaidIsNotDebited == Spec => PaidWindowNotDebited
<1>1. IInv /\ [Next]_vars
        => [\A w \in Windows : Debited(w)' /\ ~Debited(w) => window[w].status = "issued"]_vars
  BY DebitFindsIssued
<1> QED  BY <1>1, IInvInit, IInvNext, PTL DEF Spec, PaidWindowNotDebited

-------------------------------------------------------------------------------
(* The refinement.                                                            *)

LEMMA BookedMeans ==
  \A x : x \in Booked <=> \E c \in Customers : \E i \in 1..Len(ledger[c]) : x = Booking(c, i)
BY DEF Booked

LEMMA BookedMeansThen ==
  \A x : x \in Booked' <=>
    \E c \in Customers : \E i \in 1..Len(ledger'[c]) :
      x = IF ledger'[c][i].ref = NoRef THEN <<"adjustment", c, i>> ELSE ledger'[c][i].ref
BY DEF Booked, Booking

\* Appending a row books one thing more.
LEMMA RowIsBooked ==
  ASSUME ledger \in [Customers -> Seq(Entries)], NEW c \in Customers, NEW e \in Entries,
         ledger' = [ledger EXCEPT ![c] = Append(ledger[c], e)],
         NEW x, x = IF e.ref = NoRef THEN <<"adjustment", c, Len(ledger[c]) + 1>> ELSE e.ref
  PROVE  Booked' = Booked \cup {x}
<1>1. ASSUME NEW y \in Booked' PROVE y \in Booked \cup {x}
  <2>0. PICK d \in Customers : \E i \in 1..Len(ledger'[d]) :
          y = IF ledger'[d][i].ref = NoRef THEN <<"adjustment", d, i>> ELSE ledger'[d][i].ref
    BY BookedMeansThen
  <2>1. PICK i \in 1..Len(ledger'[d]) :
          y = IF ledger'[d][i].ref = NoRef THEN <<"adjustment", d, i>> ELSE ledger'[d][i].ref
    BY <2>0
  <2>2. CASE i \in 1..Len(ledger[d]) /\ ledger'[d][i] = ledger[d][i]
    <3>1. y = Booking(d, i)
      BY <2>1, <2>2 DEF Booking
    <3> QED  BY <2>2, <3>1, BookedMeans
  <2>3. CASE d = c /\ i = Len(ledger[c]) + 1 /\ ledger'[d][i] = e
    BY <2>1, <2>3
  <2> QED  BY <2>2, <2>3, AppendedRows
<1>2. ASSUME NEW y \in Booked PROVE y \in Booked'
  <2>0. PICK d \in Customers : \E i \in 1..Len(ledger[d]) : y = Booking(d, i)
    BY BookedMeans
  <2>1. PICK i \in 1..Len(ledger[d]) : y = Booking(d, i)
    BY <2>0
  <2>2. ledger[d] \in Seq(Entries) /\ ledger'[d] = IF d = c THEN Append(ledger[d], e) ELSE ledger[d]
    OBVIOUS
  <2>3. i \in 1..Len(ledger'[d]) /\ ledger'[d][i] = ledger[d][i]
    BY <2>2
  <2> QED  BY <2>1, <2>3, BookedMeansThen DEF Booking
<1>3. x \in Booked'
  <2>1. ledger[c] \in Seq(Entries) /\ ledger'[c] = Append(ledger[c], e)
    OBVIOUS
  <2>2. Len(ledger[c]) + 1 \in 1..Len(ledger'[c]) /\ ledger'[c][Len(ledger[c]) + 1] = e
    BY <2>1
  <2> QED  BY <2>2, BookedMeansThen
<1> QED  BY <1>1, <1>2, <1>3

\* What is not booked: a ref that no row names, a row that is not there yet.
LEMMA NotBooked ==
  ASSUME TypeOK
  PROVE  /\ \A r : Unbooked(PaymentRef(r)) => PaymentRef(r) \notin Booked
         /\ \A w : Unbooked(WindowRef(w)) => WindowRef(w) \notin Booked
         /\ \A c \in Customers : <<"adjustment", c, Len(ledger[c]) + 1>> \notin Booked
<1>1. \A c, i, r : <<"adjustment", c, i>> # PaymentRef(r) /\ <<"adjustment", c, i>> # WindowRef(r)
  <2> TAKE c, i, r
  <2>1. <<"adjustment", c, i>>[1] = "adjustment" /\ PaymentRef(r)[1] = "payment"
        /\ WindowRef(r)[1] = "billing_window"
    BY DEF PaymentRef, WindowRef
  <2> QED  BY <2>1
<1>2. ASSUME NEW c \in Customers, NEW d \in Customers, NEW i \in 1..Len(ledger[d]),
             <<"adjustment", c, Len(ledger[c]) + 1>> = Booking(d, i)
      PROVE  FALSE
  <2>1. ledger[d][i].ref \in EntryRefs
    <3>1. ledger[d] \in Seq(Entries)
      BY DEF TypeOK
    <3>2. ledger[d][i] \in Entries
      BY <3>1
    <3> QED  BY <3>2 DEF Entries
  <2>2. CASE ledger[d][i].ref = NoRef
    <3>1. c = d /\ Len(ledger[c]) + 1 = i
      BY <1>2, <2>2 DEF Booking
    <3>2. Len(ledger[c]) \in Nat
      BY DEF TypeOK
    <3> QED  BY <3>1, <3>2
  <2>3. CASE ledger[d][i].ref # NoRef
    BY <1>1, <1>2, <2>1, <2>3 DEF Booking, EntryRefs
  <2> QED  BY <2>2, <2>3
<1>3. ASSUME NEW ref, ref # NoRef, Unbooked(ref), NEW d \in Customers, NEW i \in 1..Len(ledger[d]),
             ref = Booking(d, i)
      PROVE  ref = <<"adjustment", d, i>>
  BY <1>3 DEF Booking, Unbooked
<1> QED  BY <1>1, <1>2, <1>3, BookedMeans, RefsDistinct

LEMMA BookMoves ==
  ASSUME TypeOK, TypeOK', NEW c \in Customers, NEW type, NEW half, NEW ref, Book(c, type, half, ref)
  PROVE  Account!Move(c)
BY DEF Account!Move, Book, TypeOK

LEMMA AccountStep ==
  ASSUME IInv, IInv', [Next]_vars
  PROVE  Account!Next \/ UNCHANGED <<balance, Booked>>
<1>0. TypeOK /\ TypeOK' /\ ledger \in [Customers -> Seq(Entries)] /\ balance \in [Customers -> Nat]
  BY DEF IInv, TypeOK
<1>1. CASE UNCHANGED walletVars
  BY <1>1 DEF walletVars, Booked, Booking
<1>2. CASE Adjusted
  <2>1. PICK c \in Customers, half \in AdjustAmounts : Book(c, "adjustment", half, NoRef)
    BY <1>2 DEF Adjusted
  <2>2. half \in Int
    BY AmountAssumption
  <2>3. PICK e \in Entries :
          e.ref = NoRef /\ ledger' = [ledger EXCEPT ![c] = Append(ledger[c], e)]
    BY <1>0, <2>1, <2>2, BookRow, RowsTyped
  <2>4. PICK x : x = <<"adjustment", c, Len(ledger[c]) + 1>>
    OBVIOUS
  <2>5. Booked' = Booked \cup {x} /\ x \notin Booked
    BY <1>0, <2>3, <2>4, RowIsBooked, NotBooked
  <2>6. Account!Move(c)
    BY <1>0, <2>1, BookMoves
  <2>7. x \in {"adjustment"} \X Customers \X Nat
    <3>1. Len(ledger[c]) + 1 \in Nat
      BY <1>0
    <3> QED  BY <2>4, <3>1
  <2> QED  BY <2>5, <2>6, <2>7 DEF Account!Next, Account!Correct, Account!Book
<1>3. CASE Credited
  <2>1. PICK c \in Customers, r \in TopupRefs, net \in Nat \ {0} :
          Unbooked(PaymentRef(r)) /\ Book(c, "topup", 2 * net, PaymentRef(r))
    BY <1>3 DEF Credited
  <2>2. 2 * net \in Int /\ (2 * net) % 2 = 0 /\ (2 * net) \div 2 = net
    OBVIOUS
  <2>3. balance' = [balance EXCEPT ![c] = balance[c] + (2 * net) \div 2]
    BY <1>0, <2>1, <2>2, WholeBooking, RowsTyped
  <2>4. PICK e \in Entries :
          e.ref = PaymentRef(r) /\ ledger' = [ledger EXCEPT ![c] = Append(ledger[c], e)]
    BY <1>0, <2>1, <2>2, BookRow, RowsTyped
  <2>5. Booked' = Booked \cup {PaymentRef(r)} /\ PaymentRef(r) \notin Booked
    BY <1>0, <2>1, <2>4, RowIsBooked, NotBooked, RefsDistinct
  <2>6. Account!Move(c)
    BY <1>0, <2>1, BookMoves
  <2>7. balance'[c] > balance[c]
    BY <1>0, <2>2, <2>3
  <2> QED  BY <2>5, <2>6, <2>7 DEF Account!Next, Account!Deposit, Account!Book
<1>4. CASE Charged
  <2>1. PICK w \in Windows :
          Unbooked(WindowRef(w)) /\ Book(w[1], "bill_payment", -2 * MonthlyFee, WindowRef(w))
    BY <1>4 DEF Charged
  <2>2. /\ -2 * MonthlyFee \in Int /\ (-2 * MonthlyFee) % 2 = 0
        /\ (-2 * MonthlyFee) \div 2 = -MonthlyFee
    BY AmountAssumption
  <2>3. w[1] \in Customers /\ WindowRef(w) \in EntryRefs /\ "bill_payment" \in EntryTypes
    BY RowsTyped
  <2>4. balance' = [balance EXCEPT ![w[1]] = balance[w[1]] + (-2 * MonthlyFee) \div 2]
    BY <1>0, <2>1, <2>2, <2>3, WholeBooking, RowsTyped
  <2>5. PICK e \in Entries :
          e.ref = WindowRef(w) /\ ledger' = [ledger EXCEPT ![w[1]] = Append(ledger[w[1]], e)]
    BY <1>0, <2>1, <2>2, <2>3, BookRow
  <2>6. Booked' = Booked \cup {WindowRef(w)} /\ WindowRef(w) \notin Booked
    BY <1>0, <2>1, <2>3, <2>5, RowIsBooked, NotBooked, RefsDistinct
  <2>7. Account!Move(w[1])
    BY <1>0, <2>1, <2>3, BookMoves
  <2>8. balance'[w[1]] = balance[w[1]] - MonthlyFee
    BY <1>0, <2>2, <2>3, <2>4, AmountAssumption
  <2> QED  BY <2>3, <2>6, <2>7, <2>8 DEF Account!Next, Account!Charge, Account!Book
<1> QED  BY <1>1, <1>2, <1>3, <1>4, WalletSteps

LEMMA AccountInit == Init => Account!Init
<1> SUFFICES ASSUME Init PROVE Account!Init  OBVIOUS
<1>1. Booked = {}
  BY BookedMeans DEF Init
<1> QED  BY <1>1 DEF Init, Account!Init

\* The wallet implements AccountBook: whatever requests, webhooks and the worker
\* do, every change of a balance is one new booking, and every booking one
\* change, for all customers, amounts and calls.
THEOREM WalletKeepsAccount == Spec => ImplementsAccountBook
<1>1. IInv /\ IInv' /\ [Next]_vars => [Account!Next]_<<balance, Booked>>
  BY AccountStep
<1> QED  BY <1>1, AccountInit, IInvInit, IInvNext, PTL
         DEF Spec, ImplementsAccountBook, Account!Spec

-------------------------------------------------------------------------------
(* What the ledger adds up to.  LedgerSum is recursive; that its recursion has *)
(* one solution is an invariant too, since ledgers grow by a row at a time.    *)

Sums(f, rows) ==
  f = [n \in 0..Len(rows) |-> IF n = 0 THEN 0 ELSE f[n - 1] + rows[n].amount]

AddsUpTo(rows, t) == (\E f : Sums(f, rows)) /\ \A f : Sums(f, rows) => f[Len(rows)] = t

LEMMA EmptyAddsUp == AddsUpTo(<<>>, 0)
<1>1. Len(<<>>) = 0
  OBVIOUS
<1>2. Sums([n \in 0..0 |-> 0], <<>>)
  BY <1>1 DEF Sums
<1>3. ASSUME NEW f, Sums(f, <<>>) PROVE f[0] = 0
  BY <1>1, <1>3 DEF Sums
<1> QED  BY <1>1, <1>2, <1>3 DEF AddsUpTo

LEMMA AppendAddsUp ==
  ASSUME NEW rows \in Seq(Entries), NEW t, NEW e \in Entries, AddsUpTo(rows, t)
  PROVE  AddsUpTo(Append(rows, e), t + e.amount)
<1>1. PICK n \in Nat : n = Len(rows)
  OBVIOUS
<1>2. PICK more : more = Append(rows, e)
  OBVIOUS
<1>3. Len(more) = n + 1 /\ more[n + 1] = e /\ \A i \in 1..n : more[i] = rows[i]
  BY <1>1, <1>2
<1>4. PICK f : Sums(f, rows)
  BY DEF AddsUpTo
<1>5. Sums([i \in 0..(n + 1) |-> IF i = n + 1 THEN f[n] + e.amount ELSE f[i]], more)
  <2>1. PICK g : g = [i \in 0..(n + 1) |-> IF i = n + 1 THEN f[n] + e.amount ELSE f[i]]
    OBVIOUS
  <2>2. ASSUME NEW i \in 0..(n + 1)
        PROVE  g[i] = IF i = 0 THEN 0 ELSE g[i - 1] + more[i].amount
    <3>1. CASE i = n + 1
      BY <1>3, <2>1, <3>1
    <3>2. CASE i \in 1..n
      <4>1. f[i] = f[i - 1] + rows[i].amount
        BY <1>1, <1>4, <3>2 DEF Sums
      <4>2. g[i] = f[i] /\ g[i - 1] = f[i - 1]
        BY <2>1, <3>2
      <4> QED  BY <1>3, <3>2, <4>1, <4>2
    <3>3. CASE i = 0
      BY <1>1, <1>4, <2>1, <3>3 DEF Sums
    <3> QED  BY <3>1, <3>2, <3>3
  <2>3. g = [i \in 0..Len(more) |-> IF i = 0 THEN 0 ELSE g[i - 1] + more[i].amount]
    BY <1>3, <2>1, <2>2
  <2> QED  BY <2>1, <2>3 DEF Sums
<1>6. ASSUME NEW g, Sums(g, more) PROVE g[n + 1] = t + e.amount
  <2>0. \A i \in 0..(n + 1) : g[i] = IF i = 0 THEN 0 ELSE g[i - 1] + more[i].amount
    BY <1>3, <1>6 DEF Sums
  <2>1. PICK h : h = [i \in 0..n |-> g[i]]
    OBVIOUS
  <2>2. ASSUME NEW i \in 0..n
        PROVE  h[i] = IF i = 0 THEN 0 ELSE h[i - 1] + rows[i].amount
    BY <1>3, <2>0, <2>1
  <2>3. h = [i \in 0..Len(rows) |-> IF i = 0 THEN 0 ELSE h[i - 1] + rows[i].amount]
    BY <1>1, <2>1, <2>2
  <2>4. h[n] = t
    BY <1>1, <2>3 DEF Sums, AddsUpTo
  <2>5. g[n + 1] = g[n] + e.amount
    BY <1>3, <2>0
  <2> QED  BY <2>1, <2>4, <2>5
<1> QED  BY <1>2, <1>3, <1>5, <1>6 DEF AddsUpTo

LEMMA SumIs ==
  ASSUME NEW c \in Customers, NEW t, AddsUpTo(ledger[c], t)
  PROVE  LedgerSum(c) = t
<1>1. LedgerSum(c) = (CHOOSE f : Sums(f, ledger[c]))[Len(ledger[c])]
  BY DEF LedgerSum, Sums
<1>2. Sums(CHOOSE f : Sums(f, ledger[c]), ledger[c])
  BY DEF AddsUpTo
<1> QED  BY <1>1, <1>2 DEF AddsUpTo

\* Rounding the new balance and rounding the amount differ by less than a cent,
\* and to the customer's favour.
LEMMA RoundingGap ==
  ASSUME NEW b \in Nat, NEW half \in Int, 2 * b + half >= 0
  PROVE  /\ Cents(2 * b + half) - b - Cents(half) \in 0..1
         /\ half % 2 = 0 => Cents(2 * b + half) = b + Cents(half)
BY DEF Cents

-------------------------------------------------------------------------------
(* The balance and what the ledger adds up to.                                *)

Summed == \A c \in Customers : LedgerSum(c) \in Int /\ AddsUpTo(ledger[c], LedgerSum(c))

\* Summed of the next state, said of the next state's ledger.
LEMMA SummedNext ==
  ASSUME \A c \in Customers : LedgerSum(c)' \in Int /\ AddsUpTo(ledger'[c], LedgerSum(c)')
  PROVE  Summed'
<1> SUFFICES ASSUME NEW c \in Customers
             PROVE  LedgerSum(c)' \in Int /\ AddsUpTo(ledger[c], LedgerSum(c))'
  BY DEF Summed
<1> QED  BY DEF AddsUpTo, Sums

LEMMA SumGrows ==
  ASSUME TypeOK, Summed, NEW c \in Customers, NEW e \in Entries,
         ledger' = [ledger EXCEPT ![c] = Append(ledger[c], e)]
  PROVE  /\ Summed'
         /\ LedgerSum(c)' = LedgerSum(c) + e.amount
         /\ \A d \in Customers \ {c} : LedgerSum(d)' = LedgerSum(d)
<1>1. ledger[c] \in Seq(Entries) /\ e.amount \in Int /\ ledger'[c] = Append(ledger[c], e)
  BY DEF TypeOK, Entries
<1>2. AddsUpTo(ledger'[c], LedgerSum(c) + e.amount)
  BY <1>1, AppendAddsUp DEF Summed
<1>3. LedgerSum(c)' = LedgerSum(c) + e.amount
  <2>1. ASSUME NEW t, AddsUpTo(ledger'[c], t)
        PROVE  LedgerSum(c)' = t
    <3>1. LedgerSum(c)' = (CHOOSE f : Sums(f, ledger'[c]))[Len(ledger'[c])]
      BY DEF LedgerSum, Sums
    <3>2. Sums(CHOOSE f : Sums(f, ledger'[c]), ledger'[c])
      BY <2>1 DEF AddsUpTo
    <3> QED  BY <2>1, <3>1, <3>2 DEF AddsUpTo
  <2> QED  BY <1>2, <2>1
<1>4. \A d \in Customers \ {c} : ledger'[d] = ledger[d]
  BY DEF TypeOK
<1>5. \A d \in Customers \ {c} : LedgerSum(d)' = LedgerSum(d)
  BY <1>4 DEF LedgerSum
<1>6. \A d \in Customers : AddsUpTo(ledger'[d], LedgerSum(d)') /\ LedgerSum(d)' \in Int
  BY <1>1, <1>2, <1>3, <1>4, <1>5 DEF Summed
<1> QED  BY <1>3, <1>5, <1>6, SummedNext

\* A row more is an adjustment more or none more.
LEMMA AdjustsGrow ==
  ASSUME TypeOK, NEW c \in Customers, NEW e \in Entries,
         ledger' = [ledger EXCEPT ![c] = Append(ledger[c], e)]
  PROVE  /\ Cardinality(Adjusts(c)) \in Nat
         /\ Cardinality(Adjusts(c))' =
              Cardinality(Adjusts(c)) + (IF e.type = "adjustment" THEN 1 ELSE 0)
         /\ \A d \in Customers \ {c} : Cardinality(Adjusts(d))' = Cardinality(Adjusts(d))
<1>1. PICK n \in Nat : n = Len(ledger[c])
  BY DEF TypeOK
<1>2. /\ ledger'[c] = Append(ledger[c], e) /\ ledger[c] \in Seq(Entries)
      /\ \A d \in Customers \ {c} : ledger'[d] = ledger[d]
  BY DEF TypeOK
<1>3. /\ Len(ledger'[c]) = n + 1 /\ ledger'[c][n + 1] = e
      /\ \A i \in 1..n : ledger'[c][i] = ledger[c][i]
  BY <1>1, <1>2
<1>4. IsFiniteSet(Adjusts(c)) /\ n + 1 \notin Adjusts(c)
  <2>1. IsFiniteSet(1..n)
    BY FS_Interval
  <2>2. Adjusts(c) \subseteq 1..n
    BY <1>1 DEF Adjusts
  <2>3. n + 1 \notin 1..n
    OBVIOUS
  <2> QED  BY <2>1, <2>2, <2>3, FS_Subset
<1>5. Adjusts(c)' = IF e.type = "adjustment" THEN Adjusts(c) \cup {n + 1} ELSE Adjusts(c)
  BY <1>1, <1>3 DEF Adjusts
<1>6. Cardinality(Adjusts(c)) \in Nat
  BY <1>4, FS_CardinalityType
<1>7. Cardinality(Adjusts(c)') =
        Cardinality(Adjusts(c)) + (IF e.type = "adjustment" THEN 1 ELSE 0)
  <2>1. Cardinality(Adjusts(c) \cup {n + 1}) = Cardinality(Adjusts(c)) + 1
    BY <1>4, FS_AddElement
  <2> QED  BY <1>5, <1>6, <2>1
<1>8. \A d \in Customers \ {c} : Adjusts(d)' = Adjusts(d)
  BY <1>2 DEF Adjusts
<1> QED  BY <1>6, <1>7, <1>8

Covered(c) == balance[c] - LedgerSum(c) \in 0..Cardinality(Adjusts(c))

\* A booking that is no adjustment is of whole cents.
LEMMA BookingCovers ==
  ASSUME TypeOK, Summed, \A d \in Customers : Covered(d), NEW c \in Customers,
         NEW type \in EntryTypes, NEW half \in Int, type = "adjustment" \/ half % 2 = 0,
         NEW ref \in EntryRefs, Book(c, type, half, ref)
  PROVE  Summed' /\ \A d \in Customers : Covered(d)'
<1>1. PICK e \in Entries :
        /\ e.type = type /\ e.amount = Cents(half)
        /\ ledger' = [ledger EXCEPT ![c] = Append(ledger[c], e)]
  BY BookRow
<1>2. /\ balance[c] \in Nat /\ 2 * balance[c] + half >= 0
      /\ balance' = [balance EXCEPT ![c] = Cents(2 * balance[c] + half)]
  BY DEF TypeOK, Book, Covers
<1>3. /\ Summed' /\ LedgerSum(c)' = LedgerSum(c) + Cents(half)
      /\ \A d \in Customers \ {c} : LedgerSum(d)' = LedgerSum(d)
  BY <1>1, SumGrows
<1>4. /\ Cardinality(Adjusts(c)) \in Nat
      /\ Cardinality(Adjusts(c))' =
           Cardinality(Adjusts(c)) + (IF type = "adjustment" THEN 1 ELSE 0)
      /\ \A d \in Customers \ {c} : Cardinality(Adjusts(d))' = Cardinality(Adjusts(d))
  BY <1>1, AdjustsGrow
<1>5. Covered(c)'
  <2>1. /\ Cents(2 * balance[c] + half) - balance[c] - Cents(half) \in 0..1
        /\ half % 2 = 0 => Cents(2 * balance[c] + half) = balance[c] + Cents(half)
    BY <1>2, RoundingGap
  <2>2. /\ LedgerSum(c) \in Int /\ Cents(half) \in Int /\ Cents(2 * balance[c] + half) \in Int
        /\ balance[c] - LedgerSum(c) \in 0..Cardinality(Adjusts(c))
    BY <1>2, CentsType DEF Summed, Covered
  <2>3. balance'[c] = Cents(2 * balance[c] + half)
    BY <1>2 DEF TypeOK
  <2>4. Cents(2 * balance[c] + half) - (LedgerSum(c) + Cents(half))
          \in 0..(Cardinality(Adjusts(c)) + (IF type = "adjustment" THEN 1 ELSE 0))
    BY <1>2, <1>4, <2>1, <2>2
  <2> QED  BY <1>3, <1>4, <2>3, <2>4 DEF Covered
<1>6. \A d \in Customers \ {c} : Covered(d)'
  BY <1>2, <1>3, <1>4 DEF Covered
<1> QED  BY <1>3, <1>5, <1>6

CoverInv == Summed /\ BalanceCoversLedger

LEMMA CoverInit == Init => CoverInv
<1> SUFFICES ASSUME Init, NEW c \in Customers
             PROVE  /\ LedgerSum(c) \in Int /\ AddsUpTo(ledger[c], LedgerSum(c))
                    /\ balance[c] - LedgerSum(c) \in 0..Cardinality(Adjusts(c))
  BY DEF CoverInv, Summed, BalanceCoversLedger
<1>1. ledger[c] = <<>> /\ balance[c] = 0 /\ Adjusts(c) = {}
  BY DEF Init, Adjusts
<1>2. LedgerSum(c) = 0
  BY <1>1, EmptyAddsUp, SumIs
<1> QED  BY <1>1, <1>2, EmptyAddsUp, FS_EmptySet

LEMMA CoverStep == IInv /\ CoverInv /\ [Next]_vars => CoverInv'
<1> SUFFICES ASSUME IInv, Summed, \A d \in Customers : Covered(d), [Next]_vars
             PROVE  Summed' /\ \A d \in Customers : Covered(d)'
  BY DEF CoverInv, BalanceCoversLedger, Covered
<1>0. TypeOK
  BY DEF IInv
<1>1. CASE UNCHANGED walletVars
  <2>1. /\ balance' = balance /\ ledger' = ledger
        /\ \A d \in Customers : LedgerSum(d)' = LedgerSum(d) /\ Adjusts(d)' = Adjusts(d)
    BY <1>1 DEF walletVars, LedgerSum, Adjusts
  <2>2. Summed'
    <3>1. \A d \in Customers : LedgerSum(d)' \in Int /\ AddsUpTo(ledger'[d], LedgerSum(d)')
      BY <2>1 DEF Summed
    <3> QED  BY <3>1, SummedNext
  <2>3. \A d \in Customers : Covered(d)'
    BY <2>1 DEF Covered
  <2> QED  BY <2>2, <2>3
<1>2. CASE Adjusted
  <2>1. PICK c \in Customers, half \in AdjustAmounts : Book(c, "adjustment", half, NoRef)
    BY <1>2 DEF Adjusted
  <2>2. half \in Int
    BY AmountAssumption
  <2> QED  BY <1>0, <2>1, <2>2, BookingCovers, RowsTyped
<1>3. CASE Credited
  <2>1. PICK c \in Customers, r \in TopupRefs, net \in Nat : Book(c, "topup", 2 * net, PaymentRef(r))
    BY <1>3 DEF Credited
  <2>2. 2 * net \in Int /\ (2 * net) % 2 = 0
    OBVIOUS
  <2> QED  BY <1>0, <2>1, <2>2, BookingCovers, RowsTyped
<1>4. CASE Charged
  <2>1. PICK w \in Windows : Book(w[1], "bill_payment", -2 * MonthlyFee, WindowRef(w))
    BY <1>4 DEF Charged
  <2>2. -2 * MonthlyFee \in Int /\ (-2 * MonthlyFee) % 2 = 0
    BY AmountAssumption
  <2> QED  BY <1>0, <2>1, <2>2, BookingCovers, RowsTyped
<1> QED  BY <1>1, <1>2, <1>3, <1>4, WalletSteps

\* With any fractions of a cent in requests, and in any interleaving: a balance
\* never falls below the sum of the customer's ledger rows, and exceeds it by less
\* than a cent for each adjustment (lockAndApply rounds balance and row apart).
THEOREM BalanceCoversRows == Spec => []BalanceCoversLedger
<1>1. CoverInv => BalanceCoversLedger
  BY DEF CoverInv
<1> QED  BY <1>1, IInvInit, IInvNext, CoverInit, CoverStep, PTL DEF Spec

\* The sum of a customer's rows is the balance.
Exact(c) == balance[c] = LedgerSum(c)

LedgerAddsUp == WholeCents => \A c \in Customers : Exact(c)

LEMMA BookingExact ==
  ASSUME TypeOK, Summed, NEW c \in Customers, Exact(c), NEW type \in EntryTypes,
         NEW half \in Int, half % 2 = 0, NEW ref \in EntryRefs, Book(c, type, half, ref)
  PROVE  Exact(c)' /\ \A d \in Customers \ {c} : Exact(d) => Exact(d)'
<1>1. PICK e \in Entries :
        /\ e.type = type /\ e.amount = Cents(half)
        /\ ledger' = [ledger EXCEPT ![c] = Append(ledger[c], e)]
  BY BookRow
<1>2. /\ balance[c] \in Nat /\ 2 * balance[c] + half >= 0
      /\ balance' = [balance EXCEPT ![c] = Cents(2 * balance[c] + half)]
  BY DEF TypeOK, Book, Covers
<1>3. /\ LedgerSum(c)' = LedgerSum(c) + Cents(half)
      /\ \A d \in Customers \ {c} : LedgerSum(d)' = LedgerSum(d)
  BY <1>1, SumGrows
<1>4. balance'[c] = balance[c] + Cents(half) /\ \A d \in Customers \ {c} : balance'[d] = balance[d]
  BY <1>2, RoundingGap DEF TypeOK
<1> QED  BY <1>3, <1>4 DEF Exact

LEMMA AddsUpStep == IInv /\ Summed /\ LedgerAddsUp /\ [Next]_vars => LedgerAddsUp'
<1> SUFFICES ASSUME IInv, Summed, [Next]_vars, WholeCents, \A d \in Customers : Exact(d)
             PROVE  \A d \in Customers : Exact(d)'
  BY DEF LedgerAddsUp, WholeCents
<1>0. TypeOK
  BY DEF IInv
<1>1. CASE UNCHANGED walletVars
  BY <1>1 DEF walletVars, LedgerSum, Exact
<1>2. CASE Adjusted
  <2>1. PICK c \in Customers, half \in AdjustAmounts : Book(c, "adjustment", half, NoRef)
    BY <1>2 DEF Adjusted
  <2>2. half \in Int /\ half % 2 = 0
    BY AmountAssumption DEF WholeCents
  <2> QED  BY <1>0, <2>1, <2>2, BookingExact, RowsTyped
<1>3. CASE Credited
  <2>1. PICK c \in Customers, r \in TopupRefs, net \in Nat : Book(c, "topup", 2 * net, PaymentRef(r))
    BY <1>3 DEF Credited
  <2>2. 2 * net \in Int /\ (2 * net) % 2 = 0
    OBVIOUS
  <2> QED  BY <1>0, <2>1, <2>2, BookingExact, RowsTyped
<1>4. CASE Charged
  <2>1. PICK w \in Windows : Book(w[1], "bill_payment", -2 * MonthlyFee, WindowRef(w))
    BY <1>4 DEF Charged
  <2>2. -2 * MonthlyFee \in Int /\ (-2 * MonthlyFee) % 2 = 0
    BY AmountAssumption
  <2> QED  BY <1>0, <2>1, <2>2, BookingExact, RowsTyped
<1> QED  BY <1>1, <1>2, <1>3, <1>4, WalletSteps

\* Whole cents in requests, which is what the dashboard sends: a customer's rows
\* in wallet_transactions add up to customers.balance, whatever settles, pays and
\* adjusts at the same time.
THEOREM BalanceIsSum == Spec => []LedgerAddsUp
<1>1. Init => LedgerAddsUp
  <2> SUFFICES ASSUME Init, NEW c \in Customers PROVE Exact(c)
    BY DEF LedgerAddsUp
  <2>1. ledger[c] = <<>> /\ balance[c] = 0
    BY DEF Init
  <2> QED  BY <2>1, EmptyAddsUp, SumIs DEF Exact
<1>2. CoverInv => Summed
  BY DEF CoverInv
<1> QED  BY <1>1, <1>2, IInvInit, IInvNext, CoverInit, CoverStep, AddsUpStep, PTL DEF Spec

-------------------------------------------------------------------------------
(* What Settle's comment says, and when it is so.                             *)

LEMMA BookedCredit == ASSUME NEW r, CreditBooked(r) PROVE PaymentRef(r) \in Booked
<1>1. PICK c \in Customers : \E i \in 1..Len(ledger[c]) : ledger[c][i].ref = PaymentRef(r)
  BY DEF CreditBooked
<1>2. PICK i \in 1..Len(ledger[c]) : ledger[c][i].ref = PaymentRef(r)
  BY <1>1
<1>3. PaymentRef(r) = Booking(c, i)
  BY <1>2, RefsDistinct DEF Booking
<1> QED  BY <1>3, BookedMeans

NoneStranded == \A r \in TopupRefs : ~Stranded(r)

\* "Wallet top-ups also credit the customer balance": every settled top-up that is
\* no longer being settled has been credited, if no execution of Settle is cut off
\* between its two statements (and no top-up is too small to net anything).
THEOREM SettledIsCreditedUnlessCutOff == Spec /\ CreditsFollowMarks => []SettledIsCredited
<1>1. Init => NoneStranded
  BY DEF Init, NoneStranded, Stranded, Refs
<1>2. ASSUME IInv, NoneStranded, [Next]_vars,
             [\A k \in Calls, r \in TopupRefs :
                Crediting(k, r) => ~SettleAborted(k) /\ payment[r].net > 0]_vars
      PROVE  NoneStranded'
  <2> SUFFICES ASSUME NEW r \in TopupRefs PROVE ~Stranded(r)'
    BY DEF NoneStranded
  <2>1. Strands(r) /\ ~Stranded(r)
    BY <1>2, StrandStep DEF NoneStranded
  <2>2. CASE UNCHANGED vars
    BY <2>1, <2>2 DEF vars, Stranded, Crediting, CreditBooked
  <2>3. CASE \A k \in Calls : Crediting(k, r) => ~SettleAborted(k) /\ payment[r].net > 0
    BY <2>1, <2>3 DEF Strands
  <2> QED  BY <1>2, <2>2, <2>3
<1>3. IInv /\ NoneStranded => SettledIsCredited
  <2> SUFFICES ASSUME IInv, NoneStranded, NEW r \in TopupRefs, payment[r].status = "succeeded",
                      \A k \in Calls : call[k].ref # r
               PROVE  PaymentRef(r) \in Booked
    BY DEF SettledIsCredited
  <2>1. \A k \in Calls : ~Crediting(k, r)
    BY DEF Crediting
  <2> QED  BY <2>1, BookedCredit DEF NoneStranded, Stranded
<1> QED  BY IInvInit, IInvNext, <1>1, <1>2, <1>3, PTL DEF Spec, CreditsFollowMarks

================================================================================
