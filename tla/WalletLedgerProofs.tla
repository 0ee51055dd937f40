-------------------------- MODULE WalletLedgerProofs ---------------------------
(***************************************************************************)
(* Proofs about WalletLedger, for every set of customers, payments, calls  *)
(* and generators, every amount, fee and bound, and both providers.        *)
(***************************************************************************)
EXTENDS WalletLedger, TLAPS

\* Rounding keeps an amount that is not negative so, and is exact on whole cents.
LEMMA CentsType == ASSUME NEW h \in Int PROVE Cents(h) \in Int
  BY DEF Cents

LEMMA CentsNat == ASSUME NEW h \in Nat PROVE Cents(h) \in Nat
  BY DEF Cents

LEMMA CentsWhole == ASSUME NEW n \in Int PROVE Cents(2 * n) = n
  BY DEF Cents

LEMMA FloatCentsType == ASSUME NEW h \in Int PROVE FloatCents(h) \subseteq Int
  BY DEF FloatCents

LEMMA FloatCentsWhole == ASSUME NEW n \in Int PROVE FloatCents(2 * n) = {n}
  BY DEF FloatCents

LEMMA NetCentsNat == ASSUME NEW h \in Nat PROVE NetCents(h) \in Nat
  BY DEF NetCents

-------------------------------------------------------------------------------
(* What booking does to the wallet.                                        *)

LEMMA BookRow ==
  ASSUME TypeOK, NEW c \in Customers, NEW type \in EntryTypes, NEW half \in Int,
         NEW ref \in EntryRefs, Book(c, type, half, ref)
  PROVE  \E e \in Entries :
           /\ e.type = type /\ e.ref = ref /\ e.amount = Cents(half)
           /\ e.after \in FloatCents(2 * balance[c] + half)
           /\ ledger' = [ledger EXCEPT ![c] = Append(ledger[c], e)]
<1>1. balance[c] \in Nat
  BY DEF TypeOK
<1>2. PICK after \in FloatCents(2 * balance[c] + half) :
        ledger' = [ledger EXCEPT ![c] = Append(ledger[c],
          [type |-> type, amount |-> Cents(half), after |-> after, ref |-> ref])]
  BY DEF Book, TypeOK
<1>3. after \in Int
  BY <1>1, FloatCentsType
<1>4. [type |-> type, amount |-> Cents(half), after |-> after, ref |-> ref] \in Entries
  BY <1>3, CentsType DEF Entries
<1>5. QED
  BY <1>2, <1>4

LEMMA BookType ==
  ASSUME TypeOK, NEW c, NEW type \in EntryTypes, NEW half \in Int,
         NEW ref \in EntryRefs, Book(c, type, half, ref)
  PROVE  balance' \in [Customers -> Nat] /\ ledger' \in [Customers -> Seq(Entries)]
<1>1. CASE c \in Customers
  <2>1. 2 * balance[c] + half \in Nat
    BY <1>1 DEF TypeOK, Book, Covers
  <2>2. balance' \in [Customers -> Nat]
    BY <2>1, CentsNat DEF TypeOK, Book
  <2>3. ledger' \in [Customers -> Seq(Entries)]
    <3>1. PICK e \in Entries : ledger' = [ledger EXCEPT ![c] = Append(ledger[c], e)]
      BY <1>1, BookRow
    <3>2. QED
      BY <1>1, <3>1 DEF TypeOK
  <2>4. QED
    BY <2>2, <2>3
<1>2. CASE c \notin Customers
  BY <1>2 DEF TypeOK, Book
<1>3. QED
  BY <1>1, <1>2

-------------------------------------------------------------------------------
(* Type correctness.                                                       *)

LEMMA RefTypes ==
  /\ NoRef \in EntryRefs
  /\ \A r \in Refs : PaymentRef(r) \in EntryRefs
  /\ \A w \in Windows : WindowRef(w) \in EntryRefs
BY DEF EntryRefs

LEMMA MarkedPaidType ==
  ASSUME TypeOK, NEW w \in Windows
  PROVE  MarkedPaid(w) \in [Windows -> WindowRecords]
BY DEF TypeOK, MarkedPaid, WindowRecords

LEMMA TypeInit == Init => TypeOK
<1> SUFFICES ASSUME Init PROVE TypeOK
  OBVIOUS
<1>1. month \in Months /\ 1 \in Months
  BY BoundAssumption DEF Init, Months
<1>2. ledger \in [Customers -> Seq(Entries)]
  BY DEF Init
<1>3. call \in [Calls -> CallRecords]
  BY DEF Init, CallRecords, Idle
<1>4. payment \in [Refs -> Payments]
  BY DEF Init, Payments, PaymentStatuses
<1>5. window \in [Windows -> WindowRecords]
  BY DEF Init, WindowRecords
<1>6. generator \in [Generators -> GeneratorRecords]
  BY <1>1 DEF Init, GeneratorRecords
<1>7. balance \in [Customers -> Nat] /\ status \in [Customers -> Statuses]
  BY DEF Init
<1>8. QED
  BY <1>1, <1>2, <1>3, <1>4, <1>5, <1>6, <1>7 DEF TypeOK

LEMMA TypeNext == TypeOK /\ [Next]_vars => TypeOK'
<1> SUFFICES ASSUME TypeOK, [Next]_vars PROVE TypeOK'
  OBVIOUS
<1> USE DEF walletVars, paymentVars, billingVars
<1>1. ASSUME NEW c \in Customers, NEW half \in AdjustAmounts, AdjustWallet(c, half)
      PROVE  TypeOK'
  <2>1. half \in Int /\ "adjustment" \in EntryTypes
    BY AmountAssumption DEF EntryTypes
  <2>2. balance' \in [Customers -> Nat] /\ ledger' \in [Customers -> Seq(Entries)]
    BY <1>1, <2>1, BookType, RefTypes DEF AdjustWallet
  <2>3. QED
    BY <1>1, <2>2 DEF AdjustWallet, TypeOK
<1>2. ASSUME NEW c \in Customers, NEW r \in TopupRefs, NEW half \in TopupAmounts,
             NEW k \in Calls, PostCustomerTopup(c, r, half, k)
      PROVE  TypeOK'
  <2>1. NetCents(half) \in Nat
    BY AmountAssumption, NetCentsNat
  <2>2. payment' \in [Refs -> Payments]
    BY <1>2, <2>1 DEF PostCustomerTopup, TypeOK, Payments, PaymentStatuses
  <2>3. call' \in [Calls -> CallRecords]
    BY <1>2 DEF PostCustomerTopup, TypeOK, CallRecords, Refs
  <2>4. QED
    BY <1>2, <2>2, <2>3 DEF PostCustomerTopup, TypeOK
<1>3. ASSUME NEW r \in VoucherRefs, NEW half \in TopupAmounts, NEW k \in Calls,
             ChargeVoucher(r, half, k)
      PROVE  TypeOK'
  <2>1. NetCents(half) \in Nat
    BY AmountAssumption, NetCentsNat
  <2>2. payment' \in [Refs -> Payments]
    BY <1>3, <2>1 DEF ChargeVoucher, TypeOK, Payments, PaymentStatuses
  <2>3. call' \in [Calls -> CallRecords]
    BY <1>3 DEF ChargeVoucher, TypeOK, CallRecords, Refs
  <2>4. QED
    BY <1>3, <2>2, <2>3 DEF ChargeVoucher, TypeOK
<1>4. ASSUME NEW r \in Refs, NEW k \in Calls, PostPaymentComplete(r, k)
      PROVE  TypeOK'
  <2>1. call' \in [Calls -> CallRecords]
    BY <1>4 DEF PostPaymentComplete, TypeOK, CallRecords
  <2>2. QED
    BY <1>4, <2>1 DEF PostPaymentComplete, TypeOK
<1>5. ASSUME NEW k \in Calls, SettleRead(k)
      PROVE  TypeOK'
  <2>1. call[k].ref \in Refs /\ call[k].pc = "read"
    BY <1>5 DEF SettleRead, TypeOK, CallRecords
  <2>2. call' \in [Calls -> CallRecords]
    BY <1>5, <2>1 DEF SettleRead, TypeOK, CallRecords, Idle
  <2>3. QED
    BY <1>5, <2>2 DEF SettleRead, TypeOK
<1>6. ASSUME NEW k \in Calls, SettleMark(k)
      PROVE  TypeOK'
  <2>1. call[k].ref \in Refs
    BY <1>6 DEF SettleMark, TypeOK, CallRecords
  <2> DEFINE r == call[k].ref
  <2>2. CASE payment[r].status = "pending"
    <3>1. payment' = [payment EXCEPT ![r].status = "succeeded"]
      BY <1>6, <2>2 DEF SettleMark
    <3>2. payment' \in [Refs -> Payments]
      BY <2>1, <3>1 DEF TypeOK, Payments, PaymentStatuses
    <3>3. call' = [call EXCEPT ![k] =
             IF r \in TopupRefs THEN [call[k] EXCEPT !.pc = "credit"] ELSE Idle]
      BY <1>6, <2>2 DEF SettleMark
    <3>4. [call[k] EXCEPT !.pc = "credit"] \in CallRecords
      BY <1>6, <2>1 DEF SettleMark, TypeOK, CallRecords
    <3>5. call' \in [Calls -> CallRecords]
      BY <3>3, <3>4 DEF TypeOK, CallRecords, Idle
    <3>6. QED
      BY <1>6, <3>2, <3>5 DEF SettleMark, TypeOK
  <2>3. CASE payment[r].status # "pending"
    <3>1. UNCHANGED payment /\ call' = [call EXCEPT ![k] = Idle]
      BY <1>6, <2>3 DEF SettleMark
    <3>2. QED
      BY <1>6, <3>1 DEF SettleMark, TypeOK, CallRecords, Idle
  <2>4. QED
    BY <2>2, <2>3
<1>7. ASSUME NEW k \in Calls, SettleCredit(k)
      PROVE  TypeOK'
  <2>1. call[k].ref \in Refs
    BY <1>7 DEF SettleCredit, TypeOK, CallRecords
  <2>2. 2 * payment[call[k].ref].net \in Int /\ "topup" \in EntryTypes
    BY <2>1 DEF TypeOK, Payments, EntryTypes
  <2>3. balance' \in [Customers -> Nat] /\ ledger' \in [Customers -> Seq(Entries)]
    <3>1. CASE payment[call[k].ref].net > 0
      BY <1>7, <2>1, <2>2, <3>1, BookType, RefTypes DEF SettleCredit
    <3>2. CASE ~(payment[call[k].ref].net > 0)
      BY <1>7, <3>2 DEF SettleCredit, TypeOK
    <3>3. QED
      BY <3>1, <3>2
  <2>4. call' \in [Calls -> CallRecords]
    BY <1>7 DEF SettleCredit, TypeOK, CallRecords, Idle
  <2>5. QED
    BY <1>7, <2>3, <2>4 DEF SettleCredit, TypeOK
<1>8. ASSUME NEW k \in Calls, SettleAborted(k)
      PROVE  TypeOK'
  <2>1. call' \in [Calls -> CallRecords]
    BY <1>8 DEF SettleAborted, TypeOK, CallRecords, Idle
  <2>2. QED
    BY <1>8, <2>1 DEF SettleAborted, TypeOK
<1>9. ASSUME NEW c \in Customers, NEW s \in Statuses, PatchCustomerStatus(c, s)
      PROVE  TypeOK'
  BY <1>9 DEF PatchCustomerStatus, TypeOK
<1>10. ASSUME NextMonth
       PROVE  TypeOK'
  BY <1>10, BoundAssumption DEF NextMonth, TypeOK, Months
<1>11. ASSUME NEW g \in Generators, GenerateRead(g)
       PROVE  TypeOK'
  <2>1. Unbilled(month) \in SUBSET Customers
    BY DEF Unbilled
  <2>2. generator' \in [Generators -> GeneratorRecords]
    BY <1>11, <2>1 DEF GenerateRead, TypeOK, GeneratorRecords
  <2>3. QED
    BY <1>11, <2>2 DEF GenerateRead, TypeOK
<1>12. ASSUME NEW g \in Generators, GenerateInsert(g)
       PROVE  TypeOK'
  <2>1. window' \in [Windows -> WindowRecords]
    BY <1>12 DEF GenerateInsert, TypeOK, WindowRecords
  <2>2. generator' \in [Generators -> GeneratorRecords]
    BY <1>12 DEF GenerateInsert, TypeOK, GeneratorRecords
  <2>3. QED
    BY <1>12, <2>1, <2>2 DEF GenerateInsert, TypeOK
<1>13. ASSUME NEW w \in Windows, PayFromWallet(w)
       PROVE  TypeOK'
  <2>1. -2 * MonthlyFee \in Int /\ "bill_payment" \in EntryTypes
    BY AmountAssumption DEF EntryTypes
  <2>2. balance' \in [Customers -> Nat] /\ ledger' \in [Customers -> Seq(Entries)]
    BY <1>13, <2>1, BookType, RefTypes DEF PayFromWallet
  <2>3. QED
    BY <1>13, <2>2, MarkedPaidType DEF PayFromWallet, TypeOK
<1>14. ASSUME NEW w \in Windows, PayManually(w)
       PROVE  TypeOK'
  BY <1>14, MarkedPaidType DEF PayManually, TypeOK
<1>15. CASE UNCHANGED vars
  BY <1>15 DEF vars, TypeOK
<1>16. QED
  BY <1>1, <1>2, <1>3, <1>4, <1>5, <1>6, <1>7, <1>8, <1>9, <1>10, <1>11, <1>12,
     <1>13, <1>14, <1>15 DEF Next, WalletNext, PaymentNext, BillingNext

\* Every state of every run is well typed; in particular no balance is ever
\* negative (lockAndApply).
THEOREM TypeCorrect == Spec => []TypeOK
<1>1. QED
  BY TypeInit, TypeNext, PTL DEF Spec

-------------------------------------------------------------------------------
(* Bookings: nothing twice, nothing without a reason.                      *)

LEMMA RefsDistinct ==
  ASSUME NEW x, NEW y
  PROVE  /\ PaymentRef(x) = PaymentRef(y) => x = y
         /\ WindowRef(x) = WindowRef(y) => x = y
         /\ PaymentRef(x) # WindowRef(y)
         /\ PaymentRef(x) # NoRef
         /\ WindowRef(x) # NoRef
<1>1. PaymentRef(x)[1] = "payment" /\ PaymentRef(x)[2] = x /\ PaymentRef(y)[2] = y
  BY DEF PaymentRef
<1>2. WindowRef(y)[1] = "billing_window" /\ WindowRef(x)[1] = "billing_window"
      /\ WindowRef(x)[2] = x /\ WindowRef(y)[2] = y
  BY DEF WindowRef
<1>3. NoRef[1] = "none"
  BY DEF NoRef
<1>4. QED
  BY <1>1, <1>2, <1>3

\* A top-up payment has an owner as soon as it exists.
OwnersInv ==
  \A r \in TopupRefs : payment[r].status # "none" => payment[r].customer \in Customers

\* The inductive invariant: a payment can be credited because it is owned, is
\* credited once because one call owes the credit and no row names the payment
\* yet, and that is so because rows are backed by succeeded payments.
IInv == TypeOK /\ OwnersInv /\ CreditOwed /\ BookingsAreBacked /\ NoDoubleBooking

Unbooked(ref) ==
  \A c \in Customers : \A i \in 1..Len(ledger[c]) : ledger[c][i].ref # ref

LEMMA PendingUnbooked ==
  ASSUME IInv, NEW r \in TopupRefs, payment[r].status # "succeeded"
  PROVE  Unbooked(PaymentRef(r))
<1> SUFFICES ASSUME NEW c \in Customers, NEW i \in 1..Len(ledger[c]),
                    ledger[c][i].ref = PaymentRef(r)
             PROVE  FALSE
  BY DEF Unbooked
<1>1. Backed(c, ledger[c][i])
  BY DEF IInv, BookingsAreBacked
<1>2. \A w : PaymentRef(r) # WindowRef(w) /\ PaymentRef(r) # NoRef
  BY RefsDistinct
<1>3. PICK q \in TopupRefs :
        /\ ledger[c][i].ref = PaymentRef(q)
        /\ payment[q] = [status |-> "succeeded", customer |-> c, net |-> ledger[c][i].amount]
  BY <1>1, <1>2 DEF Backed
<1>4. q = r
  BY <1>3, RefsDistinct
<1>5. QED
  BY <1>3, <1>4

LEMMA UnpaidUnbooked ==
  ASSUME IInv, NEW w \in Windows, window[w].status # "paid"
  PROVE  Unbooked(WindowRef(w))
<1> SUFFICES ASSUME NEW c \in Customers, NEW i \in 1..Len(ledger[c]),
                    ledger[c][i].ref = WindowRef(w)
             PROVE  FALSE
  BY DEF Unbooked
<1>1. Backed(c, ledger[c][i])
  BY DEF IInv, BookingsAreBacked
<1>2. PICK m \in Months : WindowRef(w) = WindowRef(<<c, m>>) /\ window[<<c, m>>].status = "paid"
  BY <1>1, RefsDistinct DEF Backed
<1>3. QED
  BY <1>2, RefsDistinct

\* The rows of every ledger after one row was appended to c's.
LEMMA AppendedRows ==
  ASSUME ledger \in [Customers -> Seq(Entries)], NEW c \in Customers, NEW e \in Entries,
         ledger' = [ledger EXCEPT ![c] = Append(ledger[c], e)],
         NEW d \in Customers, NEW i \in 1..Len(ledger'[d])
  PROVE  \/ i \in 1..Len(ledger[d]) /\ ledger'[d][i] = ledger[d][i]
         \/ d = c /\ i = Len(ledger[c]) + 1 /\ ledger'[d][i] = e
<1>1. CASE d = c
  <2>1. ledger[c] \in Seq(Entries) /\ ledger'[d] = Append(ledger[c], e)
    BY <1>1
  <2>2. QED
    BY <1>1, <2>1
<1>2. CASE d # c
  BY <1>2
<1>3. QED
  BY <1>1, <1>2

\* Nothing that rows rest on is taken back.
Kept ==
  /\ \A r \in TopupRefs : payment[r].status = "succeeded" => payment'[r] = payment[r]
  /\ \A w \in Windows : window[w].status = "paid" => window'[w].status = "paid"

LEMMA BackedKept ==
  ASSUME Kept, NEW c \in Customers, NEW e \in Entries, Backed(c, e)
  PROVE  Backed(c, e)'
<1>1. CASE e.type = "topup"
  BY <1>1 DEF Backed, Kept
<1>2. CASE e.type = "bill_payment"
  BY <1>2 DEF Backed, Kept, Windows
<1>3. CASE e.type = "adjustment"
  BY <1>3 DEF Backed
<1>4. QED
  BY <1>1, <1>2, <1>3 DEF Backed

\* A step that books nothing.
LEMMA BooksNothing ==
  ASSUME IInv, Kept, UNCHANGED ledger
  PROVE  BookingsAreBacked' /\ NoDoubleBooking'
<1>1. BookingsAreBacked'
  <2> SUFFICES ASSUME NEW c \in Customers, NEW i \in 1..Len(ledger[c])
               PROVE  Backed(c, ledger[c][i])'
    BY DEF BookingsAreBacked
  <2>1. ledger[c][i] \in Entries /\ Backed(c, ledger[c][i])
    BY DEF IInv, TypeOK, BookingsAreBacked
  <2> DEFINE e == ledger[c][i]
  <2>2. Backed(c, e)'
    BY <2>1, BackedKept
  <2>3. QED
    BY <2>2 DEF Backed
<1>2. NoDoubleBooking'
  BY DEF IInv, NoDoubleBooking
<1>3. QED
  BY <1>1, <1>2

\* A step that books one new row.
LEMMA BooksRow ==
  ASSUME IInv, Kept, NEW c \in Customers, NEW e \in Entries,
         ledger' = [ledger EXCEPT ![c] = Append(ledger[c], e)],
         Backed(c, e)', e.ref = NoRef \/ Unbooked(e.ref)
  PROVE  BookingsAreBacked' /\ NoDoubleBooking'
<1>1. ledger \in [Customers -> Seq(Entries)]
  BY DEF IInv, TypeOK
<1>2. BookingsAreBacked'
  <2> SUFFICES ASSUME NEW d \in Customers, NEW i \in 1..Len(ledger'[d])
               PROVE  Backed(d, ledger[d][i])'
    BY DEF BookingsAreBacked
  <2>1. CASE i \in 1..Len(ledger[d]) /\ ledger'[d][i] = ledger[d][i]
    <3>1. ledger[d][i] \in Entries /\ Backed(d, ledger[d][i])
      BY <1>1, <2>1 DEF IInv, BookingsAreBacked
    <3>2. PICK x \in Entries : x = ledger[d][i]
      BY <3>1
    <3>3. Backed(d, x)'
      BY <3>1, <3>2, BackedKept
    <3>4. QED
      BY <2>1, <3>2, <3>3 DEF Backed
  <2>2. CASE d = c /\ ledger'[d][i] = e
    BY <2>2 DEF Backed
  <2>3. QED
    BY <1>1, <2>1, <2>2, AppendedRows
<1>3. NoDoubleBooking'
  <2> SUFFICES ASSUME NEW b \in Customers, NEW d \in Customers,
                      NEW i \in 1..Len(ledger'[b]), NEW j \in 1..Len(ledger'[d]),
                      ledger'[b][i].ref = ledger'[d][j].ref, ledger'[b][i].ref # NoRef
               PROVE  b = d /\ i = j
    BY DEF NoDoubleBooking
  <2>1. \/ i \in 1..Len(ledger[b]) /\ ledger'[b][i] = ledger[b][i]
        \/ b = c /\ i = Len(ledger[c]) + 1 /\ ledger'[b][i] = e
    BY <1>1, AppendedRows
  <2>2. \/ j \in 1..Len(ledger[d]) /\ ledger'[d][j] = ledger[d][j]
        \/ d = c /\ j = Len(ledger[c]) + 1 /\ ledger'[d][j] = e
    BY <1>1, AppendedRows
  <2>3. CASE i \in 1..Len(ledger[b]) /\ ledger'[b][i] = ledger[b][i]
             /\ j \in 1..Len(ledger[d]) /\ ledger'[d][j] = ledger[d][j]
    BY <2>3 DEF IInv, NoDoubleBooking
  <2>4. CASE i \in 1..Len(ledger[b]) /\ ledger'[b][i] = ledger[b][i] /\ ledger'[d][j] = e
    BY <2>4 DEF Unbooked
  <2>5. CASE j \in 1..Len(ledger[d]) /\ ledger'[d][j] = ledger[d][j] /\ ledger'[b][i] = e
    BY <2>5 DEF Unbooked
  <2>6. QED
    BY <2>1, <2>2, <2>3, <2>4, <2>5
<1>4. QED
  BY <1>2, <1>3

\* A credit that is owed stays owed while calls and payments stay as they are
\* and no row for it is booked.
LEMMA OwedKept ==
  ASSUME IInv, UNCHANGED <<payment, call>>,
         \/ UNCHANGED ledger
         \/ \E c \in Customers, e \in Entries :
              /\ ledger' = [ledger EXCEPT ![c] = Append(ledger[c], e)]
              /\ \A r : e.ref # PaymentRef(r)
  PROVE  CreditOwed' /\ OwnersInv'
<1>1. OwnersInv'
  BY DEF IInv, OwnersInv
<1>2. CASE UNCHANGED ledger
  BY <1>1, <1>2 DEF IInv, CreditOwed
<1>3. CASE \E c \in Customers, e \in Entries :
             /\ ledger' = [ledger EXCEPT ![c] = Append(ledger[c], e)]
             /\ \A r : e.ref # PaymentRef(r)
  <2>1. PICK c \in Customers, e \in Entries :
          /\ ledger' = [ledger EXCEPT ![c] = Append(ledger[c], e)]
          /\ \A r : e.ref # PaymentRef(r)
    BY <1>3
  <2> SUFFICES ASSUME NEW k \in Calls, call[k].pc = "credit",
                      NEW d \in Customers, NEW i \in 1..Len(ledger'[d])
               PROVE  ledger'[d][i].ref # PaymentRef(call[k].ref)
    BY <1>1 DEF IInv, CreditOwed
  <2>2. \/ i \in 1..Len(ledger[d]) /\ ledger'[d][i] = ledger[d][i]
        \/ ledger'[d][i] = e
    BY <2>1, AppendedRows DEF IInv, TypeOK
  <2>3. QED
    BY <2>1, <2>2 DEF IInv, CreditOwed
<1>4. QED
  BY <1>2, <1>3

LEMMA IInvInit == Init => IInv
<1> SUFFICES ASSUME Init PROVE IInv
  OBVIOUS
<1>1. \A c \in Customers : Len(ledger[c]) = 0
  BY DEF Init
<1>2. BookingsAreBacked /\ NoDoubleBooking
  BY <1>1 DEF BookingsAreBacked, NoDoubleBooking
<1>3. CreditOwed
  BY DEF Init, CreditOwed, Idle
<1>4. OwnersInv
  BY DEF Init, OwnersInv, Refs
<1>5. QED
  BY TypeInit, <1>2, <1>3, <1>4 DEF IInv

\* A billing window that is paid stays paid: the steps that change windows.
LEMMA WindowsKept ==
  ASSUME TypeOK, UNCHANGED payment, NEW w \in Windows, window' = MarkedPaid(w)
  PROVE  Kept /\ window'[w].status = "paid"
BY DEF TypeOK, Kept, MarkedPaid, WindowRecords

LEMMA InsertKept ==
  ASSUME TypeOK, NEW g \in Generators, GenerateInsert(g)
  PROVE  Kept
<1> DEFINE new == generator[g].targets \X {generator[g].period}
<1>1. UNCHANGED payment
  BY DEF GenerateInsert, paymentVars
<1>2. CASE \A w \in new : window[w].status = "none"
  <2>1. window' = [w \in Windows |->
          IF w \in new THEN [status |-> "issued", stamps |-> 0] ELSE window[w]]
    BY <1>2 DEF GenerateInsert
  <2>2. QED
    BY <1>1, <1>2, <2>1 DEF Kept
<1>3. CASE ~ \A w \in new : window[w].status = "none"
  BY <1>1, <1>3 DEF GenerateInsert, Kept
<1>4. QED
  BY <1>2, <1>3

LEMMA IInvNext == IInv /\ [Next]_vars => IInv'
<1> SUFFICES ASSUME IInv, [Next]_vars PROVE IInv'
  OBVIOUS
<1> USE DEF walletVars, paymentVars, billingVars
<1>t. TypeOK /\ TypeOK'
  BY TypeNext DEF IInv
<1>1. ASSUME NEW c \in Customers, NEW half \in AdjustAmounts, AdjustWallet(c, half)
      PROVE  IInv'
  <2>1. PICK e \in Entries :
          /\ e.type = "adjustment" /\ e.ref = NoRef
          /\ ledger' = [ledger EXCEPT ![c] = Append(ledger[c], e)]
    BY <1>1, <1>t, BookRow, RefTypes, AmountAssumption DEF AdjustWallet, EntryTypes
  <2>2. Kept /\ Backed(c, e)'
    BY <1>1, <2>1 DEF AdjustWallet, Kept, Backed
  <2>3. BookingsAreBacked' /\ NoDoubleBooking'
    BY <2>1, <2>2, BooksRow
  <2>4. CreditOwed' /\ OwnersInv'
    BY <1>1, <2>1, OwedKept, RefsDistinct DEF AdjustWallet
  <2>5. QED
    BY <1>t, <2>3, <2>4 DEF IInv
<1>2. ASSUME NEW r \in Refs, payment[r].status = "none", UNCHANGED <<walletVars, billingVars>>,
             NEW p \in Payments, p.status = "pending", payment' = [payment EXCEPT ![r] = p],
             r \in TopupRefs => p.customer \in Customers, NEW k \in Calls,
             call' = IF Synchronous THEN [call EXCEPT ![k] = [pc |-> "read", ref |-> r]]
                                    ELSE call
      PROVE  IInv'
  <2>1. Kept
    BY <1>2 DEF Kept, IInv, TypeOK
  <2>2. BookingsAreBacked' /\ NoDoubleBooking'
    BY <1>2, <2>1, BooksNothing
  <2>3. OwnersInv'
    BY <1>2 DEF IInv, OwnersInv, TypeOK, Refs
  <2>4. \A l \in Calls : call'[l].pc = "credit" => call'[l] = call[l]
    BY <1>2, <1>t DEF TypeOK
  <2>5. CreditOwed'
    BY <1>2, <1>t, <2>4 DEF IInv, CreditOwed, TypeOK, Refs
  <2>6. QED
    BY <1>t, <2>2, <2>3, <2>5 DEF IInv
<1>3. ASSUME NEW c \in Customers, NEW r \in TopupRefs, NEW half \in TopupAmounts,
             NEW k \in Calls, PostCustomerTopup(c, r, half, k)
      PROVE  IInv'
  <2> DEFINE p == [status |-> "pending", customer |-> c, net |-> NetCents(half)]
  <2>1. p \in Payments
    BY AmountAssumption, NetCentsNat DEF Payments, PaymentStatuses
  <2>2. QED
    BY <1>2, <1>3, <2>1 DEF PostCustomerTopup, Refs
<1>4. ASSUME NEW r \in VoucherRefs, NEW half \in TopupAmounts, NEW k \in Calls,
             ChargeVoucher(r, half, k)
      PROVE  IInv'
  <2> DEFINE p == [status |-> "pending", customer |-> NoCustomer, net |-> NetCents(half)]
  <2>1. p \in Payments
    BY AmountAssumption, NetCentsNat DEF Payments, PaymentStatuses
  <2>2. r \notin TopupRefs
    BY RefsAssumption
  <2>3. QED
    BY <1>2, <1>4, <2>1, <2>2 DEF ChargeVoucher, Refs
<1>5. ASSUME UNCHANGED <<walletVars, payment, window>>,
             \A l \in Calls : call'[l].pc = "credit" => call'[l] = call[l]
      PROVE  IInv'
  <2>1. Kept
    BY <1>5 DEF Kept
  <2>2. BookingsAreBacked' /\ NoDoubleBooking'
    BY <1>5, <2>1, BooksNothing
  <2>3. OwnersInv'
    BY <1>5 DEF IInv, OwnersInv
  <2>4. CreditOwed'
    BY <1>5 DEF IInv, CreditOwed
  <2>5. QED
    BY <1>t, <2>2, <2>3, <2>4 DEF IInv
<1>6. ASSUME NEW r \in Refs, NEW k \in Calls, PostPaymentComplete(r, k)
      PROVE  IInv'
  BY <1>5, <1>6, <1>t DEF PostPaymentComplete, TypeOK
<1>7. ASSUME NEW k \in Calls, SettleRead(k)
      PROVE  IInv'
  <2>1. call'[k].pc # "credit"
    BY <1>7, <1>t DEF SettleRead, TypeOK, CallRecords, Idle
  <2>2. \A l \in Calls : l # k => call'[l] = call[l]
    BY <1>7, <1>t DEF SettleRead, TypeOK
  <2>3. QED
    BY <1>5, <1>7, <2>1, <2>2 DEF SettleRead
<1>8. ASSUME NEW k \in Calls, SettleMark(k)
      PROVE  IInv'
  <2> DEFINE r == call[k].ref
  <2>0. r \in Refs
    BY <1>8, <1>t DEF SettleMark, TypeOK, CallRecords
  <2>1. CASE payment[r].status = "pending"
    <3>1. payment' = [payment EXCEPT ![r].status = "succeeded"]
      BY <1>8, <2>1 DEF SettleMark
    <3>2. call' = [call EXCEPT ![k] =
            IF r \in TopupRefs THEN [call[k] EXCEPT !.pc = "credit"] ELSE Idle]
      BY <1>8, <2>1 DEF SettleMark
    <3>3. UNCHANGED <<walletVars, billingVars>>
      BY <1>8 DEF SettleMark
    <3>4. /\ \A q \in Refs : q # r => payment'[q] = payment[q]
          /\ payment'[r].status = "succeeded"
          /\ payment'[r].customer = payment[r].customer
      BY <1>t, <2>0, <3>1 DEF TypeOK, Payments
    <3>5. Kept
      BY <2>1, <3>3, <3>4 DEF Kept, Refs
    <3>6. BookingsAreBacked' /\ NoDoubleBooking'
      BY <3>3, <3>5, BooksNothing
    <3>7. OwnersInv'
      BY <2>1, <3>4 DEF IInv, OwnersInv, Refs
    <3>8. ASSUME NEW l \in Calls, call'[l].pc = "credit"
          PROVE  /\ call'[l].ref \in TopupRefs
                 /\ payment'[call'[l].ref].status = "succeeded"
                 /\ \A m \in Calls : call'[m] = call'[l] => m = l
                 /\ Unbooked(PaymentRef(call'[l].ref))
      <4>1. \A m \in Calls : m # k => call'[m] = call[m]
        BY <1>t, <3>2 DEF TypeOK
      <4>2. \A m \in Calls : call[m].pc = "credit" => call[m].ref # r
        BY <2>1 DEF IInv, CreditOwed
      <4>3. CASE l = k
        <5>1. r \in TopupRefs
          BY <1>t, <3>2, <3>8, <4>3 DEF TypeOK, Idle
        <5>2. call'[k].ref = r /\ call'[k].pc = "credit"
          BY <1>8, <1>t, <2>0, <3>2, <5>1 DEF SettleMark, TypeOK, CallRecords
        <5>3. Unbooked(PaymentRef(r))
          BY <2>1, <5>1, PendingUnbooked
        <5>4. QED
          BY <3>4, <4>1, <4>2, <4>3, <5>1, <5>2, <5>3
      <4>4. CASE l # k
        <5>1. call'[l] = call[l] /\ call[l].ref # r
          BY <3>8, <4>1, <4>2, <4>4
        <5>2. /\ call[l].ref \in TopupRefs
              /\ payment[call[l].ref].status = "succeeded"
              /\ \A m \in Calls : call[m] = call[l] => m = l
              /\ Unbooked(PaymentRef(call[l].ref))
          BY <3>8, <5>1 DEF IInv, CreditOwed, Unbooked
        <5>3. call'[k].ref = r \/ call'[k].pc = "idle"
          BY <1>8, <1>t, <2>0, <3>2 DEF SettleMark, TypeOK, CallRecords, Idle
        <5>4. \A m \in Calls : call'[m] = call'[l] => m = l
          BY <3>8, <4>1, <5>1, <5>2, <5>3
        <5>5. QED
          BY <3>4, <5>1, <5>2, <5>4 DEF Refs
      <4>5. QED
        BY <4>3, <4>4
    <3>9. CreditOwed'
      BY <3>3, <3>8 DEF CreditOwed, Unbooked
    <3>10. QED
      BY <1>t, <3>6, <3>7, <3>9 DEF IInv
  <2>2. CASE payment[r].status # "pending"
    BY <1>5, <1>8, <1>t, <2>2 DEF SettleMark, TypeOK, Idle
  <2>3. QED
    BY <2>1, <2>2
<1>9. ASSUME NEW k \in Calls, SettleCredit(k)
      PROVE  IInv'
  <2>0. PICK r \in TopupRefs :
          /\ r = call[k].ref /\ payment[r].status = "succeeded"
          /\ \A l \in Calls : call[l] = call[k] => l = k
          /\ Unbooked(PaymentRef(r))
    BY <1>9 DEF SettleCredit, IInv, CreditOwed, Unbooked
  <2>1. PICK c \in Customers :
          /\ c = payment[r].customer /\ payment[r].net \in Nat
          /\ payment[r] = [status |-> "succeeded", customer |-> c, net |-> payment[r].net]
    BY <1>t, <2>0 DEF IInv, OwnersInv, TypeOK, Payments, Refs
  <2>2. \A l \in Calls : call'[l].pc = "credit" => call'[l] = call[l] /\ l # k
    BY <1>9, <1>t DEF SettleCredit, TypeOK, Idle
  <2>3. CASE payment[r].net > 0
    <3>1. PICK e \in Entries :
            /\ e.type = "topup" /\ e.ref = PaymentRef(r)
            /\ e.amount = Cents(2 * payment[r].net)
            /\ ledger' = [ledger EXCEPT ![c] = Append(ledger[c], e)]
      <4>1. Book(c, "topup", 2 * payment[r].net, PaymentRef(r))
        BY <1>9, <2>0, <2>1, <2>3 DEF SettleCredit
      <4>2. 2 * payment[r].net \in Int /\ "topup" \in EntryTypes
        BY <2>1 DEF EntryTypes
      <4>3. PaymentRef(r) \in EntryRefs
        BY <2>0, RefTypes DEF Refs
      <4>4. QED
        BY <1>t, <2>1, <4>1, <4>2, <4>3, BookRow
    <3>2. e.amount = payment[r].net
      BY <2>1, <3>1, CentsWhole
    <3>3. UNCHANGED <<payment, window>>
      BY <1>9 DEF SettleCredit
    <3>4. Kept
      BY <3>3 DEF Kept
    <3>5. Backed(c, e)'
      BY <2>0, <2>1, <3>1, <3>2, <3>3 DEF Backed
    <3>6. BookingsAreBacked' /\ NoDoubleBooking'
      BY <2>0, <2>1, <3>1, <3>4, <3>5, BooksRow
    <3>7. OwnersInv'
      BY <3>3 DEF IInv, OwnersInv
    <3>8. ASSUME NEW l \in Calls, call'[l].pc = "credit"
          PROVE  Unbooked(PaymentRef(call[l].ref))'
      <4>1. call'[l] = call[l] /\ l # k
        BY <2>2, <3>8
      <4>2. call[l].ref # r /\ Unbooked(PaymentRef(call[l].ref))
        <5>1. call[l] = [pc |-> "credit", ref |-> call[l].ref]
          BY <1>t, <3>8, <4>1 DEF TypeOK, CallRecords
        <5>2. call[k] = [pc |-> "credit", ref |-> r]
          BY <1>9, <1>t, <2>0 DEF SettleCredit, TypeOK, CallRecords
        <5>3. call[l].ref # r
          BY <2>0, <4>1, <5>1, <5>2
        <5>4. Unbooked(PaymentRef(call[l].ref))
          BY <3>8, <4>1 DEF IInv, CreditOwed, Unbooked
        <5>5. QED
          BY <5>3, <5>4
      <4>3. e.ref # PaymentRef(call[l].ref)
        BY <3>1, <4>2, RefsDistinct
      <4>4. ASSUME NEW d \in Customers, NEW i \in 1..Len(ledger'[d])
            PROVE  ledger'[d][i].ref # PaymentRef(call[l].ref)
        <5>1. \/ i \in 1..Len(ledger[d]) /\ ledger'[d][i] = ledger[d][i]
              \/ ledger'[d][i] = e
          BY <1>t, <2>1, <3>1, AppendedRows DEF TypeOK
        <5>2. QED
          BY <4>2, <4>3, <5>1 DEF Unbooked
      <4>5. QED
        BY <4>1, <4>4 DEF Unbooked
    <3>9. CreditOwed'
      BY <2>2, <3>3, <3>8 DEF IInv, CreditOwed, Unbooked
    <3>10. QED
      BY <1>t, <3>6, <3>7, <3>9 DEF IInv
  <2>4. CASE ~(payment[r].net > 0)
    BY <1>5, <1>9, <2>0, <2>2, <2>4 DEF SettleCredit
  <2>5. QED
    BY <2>3, <2>4
<1>10. ASSUME NEW k \in Calls, SettleAborted(k)
       PROVE  IInv'
  BY <1>5, <1>10, <1>t DEF SettleAborted, TypeOK, Idle
<1>11. ASSUME Kept, UNCHANGED <<walletVars, paymentVars>>
       PROVE  IInv'
  BY <1>t, <1>11, BooksNothing, OwedKept DEF IInv
<1>12. ASSUME NEW c \in Customers, NEW s \in Statuses, PatchCustomerStatus(c, s)
       PROVE  IInv'
  BY <1>11, <1>12 DEF PatchCustomerStatus, Kept
<1>13. ASSUME NextMonth
       PROVE  IInv'
  BY <1>11, <1>13 DEF NextMonth, Kept
<1>14. ASSUME NEW g \in Generators, GenerateRead(g)
       PROVE  IInv'
  BY <1>11, <1>14 DEF GenerateRead, Kept
<1>15. ASSUME NEW g \in Generators, GenerateInsert(g)
       PROVE  IInv'
  BY <1>t, <1>11, <1>15, InsertKept DEF GenerateInsert
<1>16. ASSUME NEW w \in Windows, PayFromWallet(w)
       PROVE  IInv'
  <2>1. w[1] \in Customers /\ w[2] \in Months /\ w = <<w[1], w[2]>>
    BY DEF Windows
  <2>2. PICK e \in Entries :
          /\ e.type = "bill_payment" /\ e.ref = WindowRef(w)
          /\ e.amount = Cents(-2 * MonthlyFee)
          /\ ledger' = [ledger EXCEPT ![w[1]] = Append(ledger[w[1]], e)]
    <3>1. Book(w[1], "bill_payment", -2 * MonthlyFee, WindowRef(w))
      BY <1>16 DEF PayFromWallet
    <3>2. -2 * MonthlyFee \in Int /\ "bill_payment" \in EntryTypes
      BY AmountAssumption DEF EntryTypes
    <3>3. QED
      BY <1>t, <2>1, <3>1, <3>2, BookRow, RefTypes
  <2>3. e.amount = -MonthlyFee
    <3>1. -2 * MonthlyFee = 2 * (-MonthlyFee) /\ -MonthlyFee \in Int
      BY AmountAssumption
    <3>2. QED
      BY <2>2, <3>1, CentsWhole
  <2>4. Kept /\ window'[w].status = "paid"
    BY <1>t, <1>16, WindowsKept DEF PayFromWallet
  <2>5. Backed(w[1], e)'
    BY <2>1, <2>2, <2>3, <2>4 DEF Backed
  <2>6. Unbooked(WindowRef(w))
    BY <1>16, UnpaidUnbooked DEF PayFromWallet
  <2>7. BookingsAreBacked' /\ NoDoubleBooking'
    BY <2>1, <2>2, <2>4, <2>5, <2>6, BooksRow
  <2>8. CreditOwed' /\ OwnersInv'
    <3>1. UNCHANGED <<payment, call>>
      BY <1>16 DEF PayFromWallet
    <3>2. \A r : e.ref # PaymentRef(r)
      BY <2>2, RefsDistinct
    <3>3. QED
      BY <2>1, <2>2, <3>1, <3>2, OwedKept
  <2>9. QED
    BY <1>t, <2>7, <2>8 DEF IInv
<1>17. ASSUME NEW w \in Windows, PayManually(w)
       PROVE  IInv'
  BY <1>t, <1>11, <1>17, WindowsKept DEF PayManually
<1>18. CASE UNCHANGED vars
  BY <1>11, <1>18 DEF vars, Kept
<1>19. QED
  BY <1>1, <1>3, <1>4, <1>6, <1>7, <1>8, <1>9, <1>10, <1>12, <1>13, <1>14, <1>15,
     <1>16, <1>17, <1>18 DEF Next, WalletNext, PaymentNext, BillingNext

\* However webhooks, retries, crashes and pay requests interleave: no payment is
\* credited and no window debited twice (Settle, DebitWalletForBillByWindow).
THEOREM NothingBookedTwice == Spec => []NoDoubleBooking
<1>1. IInv => NoDoubleBooking
  BY DEF IInv
<1>2. QED
  BY IInvInit, IInvNext, <1>1, PTL DEF Spec

\* Every credit has its succeeded payment, every debit its paid window.
THEOREM BookingsBacked == Spec => []BookingsAreBacked
<1>1. IInv => BookingsAreBacked
  BY DEF IInv
<1>2. QED
  BY IInvInit, IInvNext, <1>1, PTL DEF Spec

\* A credit is owed by at most one call at a time, and never once it is booked.
THEOREM CreditOwedOnce == Spec => []CreditOwed
<1>1. IInv => CreditOwed
  BY DEF IInv
<1>2. QED
  BY IInvInit, IInvNext, <1>1, PTL DEF Spec

-------------------------------------------------------------------------------
(* Credits that are lost.                                                     *)

LEMMA CreditBookedIs == ASSUME NEW r PROVE CreditBooked(r) <=> ~Unbooked(PaymentRef(r))
BY DEF CreditBooked, Unbooked

\* A step that leaves alone which top-ups are settled, which are booked and which
\* are about to be strands none and rescues none.
LEMMA StrandedSame ==
  ASSUME NEW r,
         payment'[r].status = "succeeded" <=> payment[r].status = "succeeded",
         CreditBooked(r)' <=> CreditBooked(r),
         \A k \in Calls : Crediting(k, r)' <=> Crediting(k, r)
  PROVE  Stranded(r)' <=> Stranded(r)
BY DEF Stranded

\* A row more: what its reference books is booked, and nothing else that was not.
LEMMA RowBooksCredit ==
  ASSUME TypeOK, NEW c \in Customers, NEW e \in Entries,
         ledger' = [ledger EXCEPT ![c] = Append(ledger[c], e)], NEW r
  PROVE  CreditBooked(r)' <=> CreditBooked(r) \/ e.ref = PaymentRef(r)
<1>1. ledger \in [Customers -> Seq(Entries)]
  BY DEF TypeOK
<1>2. ASSUME CreditBooked(r)' PROVE CreditBooked(r) \/ e.ref = PaymentRef(r)
  <2>1. PICK d \in Customers : \E i \in 1..Len(ledger'[d]) : ledger'[d][i].ref = PaymentRef(r)
    BY <1>2 DEF CreditBooked
  <2>2. PICK i \in 1..Len(ledger'[d]) : ledger'[d][i].ref = PaymentRef(r)
    BY <2>1
  <2>3. \/ i \in 1..Len(ledger[d]) /\ ledger'[d][i] = ledger[d][i]
        \/ ledger'[d][i] = e
    BY <1>1, AppendedRows
  <2> QED  BY <2>2, <2>3 DEF CreditBooked
<1>3. ASSUME NEW d \in Customers, NEW i \in 1..Len(ledger[d])
      PROVE  i \in 1..Len(ledger'[d]) /\ ledger'[d][i] = ledger[d][i]
  <2>1. ledger[d] \in Seq(Entries) /\ ledger'[d] = IF d = c THEN Append(ledger[d], e) ELSE ledger[d]
    BY <1>1
  <2> QED  BY <2>1
<1>4. ASSUME CreditBooked(r) PROVE CreditBooked(r)'
  <2>1. PICK d \in Customers : \E i \in 1..Len(ledger[d]) : ledger[d][i].ref = PaymentRef(r)
    BY <1>4 DEF CreditBooked
  <2> QED  BY <1>3, <2>1 DEF CreditBooked
<1>5. ASSUME e.ref = PaymentRef(r) PROVE CreditBooked(r)'
  <2>1. ledger[c] \in Seq(Entries) /\ ledger'[c] = Append(ledger[c], e)
    BY <1>1
  <2>2. Len(ledger[c]) + 1 \in 1..Len(ledger'[c]) /\ ledger'[c][Len(ledger[c]) + 1] = e
    BY <2>1
  <2> QED  BY <1>5, <2>2 DEF CreditBooked
<1> QED  BY <1>2, <1>4, <1>5

Strands(r) ==
  /\ Stranded(r) => Stranded(r)'
  /\ Stranded(r)' /\ ~Stranded(r) =>
       \E k \in Calls : Crediting(k, r) /\ (SettleAborted(k) \/ payment[r].net = 0)

LEMMA StrandStep == IInv /\ [Next]_vars => \A r \in TopupRefs : Strands(r)
<1> SUFFICES ASSUME IInv, [Next]_vars, NEW r \in TopupRefs PROVE Strands(r)
  OBVIOUS
<1> USE DEF walletVars, paymentVars, billingVars
<1>t. TypeOK /\ r \in Refs
  BY DEF IInv, Refs
<1>1. ASSUME Stranded(r)' <=> Stranded(r) PROVE Strands(r)
  BY <1>1 DEF Strands
\* Steps that book nothing.
<1>2. ASSUME UNCHANGED ledger, payment'[r].status = "succeeded" <=> payment[r].status = "succeeded",
             \A k \in Calls : call'[k].pc = "credit" \/ call[k].pc = "credit" => call'[k] = call[k]
      PROVE  Strands(r)
  <2>1. CreditBooked(r)' <=> CreditBooked(r)
    BY <1>2 DEF CreditBooked
  <2>2. ASSUME NEW k \in Calls PROVE Crediting(k, r)' <=> Crediting(k, r)
    <3>1. CASE call'[k].pc = "credit" \/ call[k].pc = "credit"
      BY <1>2, <3>1 DEF Crediting
    <3>2. CASE call'[k].pc # "credit" /\ call[k].pc # "credit"
      BY <3>2 DEF Crediting
    <3> QED  BY <3>1, <3>2
  <2> QED  BY <1>1, <1>2, <2>1, <2>2, StrandedSame
\* Steps that book something that is not a credit.
<1>3. ASSUME UNCHANGED <<payment, call>>, NEW c \in Customers, NEW e \in Entries,
             ledger' = [ledger EXCEPT ![c] = Append(ledger[c], e)], e.ref # PaymentRef(r)
      PROVE  Strands(r)
  <2>1. CreditBooked(r)' <=> CreditBooked(r)
    BY <1>t, <1>3, RowBooksCredit
  <2> QED  BY <1>1, <1>3, <2>1, StrandedSame DEF Crediting
<1>4. ASSUME NEW c \in Customers, NEW half \in AdjustAmounts, AdjustWallet(c, half)
      PROVE  Strands(r)
  <2>1. PICK e \in Entries :
          e.ref = NoRef /\ ledger' = [ledger EXCEPT ![c] = Append(ledger[c], e)]
    BY <1>4, <1>t, BookRow, RefTypes, AmountAssumption DEF AdjustWallet, EntryTypes
  <2> QED  BY <1>3, <1>4, <2>1, RefsDistinct DEF AdjustWallet
<1>5. ASSUME NEW q \in Refs, payment[q].status = "none", UNCHANGED ledger,
             NEW p \in Payments, p.status = "pending", payment' = [payment EXCEPT ![q] = p],
             NEW k \in Calls, call[k].pc = "idle",
             call' = IF Synchronous THEN [call EXCEPT ![k] = [pc |-> "read", ref |-> q]]
                                    ELSE call
      PROVE  Strands(r)
  <2>1. payment'[r].status = "succeeded" <=> payment[r].status = "succeeded"
    BY <1>5, <1>t DEF TypeOK
  <2>2. \A l \in Calls : call'[l].pc = "credit" \/ call[l].pc = "credit" => call'[l] = call[l]
    BY <1>5, <1>t DEF TypeOK
  <2> QED  BY <1>2, <1>5, <2>1, <2>2
<1>6. ASSUME NEW c \in Customers, NEW q \in TopupRefs, NEW half \in TopupAmounts,
             NEW k \in Calls, PostCustomerTopup(c, q, half, k)
      PROVE  Strands(r)
  <2> DEFINE p == [status |-> "pending", customer |-> c, net |-> NetCents(half)]
  <2>1. p \in Payments
    BY AmountAssumption, NetCentsNat DEF Payments, PaymentStatuses
  <2> QED  BY <1>5, <1>6, <2>1 DEF PostCustomerTopup, Refs
<1>7. ASSUME NEW q \in VoucherRefs, NEW half \in TopupAmounts, NEW k \in Calls,
             ChargeVoucher(q, half, k)
      PROVE  Strands(r)
  <2> DEFINE p == [status |-> "pending", customer |-> NoCustomer, net |-> NetCents(half)]
  <2>1. p \in Payments
    BY AmountAssumption, NetCentsNat DEF Payments, PaymentStatuses
  <2> QED  BY <1>5, <1>7, <2>1 DEF ChargeVoucher, Refs
<1>8. ASSUME NEW q \in Refs, NEW k \in Calls, PostPaymentComplete(q, k)
      PROVE  Strands(r)
  <2>1. \A l \in Calls : call'[l].pc = "credit" \/ call[l].pc = "credit" => call'[l] = call[l]
    BY <1>8, <1>t DEF PostPaymentComplete, TypeOK
  <2> QED  BY <1>2, <1>8, <2>1 DEF PostPaymentComplete
<1>9. ASSUME NEW k \in Calls, SettleRead(k)
      PROVE  Strands(r)
  <2>1. call[k].pc # "credit" /\ call'[k].pc # "credit"
    BY <1>9, <1>t DEF SettleRead, TypeOK, CallRecords, Idle
  <2>2. \A l \in Calls : l # k => call'[l] = call[l]
    BY <1>9, <1>t DEF SettleRead, TypeOK
  <2> QED  BY <1>2, <1>9, <2>1, <2>2 DEF SettleRead
<1>10. ASSUME NEW k \in Calls, SettleMark(k)
       PROVE  Strands(r)
  <2> DEFINE q == call[k].ref
  <2>0. q \in Refs /\ call[k].pc = "mark" /\ UNCHANGED ledger
    BY <1>10, <1>t DEF SettleMark, TypeOK, CallRecords
  <2>1. CASE payment[q].status = "pending" /\ q = r
    <3>1. call' = [call EXCEPT ![k].pc = "credit"]
      BY <1>10, <1>t, <2>1 DEF SettleMark
    <3>2. call'[k] = [pc |-> "credit", ref |-> r]
      BY <1>t, <2>0, <2>1, <3>1 DEF TypeOK, CallRecords
    <3> QED  BY <2>1, <3>2 DEF Strands, Stranded, Crediting
  <2>2. CASE payment[q].status = "pending" /\ q # r
    <3>1. payment'[r] = payment[r] /\ \A l \in Calls : l # k => call'[l] = call[l]
      BY <1>10, <1>t, <2>0, <2>2 DEF SettleMark, TypeOK
    <3>2. call'[k] # [pc |-> "credit", ref |-> r] /\ call[k] # [pc |-> "credit", ref |-> r]
      <4>1. call'[k].ref = q \/ call'[k] = Idle
        BY <1>10, <1>t, <2>0, <2>2 DEF SettleMark, TypeOK, CallRecords
      <4> QED  BY <2>0, <2>2, <4>1 DEF Idle
    <3>3. \A l \in Calls : Crediting(l, r)' <=> Crediting(l, r)
      BY <3>1, <3>2 DEF Crediting
    <3>4. CreditBooked(r)' <=> CreditBooked(r)
      BY <2>0 DEF CreditBooked
    <3> QED  BY <1>1, <3>1, <3>3, <3>4, StrandedSame
  <2>3. CASE payment[q].status # "pending"
    <3>1. call' = [call EXCEPT ![k] = Idle] /\ UNCHANGED payment
      BY <1>10, <2>3 DEF SettleMark
    <3>2. \A l \in Calls : call'[l].pc = "credit" \/ call[l].pc = "credit" => call'[l] = call[l]
      BY <1>t, <2>0, <3>1 DEF TypeOK, Idle
    <3> QED  BY <1>2, <2>0, <3>1, <3>2
  <2> QED  BY <2>1, <2>2, <2>3
<1>11. ASSUME NEW k \in Calls, SettleCredit(k)
       PROVE  Strands(r)
  <2>0. PICK q \in TopupRefs :
          /\ q = call[k].ref /\ payment[q].customer \in Customers /\ payment[q].net \in Nat
          /\ call[k] = [pc |-> "credit", ref |-> q]
    BY <1>11, <1>t DEF SettleCredit, IInv, CreditOwed, OwnersInv, TypeOK, CallRecords, Payments, Refs
  <2>1. /\ call'[k] = Idle /\ UNCHANGED payment
        /\ \A l \in Calls : l # k => call'[l] = call[l]
    BY <1>11, <1>t DEF SettleCredit, TypeOK
  <2>2. CASE payment[q].net > 0
    <3>0. PICK c \in Customers : c = payment[q].customer
      BY <2>0
    <3>1. PICK e \in Entries :
            /\ e.ref = PaymentRef(q)
            /\ ledger' = [ledger EXCEPT ![c] = Append(ledger[c], e)]
      <4>1. Book(c, "topup", 2 * payment[q].net, PaymentRef(q))
        BY <1>11, <2>0, <2>2, <3>0 DEF SettleCredit
      <4>2. 2 * payment[q].net \in Int /\ "topup" \in EntryTypes /\ PaymentRef(q) \in EntryRefs
        BY <2>0, RefTypes DEF EntryTypes, Refs
      <4> QED  BY <1>t, <2>0, <4>1, <4>2, BookRow
    <3>2. CreditBooked(r)' <=> CreditBooked(r) \/ e.ref = PaymentRef(r)
      BY <1>t, <3>1, RowBooksCredit
    <3>3. CASE q = r
      BY <2>0, <3>1, <3>2, <3>3 DEF Strands, Stranded, Crediting
    <3>4. CASE q # r
      <4>1. \A l \in Calls : Crediting(l, r)' <=> Crediting(l, r)
        BY <2>0, <2>1, <3>4 DEF Crediting, Idle
      <4> QED  BY <1>1, <2>1, <3>1, <3>2, <3>4, <4>1, RefsDistinct, StrandedSame
    <3> QED  BY <3>3, <3>4
  <2>3. CASE ~(payment[q].net > 0)
    <3>1. UNCHANGED ledger /\ payment[q].net = 0
      BY <1>11, <2>0, <2>3 DEF SettleCredit
    <3>2. CreditBooked(r)' <=> CreditBooked(r)
      BY <3>1 DEF CreditBooked
    <3>3. CASE q = r
      BY <2>0, <3>1, <3>3 DEF Strands, Stranded, Crediting
    <3>4. CASE q # r
      <4>1. \A l \in Calls : Crediting(l, r)' <=> Crediting(l, r)
        BY <2>0, <2>1, <3>4 DEF Crediting, Idle
      <4> QED  BY <1>1, <2>1, <3>2, <4>1, StrandedSame
    <3> QED  BY <3>3, <3>4
  <2> QED  BY <2>2, <2>3
<1>12. ASSUME NEW k \in Calls, SettleAborted(k)
       PROVE  Strands(r)
  <2>1. /\ call'[k] = Idle /\ UNCHANGED <<payment, ledger>>
        /\ \A l \in Calls : l # k => call'[l] = call[l]
    BY <1>12, <1>t DEF SettleAborted, TypeOK
  <2>2. CreditBooked(r)' <=> CreditBooked(r)
    BY <2>1 DEF CreditBooked
  <2>3. \A l \in Calls : Crediting(l, r)' => Crediting(l, r)
    BY <2>1 DEF Crediting, Idle
  <2>4. CASE Crediting(k, r)
    BY <1>12, <2>4 DEF Strands, Stranded
  <2>5. CASE ~Crediting(k, r)
    <3>1. \A l \in Calls : Crediting(l, r)' <=> Crediting(l, r)
      BY <2>1, <2>3, <2>5 DEF Crediting
    <3> QED  BY <1>1, <2>1, <2>2, <3>1, StrandedSame
  <2> QED  BY <2>4, <2>5
<1>13. ASSUME UNCHANGED <<walletVars, paymentVars>>
       PROVE  Strands(r)
  BY <1>2, <1>13
<1>14. ASSUME BillingNext
       PROVE  Strands(r)
  <2>1. ASSUME NEW w \in Windows, PayFromWallet(w)
        PROVE  Strands(r)
    <3>1. PICK e \in Entries :
            /\ e.ref = WindowRef(w)
            /\ ledger' = [ledger EXCEPT ![w[1]] = Append(ledger[w[1]], e)]
      <4>1. Book(w[1], "bill_payment", -2 * MonthlyFee, WindowRef(w)) /\ w[1] \in Customers
        BY <2>1 DEF PayFromWallet, Windows
      <4>2. -2 * MonthlyFee \in Int /\ "bill_payment" \in EntryTypes
        BY AmountAssumption DEF EntryTypes
      <4> QED  BY <1>t, <4>1, <4>2, BookRow, RefTypes
    <3>2. w[1] \in Customers /\ UNCHANGED <<payment, call>>
      BY <2>1 DEF PayFromWallet, Windows
    <3> QED  BY <1>3, <3>1, <3>2, RefsDistinct
  <2>2. CASE UNCHANGED <<walletVars, paymentVars>>
    BY <1>13, <2>2
  <2> QED
    BY <1>14, <2>1, <2>2 DEF BillingNext, PatchCustomerStatus, NextMonth, GenerateRead,
       GenerateInsert, PayManually
<1>15. CASE UNCHANGED vars
  BY <1>13, <1>15 DEF vars
<1> QED
  BY <1>4, <1>6, <1>7, <1>8, <1>9, <1>10, <1>11, <1>12, <1>14, <1>15
  DEF Next, WalletNext, PaymentNext

\* Whatever webhooks, retries and races do, Settle loses the credit of a paid
\* top-up only by being cut off between its update and CreditWallet; and no later
\* webhook brings the credit back.
THEOREM StrandedByCutOffOnly == Spec => CreditsStrandOnlyWhenCutOff
<1>1. IInv /\ [Next]_vars => [\A r \in TopupRefs : Strands(r)]_vars
  BY StrandStep
<1>2. [\A r \in TopupRefs : Strands(r)]_vars =>
        [\A r \in TopupRefs :
           /\ Stranded(r) => Stranded(r)'
           /\ Stranded(r)' /\ ~Stranded(r) =>
                \E k \in Calls :
                  Crediting(k, r) /\ (SettleAborted(k) \/ payment[r].net = 0)]_vars
  BY DEF Strands
<1> QED  BY IInvInit, IInvNext, <1>1, <1>2, PTL DEF Spec, CreditsStrandOnlyWhenCutOff

================================================================================
