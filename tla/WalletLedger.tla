----------------------------- MODULE WalletLedger ------------------------------
(***************************************************************************)
(* Money in FIHOS: customers' prepaid balances, the wallet_transactions    *)
(* ledger, the gateway payments that feed it and the monthly billing       *)
(* windows it pays.                                                        *)
(*                                                                         *)
(* Several requests run at once.  One database transaction (or one SQL     *)
(* statement) is one step; what a handler does BETWEEN two of them is      *)
(* where other requests, a crash or a cancelled request context come in.   *)
(* Settle therefore is a small process of three steps (read the payment,   *)
(* mark it, credit the wallet), run by a webhook delivery or by the tail   *)
(* of a synchronous top-up, and generating the monthly windows is a        *)
(* process of two (the statement's snapshot, the insert).                  *)
(***************************************************************************)
EXTENDS Cents, Sequences, FiniteSets

CONSTANTS
  Customers,      \* rows of customers, one tenant
  NoCustomer,     \* a payment that belongs to no customer
  TopupRefs,      \* external refs "topup-..." a run may use
  VoucherRefs,    \* external refs "pay-..."
  Calls,          \* executions of Billing.Settle that may be in flight
  Generators,     \* those that generate windows: the API handler, the worker
  Statuses,       \* customer statuses a run uses; only "token" matters here
  TopupAmounts,   \* amounts of top-up requests, in half cents
  AdjustAmounts,  \* amounts of manual adjustments, in half cents
  MonthlyFee,     \* settings.payment_config.monthly_fee, in cents
  Synchronous,    \* TRUE: the mock provider; FALSE: the sandbox provider
  LastMonth,      \* bound: the months a run sees are 1..LastMonth
  MaxAdjusts,     \* bound: manual adjustments a customer may get
  MaxStamps       \* bound: how often one window may be marked paid by hand

Refs    == TopupRefs \cup VoucherRefs
Months  == 1..LastMonth
Windows == Customers \X Months

ASSUME CustomersAssumption == NoCustomer \notin Customers
ASSUME RefsAssumption == TopupRefs \cap VoucherRefs = {}
ASSUME StatusAssumption == "token" \in Statuses
ASSUME AmountAssumption ==
  /\ TopupAmounts \subseteq Nat \ {0}
  /\ AdjustAmounts \subseteq Int \ {0}
  /\ MonthlyFee \in Nat \ {0}
  /\ Synchronous \in BOOLEAN
ASSUME BoundAssumption ==
  LastMonth \in Nat \ {0} /\ MaxAdjusts \in Nat /\ MaxStamps \in Nat

VARIABLES
  balance,    \* customers.balance, in cents
  ledger,     \* wallet_transactions, per customer, oldest first
  payment,    \* payments, by external_ref
  call,       \* the Settle executions in flight
  status,     \* customers.status
  month,      \* the current calendar month
  window,     \* billing_windows, unique per customer and month
  generator   \* the window generators in flight

vars == <<balance, ledger, payment, call, status, month, window, generator>>

walletVars  == <<balance, ledger>>
paymentVars == <<payment, call>>
billingVars == <<status, month, window, generator>>

-------------------------------------------------------------------------------
(* Values. *)

\* A ledger row: its type, its amount, balance_after and the ref it books.
EntryTypes == {"topup", "bill_payment", "adjustment"}
NoRef == <<"none">>
PaymentRef(r) == <<"payment", r>>
WindowRef(w) == <<"billing_window", w>>
EntryRefs ==
  {NoRef} \cup {PaymentRef(r) : r \in Refs} \cup {WindowRef(w) : w \in Windows}
Entries == [type : EntryTypes, amount : Int, after : Int, ref : EntryRefs]

\* No code path writes 'failed' or 'refunded'; "none" is a row not there yet.
PaymentStatuses == {"none", "pending", "succeeded"}
Payments ==
  [status : PaymentStatuses, customer : Customers \cup {NoCustomer}, net : Nat]

\* An execution of Settle, at the statement it is about to run.
CallRecords ==
  [pc : {"idle"}, ref : {NoRef}] \cup [pc : {"read", "mark", "credit"}, ref : Refs]
Idle == [pc |-> "idle", ref |-> NoRef]

\* "stamps" counts how often paid_at was written; the instant is abstracted.
WindowRecords == [status : {"none", "issued", "paid"}, stamps : Nat]
GeneratorRecords ==
  [pc : {"idle", "insert"}, period : Months, targets : SUBSET Customers]

Init ==
  /\ balance = [c \in Customers |-> 0]
  /\ ledger = [c \in Customers |-> <<>>]
  /\ payment = [r \in Refs |->
       [status |-> "none", customer |-> NoCustomer, net |-> 0]]
  /\ call = [k \in Calls |-> Idle]
  /\ status \in [Customers -> Statuses]
  /\ month = 1
  /\ window = [w \in Windows |-> [status |-> "none", stamps |-> 0]]
  /\ generator = [g \in Generators |->
       [pc |-> "idle", period |-> 1, targets |-> {}]]

-------------------------------------------------------------------------------
(* The ledger: lockAndApply and insertWalletTx in one transaction.         *)

\* Mutant: no check that the balance covers a debit.
CoversAnything(c, half) == TRUE

\* balance + delta >= 0, evaluated under the lock on the customer row.
Covers(c, half) == 2 * balance[c] + half >= 0

\* Mutants: balance_after taken from the row as it was read; the balance
\* written as computed in Go instead of by "balance + $1".
BookStaleAfter(c, type, half, ref) ==
  /\ Covers(c, half)
  /\ balance' = [balance EXCEPT ![c] = Cents(2 * balance[c] + half)]
  /\ ledger' = [ledger EXCEPT ![c] = Append(@,
       [type |-> type, amount |-> Cents(half), after |-> balance[c], ref |-> ref])]

BookComputed(c, type, half, ref) ==
  /\ Covers(c, half)
  /\ \E after \in FloatCents(2 * balance[c] + half) :
       /\ balance' = [balance EXCEPT ![c] = after]
       /\ ledger' = [ledger EXCEPT ![c] = Append(@,
            [type |-> type, amount |-> Cents(half), after |-> after, ref |-> ref])]

\* Apply a delta of half cents to c's balance and book it.
Book(c, type, half, ref) ==
  /\ Covers(c, half)
  /\ balance' = [balance EXCEPT ![c] = Cents(2 * balance[c] + half)]
  /\ \E after \in FloatCents(2 * balance[c] + half) :
       ledger' = [ledger EXCEPT ![c] = Append(@,
         [type |-> type, amount |-> Cents(half), after |-> after, ref |-> ref])]

\* PostWalletAdjust: a signed correction; it books no reference.
Adjusts(c) == {i \in 1..Len(ledger[c]) : ledger[c][i].type = "adjustment"}

AdjustWallet(c, half) ==
  /\ Cardinality(Adjusts(c)) < MaxAdjusts
  /\ Book(c, "adjustment", half, NoRef)
  /\ UNCHANGED <<paymentVars, billingVars>>

-------------------------------------------------------------------------------
(* Payments.                                                               *)

\* The partial unique index uq_payment_topup: rows it would collide with.
LiveTopups(c) ==
  {r \in TopupRefs : /\ payment[r].customer = c
                     /\ payment[r].status \in {"pending", "succeeded"}}

\* ChargeTopUp: the provider answers, the row is inserted 'pending' unless the
\* index refuses it; a synchronous provider goes on into Settle.
PostCustomerTopup(c, r, half, k) ==
  /\ payment[r].status = "none"
  /\ LiveTopups(c) = {}
  /\ call[k].pc = "idle"
  /\ payment' = [payment EXCEPT ![r] =
       [status |-> "pending", customer |-> c, net |-> NetCents(half)]]
  /\ call' = IF Synchronous THEN [call EXCEPT ![k] = [pc |-> "read", ref |-> r]]
                            ELSE call
  /\ UNCHANGED <<walletVars, billingVars>>

\* Charge: the same for a voucher sold by the portal, no customer, no index.
ChargeVoucher(r, half, k) ==
  /\ payment[r].status = "none"
  /\ call[k].pc = "idle"
  /\ payment' = [payment EXCEPT ![r] =
       [status |-> "pending", customer |-> NoCustomer, net |-> NetCents(half)]]
  /\ call' = IF Synchronous THEN [call EXCEPT ![k] = [pc |-> "read", ref |-> r]]
                            ELSE call
  /\ UNCHANGED <<walletVars, billingVars>>

\* PostPaymentComplete: a signed webhook for a ref, which the gateway may send
\* again at any time, enters Settle.
PostPaymentComplete(r, k) ==
  /\ call[k].pc = "idle"
  /\ payment[r].status # "none"
  /\ call' = [call EXCEPT ![k] = [pc |-> "read", ref |-> r]]
  /\ UNCHANGED <<walletVars, payment, billingVars>>

\* Settle, first statement: PaymentByRefGlobal; a settled payment is returned.
SettleRead(k) ==
  /\ call[k].pc = "read"
  /\ call' = [call EXCEPT ![k] =
       IF payment[call[k].ref].status = "succeeded"
       THEN Idle ELSE [@ EXCEPT !.pc = "mark"]]
  /\ UNCHANGED <<walletVars, payment, billingVars>>

\* Mutants: the UPDATE without its condition on the status; a credit that does
\* not wait for the status to be written.
SettleMarkUnguarded(k) ==
  /\ call[k].pc = "mark"
  /\ payment' = [payment EXCEPT ![call[k].ref].status = "succeeded"]
  /\ call' = [call EXCEPT ![k] =
       IF call[k].ref \in TopupRefs THEN [@ EXCEPT !.pc = "credit"] ELSE Idle]
  /\ UNCHANGED <<walletVars, billingVars>>

SettleMarkUnwritten(k) ==
  /\ call[k].pc = "mark"
  /\ payment[call[k].ref].status = "pending"
  /\ call' = [call EXCEPT ![k] =
       IF call[k].ref \in TopupRefs THEN [@ EXCEPT !.pc = "credit"] ELSE Idle]
  /\ UNCHANGED <<walletVars, payment, billingVars>>

\* Mutant: the status is written, and the call returns without the credit.
SettleMarkOnly(k) ==
  /\ call[k].pc = "mark"
  /\ payment' = IF payment[call[k].ref].status = "pending"
                THEN [payment EXCEPT ![call[k].ref].status = "succeeded"] ELSE payment
  /\ call' = [call EXCEPT ![k] = Idle]
  /\ UNCHANGED <<walletVars, billingVars>>

\* Settle, second statement: UpdatePaymentStatus.  No row matches when another
\* call has marked the payment since the read: ErrNotFound.
SettleMark(k) ==
  /\ call[k].pc = "mark"
  /\ LET r == call[k].ref IN
     IF payment[r].status = "pending"
     THEN /\ payment' = [payment EXCEPT ![r].status = "succeeded"]
          /\ call' = [call EXCEPT ![k] =
               IF r \in TopupRefs THEN [@ EXCEPT !.pc = "credit"] ELSE Idle]
     ELSE /\ call' = [call EXCEPT ![k] = Idle]
          /\ UNCHANGED payment
  /\ UNCHANGED <<walletVars, billingVars>>

\* Settle, third step, a transaction of its own: CreditWallet.  A net amount
\* of nothing is an error there.
SettleCredit(k) ==
  /\ call[k].pc = "credit"
  /\ LET r == call[k].ref IN
     IF payment[r].net > 0
     THEN Book(payment[r].customer, "topup", 2 * payment[r].net, PaymentRef(r))
     ELSE UNCHANGED walletVars
  /\ call' = [call EXCEPT ![k] = Idle]
  /\ UNCHANGED <<payment, billingVars>>

\* The process dies, the client hangs up (its request context is cancelled) or
\* a statement fails: Settle returns with what it has committed so far.
SettleAborted(k) ==
  /\ call[k].pc # "idle"
  /\ call' = [call EXCEPT ![k] = Idle]
  /\ UNCHANGED <<walletVars, payment, billingVars>>

-------------------------------------------------------------------------------
(* Monthly billing.                                                        *)

\* PatchCustomerStatus: any status to any status.
PatchCustomerStatus(c, s) ==
  /\ status[c] # s
  /\ status' = [status EXCEPT ![c] = s]
  /\ UNCHANGED <<walletVars, paymentVars, month, window, generator>>

NextMonth ==
  /\ month < LastMonth
  /\ month' = month + 1
  /\ UNCHANGED <<walletVars, paymentVars, status, window, generator>>

\* Mutant: NOT EXISTS without the condition on period_start.
UnbilledEver(m) ==
  {c \in Customers : /\ status[c] = "token"
                     /\ \A n \in Months : window[<<c, n>>].status = "none"}

\* Customers the INSERT .. SELECT finds: token access, no window yet.
Unbilled(m) ==
  {c \in Customers : status[c] = "token" /\ window[<<c, m>>].status = "none"}

\* GenerateMonthlyWindows, the snapshot its one statement works from.
GenerateRead(g) ==
  /\ generator[g].pc = "idle"
  /\ generator' = [generator EXCEPT ![g] =
       [pc |-> "insert", period |-> month, targets |-> Unbilled(month)]]
  /\ UNCHANGED <<walletVars, paymentVars, status, month, window>>

\* Its insert, which fails as a whole on UNIQUE (customer_id, period_start)
\* when another generator has billed one of these customers in the meantime.
GenerateInsert(g) ==
  /\ generator[g].pc = "insert"
  /\ LET new == generator[g].targets \X {generator[g].period} IN
     window' = IF \A w \in new : window[w].status = "none"
               THEN [w \in Windows |->
                      IF w \in new THEN [status |-> "issued", stamps |-> 0]
                                   ELSE window[w]]
               ELSE window
  /\ generator' = [generator EXCEPT ![g].pc = "idle"]
  /\ UNCHANGED <<walletVars, paymentVars, status, month>>

\* Mutant: paid_at written, the status forgotten.
MarkedPaidAtOnly(w) == [window EXCEPT ![w].stamps = @ + 1]

\* markWindowPaidTx: no condition on the status; paid_at is written anew.
MarkedPaid(w) ==
  [window EXCEPT ![w] = [status |-> "paid", stamps |-> window[w].stamps + 1]]

\* Mutant: the window is locked whatever its status.
PayFromWalletUnguarded(w) ==
  /\ window[w].status # "none"
  /\ Book(w[1], "bill_payment", -2 * MonthlyFee, WindowRef(w))
  /\ window' = MarkedPaid(w)
  /\ UNCHANGED <<paymentVars, status, month, generator>>

\* PostBillingPay, method wallet: DebitWalletForBillByWindow, one transaction.
PayFromWallet(w) ==
  /\ window[w].status \notin {"none", "paid"}
  /\ Book(w[1], "bill_payment", -2 * MonthlyFee, WindowRef(w))
  /\ window' = MarkedPaid(w)
  /\ UNCHANGED <<paymentVars, status, month, generator>>

\* PostBillingPay, method manual: MarkWindowPaid.
PayManually(w) ==
  /\ window[w].status # "none"
  /\ window[w].stamps < MaxStamps
  /\ window' = MarkedPaid(w)
  /\ UNCHANGED <<walletVars, paymentVars, status, month, generator>>

-------------------------------------------------------------------------------
WalletNext ==
  \E c \in Customers, half \in AdjustAmounts : AdjustWallet(c, half)

PaymentNext ==
  \/ \E c \in Customers, r \in TopupRefs, half \in TopupAmounts, k \in Calls :
       PostCustomerTopup(c, r, half, k)
  \/ \E r \in VoucherRefs, half \in TopupAmounts, k \in Calls :
       ChargeVoucher(r, half, k)
  \/ \E r \in Refs, k \in Calls : PostPaymentComplete(r, k)
  \/ \E k \in Calls :
       SettleRead(k) \/ SettleMark(k) \/ SettleCredit(k) \/ SettleAborted(k)

BillingNext ==
  \/ \E c \in Customers, s \in Statuses : PatchCustomerStatus(c, s)
  \/ NextMonth
  \/ \E g \in Generators : GenerateRead(g) \/ GenerateInsert(g)
  \/ \E w \in Windows : PayFromWallet(w) \/ PayManually(w)

Next == WalletNext \/ PaymentNext \/ BillingNext

Spec == Init /\ [][Next]_vars

\* The worker's billing loop ticks for ever, and a statement that started ends.
Fairness ==
  \A g \in Generators : WF_vars(GenerateRead(g)) /\ WF_vars(GenerateInsert(g))

FairSpec == Spec /\ Fairness

-------------------------------------------------------------------------------
(* Properties.                                                             *)

TypeOK ==
  /\ balance \in [Customers -> Nat]
  /\ ledger \in [Customers -> Seq(Entries)]
  /\ payment \in [Refs -> Payments]
  /\ call \in [Calls -> CallRecords]
  /\ status \in [Customers -> Statuses]
  /\ month \in Months
  /\ window \in [Windows -> WindowRecords]
  /\ generator \in [Generators -> GeneratorRecords]

\* The balance the ledger says c had after its first n rows.
BalanceAfter(c, n) == IF n = 0 THEN 0 ELSE ledger[c][n].after

\* Requests carry whole cents only, as the dashboard's forms produce them.
WholeCents == \A half \in AdjustAmounts : half % 2 = 0

\* As long as requests carry whole cents the ledger is a statement of account:
\* every row's balance_after is the previous one plus the row's amount, and
\* the last one is customers.balance, however requests interleave
\* (lockAndApply reads and writes under one row lock).
LedgerChain ==
  WholeCents => \A c \in Customers :
    /\ balance[c] = BalanceAfter(c, Len(ledger[c]))
    /\ \A i \in 1..Len(ledger[c]) :
         ledger[c][i].after = BalanceAfter(c, i - 1) + ledger[c][i].amount

\* The sum of the amounts of c's ledger rows.
LedgerSum(c) ==
  LET sum[n \in 0..Len(ledger[c])] ==
        IF n = 0 THEN 0 ELSE sum[n - 1] + ledger[c][n].amount
  IN  sum[Len(ledger[c])]

\* With fractions of a cent in requests (the API checks none) the balance may
\* leave the sum of the ledger, but never downwards: a customer is never given
\* less than the ledger accounts for, and per adjustment it is at most a cent.
BalanceCoversLedger ==
  \A c \in Customers :
    balance[c] - LedgerSum(c) \in 0..Cardinality(Adjusts(c))

\* No payment is credited twice and no billing window debited twice: duplicate
\* webhooks, a webhook racing the synchronous settlement and repeated pay
\* requests included (Settle is "idempotent", its doc comment says).
NoDoubleBooking ==
  \A c, d \in Customers :
    \A i \in 1..Len(ledger[c]), j \in 1..Len(ledger[d]) :
      ledger[c][i].ref = ledger[d][j].ref /\ ledger[c][i].ref # NoRef
        => c = d /\ i = j

\* At most one settlement of a payment is on its way to the credit, and only
\* while the payment is marked but not credited.
CreditOwed ==
  \A k \in Calls : call[k].pc = "credit" =>
    /\ call[k].ref \in TopupRefs
    /\ payment[call[k].ref].status = "succeeded"
    /\ \A l \in Calls : call[l] = call[k] => l = k
    /\ \A c \in Customers : \A i \in 1..Len(ledger[c]) :
         ledger[c][i].ref # PaymentRef(call[k].ref)

CreditBooked(r) ==
  \E c \in Customers : \E i \in 1..Len(ledger[c]) : ledger[c][i].ref = PaymentRef(r)

Crediting(k, r) == call[k] = [pc |-> "credit", ref |-> r]

\* A top-up the customer has paid and will get nothing for: it is settled, and
\* neither booked nor about to be.
Stranded(r) ==
  /\ payment[r].status = "succeeded"
  /\ ~CreditBooked(r)
  /\ \A k \in Calls : ~Crediting(k, r)

\* Settle loses the credit of a paid top-up in one way only, and then for good:
\* the one call that marked the payment is cut off before its second statement.
\* (A top-up that nets nothing has no credit to lose.)  Webhooks that repeat or
\* race, and calls cut off anywhere else, cost nothing.
CreditsStrandOnlyWhenCutOff ==
  [][\A r \in TopupRefs :
       /\ Stranded(r) => Stranded(r)'
       /\ Stranded(r)' /\ ~Stranded(r) =>
            \E k \in Calls :
              Crediting(k, r) /\ (SettleAborted(k) \/ payment[r].net = 0)]_vars

\* Row e of c's ledger agrees with what it names: the payment has succeeded,
\* was made for c and credited its net amount; the window is c's, is paid and
\* was debited the monthly fee.
Backed(c, e) ==
  \/ /\ e.type = "topup"
     /\ \E r \in TopupRefs :
          /\ e.ref = PaymentRef(r)
          /\ payment[r] = [status |-> "succeeded", customer |-> c, net |-> e.amount]
  \/ /\ e.type = "bill_payment"
     /\ \E m \in Months :
          /\ e.ref = WindowRef(<<c, m>>)
          /\ window[<<c, m>>].status = "paid"
          /\ e.amount = -MonthlyFee
  \/ e.type = "adjustment" /\ e.ref = NoRef

\* Money moves only for a reason that stays on record (Settle credits after the
\* payment is marked, DebitWalletForBillByWindow debits and marks together).
BookingsAreBacked ==
  \A c \in Customers : \A i \in 1..Len(ledger[c]) : Backed(c, ledger[c][i])

Debited(w) == \E i \in 1..Len(ledger[w[1]]) : ledger[w[1]][i].ref = WindowRef(w)

\* A window that was settled at the counter is never debited from the wallet
\* afterwards, though both kinds of pay request may be under way together.
PaidWindowNotDebited ==
  [][\A w \in Windows : Debited(w)' /\ ~Debited(w) => window[w].status = "issued"]_vars

\* A customer on token access gets a window for the month, however API and
\* worker race to generate them, unless the customer leaves token access or
\* the month is over first.
TokenCustomersAreBilled ==
  \A w \in Windows :
    (status[w[1]] = "token" /\ month = w[2])
      ~> (window[w].status # "none" \/ status[w[1]] # "token" \/ month # w[2])

\* What a row books: the payment or window it refers to; an adjustment has no
\* such reference and is its own.
Booking(c, i) ==
  IF ledger[c][i].ref = NoRef THEN <<"adjustment", c, i>> ELSE ledger[c][i].ref

Booked == UNION {{Booking(c, i) : i \in 1..Len(ledger[c])} : c \in Customers}

Account == INSTANCE AccountBook WITH
  funds <- balance, booked <- Booked, Fee <- MonthlyFee,
  Deposits <- {PaymentRef(r) : r \in TopupRefs},
  Charges <- {WindowRef(w) : w \in Windows},
  Corrections <- {"adjustment"} \X Customers \X Nat

\* The wallet implements the account book: every change of a balance, in any
\* interleaving of requests, is one new booking with its ledger row.
ImplementsAccountBook == Account!Spec

-------------------------------------------------------------------------------
(* What documents and comments say and the code does not do.               *)

\* billing.go:106-108: Settle "marks a pending payment as succeeded", "wallet
\* top-ups also credit the customer balance", "it is idempotent": a top-up that
\* is marked and no longer being settled has been credited.
SettledIsCredited ==
  \A r \in TopupRefs :
    payment[r].status = "succeeded" /\ (\A k \in Calls : call[k].ref # r)
      => PaymentRef(r) \in Booked

\* When it is true of the code: no execution is cut off between the update and
\* the credit, and no top-up nets nothing.
CreditsFollowMarks ==
  [][\A k \in Calls, r \in TopupRefs :
       Crediting(k, r) => ~SettleAborted(k) /\ payment[r].net > 0]_vars

================================================================================
