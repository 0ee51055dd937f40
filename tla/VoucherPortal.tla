----------------------------- MODULE VoucherPortal -----------------------------
(***************************************************************************)
(* Vouchers and the captive portal: batches of vouchers are created, a     *)
(* guest's redeem request turns one into a session, staff may revoke it.   *)
(*                                                                         *)
(* PortalPostRedeem is one handler but many statements: it reads the       *)
(* tenant, the voucher, the hotspot and the router one after the other,    *)
(* then charges, then redeems, each in a transaction of its own.  Every    *)
(* request is a process with a program counter at the statement it is      *)
(* about to run; everything it has read may have changed by then.          *)
(***************************************************************************)
EXTENDS FiniteSets, Integers

CONSTANTS
  Batches,      \* ids of voucher_batches, in one tenant
  Vouchers,     \* ids of vouchers; both kinds of ids are plain numbers
  BatchOf,      \* vouchers.batch_id
  Priced,       \* the batches with a price > 0
  Requests,     \* redeem requests that may arrive, one guest each
  Synchronous,  \* the requests that are served with the mock provider configured, the
                \* others with the sandbox provider
  Unreadable    \* the requests whose read of the batch may fail, as any other

ASSUME BatchAssumption ==
  /\ BatchOf \in [Vouchers -> Batches]
  /\ Priced \subseteq Batches
  /\ Synchronous \subseteq Requests
  /\ Unreadable \subseteq Requests

VARIABLES
  voucher,    \* vouchers.status; "none" before its batch is created
  expired,    \* the vouchers whose expires_at has passed
  payment,    \* payments.status of the charge a request made
  session,    \* sessions.state of the session a request opened
  request,    \* the redeem requests
  blocked     \* what turns guests away: tenant, hotspot, router

vars == <<voucher, expired, payment, session, request, blocked>>

\* No code path writes 'expired'; expiry is derived from expires_at.
VoucherStatuses == {"none", "unused", "redeemed", "revoked"}

\* The statement a request runs next, and how it may end.
Steps == {"voucher", "hotspot", "router", "charge", "settle", "mark",
          "redeem", "seed"}
Ends == {"served", "refused", "failed"}

\* The tenant is not active, the hotspot disabled, the router offline.
Obstacles == {"tenant", "hotspot", "router"}

Init ==
  /\ voucher = [v \in Vouchers |-> "none"]
  /\ expired = {}
  /\ payment = [q \in Requests |-> "none"]
  /\ session = [q \in Requests |-> "none"]
  /\ request \in [Requests -> [pc : {"idle"}, voucher : Vouchers]]
  /\ blocked = {}

IsPriced(v) == BatchOf[v] \in Priced

At(q, pc) == request[q].pc = pc
Goto(q, pc) == request' = [request EXCEPT ![q].pc = pc]

-------------------------------------------------------------------------------
(* Staff, time and the settings a request reads. *)

\* CreateBatch: the batch and all its vouchers in one transaction.
CreateBatch(b) ==
  /\ \A v \in Vouchers : BatchOf[v] = b => voucher[v] = "none"
  /\ voucher' = [v \in Vouchers |->
                   IF BatchOf[v] = b THEN "unused" ELSE voucher[v]]
  /\ UNCHANGED <<expired, payment, session, request, blocked>>

Expire(v) ==
  /\ voucher[v] # "none"
  /\ expired' = expired \cup {v}
  /\ UNCHANGED <<voucher, payment, session, request, blocked>>

\* PostVoucherRevoke, POST /batches/:id/vouchers/:vid/revoke: the voucher it
\* revokes is the one whose id is the route's "id", the batch's.
PostVoucherRevoke(b, v) ==
  /\ BatchOf[v] = b
  /\ voucher' = IF b \in Vouchers /\ voucher[b] = "unused"
                THEN [voucher EXCEPT ![b] = "revoked"] ELSE voucher
  /\ UNCHANGED <<expired, payment, session, request, blocked>>

\* The tenant, the hotspot or the router becomes (un)available.
ToggleObstacle(o) ==
  /\ blocked' = IF o \in blocked THEN blocked \ {o} ELSE blocked \cup {o}
  /\ UNCHANGED <<voucher, expired, payment, session, request>>

-------------------------------------------------------------------------------
(* PortalPostRedeem. *)

requestOnly == UNCHANGED <<voucher, expired, payment, session, blocked>>

ReadTenant(q) ==
  /\ At(q, "idle")
  /\ Goto(q, IF "tenant" \in blocked THEN "refused" ELSE "voucher")
  /\ requestOnly

\* Mutant: the status switch without its 'redeemed' case.
ReadVoucherIgnoringUse(q) ==
  /\ At(q, "voucher")
  /\ LET v == request[q].voucher IN
     Goto(q, IF v \in expired \/ voucher[v] \in {"none", "revoked"}
             THEN "refused" ELSE "hotspot")
  /\ requestOnly

\* VoucherByCode, then the checks on expires_at and status.
ReadVoucher(q) ==
  /\ At(q, "voucher")
  /\ LET v == request[q].voucher IN
     Goto(q, IF v \in expired \/ voucher[v] # "unused" THEN "refused" ELSE "hotspot")
  /\ requestOnly

ReadHotspot(q) ==
  /\ At(q, "hotspot")
  /\ Goto(q, IF "hotspot" \in blocked THEN "refused" ELSE "router")
  /\ requestOnly

\* Mutant: the charge skipped for every batch.
ProbeRouterFree(q) ==
  /\ At(q, "router")
  /\ Goto(q, IF "router" \in blocked THEN "refused" ELSE "redeem")
  /\ requestOnly

\* ProbeWithTime; then the profile and the batch are read, whose price decides
\* on the charge.  A batch that could not be read is taken for a free one.
ProbeRouter(q) ==
  /\ At(q, "router")
  /\ IF "router" \in blocked
     THEN Goto(q, "refused")
     ELSE \/ Goto(q, IF IsPriced(request[q].voucher) THEN "charge" ELSE "redeem")
          \/ q \in Unreadable /\ Goto(q, "redeem")
  /\ requestOnly

\* Billing.Charge: the payment row; a synchronous provider settles it next.
Charge(q) ==
  /\ At(q, "charge")
  /\ payment' = [payment EXCEPT ![q] = "pending"]
  /\ Goto(q, IF q \in Synchronous THEN "settle" ELSE "redeem")
  /\ UNCHANGED <<voucher, expired, session, blocked>>

\* Settle reads the payment; a settled one is returned as it is.
SettleRead(q) ==
  /\ At(q, "settle")
  /\ Goto(q, IF payment[q] = "succeeded" THEN "redeem" ELSE "mark")
  /\ requestOnly

\* UpdatePaymentStatus; when a webhook settled the payment since the read it
\* is an error that ends the request, charged as it is.
SettleMark(q) ==
  /\ At(q, "mark")
  /\ payment' = [payment EXCEPT ![q] = "succeeded"]
  /\ Goto(q, IF payment[q] = "pending" THEN "redeem" ELSE "failed")
  /\ UNCHANGED <<voucher, expired, session, blocked>>

\* PostPaymentComplete: the gateway's webhook settles a pending charge.
PostPaymentComplete(q) ==
  /\ payment[q] = "pending"
  /\ payment' = [payment EXCEPT ![q] = "succeeded"]
  /\ UNCHANGED <<voucher, expired, session, request, blocked>>

\* Mutants: the UPDATE without "status='unused'"; without its row count.
RedeemVoucherAgain(q) ==
  /\ At(q, "redeem")
  /\ voucher' = [voucher EXCEPT ![request[q].voucher] = "redeemed"]
  /\ session' = [session EXCEPT ![q] = "active"]
  /\ Goto(q, "seed")
  /\ UNCHANGED <<expired, payment, blocked>>

RedeemVoucherUncounted(q) ==
  /\ At(q, "redeem")
  /\ voucher' = [voucher EXCEPT ![request[q].voucher] =
       IF @ = "unused" THEN "redeemed" ELSE @]
  /\ session' = [session EXCEPT ![q] = "active"]
  /\ Goto(q, "seed")
  /\ UNCHANGED <<expired, payment, blocked>>

\* RedeemVoucher, one transaction: mark an unused voucher redeemed and open its
\* session, or change nothing.
RedeemVoucher(q) ==
  /\ At(q, "redeem")
  /\ LET v == request[q].voucher IN
     IF voucher[v] = "unused"
     THEN /\ voucher' = [voucher EXCEPT ![v] = "redeemed"]
          /\ session' = [session EXCEPT ![q] = "active"]
          /\ Goto(q, "seed")
     ELSE /\ Goto(q, "refused")
          /\ UNCHANGED <<voucher, session>>
  /\ UNCHANGED <<expired, payment, blocked>>

\* The session is put on the router and the guest gets its credentials.
SeedSessions(q) ==
  /\ At(q, "seed")
  /\ Goto(q, "served")
  /\ requestOnly

\* The process dies, the guest hangs up or a statement fails.
Aborted(q) ==
  /\ request[q].pc \in Steps
  /\ Goto(q, "failed")
  /\ requestOnly

\* Mutant: the session left in a state nothing takes it out of.
CloseSessionHalfway(q) ==
  /\ session[q] = "active"
  /\ session' = [session EXCEPT ![q] = "closing"]
  /\ UNCHANGED <<voucher, expired, payment, request, blocked>>

\* CloseSession, by the worker or by staff.
CloseSession(q) ==
  /\ session[q] = "active"
  /\ session' = [session EXCEPT ![q] = "closed"]
  /\ UNCHANGED <<voucher, expired, payment, request, blocked>>

-------------------------------------------------------------------------------
StaffNext ==
  \/ \E b \in Batches :
       CreateBatch(b) \/ (\E v \in Vouchers : PostVoucherRevoke(b, v))
  \/ \E v \in Vouchers : Expire(v)
  \/ \E o \in Obstacles : ToggleObstacle(o)

RedeemNext(q) ==
  \/ ReadTenant(q) \/ ReadVoucher(q) \/ ReadHotspot(q) \/ ProbeRouter(q)
  \/ Charge(q) \/ SettleRead(q) \/ SettleMark(q)
  \/ RedeemVoucher(q) \/ SeedSessions(q) \/ Aborted(q)

Next ==
  \/ StaffNext
  \/ \E q \in Requests :
       RedeemNext(q) \/ PostPaymentComplete(q) \/ CloseSession(q)

Spec == Init /\ [][Next]_vars

-------------------------------------------------------------------------------
(* Properties. *)

TypeOK ==
  /\ voucher \in [Vouchers -> VoucherStatuses]
  /\ expired \subseteq Vouchers
  /\ payment \in [Requests -> {"none", "pending", "succeeded"}]
  /\ session \in [Requests -> {"none", "active", "closed"}]
  /\ request \in [Requests -> [pc : {"idle"} \cup Steps \cup Ends, voucher : Vouchers]]
  /\ blocked \subseteq Obstacles

Opened(v) == {q \in Requests : request[q].voucher = v /\ session[q] # "none"}

\* However many guests redeem a code at once, and whatever staff revoke
\* meanwhile: a voucher is marked redeemed exactly when a session was opened
\* with it, and no two sessions ever are (RedeemVoucher decides by the row
\* count of a conditional UPDATE, in the transaction that opens the session).
RedeemedOnce ==
  /\ \A v \in Vouchers : voucher[v] = "redeemed" <=> Opened(v) # {}
  /\ \A p, q \in Requests :
       /\ session[p] # "none" /\ session[q] # "none"
       /\ request[p].voucher = request[q].voucher
       => p = q

\* As long as its batch can be read: with the synchronous provider nobody gets a
\* session on a priced voucher without having paid for it himself, though
\* payment and redemption are separate transactions and other guests pay for the
\* same voucher; with the asynchronous one he has at least been charged.
SessionIsPaid ==
  \A q \in Requests \ Unreadable :
    session[q] # "none" /\ IsPriced(request[q].voucher)
      => IF q \in Synchronous THEN payment[q] = "succeeded" ELSE payment[q] # "none"

\* The handler charges before it redeems, so guests who race for a voucher may
\* all be charged.  But a guest whose request looks the code up after it was
\* redeemed, revoked or expired is never charged.
LateGuestNotCharged ==
  \A q \in Requests :
    [](At(q, "voucher")
         /\ (\/ voucher[request[q].voucher] \in {"redeemed", "revoked"}
             \/ request[q].voucher \in expired)
       => [](payment[q] = "none"))

\* What has become of each voucher, and who used it, as VoucherUse sees them.
FateOfStatus(status) ==
  CASE status = "none" -> "fresh"
    [] status = "unused" -> "live"
    [] status = "redeemed" -> "used"
    [] status = "revoked" -> "void"

Fate == [v \in Vouchers |-> FateOfStatus(voucher[v])]

UsedBy == {<<request[q].voucher, q>> : q \in {p \in Requests : session[p] # "none"}}

Use == INSTANCE VoucherUse WITH Guests <- Requests, state <- Fate, used <- UsedBy

\* The portal implements the voucher's promise.
ImplementsVoucherUse == Use!Spec

================================================================================
