-------------------------- MODULE VoucherPortalProofs --------------------------
(***************************************************************************)
(* Proofs about VoucherPortal, for every set of batches, vouchers and      *)
(* redeem requests, whatever has a price, and for both providers.          *)
(***************************************************************************)
EXTENDS VoucherPortal, TLAPS

\* Every variable keeps its type (the statuses are those the code writes).
THEOREM TypeCorrect == Spec => []TypeOK
<1>1. Init => TypeOK
  BY DEF Init, TypeOK, VoucherStatuses
<1>2. TypeOK /\ [Next]_vars => TypeOK'
  <2> SUFFICES ASSUME TypeOK, [Next]_vars PROVE TypeOK'
    OBVIOUS
  <2> USE DEF TypeOK
  <2>1. ASSUME StaffNext PROVE TypeOK'
    <3>1. ASSUME NEW b \in Batches, CreateBatch(b) PROVE TypeOK'
      BY <3>1 DEF CreateBatch, VoucherStatuses
    <3>2. ASSUME NEW b \in Batches, NEW v \in Vouchers, PostVoucherRevoke(b, v)
          PROVE TypeOK'
      BY <3>2 DEF PostVoucherRevoke, VoucherStatuses
    <3>3. ASSUME NEW v \in Vouchers, Expire(v) PROVE TypeOK'
      BY <3>3 DEF Expire
    <3>4. ASSUME NEW o \in Obstacles, ToggleObstacle(o) PROVE TypeOK'
      BY <3>4 DEF ToggleObstacle
    <3>5. QED
      BY <2>1, <3>1, <3>2, <3>3, <3>4 DEF StaffNext
  <2>2. ASSUME NEW q \in Requests, RedeemNext(q) PROVE TypeOK'
    <3> USE DEF Goto, At, requestOnly, Steps, Ends
    <3>1. ASSUME ReadTenant(q) \/ ReadVoucher(q) \/ ReadHotspot(q) \/ ProbeRouter(q)
          PROVE TypeOK'
      BY <3>1 DEF ReadTenant, ReadVoucher, ReadHotspot, ProbeRouter
    <3>2. ASSUME Charge(q) \/ SettleRead(q) \/ SettleMark(q) PROVE TypeOK'
      BY <3>2 DEF Charge, SettleRead, SettleMark
    <3>3. ASSUME RedeemVoucher(q) PROVE TypeOK'
      BY <3>3 DEF RedeemVoucher, VoucherStatuses
    <3>4. ASSUME SeedSessions(q) \/ Aborted(q) PROVE TypeOK'
      BY <3>4 DEF SeedSessions, Aborted
    <3>5. QED
      BY <2>2, <3>1, <3>2, <3>3, <3>4 DEF RedeemNext
  <2>3. ASSUME NEW q \in Requests, PostPaymentComplete(q) \/ CloseSession(q)
        PROVE TypeOK'
    BY <2>3 DEF PostPaymentComplete, CloseSession
  <2>4. CASE UNCHANGED vars
    BY <2>4 DEF vars
  <2>5. QED
    BY <2>1, <2>2, <2>3, <2>4 DEF Next
<1>3. QED
  BY <1>1, <1>2, PTL DEF Spec

-------------------------------------------------------------------------------
(* The inductive invariant.                                                *)

\* A request that is past its charge has paid what there was to pay, if batches
\* can be read, and only such a request has a session.
PaidInTime ==
  \A q \in Requests :
    /\ session[q] # "none" => request[q].pc \in {"seed", "served", "failed"}
    /\ /\ request[q].pc \in {"redeem", "seed", "served"} \/ session[q] # "none"
       /\ q \notin Unreadable /\ IsPriced(request[q].voucher)
       => IF q \in Synchronous THEN payment[q] = "succeeded" ELSE payment[q] # "none"

IInv == TypeOK /\ RedeemedOnce /\ PaidInTime

LEMMA IInvInit == Init => IInv
<1>1. Init => TypeOK
  BY DEF Init, TypeOK, VoucherStatuses
<1>2. Init => RedeemedOnce
  BY DEF Init, RedeemedOnce, Opened
<1>3. Init => PaidInTime
  BY DEF Init, PaidInTime
<1>4. QED
  BY <1>1, <1>2, <1>3 DEF IInv

\* A request keeps its voucher; it moves on from one statement to the next.
LEMMA GotoKeeps ==
  ASSUME TypeOK, NEW q \in Requests, NEW pc, Goto(q, pc)
  PROVE  /\ request'[q] = [request[q] EXCEPT !.pc = pc]
         /\ \A p \in Requests : p # q => request'[p] = request[p]
         /\ \A p \in Requests : request'[p].voucher = request[p].voucher
         /\ request'[q].pc = pc
  BY DEF Goto, TypeOK

\* Nothing that leaves vouchers and sessions alone and only moves a request on
\* can break RedeemedOnce.
LEMMA OnceKept ==
  ASSUME RedeemedOnce,
         \A v \in Vouchers : voucher'[v] = "redeemed" <=> voucher[v] = "redeemed",
         \A q \in Requests : /\ session'[q] = "none" <=> session[q] = "none"
                             /\ request'[q].voucher = request[q].voucher
  PROVE  RedeemedOnce'
<1>1. \A v \in Vouchers : Opened(v)' = Opened(v)
  BY DEF Opened
<1>2. QED
  BY <1>1 DEF RedeemedOnce

LEMMA RedeemedOnceStep ==
  ASSUME TypeOK, RedeemedOnce, [Next]_vars
  PROVE  RedeemedOnce'
<1>1. ASSUME NEW b \in Batches, CreateBatch(b) PROVE RedeemedOnce'
  <2>1. \A v \in Vouchers : voucher'[v] = "redeemed" <=> voucher[v] = "redeemed"
    BY <1>1 DEF CreateBatch, TypeOK
  <2>2. QED
    BY <1>1, <2>1, OnceKept DEF CreateBatch
<1>2. ASSUME NEW b \in Batches, NEW v \in Vouchers, PostVoucherRevoke(b, v)
      PROVE RedeemedOnce'
  <2>1. \A w \in Vouchers : voucher'[w] = "redeemed" <=> voucher[w] = "redeemed"
    BY <1>2 DEF PostVoucherRevoke, TypeOK
  <2>2. QED
    BY <1>2, <2>1, OnceKept DEF PostVoucherRevoke
<1>3. ASSUME NEW q \in Requests, RedeemVoucher(q) PROVE RedeemedOnce'
  <2>1. PICK v \in Vouchers : v = request[q].voucher
    BY DEF TypeOK
  <2>2. \A p \in Requests : request'[p].voucher = request[p].voucher
    <3>1. \E pc : Goto(q, pc)
      BY <1>3 DEF RedeemVoucher
    <3>2. QED
      BY <3>1, GotoKeeps
  <2>3. CASE voucher[v] = "unused"
    <3>1. /\ voucher' = [voucher EXCEPT ![v] = "redeemed"]
          /\ session' = [session EXCEPT ![q] = "active"]
      BY <1>3, <2>1, <2>3 DEF RedeemVoucher
    <3>2. Opened(v) = {}
      BY <2>3 DEF RedeemedOnce
    <3>3. ASSUME NEW w \in Vouchers, w # v PROVE Opened(w)' = Opened(w)
      <4>1. \A p \in Requests :
              request[p].voucher = w => session'[p] = session[p]
        BY <2>1, <3>1, <3>3 DEF TypeOK
      <4>2. QED
        BY <2>2, <4>1 DEF Opened
    <3>4. Opened(v)' = {q}
      <4>1. request'[q].voucher = v /\ session'[q] # "none"
        BY <2>1, <2>2, <3>1 DEF TypeOK
      <4>2. ASSUME NEW p \in Requests, p # q, request'[p].voucher = v
            PROVE  session'[p] = "none"
        <5>1. session'[p] = session[p] /\ request[p].voucher = v
          BY <2>2, <3>1, <4>2 DEF TypeOK
        <5>2. QED
          BY <3>2, <5>1 DEF Opened
      <4>3. \A p \in Requests :
              request'[p].voucher = v /\ session'[p] # "none" <=> p = q
        BY <4>1, <4>2
      <4>4. QED
        BY <4>3 DEF Opened
    <3>5. ASSUME NEW w \in Vouchers
          PROVE  voucher'[w] = "redeemed" <=> Opened(w)' # {}
      <4>1. CASE w = v
        BY <3>1, <3>4, <4>1 DEF TypeOK
      <4>2. CASE w # v
        <5>1. voucher'[w] = voucher[w] /\ Opened(w)' = Opened(w)
          BY <3>1, <3>3, <4>2 DEF TypeOK
        <5>2. QED
          BY <5>1 DEF RedeemedOnce
      <4>3. QED
        BY <4>1, <4>2
    <3>6. ASSUME NEW p \in Requests, NEW r \in Requests,
                 session'[p] # "none", session'[r] # "none",
                 request'[p].voucher = request'[r].voucher
          PROVE  p = r
      <4>1. CASE request[p].voucher = v
        BY <2>2, <3>4, <3>6, <4>1 DEF Opened
      <4>2. CASE request[p].voucher # v
        <5>1. p # q /\ r # q
          BY <2>1, <2>2, <3>6, <4>2
        <5>2. session[p] # "none" /\ session[r] # "none"
          BY <3>1, <3>6, <5>1 DEF TypeOK
        <5>3. QED
          BY <2>2, <3>6, <5>2 DEF RedeemedOnce
      <4>3. QED
        BY <4>1, <4>2
    <3>7. QED
      BY <3>5, <3>6 DEF RedeemedOnce
  <2>4. CASE voucher[v] # "unused"
    BY <1>3, <2>1, <2>2, <2>4, OnceKept DEF RedeemVoucher
  <2>5. QED
    BY <2>3, <2>4
<1>4. ASSUME NEW q \in Requests, CloseSession(q) PROVE RedeemedOnce'
  BY <1>4, OnceKept DEF CloseSession, TypeOK
<1>5. ASSUME UNCHANGED <<voucher, session>>,
             UNCHANGED request \/ (\E q \in Requests : \E pc : Goto(q, pc))
      PROVE RedeemedOnce'
  <2>1. \A p \in Requests : request'[p].voucher = request[p].voucher
    BY <1>5, GotoKeeps
  <2>2. QED
    BY <1>5, <2>1, OnceKept
<1>6. ASSUME NEW q \in Requests,
             \/ ReadTenant(q) \/ ReadVoucher(q) \/ ReadHotspot(q) \/ ProbeRouter(q)
             \/ Charge(q) \/ SettleRead(q) \/ SettleMark(q) \/ SeedSessions(q)
             \/ Aborted(q)
      PROVE RedeemedOnce'
  <2>1. (\E pc : Goto(q, pc)) /\ UNCHANGED <<voucher, session>>
    BY <1>6 DEF ReadTenant, ReadVoucher, ReadHotspot, ProbeRouter, Charge,
                SettleRead, SettleMark, SeedSessions, Aborted, requestOnly
  <2>2. QED
    BY <1>5, <2>1
<1>7. ASSUME \/ \E v \in Vouchers : Expire(v)
             \/ \E o \in Obstacles : ToggleObstacle(o)
             \/ \E q \in Requests : PostPaymentComplete(q)
             \/ UNCHANGED vars
      PROVE RedeemedOnce'
  BY <1>5, <1>7 DEF Expire, ToggleObstacle, PostPaymentComplete, vars
<1>8. QED
  BY <1>1, <1>2, <1>3, <1>4, <1>6, <1>7 DEF Next, StaffNext, RedeemNext

\* What PaidInTime says of one request.
LEMMA PaidStep ==
  ASSUME TypeOK, PaidInTime, [Next]_vars
  PROVE  PaidInTime'
<1> USE BatchAssumption
\* A step of one request leaves what is known of the others.
<1>1. ASSUME NEW q \in Requests, NEW pc, Goto(q, pc),
             \A p \in Requests : p # q =>
               payment'[p] = payment[p] /\ session'[p] = session[p],
             session'[q] # "none" => pc \in {"seed", "served", "failed"},
             /\ pc \in {"redeem", "seed", "served"} \/ session'[q] # "none"
             /\ q \notin Unreadable /\ IsPriced(request[q].voucher)
             => IF q \in Synchronous THEN payment'[q] = "succeeded" ELSE payment'[q] # "none"
      PROVE  PaidInTime'
  <2>1. /\ request'[q].voucher = request[q].voucher /\ request'[q].pc = pc
        /\ \A p \in Requests : p # q => request'[p] = request[p]
    BY <1>1, GotoKeeps
  <2> SUFFICES ASSUME NEW p \in Requests
               PROVE  /\ session'[p] # "none" => request'[p].pc \in {"seed", "served", "failed"}
                      /\ /\ request'[p].pc \in {"redeem", "seed", "served"} \/ session'[p] # "none"
                         /\ p \notin Unreadable /\ IsPriced(request'[p].voucher)
                         => IF p \in Synchronous THEN payment'[p] = "succeeded"
                                           ELSE payment'[p] # "none"
    BY DEF PaidInTime, IsPriced
  <2>2. CASE p = q
    BY <1>1, <2>1, <2>2
  <2>3. CASE p # q
    BY <1>1, <2>1, <2>3 DEF PaidInTime
  <2>4. QED
    BY <2>2, <2>3
\* So does one that leaves the requests alone, and takes no payment back.
<1>2. ASSUME UNCHANGED request,
             \A q \in Requests : /\ session'[q] = "none" <=> session[q] = "none"
                                 /\ payment'[q] \in {payment[q], "succeeded"}
      PROVE  PaidInTime'
  BY <1>2 DEF PaidInTime, IsPriced
<1>3. ASSUME StaffNext PROVE PaidInTime'
  BY <1>2, <1>3 DEF StaffNext, CreateBatch, PostVoucherRevoke, Expire, ToggleObstacle
<1>4. ASSUME NEW q \in Requests, RedeemNext(q) PROVE PaidInTime'
  <2>1. CASE ReadTenant(q) \/ ReadVoucher(q) \/ ReadHotspot(q)
    <3>1. PICK pc : /\ Goto(q, pc)
                    /\ pc \in {"voucher", "hotspot", "router", "refused"}
                    /\ request[q].pc \in {"idle", "voucher", "hotspot"}
      BY <2>1 DEF ReadTenant, ReadVoucher, ReadHotspot, At
    <3>2. UNCHANGED <<payment, session>>
      BY <2>1 DEF ReadTenant, ReadVoucher, ReadHotspot, requestOnly
    <3>3. session[q] = "none"
      BY <3>1 DEF PaidInTime
    <3>4. QED
      BY <1>1, <3>1, <3>2, <3>3
  <2>2. CASE ProbeRouter(q)
    <3>1. PICK pc : /\ Goto(q, pc)
                    /\ pc \in {"refused", "charge", "redeem"}
                    /\ pc = "redeem" => ~(q \notin Unreadable /\ IsPriced(request[q].voucher))
      BY <2>2 DEF ProbeRouter
    <3>2. UNCHANGED <<payment, session>> /\ session[q] = "none"
      BY <2>2 DEF ProbeRouter, requestOnly, At, PaidInTime
    <3>3. QED
      BY <1>1, <3>1, <3>2
  <2>3. CASE Charge(q)
    <3>1. PICK pc : /\ Goto(q, pc)
                    /\ pc = IF q \in Synchronous THEN "settle" ELSE "redeem"
      BY <2>3 DEF Charge
    <3>2. payment' = [payment EXCEPT ![q] = "pending"] /\ UNCHANGED session
      BY <2>3 DEF Charge
    <3>3. session[q] = "none"
      BY <2>3 DEF Charge, At, PaidInTime
    <3>4. payment'[q] = "pending" /\ \A p \in Requests : p # q => payment'[p] = payment[p]
      BY <3>2 DEF TypeOK
    <3>5. QED
      BY <1>1, <3>1, <3>2, <3>3, <3>4
  <2>4. CASE SettleRead(q)
    <3>1. PICK pc : /\ Goto(q, pc)
                    /\ pc \in {"redeem", "mark"}
                    /\ pc = "redeem" => payment[q] = "succeeded"
      BY <2>4 DEF SettleRead
    <3>2. UNCHANGED <<payment, session>> /\ session[q] = "none"
      BY <2>4 DEF SettleRead, requestOnly, At, PaidInTime
    <3>3. QED
      BY <1>1, <3>1, <3>2
  <2>5. CASE SettleMark(q)
    <3>1. PICK pc : Goto(q, pc) /\ pc \in {"redeem", "failed"}
      BY <2>5 DEF SettleMark
    <3>2. payment' = [payment EXCEPT ![q] = "succeeded"] /\ UNCHANGED session
      BY <2>5 DEF SettleMark
    <3>3. session[q] = "none"
      BY <2>5 DEF SettleMark, At, PaidInTime
    <3>4. payment'[q] = "succeeded" /\ \A p \in Requests : p # q => payment'[p] = payment[p]
      BY <3>2 DEF TypeOK
    <3>5. QED
      BY <1>1, <3>1, <3>2, <3>3, <3>4
  <2>6. CASE RedeemVoucher(q)
    <3>1. PICK pc : Goto(q, pc) /\ pc \in {"seed", "refused"}
                    /\ (pc = "refused" => UNCHANGED session)
                    /\ (pc = "seed" => session' = [session EXCEPT ![q] = "active"])
      BY <2>6 DEF RedeemVoucher
    <3>2. UNCHANGED payment
      BY <2>6 DEF RedeemVoucher
    <3>3. /\ session[q] = "none"
          /\ q \notin Unreadable /\ IsPriced(request[q].voucher)
             => IF q \in Synchronous THEN payment[q] = "succeeded" ELSE payment[q] # "none"
      BY <2>6 DEF RedeemVoucher, At, PaidInTime
    <3>4. \A p \in Requests : p # q => session'[p] = session[p]
      BY <3>1 DEF TypeOK
    <3>5. QED
      BY <1>1, <3>1, <3>2, <3>3, <3>4
  <2>7. CASE SeedSessions(q) \/ Aborted(q)
    <3>1. PICK pc : /\ Goto(q, pc)
                    /\ pc \in {"served", "failed"}
                    /\ pc = "served" => request[q].pc = "seed"
      BY <2>7 DEF SeedSessions, Aborted, At
    <3>2. UNCHANGED <<payment, session>>
      BY <2>7 DEF SeedSessions, Aborted, requestOnly
    <3>3. QED
      BY <1>1, <3>1, <3>2 DEF PaidInTime
  <2>8. QED
    BY <1>4, <2>1, <2>2, <2>3, <2>4, <2>5, <2>6, <2>7 DEF RedeemNext
<1>5. ASSUME NEW q \in Requests, PostPaymentComplete(q) PROVE PaidInTime'
  BY <1>2, <1>5 DEF PostPaymentComplete, TypeOK
<1>6. ASSUME NEW q \in Requests, CloseSession(q) PROVE PaidInTime'
  BY <1>2, <1>6 DEF CloseSession, TypeOK
<1>7. CASE UNCHANGED vars
  BY <1>2, <1>7 DEF vars
<1>8. QED
  BY <1>3, <1>4, <1>5, <1>6, <1>7 DEF Next

-------------------------------------------------------------------------------
(* The theorems.                                                           *)

LEMMA Inductive == Spec => []IInv
<1>1. IInv /\ TypeOK' /\ [Next]_vars => IInv'
  BY RedeemedOnceStep, PaidStep DEF IInv
<1>2. QED
  BY <1>1, IInvInit, TypeCorrect, PTL DEF Spec

\* However many guests redeem the same code, and whatever fails in between, a
\* voucher opens at most one session, and is marked redeemed exactly when it did
\* (the conditional UPDATE of RedeemVoucher).
THEOREM VoucherRedeemedOnce == Spec => []RedeemedOnce
<1>1. IInv => RedeemedOnce
  BY DEF IInv
<1>2. QED
  BY <1>1, Inductive, PTL

\* No guest has a session on a priced voucher without a charge of his own, which
\* is settled when the provider is synchronous (if batches can be read).
THEOREM GuestHasPaid == Spec => []SessionIsPaid
<1>1. IInv => SessionIsPaid
  BY DEF IInv, PaidInTime, SessionIsPaid
<1>2. QED
  BY <1>1, Inductive, PTL

-------------------------------------------------------------------------------
(* The refinement.                                                         *)

\* A step that leaves the statuses and the sessions alone is a stutter.
LEMMA UseStutters ==
  ASSUME UNCHANGED voucher,
         \A q \in Requests : /\ session'[q] = "none" <=> session[q] = "none"
                             /\ request'[q].voucher = request[q].voucher
  PROVE  UNCHANGED <<Fate, UsedBy>>
<1>1. Fate' = Fate
  BY DEF Fate
<1>2. UsedBy' = UsedBy
  BY DEF UsedBy
<1>3. QED
  BY <1>1, <1>2

\* The abstract fate of a voucher, status by status.
LEMMA FateOf ==
  ASSUME TypeOK, NEW v \in Vouchers
  PROVE  /\ voucher[v] = "none" <=> Fate[v] = "fresh"
         /\ voucher[v] = "unused" <=> Fate[v] = "live"
         /\ voucher[v] = "redeemed" <=> Fate[v] = "used"
         /\ voucher[v] = "revoked" <=> Fate[v] = "void"
<1>1. voucher[v] \in {"none", "unused", "redeemed", "revoked"}
  BY DEF TypeOK, VoucherStatuses
<1>2. QED
  BY <1>1 DEF Fate, FateOfStatus

LEMMA UseStep ==
  ASSUME IInv, TypeOK', [Next]_vars
  PROVE  [Use!Next]_<<Fate, UsedBy>>
<1> USE DEF IInv
<1>1. ASSUME NEW b \in Batches, CreateBatch(b) PROVE Use!Next
  <2>1. PICK batch \in SUBSET Vouchers : batch = {v \in Vouchers : BatchOf[v] = b}
    OBVIOUS
  <2>2. \A v \in batch : Fate[v] = "fresh"
    BY <1>1, <2>1, FateOf DEF CreateBatch
  <2>3. \A v \in Vouchers :
          voucher'[v] = IF v \in batch THEN "unused" ELSE voucher[v]
    BY <1>1, <2>1 DEF CreateBatch
  <2>4. Fate' = [v \in Vouchers |-> IF v \in batch THEN "live" ELSE Fate[v]]
    <3>1. FateOfStatus("unused") = "live"
      BY DEF FateOfStatus
    <3>2. QED
      BY <2>3, <3>1 DEF Fate
  <2>5. UsedBy' = UsedBy
    BY <1>1 DEF CreateBatch, UsedBy
  <2>6. QED
    BY <2>2, <2>4, <2>5 DEF Use!Next, Use!Issue
<1>2. ASSUME NEW b \in Batches, NEW v \in Vouchers, PostVoucherRevoke(b, v)
      PROVE  Use!Next \/ UNCHANGED <<Fate, UsedBy>>
  <2>1. CASE b \in Vouchers /\ voucher[b] = "unused"
    <3>1. voucher' = [voucher EXCEPT ![b] = "revoked"]
      BY <1>2, <2>1 DEF PostVoucherRevoke
    <3>2. Fate[b] = "live"
      BY <2>1, FateOf
    <3>3. Fate' = [Fate EXCEPT ![b] = "void"]
      <4>1. FateOfStatus("revoked") = "void"
        BY DEF FateOfStatus
      <4>2. \A w \in Vouchers :
              voucher'[w] = IF w = b THEN "revoked" ELSE voucher[w]
        BY <3>1 DEF TypeOK
      <4>3. QED
        BY <4>1, <4>2 DEF Fate
    <3>4. UsedBy' = UsedBy
      BY <1>2 DEF PostVoucherRevoke, UsedBy
    <3>5. QED
      BY <2>1, <3>2, <3>3, <3>4 DEF Use!Next, Use!MakeVoid
  <2>2. CASE ~(b \in Vouchers /\ voucher[b] = "unused")
    BY <1>2, <2>2, UseStutters DEF PostVoucherRevoke
  <2>3. QED
    BY <2>1, <2>2
<1>3. ASSUME NEW q \in Requests, RedeemVoucher(q)
      PROVE  Use!Next \/ UNCHANGED <<Fate, UsedBy>>
  <2>1. PICK v \in Vouchers : v = request[q].voucher
    BY DEF TypeOK
  <2>2. \A p \in Requests : request'[p].voucher = request[p].voucher
    <3>1. \E pc : Goto(q, pc)
      BY <1>3 DEF RedeemVoucher
    <3>2. QED
      BY <3>1, GotoKeeps
  <2>3. CASE voucher[v] = "unused"
    <3>1. /\ voucher' = [voucher EXCEPT ![v] = "redeemed"]
          /\ session' = [session EXCEPT ![q] = "active"]
      BY <1>3, <2>1, <2>3 DEF RedeemVoucher
    <3>2. session[q] = "none"
      BY <1>3 DEF RedeemVoucher, At, PaidInTime
    <3>3. Fate[v] = "live"
      BY <2>3, FateOf
    <3>4. Fate' = [Fate EXCEPT ![v] = "used"]
      <4>1. FateOfStatus("redeemed") = "used"
        BY DEF FateOfStatus
      <4>2. \A w \in Vouchers :
              voucher'[w] = IF w = v THEN "redeemed" ELSE voucher[w]
        BY <3>1 DEF TypeOK
      <4>3. QED
        BY <4>1, <4>2 DEF Fate
    <3>5. \A w \in Vouchers : <<w, q>> \notin UsedBy
      BY <3>2 DEF UsedBy
    <3>6. \A p \in Requests :
            session'[p] # "none" <=> session[p] # "none" \/ p = q
      BY <3>1 DEF TypeOK
    <3>7. UsedBy' = UsedBy \cup {<<v, q>>}
      BY <2>1, <2>2, <3>6 DEF UsedBy
    <3>8. QED
      BY <3>3, <3>4, <3>5, <3>7 DEF Use!Next, Use!Use
  <2>4. CASE voucher[v] # "unused"
    BY <1>3, <2>1, <2>2, <2>4, UseStutters DEF RedeemVoucher
  <2>5. QED
    BY <2>3, <2>4
<1>4. ASSUME NEW q \in Requests, CloseSession(q) PROVE UNCHANGED <<Fate, UsedBy>>
  BY <1>4, UseStutters DEF CloseSession, TypeOK
<1>5. ASSUME UNCHANGED <<voucher, session>>,
             UNCHANGED request \/ (\E q \in Requests : \E pc : Goto(q, pc))
      PROVE UNCHANGED <<Fate, UsedBy>>
  <2>1. \A p \in Requests : request'[p].voucher = request[p].voucher
    BY <1>5, GotoKeeps
  <2>2. QED
    BY <1>5, <2>1, UseStutters
<1>6. ASSUME NEW q \in Requests,
             \/ ReadTenant(q) \/ ReadVoucher(q) \/ ReadHotspot(q) \/ ProbeRouter(q)
             \/ Charge(q) \/ SettleRead(q) \/ SettleMark(q) \/ SeedSessions(q)
             \/ Aborted(q)
      PROVE UNCHANGED <<Fate, UsedBy>>
  <2>1. (\E pc : Goto(q, pc)) /\ UNCHANGED <<voucher, session>>
    BY <1>6 DEF ReadTenant, ReadVoucher, ReadHotspot, ProbeRouter, Charge,
                SettleRead, SettleMark, SeedSessions, Aborted, requestOnly
  <2>2. QED
    BY <1>5, <2>1
<1>7. ASSUME \/ \E v \in Vouchers : Expire(v)
             \/ \E o \in Obstacles : ToggleObstacle(o)
             \/ \E q \in Requests : PostPaymentComplete(q)
             \/ UNCHANGED vars
      PROVE UNCHANGED <<Fate, UsedBy>>
  BY <1>5, <1>7 DEF Expire, ToggleObstacle, PostPaymentComplete, vars
<1>8. QED
  BY <1>1, <1>2, <1>3, <1>4, <1>6, <1>7 DEF Next, StaffNext, RedeemNext

\* The portal keeps the promise of a voucher: issued once, then used by one
\* guest or made void, for good (RedeemVoucher, RevokeVoucher and CreateBatch
\* against one another and against everything else).
THEOREM PortalKeepsPromise == Spec => ImplementsVoucherUse
<1>1. Init => Use!Init
  BY DEF Init, Use!Init, Fate, FateOfStatus, UsedBy
<1>2. IInv /\ TypeOK' /\ [Next]_vars => [Use!Next]_<<Fate, UsedBy>>
  BY UseStep
<1>3. QED
  BY <1>1, <1>2, Inductive, TypeCorrect, PTL DEF Spec, ImplementsVoucherUse, Use!Spec

-------------------------------------------------------------------------------
(* Guests who come late.                                                   *)

Gone(v) == voucher[v] \in {"redeemed", "revoked"} \/ v \in expired

LEMMA GoneForGood ==
  ASSUME TypeOK, [Next]_vars, NEW v \in Vouchers, Gone(v)
  PROVE  Gone(v)'
<1> USE DEF TypeOK, Gone
<1>1. CASE StaffNext
  BY <1>1 DEF StaffNext, CreateBatch, PostVoucherRevoke, Expire, ToggleObstacle
<1>2. ASSUME NEW q \in Requests, RedeemVoucher(q) PROVE Gone(v)'
  BY <1>2 DEF RedeemVoucher
<1>3. ASSUME NEW q \in Requests, RedeemNext(q), ~RedeemVoucher(q) PROVE Gone(v)'
  BY <1>3 DEF RedeemNext, ReadTenant, ReadVoucher, ReadHotspot, ProbeRouter, Charge,
     SettleRead, SettleMark, SeedSessions, Aborted, requestOnly
<1>4. ASSUME NEW q \in Requests, PostPaymentComplete(q) \/ CloseSession(q) PROVE Gone(v)'
  BY <1>4 DEF PostPaymentComplete, CloseSession
<1>5. CASE UNCHANGED vars
  BY <1>5 DEF vars
<1> QED  BY <1>1, <1>2, <1>3, <1>4, <1>5 DEF Next

\* Nobody is charged before the step that charges.
UnchargedBefore(q) ==
  request[q].pc \in {"idle", "voucher", "hotspot", "router", "charge"} => payment[q] = "none"

\* A guest who found nothing to redeem, or is about to.
Lost(q) ==
  /\ payment[q] = "none"
  /\ request[q].pc \in {"voucher", "refused", "failed"}
  /\ At(q, "voucher") => Gone(request[q].voucher)

\* What another request does, and what is not a request's step.
LEMMA OthersLeave ==
  ASSUME TypeOK, [Next]_vars, NEW q \in Requests, ~RedeemNext(q)
  PROVE  /\ request'[q] = request[q]
         /\ payment[q] = "none" => payment'[q] = "none"
<1> USE DEF TypeOK, Goto
<1>1. CASE StaffNext
  BY <1>1 DEF StaffNext, CreateBatch, PostVoucherRevoke, Expire, ToggleObstacle
<1>2. ASSUME NEW p \in Requests, p # q, RedeemNext(p)
      PROVE  request'[q] = request[q] /\ payment'[q] = payment[q]
  BY <1>2 DEF RedeemNext, ReadTenant, ReadVoucher, ReadHotspot, ProbeRouter, Charge,
     SettleRead, SettleMark, RedeemVoucher, SeedSessions, Aborted, requestOnly
<1>3. ASSUME NEW p \in Requests, PostPaymentComplete(p) \/ CloseSession(p)
      PROVE  request'[q] = request[q] /\ (payment[q] = "none" => payment'[q] = "none")
  BY <1>3 DEF PostPaymentComplete, CloseSession
<1>4. CASE UNCHANGED vars
  BY <1>4 DEF vars
<1> QED  BY <1>1, <1>2, <1>3, <1>4 DEF Next

LEMMA UnchargedStep ==
  ASSUME TypeOK, [Next]_vars, NEW q \in Requests, UnchargedBefore(q)
  PROVE  UnchargedBefore(q)'
<1> USE DEF UnchargedBefore
<1>1. CASE ~RedeemNext(q)
  BY <1>1, OthersLeave
<1>2. CASE RedeemNext(q)
  <2> USE DEF TypeOK, Goto, At, requestOnly
  <2>1. CASE Charge(q) \/ SettleRead(q) \/ SettleMark(q) \/ SeedSessions(q) \/ Aborted(q)
    BY <2>1 DEF Charge, SettleRead, SettleMark, SeedSessions, Aborted
  <2>2. CASE RedeemVoucher(q)
    BY <2>2 DEF RedeemVoucher
  <2>3. CASE ReadTenant(q) \/ ReadVoucher(q) \/ ReadHotspot(q) \/ ProbeRouter(q)
    BY <2>3 DEF ReadTenant, ReadVoucher, ReadHotspot, ProbeRouter
  <2> QED  BY <1>2, <2>1, <2>2, <2>3 DEF RedeemNext
<1> QED  BY <1>1, <1>2

LEMMA LostForGood ==
  ASSUME TypeOK, [Next]_vars, NEW q \in Requests, Lost(q)
  PROVE  Lost(q)'
<1>0. request[q].voucher \in Vouchers
  BY DEF TypeOK
<1>1. CASE ~RedeemNext(q)
  <2>1. request'[q] = request[q] /\ payment'[q] = "none"
    BY <1>1, OthersLeave DEF Lost
  <2>2. PICK v \in Vouchers : v = request[q].voucher
    BY <1>0
  <2>3. Gone(v) => Gone(v)'
    BY GoneForGood
  <2> QED  BY <2>1, <2>2, <2>3 DEF Lost, At, Gone
<1>2. CASE RedeemNext(q)
  <2>1. ReadVoucher(q) \/ Aborted(q)
    BY <1>2 DEF Lost, At, RedeemNext, ReadTenant, ReadHotspot, ProbeRouter, Charge,
       SettleRead, SettleMark, RedeemVoucher, SeedSessions
  <2> QED
    BY <2>1 DEF Lost, Gone, At, Goto, requestOnly, ReadVoucher, Aborted, TypeOK
<1> QED  BY <1>1, <1>2

\* A guest who looks a code up after it was redeemed, revoked or expired is
\* never charged, whatever else goes on (PortalPostRedeem).
THEOREM LateGuestKeepsMoney == Spec => LateGuestNotCharged
<1> SUFFICES ASSUME NEW q \in Requests
             PROVE  Spec => [](At(q, "voucher")
                                /\ (\/ voucher[request[q].voucher] \in {"redeemed", "revoked"}
                                    \/ request[q].voucher \in expired)
                               => [](payment[q] = "none"))
  BY DEF LateGuestNotCharged
<1>1. Init => UnchargedBefore(q)
  BY DEF Init, UnchargedBefore
<1>2. TypeOK /\ UnchargedBefore(q) /\ [Next]_vars => UnchargedBefore(q)'
  BY UnchargedStep
<1>3. UnchargedBefore(q) /\ At(q, "voucher")
        /\ (\/ voucher[request[q].voucher] \in {"redeemed", "revoked"}
            \/ request[q].voucher \in expired)
      => Lost(q)
  BY DEF UnchargedBefore, Lost, At, Gone
<1>4. TypeOK /\ Lost(q) /\ [Next]_vars => Lost(q)'
  BY LostForGood
<1>5. Lost(q) => payment[q] = "none"
  BY DEF Lost
<1> QED  BY <1>1, <1>2, <1>3, <1>4, <1>5, TypeCorrect, PTL DEF Spec

================================================================================
