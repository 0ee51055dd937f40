---------------------------- MODULE RateBoostProofs ----------------------------
(***************************************************************************)
(* What RateBoost guarantees for any number of requests and windows and    *)
(* any multipliers: types, that no boost is there before its window or     *)
(* revives after it, that jobs end once, and what keeps caps and status.   *)
(***************************************************************************)
EXTENDS RateBoost, TLAPS

USE DEF NoRate

-------------------------------------------------------------------------------
(* Types.                                                                     *)

LEMMA One == 1 \in Multipliers
  BY DEF Multipliers

LEMMA IdleType ==
  /\ NoCopy \in RouterStates
  /\ \A op \in Ops : Arriving(op) \in RequestStates
  /\ WorkerIdle \in WorkerStates
  BY One DEF NoCopy, Unconfigured, RouterStates, Arriving, RequestStates, WorkerIdle, WorkerStates

\* A router is one whatever it is told.
LEMMA ToldType ==
  ASSUME NEW r \in RouterStates, NEW base \in Nat, NEW boost \in Multipliers
  PROVE  /\ Configured(r, base) \in RouterStates
         /\ Multiplied(r, base, boost) \in RouterStates
<1>1. CASE r.kind = "simulated"
  BY <1>1, One DEF Configured, Multiplied, RouterStates
<1>2. CASE r.kind # "simulated"
  BY <1>2, One DEF Configured, Multiplied, RouterStates
<1> QED  BY <1>1, <1>2

LEMMA PushedRate == \A m \in Multipliers : Rate * m \in Nat
  BY BoostAssumption DEF Multipliers

\* What the worker's two lists hold.
LEMMA DueType == TypeOK => WindowsToStart \subseteq Multipliers /\ Reverts \subseteq Multipliers
  BY BoostAssumption, One DEF WindowsToStart, Reverts, Current, Multipliers

LEMMA TypeInit == Init => TypeOK
<1> SUFFICES ASSUME Init PROVE TypeOK  OBVIOUS
<1>1. router \in RouterStates
  <2>1. PICK kind \in Kinds :
          router = [Unconfigured(kind) EXCEPT
                      !.base = IF row.status = "none" THEN NoRate ELSE Rate]
    BY DEF Init
  <2>2. (IF row.status = "none" THEN NoRate ELSE Rate) \in Nat
    BY BoostAssumption
  <2>3. Unconfigured(kind) \in RouterStates
    BY BoostAssumption, One DEF Unconfigured, RouterStates
  <2> QED  BY <2>1, <2>2, <2>3 DEF RouterStates
<1>2. request \in [Requests -> RequestStates]
  BY IdleType DEF Init
<1> QED  BY <1>1, <1>2, IdleType, One DEF Init, TypeOK, RowStates

LEMMA StaffType ==
  TypeOK /\ (StaffNext \/ \E w \in Windows : WindowNext(w)) => TypeOK'
  BY DEF TypeOK, RowStates, StaffNext, PatchHotspotStatus, WindowNext, PostRateWindow,
         DeleteRateWindow, TimePasses, others

LEMMA DoneType == TypeOK => \A q \in Requests : Done(q) \in RequestStates
  BY IdleType DEF TypeOK, Done, Arriving, RequestStates

LEMMA EditType ==
  ASSUME TypeOK, NEW q \in Requests, EditNext(q)
  PROVE  TypeOK'
<1> USE DEF TypeOK
<1>1. request[q] \in RequestStates /\ request[q].copy \in RouterStates
      /\ Rate * request[q].boost \in Nat
  BY PushedRate DEF RequestStates
<1>2. CASE EditHotspot(q)
  BY <1>1, <1>2 DEF EditHotspot, RowStates, RequestStates
<1>3. CASE EnqueueJob(q)
  BY <1>1, <1>3 DEF EnqueueJob, RequestStates
<1>4. CASE PushProbe(q)
  <2>1. (IF Simulated THEN router ELSE NoCopy) \in RouterStates
    BY IdleType
  <2> QED  BY <1>1, <1>4, <2>1 DEF PushProbe, RequestStates
<1>5. CASE PushProbed(q)
  BY <1>1, <1>5, IdleType DEF PushProbed, RequestStates
<1>6. CASE PushGet(q)
  <2>1. CASE Simulated /\ router.on
    <3>1. request' = [request EXCEPT ![q] = [request[q] EXCEPT !.pc = "set", !.copy = router]]
          /\ UNCHANGED <<row, window, job, router, worker>>
      BY <1>6, <2>1 DEF PushGet
    <3> QED  BY <1>1, <3>1 DEF RequestStates
  <2>2. CASE ~(Simulated /\ router.on)
    <3>1. router' \in RouterStates
      BY <1>1, <1>6, <2>2, ToldType DEF PushGet, RequestStates
    <3> QED  BY <1>1, <1>6, <2>2, <3>1 DEF PushGet, RequestStates
  <2> QED  BY <2>1, <2>2
<1>7. CASE PushSet(q)
  <2>1. router' \in RouterStates
    BY <1>1, <1>7, ToldType DEF PushSet, RequestStates
  <2> QED  BY <1>1, <1>7, <2>1, IdleType DEF PushSet, RequestStates
<1>8. CASE PushRow(q)
  BY <1>1, <1>8, DoneType DEF PushRow, SetHotspotConfigured, RowStates, RequestStates
<1>9. CASE RequestAborted(q)
  BY <1>9, DoneType DEF RequestAborted
<1> QED  BY <1>2, <1>3, <1>4, <1>5, <1>6, <1>7, <1>8, <1>9 DEF EditNext

LEMMA OperationType ==
  ASSUME TypeOK, NEW q \in Requests, OperationGet(q) \/ OperationSet(q)
  PROVE  TypeOK'
<1> USE DEF TypeOK
<1>1. request[q] \in RequestStates /\ request[q].copy \in RouterStates
  BY DEF RequestStates
<1>2. CASE OperationGet(q)
  BY <1>1, <1>2 DEF OperationGet, RequestStates
<1>3. CASE OperationSet(q)
  <2>1. router' \in RouterStates
    BY <1>1, <1>3 DEF OperationSet, RouterStates, RequestStates, Ops
  <2> QED  BY <1>3, <2>1, DoneType DEF OperationSet
<1> QED  BY <1>2, <1>3

LEMMA DeviceType == TypeOK /\ DeviceToggles => TypeOK'
  BY DEF TypeOK, DeviceToggles, RouterStates

LEMMA JobType ==
  ASSUME TypeOK, NEW q \in Requests, JobStep(q)
  PROVE  TypeOK'
<1> USE DEF TypeOK
<1>1. CASE JobRead(q)
  BY <1>1 DEF JobRead, RowStates, WorkerStates
<1>2. CASE JobGet(q)
  <2>1. Configured(router, Rate) \in RouterStates
    BY ToldType, BoostAssumption, One
  <2>2. job' \in [Requests -> {"none", "pending", "done", "failed"}] /\ router' \in RouterStates
    BY <1>2, <2>1 DEF JobGet
  <2>3. worker' \in WorkerStates
    BY <1>2, BoostAssumption, One DEF JobGet, WorkerStates
  <2> QED  BY <1>2, <2>2, <2>3 DEF JobGet
<1>3. CASE DoneJob(q)
  BY <1>3 DEF DoneJob, WorkerStates
<1> QED  BY <1>1, <1>2, <1>3 DEF JobStep

LEMMA WorkerType == TypeOK /\ (WorkerStep \/ WorkerFails) => TypeOK'
<1> SUFFICES ASSUME TypeOK, WorkerStep \/ WorkerFails PROVE TypeOK'  OBVIOUS
<1> USE DEF TypeOK
<1>0. worker.copy \in RouterStates /\ worker.base \in Nat /\ worker.boost \in Multipliers
  BY DEF WorkerStates
<1>1. CASE ListJobs
  BY <1>1 DEF ListJobs, WorkerStates
<1>2. CASE JobSet
  <2>1. router' \in RouterStates
    BY <1>0, <1>2, ToldType, BoostAssumption DEF JobSet
  <2> QED  BY <1>2, <2>1, IdleType DEF JobSet, WorkerStates
<1>3. CASE JobRow
  <2>1. row' \in RowStates
    BY <1>0, <1>3 DEF JobRow, SetHotspotConfigured, RowStates
  <2>2. worker' \in WorkerStates
    BY <1>3, One DEF JobRow, WorkerStates
  <2> QED  BY <1>3, <2>1, <2>2 DEF JobRow
<1>4. CASE \E q \in Requests : JobStep(q)
  BY <1>4, JobType
<1>5. CASE ListStarts
  BY <1>5, DueType DEF ListStarts, WorkerStates
<1>6. CASE ListEnds
  BY <1>6, DueType DEF ListEnds, WorkerStates
<1>7. CASE TickEnds
  BY <1>0, <1>7, IdleType DEF TickEnds, Ticked, WorkerStates
<1>8. CASE BoostStep
  <2>1. PICK m \in worker.boosts : BoostGet(m)
    BY <1>8 DEF BoostStep
  <2>2. m \in Multipliers
    BY DEF WorkerStates
  <2>3. Multiplied(router, worker.base, m) \in RouterStates
    BY <1>0, <2>2, ToldType
  <2>4. router' \in RouterStates
    BY <2>1, <2>3 DEF BoostGet
  <2>5. worker' \in WorkerStates
    <3>1. worker.boosts \ {m} \in SUBSET Multipliers
      BY DEF WorkerStates
    <3>2. CASE ~(router.on /\ Known)
      BY <2>1, <3>1, <3>2 DEF BoostGet, WorkerStates
    <3>3. CASE router.on /\ Known /\ Simulated
      BY <2>1, <2>2, <3>1, <3>3 DEF BoostGet, WorkerStates
    <3>4. CASE router.on /\ Known /\ ~Simulated
      BY <2>1, <2>2, <3>1, <3>4 DEF BoostGet, WorkerStates
    <3> QED  BY <3>2, <3>3, <3>4
  <2> QED  BY <2>1, <2>4, <2>5 DEF BoostGet
<1>9. CASE BoostSet
  <2>1. router' \in RouterStates
    BY <1>0, <1>9, ToldType DEF BoostSet
  <2> QED  BY <1>9, <2>1, IdleType DEF BoostSet, WorkerStates
<1>10. CASE BoostRow
  <2>1. row' \in RowStates
    BY <1>0, <1>10 DEF BoostRow, SetHotspotConfigured, RowStates
  <2>2. worker' \in WorkerStates
    BY <1>10, One DEF BoostRow, WorkerStates
  <2> QED  BY <1>10, <2>1, <2>2 DEF BoostRow
<1>11. CASE WorkerStarted
  BY <1>11, IdleType DEF WorkerStarted, WorkerStates
<1>12. CASE WorkerRegister
  BY <1>0, <1>12, IdleType DEF WorkerRegister, RouterStates
<1>13. CASE WorkerStatementFailed
  <2>1. worker' \in WorkerStates
    BY <1>13, One DEF WorkerStatementFailed, WorkerStates
  <2> QED  BY <1>13, <2>1 DEF WorkerStatementFailed
<1>14. CASE WorkerStopped
  BY <1>14, IdleType DEF WorkerStopped, WorkerStates
<1> QED  BY <1>1, <1>2, <1>3, <1>4, <1>5, <1>6, <1>7, <1>8, <1>9, <1>10, <1>11, <1>12,
            <1>13, <1>14 DEF WorkerStep, WorkerFails

LEMMA TypeStep == TypeOK /\ [Next]_vars => TypeOK'
<1> SUFFICES ASSUME TypeOK, [Next]_vars PROVE TypeOK'  OBVIOUS
<1>1. CASE Next
  BY <1>1, StaffType, EditType, OperationType, DeviceType, WorkerType DEF Next
<1>2. CASE UNCHANGED vars
  BY <1>2 DEF vars, TypeOK
<1> QED  BY <1>1, <1>2

\* Rows, router, copies and the worker's lists keep their types, and multipliers
\* are never zero, for any requests, windows and interleaving.
THEOREM TypeCorrect == Spec => []TypeOK
<1> QED  BY TypeInit, TypeStep, PTL DEF Spec

-------------------------------------------------------------------------------
(* Boosts.  Copies of the router and multipliers in the hands of a process are *)
(* written back at any later time, so each must be one that has begun already; *)
(* and what has begun stays begun.                                             *)

BegunInv == TypeOK /\ Within(Begun)

LEMMA NoCopyFits == ASSUME NEW B, 1 \in B PROVE Fits(NoCopy, B)
  BY DEF Fits, NoCopy, Unconfigured

\* A router fits whatever multiplier of B it is told.
LEMMA ToldFits ==
  ASSUME NEW r \in RouterStates, NEW B, 1 \in B, Fits(r, B), NEW m \in B,
         NEW base \in {NoRate, Rate}
  PROVE  /\ Fits(Configured(r, Rate * m), B)
         /\ Fits(Configured(r, Rate), B)
         /\ Fits(Multiplied(r, base, m), B)
<1>1. Rate = Rate * 1
  BY BoostAssumption
<1>2. Rate \in {Rate * k : k \in B}
  BY <1>1
<1>3. CASE r.kind = "simulated"
  BY <1>2, <1>3 DEF Fits, Configured, Multiplied, RouterStates
<1>4. CASE r.kind # "simulated"
  BY <1>2, <1>4 DEF Fits, Configured, Multiplied, RouterStates
<1> QED  BY <1>3, <1>4

LEMMA BegunInit == Init => BegunInv
<1> SUFFICES ASSUME Init PROVE Within(Begun)
  BY TypeInit DEF BegunInv
<1>1. PICK B : B = Begun
  OBVIOUS
<1>2. 1 \in B
  BY <1>1 DEF Begun
<1>3. Fits(router, B)
  <2>1. PICK kind \in Kinds :
          router = [Unconfigured(kind) EXCEPT
                      !.base = IF row.status = "none" THEN NoRate ELSE Rate]
    BY DEF Init
  <2>2. Rate = Rate * 1
    BY BoostAssumption
  <2> QED  BY <1>2, <2>1, <2>2 DEF Unconfigured, Fits
<1>4. \A q \in Requests : request[q].boost \in B /\ Fits(request[q].copy, B)
  <2> SUFFICES ASSUME NEW q \in Requests
               PROVE  request[q].boost \in B /\ Fits(request[q].copy, B)
    OBVIOUS
  <2>1. PICK op \in Ops : request[q] = Arriving(op)
    BY DEF Init
  <2>2. request[q].boost = 1 /\ request[q].copy = NoCopy
    BY <2>1 DEF Arriving
  <2> QED  BY <1>2, <2>2, NoCopyFits
<1>5. Within(B)
  BY <1>2, <1>3, <1>4, NoCopyFits DEF Init, Within, WorkerIdle
<1> QED  BY <1>1, <1>5

LEMMA EditWithin ==
  ASSUME TypeOK, NEW B, 1 \in B, Within(B), NEW q \in Requests, EditNext(q)
  PROVE  Within(B)'
<1> USE DEF Within
<1>1. /\ request \in [Requests -> RequestStates] /\ request[q] \in RequestStates
      /\ request[q].copy \in RouterStates /\ router \in RouterStates /\ row \in RowStates
      /\ request[q].boost \in B /\ Fits(request[q].copy, B)
  BY DEF TypeOK, RequestStates
<1>2. Fits(Done(q).copy, B) /\ Done(q).boost \in B
  BY NoCopyFits DEF Done, Arriving
<1>3. CASE EditHotspot(q)
  <2>1. row'.applied = row.applied
    BY <1>1, <1>3 DEF EditHotspot, RowStates
  <2>2. request'[q].boost = row.applied /\ request'[q].copy = request[q].copy
    BY <1>1, <1>3 DEF EditHotspot, RequestStates
  <2> QED  BY <1>1, <1>3, <2>1, <2>2 DEF EditHotspot
<1>4. CASE EnqueueJob(q)
  BY <1>1, <1>4 DEF EnqueueJob, RequestStates
<1>5. CASE PushProbe(q)
  <2>1. request'[q].boost = request[q].boost /\ request'[q].copy \in {router, NoCopy}
    BY <1>1, <1>5 DEF PushProbe, RequestStates
  <2> QED  BY <1>1, <1>5, <2>1, NoCopyFits DEF PushProbe
<1>6. CASE PushProbed(q)
  <2>1. request'[q].boost = request[q].boost /\ request'[q].copy = NoCopy
    BY <1>1, <1>6 DEF PushProbed, RequestStates
  <2> QED  BY <1>1, <1>6, <2>1, NoCopyFits DEF PushProbed
<1>7. CASE PushGet(q)
  <2>1. request'[q].boost = request[q].boost /\ request'[q].copy \in {router, request[q].copy}
    <3>1. CASE Simulated /\ router.on
      BY <1>1, <1>7, <3>1 DEF PushGet, RequestStates
    <3>2. CASE ~(Simulated /\ router.on)
      BY <1>1, <1>7, <3>2 DEF PushGet, RequestStates
    <3> QED  BY <3>1, <3>2
  <2>2. Fits(router', B)
    BY <1>1, <1>7, ToldFits DEF PushGet
  <2> QED  BY <1>1, <1>7, <2>1, <2>2 DEF PushGet
<1>8. CASE PushSet(q)
  <2>1. request'[q].boost = request[q].boost /\ request'[q].copy = NoCopy
    BY <1>1, <1>8 DEF PushSet, RequestStates
  <2>2. Fits(router', B)
    BY <1>1, <1>8, ToldFits DEF PushSet
  <2> QED  BY <1>1, <1>8, <2>1, <2>2, NoCopyFits DEF PushSet
<1>9. CASE PushRow(q)
  BY <1>1, <1>2, <1>9 DEF PushRow, SetHotspotConfigured
<1>10. CASE RequestAborted(q)
  BY <1>1, <1>2, <1>10 DEF RequestAborted
<1> QED  BY <1>3, <1>4, <1>5, <1>6, <1>7, <1>8, <1>9, <1>10 DEF EditNext

LEMMA OperationWithin ==
  ASSUME TypeOK, NEW B, 1 \in B, Within(B), NEW q \in Requests,
         OperationGet(q) \/ OperationSet(q)
  PROVE  Within(B)'
<1> USE DEF Within
<1>1. /\ request \in [Requests -> RequestStates] /\ request[q] \in RequestStates
      /\ request[q].copy \in RouterStates
  BY DEF TypeOK, RequestStates
<1>2. CASE OperationGet(q)
  <2>1. request'[q].boost = request[q].boost /\ request'[q].copy = router
    BY <1>1, <1>2 DEF OperationGet, RequestStates
  <2> QED  BY <1>1, <1>2, <2>1 DEF OperationGet
<1>3. CASE OperationSet(q)
  <2>1. router'.base = request[q].copy.base /\ router'.boost = request[q].copy.boost
    BY <1>1, <1>3 DEF OperationSet, RouterStates
  <2>2. Fits(Done(q).copy, B) /\ Done(q).boost \in B
    BY NoCopyFits DEF Done, Arriving
  <2> QED  BY <1>1, <1>3, <2>1, <2>2 DEF OperationSet, Fits
<1> QED  BY <1>2, <1>3

LEMMA WorkerWithin ==
  ASSUME TypeOK, NEW B, 1 \in B, {Boost[w] : w \in Current} \subseteq B, Within(B),
         WorkerStep \/ WorkerFails
  PROVE  Within(B)'
<1> USE DEF Within
<1>0. /\ worker \in WorkerStates /\ worker.copy \in RouterStates
      /\ router \in RouterStates /\ row \in RowStates
  BY DEF TypeOK, WorkerStates
<1>1. CASE ListJobs
  BY <1>0, <1>1 DEF ListJobs, WorkerStates
<1>2. CASE JobSet
  <2>1. Fits(router', B)
    BY <1>0, <1>2, ToldFits DEF JobSet
  <2> QED  BY <1>0, <1>2, <2>1, NoCopyFits DEF JobSet, WorkerStates
<1>3. CASE JobRow
  BY <1>0, <1>3 DEF JobRow, SetHotspotConfigured, WorkerStates
<1>4. CASE \E q \in Requests : JobRead(q) \/ DoneJob(q)
  BY <1>0, <1>4 DEF JobRead, DoneJob, WorkerStates
<1>5. CASE \E q \in Requests : JobGet(q)
  <2>1. PICK q \in Requests : JobGet(q)
    BY <1>5
  <2>2. Fits(router', B)
    BY <1>0, <2>1, ToldFits DEF JobGet
  <2>3. /\ worker'.boosts = worker.boosts /\ worker'.boost \in {1, worker.boost}
        /\ worker'.base \in {worker.base, Rate} /\ worker'.copy \in {worker.copy, router}
    BY <1>0, <2>1 DEF JobGet, WorkerStates
  <2> QED  BY <2>1, <2>2, <2>3 DEF JobGet
<1>6. CASE ListStarts
  BY <1>0, <1>6 DEF ListStarts, WindowsToStart, WorkerStates
<1>7. CASE ListEnds
  BY <1>0, <1>7 DEF ListEnds, Reverts, WorkerStates
<1>8. CASE TickEnds
  BY <1>8, NoCopyFits DEF TickEnds, Ticked, WorkerIdle
<1>9. CASE BoostStep
  <2>1. PICK m \in worker.boosts : BoostGet(m)
    BY <1>9 DEF BoostStep
  <2>2. Fits(router', B)
    BY <1>0, <2>1, ToldFits DEF BoostGet
  <2>3. /\ worker'.boosts \subseteq worker.boosts /\ worker'.boost \in {m, worker.boost}
        /\ worker'.base = worker.base /\ worker'.copy \in {worker.copy, router}
    BY <1>0, <2>1 DEF BoostGet, WorkerStates
  <2> QED  BY <2>1, <2>2, <2>3 DEF BoostGet
<1>10. CASE BoostSet
  <2>1. Fits(router', B)
    BY <1>0, <1>10, ToldFits DEF BoostSet
  <2> QED  BY <1>0, <1>10, <2>1, NoCopyFits DEF BoostSet, WorkerStates
<1>11. CASE BoostRow
  BY <1>0, <1>11 DEF BoostRow, SetHotspotConfigured, WorkerStates
<1>12. CASE WorkerStarted
  BY <1>0, <1>12, NoCopyFits DEF WorkerStarted, WorkerIdle, WorkerStates
<1>13. CASE WorkerRegister
  <2>1. router'.base = worker.copy.base /\ router'.boost = worker.copy.boost
    BY <1>0, <1>13 DEF WorkerRegister, RouterStates
  <2> QED  BY <1>13, <2>1, NoCopyFits DEF WorkerRegister, WorkerIdle, Fits
<1>14. CASE WorkerStatementFailed
  BY <1>0, <1>14 DEF WorkerStatementFailed, WorkerStates
<1>15. CASE WorkerStopped
  BY <1>15, NoCopyFits DEF WorkerStopped, WorkerIdle
<1> QED  BY <1>1, <1>2, <1>3, <1>4, <1>5, <1>6, <1>7, <1>8, <1>9, <1>10, <1>11, <1>12,
            <1>13, <1>14, <1>15 DEF WorkerStep, WorkerFails, JobStep

\* Staff's steps, time's and the device's leave what Within is about alone.
LEMMA OthersWithin ==
  ASSUME TypeOK, NEW B, Within(B),
         StaffNext \/ DeviceToggles \/ (\E w \in Windows : WindowNext(w)) \/ UNCHANGED vars
  PROVE  Within(B)'
<1> USE DEF Within
<1>1. CASE StaffNext
  BY <1>1 DEF StaffNext, PatchHotspotStatus, others, TypeOK, RowStates
<1>2. CASE DeviceToggles
  BY <1>2 DEF DeviceToggles, Fits, TypeOK, RouterStates
<1>3. CASE \E w \in Windows : WindowNext(w)
  BY <1>3 DEF WindowNext, PostRateWindow, DeleteRateWindow, TimePasses, others
<1>4. CASE UNCHANGED vars
  BY <1>4 DEF vars
<1> QED  BY <1>1, <1>2, <1>3, <1>4

\* No step takes the beginning of a window back.
LEMMA BegunGrows == TypeOK /\ [Next]_vars => Begun \subseteq Begun'
<1> SUFFICES ASSUME TypeOK, [Next]_vars PROVE Begun \subseteq Begun'  OBVIOUS
<1>1. CASE \E w \in Windows : WindowNext(w)
  BY <1>1 DEF TypeOK, Begun, WindowNext, PostRateWindow, DeleteRateWindow, TimePasses
<1>2. CASE window' = window
  BY <1>2 DEF Begun
<1>3. window' = window \/ \E w \in Windows : WindowNext(w)
  BY DEF Next, vars, StaffNext, PatchHotspotStatus, others, EditNext, EditHotspot, EnqueueJob,
         PushProbe, PushProbed, PushGet, PushSet, PushRow, RequestAborted, OperationGet,
         OperationSet, DeviceToggles, WorkerStep, JobStep, JobRead, JobGet, DoneJob, ListJobs,
         JobSet, JobRow, ListStarts, ListEnds, TickEnds, BoostStep, BoostGet, BoostSet,
         BoostRow, WorkerStarted, WorkerRegister, WorkerFails, WorkerStatementFailed,
         WorkerStopped
<1> QED  BY <1>1, <1>2, <1>3

LEMMA BegunStep == BegunInv /\ [Next]_vars => BegunInv'
<1> SUFFICES ASSUME BegunInv, [Next]_vars PROVE Within(Begun)'
  BY TypeStep DEF BegunInv
<1>1. PICK B : B = Begun
  OBVIOUS
<1>2. PICK C : C = Begun'
  OBVIOUS
<1>3. TypeOK /\ Within(B) /\ 1 \in B /\ {Boost[w] : w \in Current} \subseteq B
  BY <1>1 DEF BegunInv, Begun, Current
<1>4. Within(B)'
  BY <1>3, EditWithin, OperationWithin, WorkerWithin, OthersWithin DEF Next
<1>5. B \subseteq C
  BY <1>1, <1>2, BegunGrows DEF BegunInv
<1>6. Within(C)'
  BY <1>4, <1>5 DEF Within, Fits
<1> QED  BY <1>2, <1>6 DEF Within

\* However late a copy of the router or a multiplier is written back, by however
\* many requests: rows and routers are boosted by windows that have begun only,
\* and a pushed rate is boosted once at most.
THEOREM NoBoostBeforeItsWindow == Spec => []BoostsHaveBegun
<1>1. BegunInv => BoostsHaveBegun
  BY DEF BegunInv, Within, Fits, BoostsHaveBegun, BoostedRates
<1> QED  BY <1>1, BegunInit, BegunStep, PTL DEF Spec

\* A boost that nobody has a trace of stays gone until a window with it is current:
\* no edit, job, restart or late copy revives it, for any number of them.
THEOREM BoostsGoneStayGone == Spec => BoostsStayGone
<1>1. ASSUME TypeOK, [Next]_vars, NEW w \in Windows, Within(Boosts \ {Boost[w]}),
             Boost[w] \notin {Boost[v] : v \in Current}
      PROVE  Within(Boosts \ {Boost[w]})'
  <2>1. PICK B : B = Boosts \ {Boost[w]}
    OBVIOUS
  <2>2. 1 \in B /\ {Boost[v] : v \in Current} \subseteq B
    BY <1>1, <2>1, BoostAssumption DEF Boosts, Current
  <2>3. TypeOK /\ Within(B)
    BY <1>1, <2>1
  <2>4. Within(B)'
    BY <1>1, <2>2, <2>3, EditWithin, OperationWithin, WorkerWithin, OthersWithin DEF Next
  <2> QED  BY <2>1, <2>4 DEF Boosts
<1>2. TypeOK /\ [Next]_vars =>
        [\A w \in Windows :
           /\ Within(Boosts \ {Boost[w]}) /\ Boost[w] \notin {Boost[v] : v \in Current}
           => Within(Boosts \ {Boost[w]})']_vars
  BY <1>1
<1> QED  BY <1>2, TypeCorrect, PTL DEF Spec, BoostsStayGone

-------------------------------------------------------------------------------
(* Jobs.  A list of jobs stays right while the worker goes through it: a job on *)
(* it, or in hand, is still pending, and none is on it twice.                  *)

JobsInv ==
  /\ \A q \in Requests : request[q].pc \in {"idle", "enqueue"} => job[q] = "none"
  /\ \A q \in worker.jobs \cup worker.job : job[q] = "pending"
  /\ worker.jobs \cap worker.job = {}
  /\ worker.pc \in {"stopped", "register", "tick", "jobs", "jobrow"} => worker.job = {}
  /\ worker.pc \in {"boost", "boostset", "boostrow"} => worker.job = {} /\ worker.jobs = {}

Outcomes == {"done", "failed"}

LEMMA JobsInit == Init => JobsInv
<1> SUFFICES ASSUME Init PROVE JobsInv  OBVIOUS
<1>1. \A q \in Requests : job[q] = "none"
  BY DEF Init
<1> QED  BY <1>1 DEF Init, JobsInv, WorkerIdle

\* A step either leaves the jobs alone, or enqueues one, or ends the one in hand.
LEMMA JobsStep ==
  ASSUME TypeOK, JobsInv, [Next]_vars
  PROVE  /\ JobsInv'
         /\ \A q \in Requests : job[q] \in Outcomes => job'[q] = job[q]
<1> DEFINE Goal == JobsInv' /\ \A q \in Requests : job[q] \in Outcomes => job'[q] = job[q]
<1> SUFFICES Goal  OBVIOUS
<1>0. /\ job \in [Requests -> {"none", "pending", "done", "failed"}]
      /\ request \in [Requests -> RequestStates] /\ worker \in WorkerStates
      /\ worker.jobs \subseteq Requests /\ worker.job \subseteq Requests
  BY DEF TypeOK, WorkerStates
<1> USE <1>0 DEF JobsInv, Outcomes
\* Steps of requests other than EnqueueJob.
<1>1. ASSUME NEW q \in Requests, NEW x, request' = [request EXCEPT ![q] = x],
             x.pc = "idle" => request[q].pc = "idle",
             x.pc = "enqueue" => request[q].pc \in {"idle", "enqueue"},
             UNCHANGED <<job, worker>>
      PROVE  Goal
  BY <1>1
<1>2. ASSUME NEW q \in Requests, EnqueueJob(q) PROVE Goal
  <2>1. job[q] = "none" /\ q \notin worker.jobs \cup worker.job
    BY <1>2 DEF EnqueueJob
  <2>2. request'[q].pc = "probe" /\ \A r \in Requests \ {q} : request'[r] = request[r]
    BY <1>2 DEF EnqueueJob, RequestStates
  <2>3. \A r \in Requests \ {q} : job'[r] = job[r]
    BY <1>2 DEF EnqueueJob
  <2> QED  BY <1>2, <2>1, <2>2, <2>3 DEF EnqueueJob
<1>3. ASSUME NEW q \in Requests, EditNext(q) PROVE Goal
  <2>0. request[q] \in RequestStates
    OBVIOUS
  <2>1. CASE EditHotspot(q)
    <3>1. [request[q] EXCEPT !.pc = "enqueue", !.boost = row.applied].pc = "enqueue"
      BY DEF RequestStates
    <3> QED  BY <1>1, <2>1, <3>1 DEF EditHotspot
  <2>2. CASE PushProbe(q)
    <3> DEFINE x == [request[q] EXCEPT
                      !.pc = IF Simulated THEN "probed" ELSE IF router.on THEN "get" ELSE "done",
                      !.copy = IF Simulated THEN router ELSE NoCopy]
    <3>1. x.pc \in {"probed", "get", "done"}
      BY <2>0 DEF RequestStates
    <3>2. request' = [request EXCEPT ![q] = x]
      BY <2>2 DEF PushProbe
    <3> HIDE DEF x
    <3> QED  BY <1>1, <2>2, <3>1, <3>2 DEF PushProbe
  <2>3. CASE PushProbed(q)
    <3> DEFINE x == [request[q] EXCEPT
                      !.pc = IF request[q].copy.on THEN "get" ELSE "done", !.copy = NoCopy]
    <3>1. x.pc \in {"get", "done"}
      BY <2>0 DEF RequestStates
    <3>2. request' = [request EXCEPT ![q] = x]
      BY <2>3 DEF PushProbed
    <3> HIDE DEF x
    <3> QED  BY <1>1, <2>3, <3>1, <3>2 DEF PushProbed
  <2>4. CASE PushGet(q)
    <3>1. CASE Simulated /\ router.on
      <4> DEFINE x == [request[q] EXCEPT !.pc = "set", !.copy = router]
      <4>1. x.pc = "set" /\ request' = [request EXCEPT ![q] = x]
        BY <2>0, <2>4, <3>1 DEF PushGet, RequestStates
      <4> HIDE DEF x
      <4> QED  BY <1>1, <2>4, <4>1 DEF PushGet
    <3>2. CASE ~(Simulated /\ router.on)
      <4> DEFINE x == [request[q] EXCEPT !.pc = "row"]
      <4>1. x.pc = "row" /\ request' = [request EXCEPT ![q] = x]
        BY <2>0, <2>4, <3>2 DEF PushGet, RequestStates
      <4> HIDE DEF x
      <4> QED  BY <1>1, <2>4, <4>1 DEF PushGet
    <3> QED  BY <3>1, <3>2
  <2>5. CASE PushSet(q)
    <3> DEFINE x == [request[q] EXCEPT !.pc = "row", !.copy = NoCopy]
    <3>1. x.pc = "row" /\ request' = [request EXCEPT ![q] = x]
      BY <2>0, <2>5 DEF PushSet, RequestStates
    <3> HIDE DEF x
    <3> QED  BY <1>1, <2>5, <3>1 DEF PushSet
  <2>6. CASE PushRow(q) \/ RequestAborted(q)
    <3>1. Done(q).pc = "done"
      BY DEF Done, Arriving
    <3>2. request' = [request EXCEPT ![q] = Done(q)] /\ UNCHANGED <<job, worker>>
      BY <2>6 DEF PushRow, RequestAborted
    <3> QED  BY <1>1, <3>1, <3>2
  <2> QED  BY <1>2, <1>3, <2>1, <2>2, <2>3, <2>4, <2>5, <2>6 DEF EditNext
<1>4. ASSUME NEW q \in Requests, OperationGet(q) \/ OperationSet(q) PROVE Goal
  <2>1. CASE OperationGet(q)
    <3> DEFINE x == [request[q] EXCEPT !.pc = "set", !.copy = router]
    <3>1. x.pc = "set" /\ request' = [request EXCEPT ![q] = x]
      BY <2>1 DEF OperationGet, RequestStates
    <3> HIDE DEF x
    <3> QED  BY <1>1, <2>1, <3>1 DEF OperationGet
  <2>2. CASE OperationSet(q)
    <3>1. Done(q).pc = "done"
      BY DEF Done, Arriving
    <3> QED  BY <1>1, <2>2, <3>1 DEF OperationSet
  <2> QED  BY <1>4, <2>1, <2>2
<1>5. CASE ListJobs
  BY <1>5 DEF ListJobs, WorkerStates
<1>6. ASSUME NEW q \in Requests, JobRead(q) PROVE Goal
  BY <1>6 DEF JobRead, WorkerStates
<1>7. ASSUME NEW q \in Requests, JobGet(q) PROVE Goal
  <2>1. job[q] = "pending" /\ q \notin worker.jobs
    BY <1>7 DEF JobGet
  <2>2. CASE ~router.on
    <3>1. /\ job' = [job EXCEPT ![q] = "failed"] /\ UNCHANGED request
          /\ worker' = [worker EXCEPT !.pc = "jobs", !.job = {}, !.boost = 1]
      BY <1>7, <2>2 DEF JobGet
    <3>2. worker'.jobs = worker.jobs /\ worker'.job = {} /\ worker'.pc = "jobs"
      BY <3>1 DEF WorkerStates
    <3>3. \A r \in Requests : request[r].pc \in {"idle", "enqueue"} => r # q
      BY <2>1
    <3> QED  BY <2>1, <3>1, <3>2, <3>3
  <2>3. CASE router.on
    <3>1. /\ UNCHANGED <<job, request>> /\ worker'.jobs = worker.jobs
          /\ worker'.job = worker.job /\ worker'.pc \in {"jobset", "jobdone"}
      BY <1>7, <2>3 DEF JobGet, WorkerStates
    <3> QED  BY <3>1
  <2> QED  BY <2>2, <2>3
<1>8. CASE JobSet
  BY <1>8 DEF JobSet, WorkerStates
<1>9. ASSUME NEW q \in Requests, DoneJob(q) PROVE Goal
  <2>1. job[q] = "pending" /\ q \notin worker.jobs
    BY <1>9 DEF DoneJob
  <2>2. /\ job' = [job EXCEPT ![q] = "done"] /\ UNCHANGED request
        /\ worker'.jobs = worker.jobs /\ worker'.job = {} /\ worker'.pc = "jobrow"
    BY <1>9 DEF DoneJob, WorkerStates
  <2>3. \A r \in Requests : request[r].pc \in {"idle", "enqueue"} => r # q
    BY <2>1
  <2> QED  BY <2>1, <2>2, <2>3
<1>10. CASE JobRow
  BY <1>10 DEF JobRow, WorkerStates
<1>11. CASE ListStarts \/ ListEnds
  BY <1>11 DEF ListStarts, ListEnds, WorkerStates
<1>12. CASE TickEnds
  BY <1>12 DEF TickEnds, Ticked, WorkerIdle
<1>13. CASE BoostStep
  <2>1. PICK m \in worker.boosts : BoostGet(m)
    BY <1>13 DEF BoostStep
  <2>2. /\ worker'.jobs = worker.jobs /\ worker'.job = worker.job
        /\ worker'.pc \in {"boost", "boostset", "boostrow"}
        /\ worker.pc = "boost" /\ UNCHANGED <<job, request>>
    BY <2>1 DEF BoostGet, WorkerStates
  <2> QED  BY <2>2
<1>14. CASE BoostSet \/ BoostRow
  BY <1>14 DEF BoostSet, BoostRow, WorkerStates
<1>15. CASE WorkerStatementFailed
  BY <1>15 DEF WorkerStatementFailed, WorkerStates
<1>16. CASE WorkerStopped \/ WorkerStarted \/ WorkerRegister
  <2>1. CASE WorkerStopped \/ WorkerRegister
    BY <1>16, <2>1 DEF WorkerStopped, WorkerRegister, WorkerIdle
  <2>2. CASE WorkerStarted
    <3>1. /\ worker'.jobs \in {{}, worker.jobs} /\ worker'.job \in {{}, worker.job}
          /\ worker'.pc \in {"register", "tick"} /\ worker.pc = "stopped"
          /\ UNCHANGED <<job, request>>
      BY <2>2 DEF WorkerStarted, WorkerIdle, WorkerStates
    <3> QED  BY <3>1
  <2> QED  BY <1>16, <2>1, <2>2
<1>17. CASE UNCHANGED <<job, request, worker>>
  BY <1>17
<1> QED
  BY <1>3, <1>4, <1>5, <1>6, <1>7, <1>8, <1>9, <1>10, <1>11, <1>12, <1>13, <1>14, <1>15,
     <1>16, <1>17
  DEF Next, vars, WindowNext, PostRateWindow, DeleteRateWindow, TimePasses, others, StaffNext,
      PatchHotspotStatus, DeviceToggles, WorkerStep, JobStep, WorkerFails

\* However often the worker is restarted or a statement fails: a config job that
\* is done or has failed is never carried out again (DoneJob, FailJob).
THEOREM JobsHaveOneOutcome == Spec => JobsEndOnce
<1>1. TypeOK /\ JobsInv /\ [Next]_vars =>
        JobsInv' /\ [\A q \in Requests : job[q] \in {"done", "failed"} => job'[q] = job[q]]_vars
  BY JobsStep DEF Outcomes
<1> QED  BY <1>1, JobsInit, TypeInit, TypeStep, PTL DEF Spec, JobsEndOnce


-------------------------------------------------------------------------------
(* The router's own rate.  It is boosted for good only by an edit that read a  *)
(* boosted row, and by copies of a router that such an edit has set.           *)

Plain(r) == r.base \in {NoRate, Rate}

PlainInv ==
  /\ Plain(router) /\ Plain(worker.copy) /\ worker.base \in {NoRate, Rate}
  /\ \A q \in Requests : request[q].boost = 1 /\ Plain(request[q].copy)

LEMMA NoCopyPlain == Plain(NoCopy)
  BY DEF Plain, NoCopy, Unconfigured

LEMMA ToldPlain ==
  ASSUME NEW r \in RouterStates, Plain(r), NEW m \in Multipliers, NEW base \in {NoRate, Rate}
  PROVE  /\ Plain(Configured(r, Rate * 1)) /\ Plain(Configured(r, Rate))
         /\ Plain(Multiplied(r, base, m))
<1>1. Rate = Rate * 1
  BY BoostAssumption
<1>2. CASE r.kind = "simulated"
  BY <1>1, <1>2 DEF Plain, Configured, Multiplied, RouterStates
<1>3. CASE r.kind # "simulated"
  BY <1>1, <1>3 DEF Plain, Configured, Multiplied, RouterStates
<1> QED  BY <1>2, <1>3

LEMMA PlainInit == Init => PlainInv
<1> SUFFICES ASSUME Init PROVE PlainInv  OBVIOUS
<1>1. Plain(router)
  BY DEF Init, Unconfigured, Plain
<1>2. ASSUME NEW q \in Requests PROVE request[q].boost = 1 /\ request[q].copy = NoCopy
  <2>1. PICK op \in Ops : request[q] = Arriving(op)
    BY DEF Init
  <2> QED  BY <2>1 DEF Arriving
<1>3. worker.copy = NoCopy /\ worker.base = NoRate
  BY DEF Init, WorkerIdle
<1> QED  BY <1>1, <1>2, <1>3, NoCopyPlain DEF PlainInv

LEMMA EditPlain ==
  ASSUME TypeOK, PlainInv, NEW q \in Requests, EditNext(q), EditHotspot(q) => row.applied = 1
  PROVE  PlainInv'
<1> USE DEF PlainInv
<1>1. /\ request \in [Requests -> RequestStates] /\ request[q] \in RequestStates
      /\ request[q].copy \in RouterStates /\ router \in RouterStates
      /\ request[q].boost = 1 /\ Plain(request[q].copy)
  BY DEF TypeOK, RequestStates
<1>2. Plain(Done(q).copy) /\ Done(q).boost = 1
  BY NoCopyPlain DEF Done, Arriving
<1>3. CASE EditHotspot(q)
  <2>1. request'[q].boost = 1 /\ request'[q].copy = request[q].copy
    BY <1>1, <1>3 DEF EditHotspot, RequestStates
  <2> QED  BY <1>1, <1>3, <2>1 DEF EditHotspot
<1>4. CASE EnqueueJob(q)
  BY <1>1, <1>4 DEF EnqueueJob, RequestStates
<1>5. CASE PushProbe(q)
  <2>1. request'[q].boost = request[q].boost /\ request'[q].copy \in {router, NoCopy}
    BY <1>1, <1>5 DEF PushProbe, RequestStates
  <2> QED  BY <1>1, <1>5, <2>1, NoCopyPlain DEF PushProbe
<1>6. CASE PushProbed(q)
  <2>1. request'[q].boost = request[q].boost /\ request'[q].copy = NoCopy
    BY <1>1, <1>6 DEF PushProbed, RequestStates
  <2> QED  BY <1>1, <1>6, <2>1, NoCopyPlain DEF PushProbed
<1>7. CASE PushGet(q)
  <2>1. request'[q].boost = request[q].boost /\ request'[q].copy \in {router, request[q].copy}
    <3>1. CASE Simulated /\ router.on
      BY <1>1, <1>7, <3>1 DEF PushGet, RequestStates
    <3>2. CASE ~(Simulated /\ router.on)
      BY <1>1, <1>7, <3>2 DEF PushGet, RequestStates
    <3> QED  BY <3>1, <3>2
  <2>2. Plain(router')
    BY <1>1, <1>7, One, ToldPlain DEF PushGet
  <2> QED  BY <1>1, <1>7, <2>1, <2>2 DEF PushGet
<1>8. CASE PushSet(q)
  <2>1. request'[q].boost = request[q].boost /\ request'[q].copy = NoCopy
    BY <1>1, <1>8 DEF PushSet, RequestStates
  <2>2. Plain(router')
    BY <1>1, <1>8, One, ToldPlain DEF PushSet
  <2> QED  BY <1>1, <1>8, <2>1, <2>2, NoCopyPlain DEF PushSet
<1>9. CASE PushRow(q)
  BY <1>1, <1>2, <1>9 DEF PushRow
<1>10. CASE RequestAborted(q)
  BY <1>1, <1>2, <1>10 DEF RequestAborted
<1> QED  BY <1>3, <1>4, <1>5, <1>6, <1>7, <1>8, <1>9, <1>10 DEF EditNext

LEMMA OperationPlain ==
  ASSUME TypeOK, PlainInv, NEW q \in Requests, OperationGet(q) \/ OperationSet(q)
  PROVE  PlainInv'
<1> USE DEF PlainInv
<1>1. /\ request \in [Requests -> RequestStates] /\ request[q] \in RequestStates
      /\ request[q].copy \in RouterStates
  BY DEF TypeOK, RequestStates
<1>2. CASE OperationGet(q)
  <2>1. request'[q].boost = request[q].boost /\ request'[q].copy = router
    BY <1>1, <1>2 DEF OperationGet, RequestStates
  <2> QED  BY <1>1, <1>2, <2>1 DEF OperationGet
<1>3. CASE OperationSet(q)
  <2>1. router'.base = request[q].copy.base
    BY <1>1, <1>3 DEF OperationSet, RouterStates
  <2>2. Plain(Done(q).copy) /\ Done(q).boost = 1
    BY NoCopyPlain DEF Done, Arriving
  <2> QED  BY <1>1, <1>3, <2>1, <2>2 DEF OperationSet, Plain
<1> QED  BY <1>2, <1>3

LEMMA WorkerPlain ==
  ASSUME TypeOK, PlainInv, WorkerStep \/ WorkerFails
  PROVE  PlainInv'
<1> USE DEF PlainInv
<1>0. /\ worker \in WorkerStates /\ worker.copy \in RouterStates /\ router \in RouterStates
      /\ worker.boost \in Multipliers /\ worker.boosts \subseteq Multipliers
  BY DEF TypeOK, WorkerStates
<1>1. CASE ListJobs \/ JobRow \/ ListStarts \/ ListEnds \/ BoostRow \/ WorkerStatementFailed
  <2>1. worker'.copy = worker.copy /\ worker'.base = worker.base /\ UNCHANGED <<router, request>>
    BY <1>0, <1>1 DEF ListJobs, JobRow, ListStarts, ListEnds, BoostRow, WorkerStatementFailed,
       WorkerStates
  <2> QED  BY <2>1
<1>2. CASE JobSet
  <2>1. Plain(router')
    BY <1>0, <1>2, One, ToldPlain DEF JobSet
  <2> QED  BY <1>0, <1>2, <2>1, NoCopyPlain DEF JobSet, WorkerStates
<1>4. CASE \E q \in Requests : JobRead(q) \/ DoneJob(q)
  BY <1>0, <1>4 DEF JobRead, DoneJob, WorkerStates
<1>5. CASE \E q \in Requests : JobGet(q)
  <2>1. PICK q \in Requests : JobGet(q)
    BY <1>5
  <2>2. Plain(router')
    BY <1>0, <2>1, One, ToldPlain DEF JobGet
  <2>3. worker'.base \in {worker.base, Rate} /\ worker'.copy \in {worker.copy, router}
    BY <1>0, <2>1 DEF JobGet, WorkerStates
  <2> QED  BY <2>1, <2>2, <2>3 DEF JobGet
<1>8. CASE TickEnds
  BY <1>8, NoCopyPlain DEF TickEnds, Ticked, WorkerIdle
<1>9. CASE BoostStep
  <2>1. PICK m \in worker.boosts : BoostGet(m)
    BY <1>9 DEF BoostStep
  <2>2. Plain(router')
    BY <1>0, <2>1, ToldPlain DEF BoostGet
  <2>3. worker'.base = worker.base /\ worker'.copy \in {worker.copy, router}
    BY <1>0, <2>1 DEF BoostGet, WorkerStates
  <2> QED  BY <2>1, <2>2, <2>3 DEF BoostGet
<1>10. CASE BoostSet
  <2>1. Plain(router')
    BY <1>0, <1>10, ToldPlain DEF BoostSet
  <2> QED  BY <1>0, <1>10, <2>1, NoCopyPlain DEF BoostSet, WorkerStates
<1>12. CASE WorkerStarted
  BY <1>0, <1>12, NoCopyPlain DEF WorkerStarted, WorkerIdle, WorkerStates
<1>13. CASE WorkerRegister
  <2>1. router'.base = worker.copy.base
    BY <1>0, <1>13 DEF WorkerRegister, RouterStates
  <2> QED  BY <1>13, <2>1, NoCopyPlain DEF WorkerRegister, WorkerIdle, Plain
<1>15. CASE WorkerStopped
  BY <1>15, NoCopyPlain DEF WorkerStopped, WorkerIdle
<1> QED  BY <1>1, <1>2, <1>4, <1>5, <1>8, <1>9, <1>10, <1>12, <1>13, <1>15
         DEF WorkerStep, WorkerFails, JobStep

LEMMA PlainStep ==
  ASSUME TypeOK, PlainInv, [Next]_vars,
         [\A q \in Requests : EditHotspot(q) => row.applied = 1]_vars
  PROVE  PlainInv'
<1>1. CASE DeviceToggles
  BY <1>1 DEF PlainInv, DeviceToggles, Plain, TypeOK, RouterStates
<1>2. CASE UNCHANGED <<router, request, worker>>
  BY <1>2 DEF PlainInv
<1>3. ASSUME NEW q \in Requests, EditNext(q) PROVE PlainInv'
  <2>1. CASE UNCHANGED vars
    BY <1>2, <2>1 DEF vars
  <2>2. CASE EditHotspot(q) => row.applied = 1
    BY <1>3, <2>2, EditPlain
  <2> QED  BY <2>1, <2>2
<1> QED
  BY <1>1, <1>2, <1>3, OperationPlain, WorkerPlain
  DEF Next, vars, WindowNext, PostRateWindow, DeleteRateWindow, TimePasses, others, StaffNext,
      PatchHotspotStatus

\* "Caps always come back to normal" as long as no edit reads a boosted row: then
\* boosts, reverts, late copies and restarts leave the router's own rate the
\* profile's, so that a revert gives it back (the edit at line 428 is the only way
\* for a boost to become the base).
THEOREM CapsComeBackUnlessEditedBoosted == Spec /\ EditsUnboosted => []PlainBase
<1>1. PlainInv => PlainBase
  BY DEF PlainInv, PlainBase, Plain
<1>2. TypeOK /\ PlainInv /\ [Next]_vars
        /\ [\A q \in Requests : EditHotspot(q) => row.applied = 1]_vars => PlainInv'
  BY PlainStep
<1> QED  BY <1>1, <1>2, PlainInit, TypeInit, TypeStep, PTL DEF Spec, EditsUnboosted

-------------------------------------------------------------------------------
(* Disabled hotspots.  What is under way when staff disable one may write it   *)
(* back as active; when nothing is, nothing begins while it is disabled.       *)

QuietInv == row.status = "disabled" => Quiet

StaysDisabled ==
  row.status = "disabled" /\ row'.status # "disabled"
    => StaffNext \/ \E q \in Requests : EditHotspot(q)

\* Parts of Quiet that a step keeps.
LEMMA QuietStep ==
  ASSUME TypeOK, QuietInv, [Next]_vars,
         [row'.status = "disabled" /\ row.status # "disabled" => Quiet]_vars
  PROVE  QuietInv' /\ StaysDisabled
<1> DEFINE Goal == QuietInv' /\ StaysDisabled
<1> SUFFICES Goal  OBVIOUS
<1>0. /\ row \in RowStates /\ request \in [Requests -> RequestStates]
      /\ job \in [Requests -> {"none", "pending", "done", "failed"}]
      /\ worker \in WorkerStates
  BY DEF TypeOK
<1>1. ASSUME row'.status # "disabled" PROVE QuietInv'
  BY <1>1 DEF QuietInv
<1>2. CASE UNCHANGED vars
  BY <1>2 DEF vars, QuietInv, Quiet, Pushing, StaysDisabled
<1>3. CASE StaffNext
  <2>0. UNCHANGED <<job, request, worker>> /\ row'.applied = row.applied
    BY <1>0, <1>3 DEF StaffNext, PatchHotspotStatus, others, RowStates
  <2>1. row'.status = "disabled" => Quiet
    BY DEF vars, QuietInv
  <2> QED  BY <1>1, <1>3, <2>0, <2>1 DEF QuietInv, Quiet, Pushing, StaysDisabled
<1>4. ASSUME NEW q \in Requests, EditHotspot(q) PROVE Goal
  <2>1. row'.status = "configuring"
    BY <1>0, <1>4 DEF EditHotspot, RowStates
  <2> QED  BY <1>1, <1>4, <2>1 DEF StaysDisabled
\* The row is disabled before and after, or never was: Quiet goes on.
<1>5. ASSUME row' = row, Quiet => Quiet' PROVE Goal
  BY <1>5 DEF QuietInv, StaysDisabled
\* The row becomes active: it was not disabled.
<1>6. ASSUME row'.status = "active", ~Quiet PROVE Goal
  BY <1>1, <1>6 DEF QuietInv, StaysDisabled
<1> USE <1>0
<1>7. ASSUME NEW q \in Requests, PushRow(q) PROVE Goal
  BY <1>6, <1>7 DEF PushRow, SetHotspotConfigured, Quiet, Pushing
<1>8. CASE JobRow \/ BoostRow
  BY <1>6, <1>8 DEF JobRow, BoostRow, SetHotspotConfigured, Quiet
\* What a request does while all is quiet.
<1>9. ASSUME NEW q \in Requests, UNCHANGED <<row, job, worker>>, NEW x,
             request' = [request EXCEPT ![q] = x], Quiet => x.pc \in {"idle", "done"} \/ (x.pc = "set" /\ x.op # "edit")
      PROVE  Goal
  BY <1>5, <1>9 DEF Quiet, Pushing
<1>10. ASSUME NEW q \in Requests,
              EnqueueJob(q) \/ PushProbe(q) \/ PushProbed(q) \/ PushGet(q) \/ PushSet(q)
       PROVE  Goal
  <2>1. ~Quiet /\ UNCHANGED row
    BY <1>10 DEF EnqueueJob, PushProbe, PushProbed, PushGet, PushSet, Quiet, Pushing
  <2> QED  BY <1>5, <2>1
<1>11. ASSUME NEW q \in Requests, RequestAborted(q) \/ OperationSet(q) PROVE Goal
  <2>1. Done(q).pc = "done"
    BY DEF Done, Arriving
  <2>2. request' = [request EXCEPT ![q] = Done(q)] /\ UNCHANGED <<row, job, worker>>
    BY <1>11 DEF RequestAborted, OperationSet
  <2> QED  BY <1>9, <2>1, <2>2
<1>12. ASSUME NEW q \in Requests, OperationGet(q) PROVE Goal
  <2> DEFINE x == [request[q] EXCEPT !.pc = "set", !.copy = router]
  <2>1. x.pc = "set" /\ x.op # "edit" /\ request' = [request EXCEPT ![q] = x]
    BY <1>12 DEF OperationGet, RequestStates
  <2>2. UNCHANGED <<row, job, worker>>
    BY <1>12 DEF OperationGet
  <2> HIDE DEF x
  <2> QED  BY <1>9, <2>1, <2>2
\* What the worker does while all is quiet.
<1>13. ASSUME UNCHANGED <<row, job, request>>, Quiet =>
                /\ worker'.pc \in {"stopped", "register", "tick", "jobs", "boost"}
                /\ worker'.jobs = {} /\ worker'.boosts = {}
       PROVE  Goal
  BY <1>5, <1>13 DEF Quiet, Pushing
<1>14. CASE ListJobs
  <2>1. Quiet => worker'.jobs = {} /\ worker'.boosts = {} /\ worker'.pc = "jobs"
    BY <1>14 DEF ListJobs, Quiet, WorkerStates
  <2> QED  BY <1>13, <1>14, <2>1 DEF ListJobs
<1>15. CASE ListStarts
  <2>1. row.status = "disabled" => WindowsToStart = {}
    BY DEF WindowsToStart
  <2>2. CASE row.status = "disabled"
    <3>1. Quiet => worker'.jobs = {} /\ worker'.boosts = {} /\ worker'.pc = "boost"
      BY <1>15, <2>1, <2>2 DEF ListStarts, Quiet, WorkerStates
    <3> QED  BY <1>13, <1>15, <3>1 DEF ListStarts
  <2>3. CASE row.status # "disabled"
    BY <1>15, <2>3 DEF ListStarts, QuietInv, StaysDisabled
  <2> QED  BY <2>2, <2>3
<1>16. CASE ListEnds
  <2>1. Quiet => Reverts = {}
    BY DEF Quiet, Reverts
  <2>2. Quiet => worker'.jobs = {} /\ worker'.boosts = {} /\ worker'.pc = "boost"
    BY <1>16, <2>1 DEF ListEnds, Quiet, WorkerStates
  <2> QED  BY <1>13, <1>16, <2>2 DEF ListEnds
<1>17. CASE TickEnds
  BY <1>13, <1>17 DEF TickEnds, Ticked, WorkerIdle
<1>18. CASE WorkerStopped \/ WorkerRegister
  BY <1>13, <1>18 DEF WorkerStopped, WorkerRegister, WorkerIdle
<1>19. CASE WorkerStarted
  <2>1. Quiet => worker'.jobs = {} /\ worker'.boosts = {} /\ worker'.pc \in {"register", "tick"}
    BY <1>19 DEF WorkerStarted, WorkerIdle, Quiet, WorkerStates
  <2> QED  BY <1>13, <1>19, <2>1 DEF WorkerStarted
<1>20. ASSUME ~Quiet, UNCHANGED row PROVE Goal
  BY <1>5, <1>20
<1>21. CASE JobSet \/ BoostSet \/ WorkerStatementFailed
  BY <1>20, <1>21 DEF JobSet, BoostSet, WorkerStatementFailed, Quiet
<1>22. ASSUME NEW q \in Requests, JobRead(q) \/ JobGet(q) \/ DoneJob(q) PROVE Goal
  BY <1>20, <1>22 DEF JobRead, JobGet, DoneJob, Quiet
<1>23. CASE BoostStep
  <2>1. PICK m \in worker.boosts : BoostGet(m)
    BY <1>23 DEF BoostStep
  <2> QED  BY <1>20, <2>1 DEF BoostGet, Quiet
<1>24. ASSUME UNCHANGED <<row, job, request, worker>> PROVE Goal
  BY <1>5, <1>24 DEF Quiet, Pushing
<1>25. ASSUME NEW w \in Windows, WindowNext(w) PROVE Goal
  BY <1>24, <1>25 DEF WindowNext, PostRateWindow, DeleteRateWindow, TimePasses, others
<1>26. CASE DeviceToggles
  BY <1>24, <1>26 DEF DeviceToggles
<1> QED
  BY <1>2, <1>3, <1>4, <1>7, <1>8, <1>10, <1>11, <1>12, <1>14, <1>15, <1>16, <1>17, <1>18,
     <1>19, <1>21, <1>22, <1>23, <1>25, <1>26
  DEF Next, EditNext, WorkerStep, JobStep, WorkerFails

\* A hotspot that staff disable while no edit, job, boost or due revert is under
\* way stays disabled until staff change it, whatever windows begin and however
\* the worker is restarted; what DisabledUntilStaff fails on is the rest.
THEOREM DisabledStaysIfQuiet == Spec /\ DisabledWhenQuiet => DisabledUntilStaff
<1>1. Init => QuietInv
  BY DEF Init, QuietInv
<1>2. TypeOK /\ QuietInv /\ [Next]_vars
        /\ [row'.status = "disabled" /\ row.status # "disabled" => Quiet]_vars
      => QuietInv' /\ [row.status = "disabled" /\ row'.status # "disabled"
                         => StaffNext \/ \E q \in Requests : EditHotspot(q)]_vars
  BY QuietStep DEF StaysDisabled
<1> QED
  BY <1>1, <1>2, TypeInit, TypeStep, PTL DEF Spec, DisabledWhenQuiet, DisabledUntilStaff

================================================================================
