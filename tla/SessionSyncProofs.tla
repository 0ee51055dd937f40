--------------------------- MODULE SessionSyncProofs ---------------------------
(***************************************************************************)
(* What SessionSync guarantees for any number of sessions, disconnects and *)
(* probes, any limit on a tick and any amount of traffic.                  *)
(***************************************************************************)
EXTENDS SessionSync, TLAPS

USE DEF Absent

-------------------------------------------------------------------------------
(* The operators.                                                             *)

LEMMA PositiveNat == \A n \in Int : Positive(n) \in Nat /\ Positive(n) >= n
  BY DEF Positive

LEMMA EmptyType == Empty \in Counters /\ NoCopy \in Routers
  BY DEF Empty, NoCopy, Counters, Routers

\* A session that a list has, has a counter in it.
LEMMA HasCounter == \A c \in Counters : \A s \in Has(c) : s \in Sessions /\ c[s] \in Nat
  BY DEF Has, Counters

\* What setting or removing one session leaves is a router again.
LEMMA RouterType ==
  ASSUME NEW r \in Routers, NEW s \in Sessions, NEW n \in Nat \cup {Absent}
  PROVE  [r EXCEPT !.sessions[s] = n] \in Routers
<1>1. r.sessions \in Counters
  BY DEF Routers
<1>2. [r.sessions EXCEPT ![s] = n] \in Counters
  BY <1>1 DEF Counters
<1> QED  BY <1>2 DEF Routers

\* A disconnect request.
Requests == [pc : {"idle", "get", "set", "close", "done"}, session : Sessions,
             bytes : Nat, copy : Routers]

RowsOK ==
  /\ session \in [Sessions -> {"none", "active", "closed"}]
  /\ bytes \in [Sessions -> Nat]
  /\ logged \in [Sessions -> Nat]
  /\ closings \in [Sessions -> Nat]

\* What the two transactions do to the row they are for.
LEMMA CloseType ==
  ASSUME RowsOK, NEW s \in Sessions, NEW n \in Nat, CloseSession(s, n)
  PROVE  RowsOK'
<1>1. CASE session[s] = "active"
  <2>1. Positive(n - bytes[s]) \in Nat
    BY PositiveNat DEF RowsOK
  <2> QED  BY <1>1, <2>1 DEF RowsOK, CloseSession
<1>2. CASE session[s] # "active"
  BY <1>2 DEF RowsOK, CloseSession, rows
<1> QED  BY <1>1, <1>2

LEMMA SnapshotType ==
  ASSUME RowsOK, NEW s \in Sessions, NEW n \in Nat, SnapshotSessionUsage(s, n)
  PROVE  RowsOK'
<1>1. CASE session[s] = "active"
  <2>1. Positive(n - bytes[s]) \in Nat
    BY PositiveNat DEF RowsOK
  <2> QED  BY <1>1, <2>1 DEF RowsOK, SnapshotSessionUsage
<1>2. CASE session[s] # "active"
  BY <1>2 DEF RowsOK, SnapshotSessionUsage, rows
<1> QED  BY <1>1, <1>2

-------------------------------------------------------------------------------
(* Types.  A close books the bytes the worker read with the list, so whoever   *)
(* is on the worker's list must have been read.                               *)

TypeInv == TypeOK /\ worker.todo \subseteq Has(worker.read)

LEMMA TypeInit == Init => TypeInv
<1> SUFFICES ASSUME Init PROVE TypeInv  OBVIOUS
<1> USE EmptyType DEF Init
<1>1. router \in Routers
  BY DEF Routers
<1>2. portal \in [Sessions -> [pc : {"idle", "get", "set"}, copy : Routers]]
  BY DEF PortalIdle
<1>3. disconnect \in [Disconnects ->
       [pc : {"idle", "get", "set", "close", "done"}, session : Sessions,
        bytes : Nat, copy : Routers]]
  <2>1. [pc : {"idle"}, session : Sessions, bytes : {0}, copy : {NoCopy}]
          \subseteq [pc : {"idle", "get", "set", "close", "done"}, session : Sessions,
                     bytes : Nat, copy : Routers]
    OBVIOUS
  <2> QED  BY <2>1
<1>4. check \in [Checks ->
       [pc : {"idle", "set", "done"}, op : {"probe", "register", "reset"},
        copy : Routers]]
  <2>1. [pc : {"idle"}, op : {"probe", "register", "reset"}, copy : {NoCopy}]
          \subseteq [pc : {"idle", "set", "done"}, op : {"probe", "register", "reset"},
                     copy : Routers]
    OBVIOUS
  <2> QED  BY <2>1
<1>5. worker \in [pc : {"stopped", "idle", "seed", "seedset", "poll", "pollset", "settle"},
                 todo : SUBSET Sessions, read : Counters, live : Counters, copy : Routers]
  BY DEF WorkerIdle
<1>6. worker.todo \subseteq Has(worker.read)
  BY DEF WorkerIdle
<1> QED  BY <1>1, <1>2, <1>3, <1>4, <1>5, <1>6 DEF TypeInv, TypeOK

LEMMA TypeStep == TypeInv /\ [Next]_vars => TypeInv'
<1> SUFFICES ASSUME TypeInv, [Next]_vars PROVE TypeInv'  OBVIOUS
<1> USE EmptyType, SyncAssumption DEF TypeInv, TypeOK
<1>r. RowsOK
  BY DEF RowsOK
<1>q. disconnect \in [Disconnects -> Requests]
  BY DEF Requests
<1>1. ASSUME NEW s \in Sessions, RedeemVoucher(s) PROVE TypeInv'
  <2>1. session' \in [Sessions -> {"none", "active", "closed"}]
    BY <1>1 DEF RedeemVoucher
  <2>2. CASE Simulated
    BY <1>1, <2>1, <2>2 DEF RedeemVoucher
  <2>3. CASE ~Simulated
    BY <1>1, <2>1, <2>3 DEF RedeemVoucher
  <2> QED  BY <2>2, <2>3
<1>2. ASSUME NEW s \in Sessions, PortalGet(s) PROVE TypeInv'
  <2>1. CASE router.connected
    BY <1>2, <2>1 DEF PortalGet, rows
  <2>2. CASE ~router.connected
    BY <1>2, <2>2 DEF PortalGet, rows, PortalIdle
  <2> QED  BY <2>1, <2>2
<1>3. ASSUME NEW s \in Sessions, PortalSet(s) PROVE TypeInv'
  <2>1. router' \in Routers
    BY <1>3 DEF PortalSet, Routers, Counters
  <2> QED  BY <1>3, <2>1 DEF PortalSet, rows, PortalIdle
<1>4. ASSUME NEW s \in Sessions, PortalAborted(s) PROVE TypeInv'
  BY <1>4 DEF PortalAborted, rows, PortalIdle
<1>5. ASSUME NEW d \in Disconnects, DisconnectRead(d) PROVE TypeInv'
  <2>1. disconnect[d] \in Requests /\ bytes[disconnect[d].session] \in Nat
    BY <1>q DEF Requests
  <2>2. [disconnect[d] EXCEPT !.pc = "get", !.bytes = bytes[disconnect[d].session]]
          \in Requests
    BY <2>1 DEF Requests
  <2>3. disconnect' \in [Disconnects -> Requests]
    BY <1>5, <1>q, <2>2 DEF DisconnectRead
  <2> QED  BY <1>5, <2>3 DEF DisconnectRead, rows, Requests
<1>6. ASSUME NEW d \in Disconnects, DisconnectGet(d) PROVE TypeInv'
  <2>0. disconnect[d] \in Requests
    BY <1>q
  <2>1. CASE Simulated /\ router.connected
    <3>1. [disconnect[d] EXCEPT !.pc = "set", !.copy = router] \in Requests
      BY <2>0 DEF Requests
    <3>2. disconnect' \in [Disconnects -> Requests]
      BY <1>6, <1>q, <2>1, <3>1 DEF DisconnectGet
    <3> QED  BY <1>6, <2>1, <3>2 DEF DisconnectGet, rows, Requests
  <2>2. CASE ~(Simulated /\ router.connected)
    <3>1. [disconnect[d] EXCEPT !.pc = "close"] \in Requests
      BY <2>0 DEF Requests
    <3>2. disconnect' \in [Disconnects -> Requests]
      BY <1>6, <1>q, <2>2, <3>1 DEF DisconnectGet
    <3>3. [router EXCEPT !.sessions[disconnect[d].session] = Absent] \in Routers
      BY <2>0, RouterType DEF Requests
    <3>4. router' \in Routers
      BY <1>6, <2>2, <3>3 DEF DisconnectGet
    <3> QED  BY <1>6, <2>2, <3>2, <3>4 DEF DisconnectGet, rows, Requests
  <2> QED  BY <2>1, <2>2
<1>7. ASSUME NEW d \in Disconnects, DisconnectSet(d) PROVE TypeInv'
  <2>1. disconnect[d] \in Requests
    BY <1>q
  <2>2. [disconnect[d] EXCEPT !.pc = "close", !.copy = NoCopy] \in Requests
    BY <2>1 DEF Requests
  <2>3. disconnect' \in [Disconnects -> Requests]
    BY <1>7, <1>q, <2>2 DEF DisconnectSet
  <2>4. router' \in Routers
    BY <1>7, <2>1, RouterType DEF DisconnectSet, Requests
  <2> QED  BY <1>7, <2>3, <2>4 DEF DisconnectSet, rows, Requests
<1>8. ASSUME NEW d \in Disconnects, DisconnectClose(d) PROVE TypeInv'
  <2>0. disconnect[d] \in Requests
    BY <1>q
  <2>1. RowsOK'
    BY <1>r, <1>8, <2>0, CloseType DEF DisconnectClose, Requests
  <2>2. [disconnect[d] EXCEPT !.pc = "done"] \in Requests
    BY <2>0 DEF Requests
  <2>3. disconnect' \in [Disconnects -> Requests]
    BY <1>8, <1>q, <2>2 DEF DisconnectClose
  <2> QED  BY <1>8, <2>1, <2>3 DEF DisconnectClose, RowsOK, Requests
<1>9. ASSUME NEW d \in Disconnects, DisconnectAborted(d) PROVE TypeInv'
  BY <1>9 DEF DisconnectAborted, rows
<1>10. ASSUME NEW c \in Checks, CheckGet(c) PROVE TypeInv'
  BY <1>10 DEF CheckGet, rows
<1>11. ASSUME NEW c \in Checks, CheckSet(c) PROVE TypeInv'
  <2>1. router' \in Routers
    BY <1>11 DEF CheckSet, Routers
  <2> QED  BY <1>11, <2>1 DEF CheckSet, rows
<1>12. CASE WorkerList
  <2>1. Batch \subseteq Sessions
    BY DEF Batch, Active
  <2>2. [s \in Sessions |-> IF s \in Batch THEN bytes[s] ELSE Absent] \in Counters
    BY <2>1 DEF Counters
  <2>3. worker'.todo \subseteq Has(worker'.read)
    BY <1>12, <2>1 DEF WorkerList, Has
  <2> QED  BY <1>12, <2>1, <2>2, <2>3 DEF WorkerList, rows
<1>13. ASSUME NEW s \in Sessions, WorkerSeedGet(s) PROVE TypeInv'
  <2>1. CASE router.connected
    BY <1>13, <2>1 DEF WorkerSeedGet, rows
  <2>2. CASE ~router.connected
    BY <1>13, <2>2 DEF WorkerSeedGet, rows
  <2> QED  BY <2>1, <2>2
<1>14. ASSUME NEW s \in Sessions, WorkerSeedSet(s) PROVE TypeInv'
  <2>1. router' \in Routers
    BY <1>14 DEF WorkerSeedSet, Routers, Counters
  <2> QED  BY <1>14, <2>1 DEF WorkerSeedSet, rows
<1>15. CASE WorkerPoll
  <2>1. CASE ~router.connected
    BY <1>15, <2>1 DEF WorkerPoll, rows, WorkerIdle, Has
  <2>2. CASE router.connected /\ Simulated
    BY <1>15, <2>2 DEF WorkerPoll, rows
  <2>3. CASE router.connected /\ ~Simulated
    BY <1>15, <2>3 DEF WorkerPoll, rows, Routers, Has
  <2> QED  BY <2>1, <2>2, <2>3
<1>16. CASE WorkerPollSet
  <2> DEFINE before == worker.copy.sessions
  <2>1. PICK busy \in SUBSET Has(before), gone \in SUBSET Has(before) :
           LET counted == [s \in Sessions |->
                             IF s \in busy THEN before[s] + 1 ELSE before[s]] IN
           /\ \A s \in busy : carried[s] < MaxBytes
           /\ gone = Has(before) => gone = {}
           /\ carried' = [s \in Sessions |->
                IF s \in busy THEN carried[s] + 1 ELSE carried[s]]
           /\ router' = [worker.copy EXCEPT !.sessions =
                [s \in Sessions |-> IF s \in gone THEN Absent ELSE counted[s]]]
           /\ worker' = [worker EXCEPT !.pc = "settle", !.todo = Has(worker.read),
                                       !.live = counted, !.copy = NoCopy]
    BY <1>16 DEF WorkerPollSet
  <2> DEFINE live == [s \in Sessions |-> IF s \in busy THEN before[s] + 1 ELSE before[s]]
  <2>2. before \in Counters
    BY DEF Routers
  <2>3. live \in Counters
    BY <2>2, HasCounter DEF Counters
  <2>4. router' \in Routers
    BY <2>1, <2>3 DEF Routers, Counters
  <2>5. worker' \in [pc : {"stopped", "idle", "seed", "seedset", "poll", "pollset", "settle"},
                 todo : SUBSET Sessions, read : Counters, live : Counters, copy : Routers]
    BY <2>1, <2>3 DEF Has
  <2>6. carried' \in [Sessions -> Nat]
    BY <2>1
  <2>7. worker'.todo \subseteq Has(worker'.read)
    BY <2>1
  <2> QED  BY <1>16, <2>4, <2>5, <2>6, <2>7 DEF WorkerPollSet, rows
<1>17. ASSUME NEW s \in Sessions, WorkerSettle(s) PROVE TypeInv'
  <2>1. RowsOK'
    <3>1. CASE s \in Has(worker.live)
      BY <1>r, <1>17, <3>1, SnapshotType, HasCounter DEF WorkerSettle
    <3>2. CASE s \notin Has(worker.live)
      <4>1. worker.read[s] \in Nat
        BY <1>17, HasCounter DEF WorkerSettle, Turn
      <4> QED  BY <1>r, <1>17, <3>2, <4>1, CloseType DEF WorkerSettle
    <3> QED  BY <3>1, <3>2
  <2>2. CASE worker.todo = {s}
    BY <1>17, <2>1, <2>2 DEF WorkerSettle, WorkerSettled, WorkerIdle, RowsOK
  <2>3. CASE worker.todo # {s}
    BY <1>17, <2>1, <2>3 DEF WorkerSettle, WorkerSettled, RowsOK
  <2> QED  BY <2>2, <2>3
<1>18. ASSUME NEW s \in Sessions, WorkerSettleFailed(s) PROVE TypeInv'
  <2>1. CASE worker.todo = {s}
    BY <1>18, <2>1 DEF WorkerSettleFailed, WorkerSettled, WorkerIdle, rows
  <2>2. CASE worker.todo # {s}
    BY <1>18, <2>2 DEF WorkerSettleFailed, WorkerSettled, rows
  <2> QED  BY <2>1, <2>2
<1>19. CASE WorkerStopped \/ WorkerStarted
  BY <1>19 DEF WorkerStopped, WorkerStarted, WorkerIdle, rows, Has
<1>20. ASSUME NEW s \in Sessions, GuestLogsIn(s) PROVE TypeInv'
  BY <1>20 DEF GuestLogsIn, rows, processes, Routers, Counters
<1>21. ASSUME NEW s \in Sessions, GuestLeaves(s) PROVE TypeInv'
  BY <1>21 DEF GuestLeaves, rows, processes, Routers, Counters
<1>22. ASSUME NEW s \in Sessions, Carry(s) PROVE TypeInv'
  <2>1. router.sessions[s] \in Nat
    <3>1. router.sessions \in Counters
      BY DEF Routers
    <3>2. s \in Has(router.sessions)
      BY <1>22 DEF Carry, Off
    <3> QED  BY <3>1, <3>2, HasCounter
  <2>2. router' \in Routers
    <3>1. PICK n \in Nat : n = router.sessions[s] + 1
      BY <2>1
    <3>2. [router EXCEPT !.sessions[s] = n] \in Routers
      BY <3>1, RouterType
    <3>3. router' = [router EXCEPT !.sessions[s] = n]
      BY <1>22, <3>1 DEF Carry
    <3> QED  BY <3>2, <3>3
  <2> QED  BY <1>22, <2>2 DEF Carry, rows, processes
<1>23. CASE RouterToggles
  BY <1>23 DEF RouterToggles, rows, processes, Routers
<1>24. CASE UNCHANGED vars
  BY <1>24 DEF vars
<1> QED
  BY <1>1, <1>2, <1>3, <1>4, <1>5, <1>6, <1>7, <1>8, <1>9, <1>10, <1>11, <1>12, <1>13,
     <1>14, <1>15, <1>16, <1>17, <1>18, <1>19, <1>20, <1>21, <1>22, <1>23, <1>24
     DEF Next, PortalNext, DisconnectNext, WorkerStep, WorkerFails, RouterNext

\* Every variable keeps its type, and the worker never closes a session whose
\* row it has not read (reconcileRouter works from the list it was given).
THEOREM TypeCorrect == Spec => []TypeInv
<1>1. Init => TypeInv                BY TypeInit
<1>2. TypeInv /\ [Next]_vars => TypeInv'  BY TypeStep
<1> QED  BY <1>1, <1>2, PTL DEF Spec

-------------------------------------------------------------------------------
(* Every way a step changes rows.                                             *)

Opens(s) ==
  /\ session[s] = "none"
  /\ session' = [session EXCEPT ![s] = "active"]
  /\ UNCHANGED <<bytes, logged, closings>>

RowStep ==
  \/ UNCHANGED rows
  \/ \E s \in Sessions : Opens(s)
  \/ \E s \in Sessions, n \in Nat : CloseSession(s, n) \/ SnapshotSessionUsage(s, n)

LEMMA StepRows == TypeInv /\ [Next]_vars => RowStep
<1> SUFFICES ASSUME TypeInv, [Next]_vars PROVE RowStep  OBVIOUS
<1>1. ASSUME NEW s \in Sessions, PortalNext(s) PROVE RowStep
  BY <1>1 DEF PortalNext, RedeemVoucher, PortalGet, PortalSet, PortalAborted, RowStep, Opens
<1>2. ASSUME NEW d \in Disconnects, DisconnectNext(d) PROVE RowStep
  <2>1. CASE DisconnectClose(d)
    <3>1. disconnect[d].session \in Sessions /\ disconnect[d].bytes \in Nat
      BY DEF TypeInv, TypeOK
    <3> QED  BY <2>1, <3>1 DEF DisconnectClose, RowStep
  <2> QED
    BY <1>2, <2>1 DEF DisconnectNext, DisconnectRead, DisconnectGet, DisconnectSet,
       DisconnectAborted, RowStep
<1>3. ASSUME NEW c \in Checks, CheckGet(c) \/ CheckSet(c) PROVE RowStep
  BY <1>3 DEF CheckGet, CheckSet, RowStep
<1>4. ASSUME NEW s \in Sessions, WorkerSettle(s) PROVE RowStep
  <2>1. CASE s \in Has(worker.live)
    <3>1. worker.live[s] \in Nat
      BY <2>1, HasCounter DEF TypeInv, TypeOK
    <3> QED  BY <1>4, <2>1, <3>1 DEF WorkerSettle, RowStep
  <2>2. CASE s \notin Has(worker.live)
    <3>1. worker.read[s] \in Nat
      BY <1>4, HasCounter DEF WorkerSettle, Turn, TypeInv, TypeOK
    <3> QED  BY <1>4, <2>2, <3>1 DEF WorkerSettle, RowStep
  <2> QED  BY <2>1, <2>2
<1>5. CASE WorkerStep
  BY <1>4, <1>5 DEF WorkerStep, WorkerStarted, WorkerList, WorkerPoll, WorkerPollSet,
     WorkerSeedGet, WorkerSeedSet, RowStep
<1>6. CASE WorkerFails
  BY <1>6 DEF WorkerFails, WorkerStopped, WorkerSettleFailed, RowStep
<1>7. ASSUME NEW s \in Sessions, RouterNext(s) PROVE RowStep
  BY <1>7 DEF RouterNext, GuestLogsIn, GuestLeaves, Carry, RowStep
<1>8. CASE RouterToggles
  BY <1>8 DEF RouterToggles, RowStep
<1>9. CASE UNCHANGED vars
  BY <1>9 DEF vars, rows, RowStep
<1> QED
  BY <1>1, <1>2, <1>3, <1>5, <1>6, <1>7, <1>8, <1>9 DEF Next

-------------------------------------------------------------------------------
(* Ended once and for all.                                                    *)

LEMMA RowStepEndsOnce ==
  ASSUME TypeInv, EndedOnce, RecordsCoverBytes, RowStep
  PROVE  EndedOnce' /\ RecordsCoverBytes'
<1> USE DEF TypeInv, TypeOK, EndedOnce, RecordsCoverBytes
<1>1. CASE UNCHANGED rows
  BY <1>1 DEF rows
<1>2. ASSUME NEW s \in Sessions, Opens(s) PROVE EndedOnce' /\ RecordsCoverBytes'
  BY <1>2 DEF Opens
<1>3. ASSUME NEW s \in Sessions, NEW n \in Nat, CloseSession(s, n)
      PROVE  EndedOnce' /\ RecordsCoverBytes'
  <2>2. CASE session[s] = "active"
    <3>1. PICK delta \in Nat : delta = Positive(n - bytes[s])
      BY PositiveNat
    <3>2. /\ logged' = [logged EXCEPT ![s] = @ + delta]
          /\ bytes' = [bytes EXCEPT ![s] = @ + delta]
          /\ closings' = [closings EXCEPT ![s] = @ + 1]
          /\ session' = [session EXCEPT ![s] = "closed"]
      BY <1>3, <2>2, <3>1 DEF CloseSession
    <3>3. EndedOnce'
      BY <2>2, <3>2
    <3>4. RecordsCoverBytes'
      BY <3>1, <3>2
    <3> QED  BY <3>3, <3>4
  <2>3. CASE session[s] # "active"
    BY <1>3, <2>3 DEF CloseSession, rows
  <2> QED  BY <2>2, <2>3
<1>4. ASSUME NEW s \in Sessions, NEW n \in Nat, SnapshotSessionUsage(s, n)
      PROVE  EndedOnce' /\ RecordsCoverBytes'
  <2>2. CASE session[s] = "active"
    <3>1. PICK delta \in Nat : delta = Positive(n - bytes[s]) /\ delta >= n - bytes[s]
      BY PositiveNat
    <3>2. logged[s] + delta >= n
      BY <3>1
    <3>3. /\ logged' = [logged EXCEPT ![s] = @ + delta]
          /\ bytes' = [bytes EXCEPT ![s] = n]
          /\ UNCHANGED <<session, closings>>
      BY <1>4, <2>2, <3>1 DEF SnapshotSessionUsage
    <3> QED  BY <3>2, <3>3
  <2>3. CASE session[s] # "active"
    BY <1>4, <2>3 DEF SnapshotSessionUsage, rows
  <2> QED  BY <2>2, <2>3
<1> QED  BY <1>1, <1>2, <1>3, <1>4 DEF RowStep

\* A session is ended once, whatever staff and the worker do at the same time,
\* and what its records add up to covers what its row shows.
THEOREM SessionEndedOnce == Spec => [](EndedOnce /\ RecordsCoverBytes)
<1>1. Init => EndedOnce /\ RecordsCoverBytes
  BY DEF Init, EndedOnce, RecordsCoverBytes
<1>2. TypeInv /\ EndedOnce /\ RecordsCoverBytes /\ [Next]_vars
        => (EndedOnce /\ RecordsCoverBytes)'
  BY StepRows, RowStepEndsOnce
<1> QED  BY <1>1, <1>2, TypeCorrect, PTL DEF Spec

\* The usage records of a session hold at least the bytes its row shows, in
\* whatever order readings arrive and however often counters start again.
THEOREM RecordsCover == Spec => []RecordsCoverBytes
BY SessionEndedOnce, PTL

LEMMA RowStepFinal ==
  ASSUME TypeInv, RowStep, NEW r \in Sessions, session[r] = "closed"
  PROVE  session'[r] = "closed" /\ bytes'[r] = bytes[r] /\ logged'[r] = logged[r]
<1> USE DEF TypeInv, TypeOK
<1>1. CASE UNCHANGED rows
  BY <1>1 DEF rows
<1>2. ASSUME NEW s \in Sessions, Opens(s)
      PROVE  session'[r] = "closed" /\ bytes'[r] = bytes[r] /\ logged'[r] = logged[r]
  BY <1>2 DEF Opens
<1>3. ASSUME NEW s \in Sessions, NEW n \in Nat, CloseSession(s, n)
      PROVE  session'[r] = "closed" /\ bytes'[r] = bytes[r] /\ logged'[r] = logged[r]
  <2>1. CASE session[s] = "active"
    BY <1>3, <2>1 DEF CloseSession
  <2>2. CASE session[s] # "active"
    BY <1>3, <2>2 DEF CloseSession, rows
  <2> QED  BY <2>1, <2>2
<1>4. ASSUME NEW s \in Sessions, NEW n \in Nat, SnapshotSessionUsage(s, n)
      PROVE  session'[r] = "closed" /\ bytes'[r] = bytes[r] /\ logged'[r] = logged[r]
  <2>1. CASE session[s] = "active"
    BY <1>4, <2>1 DEF SnapshotSessionUsage
  <2>2. CASE session[s] # "active"
    BY <1>4, <2>2 DEF SnapshotSessionUsage, rows
  <2> QED  BY <2>1, <2>2
<1> QED  BY <1>1, <1>2, <1>3, <1>4 DEF RowStep

\* No late reading, of the worker's or of a disconnect's, touches an ended session.
THEOREM EndedStaysEnded == Spec => EndedIsFinal
<1>1. TypeInv /\ [Next]_vars =>
        [\A s \in Sessions : session[s] = "closed" =>
           /\ session'[s] = "closed"
           /\ bytes'[s] = bytes[s] /\ logged'[s] = logged[s]]_vars
  BY StepRows, RowStepFinal
<1> QED  BY <1>1, TypeCorrect, PTL DEF Spec, EndedIsFinal

-------------------------------------------------------------------------------
(* What has gone from the simulated router.  Gone(s) is stable: every value   *)
(* written to the router is the router itself or a copy of it, with another    *)
(* session changed or with s, if s is still to be seeded or counted.          *)

LEMMA HasMeans ==
  ASSUME NEW f, NEW s \in Sessions PROVE s \in Has(f) <=> f[s] # Absent
BY DEF Has

\* The parties' copies and the router, at the session that has gone.
LEMMA GoneMeans ==
  ASSUME NEW s \in Sessions
  PROVE  Gone(s) <=>
           /\ session[s] = "closed" /\ portal[s].pc = "idle"
           /\ router.sessions[s] = Absent
           /\ \A r \in Sessions : portal[r].copy.sessions[s] = Absent
           /\ \A d \in Disconnects : disconnect[d].copy.sessions[s] = Absent
           /\ \A c \in Checks : check[c].copy.sessions[s] = Absent
           /\ worker.copy.sessions[s] = Absent
           /\ worker.pc \in {"seed", "seedset"} => s \notin worker.todo
BY HasMeans DEF Gone, Off, Copied, ToBeSeeded

LEMMA NothingInEmpty == \A s \in Sessions : NoCopy.sessions[s] = Absent
BY DEF NoCopy, Empty

LEMMA GoneStays ==
  ASSUME TypeInv, [Next]_vars, Simulated, NEW s \in Sessions, Gone(s)
  PROVE  Gone(s)'
<1> DEFINE Kept ==
      /\ portal[s].pc = "idle"
      /\ router.sessions[s] = Absent
      /\ \A r \in Sessions : portal[r].copy.sessions[s] = Absent
      /\ \A d \in Disconnects : disconnect[d].copy.sessions[s] = Absent
      /\ \A c \in Checks : check[c].copy.sessions[s] = Absent
      /\ worker.copy.sessions[s] = Absent
      /\ worker.pc \in {"seed", "seedset"} => s \notin worker.todo
<1>0. session[s] = "closed" /\ Kept
  BY GoneMeans
<1>c. session'[s] = "closed"
  BY <1>0, StepRows, RowStepFinal, TypeInv
<1>k. Kept' => Gone(s)'
  <2> SUFFICES ASSUME Kept' PROVE Gone(s)'  OBVIOUS
  <2> QED  BY <1>c, HasMeans DEF Gone, Off, Copied, ToBeSeeded
<1> HIDE DEF Kept
<1> SUFFICES Kept'
  BY <1>k
<1> USE NothingInEmpty, <1>0 DEF TypeInv, TypeOK, Routers, Counters, Kept
<1>1. ASSUME NEW r \in Sessions, RedeemVoucher(r) PROVE Kept'
  <2>1. r # s
    BY <1>1 DEF RedeemVoucher
  <2>2. portal' = [portal EXCEPT ![r].pc = "get"]
    BY <1>1 DEF RedeemVoucher
  <2>3. portal'[s].pc = "idle" /\ \A q \in Sessions : portal'[q].copy = portal[q].copy
    BY <2>1, <2>2
  <2> QED  BY <1>1, <2>3 DEF RedeemVoucher
<1>2. ASSUME NEW r \in Sessions, PortalGet(r) PROVE Kept'
  <2>1. r # s
    BY <1>2 DEF PortalGet
  <2> QED  BY <1>2, <2>1 DEF PortalGet, rows, PortalIdle
<1>3. ASSUME NEW r \in Sessions, PortalSet(r) PROVE Kept'
  <2>1. r # s
    BY <1>3 DEF PortalSet
  <2>2. router'.sessions[s] = Absent
    BY <1>3, <2>1 DEF PortalSet
  <2> QED  BY <1>3, <2>1, <2>2 DEF PortalSet, rows, PortalIdle
<1>4. ASSUME NEW r \in Sessions, PortalAborted(r) PROVE Kept'
  BY <1>4 DEF PortalAborted, rows, PortalIdle
<1>5. ASSUME NEW d \in Disconnects, DisconnectRead(d) PROVE Kept'
  BY <1>5 DEF DisconnectRead, rows
<1>6. ASSUME NEW d \in Disconnects, DisconnectGet(d) PROVE Kept'
  <2>1. router'.sessions[s] = Absent
    BY <1>6 DEF DisconnectGet
  <2>2. \A e \in Disconnects : disconnect'[e].copy.sessions[s] = Absent
    <3>1. CASE router.connected
      <4>1. disconnect' = [disconnect EXCEPT ![d] =
              [disconnect[d] EXCEPT !.pc = "set", !.copy = router]]
        BY <1>6, <3>1 DEF DisconnectGet
      <4>2. \A e \in Disconnects : disconnect'[e] =
              IF e = d THEN [disconnect[d] EXCEPT !.pc = "set", !.copy = router] ELSE disconnect[e]
        BY <4>1
      <4>3. [disconnect[d] EXCEPT !.pc = "set", !.copy = router].copy = router
        OBVIOUS
      <4> QED  BY <4>2, <4>3
    <3>2. CASE ~router.connected
      <4>1. disconnect' = [disconnect EXCEPT ![d].pc = "close"]
        BY <1>6, <3>2 DEF DisconnectGet
      <4> QED  BY <4>1
    <3> QED  BY <3>1, <3>2
  <2> QED  BY <1>6, <2>1, <2>2 DEF DisconnectGet, rows
<1>7. ASSUME NEW d \in Disconnects, DisconnectSet(d) PROVE Kept'
  <2>1. router'.sessions[s] = Absent
    BY <1>7 DEF DisconnectSet
  <2> QED  BY <1>7, <2>1 DEF DisconnectSet, rows
<1>8. ASSUME NEW d \in Disconnects, DisconnectClose(d) PROVE Kept'
  BY <1>8 DEF DisconnectClose
<1>9. ASSUME NEW d \in Disconnects, DisconnectAborted(d) PROVE Kept'
  BY <1>9 DEF DisconnectAborted, rows
<1>9a. ASSUME NEW c \in Checks, CheckGet(c) PROVE Kept'
  BY <1>9a DEF CheckGet, rows
<1>10. ASSUME NEW c \in Checks, CheckSet(c) PROVE Kept'
  <2>1. PICK up : router' = [check[c].copy EXCEPT !.connected = up]
    BY <1>10 DEF CheckSet
  <2>2. router'.sessions[s] = Absent
    BY <2>1
  <2>3. check' = [check EXCEPT ![c] = [@ EXCEPT !.pc = "done", !.copy = NoCopy]]
    BY <1>10 DEF CheckSet
  <2> QED  BY <1>10, <2>2, <2>3 DEF CheckSet, rows
<1>11. CASE WorkerList
  <2>1. s \notin Batch
    BY DEF Batch, Active
  <2> QED  BY <1>11, <2>1 DEF WorkerList, rows
<1>12. ASSUME NEW r \in Sessions, WorkerSeedGet(r) PROVE Kept'
  BY <1>12 DEF WorkerSeedGet, rows
<1>13. ASSUME NEW r \in Sessions, WorkerSeedSet(r) PROVE Kept'
  <2>1. r # s
    BY <1>13 DEF WorkerSeedSet, Turn
  <2>2. router'.sessions[s] = Absent
    BY <1>13, <2>1 DEF WorkerSeedSet
  <2> QED  BY <1>13, <2>2 DEF WorkerSeedSet, rows
<1>14. CASE WorkerPoll
  BY <1>14 DEF WorkerPoll, rows, WorkerIdle
<1>15. CASE WorkerPollSet
  <2> DEFINE before == worker.copy.sessions
  <2>1. PICK busy \in SUBSET Has(before), gone \in SUBSET Has(before) :
           LET counted == [q \in Sessions |->
                             IF q \in busy THEN before[q] + 1 ELSE before[q]] IN
           /\ router' = [worker.copy EXCEPT !.sessions =
                [q \in Sessions |-> IF q \in gone THEN Absent ELSE counted[q]]]
           /\ worker' = [worker EXCEPT !.pc = "settle", !.todo = Has(worker.read),
                                       !.live = counted, !.copy = NoCopy]
    BY <1>15 DEF WorkerPollSet
  <2>2. s \notin busy /\ s \notin gone
    BY <2>1, HasMeans
  <2>3. router'.sessions[s] = Absent
    BY <2>1, <2>2
  <2> QED  BY <1>15, <2>1, <2>3 DEF WorkerPollSet, rows
<1>16. ASSUME NEW r \in Sessions, WorkerSettle(r) \/ WorkerSettleFailed(r) PROVE Kept'
  <2>1. worker.pc = "settle" /\ worker' = WorkerSettled(r)
    BY <1>16 DEF WorkerSettle, WorkerSettleFailed
  <2>2. worker'.copy.sessions[s] = Absent /\ worker'.pc \in {"settle", "idle"}
    BY <2>1 DEF WorkerSettled, WorkerIdle
  <2> QED  BY <1>16, <2>2 DEF WorkerSettle, WorkerSettleFailed
<1>17. CASE WorkerStopped \/ WorkerStarted
  <2>1. /\ worker' = [WorkerIdle EXCEPT !.pc = "stopped"] \/ worker' = WorkerIdle
        /\ UNCHANGED <<router, portal, disconnect, check>>
    BY <1>17 DEF WorkerStopped, WorkerStarted
  <2>2. worker'.copy = NoCopy /\ worker'.pc \in {"stopped", "idle"}
    BY <2>1 DEF WorkerIdle
  <2> QED  BY <2>1, <2>2
<1>18. ASSUME NEW r \in Sessions, RouterNext(r) PROVE Kept'
  BY <1>18 DEF RouterNext, GuestLogsIn, GuestLeaves, Carry
<1>19. CASE RouterToggles
  BY <1>19 DEF RouterToggles
<1>20. CASE UNCHANGED vars
  BY <1>20 DEF vars
<1> QED
  BY <1>1, <1>2, <1>3, <1>4, <1>5, <1>6, <1>7, <1>8, <1>9, <1>9a, <1>10, <1>11, <1>12,
     <1>13, <1>14, <1>15, <1>16, <1>17, <1>18, <1>19, <1>20
     DEF Next, PortalNext, DisconnectNext, WorkerStep, WorkerFails

\* With any number of guests, disconnects, probes and toggles: an ended session
\* that is off the simulated router, and that no copy and no list still has,
\* never comes back to it.
THEOREM GoneStaysGone == Spec => GoneForGood
<1>1. TypeInv /\ [Next]_vars =>
        [Simulated => \A s \in Sessions : Gone(s) => Gone(s)']_vars
  BY GoneStays
<1> QED  BY <1>1, TypeCorrect, PTL DEF Spec, GoneForGood

-------------------------------------------------------------------------------
(* On a real router usage is not invented.  A session's records, and what the *)
(* next snapshot would add to them, stay within what the router carried: for  *)
(* the counter the router has now and, while a tick is under way, for the     *)
(* older reading the worker is still to book and the counter after it.        *)

DeviceShape ==
  /\ \A s \in Sessions : portal[s].pc = "idle"
  /\ \A d \in Disconnects : disconnect[d].pc # "set"
  /\ \A c \in Checks : check[c].pc = "idle"
  /\ worker.pc \in {"stopped", "idle", "poll", "settle"}
  /\ worker.pc # "settle" => worker.todo = {}

\* The worker is still to look at the session, or to book what it has seen.
Listed(s) == s \in worker.todo \/ (worker.pc = "poll" /\ s \in Has(worker.read))
Seen(s) == s \in worker.todo /\ s \in Has(worker.live)

Billed(s) ==
  /\ logged[s] + Positive(router.sessions[s] - bytes[s]) <= carried[s]
  /\ Listed(s) => worker.read[s] = bytes[s]
  /\ Seen(s) => logged[s] + Positive(worker.live[s] - bytes[s])
                  + Positive(router.sessions[s] - worker.live[s]) <= carried[s]

DeviceInv == ~Simulated => DeviceShape /\ \A s \in Sessions \ Asked : Billed(s)

LEMMA PositiveFacts ==
  /\ \A b \in Nat : Positive(0 - b) = 0 /\ Positive(Absent - b) = 0 /\ Positive(b - b) = 0
  /\ \A c \in Nat, b \in Nat : Positive((c + 1) - b) \in Nat
                               /\ Positive((c + 1) - b) <= Positive(c - b) + 1
  /\ \A c \in Nat \cup {Absent}, b \in Nat : Positive(c - b) \in Nat
  BY DEF Positive

\* The kinds of the counters of a session.
LEMMA CounterTypes ==
  ASSUME TypeInv, NEW r \in Sessions
  PROVE  /\ logged[r] \in Nat /\ bytes[r] \in Nat /\ carried[r] \in Nat
         /\ router.sessions[r] \in Nat \cup {Absent}
         /\ worker.live[r] \in Nat \cup {Absent}
         /\ Seen(r) => worker.live[r] \in Nat
  BY DEF TypeInv, TypeOK, Routers, Counters, Seen, Has

\* A session that a step leaves alone, and what the worker knows of it.
LEMMA BilledKept ==
  ASSUME NEW r \in Sessions, Billed(r),
         logged'[r] = logged[r], bytes'[r] = bytes[r], carried'[r] = carried[r],
         router'.sessions[r] = router.sessions[r],
         Listed(r)' => Listed(r) /\ worker'.read[r] = worker.read[r],
         Seen(r)' => Seen(r) /\ worker'.live[r] = worker.live[r]
  PROVE  Billed(r)'
  BY DEF Billed

\* Its counter starts again, or is gone.
LEMMA BilledReset ==
  ASSUME TypeInv, NEW r \in Sessions, Billed(r),
         UNCHANGED <<rows, carried, worker>>,
         router'.sessions[r] \in {0, Absent}
  PROVE  Billed(r)'
<1>1. logged[r] <= carried[r]
  <2>1. Positive(router.sessions[r] - bytes[r]) \in Nat
    BY CounterTypes, PositiveFacts
  <2>2. logged[r] + Positive(router.sessions[r] - bytes[r]) <= carried[r]
    BY DEF Billed
  <2> QED  BY <2>1, <2>2, CounterTypes
<1>2. Seen(r) => logged[r] + Positive(worker.live[r] - bytes[r]) <= carried[r]
  <2>1. Positive(router.sessions[r] - worker.live[r]) \in Nat
        /\ Positive(worker.live[r] - bytes[r]) \in Nat
    BY CounterTypes, PositiveFacts, HasCounter DEF Seen, Positive
  <2> QED  BY <2>1, CounterTypes DEF Billed
<1>3. Seen(r) => Positive(router'.sessions[r] - worker.live[r]) = 0
  BY CounterTypes, PositiveFacts
<1>4. Positive(router'.sessions[r] - bytes[r]) = 0
  BY CounterTypes, PositiveFacts
<1>5. Seen(r) => Positive(worker.live[r] - bytes[r]) \in Nat
  BY CounterTypes, PositiveFacts
<1>6. (Listed(r)' <=> Listed(r)) /\ (Seen(r)' <=> Seen(r))
  BY DEF Listed, Seen, Has
<1> QED  BY <1>1, <1>2, <1>3, <1>4, <1>5, <1>6, CounterTypes DEF Billed, rows

\* The router carries one more byte for it.
LEMMA BilledCarried ==
  ASSUME TypeInv, NEW r \in Sessions, Billed(r), Carry(r)
  PROVE  Billed(r)'
<1>1. PICK c \in Nat : c = router.sessions[r]
  <2>1. router.sessions[r] # Absent
    BY DEF Carry, Off, Has
  <2> QED  BY <2>1, CounterTypes
<1>2. /\ router'.sessions[r] = c + 1
      /\ carried'[r] = carried[r] + 1
      /\ UNCHANGED <<rows, worker>>
  BY <1>1 DEF Carry, processes, TypeInv, TypeOK, Routers, Counters
<1>3. logged[r] + Positive((c + 1) - bytes[r]) <= carried[r] + 1
  <2>1. Positive((c + 1) - bytes[r]) <= Positive(c - bytes[r]) + 1
    BY CounterTypes, PositiveFacts
  <2>2. Positive((c + 1) - bytes[r]) \in Nat /\ Positive(c - bytes[r]) \in Nat
    BY CounterTypes, PositiveFacts
  <2>3. logged[r] + Positive(c - bytes[r]) <= carried[r]
    BY <1>1 DEF Billed
  <2> QED  BY <2>1, <2>2, <2>3, CounterTypes
<1>4. Seen(r) => logged[r] + Positive(worker.live[r] - bytes[r])
                   + Positive((c + 1) - worker.live[r]) <= carried[r] + 1
  <2> SUFFICES ASSUME Seen(r)
               PROVE  logged[r] + Positive(worker.live[r] - bytes[r])
                        + Positive((c + 1) - worker.live[r]) <= carried[r] + 1
    OBVIOUS
  <2>0. PICK n \in Nat : n = worker.live[r]
    BY CounterTypes
  <2>1. Positive((c + 1) - n) <= Positive(c - n) + 1
    BY PositiveFacts
  <2>2. Positive((c + 1) - n) \in Nat /\ Positive(c - n) \in Nat
        /\ Positive(n - bytes[r]) \in Nat
    BY CounterTypes, PositiveFacts
  <2>3. logged[r] + Positive(n - bytes[r]) + Positive(c - n) <= carried[r]
    BY <1>1, <2>0 DEF Billed
  <2> QED  BY <2>0, <2>1, <2>2, <2>3, CounterTypes
<1>5. (Listed(r)' <=> Listed(r)) /\ (Seen(r)' <=> Seen(r))
  BY <1>2 DEF Listed, Seen, Has
<1> QED  BY <1>2, <1>3, <1>4, <1>5 DEF Billed, rows

\* The worker books what it has seen, or closes what it has not.
LEMMA BilledSettled ==
  ASSUME TypeInv, NEW r \in Sessions, Billed(r), WorkerSettle(r)
  PROVE  Billed(r)'
<1>0. /\ r \in worker.todo /\ worker.pc = "settle"
      /\ ~Listed(r)' /\ ~Seen(r)'
      /\ UNCHANGED <<router, carried>>
  <2>1. CASE worker.todo = {r}
    BY <2>1 DEF WorkerSettle, WorkerSettled, Turn, WorkerIdle, Listed, Seen
  <2>2. CASE worker.todo # {r}
    BY <2>2 DEF WorkerSettle, WorkerSettled, Turn, Listed, Seen, TypeInv, TypeOK
  <2> QED  BY <2>1, <2>2
<1>1. CASE session[r] # "active"
  <2>1. UNCHANGED rows
    BY <1>1 DEF WorkerSettle, SnapshotSessionUsage, CloseSession
  <2> QED  BY <1>0, <2>1 DEF Billed, rows
<1>2. CASE session[r] = "active" /\ r \in Has(worker.live)
  <2>1. PICK n \in Nat : n = worker.live[r]
    BY <1>0, <1>2, CounterTypes DEF Seen
  <2>2. logged[r] + Positive(n - bytes[r]) + Positive(router.sessions[r] - n) <= carried[r]
    BY <1>0, <1>2, <2>1 DEF Billed, Seen
  <2>3. logged'[r] = logged[r] + Positive(n - bytes[r]) /\ bytes'[r] = n
    BY <1>2, <2>1 DEF WorkerSettle, SnapshotSessionUsage, TypeInv, TypeOK
  <2> QED  BY <1>0, <2>2, <2>3 DEF Billed
<1>3. CASE session[r] = "active" /\ r \notin Has(worker.live)
  <2>1. worker.read[r] = bytes[r]
    BY <1>0 DEF Billed, Listed
  <2>2. Positive(worker.read[r] - bytes[r]) = 0
    BY <2>1, CounterTypes, PositiveFacts
  <2>3. logged'[r] = logged[r] /\ bytes'[r] = bytes[r]
    <3>1. logged'[r] = logged[r] + 0 /\ bytes'[r] = bytes[r] + 0
      BY <1>3, <2>2 DEF WorkerSettle, CloseSession, TypeInv, TypeOK
    <3> QED  BY <3>1, CounterTypes
  <2> QED  BY <1>0, <2>3 DEF Billed
<1> QED  BY <1>1, <1>2, <1>3

\* A transaction on one session leaves another's records alone.
LEMMA OtherRow ==
  ASSUME TypeInv, NEW r \in Sessions, NEW s \in Sessions, r # s, NEW n \in Nat,
         CloseSession(s, n) \/ SnapshotSessionUsage(s, n)
  PROVE  logged'[r] = logged[r] /\ bytes'[r] = bytes[r]
<1>1. CASE session[s] = "active"
  BY <1>1 DEF CloseSession, SnapshotSessionUsage, TypeInv, TypeOK
<1>2. CASE session[s] # "active"
  BY <1>2 DEF CloseSession, SnapshotSessionUsage, rows
<1> QED  BY <1>1, <1>2

LEMMA DeviceStep == TypeInv /\ DeviceInv /\ [Next]_vars => DeviceInv'
<1> SUFFICES ASSUME TypeInv, DeviceInv, [Next]_vars, ~Simulated
             PROVE  DeviceShape' /\ \A r \in Sessions \ Asked' : Billed(r)'
  BY DEF DeviceInv
<1>0. DeviceShape /\ \A r \in Sessions \ Asked : Billed(r)
  BY DEF DeviceInv
<1> DEFINE Goal == DeviceShape' /\ \A r \in Sessions \ Asked' : Billed(r)'
<1>a. UNCHANGED disconnect => Asked' = Asked
  BY DEF Asked
<1>p. ASSUME UNCHANGED <<portal, disconnect, check>>,
             worker'.pc \in {"stopped", "idle", "poll", "settle"},
             worker'.pc # "settle" => worker'.todo = {}
      PROVE  DeviceShape'
  BY <1>0, <1>p DEF DeviceShape
<1>1. ASSUME NEW s \in Sessions, PortalNext(s) PROVE Goal
  <2>1. RedeemVoucher(s)
    BY <1>0, <1>1 DEF PortalNext, DeviceShape, PortalGet, PortalSet, PortalAborted
  <2>2. UNCHANGED <<bytes, logged, closings, router, carried, portal, disconnect, check, worker>>
    BY <2>1 DEF RedeemVoucher
  <2>3. DeviceShape'
    BY <1>0, <2>2 DEF DeviceShape
  <2>4. ASSUME NEW r \in Sessions \ Asked' PROVE Billed(r)'
    BY <1>0, <1>a, <2>2, <2>4, BilledKept DEF Listed, Seen, Has
  <2> QED  BY <2>3, <2>4
<1>2. ASSUME NEW d \in Disconnects, DisconnectNext(d) PROVE Goal
  <2>0. ~DisconnectSet(d)
    BY <1>0 DEF DeviceShape, DisconnectSet
  <2>1. \A e \in Disconnects :
          /\ disconnect'[e].session = disconnect[e].session
          /\ disconnect[e].pc # "idle" => disconnect'[e].pc # "idle"
          /\ disconnect'[e].pc # "set"
          /\ disconnect'[d].pc # "idle"
    <3>1. CASE DisconnectRead(d)
      BY <1>0, <3>1 DEF DisconnectRead, DeviceShape, TypeInv, TypeOK
    <3>2. CASE DisconnectGet(d)
      BY <1>0, <3>2 DEF DisconnectGet, DeviceShape, TypeInv, TypeOK
    <3>3. CASE DisconnectClose(d)
      BY <1>0, <3>3 DEF DisconnectClose, DeviceShape, TypeInv, TypeOK
    <3>4. CASE DisconnectAborted(d)
      BY <1>0, <3>4 DEF DisconnectAborted, DeviceShape, TypeInv, TypeOK
    <3> QED  BY <1>2, <2>0, <3>1, <3>2, <3>3, <3>4 DEF DisconnectNext
  <2>2. UNCHANGED <<carried, portal, check, worker>>
    BY <1>2, <2>0 DEF DisconnectNext, DisconnectRead, DisconnectGet, DisconnectClose,
       DisconnectAborted
  <2>3. DeviceShape'
    BY <1>0, <2>1, <2>2 DEF DeviceShape
  <2>4. ASSUME NEW r \in Sessions \ Asked' PROVE Billed(r)'
    <3>1. r \notin Asked /\ r # disconnect[d].session
      BY <2>1, <2>4 DEF Asked
    <3>2. logged'[r] = logged[r] /\ bytes'[r] = bytes[r]
      <4>1. CASE DisconnectClose(d)
        <5>1. disconnect[d].session \in Sessions /\ disconnect[d].bytes \in Nat
          BY DEF TypeInv, TypeOK
        <5> QED  BY <3>1, <4>1, <5>1, OtherRow DEF DisconnectClose
      <4> QED
        BY <1>2, <2>0, <4>1 DEF DisconnectNext, DisconnectRead, DisconnectGet,
           DisconnectAborted, rows
    <3>3. router'.sessions[r] = router.sessions[r]
      <4>1. CASE DisconnectGet(d)
        BY <3>1, <4>1 DEF DisconnectGet, TypeInv, TypeOK, Routers, Counters
      <4> QED
        BY <1>2, <2>0, <4>1 DEF DisconnectNext, DisconnectRead, DisconnectClose,
           DisconnectAborted
    <3> QED
      BY <1>0, <2>2, <3>1, <3>2, <3>3, BilledKept DEF Listed, Seen, Has
  <2> QED  BY <2>3, <2>4
<1>3. ASSUME NEW c \in Checks, CheckGet(c) \/ CheckSet(c) PROVE Goal
  BY <1>0, <1>3 DEF CheckGet, CheckSet, DeviceShape
<1>4. CASE WorkerList
  <2>1. /\ worker'.pc = "poll" /\ worker'.todo = {}
        /\ worker'.read = [s \in Sessions |-> IF s \in Batch THEN bytes[s] ELSE Absent]
        /\ UNCHANGED <<rows, router, carried, portal, disconnect, check>>
    BY <1>4 DEF WorkerList, TypeInv, TypeOK
  <2>2. DeviceShape'
    BY <1>p, <2>1
  <2>3. ASSUME NEW r \in Sessions \ Asked' PROVE Billed(r)'
    <3>1. Listed(r)' => worker'.read[r] = bytes'[r]
      BY <2>1 DEF Listed, Has, rows
    <3> QED  BY <1>0, <1>a, <2>1, <2>3, <3>1 DEF Billed, Seen, rows
  <2> QED  BY <2>2, <2>3
<1>5. CASE WorkerPoll
  <2>0. worker.pc = "poll" /\ worker.todo = {}
    BY <1>0, <1>5 DEF WorkerPoll, DeviceShape
  <2>1. UNCHANGED <<rows, router, carried, portal, disconnect, check>>
    BY <1>5 DEF WorkerPoll
  <2>2. CASE ~router.connected
    <3>1. worker' = WorkerIdle
      BY <1>5, <2>2 DEF WorkerPoll
    <3>2. DeviceShape'
      BY <1>p, <2>1, <3>1 DEF WorkerIdle
    <3>3. ASSUME NEW r \in Sessions \ Asked' PROVE Billed(r)'
      BY <1>0, <1>a, <2>1, <3>1, <3>3 DEF Billed, Listed, Seen, WorkerIdle, rows
    <3> QED  BY <3>2, <3>3
  <2>3. CASE router.connected
    <3>1. /\ worker'.pc = "settle" /\ worker'.todo = Has(worker.read)
          /\ worker'.read = worker.read /\ worker'.live = router.sessions
      BY <1>5, <2>3 DEF WorkerPoll, TypeInv, TypeOK
    <3>2. DeviceShape'
      BY <1>p, <2>1, <3>1
    <3>3. ASSUME NEW r \in Sessions \ Asked' PROVE Billed(r)'
      <4>1. Billed(r)
        BY <1>0, <1>a, <2>1, <3>3
      <4>2. Listed(r)' => worker'.read[r] = bytes'[r]
        BY <2>0, <2>1, <3>1, <4>1 DEF Listed, Billed, rows
      <4>3. Seen(r)' => worker'.live[r] \in Nat /\ worker'.live[r] = router.sessions[r]
        BY <3>1, CounterTypes DEF Seen, Has
      <4>4. Seen(r)' => /\ Positive(router.sessions[r] - worker'.live[r]) = 0
                        /\ Positive(worker'.live[r] - bytes[r]) \in Nat
        BY <4>3, CounterTypes, PositiveFacts
      <4>5. logged[r] + Positive(router.sessions[r] - bytes[r]) <= carried[r]
        BY <4>1 DEF Billed
      <4>6. Seen(r)' => logged[r] + Positive(worker'.live[r] - bytes[r])
                          + Positive(router.sessions[r] - worker'.live[r]) <= carried[r]
        BY <4>3, <4>4, <4>5, CounterTypes
      <4> QED  BY <2>1, <4>2, <4>5, <4>6 DEF Billed, rows
    <3> QED  BY <3>2, <3>3
  <2> QED  BY <2>2, <2>3
<1>6. CASE WorkerPollSet
  BY <1>0, <1>6 DEF WorkerPollSet, DeviceShape
<1>7. ASSUME NEW s \in Sessions, WorkerSeedGet(s) \/ WorkerSeedSet(s) PROVE Goal
  BY <1>0, <1>7 DEF WorkerSeedGet, WorkerSeedSet, DeviceShape
<1>8. ASSUME NEW s \in Sessions,
             worker' = WorkerSettled(s), s \in worker.todo
      PROVE  /\ worker'.pc \in {"stopped", "idle", "poll", "settle"}
             /\ worker'.pc # "settle" => worker'.todo = {}
             /\ \A r \in Sessions :
                  /\ Listed(r)' => Listed(r) /\ worker'.read[r] = worker.read[r]
                  /\ Seen(r)' => Seen(r) /\ worker'.live[r] = worker.live[r]
  <2>0. worker.pc = "settle"
    BY <1>0, <1>8 DEF DeviceShape
  <2>1. CASE worker.todo = {s}
    BY <1>8, <2>1 DEF WorkerSettled, WorkerIdle, Listed, Seen
  <2>2. CASE worker.todo # {s}
    BY <1>8, <2>0, <2>2 DEF WorkerSettled, Listed, Seen, Has, TypeInv, TypeOK
  <2> QED  BY <2>1, <2>2
<1>9. ASSUME NEW s \in Sessions, WorkerSettle(s) PROVE Goal
  <2>1. s \in worker.todo /\ worker' = WorkerSettled(s)
        /\ UNCHANGED <<router, carried, portal, disconnect, check>>
    BY <1>9 DEF WorkerSettle, Turn
  <2>2. DeviceShape'
    BY <1>8, <1>p, <2>1
  <2>3. ASSUME NEW r \in Sessions \ Asked' PROVE Billed(r)'
    <3>1. Billed(r)
      BY <1>0, <1>a, <2>1, <2>3
    <3>2. CASE r = s
      BY <1>9, <3>1, <3>2, BilledSettled
    <3>3. CASE r # s
      <4>1. logged'[r] = logged[r] /\ bytes'[r] = bytes[r]
        <5>1. CASE s \in Has(worker.live)
          <6>1. worker.live[s] \in Nat
            BY <5>1, HasCounter DEF TypeInv, TypeOK
          <6> QED  BY <1>9, <3>3, <5>1, <6>1, OtherRow DEF WorkerSettle
        <5>2. CASE s \notin Has(worker.live)
          <6>1. worker.read[s] \in Nat
            BY <2>1, HasCounter DEF TypeInv, TypeOK
          <6> QED  BY <1>9, <3>3, <5>2, <6>1, OtherRow DEF WorkerSettle
        <5> QED  BY <5>1, <5>2
      <4> QED  BY <1>8, <2>1, <3>1, <4>1, BilledKept
    <3> QED  BY <3>2, <3>3
  <2> QED  BY <2>2, <2>3
<1>10. ASSUME NEW s \in Sessions, WorkerSettleFailed(s) PROVE Goal
  <2>1. s \in worker.todo /\ worker' = WorkerSettled(s)
        /\ UNCHANGED <<rows, router, carried, portal, disconnect, check>>
    BY <1>10 DEF WorkerSettleFailed, Turn
  <2>2. DeviceShape'
    BY <1>8, <1>p, <2>1
  <2>3. ASSUME NEW r \in Sessions \ Asked' PROVE Billed(r)'
    BY <1>0, <1>8, <1>a, <2>1, <2>3, BilledKept DEF rows
  <2> QED  BY <2>2, <2>3
<1>11. CASE WorkerStopped \/ WorkerStarted
  <2>1. /\ worker'.pc \in {"stopped", "idle"} /\ worker'.todo = {}
        /\ UNCHANGED <<rows, router, carried, portal, disconnect, check>>
    BY <1>11 DEF WorkerStopped, WorkerStarted, WorkerIdle
  <2>2. DeviceShape'
    BY <1>p, <2>1
  <2>3. ASSUME NEW r \in Sessions \ Asked' PROVE Billed(r)'
    BY <1>0, <1>a, <2>1, <2>3 DEF Billed, Listed, Seen, rows
  <2> QED  BY <2>2, <2>3
<1>12. ASSUME NEW s \in Sessions, RouterNext(s) PROVE Goal
  <2>1. UNCHANGED <<rows, portal, disconnect, check, worker>>
    BY <1>12 DEF RouterNext, GuestLogsIn, GuestLeaves, Carry, processes
  <2>2. DeviceShape'
    BY <1>0, <2>1 DEF DeviceShape
  <2>3. ASSUME NEW r \in Sessions \ Asked' PROVE Billed(r)'
    <3>1. Billed(r)
      BY <1>0, <1>a, <2>1, <2>3
    <3>2. CASE r # s
      <4>1. router'.sessions[r] = router.sessions[r] /\ carried'[r] = carried[r]
        BY <1>12, <3>2 DEF RouterNext, GuestLogsIn, GuestLeaves, Carry, TypeInv, TypeOK,
           Routers, Counters
      <4> QED  BY <2>1, <3>1, <4>1, BilledKept DEF rows, Listed, Seen, Has
    <3>3. CASE r = s /\ Carry(s)
      BY <3>1, <3>3, BilledCarried
    <3>4. CASE r = s /\ ~Carry(s)
      <4>1. router'.sessions[r] \in {0, Absent} /\ UNCHANGED carried
        BY <1>12, <3>4 DEF RouterNext, GuestLogsIn, GuestLeaves, TypeInv, TypeOK,
           Routers, Counters
      <4> QED  BY <2>1, <3>1, <4>1, BilledReset
    <3> QED  BY <3>2, <3>3, <3>4
  <2> QED  BY <2>2, <2>3
<1>13. CASE RouterToggles
  <2>1. UNCHANGED <<rows, carried, portal, disconnect, check, worker>>
        /\ router'.sessions = router.sessions
    BY <1>13 DEF RouterToggles, processes, TypeInv, TypeOK, Routers
  <2>2. DeviceShape'
    BY <1>0, <2>1 DEF DeviceShape
  <2>3. ASSUME NEW r \in Sessions \ Asked' PROVE Billed(r)'
    BY <1>0, <1>a, <2>1, <2>3, BilledKept DEF rows, Listed, Seen, Has
  <2> QED  BY <2>2, <2>3
<1>14. CASE UNCHANGED vars
  <2>1. DeviceShape'
    BY <1>0, <1>14 DEF DeviceShape, vars
  <2>2. ASSUME NEW r \in Sessions \ Asked' PROVE Billed(r)'
    BY <1>0, <1>a, <1>14, <2>2, BilledKept DEF vars, Listed, Seen, Has
  <2> QED  BY <2>1, <2>2
<1> QED
  BY <1>1, <1>2, <1>3, <1>4, <1>5, <1>6, <1>7, <1>9, <1>10, <1>11, <1>12, <1>13, <1>14
     DEF Next, WorkerStep, WorkerFails

LEMMA DeviceInit == Init => DeviceInv
<1> SUFFICES ASSUME Init PROVE DeviceShape /\ \A r \in Sessions : Billed(r)
  BY DEF DeviceInv
<1>1. DeviceShape
  BY DEF Init, DeviceShape, PortalIdle, WorkerIdle
<1>2. ASSUME NEW r \in Sessions PROVE Billed(r)
  <2>1. router.sessions[r] = Absent /\ logged[r] = 0 /\ bytes[r] = 0 /\ carried[r] = 0
    BY DEF Init, Empty
  <2>2. ~Listed(r) /\ ~Seen(r)
    BY DEF Init, WorkerIdle, Listed, Seen
  <2> QED  BY <2>1, <2>2, PositiveFacts DEF Billed
<1> QED  BY <1>1, <1>2

\* Whatever the delay between reading a counter and booking it, however often
\* guests come and go and the worker is restarted: on a real router a session's
\* records hold no more than the router carried, unless staff disconnect it.
THEOREM NoUsageInvented == Spec => []UsageNotInvented
<1>1. Init => TypeInv /\ DeviceInv
  BY TypeInit, DeviceInit
<1>2. TypeInv /\ DeviceInv /\ [Next]_vars => (TypeInv /\ DeviceInv)'
  BY TypeStep, DeviceStep
<1>3. TypeInv /\ DeviceInv => UsageNotInvented
  <2> SUFFICES ASSUME TypeInv, DeviceInv, ~Simulated, NEW s \in Sessions \ Asked
               PROVE  logged[s] <= carried[s]
    BY DEF UsageNotInvented
  <2>1. logged[s] + Positive(router.sessions[s] - bytes[s]) <= carried[s]
    BY DEF DeviceInv, Billed
  <2>2. Positive(router.sessions[s] - bytes[s]) \in Nat
    BY CounterTypes, PositiveFacts
  <2> QED  BY <2>1, <2>2, CounterTypes
<1> QED  BY <1>1, <1>2, <1>3, PTL DEF Spec

================================================================================
