--------------------------- MODULE RouterStatusProofs ---------------------------
(***************************************************************************)
(* What RouterStatus guarantees for any number of requests and addresses:  *)
(* its types, with what they say about probes, that a late status does not *)
(* bring back a deleted router, and that a status that is right stays so.  *)
(***************************************************************************)
EXTENDS RouterStatus, TLAPS

\* The states of a request, of the row and of the worker that TypeOK allows.
RequestOK(r) == r \in RequestStates /\ (r.pc = "set" => r.copy # "none")
WorkerOK(w) == w \in WorkerStates /\ (w.pc = "set" => w.copy # "none")

RowKept(new) == new \in RowStates /\ (row.status = "deleted" => new.status = "deleted")

\* A step moves at most one request, and the worker, between such states.
Way ==
  /\ kind' = kind /\ RowKept(row') /\ doc' \in DocStates /\ link' \in [Addresses -> Links]
  /\ \/ request' = request
     \/ \E q \in Requests : \E new : RequestOK(new) /\ request' = [request EXCEPT ![q] = new]
  /\ WorkerOK(worker')

LEMMA WayKeepsTypes == TypeOK /\ Way => TypeOK'
<1> SUFFICES ASSUME TypeOK, Way PROVE TypeOK'  OBVIOUS
<1>1. kind' \in Kinds /\ row' \in RowStates /\ doc' \in DocStates /\ link' \in [Addresses -> Links]
  BY DEF TypeOK, Way, RowKept
<1>2. worker' \in WorkerStates /\ (worker'.pc = "set" => worker'.copy # "none")
  BY DEF Way, WorkerOK
<1>3. request' \in [Requests -> RequestStates]
      /\ \A q \in Requests : request'[q].pc = "set" => request'[q].copy # "none"
  <2>1. CASE request' = request
    BY <2>1 DEF TypeOK
  <2>2. ASSUME NEW q \in Requests, NEW new, RequestOK(new), request' = [request EXCEPT ![q] = new]
        PROVE  request' \in [Requests -> RequestStates]
               /\ \A p \in Requests : request'[p].pc = "set" => request'[p].copy # "none"
    BY <2>2 DEF TypeOK, RequestOK
  <2> QED  BY <2>1, <2>2 DEF Way
<1> QED  BY <1>1, <1>2, <1>3 DEF TypeOK, RequestStates, WorkerStates, RowStates, DocStates, Verdicts

-------------------------------------------------------------------------------
(* What the actions are made of.                                              *)

LEMMA TypesGive ==
  ASSUME TypeOK
  PROVE  /\ RowKept(row) /\ doc \in DocStates /\ link \in [Addresses -> Links]
         /\ \A q \in Requests : RequestOK(request[q])
         /\ WorkerOK(worker)
BY DEF TypeOK, RowKept, RequestOK, WorkerOK

LEMMA VerdictIsStatus == \A b \in BOOLEAN : Verdict(b) \in Verdicts
BY DEF Verdict, Verdicts

LEMMA DoneIsOK ==
  ASSUME TypeOK, NEW q \in Requests
  PROVE  RequestOK(Done(q))
<1>1. request[q].op \in Ops /\ row.address \in Addresses
  BY DEF TypeOK, RequestStates, RowStates
<1>2. Done(q) = [op |-> request[q].op, pc |-> "done", address |-> row.address,
                 copy |-> "none", says |-> "offline"]
  BY DEF Done, Idle
<1> QED  BY <1>1, <1>2 DEF RequestOK, RequestStates, DocStates, Verdicts

LEMMA ContinueMoves ==
  ASSUME TypeOK, NEW q \in Requests, NEW a \in Addresses, NEW s \in Verdicts, Continue(q, a, s)
  PROVE  \E new : RequestOK(new) /\ request' = [request EXCEPT ![q] = new]
<1> DEFINE r == request[q]
<1> DEFINE toRouter == [r EXCEPT !.pc = "router", !.address = a, !.says = s]
<1> DEFINE toStatus == [r EXCEPT !.pc = "status", !.address = a, !.says = s]
<1>1. RequestOK(toRouter) /\ RequestOK(toStatus)
  BY TypesGive DEF RequestOK, RequestStates
<1>2. RequestOK(Done(q))
  BY DoneIsOK
<1>3. CASE Simulated \/ r.op = "probe"
  <2>1. request' = [request EXCEPT ![q] = toRouter]
    BY <1>3 DEF Continue, TypeOK
  <2> QED  BY <1>1, <2>1
<1>4. CASE ~(Simulated \/ r.op = "probe") /\ r.op \in {"create", "on", "off"}
  <2>1. request' = [request EXCEPT ![q] = toStatus]
    BY <1>4 DEF Continue, TypeOK
  <2> QED  BY <1>1, <2>1
<1>5. CASE ~(Simulated \/ r.op = "probe") /\ r.op \notin {"create", "on", "off"}
  <2>1. request' = [request EXCEPT ![q] = Done(q)]
    BY <1>5 DEF Continue, TypeOK
  <2> QED  BY <1>2, <2>1
<1> QED  BY <1>3, <1>4, <1>5

LEMMA StatusKeepsRow ==
  ASSUME TypeOK, NEW s \in Verdicts, SetRouterStatus(s)
  PROVE  RowKept(row')
<1>1. [row EXCEPT !.status = s] \in RowStates
  BY DEF TypeOK, RowStates, Verdicts
<1>2. CASE Exists
  BY <1>1, <1>2 DEF SetRouterStatus, Exists, RowKept
<1>3. CASE ~Exists
  BY <1>3 DEF SetRouterStatus, RowKept, TypeOK
<1> QED  BY <1>2, <1>3

-------------------------------------------------------------------------------
(* Every action is such a step.                                               *)

LEMMA RequestWay ==
  ASSUME TypeOK, NEW q \in Requests, RowNext(q) \/ RouterNext(q) \/ RequestAborted(q)
  PROVE  Way
<1> DEFINE Moves == \E new : RequestOK(new) /\ request' = [request EXCEPT ![q] = new]
<1>0. /\ RowKept(row) /\ doc \in DocStates /\ link \in [Addresses -> Links] /\ WorkerOK(worker)
      /\ RequestOK(request[q]) /\ RequestOK(Done(q)) /\ row.address \in Addresses
  BY TypesGive, DoneIsOK DEF TypeOK, RowStates
<1>1. CASE CreateRouter(q)
  <2>1. PICK a \in Addresses : row' = [status |-> "unverified", address |-> a] /\ Continue(q, a, "online")
    BY <1>1 DEF CreateRouter
  <2>2. Moves
    BY <2>1, ContinueMoves DEF Verdicts
  <2>3. RowKept(row')
    BY <1>1, <2>1 DEF CreateRouter, RowKept, RowStates
  <2> QED  BY <1>0, <1>1, <2>2, <2>3 DEF CreateRouter, Way
<1>2. CASE UpdateRouter(q)
  <2>1. PICK a \in Addresses : row' = [status |-> "unverified", address |-> a] /\ Continue(q, a, "offline")
    BY <1>2 DEF UpdateRouter
  <2>2. Moves
    BY <2>1, ContinueMoves DEF Verdicts
  <2>3. RowKept(row')
    BY <1>2, <2>1 DEF UpdateRouter, RowKept, RowStates, Exists
  <2> QED  BY <1>0, <1>2, <2>2, <2>3 DEF UpdateRouter, Way
<1>3. CASE DeleteRouter(q)
  <2>1. Moves
    BY <1>0, <1>3, ContinueMoves DEF DeleteRouter, Verdicts
  <2>2. RowKept(row')
    BY <1>3 DEF DeleteRouter, RowKept, RowStates, TypeOK
  <2> QED  BY <1>0, <1>3, <2>1, <2>2 DEF DeleteRouter, Way
<1>4. CASE RouterByID(q)
  <2>1. Moves
    BY <1>0, <1>4, ContinueMoves, VerdictIsStatus DEF RouterByID
  <2> QED  BY <1>0, <1>4, <2>1 DEF RouterByID, Way
<1>5. CASE WriteStatus(q)
  <2>1. RowKept(row')
    BY <1>0, <1>5, StatusKeepsRow DEF WriteStatus, RequestOK, RequestStates
  <2> QED  BY <1>0, <1>5, <2>1 DEF WriteStatus, Way
<1>6. CASE UnregisterRouter(q)
  BY <1>0, <1>6 DEF UnregisterRouter, Way, DocStates
<1>7. CASE SimulatorGet(q)
  <2> DEFINE r == request[q]
  <2>1. PICK new : request' = [request EXCEPT ![q] = new] /\ new =
          CASE r.op \in Registers -> [r EXCEPT !.pc = "set", !.copy = "on"]
            [] r.op = "off" /\ doc = "none" -> [r EXCEPT !.pc = "status"]
            [] r.op = "off" /\ doc # "none" -> [r EXCEPT !.pc = "set", !.copy = "off"]
            [] r.op = "probe" /\ doc = "none" -> Done(q)
            [] r.op = "probe" /\ doc # "none" ->
                 [r EXCEPT !.pc = "set", !.copy = doc, !.says = Verdict(doc = "on")]
    BY <1>7 DEF SimulatorGet
  <2>2. r.op \in Registers \/ r.op \in {"off", "probe"}
    BY <1>0, <1>7 DEF SimulatorGet, RequestOK, RequestStates, Ops, Registers
  <2>3. RequestOK(new)
    <3>1. \A c \in DocStates \ {"none"}, s \in Verdicts :
             /\ RequestOK([r EXCEPT !.pc = "set", !.copy = c])
             /\ RequestOK([r EXCEPT !.pc = "status"])
             /\ RequestOK([r EXCEPT !.pc = "set", !.copy = c, !.says = s])
      BY <1>0 DEF RequestOK, RequestStates
    <3>2. Verdict(doc = "on") \in Verdicts /\ {"on", "off"} \subseteq DocStates \ {"none"}
      BY VerdictIsStatus DEF DocStates
    <3>3. CASE r.op \in Registers
      <4>1. new = [r EXCEPT !.pc = "set", !.copy = "on"]
        BY <2>1, <3>3 DEF Registers
      <4> QED  BY <3>1, <3>2, <4>1
    <3>4. CASE r.op = "off"
      <4>1. new = IF doc = "none" THEN [r EXCEPT !.pc = "status"]
                  ELSE [r EXCEPT !.pc = "set", !.copy = "off"]
        BY <2>1, <3>4 DEF Registers
      <4> QED  BY <3>1, <3>2, <4>1
    <3>5. CASE r.op = "probe"
      <4>1. new = IF doc = "none" THEN Done(q)
                  ELSE [r EXCEPT !.pc = "set", !.copy = doc, !.says = Verdict(doc = "on")]
        BY <2>1, <3>5 DEF Registers
      <4> QED  BY <1>0, <3>1, <3>2, <4>1
    <3> QED  BY <2>2, <3>3, <3>4, <3>5
  <2> HIDE DEF r
  <2> QED  BY <1>0, <1>7, <2>1, <2>3 DEF SimulatorGet, Way
<1>8. CASE SimulatorSet(q)
  <2>1. RequestOK([request[q] EXCEPT !.pc = "status"])
    BY <1>0 DEF RequestOK, RequestStates
  <2>2. CASE request[q].op \in {"update", "start"}
    BY <1>0, <1>8, <2>2 DEF SimulatorSet, Way, RequestOK, RequestStates
  <2>3. CASE request[q].op \notin {"update", "start"}
    BY <1>0, <1>8, <2>1, <2>3 DEF SimulatorSet, Way, RequestOK, RequestStates
  <2> QED  BY <2>2, <2>3
<1>9. CASE ProbeDevice(q)
  <2>1. \A b \in BOOLEAN : RequestOK([request[q] EXCEPT !.pc = "status", !.says = Verdict(b)])
    BY <1>0, VerdictIsStatus DEF RequestOK, RequestStates
  <2>2. Moves
    <3>1. CASE link[request[q].address] = "silent"
      BY <1>0, <1>9, <3>1 DEF ProbeDevice
    <3>2. CASE link[request[q].address] # "silent"
      BY <1>9, <2>1, <3>2 DEF ProbeDevice
    <3> QED  BY <3>1, <3>2
  <2> QED  BY <1>0, <1>9, <2>2 DEF ProbeDevice, Way
<1>10. CASE RequestAborted(q)
  BY <1>0, <1>10 DEF RequestAborted, Way
<1> QED  BY <1>1, <1>2, <1>3, <1>4, <1>5, <1>6, <1>7, <1>8, <1>9, <1>10 DEF RowNext, RouterNext

LEMMA WorkerWay ==
  ASSUME TypeOK, WorkerStep \/ WorkerFails
  PROVE  Way
<1>0. /\ RowKept(row) /\ doc \in DocStates /\ link \in [Addresses -> Links] /\ WorkerOK(worker)
  BY TypesGive
<1>1. CASE WorkerList
  BY <1>0, <1>1 DEF WorkerList, Way, WorkerOK, WorkerStates, TypeOK, RowStates
<1>2. CASE WorkerProbe
  <2>1. \A b \in BOOLEAN : Verdict(b) \in Verdicts
    BY VerdictIsStatus
  <2>2. CASE Simulated /\ doc # "none"
    BY <1>0, <1>2, <2>1, <2>2 DEF WorkerProbe, Way, WorkerOK, WorkerStates
  <2>3. CASE ~(Simulated /\ doc # "none")
    BY <1>0, <1>2, <2>1, <2>3 DEF WorkerProbe, Way, WorkerOK, WorkerStates
  <2> QED  BY <2>2, <2>3
<1>3. CASE WorkerProbed
  BY <1>0, <1>3 DEF WorkerProbed, Way, WorkerOK, WorkerStates
<1>4. CASE WorkerWrites
  <2>1. RowKept(row')
    BY <1>0, <1>4, StatusKeepsRow DEF WorkerWrites, WorkerOK, WorkerStates
  <2> QED  BY <1>0, <1>4, <2>1 DEF WorkerWrites, Way, WorkerOK, WorkerStates
<1>5. CASE WorkerStarted
  BY <1>0, <1>5 DEF WorkerStarted, Way, WorkerOK, WorkerStates
<1>6. CASE WorkerRegisters
  BY <1>0, <1>6 DEF WorkerRegisters, Way, WorkerOK, WorkerStates, DocStates
<1>7. CASE WorkerFails
  BY <1>0, <1>7 DEF WorkerFails, Way, WorkerOK, WorkerStates
<1> QED  BY <1>1, <1>2, <1>3, <1>4, <1>5, <1>6, <1>7 DEF WorkerStep

LEMMA EveryStepIsAWay == TypeOK /\ Next => Way
<1> SUFFICES ASSUME TypeOK, Next PROVE Way  OBVIOUS
<1>1. ASSUME NEW a \in Addresses, LinkChanges(a) PROVE Way
  BY <1>1, TypesGive DEF LinkChanges, Way
<1> QED  BY <1>1, RequestWay, WorkerWay DEF Next

-------------------------------------------------------------------------------
LEMMA InitTypes == Init => TypeOK
<1> SUFFICES ASSUME Init PROVE TypeOK  OBVIOUS
<1>1. row \in RowStates /\ row.address \in Addresses
  BY DEF Init, RowStates
<1>2. \A op \in Ops : RequestOK(Idle(op))
  BY <1>1 DEF Idle, RequestOK, RequestStates, DocStates, Verdicts
<1>3. \A q \in Requests : RequestOK(request[q])
  BY <1>2 DEF Init
<1>4. request \in [Requests -> RequestStates]
  BY <1>2 DEF Init, RequestOK
<1>5. worker \in WorkerStates /\ worker.pc # "set"
  BY <1>1 DEF Init, WorkerStates, DocStates, Verdicts
<1> QED  BY <1>1, <1>3, <1>4, <1>5 DEF Init, TypeOK, RequestOK, DocStates

LEMMA StepTypes == TypeOK /\ [Next]_vars => TypeOK'
<1>1. TypeOK /\ UNCHANGED vars => TypeOK'
  BY DEF vars, TypeOK, RequestStates, WorkerStates, RowStates
<1> QED  BY <1>1, EveryStepIsAWay, WayKeepsTypes

\* Rows, router, requests and worker keep their types, and nobody is about to
\* put a probed copy on the simulator of a router that was not there.
THEOREM TypeCorrect == Spec => []TypeOK
BY InitTypes, StepTypes, PTL DEF Spec

\* A deleted router stays deleted, for any number of requests that probe, edit
\* or toggle it meanwhile.
THEOREM DeletedForGood == Spec => DeletedStaysDeleted
<1>1. TypeOK /\ [Next]_vars => [row.status = "deleted" => row'.status = "deleted"]_vars
  BY EveryStepIsAWay DEF Way, RowKept
<1> QED  BY <1>1, TypeCorrect, PTL DEF Spec, DeletedStaysDeleted

-------------------------------------------------------------------------------
(* What requests and worker are about to say.                                 *)

SaysOK(r) ==
  /\ r.pc = "router" /\ r.op \in {"create", "on"} => r.says = "online"
  /\ r.pc = "router" /\ r.op = "off" => r.says = "offline"
  /\ r.pc = "set" /\ r.op \notin {"update", "start"} => r.says = Verdict(r.copy = "on")

WorkerSaysOK(w) == w.pc = "set" => w.says = Verdict(w.copy = "on")

SaysInv == (\A q \in Requests : SaysOK(request[q])) /\ WorkerSaysOK(worker)

LEMMA DoneIs ==
  ASSUME NEW q \in Requests
  PROVE  Done(q).pc = "done" /\ SaysOK(Done(q))
<1>1. Done(q).pc = "done"
  BY DEF Done, Idle
<1> QED  BY <1>1 DEF SaysOK

\* Continue leads to the router, to the status or to the end.
LEMMA ContinueLeads ==
  ASSUME TypeOK, NEW q \in Requests, NEW a \in Addresses, NEW s \in Verdicts, Continue(q, a, s)
  PROVE  \E new :
           /\ request' = [request EXCEPT ![q] = new]
           /\ \/ new = Done(q)
              \/ /\ new.op = request[q].op /\ new.address = a /\ new.says = s
                 /\ \/ new.pc = "router" /\ (Simulated \/ new.op = "probe")
                    \/ new.pc = "status" /\ new.op \in {"create", "on", "off"}
<1> DEFINE r == request[q]
<1> DEFINE toRouter == [r EXCEPT !.pc = "router", !.address = a, !.says = s]
<1> DEFINE toStatus == [r EXCEPT !.pc = "status", !.address = a, !.says = s]
<1>1. /\ toRouter.op = r.op /\ toRouter.address = a /\ toRouter.says = s /\ toRouter.pc = "router"
      /\ toStatus.op = r.op /\ toStatus.address = a /\ toStatus.says = s /\ toStatus.pc = "status"
  BY TypesGive DEF RequestOK, RequestStates
<1>2. CASE Simulated \/ r.op = "probe"
  <2>1. request' = [request EXCEPT ![q] = toRouter]
    BY <1>2 DEF Continue, TypeOK
  <2> HIDE DEF toRouter, toStatus
  <2> QED  BY <1>1, <1>2, <2>1
<1>3. CASE ~(Simulated \/ r.op = "probe") /\ r.op \in {"create", "on", "off"}
  <2>1. request' = [request EXCEPT ![q] = toStatus]
    BY <1>3 DEF Continue, TypeOK
  <2> HIDE DEF toRouter, toStatus
  <2> QED  BY <1>1, <1>3, <2>1
<1>4. CASE ~(Simulated \/ r.op = "probe") /\ r.op \notin {"create", "on", "off"}
  BY <1>4 DEF Continue, TypeOK
<1> QED  BY <1>2, <1>3, <1>4

\* What the simulator's GET leads to.
LEMMA GetLeads ==
  ASSUME TypeOK, NEW q \in Requests, SimulatorGet(q)
  PROVE  \E new :
           /\ request' = [request EXCEPT ![q] = new]
           /\ \/ new = Done(q)
              \/ /\ new.op = request[q].op
                 /\ \/ new.op = "off" /\ doc = "none" /\ new.pc = "status" /\ new.says = request[q].says
                    \/ new.op \in Registers /\ new.pc = "set" /\ new.copy = "on" /\ new.says = request[q].says
                    \/ new.op = "off" /\ new.pc = "set" /\ new.copy = "off" /\ new.says = request[q].says
                    \/ new.op = "probe" /\ new.pc = "set" /\ new.copy = doc /\ new.says = Verdict(doc = "on")
<1> DEFINE r == request[q]
<1> DEFINE reset == [r EXCEPT !.pc = "status"]
<1> DEFINE set(c) == [r EXCEPT !.pc = "set", !.copy = c]
<1> DEFINE probed == [r EXCEPT !.pc = "set", !.copy = doc, !.says = Verdict(doc = "on")]
<1>1. PICK new : request' = [request EXCEPT ![q] = new] /\ new =
        CASE r.op \in Registers -> set("on")
          [] r.op = "off" /\ doc = "none" -> reset
          [] r.op = "off" /\ doc # "none" -> set("off")
          [] r.op = "probe" /\ doc = "none" -> Done(q)
          [] r.op = "probe" /\ doc # "none" -> probed
  BY DEF SimulatorGet
<1>2. r.op \in Registers \/ r.op \in {"off", "probe"}
  BY TypesGive DEF SimulatorGet, RequestOK, RequestStates, Ops, Registers
<1>3. /\ reset.op = r.op /\ reset.pc = "status" /\ reset.says = r.says
      /\ \A c : set(c).op = r.op /\ set(c).pc = "set" /\ set(c).copy = c /\ set(c).says = r.says
      /\ probed.op = r.op /\ probed.pc = "set" /\ probed.copy = doc /\ probed.says = Verdict(doc = "on")
  BY TypesGive DEF RequestOK, RequestStates
<1> HIDE DEF reset, set, probed
<1>4. CASE r.op \in Registers
  <2>1. new = set("on")
    BY <1>1, <1>4 DEF Registers
  <2>2. new.op = r.op /\ new.pc = "set" /\ new.copy = "on" /\ new.says = r.says
    BY <1>3, <2>1
  <2> QED  BY <1>1, <1>4, <2>2
<1>5. CASE r.op = "off"
  <2>1. new = IF doc = "none" THEN reset ELSE set("off")
    BY <1>1, <1>5 DEF Registers
  <2>2. CASE doc = "none"
    <3>1. new = reset
      BY <2>1, <2>2
    <3> QED  BY <1>1, <1>3, <1>5, <2>2, <3>1
  <2>3. CASE doc # "none"
    <3>1. new.op = r.op /\ new.pc = "set" /\ new.copy = "off" /\ new.says = r.says
      BY <1>3, <2>1, <2>3
    <3> QED  BY <1>1, <1>5, <3>1
  <2> QED  BY <2>2, <2>3
<1>6. CASE r.op = "probe"
  <2>1. new = IF doc = "none" THEN Done(q) ELSE probed
    BY <1>1, <1>6 DEF Registers
  <2> QED  BY <1>1, <1>3, <1>6, <2>1
<1> QED  BY <1>2, <1>4, <1>5, <1>6

\* The record that SimulatorSet and ProbeDevice write, when they write a status.
LEMMA ToStatus ==
  ASSUME NEW r \in RequestStates, NEW s
  PROVE  /\ [r EXCEPT !.pc = "status"].pc = "status" /\ [r EXCEPT !.pc = "status"].says = r.says
         /\ [r EXCEPT !.pc = "status", !.says = s].pc = "status"
         /\ [r EXCEPT !.pc = "status", !.says = s].says = s
BY DEF RequestStates

\* A step leaves the requests alone or gives one of them an answer of its own.
SaysWay ==
  /\ \/ request' = request
     \/ \E q \in Requests : \E new : SaysOK(new) /\ request' = [request EXCEPT ![q] = new]
  /\ WorkerSaysOK(worker')

LEMMA SaysWayKeeps == TypeOK /\ SaysInv /\ SaysWay => SaysInv'
<1> SUFFICES ASSUME TypeOK, SaysInv, SaysWay PROVE SaysInv'  OBVIOUS
<1>1. \A p \in Requests : SaysOK(request'[p])
  <2>1. CASE request' = request
    BY <2>1 DEF SaysInv
  <2>2. ASSUME NEW q \in Requests, NEW new, SaysOK(new), request' = [request EXCEPT ![q] = new]
        PROVE  \A p \in Requests : SaysOK(request'[p])
    BY <2>2 DEF TypeOK, SaysInv
  <2> QED  BY <2>1, <2>2 DEF SaysWay
<1> QED  BY <1>1 DEF SaysInv, SaysWay, SaysOK, WorkerSaysOK, Verdict

LEMMA SaysStep == TypeOK /\ SaysInv /\ [Next]_vars => SaysInv'
<1> SUFFICES ASSUME TypeOK, SaysInv, [Next]_vars PROVE SaysInv'  OBVIOUS
<1> USE DEF SaysWay
<1>0. WorkerSaysOK(worker) /\ worker \in WorkerStates
  BY DEF SaysInv, TypeOK
<1>1. ASSUME NEW q \in Requests, RowNext(q) PROVE SaysWay
  <2> DEFINE Leads(s) ==
        \E new : /\ request' = [request EXCEPT ![q] = new]
                 /\ \/ new = Done(q)
                    \/ /\ new.op = request[q].op /\ new.says = s
                       /\ new.pc \in {"router", "status"}
  <2>1. \A s : Leads(s)
             /\ (request[q].op \in {"create", "on"} => s = "online")
             /\ (request[q].op = "off" => s = "offline")
             /\ worker' = worker
             => SaysWay
    <3> TAKE s
    <3> HAVE /\ Leads(s) /\ (request[q].op \in {"create", "on"} => s = "online")
             /\ (request[q].op = "off" => s = "offline") /\ worker' = worker
    <3>1. PICK new : /\ request' = [request EXCEPT ![q] = new]
                     /\ \/ new = Done(q)
                        \/ /\ new.op = request[q].op /\ new.says = s
                           /\ new.pc \in {"router", "status"}
      OBVIOUS
    <3>2. CASE new = Done(q)
      BY <1>0, <3>1, <3>2, DoneIs
    <3>3. CASE new # Done(q)
      <4>1. SaysOK(new)
        BY <3>1, <3>3 DEF SaysOK
      <4> QED  BY <1>0, <3>1, <4>1
    <3> QED  BY <3>2, <3>3
  <2>2. \A a \in Addresses, s \in Verdicts : Continue(q, a, s) => Leads(s)
    <3> TAKE a \in Addresses, s \in Verdicts
    <3> HAVE Continue(q, a, s)
    <3> QED  BY ContinueLeads
  <2>3. row.address \in Addresses /\ {"online", "offline"} \subseteq Verdicts
        /\ Verdict(TRUE) = "online" /\ Verdict(FALSE) = "offline"
    BY DEF TypeOK, RowStates, Verdicts, Verdict
  <2> HIDE DEF Leads, SaysWay
  <2>4. CASE CreateRouter(q)
    <3>1. PICK a \in Addresses : Continue(q, a, "online")
      BY <2>4 DEF CreateRouter
    <3> QED  BY <2>1, <2>2, <2>3, <2>4, <3>1 DEF CreateRouter, At
  <2>5. CASE UpdateRouter(q)
    <3>1. PICK a \in Addresses : Continue(q, a, "offline")
      BY <2>5 DEF UpdateRouter
    <3> QED  BY <2>1, <2>2, <2>3, <2>5, <3>1 DEF UpdateRouter, At
  <2>6. CASE DeleteRouter(q)
    BY <2>1, <2>2, <2>3, <2>6 DEF DeleteRouter, At
  <2>7. CASE RouterByID(q)
    <3>1. CASE request[q].op = "on"
      BY <2>1, <2>2, <2>3, <2>7, <3>1 DEF RouterByID
    <3>2. CASE request[q].op # "on"
      BY <2>1, <2>2, <2>3, <2>7, <3>2 DEF RouterByID
    <3> QED  BY <3>1, <3>2
  <2>8. CASE WriteStatus(q)
    BY <1>0, <2>8, DoneIs DEF WriteStatus, SaysWay
  <2> QED  BY <1>1, <2>4, <2>5, <2>6, <2>7, <2>8 DEF RowNext
<1>2. ASSUME NEW q \in Requests, RouterNext(q) \/ RequestAborted(q) PROVE SaysWay
  <2>1. SaysOK(request[q]) /\ request[q] \in RequestStates
    BY DEF SaysInv, TypeOK
  <2>2. CASE UnregisterRouter(q)
    BY <1>0, <2>2, DoneIs DEF UnregisterRouter
  <2>3. CASE SimulatorGet(q)
    <3>1. PICK new :
            /\ request' = [request EXCEPT ![q] = new]
            /\ \/ new = Done(q)
               \/ /\ new.op = request[q].op
                  /\ \/ new.op = "off" /\ doc = "none" /\ new.pc = "status" /\ new.says = request[q].says
                     \/ new.op \in Registers /\ new.pc = "set" /\ new.copy = "on" /\ new.says = request[q].says
                     \/ new.op = "off" /\ new.pc = "set" /\ new.copy = "off" /\ new.says = request[q].says
                     \/ new.op = "probe" /\ new.pc = "set" /\ new.copy = doc /\ new.says = Verdict(doc = "on")
      BY <2>3, GetLeads
    <3>2. CASE new = Done(q)
      BY <1>0, <2>3, <3>1, <3>2, DoneIs DEF SimulatorGet
    <3>3. CASE new # Done(q)
      <4>1. SaysOK(new)
        BY <2>1, <2>3, <3>1, <3>3 DEF SimulatorGet, SaysOK, Registers, Verdict
      <4> QED  BY <1>0, <2>3, <3>1, <4>1 DEF SimulatorGet
    <3> QED  BY <3>2, <3>3
  <2>4. CASE SimulatorSet(q)
    <3>1. SaysOK([request[q] EXCEPT !.pc = "status"])
      BY <2>1, ToStatus DEF SaysOK
    <3> QED  BY <1>0, <2>4, <3>1, DoneIs DEF SimulatorSet
  <2>5. CASE ProbeDevice(q)
    <3>1. \A s : SaysOK([request[q] EXCEPT !.pc = "status", !.says = s])
      BY <2>1, ToStatus DEF SaysOK
    <3> QED  BY <1>0, <2>5, <3>1, DoneIs DEF ProbeDevice
  <2>6. CASE RequestAborted(q)
    BY <1>0, <2>6, DoneIs DEF RequestAborted
  <2> QED  BY <1>2, <2>2, <2>3, <2>4, <2>5, <2>6 DEF RouterNext
<1>3. ASSUME WorkerStep \/ WorkerFails PROVE SaysWay
  <2>1. CASE WorkerProbe
    <3>1. CASE Simulated /\ doc # "none"
      BY <1>0, <2>1, <3>1 DEF WorkerProbe, WorkerSaysOK, WorkerStates
    <3>2. CASE ~(Simulated /\ doc # "none")
      BY <1>0, <2>1, <3>2 DEF WorkerProbe, WorkerSaysOK, WorkerStates
    <3> QED  BY <3>1, <3>2
  <2>2. CASE WorkerList \/ WorkerProbed \/ WorkerWrites \/ WorkerStarted \/ WorkerRegisters \/ WorkerFails
    <3>1. worker'.pc # "set" /\ request' = request
      BY <1>0, <2>2 DEF WorkerList, WorkerProbed, WorkerWrites, WorkerStarted, WorkerRegisters,
        WorkerFails, WorkerStates
    <3> QED  BY <3>1 DEF WorkerSaysOK
  <2> QED  BY <1>3, <2>1, <2>2 DEF WorkerStep
<1>4. ASSUME NEW a \in Addresses, LinkChanges(a) PROVE SaysWay
  BY <1>0, <1>4 DEF LinkChanges
<1>5. ASSUME UNCHANGED vars PROVE SaysWay
  BY <1>0, <1>5 DEF vars, WorkerSaysOK
<1> HIDE DEF SaysWay
<1> QED  BY <1>1, <1>2, <1>3, <1>4, <1>5, SaysWayKeeps DEF Next

-------------------------------------------------------------------------------
(* Agreement of row and router.                                               *)

\* The conjuncts of NothingStale, for one request and for the worker.
Fresh(r) ==
  Current(r) /\ (r.pc = "router" /\ r.op # "probe" => Simulated /\ (r.op \in Registers) = Up)
FreshWorker(w) == Current(w) /\ (w.pc = "register" => Up)

\* A step that leaves alone what the router is and what the row says, and gives
\* nobody a copy or an answer that is not true.
KeepsTruth ==
  /\ kind' = kind /\ row' = row /\ Up' = Up
  /\ \/ request' = request
     \/ \E q \in Requests : \E new : Fresh(new) /\ request' = [request EXCEPT ![q] = new]
  /\ FreshWorker(worker')

LEMMA TruthKeepsAgreement == TypeOK /\ Agrees /\ KeepsTruth => Agrees'
<1> SUFFICES ASSUME TypeOK, Agrees, KeepsTruth PROVE Agrees'  OBVIOUS
<1>1. \A p \in Requests : Fresh(request'[p])
  <2>1. \A p \in Requests : Fresh(request[p])
    BY DEF Agrees, NothingStale, Fresh
  <2>2. CASE request' = request
    BY <2>1, <2>2
  <2>3. ASSUME NEW q \in Requests, NEW new, Fresh(new), request' = [request EXCEPT ![q] = new]
        PROVE  \A p \in Requests : Fresh(request'[p])
    BY <2>1, <2>3 DEF TypeOK
  <2> QED  BY <2>2, <2>3 DEF KeepsTruth
<1>2. kind' = kind /\ row' = row /\ Up' = Up /\ FreshWorker(worker')
  BY DEF KeepsTruth
<1>3. Exists' /\ row'.status = Verdict(Up)'
  BY <1>2 DEF Agrees, Exists, Verdict
<1>4. \A p \in Requests :
        Current(request[p])' /\ (request'[p].pc = "router" /\ request'[p].op # "probe" =>
                                  Simulated' /\ (request'[p].op \in Registers) = Up')
  BY <1>1, <1>2 DEF Fresh, Current, Simulated, Registers, Verdict
<1>5. Current(worker)' /\ (worker'.pc = "register" => Up')
  BY <1>2 DEF FreshWorker, Current, Simulated, Verdict
<1> QED  BY <1>3, <1>4, <1>5 DEF Agrees, NothingStale, Registers

LEMMA UpIsBoolean == Up \in BOOLEAN
BY DEF Up

LEMMA DoneIsFresh == \A q \in Requests : Fresh(Done(q))
BY DoneIs DEF Fresh, Current

\* Writing the status that is shown already changes nothing.
LEMMA SameStatus ==
  ASSUME TypeOK, NEW s, row.status = s, SetRouterStatus(s)
  PROVE  row' = row
BY DEF TypeOK, RowStates, SetRouterStatus

LEMMA AgreementRequest ==
  ASSUME TypeOK, SaysInv, Agrees, ~Overturns, NEW q \in Requests,
         RowNext(q) \/ RouterNext(q) \/ RequestAborted(q)
  PROVE  KeepsTruth
<1> DEFINE Moves == \E new : Fresh(new) /\ request' = [request EXCEPT ![q] = new]
<1>0. /\ Exists /\ row.status = Verdict(Up) /\ FreshWorker(worker)
      /\ Fresh(request[q]) /\ Fresh(Done(q)) /\ SaysOK(request[q])
      /\ request[q] \in RequestStates /\ row.address \in Addresses
  BY DoneIsFresh DEF Agrees, NothingStale, Fresh, FreshWorker, SaysInv, TypeOK, RowStates
<1>1. Moves /\ UNCHANGED <<kind, row, doc, link, worker>> => KeepsTruth
  BY <1>0 DEF KeepsTruth, Up, Simulated
<1>2. CASE CreateRouter(q)
  BY <1>0, <1>2 DEF CreateRouter, Exists
<1>3. CASE UpdateRouter(q) \/ DeleteRouter(q)
  BY <1>3 DEF Overturns
<1>4. CASE RouterByID(q)
  <2> DEFINE s == Verdict(request[q].op = "on")
  <2>1. request[q].op = "probe" \/ (Up /\ request[q].op \in {"on", "start"}) \/ (~Up /\ request[q].op = "off")
    BY <1>4 DEF RouterByID, Overturns
  <2>2. PICK new :
          /\ request' = [request EXCEPT ![q] = new]
          /\ \/ new = Done(q)
             \/ /\ new.op = request[q].op /\ new.address = row.address /\ new.says = s
                /\ \/ new.pc = "router" /\ (Simulated \/ new.op = "probe")
                   \/ new.pc = "status" /\ new.op \in {"create", "on", "off"}
    <3>1. s \in Verdicts /\ Continue(q, row.address, s)
      BY <1>4, VerdictIsStatus DEF RouterByID
    <3> HIDE DEF s
    <3> QED  BY <1>0, <3>1, ContinueLeads
  <2>3. Fresh(new)
    <3>1. CASE new = Done(q)
      BY <1>0, <3>1
    <3>2. CASE new # Done(q) /\ new.pc = "router"
      BY <2>1, <2>2, <3>2, UpIsBoolean DEF Fresh, Current, Registers
    <3>3. CASE new # Done(q) /\ new.pc = "status"
      BY <2>1, <2>2, <3>3 DEF Fresh, Current, Verdict
    <3> QED  BY <2>2, <3>1, <3>2, <3>3
  <2> QED  BY <1>1, <1>4, <2>2, <2>3 DEF RouterByID
<1>5. CASE WriteStatus(q)
  <2>1. row' = row
    BY <1>0, <1>5, SameStatus DEF WriteStatus, Fresh, Current
  <2> QED  BY <1>0, <1>1, <1>5, <2>1 DEF WriteStatus
<1>6. CASE UnregisterRouter(q)
  <2>1. ~Up
    BY <1>0, <1>6 DEF UnregisterRouter, At, Fresh, Registers
  <2>2. Up' = Up
    BY <1>6, <2>1 DEF UnregisterRouter, Up, Simulated
  <2> QED  BY <1>0, <1>6, <2>2 DEF UnregisterRouter, KeepsTruth
<1>7. CASE SimulatorGet(q)
  <2>1. Simulated /\ Up = (doc = "on")
    BY <1>7 DEF SimulatorGet, Up
  <2>2. request[q].op # "probe" => (request[q].op \in Registers) = Up
    BY <1>0, <1>7 DEF SimulatorGet, Fresh
  <2>3. PICK new :
          /\ request' = [request EXCEPT ![q] = new]
          /\ \/ new = Done(q)
             \/ /\ new.op = request[q].op
                /\ \/ new.op = "off" /\ doc = "none" /\ new.pc = "status" /\ new.says = request[q].says
                   \/ new.op \in Registers /\ new.pc = "set" /\ new.copy = "on" /\ new.says = request[q].says
                   \/ new.op = "off" /\ new.pc = "set" /\ new.copy = "off" /\ new.says = request[q].says
                   \/ new.op = "probe" /\ new.pc = "set" /\ new.copy = doc /\ new.says = Verdict(doc = "on")
    BY <1>7, GetLeads
  <2>4. Fresh(new)
    <3>1. CASE new = Done(q)
      BY <1>0, <3>1
    <3>2. CASE new.op = "off" /\ new.op = request[q].op /\ new.pc = "status" /\ new.says = request[q].says
      <4>1. ~Up
        BY <2>2, <3>2 DEF Registers
      <4>2. request[q].says = "offline"
        BY <1>0, <1>7, <3>2 DEF SimulatorGet, SaysOK
      <4> QED  BY <3>2, <4>1, <4>2 DEF Fresh, Current, Verdict
    <3>3. CASE new.op \in Registers /\ new.op = request[q].op /\ new.pc = "set" /\ new.copy = "on"
      BY <2>2, <3>3 DEF Fresh, Current, Registers
    <3>4. CASE new.op = "off" /\ new.op = request[q].op /\ new.pc = "set" /\ new.copy = "off"
      BY <2>2, <3>4 DEF Fresh, Current, Registers
    <3>5. CASE new.op = "probe" /\ new.pc = "set" /\ new.copy = doc
      BY <2>1, <3>5 DEF Fresh, Current
    <3> QED  BY <2>3, <3>1, <3>2, <3>3, <3>4, <3>5
  <2> QED  BY <1>1, <1>7, <2>3, <2>4 DEF SimulatorGet
<1>8. CASE SimulatorSet(q)
  <2>1. (request[q].copy = "on") = Up
    BY <1>0, <1>8 DEF SimulatorSet, Fresh, Current
  <2>2. Up' = Up
    BY <1>8, <2>1 DEF SimulatorSet, Up, Simulated
  <2>3. request[q].op \notin {"update", "start"} => request[q].says = Verdict(Up)
    BY <1>0, <1>8, <2>1 DEF SimulatorSet, SaysOK, Verdict
  <2>4. Moves
    <3>1. CASE request[q].op \in {"update", "start"}
      BY <1>0, <1>8, <3>1 DEF SimulatorSet
    <3>2. CASE request[q].op \notin {"update", "start"}
      <4>1. Fresh([request[q] EXCEPT !.pc = "status"])
        BY <1>0, <2>3, <3>2, ToStatus DEF Fresh, Current
      <4> QED  BY <1>8, <3>2, <4>1 DEF SimulatorSet
    <3> QED  BY <3>1, <3>2
  <2> QED  BY <1>0, <1>8, <2>2, <2>4 DEF SimulatorSet, KeepsTruth
<1>9. CASE ProbeDevice(q)
  <2>1. Up = (link[request[q].address] = "on")
    BY <1>0, <1>9 DEF ProbeDevice, Fresh, Current, Up
  <2>2. Fresh([request[q] EXCEPT !.pc = "status", !.says = Verdict(link[request[q].address] = "on")])
    BY <1>0, <2>1, ToStatus DEF Fresh, Current
  <2>3. Moves
    <3>1. CASE link[request[q].address] = "silent"
      BY <1>0, <1>9, <3>1 DEF ProbeDevice
    <3>2. CASE link[request[q].address] # "silent"
      BY <1>9, <2>2, <3>2 DEF ProbeDevice
    <3> QED  BY <3>1, <3>2
  <2> QED  BY <1>1, <1>9, <2>3 DEF ProbeDevice
<1>10. CASE RequestAborted(q)
  BY <1>0, <1>1, <1>10 DEF RequestAborted
<1> QED  BY <1>2, <1>3, <1>4, <1>5, <1>6, <1>7, <1>8, <1>9, <1>10 DEF RowNext, RouterNext

LEMMA AgreementWorker ==
  ASSUME TypeOK, SaysInv, Agrees, ~Overturns, WorkerStep \/ WorkerFails
  PROVE  KeepsTruth
<1>0. /\ row.status = Verdict(Up) /\ FreshWorker(worker) /\ WorkerSaysOK(worker)
      /\ worker \in WorkerStates
  BY DEF Agrees, NothingStale, FreshWorker, SaysInv, TypeOK
<1>1. FreshWorker(worker') /\ UNCHANGED <<kind, row, doc, link, request>> => KeepsTruth
  BY DEF KeepsTruth, Up, Simulated
<1>2. CASE WorkerList
  <2>1. worker'.pc = "router" /\ worker'.address = row.address
    BY <1>0, <1>2 DEF WorkerList, WorkerStates
  <2> QED  BY <1>1, <1>2, <2>1 DEF WorkerList, FreshWorker, Current
<1>3. CASE WorkerProbe
  <2>1. CASE Simulated /\ doc # "none"
    <3>1. worker'.pc = "set" /\ worker'.copy = doc
      BY <1>0, <1>3, <2>1 DEF WorkerProbe, WorkerStates
    <3>2. FreshWorker(worker')
      BY <2>1, <3>1 DEF FreshWorker, Current, Up
    <3> QED  BY <1>1, <1>3, <3>2 DEF WorkerProbe
  <2>2. CASE ~(Simulated /\ doc # "none")
    <3>1. worker'.pc = "status"
          /\ worker'.says = Verdict(~Simulated /\ link[worker.address] = "on")
      BY <1>0, <1>3, <2>2 DEF WorkerProbe, WorkerStates
    <3>2. Up = (~Simulated /\ link[worker.address] = "on")
      BY <1>0, <1>3, <2>2 DEF WorkerProbe, FreshWorker, Current, Up
    <3>3. FreshWorker(worker')
      BY <3>1, <3>2 DEF FreshWorker, Current
    <3> QED  BY <1>1, <1>3, <3>3 DEF WorkerProbe
  <2> QED  BY <2>1, <2>2
<1>4. CASE WorkerProbed
  <2>1. (worker.copy = "on") = Up /\ worker.says = Verdict(Up)
    BY <1>0, <1>4 DEF WorkerProbed, FreshWorker, Current, WorkerSaysOK
  <2>2. Up' = Up
    BY <1>4, <2>1 DEF WorkerProbed, Up, Simulated
  <2>3. worker'.pc = "status" /\ worker'.says = worker.says
    BY <1>0, <1>4 DEF WorkerProbed, WorkerStates
  <2> QED  BY <1>4, <2>1, <2>2, <2>3 DEF WorkerProbed, KeepsTruth, FreshWorker, Current
<1>5. CASE WorkerWrites
  <2>1. row' = row
    BY <1>0, <1>5, SameStatus DEF WorkerWrites, FreshWorker, Current
  <2>2. worker'.pc = "idle"
    BY <1>0, <1>5 DEF WorkerWrites, WorkerStates
  <2> QED  BY <1>1, <1>5, <2>1, <2>2 DEF WorkerWrites, FreshWorker, Current
<1>6. CASE WorkerStarted
  <2>1. Up
    BY <1>6 DEF Overturns
  <2>2. worker'.pc \in {"register", "idle"}
    BY <1>0, <1>6 DEF WorkerStarted, WorkerStates
  <2> QED  BY <1>1, <1>6, <2>1, <2>2 DEF WorkerStarted, FreshWorker, Current
<1>7. CASE WorkerRegisters
  <2>1. Up
    BY <1>0, <1>7 DEF WorkerRegisters, FreshWorker
  <2>2. Up' = Up
    BY <1>7, <2>1 DEF WorkerRegisters, Up, Simulated
  <2>3. worker'.pc = "idle"
    BY <1>0, <1>7 DEF WorkerRegisters, WorkerStates
  <2> QED  BY <1>7, <2>2, <2>3 DEF WorkerRegisters, KeepsTruth, FreshWorker, Current
<1>8. CASE WorkerFails
  <2>1. worker'.pc \in {"idle", "stopped"}
    BY <1>0, <1>8 DEF WorkerFails, WorkerStates
  <2> QED  BY <1>1, <1>8, <2>1 DEF WorkerFails, FreshWorker, Current
<1> QED  BY <1>2, <1>3, <1>4, <1>5, <1>6, <1>7, <1>8 DEF WorkerStep

LEMMA AgreementStep ==
  TypeOK /\ SaysInv /\ [Next]_vars => [Agrees /\ ~Overturns => Agrees']_vars
<1> SUFFICES ASSUME TypeOK, SaysInv, Next, Agrees, ~Overturns PROVE Agrees'
  BY DEF vars
<1>1. ASSUME NEW a \in Addresses, LinkChanges(a) PROVE KeepsTruth
  <2>1. a # row.address /\ row.address \in Addresses
    BY <1>1 DEF Overturns, TypeOK, RowStates
  <2>2. Up' = Up
    BY <1>1, <2>1 DEF LinkChanges, Up, Simulated, TypeOK
  <2> QED  BY <1>1, <2>2 DEF LinkChanges, KeepsTruth, FreshWorker, Agrees, NothingStale
<1> QED  BY <1>1, AgreementRequest, AgreementWorker, TruthKeepsAgreement DEF Next

\* The dashboard does not lose what it shows rightly: with nothing stale in
\* anybody's hands, row and router go on agreeing until staff edit, delete or
\* toggle the router, a process that starts registers it, or the device changes;
\* for any number of probes, requests and addresses.
THEOREM AgreementIsKept == Spec => AgreementLasts
<1>1. Init => SaysInv
  BY DEF Init, SaysInv, SaysOK, WorkerSaysOK, Idle
<1>2. TypeOK /\ SaysInv /\ [Next]_vars => SaysInv' /\ [Agrees /\ ~Overturns => Agrees']_vars
  BY SaysStep, AgreementStep
<1> QED  BY <1>1, <1>2, TypeCorrect, PTL DEF Spec, AgreementLasts

================================================================================
