----------------------------- MODULE RouterStatus -----------------------------
(***************************************************************************)
(* A router's row, whose status the dashboard shows, and the router: the   *)
(* Redis simulator's value for it, or a device that answers at an address  *)
(* or does not.  Requests create, edit, delete, probe and toggle it, the   *)
(* worker probes it again and again, and both processes put it on the      *)
(* simulator when they start.  Whoever writes the status has probed or set *)
(* the router before, in a call of its own, and writes it by the row's id: *)
(* the router may have changed by then, and so may the row.                *)
(*                                                                         *)
(* Rows of different routers have nothing to do with each other, so there  *)
(* is one.  Times (last_seen_at, last_sync_at) are left out.               *)
(***************************************************************************)
CONSTANTS
  Requests,  \* the requests that may arrive
  Addresses, \* ip_address and api_port
  Kinds      \* the kinds of router to look at

ASSUME KindAssumption == Kinds \subseteq {"simulated", "device"}

VARIABLES
  kind,     \* MIKROTIK_MODE
  row,      \* routers: status and address
  doc,      \* the simulator's value for it
  link,     \* what a device does at each address
  request,  \* requests about the router
  worker    \* the worker's probe loop

vars == <<kind, row, doc, link, request, worker>>

\* What a request does; "start" is the start of the API itself.
Ops == {"create", "update", "delete", "probe", "on", "off", "start"}

\* RegisterRouter makes the simulator's router, or turns it on.
Registers == {"create", "update", "on", "start"}

\* A device answers, refuses (an HTTP status that is not 200), or is silent.
Links == {"on", "refuses", "silent"}

\* address: read from the row; copy: of the simulator's value; says: the status
\* to be written.
Idle(op) == [op |-> op, pc |-> "idle", address |-> row.address, copy |-> "none", says |-> "offline"]
Done(q) == [Idle(request[q].op) EXCEPT !.pc = "done"]

Simulated == kind = "simulated"
Exists == row.status \in {"unverified", "online", "offline"}
Verdict(on) == IF on THEN "online" ELSE "offline"

\* No router yet, or one that works.
Init ==
  /\ kind \in Kinds
  /\ row \in [status : {"none", "online"}, address : Addresses]
  /\ doc = IF Simulated /\ row.status = "online" THEN "on" ELSE "none"
  /\ link \in [Addresses -> Links]
  /\ request \in [Requests -> {Idle(op) : op \in Ops}]
  /\ worker = [pc |-> "idle", address |-> row.address, copy |-> "none", says |-> "offline"]

-------------------------------------------------------------------------------
(* The row.                                                                   *)

\* Mutant: an upsert by the row's id.
SetRouterStatusAnyway(status) == row' = [row EXCEPT !.status = status]

\* SetRouterOnline, SetRouterOffline, SetRouterStatus: UPDATE ... WHERE id.
SetRouterStatus(status) ==
  row' = IF Exists THEN [row EXCEPT !.status = status] ELSE row

\* After the first statement: the router, where there is something to do to it,
\* and then the status, for those that write one.
Continue(q, address, says) ==
  request' = [request EXCEPT ![q] =
    IF Simulated \/ request[q].op = "probe"
    THEN [@ EXCEPT !.pc = "router", !.address = address, !.says = says]
    ELSE IF request[q].op \in {"create", "on", "off"}
    THEN [@ EXCEPT !.pc = "status", !.address = address, !.says = says]
    ELSE Done(q)]

At(q, op, pc) == request[q].op = op /\ request[q].pc = pc

\* PostRouter: 'online', though nobody has probed it.
CreateRouter(q) ==
  /\ At(q, "create", "idle") /\ row.status = "none"
  /\ \E a \in Addresses :
       /\ row' = [status |-> "unverified", address |-> a]
       /\ Continue(q, a, "online")
  /\ UNCHANGED <<kind, doc, link, worker>>

\* PatchRouter.
UpdateRouter(q) ==
  /\ At(q, "update", "idle") /\ Exists
  /\ \E a \in Addresses :
       /\ row' = [status |-> "unverified", address |-> a]
       /\ Continue(q, a, "offline")
  /\ UNCHANGED <<kind, doc, link, worker>>

\* DeleteRouter; its hotspots go with the row.  While a session refers to it, an
\* ended one too, the statement is an error, and the request ends.
DeleteRouter(q) ==
  /\ At(q, "delete", "idle") /\ Exists
  /\ row' = [row EXCEPT !.status = "deleted"]
  /\ Continue(q, row.address, "offline")
  /\ UNCHANGED <<kind, doc, link, worker>>

\* PostRouterProbe, PostRouterSimulate, and registerAllRouters of the API.
RouterByID(q) ==
  /\ request[q].op \in {"probe", "on", "off", "start"}
  /\ request[q].pc = "idle" /\ Exists
  /\ Continue(q, row.address, Verdict(request[q].op = "on"))
  /\ UNCHANGED <<kind, row, doc, link, worker>>

WriteStatus(q) ==
  /\ request[q].pc = "status"
  /\ SetRouterStatus(request[q].says)
  /\ request' = [request EXCEPT ![q] = Done(q)]
  /\ UNCHANGED <<kind, doc, link, worker>>

-------------------------------------------------------------------------------
(* The router.  On the simulator an operation is a GET and a SET; one that    *)
(* registers it has no use for what the GET returned.                         *)

UnregisterRouter(q) ==
  /\ Simulated
  /\ At(q, "delete", "router")
  /\ doc' = "none"
  /\ request' = [request EXCEPT ![q] = Done(q)]
  /\ UNCHANGED <<kind, row, link, worker>>

\* Mutant: a router that the simulator does not know is probed like any other.
SimulatorGetUnknown(q) ==
  /\ Simulated
  /\ request[q].pc = "router" /\ request[q].op # "delete"
  /\ request' = [request EXCEPT ![q] =
       CASE request[q].op \in Registers -> [@ EXCEPT !.pc = "set", !.copy = "on"]
         [] request[q].op = "off" -> [@ EXCEPT !.pc = "set", !.copy = "off"]
         [] request[q].op = "probe" ->
              [@ EXCEPT !.pc = "set", !.copy = doc, !.says = Verdict(doc = "on")]]
  /\ UNCHANGED <<kind, row, doc, link, worker>>

\* A router that the simulator does not know cannot be probed, which is an
\* error, or reset, which is none.
SimulatorGet(q) ==
  /\ Simulated
  /\ request[q].pc = "router" /\ request[q].op # "delete"
  /\ request' = [request EXCEPT ![q] =
       CASE request[q].op \in Registers -> [@ EXCEPT !.pc = "set", !.copy = "on"]
         [] request[q].op = "off" /\ doc = "none" -> [@ EXCEPT !.pc = "status"]
         [] request[q].op = "off" /\ doc # "none" -> [@ EXCEPT !.pc = "set", !.copy = "off"]
         [] request[q].op = "probe" /\ doc = "none" -> Done(q)
         [] request[q].op = "probe" /\ doc # "none" ->
              [@ EXCEPT !.pc = "set", !.copy = doc, !.says = Verdict(doc = "on")]]
  /\ UNCHANGED <<kind, row, doc, link, worker>>

\* An error is ignored.
SimulatorSet(q) ==
  /\ request[q].pc = "set"
  /\ doc' \in {request[q].copy, doc}
  /\ request' = [request EXCEPT ![q] =
       IF request[q].op \in {"update", "start"} THEN Done(q) ELSE [@ EXCEPT !.pc = "status"]]
  /\ UNCHANGED <<kind, row, link, worker>>

\* Mutant: whatever the device answers means 'online'.
ProbeDeviceAnswered(q) ==
  /\ ~Simulated
  /\ request[q].pc = "router"
  /\ request' = [request EXCEPT ![q] =
       IF link[request[q].address] = "silent" THEN Done(q)
       ELSE [@ EXCEPT !.pc = "status", !.says = "online"]]
  /\ UNCHANGED <<kind, row, doc, link, worker>>

\* A silent device is an error, and the request ends: the row stays as it was.
ProbeDevice(q) ==
  /\ ~Simulated
  /\ request[q].pc = "router"
  /\ request' = [request EXCEPT ![q] =
       IF link[request[q].address] = "silent" THEN Done(q)
       ELSE [@ EXCEPT !.pc = "status", !.says = Verdict(link[request[q].address] = "on")]]
  /\ UNCHANGED <<kind, row, doc, link, worker>>

RequestAborted(q) ==
  /\ request[q].pc \notin {"idle", "done"}
  /\ request' = [request EXCEPT ![q] = Done(q)]
  /\ UNCHANGED <<kind, row, doc, link, worker>>

LinkChanges(a) ==
  /\ ~Simulated
  /\ \E l \in Links \ {link[a]} : link' = [link EXCEPT ![a] = l]
  /\ UNCHANGED <<kind, row, doc, request, worker>>

-------------------------------------------------------------------------------
(* The worker: probeRouters, for ever.                                        *)

WorkerList ==
  /\ worker.pc = "idle" /\ Exists
  /\ worker' = [worker EXCEPT !.pc = "router", !.address = row.address]
  /\ UNCHANGED <<kind, row, doc, link, request>>

\* Mutant: as the request's probe, the worker's leaves a silent device alone.
WorkerProbeQuiet ==
  /\ worker.pc = "router"
  /\ worker' =
       IF Simulated /\ doc # "none"
       THEN [worker EXCEPT !.pc = "set", !.copy = doc, !.says = Verdict(doc = "on")]
       ELSE IF ~Simulated /\ link[worker.address] = "silent"
       THEN [worker EXCEPT !.pc = "idle"]
       ELSE [worker EXCEPT !.pc = "status",
               !.says = Verdict(~Simulated /\ link[worker.address] = "on")]
  /\ UNCHANGED <<kind, row, doc, link, request>>

\* Whatever is not an answer means 'offline' here.
WorkerProbe ==
  /\ worker.pc = "router"
  /\ worker' =
       IF Simulated /\ doc # "none"
       THEN [worker EXCEPT !.pc = "set", !.copy = doc, !.says = Verdict(doc = "on")]
       ELSE [worker EXCEPT !.pc = "status",
               !.says = Verdict(~Simulated /\ link[worker.address] = "on")]
  /\ UNCHANGED <<kind, row, doc, link, request>>

WorkerProbed ==
  /\ worker.pc = "set"
  /\ doc' = worker.copy
  /\ worker' = [worker EXCEPT !.pc = "status"]
  /\ UNCHANGED <<kind, row, link, request>>

WorkerWrites ==
  /\ worker.pc = "status"
  /\ SetRouterStatus(worker.says)
  /\ worker' = [worker EXCEPT !.pc = "idle"]
  /\ UNCHANGED <<kind, doc, link, request>>

\* The statement fails, or the worker is stopped, wherever it is.
WorkerFails ==
  /\ \/ worker.pc = "status" /\ worker' = [worker EXCEPT !.pc = "idle"]
     \/ worker.pc # "stopped" /\ worker' = [worker EXCEPT !.pc = "stopped"]
  /\ UNCHANGED <<kind, row, doc, link, request>>

\* Started again it reads the rows and puts them on the simulator.
WorkerStarted ==
  /\ worker.pc = "stopped"
  /\ worker' = [worker EXCEPT !.pc = IF Simulated /\ Exists THEN "register" ELSE "idle"]
  /\ UNCHANGED <<kind, row, doc, link, request>>

WorkerRegisters ==
  /\ worker.pc = "register"
  /\ doc' = "on"
  /\ worker' = [worker EXCEPT !.pc = "idle"]
  /\ UNCHANGED <<kind, row, link, request>>

-------------------------------------------------------------------------------
RowNext(q) ==
  CreateRouter(q) \/ UpdateRouter(q) \/ DeleteRouter(q) \/ RouterByID(q) \/ WriteStatus(q)

RouterNext(q) ==
  UnregisterRouter(q) \/ SimulatorGet(q) \/ SimulatorSet(q) \/ ProbeDevice(q)

WorkerStep ==
  WorkerList \/ WorkerProbe \/ WorkerProbed \/ WorkerWrites \/ WorkerStarted \/ WorkerRegisters

Next ==
  \/ \E q \in Requests : RowNext(q) \/ RouterNext(q) \/ RequestAborted(q)
  \/ \E a \in Addresses : LinkChanges(a)
  \/ WorkerStep \/ WorkerFails

Spec == Init /\ [][Next]_vars

\* The probe loop ticks for ever, the worker is up from some time on, and the
\* statement that writes the status does not always fail.
Fairness ==
  /\ WF_vars(WorkerStep)
  /\ <>[](worker.pc # "stopped")
  /\ SF_vars(WorkerWrites)

FairSpec == Spec /\ Fairness

-------------------------------------------------------------------------------
(* Properties.                                                                *)

RowStates == [status : {"none", "unverified", "online", "offline", "deleted"}, address : Addresses]
DocStates == {"none", "on", "off"}
Verdicts == {"online", "offline"}

RequestStates ==
  [op : Ops, pc : {"idle", "router", "set", "status", "done"}, address : Addresses,
   copy : DocStates, says : Verdicts]

WorkerStates ==
  [pc : {"idle", "router", "set", "status", "stopped", "register"}, address : Addresses,
   copy : DocStates, says : Verdicts]

\* Types; and no probe makes a router on the simulator that was not there.
TypeOK ==
  /\ kind \in Kinds
  /\ row \in RowStates /\ doc \in DocStates
  /\ link \in [Addresses -> Links]
  /\ request \in [Requests -> RequestStates]
  /\ worker \in WorkerStates
  /\ \A q \in Requests : request[q].pc = "set" => request[q].copy # "none"
  /\ worker.pc = "set" => worker.copy # "none"

\* The row of a deleted router never comes back, whoever still holds it and
\* writes a status after a probe that took its time.
DeletedStaysDeleted == [][row.status = "deleted" => row'.status = "deleted"]_vars

Up == IF Simulated THEN doc = "on" ELSE link[row.address] = "on"

\* When the router at the row's address is up for good, or down for good, the
\* dashboard says so in the end and from then on: edits, probes of the address
\* it had before, and answers that are older than the last change lose.
StatusFollowsDevice ==
  /\ <>[](Exists /\ Up) => <>[](row.status = "online")
  /\ <>[](Exists /\ ~Up) => <>[](row.status = "offline")

\* What r holds, the copy or the answer that is to be written, is still true.
Current(r) ==
  /\ r.pc = "router" /\ ~Simulated => r.address = row.address
  /\ r.pc = "set" => (r.copy = "on") = Up
  /\ r.pc = "status" => r.says = Verdict(Up)

\* Nobody is about to change the router, or to write of it what is not true.
NothingStale ==
  /\ \A q \in Requests :
       /\ Current(request[q])
       /\ request[q].pc = "router" /\ request[q].op # "probe" =>
            Simulated /\ (request[q].op \in Registers) = Up
  /\ Current(worker)
  /\ worker.pc = "register" => Up

Agrees == Exists /\ row.status = Verdict(Up) /\ NothingStale

\* The steps that may set row and router apart: an edit, a deletion, a toggle or
\* a start that registers a router that is off, a change of the device.
Overturns ==
  \/ \E q \in Requests :
       \/ UpdateRouter(q) \/ DeleteRouter(q)
       \/ RouterByID(q) /\ request[q].op \in IF Up THEN {"off"} ELSE {"on", "start"}
  \/ LinkChanges(row.address)
  \/ WorkerStarted /\ ~Up

\* When the dashboard shows what the router is and no older answer or copy is in
\* anybody's hands, it stays so until one of these steps: probes that overlap,
\* break off or fail half-way set the two apart in no order.
AgreementLasts == [][Agrees /\ ~Overturns => Agrees']_vars

================================================================================
