------------------------------ MODULE SessionSync ------------------------------
(***************************************************************************)
(* Sessions and their usage: the rows in the database, the sessions on the *)
(* router, and the four parties that keep the two in step without talking  *)
(* to one another: the portal that opens sessions, staff who disconnect    *)
(* them, the worker that mirrors, meters and closes them, and whatever     *)
(* probes or toggles the router.                                           *)
(*                                                                         *)
(* A database transaction is one step.  The simulated router is one value  *)
(* in Redis, and every operation on it is a GET, a change and a SET of the *)
(* whole value: two steps, with a copy held in between.  A real router is  *)
(* asked over REST: guests log in and out by themselves and it counts.     *)
(***************************************************************************)
EXTENDS FiniteSets, Integers

CONSTANTS
  Sessions,     \* ids of sessions, numbered in the order they are started
  Disconnects,  \* the disconnect requests that may arrive
  Checks,       \* the probes and simulate toggles that may arrive
  Simulated,    \* TRUE: the Redis simulator; FALSE: devices over REST
  Limit,        \* how many sessions a tick reconciles (500 in the worker)
  MaxBytes      \* bound: what a router carries for one session

ASSUME SyncAssumption ==
  /\ Sessions \subseteq Nat
  /\ Simulated \in BOOLEAN
  /\ Limit \in Nat \ {0}
  /\ MaxBytes \in Nat

VARIABLES
  session,     \* sessions.state; "none" before the voucher is redeemed
  bytes,       \* sessions.bytes_rx
  logged,      \* the sum of the session's usage_logs.bytes_rx
  closings,    \* how many closing usage_logs the session has
  router,      \* the router: whether it answers, and its sessions' counters
  carried,     \* what the router really carried for a session
  portal,      \* the redeem requests' last part, SeedSessions
  disconnect,  \* the disconnect requests
  check,       \* the probes and toggles
  worker       \* the worker's scheduler tick

vars == <<session, bytes, logged, closings, router, carried, portal, disconnect,
          check, worker>>

rows == <<session, bytes, logged, closings>>
processes == <<portal, disconnect, check, worker>>

\* The byte counters of the sessions a router has, or that a list of rows
\* shows; the other sessions are absent.
Absent == -1
Counters == [Sessions -> Nat \cup {Absent}]
Routers == [connected : BOOLEAN, sessions : Counters]

Empty == [s \in Sessions |-> Absent]
NoCopy == [connected |-> FALSE, sessions |-> Empty]

Has(counters) == {s \in Sessions : counters[s] # Absent}

Off(s) == s \notin Has(router.sessions)

PortalIdle == [pc |-> "idle", copy |-> NoCopy]
WorkerIdle == [pc |-> "idle", todo |-> {}, read |-> Empty, live |-> Empty,
               copy |-> NoCopy]

Init ==
  /\ session = [s \in Sessions |-> "none"]
  /\ bytes = [s \in Sessions |-> 0]
  /\ logged = [s \in Sessions |-> 0]
  /\ closings = [s \in Sessions |-> 0]
  /\ router = [connected |-> TRUE, sessions |-> Empty]
  /\ carried = [s \in Sessions |-> 0]
  /\ portal = [s \in Sessions |-> PortalIdle]
  /\ disconnect \in [Disconnects ->
       [pc : {"idle"}, session : Sessions, bytes : {0}, copy : {NoCopy}]]
  /\ check \in [Checks ->
       [pc : {"idle"}, op : {"probe", "register", "reset"}, copy : {NoCopy}]]
  /\ worker = WorkerIdle

-------------------------------------------------------------------------------
(* The transactions on sessions and usage_logs, each under the row lock of an *)
(* active session; a session that is not active any more is left alone.       *)

Positive(n) == IF n > 0 THEN n ELSE 0

\* Mutant: no condition on the state.
CloseSessionAgain(s, n) ==
  /\ logged' = [logged EXCEPT ![s] = @ + Positive(n - bytes[s])]
  /\ bytes' = [bytes EXCEPT ![s] = @ + Positive(n - bytes[s])]
  /\ closings' = [closings EXCEPT ![s] = @ + 1]
  /\ session' = [session EXCEPT ![s] = "closed"]

\* CloseSession: the last delta, the closing usage_log, the state.
CloseSession(s, n) ==
  IF session[s] = "active"
  THEN /\ logged' = [logged EXCEPT ![s] = @ + Positive(n - bytes[s])]
       /\ bytes' = [bytes EXCEPT ![s] = @ + Positive(n - bytes[s])]
       /\ closings' = [closings EXCEPT ![s] = @ + 1]
       /\ session' = [session EXCEPT ![s] = "closed"]
  ELSE UNCHANGED rows

\* Mutants: no condition on the state; the whole counter booked for the delta;
\* the delta not booked.
SnapshotAnyState(s, n) ==
  /\ logged' = [logged EXCEPT ![s] = @ + Positive(n - bytes[s])]
  /\ bytes' = [bytes EXCEPT ![s] = n]
  /\ UNCHANGED <<session, closings>>

SnapshotTotal(s, n) ==
  IF session[s] = "active"
  THEN /\ logged' = [logged EXCEPT ![s] = @ + n]
       /\ bytes' = [bytes EXCEPT ![s] = n]
       /\ UNCHANGED <<session, closings>>
  ELSE UNCHANGED rows

SnapshotUnlogged(s, n) ==
  IF session[s] = "active"
  THEN /\ bytes' = [bytes EXCEPT ![s] = n]
       /\ UNCHANGED <<session, closings, logged>>
  ELSE UNCHANGED rows

\* SnapshotSessionUsage: the delta is clamped, the counter is kept as it is.
SnapshotSessionUsage(s, n) ==
  IF session[s] = "active"
  THEN /\ logged' = [logged EXCEPT ![s] = @ + Positive(n - bytes[s])]
       /\ bytes' = [bytes EXCEPT ![s] = n]
       /\ UNCHANGED <<session, closings>>
  ELSE UNCHANGED rows

-------------------------------------------------------------------------------
(* The portal: RedeemVoucher opens the session, SeedSessions puts it on the   *)
(* router with counters of zero; with a real router it does nothing.          *)

RedeemVoucher(s) ==
  /\ session[s] = "none"
  /\ \A r \in Sessions : r < s => session[r] # "none"
  /\ session' = [session EXCEPT ![s] = "active"]
  /\ portal' = IF Simulated THEN [portal EXCEPT ![s].pc = "get"] ELSE portal
  /\ UNCHANGED <<bytes, logged, closings, router, carried, disconnect, check, worker>>

PortalGet(s) ==
  /\ portal[s].pc = "get"
  /\ portal' = [portal EXCEPT ![s] =
       IF router.connected THEN [pc |-> "set", copy |-> router] ELSE PortalIdle]
  /\ UNCHANGED <<rows, router, carried, disconnect, check, worker>>

PortalSet(s) ==
  /\ portal[s].pc = "set"
  /\ router' = [portal[s].copy EXCEPT !.sessions[s] = 0]
  /\ portal' = [portal EXCEPT ![s] = PortalIdle]
  /\ UNCHANGED <<rows, carried, disconnect, check, worker>>

PortalAborted(s) ==
  /\ portal[s].pc # "idle"
  /\ portal' = [portal EXCEPT ![s] = PortalIdle]
  /\ UNCHANGED <<rows, router, carried, disconnect, check, worker>>

-------------------------------------------------------------------------------
(* PostSessionDisconnect: read the session, take it off the router, close it  *)
(* with the bytes that were read.                                             *)

DisconnectRead(d) ==
  LET s == disconnect[d].session IN
  /\ disconnect[d].pc = "idle"
  /\ session[s] = "active"
  /\ disconnect' = [disconnect EXCEPT ![d] = [@ EXCEPT !.pc = "get", !.bytes = bytes[s]]]
  /\ UNCHANGED <<rows, router, carried, portal, check, worker>>

\* An error of the router is ignored.  A real one removes the session at once.
DisconnectGet(d) ==
  /\ disconnect[d].pc = "get"
  /\ IF Simulated /\ router.connected
     THEN /\ disconnect' = [disconnect EXCEPT ![d] =
               [@ EXCEPT !.pc = "set", !.copy = router]]
          /\ UNCHANGED router
     ELSE /\ disconnect' = [disconnect EXCEPT ![d].pc = "close"]
          /\ router' = IF router.connected
                       THEN [router EXCEPT !.sessions[disconnect[d].session] = Absent]
                       ELSE router
  /\ UNCHANGED <<rows, carried, portal, check, worker>>

DisconnectSet(d) ==
  /\ disconnect[d].pc = "set"
  /\ router' = [disconnect[d].copy EXCEPT !.sessions[disconnect[d].session] = Absent]
  /\ disconnect' = [disconnect EXCEPT ![d] = [@ EXCEPT !.pc = "close", !.copy = NoCopy]]
  /\ UNCHANGED <<rows, carried, portal, check, worker>>

DisconnectClose(d) ==
  /\ disconnect[d].pc = "close"
  /\ CloseSession(disconnect[d].session, disconnect[d].bytes)
  /\ disconnect' = [disconnect EXCEPT ![d].pc = "done"]
  /\ UNCHANGED <<router, carried, portal, check, worker>>

DisconnectAborted(d) ==
  /\ disconnect[d].pc \in {"get", "set", "close"}
  /\ disconnect' = [disconnect EXCEPT ![d] = [@ EXCEPT !.pc = "done", !.copy = NoCopy]]
  /\ UNCHANGED <<rows, router, carried, portal, check, worker>>

-------------------------------------------------------------------------------
(* Probe, RegisterRouter and Reset of the Redis simulator.                    *)

CheckGet(c) ==
  /\ Simulated
  /\ check[c].pc = "idle"
  /\ check' = [check EXCEPT ![c] = [@ EXCEPT !.pc = "set", !.copy = router]]
  /\ UNCHANGED <<rows, router, carried, portal, disconnect, worker>>

CheckSet(c) ==
  /\ check[c].pc = "set"
  /\ router' = [check[c].copy EXCEPT !.connected =
       CASE check[c].op = "probe" -> @
         [] check[c].op = "register" -> TRUE
         [] check[c].op = "reset" -> FALSE]
  /\ check' = [check EXCEPT ![c] = [@ EXCEPT !.pc = "done", !.copy = NoCopy]]
  /\ UNCHANGED <<rows, carried, portal, disconnect, worker>>

-------------------------------------------------------------------------------
(* The worker's tick, reconcileRouter for one router.                         *)

\* Mutant: no condition on the state.
Started == {s \in Sessions : session[s] # "none"}

Active == {s \in Sessions : session[s] = "active"}

\* ListActiveSessions: the first Limit in the order they were started.
Batch == {s \in Active : Cardinality({r \in Active : r < s}) < Limit}

\* The next session of the list the worker is going through.
Turn(s) == s \in worker.todo /\ \A r \in worker.todo : s <= r

\* The tick's list, with each row's bytes as read.  SeedSessions and
\* DropSessionsExcept do nothing on a real router.
WorkerList ==
  /\ worker.pc = "idle"
  /\ Batch # {}
  /\ worker' = [worker EXCEPT
       !.pc = IF Simulated THEN "seed" ELSE "poll",
       !.todo = IF Simulated THEN Batch ELSE {},
       !.read = [s \in Sessions |-> IF s \in Batch THEN bytes[s] ELSE Absent]]
  /\ UNCHANGED <<rows, router, carried, portal, disconnect, check>>

\* SeedSession of the next session; nothing while the router is not connected.
WorkerSeedGet(s) ==
  /\ worker.pc = "seed" /\ Turn(s)
  /\ worker' = IF router.connected
               THEN [worker EXCEPT !.pc = "seedset", !.copy = router]
               ELSE [worker EXCEPT !.todo = @ \ {s}]
  /\ UNCHANGED <<rows, router, carried, portal, disconnect, check>>

WorkerSeedSet(s) ==
  /\ worker.pc = "seedset" /\ Turn(s)
  /\ router' = [worker.copy EXCEPT !.sessions[s] = worker.read[s]]
  /\ worker' = [worker EXCEPT !.pc = "seed", !.todo = @ \ {s}, !.copy = NoCopy]
  /\ UNCHANGED <<rows, carried, portal, disconnect, check>>

\* ListSessions; an error ends the tick.  A real router answers as it is.
WorkerPoll ==
  /\ \/ worker.pc = "seed" /\ worker.todo = {}
     \/ worker.pc = "poll"
  /\ worker' =
       IF ~router.connected THEN WorkerIdle
       ELSE IF Simulated THEN [worker EXCEPT !.pc = "pollset", !.copy = router]
       ELSE [worker EXCEPT !.pc = "settle", !.todo = Has(worker.read),
                           !.live = router.sessions]
  /\ UNCHANGED <<rows, router, carried, portal, disconnect, check>>

\* The simulator lets traffic flow, answers, and then drops some sessions, but
\* never the last one.
WorkerPollSet ==
  /\ worker.pc = "pollset"
  /\ LET before == worker.copy.sessions IN
     \E busy \in SUBSET Has(before), gone \in SUBSET Has(before) :
       LET live == [s \in Sessions |-> IF s \in busy THEN before[s] + 1 ELSE before[s]] IN
       /\ \A s \in busy : carried[s] < MaxBytes
       /\ gone = Has(before) => gone = {}
       /\ carried' = [s \in Sessions |-> IF s \in busy THEN carried[s] + 1 ELSE carried[s]]
       /\ router' = [worker.copy EXCEPT !.sessions =
            [s \in Sessions |-> IF s \in gone THEN Absent ELSE live[s]]]
       /\ worker' = [worker EXCEPT !.pc = "settle", !.todo = Has(worker.read),
                                   !.live = live, !.copy = NoCopy]
  /\ UNCHANGED <<rows, portal, disconnect, check>>

\* The worker when it is done with a session, or with the last one.
WorkerSettled(s) ==
  IF worker.todo = {s} THEN WorkerIdle ELSE [worker EXCEPT !.todo = @ \ {s}]

\* Mutant: a session the router does not have is left for later.
WorkerSettleKeeping(s) ==
  /\ worker.pc = "settle" /\ Turn(s)
  /\ IF s \in Has(worker.live)
     THEN SnapshotSessionUsage(s, worker.live[s])
     ELSE UNCHANGED rows
  /\ worker' = WorkerSettled(s)
  /\ UNCHANGED <<router, carried, portal, disconnect, check>>

\* Meter the next session if the router had it, else close it.
WorkerSettle(s) ==
  /\ worker.pc = "settle" /\ Turn(s)
  /\ IF s \in Has(worker.live)
     THEN SnapshotSessionUsage(s, worker.live[s])
     ELSE CloseSession(s, worker.read[s])
  /\ worker' = WorkerSettled(s)
  /\ UNCHANGED <<router, carried, portal, disconnect, check>>

\* Its transaction fails; the error is logged and the tick goes on.
WorkerSettleFailed(s) ==
  /\ worker.pc = "settle" /\ Turn(s)
  /\ worker' = WorkerSettled(s)
  /\ UNCHANGED <<rows, router, carried, portal, disconnect, check>>

\* The worker is stopped, wherever it is, and started again.
WorkerStopped ==
  /\ worker.pc # "stopped"
  /\ worker' = [WorkerIdle EXCEPT !.pc = "stopped"]
  /\ UNCHANGED <<rows, router, carried, portal, disconnect, check>>

WorkerStarted ==
  /\ worker.pc = "stopped"
  /\ worker' = WorkerIdle
  /\ UNCHANGED <<rows, router, carried, portal, disconnect, check>>

-------------------------------------------------------------------------------
(* A real router, by itself.                                                  *)

GuestLogsIn(s) ==
  /\ ~Simulated
  /\ session[s] # "none" /\ Off(s)
  /\ router' = [router EXCEPT !.sessions[s] = 0]
  /\ UNCHANGED <<rows, carried, processes>>

GuestLeaves(s) ==
  /\ ~Simulated
  /\ ~Off(s)
  /\ router' = [router EXCEPT !.sessions[s] = Absent]
  /\ UNCHANGED <<rows, carried, processes>>

Carry(s) ==
  /\ ~Simulated
  /\ ~Off(s) /\ carried[s] < MaxBytes
  /\ router' = [router EXCEPT !.sessions[s] = @ + 1]
  /\ carried' = [carried EXCEPT ![s] = @ + 1]
  /\ UNCHANGED <<rows, processes>>

RouterToggles ==
  /\ ~Simulated
  /\ router' = [router EXCEPT !.connected = ~@]
  /\ UNCHANGED <<rows, carried, processes>>

-------------------------------------------------------------------------------
PortalNext(s) == RedeemVoucher(s) \/ PortalGet(s) \/ PortalSet(s) \/ PortalAborted(s)

DisconnectNext(d) ==
  \/ DisconnectRead(d) \/ DisconnectGet(d) \/ DisconnectSet(d)
  \/ DisconnectClose(d) \/ DisconnectAborted(d)

WorkerStep ==
  \/ WorkerStarted \/ WorkerList \/ WorkerPoll \/ WorkerPollSet
  \/ \E s \in Sessions : WorkerSeedGet(s) \/ WorkerSeedSet(s) \/ WorkerSettle(s)

WorkerFails == WorkerStopped \/ \E s \in Sessions : WorkerSettleFailed(s)

RouterNext(s) == GuestLogsIn(s) \/ GuestLeaves(s) \/ Carry(s)

Next ==
  \/ \E s \in Sessions : PortalNext(s) \/ RouterNext(s)
  \/ \E d \in Disconnects : DisconnectNext(d)
  \/ \E c \in Checks : CheckGet(c) \/ CheckSet(c)
  \/ WorkerStep \/ WorkerFails
  \/ RouterToggles

Spec == Init /\ [][Next]_vars

\* The scheduler loop ticks for ever and the worker is up from some time on;
\* a transaction that would change a row again and again does not always fail.
Fairness ==
  /\ WF_vars(WorkerStep)
  /\ <>[](worker.pc # "stopped")
  /\ \A s \in Sessions : SF_rows(WorkerSettle(s))

FairSpec == Spec /\ Fairness

-------------------------------------------------------------------------------
(* Properties.                                                                *)

TypeOK ==
  /\ session \in [Sessions -> {"none", "active", "closed"}]
  /\ bytes \in [Sessions -> Nat]
  /\ logged \in [Sessions -> Nat]
  /\ closings \in [Sessions -> Nat]
  /\ router \in Routers
  /\ carried \in [Sessions -> Nat]
  /\ portal \in [Sessions -> [pc : {"idle", "get", "set"}, copy : Routers]]
  /\ disconnect \in [Disconnects ->
       [pc : {"idle", "get", "set", "close", "done"}, session : Sessions,
        bytes : Nat, copy : Routers]]
  /\ check \in [Checks ->
       [pc : {"idle", "set", "done"}, op : {"probe", "register", "reset"},
        copy : Routers]]
  /\ worker \in [pc : {"stopped", "idle", "seed", "seedset", "poll", "pollset", "settle"},
                 todo : SUBSET Sessions, read : Counters, live : Counters, copy : Routers]

\* However staff and the worker race to close a session, and however often the
\* worker is restarted: an ended session has one closing usage record, any
\* other has none (CloseSession locks the row and requires state 'active').
EndedOnce ==
  \A s \in Sessions : closings[s] = IF session[s] = "closed" THEN 1 ELSE 0

\* What is billed does not change once a session has ended: a tick or a
\* disconnect that is still under way with an older reading adds nothing.
EndedIsFinal ==
  [][\A s \in Sessions : session[s] = "closed" =>
       /\ session'[s] = "closed"
       /\ bytes'[s] = bytes[s] /\ logged'[s] = logged[s]]_vars

\* The usage records account for at least what the session's row shows, though
\* the row's counter may go back while the records' sum cannot (the delta is
\* clamped, the counter is not).
RecordsCoverBytes == \A s \in Sessions : logged[s] >= bytes[s]

Asked == {disconnect[d].session : d \in {e \in Disconnects : disconnect[e].pc # "idle"}}

\* With a real router, whose counters restart when a guest logs in again, and
\* with any delay between reading a counter and booking it: the usage records
\* of a session nobody asked to disconnect hold no more than the router carried.
UsageNotInvented ==
  ~Simulated => \A s \in Sessions \ Asked : logged[s] <= carried[s]

\* With a real router: a session the router does not have is closed in the end,
\* unless it comes back, the router stops answering, or Limit older sessions
\* keep the worker from ever looking at it.
VanishedAreClosed ==
  ~Simulated => \A s \in Sessions :
    session[s] = "active" /\ Off(s)
      ~> session[s] = "closed" \/ ~Off(s) \/ ~router.connected \/ s \notin Batch

\* Somebody holds a copy of the simulated router that has s, to write it back.
Copied(s) ==
  \/ \E r \in Sessions : s \in Has(portal[r].copy.sessions)
  \/ \E d \in Disconnects : s \in Has(disconnect[d].copy.sessions)
  \/ \E c \in Checks : s \in Has(check[c].copy.sessions)
  \/ s \in Has(worker.copy.sessions)

\* The portal or the tick under way is yet to put s on the router.
ToBeSeeded(s) ==
  \/ portal[s].pc # "idle"
  \/ worker.pc \in {"seed", "seedset"} /\ s \in worker.todo

Gone(s) == session[s] = "closed" /\ Off(s) /\ ~Copied(s) /\ ~ToBeSeeded(s)

\* A session that was ended comes back to the simulated router only out of a
\* copy or a list read before (RedisSimulator's GET .. SET, the tick's list):
\* once none of these is left, no probe, toggle, tick, restart or later guest
\* puts it on the router again.
GoneForGood == [][Simulated => \A s \in Sessions : Gone(s) => Gone(s)']_vars

-------------------------------------------------------------------------------
(* What documents and comments say and the code does not do.                  *)

\* sessions.go:71-72: a disconnect "forces a session off the (simulated) router
\* and closes it.  The worker confirms through the router polling loop."
EndedIsOff ==
  \A s \in Sessions :
    session[s] = "closed" ~> Off(s) \/ ~router.connected

================================================================================
