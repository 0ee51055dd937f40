------------------------------- MODULE RateBoost -------------------------------
(***************************************************************************)
(* A hotspot's rates: the hotspot's row, the config jobs of its edits, the *)
(* rate windows that boost it for a time, and what its router is really    *)
(* set to.  The API edits the hotspot and configures the router at once,   *)
(* the worker does so again from the job, and the worker alone applies and *)
(* reverts boosts, comparing the row's applied_multiplier with the windows.*)
(*                                                                         *)
(* A router is either the Redis simulator, where every operation is a GET  *)
(* and a SET of the whole value with a copy in between, or a device over   *)
(* REST, which is told a rate and knows nothing of multipliers: its base   *)
(* rate is in the worker's memory.                                         *)
(***************************************************************************)
EXTENDS Integers

CONSTANTS
  Requests, \* the requests that may arrive
  Windows,  \* ids of rate windows
  Boost,    \* rate_windows.boost_multiplier
  Rate,     \* hotspot_profiles.rx_rate of the hotspot's profile
  Kinds     \* the kinds of router to look at

ASSUME BoostAssumption ==
  /\ Boost \in [Windows -> Nat \ {0, 1}]
  /\ Rate \in Nat \ {0}
  /\ Kinds \subseteq {"simulated", "device"}

VARIABLES
  row,      \* the hotspot's row: status and applied_multiplier
  window,   \* where each rate window stands
  job,      \* config_jobs.status of the job an edit enqueued
  router,   \* what the router is set to
  request,  \* edits of the hotspot, and other operations on its router
  worker    \* the worker's scheduler tick

vars == <<row, window, job, router, request, worker>>

\* What a request does: create or edit the hotspot, or read, change and write
\* back the simulated router, as probes, toggles and sessions do.
Ops == {"edit", "probe", "register", "reset"}

NoRate == 0
Unconfigured(kind) == [kind |-> kind, on |-> TRUE, base |-> NoRate, boost |-> 1]
Simulated == router.kind = "simulated"
NoCopy == Unconfigured("simulated")

Arriving(op) == [op |-> op, pc |-> "idle", boost |-> 1, copy |-> NoCopy]
Done(q) == [Arriving(request[q].op) EXCEPT !.pc = "done"]

WorkerIdle == [pc |-> "tick", jobs |-> {}, job |-> {}, stage |-> "start", boosts |-> {},
               boost |-> 1, base |-> NoRate, copy |-> NoCopy]

\* The worker at the start of its next tick; what a process keeps in memory
\* between ticks is the base rate.
Ticked == [WorkerIdle EXCEPT !.base = worker.base]

\* There is no hotspot yet, or one that was configured; the worker has just
\* been started.
Init ==
  /\ row \in [status : {"none", "active"}, applied : {1}]
  /\ window = [w \in Windows |-> "none"]
  /\ job = [q \in Requests |-> "none"]
  /\ \E kind \in Kinds :
       router = [Unconfigured(kind) EXCEPT
                   !.base = IF row.status = "none" THEN NoRate ELSE Rate]
  /\ request \in [Requests -> {Arriving(op) : op \in Ops}]
  /\ worker = WorkerIdle

-------------------------------------------------------------------------------
(* What the router does with a rate and with a multiplier.                    *)

\* ApplyHotspotConfig of the simulator keeps the multiplier; the device's rate
\* limit is replaced.
Configured(r, base) ==
  IF r.kind = "simulated" THEN [r EXCEPT !.base = base]
                          ELSE [r EXCEPT !.base = base, !.boost = 1]

\* ApplyRateMultiplier: the simulator has the base rate, for a device it is the
\* one this process has configured.
Multiplied(r, base, boost) ==
  IF r.kind = "simulated" THEN [r EXCEPT !.boost = boost]
                          ELSE [r EXCEPT !.base = base, !.boost = boost]

\* Guests get what the profile says.
Normal == router.base = Rate /\ router.boost = 1

-------------------------------------------------------------------------------
(* Staff: windows and the hotspot's status.  Time.                            *)

\* Mutant: effective_until alone is compared with the clock.
CurrentOrAhead == {w \in Windows : window[w] \in {"ahead", "current"}}

\* Those with effective_from <= now() < effective_until.
Current == {w \in Windows : window[w] = "current"}

others == <<job, router, request, worker>>

\* PostRateWindow, with a beginning that is past or to come.
PostRateWindow(w) ==
  /\ window[w] = "none"
  /\ \E phase \in {"ahead", "current"} : window' = [window EXCEPT ![w] = phase]
  /\ UNCHANGED <<row, others>>

\* The row is gone; a window that had begun is then like one that is over.
DeleteRateWindow(w) ==
  /\ window[w] \in {"ahead", "current"}
  /\ window' = [window EXCEPT ![w] = IF @ = "ahead" THEN "none" ELSE "over"]
  /\ UNCHANGED <<row, others>>

TimePasses(w) ==
  /\ window[w] \in {"ahead", "current"}
  /\ window' = [window EXCEPT ![w] = IF @ = "ahead" THEN "current" ELSE "over"]
  /\ UNCHANGED <<row, others>>

PatchHotspotStatus(s) ==
  /\ row.status # "none"
  /\ row' = [row EXCEPT !.status = s]
  /\ UNCHANGED <<window, others>>

-------------------------------------------------------------------------------
(* PostHotspot and PatchHotspot.  Errors after the first statement are        *)
(* ignored, but for those that end the push.                                  *)

\* Mutant: the increase is stored, not the factor.
SetHotspotConfiguredIncrease(boost) == row' = [status |-> "active", applied |-> boost - 1]

\* SetHotspotConfigured, the API's and the worker's.
SetHotspotConfigured(boost) == row' = [status |-> "active", applied |-> boost]

\* CreateHotspot or UpdateHotspot, which returns the multiplier.
EditHotspot(q) ==
  /\ request[q].pc = "idle" /\ request[q].op = "edit"
  /\ row' = [row EXCEPT !.status = "configuring"]
  /\ request' = [request EXCEPT ![q] = [@ EXCEPT !.pc = "enqueue", !.boost = row.applied]]
  /\ UNCHANGED <<window, job, router, worker>>

EnqueueJob(q) ==
  /\ request[q].pc = "enqueue"
  /\ job' \in {[job EXCEPT ![q] = "pending"], job}
  /\ request' = [request EXCEPT ![q].pc = "probe"]
  /\ UNCHANGED <<row, window, router, worker>>

\* pushHotspotConfig probes the router.  The simulator's
\* probe notes the time in the value it has read and writes that back.
PushProbe(q) ==
  /\ request[q].pc = "probe"
  /\ request' = [request EXCEPT ![q] =
       [@ EXCEPT !.pc = IF Simulated THEN "probed" ELSE IF router.on THEN "get" ELSE "done",
                 !.copy = IF Simulated THEN router ELSE NoCopy]]
  /\ UNCHANGED <<row, window, job, router, worker>>

PushProbed(q) ==
  /\ request[q].pc = "probed"
  /\ router' = request[q].copy
  /\ request' = [request EXCEPT ![q] =
       [@ EXCEPT !.pc = IF request[q].copy.on THEN "get" ELSE "done", !.copy = NoCopy]]
  /\ UNCHANGED <<row, window, job, worker>>

\* ApplyConfig with the boosted rate; a router that is off is an error, which
\* is ignored.
PushGet(q) ==
  /\ request[q].pc = "get"
  /\ IF Simulated /\ router.on
     THEN /\ request' = [request EXCEPT ![q] = [@ EXCEPT !.pc = "set", !.copy = router]]
          /\ UNCHANGED router
     ELSE /\ request' = [request EXCEPT ![q].pc = "row"]
          /\ router' = IF router.on
                       THEN Configured(router, Rate * request[q].boost)
                       ELSE router
  /\ UNCHANGED <<row, window, job, worker>>

PushSet(q) ==
  /\ request[q].pc = "set" /\ request[q].op = "edit"
  /\ router' = Configured(request[q].copy, Rate * request[q].boost)
  /\ request' = [request EXCEPT ![q] = [@ EXCEPT !.pc = "row", !.copy = NoCopy]]
  /\ UNCHANGED <<row, window, job, worker>>

PushRow(q) ==
  /\ request[q].pc = "row"
  /\ SetHotspotConfigured(request[q].boost)
  /\ request' = [request EXCEPT ![q] = Done(q)]
  /\ UNCHANGED <<window, job, router, worker>>

RequestAborted(q) ==
  /\ request[q].pc \notin {"idle", "done"}
  /\ request' = [request EXCEPT ![q] = Done(q)]
  /\ UNCHANGED <<row, window, job, router, worker>>

-------------------------------------------------------------------------------
(* Whatever else reads, changes and writes back the simulated router: probes, *)
(* toggles, sessions.  A device goes off and on by itself.                    *)

OperationGet(q) ==
  /\ Simulated
  /\ request[q].pc = "idle" /\ request[q].op # "edit"
  /\ request' = [request EXCEPT ![q] = [@ EXCEPT !.pc = "set", !.copy = router]]
  /\ UNCHANGED <<row, window, job, router, worker>>

OperationSet(q) ==
  /\ request[q].pc = "set" /\ request[q].op # "edit"
  /\ router' = [request[q].copy EXCEPT !.on =
       CASE request[q].op = "probe" -> @
         [] request[q].op = "register" -> TRUE
         [] request[q].op = "reset" -> FALSE]
  /\ request' = [request EXCEPT ![q] = Done(q)]
  /\ UNCHANGED <<row, window, job, worker>>

DeviceToggles ==
  /\ ~Simulated
  /\ router' = [router EXCEPT !.on = ~@]
  /\ UNCHANGED <<row, window, job, request, worker>>

-------------------------------------------------------------------------------
(* The worker's tick: pending jobs, then windows to start, then windows to    *)
(* revert.                                                                    *)

\* Mutant: jobs that failed are listed as well.
ListJobsRetrying ==
  /\ worker.pc = "tick"
  /\ worker' = [worker EXCEPT !.pc = "jobs",
                              !.jobs = {q \in Requests : job[q] \in {"pending", "failed"}}]
  /\ UNCHANGED <<row, window, job, router, request>>

ListJobs ==
  /\ worker.pc = "tick"
  /\ worker' = [worker EXCEPT !.pc = "jobs", !.jobs = {q \in Requests : job[q] = "pending"}]
  /\ UNCHANGED <<row, window, job, router, request>>

\* The hotspot's multiplier and the profile's rate, as they are now.
JobRead(q) ==
  /\ worker.pc = "jobs" /\ q \in worker.jobs
  /\ worker' = [worker EXCEPT !.pc = "jobget", !.jobs = @ \ {q}, !.job = {q},
                              !.boost = row.applied]
  /\ UNCHANGED <<row, window, job, router, request>>

\* Mutant: the job of a router that is off is left as it is.
JobGetUnmarked(q) ==
  /\ worker.pc = "jobget" /\ worker.job = {q}
  /\ \/ /\ ~router.on
        /\ worker' = [worker EXCEPT !.pc = "jobs", !.job = {}, !.boost = 1]
        /\ UNCHANGED <<job, router>>
     \/ /\ router.on /\ Simulated
        /\ worker' = [worker EXCEPT !.pc = "jobset", !.copy = router]
        /\ UNCHANGED <<job, router>>
     \/ /\ router.on /\ ~Simulated
        /\ router' = Configured(router, Rate)
        /\ worker' = [worker EXCEPT !.pc = "jobdone", !.base = Rate]
        /\ UNCHANGED job
  /\ UNCHANGED <<row, window, request>>

\* ApplyConfig with the plain rate.  An error fails the job, for good.
JobGet(q) ==
  /\ worker.pc = "jobget" /\ worker.job = {q}
  /\ \/ /\ ~router.on
        /\ job' = [job EXCEPT ![q] = "failed"]
        /\ worker' = [worker EXCEPT !.pc = "jobs", !.job = {}, !.boost = 1]
        /\ UNCHANGED router
     \/ /\ router.on /\ Simulated
        /\ worker' = [worker EXCEPT !.pc = "jobset", !.copy = router]
        /\ UNCHANGED <<job, router>>
     \/ /\ router.on /\ ~Simulated
        /\ router' = Configured(router, Rate)
        /\ worker' = [worker EXCEPT !.pc = "jobdone", !.base = Rate]
        /\ UNCHANGED job
  /\ UNCHANGED <<row, window, request>>

JobSet ==
  /\ worker.pc = "jobset"
  /\ router' = Configured(worker.copy, Rate)
  /\ worker' = [worker EXCEPT !.pc = "jobdone", !.copy = NoCopy]
  /\ UNCHANGED <<row, window, job, request>>

DoneJob(q) ==
  /\ worker.pc = "jobdone" /\ worker.job = {q}
  /\ job' = [job EXCEPT ![q] = "done"]
  /\ worker' = [worker EXCEPT !.pc = "jobrow", !.job = {}]
  /\ UNCHANGED <<row, window, router, request>>

\* The multiplier that was read before the router was asked.
JobRow ==
  /\ worker.pc = "jobrow"
  /\ SetHotspotConfigured(worker.boost)
  /\ worker' = [worker EXCEPT !.pc = "jobs", !.boost = 1]
  /\ UNCHANGED <<window, job, router, request>>

\* Mutant: only a hotspot without a boost is due for one.
WindowsToStartOnce ==
  IF row.status = "active" /\ row.applied = 1 THEN {Boost[w] : w \in Current} ELSE {}

\* Mutant: the end of a window is left to ListExpiredAppliedWindows.
WindowsToStartPast ==
  IF row.status = "active"
  THEN {Boost[w] : w \in {v \in Windows : window[v] \in {"current", "over"}}} \ {row.applied}
  ELSE {}

\* WindowsToStart: the multipliers that are due and not on the row.
WindowsToStart ==
  IF row.status = "active" THEN {Boost[w] : w \in Current} \ {row.applied} ELSE {}

ListStarts ==
  /\ worker.pc = "jobs" /\ worker.jobs = {}
  /\ worker' = [worker EXCEPT !.pc = "boost", !.stage = "start", !.boosts = WindowsToStart]
  /\ UNCHANGED <<row, window, job, router, request>>

\* Mutant: only active hotspots are reverted.
RevertsActive ==
  IF row.applied # 1 /\ Current = {} /\ row.status = "active" THEN {1} ELSE {}

\* ListExpiredAppliedWindows: whatever the hotspot's status.
Reverts == IF row.applied # 1 /\ Current = {} THEN {1} ELSE {}

ListEnds ==
  /\ worker.pc = "boost" /\ worker.stage = "start" /\ worker.boosts = {}
  /\ worker' = [worker EXCEPT !.stage = "end", !.boosts = Reverts]
  /\ UNCHANGED <<row, window, job, router, request>>

TickEnds ==
  /\ worker.pc = "boost" /\ worker.stage = "end" /\ worker.boosts = {}
  /\ worker' = Ticked
  /\ UNCHANGED <<row, window, job, router, request>>

\* ApplyRateMultiplier knows the hotspot: the simulator has it, or for a device
\* this process has configured it.
Known == router.base # NoRate /\ (Simulated \/ worker.base # NoRate)

\* Of the next on the list.  An error is logged and the next one's turn.
BoostGet(m) ==
  /\ worker.pc = "boost" /\ m \in worker.boosts
  /\ \/ /\ ~(router.on /\ Known)
        /\ worker' = [worker EXCEPT !.boosts = @ \ {m}]
        /\ UNCHANGED router
     \/ /\ router.on /\ Known /\ Simulated
        /\ worker' = [worker EXCEPT !.pc = "boostset", !.boosts = @ \ {m},
                                    !.boost = m, !.copy = router]
        /\ UNCHANGED router
     \/ /\ router.on /\ Known /\ ~Simulated
        /\ router' = Multiplied(router, worker.base, m)
        /\ worker' = [worker EXCEPT !.pc = "boostrow", !.boosts = @ \ {m}, !.boost = m]
  /\ UNCHANGED <<row, window, job, request>>

BoostSet ==
  /\ worker.pc = "boostset"
  /\ router' = Multiplied(worker.copy, worker.base, worker.boost)
  /\ worker' = [worker EXCEPT !.pc = "boostrow", !.copy = NoCopy]
  /\ UNCHANGED <<row, window, job, request>>

BoostRow ==
  /\ worker.pc = "boostrow"
  /\ SetHotspotConfigured(worker.boost)
  /\ worker' = [worker EXCEPT !.pc = "boost", !.boost = 1]
  /\ UNCHANGED <<window, job, router, request>>

\* A statement fails; the error is logged or ignored and the tick goes on.
WorkerStatementFailed ==
  /\ \/ /\ worker.pc = "jobdone"
        /\ worker' = [worker EXCEPT !.pc = "jobrow", !.job = {}]
     \/ /\ worker.pc = "jobrow"
        /\ worker' = [worker EXCEPT !.pc = "jobs", !.boost = 1]
     \/ /\ worker.pc = "boostrow"
        /\ worker' = [worker EXCEPT !.pc = "boost", !.boost = 1]
  /\ UNCHANGED <<row, window, job, router, request>>

\* The worker is stopped, wherever it is; what it had in memory is lost.
WorkerStopped ==
  /\ worker.pc # "stopped"
  /\ worker' = [WorkerIdle EXCEPT !.pc = "stopped"]
  /\ UNCHANGED <<row, window, job, router, request>>

\* Started again it registers the simulated routers: on, whatever they were.
WorkerStarted ==
  /\ worker.pc = "stopped"
  /\ worker' = IF Simulated THEN [worker EXCEPT !.pc = "register", !.copy = router]
                            ELSE WorkerIdle
  /\ UNCHANGED <<row, window, job, router, request>>

WorkerRegister ==
  /\ worker.pc = "register"
  /\ router' = [worker.copy EXCEPT !.on = TRUE]
  /\ worker' = WorkerIdle
  /\ UNCHANGED <<row, window, job, request>>

-------------------------------------------------------------------------------
WindowNext(w) == PostRateWindow(w) \/ DeleteRateWindow(w) \/ TimePasses(w)

StaffNext == \E s \in {"active", "disabled"} : PatchHotspotStatus(s)

EditNext(q) ==
  \/ EditHotspot(q) \/ EnqueueJob(q) \/ PushProbe(q) \/ PushProbed(q)
  \/ PushGet(q) \/ PushSet(q) \/ PushRow(q) \/ RequestAborted(q)

JobStep(q) == JobRead(q) \/ JobGet(q) \/ DoneJob(q)

BoostStep == \E m \in worker.boosts : BoostGet(m)

WorkerStep ==
  \/ ListJobs \/ JobSet \/ JobRow \/ \E q \in Requests : JobStep(q)
  \/ ListStarts \/ ListEnds \/ TickEnds \/ BoostStep \/ BoostSet \/ BoostRow
  \/ WorkerStarted \/ WorkerRegister

WorkerFails == WorkerStatementFailed \/ WorkerStopped

Next ==
  \/ \E w \in Windows : WindowNext(w)
  \/ StaffNext
  \/ \E q \in Requests : EditNext(q) \/ OperationGet(q) \/ OperationSet(q)
  \/ DeviceToggles
  \/ WorkerStep \/ WorkerFails

Spec == Init /\ [][Next]_vars

\* The scheduler loop ticks for ever and the worker is up from some time on; a
\* statement that is run again and again does not always fail.
Fairness ==
  /\ WF_vars(WorkerStep)
  /\ <>[](worker.pc # "stopped")
  /\ SF_row(BoostRow)
  /\ \A q \in Requests : SF_job(DoneJob(q))

FairSpec == Spec /\ Fairness

-------------------------------------------------------------------------------
(* Properties.                                                                *)

\* The multipliers of the windows that have begun, and none at all.
Begun == {1} \cup {Boost[w] : w \in {v \in Windows : window[v] \in {"current", "over"}}}

\* The profile's rate with such a multiplier at most once.
BoostedRates == {NoRate} \cup {Rate * m : m \in Begun}

Multipliers == Nat \ {0}

RowStates == [status : {"none", "configuring", "active", "disabled"}, applied : Multipliers]

RouterStates == [kind : {"simulated", "device"}, on : BOOLEAN, base : Nat, boost : Multipliers]

RequestStates ==
  [op : Ops, pc : {"idle", "enqueue", "probe", "probed", "get", "set", "row", "done"},
   boost : Multipliers, copy : RouterStates]

WorkerStates ==
  [pc : {"stopped", "register", "tick", "jobs", "jobget", "jobset", "jobdone", "jobrow",
         "boost", "boostset", "boostrow"},
   jobs : SUBSET Requests, job : SUBSET Requests, stage : {"start", "end"},
   boosts : SUBSET Multipliers, boost : Multipliers, base : Nat, copy : RouterStates]

TypeOK ==
  /\ row \in RowStates
  /\ window \in [Windows -> {"none", "ahead", "current", "over"}]
  /\ job \in [Requests -> {"none", "pending", "done", "failed"}]
  /\ router \in RouterStates
  /\ request \in [Requests -> RequestStates]
  /\ worker \in WorkerStates

\* Whatever copies are written back late, by the worker or by a request that read
\* the row before: no hotspot and no router is boosted by a window that has not
\* begun, and an edit during a boost pushes a rate that is boosted once.
BoostsHaveBegun ==
  /\ row.applied \in Begun
  /\ router.boost \in Begun
  /\ router.base \in BoostedRates

\* A window that goes on while no other does, on an active hotspot that its
\* router knows, is applied, though edits write back older multipliers, other
\* copies of the router are written and the worker is restarted.
BoostStarts ==
  \A w \in Windows :
    <>[](Current = {w} /\ row.status = "active" /\ router.on /\ Known)
      => <>[](row.applied = Boost[w])

\* A hotspot with no window is brought back to its plain multiplier, whatever
\* staff make of its status meanwhile.
BoostEnds ==
  <>[](Current = {} /\ router.on /\ Known) => <>[](row.applied = 1)

\* A job that was enqueued is carried out or fails: none stays pending for ever,
\* with a router that is off or a worker that is restarted.
JobsEnd == \A q \in Requests : job[q] = "pending" ~> job[q] \in {"done", "failed"}

\* A job has one outcome: one that failed is not tried again and one that is done
\* not done again, by a restarted worker or a list read before it ended.
JobsEndOnce ==
  [][\A q \in Requests : job[q] \in {"done", "failed"} => job'[q] = job[q]]_vars

\* A router, or a copy of it, with multipliers of B only.
Fits(r, B) == r.boost \in B /\ r.base \in {NoRate} \cup {Rate * m : m \in B}

\* Whatever is there, and whatever may still be written, has multipliers of B only.
Within(B) ==
  /\ row.applied \in B /\ Fits(router, B)
  /\ \A q \in Requests : request[q].boost \in B /\ Fits(request[q].copy, B)
  /\ worker.boosts \subseteq B /\ worker.boost \in B
  /\ worker.base \in {NoRate, Rate} /\ Fits(worker.copy, B)

Boosts == {1} \cup {Boost[w] : w \in Windows}

\* A boost that is on no row, router or copy, in no list and in no request's hands
\* comes back only while a window with it is current: what edits and jobs read
\* before, late copies, errors and restarts of the worker never revive it.
BoostsStayGone ==
  [][\A w \in Windows :
       /\ Within(Boosts \ {Boost[w]}) /\ Boost[w] \notin {Boost[v] : v \in Current}
       => Within(Boosts \ {Boost[w]})']_vars

-------------------------------------------------------------------------------
(* What documents say and the code does not do.                               *)

\* PHASE-6.md:74: "a guaranteed revert so that caps always come back to normal".
\* When the worker has reverted the router, the rate is the profile's, then or
\* later, unless a window begins or the router goes off.
CapsReturn ==
  worker.pc = "boostrow" /\ worker.stage = "end"
    ~> Normal \/ Current # {} \/ ~router.on

\* PHASE-2.md:54: "disable stops new sessions only ... server blocks further push
\* if disabled": only staff take a hotspot out of status 'disabled'.
DisabledUntilStaff ==
  [][row.status = "disabled" /\ row'.status # "disabled"
       => StaffNext \/ \E q \in Requests : EditHotspot(q)]_vars

-------------------------------------------------------------------------------
(* When they are true of the code.                                            *)

\* A hotspot is edited only while the row shows no boost.
EditsUnboosted == [][\A q \in Requests : EditHotspot(q) => row.applied = 1]_vars

\* The router's own rate, on which boosts and reverts build, is the profile's.
PlainBase == router.base \in {NoRate, Rate}

\* A request that goes on to write the hotspot's row.
Pushing(q) ==
  \/ request[q].pc \in {"enqueue", "probe", "probed", "get", "row"}
  \/ request[q].pc = "set" /\ request[q].op = "edit"

\* Nothing is under way that writes the row as active in the end: no edit, no
\* job, no boost, no revert that is due or may become so.
Quiet ==
  /\ row.applied = 1
  /\ \A q \in Requests : ~Pushing(q) /\ job[q] # "pending"
  /\ worker.pc \in {"stopped", "register", "tick", "jobs", "boost"}
  /\ worker.jobs = {} /\ worker.boosts = {}

\* A hotspot is disabled only then.
DisabledWhenQuiet ==
  [][row'.status = "disabled" /\ row.status # "disabled" => Quiet]_vars

================================================================================
