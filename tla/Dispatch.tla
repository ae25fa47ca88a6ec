------------------------------ MODULE Dispatch ------------------------------
(***************************************************************************)
(* The run dispatcher of one site: server/src/world.ts.                    *)
(*                                                                         *)
(* Runs ("missions") are created by operators or by due schedules, matched *)
(* to robots by a 4 Hz tick, handed to a vendor adapter as durable orders, *)
(* and settled by the adapter's receipts, by an operator's abort, by a     *)
(* watchdog or by the recovery that follows a platform restart.            *)
(*                                                                         *)
(* The server is one Node.js process: every handler below runs to its end  *)
(* before another starts, so each is one action.  What interleaves is the  *)
(* handlers themselves, the adapters' calls, time, and crashes: a crash    *)
(* may fall between two database writes of one handler (the Torn actions). *)
(*                                                                         *)
(* An order's identity is what it was enqueued for: a run is dispatched at *)
(* most once and aborted at most once, so <<"mission", m>> and             *)
(* <<"abort", m>> name those orders; the others are <<"extra", n>>.        *)
(***************************************************************************)
EXTENDS Integers, FiniteSets

CONSTANTS
  Robots,         \* the units adapters may register
  MaxMissions,    \* bound: runs ever created
  MaxExtra,       \* bound: goto, pause, resume and takeover-abort orders
  Schedules,      \* ids of the recurring or one-shot schedules
  Requests,       \* what a run may ask for: AnyRobot or a robot by name
  Priorities,     \* 1 is the most urgent
  BatteryLevels,  \* subset of {"ok", "low", "critical"}: 25 % and 8 % apart
  Equipped,       \* run -> robots whose payloads cover its template's needs
  SessionIds,     \* manual-control sessions, the owners of a control lock
  AnyRobot, NoRobot, NoMission, NoSchedule, NoSession

Missions == 1..MaxMissions
Extra    == {"extra"} \X (1..MaxExtra)
OrderIds == ({"mission", "abort"} \X Missions) \cup Extra

ASSUME DispatchAssumption ==
  /\ MaxMissions \in Nat /\ MaxExtra \in Nat
  /\ Requests \subseteq Robots \cup {AnyRobot}
  /\ Priorities \subseteq Nat
  /\ BatteryLevels \subseteq {"ok", "low", "critical"} /\ "ok" \in BatteryLevels
  /\ Equipped \in [Missions -> SUBSET Robots]
  /\ AnyRobot \notin Robots /\ NoRobot \notin Robots
  /\ NoMission \notin Missions
  /\ NoSchedule \notin Schedules /\ NoSession \notin SessionIds

VARIABLES
  missions,      \* run -> its record; also what the missions table holds
  orders,        \* order -> its record; also what the orders table holds
  dropped,       \* open orders that left memory with their robot, rows kept
  served,        \* orders some pull has handed to the adapter
  pin,           \* robot -> nav.missionId, the run it carries (memory only)
  level,         \* robot -> "absent" or its integration level
  online,        \* robots heard from within EXTERNAL_STALE_MS
  battery,       \* robot -> last reported battery level
  schedules,     \* schedule -> its record
  controlLocks   \* robot -> manual-control session that reserves it

vars == <<missions, orders, dropped, served, pin, level, online, battery,
          schedules, controlLocks>>

-----------------------------------------------------------------------------
MissionStatus == {"none", "queued", "active", "done", "failed", "aborted"}
OrderState    == {"none", "pending", "acked", "done", "failed"}
OrderKind     == {"goto", "mission", "pause", "resume", "abort"}

Mission == [status: MissionStatus, requested: Robots \cup {AnyRobot},
            robot: Robots \cup {NoRobot}, priority: Priorities \cup {0},
            paused: BOOLEAN, schedule: Schedules \cup {NoSchedule}]
Order   == [kind: OrderKind, robot: Robots \cup {NoRobot},
            mission: Missions \cup {NoMission}, state: OrderState]

Schedule == [life: {"unused", "live", "deleted"}, enabled: BOOLEAN,
             once: BOOLEAN, nextRun: {"none", "later", "due"},
             requested: Robots \cup {AnyRobot}, priority: Priorities \cup {0}]

NoMissionYet  == [status |-> "none", requested |-> AnyRobot, robot |-> NoRobot,
                  priority |-> 0, paused |-> FALSE, schedule |-> NoSchedule]
NoOrderYet    == [kind |-> "goto", robot |-> NoRobot, mission |-> NoMission,
                  state |-> "none"]
NoScheduleYet == [life |-> "unused", enabled |-> FALSE, once |-> FALSE,
                  nextRun |-> "none", requested |-> AnyRobot, priority |-> 0]

Init ==
  /\ missions = [m \in Missions |-> NoMissionYet]
  /\ orders = [o \in OrderIds |-> NoOrderYet]
  /\ dropped = {} /\ served = {} /\ online = {}
  /\ pin = [r \in Robots |-> NoMission]
  /\ level = [r \in Robots |-> "absent"]
  /\ battery = [r \in Robots |-> "ok"]
  /\ schedules = [s \in Schedules |-> NoScheduleYet]
  /\ controlLocks = [r \in Robots |-> NoSession]

-----------------------------------------------------------------------------
(* Reading the state.                                                      *)
Open       == {"pending", "acked"}
InMemory(o) == o \notin dropped
ActiveOn(r) == {m \in Missions : missions[m].status = "active"
                                 /\ missions[m].robot = r}
Fresh       == {m \in Missions : missions[m].status = "none"}
NextFresh(m) == m \in Fresh /\ \A n \in Fresh : m <= n

FreeExtra    == {n \in 1..MaxExtra : orders[<<"extra", n>>].state = "none"}
NextExtra(n) == n \in FreeExtra /\ \A k \in FreeExtra : n <= k

\* Variant: the dispatch order without its priority.
BeforeByCreation(m, n, ms) == m < n

\* The dispatch order of queued runs: priority first, then creation.
Before(m, n, ms) == \/ ms[m].priority < ms[n].priority
                    \/ ms[m].priority = ms[n].priority /\ m < n

NewOrder(k, r, m) == [kind |-> k, robot |-> r, mission |-> m,
                      state |-> "pending"]
NewMission(req, p, s) == [status |-> "queued", requested |-> req,
                          robot |-> NoRobot, priority |-> p,
                          paused |-> FALSE, schedule |-> s]

\* Variant: settling a run forgets to release its robot.
UnpinnedForgotten(S) == pin

\* nav.missionId is cleared only where it still names the run being settled.
Unpinned(S) == [r \in Robots |-> IF pin[r] \in S THEN NoMission ELSE pin[r]]

-----------------------------------------------------------------------------
(* Runs and operator interventions.                                        *)

\* A bound, not code: due schedules must find a free run identity.
RunsLeft == Cardinality(Fresh) >
            Cardinality({s \in Schedules : schedules[s].nextRun = "due"})

CreateMission(req, p) ==
  /\ RunsLeft
  /\ \E m \in Fresh : /\ NextFresh(m)
                      /\ missions' = [missions EXCEPT
                                       ![m] = NewMission(req, p, NoSchedule)]
  /\ UNCHANGED <<orders, dropped, served, pin, level, online, battery,
                 schedules, controlLocks>>

PauseMission(m, p) ==
  /\ missions[m].status = "active"
  /\ missions' = [missions EXCEPT ![m].paused = p]
  /\ IF level[missions[m].robot] = "absent"
       THEN orders' = orders
       ELSE \E n \in FreeExtra :
              /\ NextExtra(n)
              /\ orders' = [orders EXCEPT ![<<"extra", n>>] =
                   NewOrder(IF p THEN "pause" ELSE "resume",
                            missions[m].robot, m)]
  /\ UNCHANGED <<dropped, served, pin, level, online, battery, schedules,
                 controlLocks>>

\* Pending orders of a cancelled run fail; a run order the adapter already
\* pulled is followed by an abort order.
\* Variant: cancelling a run leaves its pending orders in the queue.
CancelledNever(o, S) == FALSE
Cancelled(o, S) == InMemory(o) /\ orders[o].state = "pending"
                               /\ orders[o].mission \in S
Chased(m) == InMemory(<<"mission", m>>)
             /\ orders[<<"mission", m>>].state = "acked"

\* Variant: cancelled orders get a state of their own.
OrdersAfterCancelNewState(S) ==
  [o \in OrderIds |->
     IF Cancelled(o, S) THEN [orders[o] EXCEPT !.state = "cancelled"]
                        ELSE orders[o]]

OrdersAfterCancel(S) ==
  [o \in OrderIds |->
     IF Cancelled(o, S) THEN [orders[o] EXCEPT !.state = "failed"]
                        ELSE orders[o]]

OrdersAfterAbort(S) ==
  [o \in OrderIds |->
     IF o[1] = "abort" /\ o[2] \in S /\ Chased(o[2])
       THEN NewOrder("abort", missions[o[2]].robot, o[2])
       ELSE OrdersAfterCancel(S)[o]]

AbortMission(m) ==
  /\ missions[m].status \in {"queued", "active"}
  /\ missions' = [missions EXCEPT ![m].status = "aborted"]
  /\ IF missions[m].status = "active"
       THEN orders' = OrdersAfterAbort({m}) /\ pin' = Unpinned({m})
       ELSE UNCHANGED <<orders, pin>>
  /\ UNCHANGED <<dropped, served, level, online, battery, schedules,
                 controlLocks>>

\* Tap-to-dispatch: no liveness check, the order queue is the buffer.
TeleopGoto(r) ==
  /\ level[r] = "dispatchable" /\ controlLocks[r] = NoSession
  /\ \E n \in FreeExtra :
       /\ NextExtra(n)
       /\ orders' = [orders EXCEPT
                      ![<<"extra", n>>] = NewOrder("goto", r, NoMission)]
  /\ UNCHANGED <<missions, dropped, served, pin, level, online, battery,
                 schedules, controlLocks>>

Commands == {"goto", "dock", "pause", "resume", "abort"}

\* Robot-scoped commands: pause, resume and abort act on the pinned run.
Command(r, c) ==
  /\ level[r] = "dispatchable" /\ r \in online
  /\ controlLocks[r] # NoSession => c \in {"pause", "abort"}
  /\ \/ c = "goto" /\ battery[r] # "critical" /\ TeleopGoto(r)
     \/ c = "dock" /\ TeleopGoto(r)
     \/ c \in {"pause", "resume"} /\ pin[r] # NoMission
        /\ PauseMission(pin[r], c = "pause")
     \/ c = "abort" /\ pin[r] # NoMission /\ AbortMission(pin[r])

-----------------------------------------------------------------------------
(* The 250 ms tick: fire due schedules, then dispatch queued runs.         *)

\* Variant: a run still waiting for a robot does not defer its schedule.
OpenRunActive(s) == \E m \in Missions : /\ missions[m].schedule = s
                                        /\ missions[m].status = "active"
OpenRun(s) == \E m \in Missions : /\ missions[m].schedule = s
                                  /\ missions[m].status \in {"queued", "active"}
Due    == {s \in Schedules : /\ schedules[s].life = "live" /\ schedules[s].enabled
                             /\ schedules[s].nextRun = "due"}
Firing == {s \in Due : ~OpenRun(s)}

\* A schedule whose previous run is open is deferred; one that fires recurs
\* unless it is a one-shot.
SchedulesAfterTick ==
  [s \in Schedules |->
     IF s \in Firing /\ schedules[s].once
       THEN [schedules[s] EXCEPT !.nextRun = "none"]
     ELSE IF s \in Due THEN [schedules[s] EXCEPT !.nextRun = "later"]
     ELSE schedules[s]]

\* Firing schedules take the next fresh run identities, in some order.
NewRunIds ==
  {f \in [Firing -> Fresh] :
     /\ \A s, t \in Firing : f[s] = f[t] => s = t
     /\ \A s \in Firing : \A n \in Fresh :
          n < f[s] => \E t \in Firing : f[t] = n}

MissionsAfterSchedules(f) ==
  [m \in Missions |->
     IF \E s \in Firing : f[s] = m
       THEN LET s == CHOOSE s \in Firing : f[s] = m
            IN NewMission(schedules[s].requested, schedules[s].priority, s)
       ELSE missions[m]]

\* Variant: the robot's current run is not looked at.
EligibleBusy(ms, m, r) ==
  /\ level[r] = "dispatchable" /\ controlLocks[r] = NoSession
  /\ \/ ms[m].requested = r
     \/ /\ ms[m].requested = AnyRobot
        /\ r \in online /\ battery[r] = "ok" /\ r \in Equipped[m]

Eligible(ms, m, r) ==
  /\ level[r] = "dispatchable" /\ controlLocks[r] = NoSession
  /\ pin[r] = NoMission
  /\ \/ ms[m].requested = r
     \/ /\ ms[m].requested = AnyRobot
        /\ r \in online /\ battery[r] = "ok" /\ r \in Equipped[m]

Queued(ms) == {m \in Missions : ms[m].status = "queued"}

\* What the dispatch loop can do: in dispatch order, each queued run gets one
\* of its candidates not taken before it (the nearest; distance is abstracted).
Assignments(ms) ==
  {a \in [Queued(ms) -> Robots \cup {NoRobot}] :
     \A m \in Queued(ms) :
       LET taken == {a[n] : n \in {k \in Queued(ms) : Before(k, m, ms)}}
           candidates == {r \in Robots : Eligible(ms, m, r)} \ taken
       IN IF candidates = {} THEN a[m] = NoRobot ELSE a[m] \in candidates}

Assigned(ms, a) == {m \in Queued(ms) : a[m] # NoRobot}

Dispatched(ms, a) ==
  /\ missions' = [m \in Missions |->
       IF m \in Assigned(ms, a)
         THEN [ms[m] EXCEPT !.status = "active", !.robot = a[m]]
         ELSE ms[m]]
  /\ pin' = [r \in Robots |->
       IF \E m \in Assigned(ms, a) : a[m] = r
         THEN CHOOSE m \in Assigned(ms, a) : a[m] = r
         ELSE pin[r]]
  /\ orders' = [o \in OrderIds |->
       IF o[1] = "mission" /\ o[2] \in Assigned(ms, a)
         THEN NewOrder("mission", a[o[2]], o[2])
         ELSE orders[o]]

Tick ==
  /\ \E f \in NewRunIds : LET ms == MissionsAfterSchedules(f) IN
       \E a \in Assignments(ms) : Dispatched(ms, a)
  /\ schedules' = SchedulesAfterTick
  /\ UNCHANGED <<dropped, served, level, online, battery, controlLocks>>

-----------------------------------------------------------------------------
(* The adapter's calls.                                                    *)

PullOrders(r) ==
  /\ level[r] # "absent"
  /\ LET out == {o \in OrderIds : /\ orders[o].robot = r /\ InMemory(o)
                                  /\ orders[o].state = "pending"}
     IN /\ out # {}
        /\ orders' = [o \in OrderIds |->
             IF o \in out THEN [orders[o] EXCEPT !.state = "acked"]
                          ELSE orders[o]]
        /\ served' = served \cup out
  /\ UNCHANGED <<missions, dropped, pin, level, online, battery, schedules,
                 controlLocks>>

\* Variants: a run that is over is settled again; the receipt is recorded but
\* the run is never settled.
SettlesTwice(o)   == orders[o].kind = "mission" /\ orders[o].mission # NoMission
SettlesNever(o)   == FALSE

\* Done and failed are final: a late receipt changes nothing.  Only the run
\* order settles its run, and only while the run is active.
Settles(o) == /\ orders[o].kind = "mission" /\ orders[o].mission # NoMission
              /\ missions[orders[o].mission].status = "active"

SetOrderStatus(o, outcome) ==
  /\ o \in served /\ InMemory(o) /\ orders[o].state \in Open
  /\ orders' = [orders EXCEPT ![o].state = outcome]
  /\ IF Settles(o)
       THEN /\ missions' = [missions EXCEPT ![orders[o].mission].status = outcome]
            /\ pin' = Unpinned({orders[o].mission})
       ELSE UNCHANGED <<missions, pin>>
  /\ UNCHANGED <<dropped, served, level, online, battery, schedules,
                 controlLocks>>

RegisterExternal(r, l) ==
  /\ level' = [level EXCEPT ![r] = l]
  /\ online' = online \cup {r}
  /\ battery' = [battery EXCEPT ![r] = IF level[r] = "absent" THEN "ok" ELSE @]
  /\ UNCHANGED <<missions, orders, dropped, served, pin, schedules,
                 controlLocks>>

\* Orders of the robot leave memory; their rows stay in the database.
RemoveExternal(r) ==
  /\ level[r] # "absent"
  /\ level' = [level EXCEPT ![r] = "absent"]
  /\ online' = online \ {r}
  /\ pin' = [pin EXCEPT ![r] = NoMission]
  /\ dropped' = dropped \cup {o \in OrderIds : orders[o].robot = r
                                               /\ orders[o].state \in Open}
  /\ UNCHANGED <<missions, orders, served, battery, schedules, controlLocks>>

IngestState(r, b) ==
  /\ level[r] # "absent"
  /\ online' = online \cup {r}
  /\ battery' = [battery EXCEPT ![r] = b]
  /\ UNCHANGED <<missions, orders, dropped, served, pin, level, schedules,
                 controlLocks>>

-----------------------------------------------------------------------------
(* Schedules, and the passing of time.                                     *)

CreateSchedule(s, req, p, once) ==
  /\ schedules[s].life = "unused"
  /\ schedules' = [schedules EXCEPT ![s] =
       [life |-> "live", enabled |-> TRUE, once |-> once, nextRun |-> "later",
        requested |-> req, priority |-> p]]
  /\ UNCHANGED <<missions, orders, dropped, served, pin, level, online,
                 battery, controlLocks>>

\* Only a new cadence recomputes the next run; a one-shot whose time is past
\* gets none.
Patched(sc, enabled, req, p, cadence) ==
  [sc EXCEPT
     !.enabled = enabled, !.requested = req, !.priority = p,
     !.once = IF cadence = "keep" THEN sc.once ELSE cadence # "recurring",
     !.nextRun = IF cadence = "keep" THEN sc.nextRun
                 ELSE IF cadence = "past" THEN "none" ELSE "later"]

PatchSchedule(s, enabled, req, p, cadence) ==
  /\ schedules[s].life = "live"
  /\ schedules' = [schedules EXCEPT
                     ![s] = Patched(schedules[s], enabled, req, p, cadence)]
  /\ UNCHANGED <<missions, orders, dropped, served, pin, level, online,
                 battery, controlLocks>>

\* Deleting a schedule, directly or with the template it runs.
DeleteSchedules(S) ==
  /\ S # {} /\ \A s \in S : schedules[s].life = "live"
  /\ schedules' = [s \in Schedules |->
       IF s \in S THEN [NoScheduleYet EXCEPT !.life = "deleted"]
                  ELSE schedules[s]]
  /\ UNCHANGED <<missions, orders, dropped, served, pin, level, online,
                 battery, controlLocks>>

ScheduleComesDue(s) ==
  /\ schedules[s].nextRun = "later" /\ RunsLeft
  /\ schedules' = [schedules EXCEPT ![s].nextRun = "due"]
  /\ UNCHANGED <<missions, orders, dropped, served, pin, level, online,
                 battery, controlLocks>>

GoesStale(r) ==
  /\ r \in online
  /\ online' = online \ {r}
  /\ UNCHANGED <<missions, orders, dropped, served, pin, level, battery,
                 schedules, controlLocks>>

\* Variant: the watchdog spares the runs of robots it cannot hear.
SweepStaleRunsOnline(stale) ==
  /\ stale # {}
  /\ \A m \in stale : missions[m].status = "active"
                      /\ missions[m].robot \in online
  /\ missions' = [m \in Missions |->
       IF m \in stale THEN [missions[m] EXCEPT !.status = "failed"]
                      ELSE missions[m]]
  /\ pin' = Unpinned(stale)
  /\ UNCHANGED <<orders, dropped, served, level, online, battery, schedules,
                 controlLocks>>

\* The hourly watchdog fails the runs active for six hours; their orders stay.
SweepStaleRuns(stale) ==
  /\ stale # {} /\ \A m \in stale : missions[m].status = "active"
  /\ missions' = [m \in Missions |->
       IF m \in stale THEN [missions[m] EXCEPT !.status = "failed"]
                      ELSE missions[m]]
  /\ pin' = Unpinned(stale)
  /\ UNCHANGED <<orders, dropped, served, level, online, battery, schedules,
                 controlLocks>>

-----------------------------------------------------------------------------
(* Restart.  Memory is rebuilt from the rows ms and os the process left:   *)
(* acked orders are queued again, an active run without an open order      *)
(* fails, registrations are replayed offline and no run is pinned.         *)

Hydrate(ms, os) ==
  /\ orders' = [o \in OrderIds |->
       IF os[o].state = "acked" THEN [os[o] EXCEPT !.state = "pending"]
                                ELSE os[o]]
  /\ missions' = [m \in Missions |->
       IF ms[m].status = "active"
          /\ ~\E o \in OrderIds : os[o].mission = m /\ os[o].state \in Open
         THEN [ms[m] EXCEPT !.status = "failed"]
         ELSE ms[m]]
  /\ dropped' = {} /\ online' = {}
  /\ pin' = [r \in Robots |-> NoMission]
  /\ battery' = [r \in Robots |-> "ok"]
  /\ UNCHANGED <<served, level, schedules>>

Restart == Hydrate(missions, orders)

\* The crash falls after the run row, before the order row.
TornDispatch(m, r) ==
  /\ missions[m].status = "queued" /\ Eligible(missions, m, r)
  /\ Hydrate([missions EXCEPT ![m].status = "active", ![m].robot = r], orders)

\* The crash falls after the order row, before the run row.
TornSettle(o, outcome) ==
  /\ o \in served /\ InMemory(o) /\ orders[o].state \in Open /\ Settles(o)
  /\ Hydrate(missions, [orders EXCEPT ![o].state = outcome])

\* The crash falls after the cancelled order rows, before the abort order.
TornAbort(m) ==
  /\ missions[m].status = "active"
  /\ Hydrate(missions, OrdersAfterCancel({m}))

\* The crash falls after the new run row, before it names its schedule.
TornFiring(s) ==
  /\ s \in Firing
  /\ \E m \in Fresh :
       /\ NextFresh(m)
       /\ Hydrate([missions EXCEPT ![m] = NewMission(schedules[s].requested,
                                      schedules[s].priority, NoSchedule)],
                  orders)

Torn ==
  \/ \E m \in Missions, r \in Robots : TornDispatch(m, r)
  \/ \E o \in OrderIds, outcome \in {"done", "failed"} : TornSettle(o, outcome)
  \/ \E m \in Missions : TornAbort(m)
  \/ \E s \in Schedules : TornFiring(s)

-----------------------------------------------------------------------------
Operate ==
  \/ \E req \in Requests, p \in Priorities : CreateMission(req, p)
  \/ \E m \in Missions, p \in BOOLEAN : PauseMission(m, p)
  \/ \E m \in Missions : AbortMission(m)
  \/ \E r \in Robots : TeleopGoto(r)
  \/ \E r \in Robots, c \in Commands : Command(r, c)

Adapt ==
  \/ \E r \in Robots : PullOrders(r)
  \/ \E o \in OrderIds, outcome \in {"done", "failed"} :
       SetOrderStatus(o, outcome)
  \/ \E r \in Robots, l \in {"state-only", "dispatchable"} :
       RegisterExternal(r, l)
  \/ \E r \in Robots, b \in BatteryLevels : IngestState(r, b)

Plan ==
  \/ \E s \in Schedules, req \in Requests, p \in Priorities,
        once \in BOOLEAN : CreateSchedule(s, req, p, once)
  \/ \E s \in Schedules, e \in BOOLEAN, req \in Requests, p \in Priorities,
        cadence \in {"keep", "recurring", "once", "past"} :
       PatchSchedule(s, e, req, p, cadence)
  \/ \E S \in SUBSET Schedules : DeleteSchedules(S)

Elapse ==
  \/ Tick
  \/ \E s \in Schedules : ScheduleComesDue(s)
  \/ \E r \in Robots : GoesStale(r)
  \/ \E stale \in SUBSET Missions : SweepStaleRuns(stale)

\* No crash, and no robot is deregistered.
SteadyNext == Operate \/ Adapt \/ Plan \/ Elapse

\* Crashes fall between two handlers.
CleanNext ==
  \/ SteadyNext
  \/ \E r \in Robots : RemoveExternal(r)
  \/ Restart /\ UNCHANGED controlLocks

\* Crashes fall anywhere.
Next == CleanNext \/ (Torn /\ UNCHANGED controlLocks)

SteadySpec == Init /\ [][SteadyNext]_vars
CleanSpec  == Init /\ [][CleanNext]_vars
Spec       == Init /\ [][Next]_vars

\* The tick and the hourly watchdog are interval timers of the process.
Fairness == /\ WF_vars(Tick)
            /\ \A m \in Missions : WF_vars(SweepStaleRuns({m}))
FairSpec == Spec /\ Fairness

-----------------------------------------------------------------------------
TypeOK ==
  /\ missions \in [Missions -> Mission]
  /\ orders \in [OrderIds -> Order]
  /\ dropped \subseteq OrderIds /\ served \subseteq OrderIds
  /\ pin \in [Robots -> Missions \cup {NoMission}]
  /\ level \in [Robots -> {"absent", "state-only", "dispatchable"}]
  /\ online \subseteq Robots
  /\ battery \in [Robots -> BatteryLevels]
  /\ schedules \in [Schedules -> Schedule]
  /\ controlLocks \in [Robots -> SessionIds \cup {NoSession}]

\* A robot-scoped pause or abort always reaches the run the robot carries:
\* nav.missionId never names a run that is over or was given to another robot.
PinnedRunIsActive ==
  \A r \in Robots : pin[r] # NoMission =>
    /\ level[r] # "absent"
    /\ missions[pin[r]].status = "active" /\ missions[pin[r]].robot = r

\* An active run can be settled while the order that says how it ended is in
\* memory, open and addressed to its robot: any other receipt is refused or
\* changes nothing.
Settleable(m) == LET o == <<"mission", m>>
                 IN /\ InMemory(o) /\ orders[o].state \in Open
                    /\ orders[o].robot = missions[m].robot
Stranded(m) == missions[m].status = "active" /\ ~Settleable(m)

Deregistered(r) == level[r] # "absent" /\ level'[r] = "absent"

\* A crash between the two rows of a receipt: the order has ended, the run has
\* not, and another open order of the run keeps recovery from failing it.
CutShort(o) == /\ \E outcome \in {"done", "failed"} : TornSettle(o, outcome)
               /\ \E e \in OrderIds \ {o} : /\ orders'[e].state \in Open
                                           /\ orders'[e].mission = o[2]

\* A run is stranded, active with no receipt left that settles it, in two ways
\* only.  Its robot is deregistered, which drops the order from memory until a
\* restart finds the row again.  Or a crash cuts its receipt short while a pause
\* or resume order of the run is open: no restart heals that.  A stranded run is
\* left to the operator's abort and to the six-hour watchdog.
RunsStaySettleable ==
  [][\A m \in Missions : LET o == <<"mission", m>> IN Stranded(m)' =>
       \/ /\ o \in dropped'
          /\ o \in dropped \/ Deregistered(missions[m].robot)
       \/ /\ o \notin dropped' /\ missions[m].status = "active"
          /\ orders[o].state \in {"done", "failed"} \/ CutShort(o)]_vars

\* A schedule never has two open runs, whatever its cadence, its deferrals
\* and the restarts in between.
OneOpenRunPerSchedule ==
  \A m, n \in Missions :
    /\ missions[m].schedule # NoSchedule
    /\ missions[m].schedule = missions[n].schedule
    /\ missions[m].status \in {"queued", "active"}
    /\ missions[n].status \in {"queued", "active"}
    => m = n

\* Two runs never hold one robot: what the dispatcher's comment promises.
NeverDoubleBooked ==
  \A m, n \in Missions :
    /\ missions[m].status = "active" /\ missions[n].status = "active"
    /\ missions[m].robot = missions[n].robot
    => m = n

\* No order still waiting to be pulled carries a run that was aborted.
AbortedRunNotServed ==
  \A m \in Missions : missions[m].status = "aborted" =>
    orders[<<"mission", m>>].state # "pending"

\* Late or repeated receipts, aborts racing receipts, the watchdog and crashes
\* never change how a run or an order ended.
EndsKept ==
  /\ \A m \in Missions : missions[m].status \in {"done", "failed", "aborted"}
       => missions'[m].status = missions[m].status
  /\ \A o \in OrderIds : orders[o].state \in {"done", "failed"}
       => orders'[o].state = orders[o].state
EndsAreFinal == [][EndsKept]_vars

\* A run handed to a robot never overtakes a more urgent queued run that could
\* have had that robot.
NoOvertaking ==
  [][\A m, n \in Missions :
       /\ missions[m].status = "queued" /\ missions'[m].status = "active"
       /\ missions[n].status = "queued" /\ missions'[n].status = "queued"
       /\ Eligible(missions, n, missions'[m].robot)
       => \/ missions[m].priority < missions[n].priority
          \/ missions[m].priority = missions[n].priority /\ m < n]_vars

\* Every dispatched run ends, even if its adapter dies or its receipt is lost.
ActiveRunEnds ==
  \A m \in Missions : []<>(missions[m].status # "active")
=============================================================================
