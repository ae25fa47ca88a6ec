--------------------------- MODULE DispatchProofs ---------------------------
(* What TLAPS proves of Dispatch, for every value of its constants.        *)
EXTENDS Dispatch, TLAPS

-----------------------------------------------------------------------------
(* What the helpers of the tick return.                                    *)

\* The records the handlers write are records of the declared types.
LEMMA NewRecords ==
  /\ \A req \in Robots \cup {AnyRobot}, p \in Priorities,
        s \in Schedules \cup {NoSchedule} : NewMission(req, p, s) \in Mission
  /\ \A k \in OrderKind, r \in Robots \cup {NoRobot},
        m \in Missions \cup {NoMission} : NewOrder(k, r, m) \in Order
  BY DEF NewMission, NewOrder, Mission, Order, MissionStatus, OrderState

\* Firing the due schedules leaves a table of runs.
LEMMA SchedulesGiveRuns ==
  ASSUME TypeOK, NEW f \in NewRunIds
  PROVE  MissionsAfterSchedules(f) \in [Missions -> Mission]
<1>1. SUFFICES ASSUME NEW m \in Missions
               PROVE  MissionsAfterSchedules(f)[m] \in Mission
  BY DEF MissionsAfterSchedules
<1>2. CASE \E s \in Firing : f[s] = m
  <2>1. PICK s \in Firing : /\ f[s] = m
                            /\ s = CHOOSE t \in Firing : f[t] = m
    BY <1>2
  <2>2. s \in Schedules /\ schedules[s].life = "live"
    BY DEF Firing, Due
  <2>3. schedules[s].requested \in Robots \cup {AnyRobot}
        /\ schedules[s].priority \in Priorities \cup {0}
    BY <2>2 DEF TypeOK, Schedule
  <2>4. MissionsAfterSchedules(f)[m]
          = NewMission(schedules[s].requested, schedules[s].priority, s)
    BY <1>2, <2>1 DEF MissionsAfterSchedules
  <2>. QED BY <2>2, <2>3, <2>4 DEF NewMission, Mission, MissionStatus
<1>3. CASE ~\E s \in Firing : f[s] = m
  BY <1>3 DEF MissionsAfterSchedules, TypeOK
<1>. QED BY <1>2, <1>3

-----------------------------------------------------------------------------
(* Type correctness.                                                       *)

LEMMA InitType == Init => TypeOK
<1>. SUFFICES ASSUME Init PROVE TypeOK
  OBVIOUS
<1>1. NoMissionYet \in Mission /\ NoOrderYet \in Order
      /\ NoScheduleYet \in Schedule
  BY DEF NoMissionYet, NoOrderYet, NoScheduleYet, Mission, Order, Schedule,
         MissionStatus, OrderState, OrderKind
<1>. QED BY <1>1, DispatchAssumption DEF Init, TypeOK

\* Dispatching keeps the tables: every run on a robot becomes its active run.
LEMMA DispatchedType ==
  ASSUME TypeOK, NEW ms \in [Missions -> Mission], NEW a \in Assignments(ms),
         Dispatched(ms, a)
  PROVE  /\ missions' \in [Missions -> Mission]
         /\ orders' \in [OrderIds -> Order]
         /\ pin' \in [Robots -> Missions \cup {NoMission}]
<1>1. a \in [Queued(ms) -> Robots \cup {NoRobot}]
  BY DEF Assignments
<1>2. Assigned(ms, a) \subseteq Missions
      /\ \A m \in Assigned(ms, a) : a[m] \in Robots
  BY <1>1 DEF Assigned, Queued
<1>3. missions' \in [Missions -> Mission]
  BY <1>2 DEF Dispatched, Mission, MissionStatus
<1>4. orders' \in [OrderIds -> Order]
  BY <1>2 DEF Dispatched, TypeOK, NewOrder, Order, OrderState, OrderKind
<1>5. pin' \in [Robots -> Missions \cup {NoMission}]
  BY <1>2 DEF Dispatched, TypeOK
<1>. QED BY <1>3, <1>4, <1>5

\* Whatever rows the process left, a restart rebuilds well-typed tables.
LEMMA HydrateType ==
  ASSUME TypeOK, NEW ms \in [Missions -> Mission],
         NEW os \in [OrderIds -> Order],
         Hydrate(ms, os),
         controlLocks' \in [Robots -> SessionIds \cup {NoSession}]
  PROVE  TypeOK'
<1>1. missions' \in [Missions -> Mission]
  BY DEF Hydrate, Mission, MissionStatus
<1>2. orders' \in [OrderIds -> Order]
  BY DEF Hydrate, Order, OrderState
<1>. QED BY <1>1, <1>2, DispatchAssumption DEF Hydrate, TypeOK

\* Cancelling and aborting runs only writes well-typed orders.
LEMMA AbortOrdersType ==
  ASSUME TypeOK, NEW S \in SUBSET Missions
  PROVE  /\ OrdersAfterCancel(S) \in [OrderIds -> Order]
         /\ OrdersAfterAbort(S) \in [OrderIds -> Order]
<1>1. OrdersAfterCancel(S) \in [OrderIds -> Order]
  BY DEF OrdersAfterCancel, TypeOK, Order, OrderState
<1>2. \A m \in Missions : NewOrder("abort", missions[m].robot, m) \in Order
  BY NewRecords DEF TypeOK, Mission, OrderKind
<1>3. OrdersAfterAbort(S) \in [OrderIds -> Order]
  BY <1>1, <1>2 DEF OrdersAfterAbort
<1>. QED BY <1>1, <1>3

LEMMA OperateType == TypeOK /\ Operate => TypeOK'
<1>. SUFFICES ASSUME TypeOK, Operate PROVE TypeOK'
  OBVIOUS
<1>1. ASSUME NEW req \in Requests, NEW p \in Priorities, CreateMission(req, p)
      PROVE  TypeOK'
  <2>1. PICK m \in Fresh : missions' = [missions EXCEPT
                                          ![m] = NewMission(req, p, NoSchedule)]
    BY <1>1 DEF CreateMission
  <2>2. NewMission(req, p, NoSchedule) \in Mission
    BY NewRecords, DispatchAssumption
  <2>3. missions' \in [Missions -> Mission]
    BY <2>1, <2>2 DEF TypeOK
  <2>. QED BY <1>1, <2>3 DEF CreateMission, TypeOK
<1>2. ASSUME NEW m \in Missions, NEW p \in BOOLEAN, PauseMission(m, p)
      PROVE  TypeOK'
  <2>1. missions' \in [Missions -> Mission]
    BY <1>2 DEF PauseMission, TypeOK, Mission
  <2>2. orders' \in [OrderIds -> Order]
    <3>1. CASE orders' = orders
      BY <3>1 DEF TypeOK
    <3>2. CASE orders' # orders
      <4>1. PICK n \in FreeExtra : orders' = [orders EXCEPT ![<<"extra", n>>] =
                   NewOrder(IF p THEN "pause" ELSE "resume",
                            missions[m].robot, m)]
        BY <1>2, <3>2 DEF PauseMission
      <4>2. NewOrder(IF p THEN "pause" ELSE "resume", missions[m].robot, m)
              \in Order
        BY NewRecords DEF TypeOK, Mission, OrderKind
      <4>. QED BY <4>1, <4>2 DEF TypeOK
    <3>. QED BY <3>1, <3>2
  <2>. QED BY <1>2, <2>1, <2>2 DEF PauseMission, TypeOK
<1>3. ASSUME NEW m \in Missions, AbortMission(m)
      PROVE  TypeOK'
  <2>1. missions' \in [Missions -> Mission]
    BY <1>3 DEF AbortMission, TypeOK, Mission, MissionStatus
  <2>2. orders' \in [OrderIds -> Order]
    BY <1>3, AbortOrdersType DEF AbortMission, TypeOK
  <2>3. pin' \in [Robots -> Missions \cup {NoMission}]
    BY <1>3 DEF AbortMission, TypeOK, Unpinned
  <2>. QED BY <1>3, <2>1, <2>2, <2>3 DEF AbortMission, TypeOK
<1>4. ASSUME NEW r \in Robots, TeleopGoto(r)
      PROVE  TypeOK'
  <2>1. PICK n \in FreeExtra :
          orders' = [orders EXCEPT
                      ![<<"extra", n>>] = NewOrder("goto", r, NoMission)]
    BY <1>4 DEF TeleopGoto
  <2>2. NewOrder("goto", r, NoMission) \in Order
    BY NewRecords DEF OrderKind
  <2>3. orders' \in [OrderIds -> Order]
    BY <2>1, <2>2 DEF TypeOK
  <2>. QED BY <1>4, <2>3 DEF TeleopGoto, TypeOK
<1>5. ASSUME NEW r \in Robots, NEW c \in Commands, Command(r, c)
      PROVE  TypeOK'
  <2>1. CASE TeleopGoto(r)
    BY <1>4, <2>1
  <2>2. CASE pin[r] # NoMission /\ PauseMission(pin[r], c = "pause")
    BY <1>2, <2>2 DEF TypeOK
  <2>3. CASE pin[r] # NoMission /\ AbortMission(pin[r])
    BY <1>3, <2>3 DEF TypeOK
  <2>. QED BY <1>5, <2>1, <2>2, <2>3 DEF Command
<1>. QED BY <1>1, <1>2, <1>3, <1>4, <1>5 DEF Operate

LEMMA AdaptType == TypeOK /\ Adapt => TypeOK'
<1>. SUFFICES ASSUME TypeOK, Adapt PROVE TypeOK'
  OBVIOUS
<1>1. ASSUME NEW r \in Robots, PullOrders(r) PROVE TypeOK'
  BY <1>1 DEF PullOrders, TypeOK, Order, OrderState
<1>2. ASSUME NEW o \in OrderIds, NEW outcome \in {"done", "failed"},
             SetOrderStatus(o, outcome)
      PROVE  TypeOK'
  <2>1. orders' \in [OrderIds -> Order]
    BY <1>2 DEF SetOrderStatus, TypeOK, Order, OrderState
  <2>2. /\ missions' \in [Missions -> Mission]
        /\ pin' \in [Robots -> Missions \cup {NoMission}]
    BY <1>2 DEF SetOrderStatus, TypeOK, Mission, MissionStatus, Unpinned
  <2>. QED BY <1>2, <2>1, <2>2 DEF SetOrderStatus, TypeOK
<1>3. ASSUME NEW r \in Robots, NEW l \in {"state-only", "dispatchable"},
             RegisterExternal(r, l)
      PROVE  TypeOK'
  BY <1>3, DispatchAssumption DEF RegisterExternal, TypeOK
<1>4. ASSUME NEW r \in Robots, NEW b \in BatteryLevels, IngestState(r, b)
      PROVE  TypeOK'
  BY <1>4 DEF IngestState, TypeOK
<1>. QED BY <1>1, <1>2, <1>3, <1>4 DEF Adapt

LEMMA PlanType == TypeOK /\ Plan => TypeOK'
<1>. SUFFICES ASSUME TypeOK, Plan PROVE TypeOK'
  OBVIOUS
<1>1. ASSUME NEW s \in Schedules, NEW req \in Requests, NEW p \in Priorities,
             NEW once \in BOOLEAN, CreateSchedule(s, req, p, once)
      PROVE  TypeOK'
  BY <1>1, DispatchAssumption DEF CreateSchedule, TypeOK, Schedule
<1>2. ASSUME NEW s \in Schedules, NEW e \in BOOLEAN, NEW req \in Requests,
             NEW p \in Priorities,
             NEW c \in {"keep", "recurring", "once", "past"},
             PatchSchedule(s, e, req, p, c)
      PROVE  TypeOK'
  <2>1. schedules[s] \in Schedule
    BY DEF TypeOK
  <2>2. (IF c = "keep" THEN schedules[s].once ELSE c # "recurring") \in BOOLEAN
    BY <2>1, Zenon DEF Schedule
  <2>3. Patched(schedules[s], e, req, p, c) \in Schedule
    <3>1. (IF c = "keep" THEN schedules[s].nextRun
           ELSE IF c = "past" THEN "none" ELSE "later")
             \in {"none", "later", "due"}
      BY <2>1 DEF Schedule
    <3>. QED BY <2>1, <2>2, <3>1, DispatchAssumption DEF Patched, Schedule
  <2>4. schedules' = [schedules EXCEPT
                        ![s] = Patched(schedules[s], e, req, p, c)]
    BY <1>2 DEF PatchSchedule
  <2>5. schedules' \in [Schedules -> Schedule]
    BY <2>3, <2>4 DEF TypeOK
  <2>. QED BY <1>2, <2>5 DEF PatchSchedule, TypeOK
<1>3. ASSUME NEW S \in SUBSET Schedules, DeleteSchedules(S)
      PROVE  TypeOK'
  BY <1>3 DEF DeleteSchedules, TypeOK, Schedule, NoScheduleYet
<1>. QED BY <1>1, <1>2, <1>3 DEF Plan

LEMMA ElapseType == TypeOK /\ Elapse => TypeOK'
<1>. SUFFICES ASSUME TypeOK, Elapse PROVE TypeOK'
  OBVIOUS
<1>1. CASE Tick
  <2>1. PICK f \in NewRunIds : \E a \in Assignments(MissionsAfterSchedules(f)) :
                                 Dispatched(MissionsAfterSchedules(f), a)
    BY <1>1 DEF Tick
  <2>2. /\ missions' \in [Missions -> Mission]
        /\ orders' \in [OrderIds -> Order]
        /\ pin' \in [Robots -> Missions \cup {NoMission}]
    BY <2>1, SchedulesGiveRuns, DispatchedType
  <2>3. schedules' \in [Schedules -> Schedule]
    BY <1>1 DEF Tick, SchedulesAfterTick, TypeOK, Schedule
  <2>. QED BY <1>1, <2>2, <2>3 DEF Tick, TypeOK
<1>2. ASSUME NEW s \in Schedules, ScheduleComesDue(s) PROVE TypeOK'
  BY <1>2 DEF ScheduleComesDue, TypeOK, Schedule
<1>3. ASSUME NEW r \in Robots, GoesStale(r) PROVE TypeOK'
  BY <1>3 DEF GoesStale, TypeOK
<1>4. ASSUME NEW stale \in SUBSET Missions, SweepStaleRuns(stale)
      PROVE  TypeOK'
  BY <1>4 DEF SweepStaleRuns, TypeOK, Mission, MissionStatus, Unpinned
<1>. QED BY <1>1, <1>2, <1>3, <1>4 DEF Elapse

LEMMA TornType ==
  ASSUME TypeOK, Torn, controlLocks' \in [Robots -> SessionIds \cup {NoSession}]
  PROVE  TypeOK'
<1>. missions \in [Missions -> Mission] /\ orders \in [OrderIds -> Order]
  BY DEF TypeOK
<1>1. ASSUME NEW m \in Missions, NEW r \in Robots, TornDispatch(m, r)
      PROVE  TypeOK'
  <2>1. [missions EXCEPT ![m].status = "active", ![m].robot = r]
          \in [Missions -> Mission]
    BY DEF Mission, MissionStatus
  <2>. QED BY <1>1, <2>1, HydrateType DEF TornDispatch
<1>2. ASSUME NEW o \in OrderIds, NEW outcome \in {"done", "failed"},
             TornSettle(o, outcome)
      PROVE  TypeOK'
  <2>1. [orders EXCEPT ![o].state = outcome] \in [OrderIds -> Order]
    BY DEF Order, OrderState
  <2>. QED BY <1>2, <2>1, HydrateType DEF TornSettle
<1>3. ASSUME NEW m \in Missions, TornAbort(m)
      PROVE  TypeOK'
  <2>1. OrdersAfterCancel({m}) \in [OrderIds -> Order]
    BY AbortOrdersType
  <2>. QED BY <1>3, <2>1, HydrateType DEF TornAbort
<1>4. ASSUME NEW s \in Schedules, TornFiring(s)
      PROVE  TypeOK'
  <2>1. PICK m \in Fresh :
          Hydrate([missions EXCEPT ![m] = NewMission(schedules[s].requested,
                                      schedules[s].priority, NoSchedule)],
                  orders)
    BY <1>4 DEF TornFiring
  <2>2. NewMission(schedules[s].requested, schedules[s].priority, NoSchedule)
          \in Mission
    BY DEF NewMission, Mission, MissionStatus, TypeOK, Schedule
  <2>. QED BY <2>1, <2>2, HydrateType DEF Fresh
<1>. QED BY <1>1, <1>2, <1>3, <1>4 DEF Torn

\* Every handler, every crash and every restart keeps every table well typed.
LEMMA NextType == TypeOK /\ [Next]_vars => TypeOK'
<1>. SUFFICES ASSUME TypeOK, [Next]_vars PROVE TypeOK'
  OBVIOUS
<1>1. CASE SteadyNext
  BY <1>1, OperateType, AdaptType, PlanType, ElapseType DEF SteadyNext
<1>2. ASSUME NEW r \in Robots, RemoveExternal(r) PROVE TypeOK'
  BY <1>2 DEF RemoveExternal, TypeOK
<1>3. CASE Restart /\ UNCHANGED controlLocks
  BY <1>3, HydrateType DEF Restart, TypeOK
<1>4. CASE Torn /\ UNCHANGED controlLocks
  BY <1>4, TornType DEF TypeOK
<1>5. CASE UNCHANGED vars
  BY <1>5 DEF vars, TypeOK
<1>. QED BY <1>1, <1>2, <1>3, <1>4, <1>5 DEF Next, CleanNext

\* The tables of server/src/world.ts stay well typed in every reachable state.
THEOREM TypeCorrect == Spec => []TypeOK
  BY InitType, NextType, PTL DEF Spec

-----------------------------------------------------------------------------
(* The robot a run holds: nav.missionId and the active run agree.          *)

\* Firing schedules only fills run identities nobody used yet.
LEMMA SchedulesKeepRuns ==
  ASSUME TypeOK, NEW f \in NewRunIds, NEW m \in Missions
  PROVE  LET ms == MissionsAfterSchedules(f)
         IN  /\ missions[m].status # "none" => ms[m] = missions[m]
             /\ ms[m] # missions[m] => ms[m].status = "queued"
  BY DEF MissionsAfterSchedules, NewRunIds, Fresh, NewMission

\* A run the dispatcher hands out goes to a robot it may have, and no robot
\* gets two runs in one tick.
LEMMA AssignmentsAreDisjoint ==
  ASSUME NEW ms \in [Missions -> Mission], NEW a \in Assignments(ms),
         NEW m \in Assigned(ms, a)
  PROVE  /\ m \in Missions /\ ms[m].status = "queued"
         /\ a[m] \in Robots /\ Eligible(ms, m, a[m])
         /\ \A n \in Assigned(ms, a) : a[n] = a[m] => n = m
<1>1. /\ m \in Queued(ms) /\ a[m] # NoRobot
      /\ \A n \in Assigned(ms, a) : n \in Queued(ms) /\ a[n] # NoRobot
  BY DEF Assigned
<1>2. \A n \in Queued(ms) : n \in Missions /\ ms[n].status = "queued"
  BY DEF Queued
<1>3. ASSUME NEW n \in Queued(ms), a[n] # NoRobot
      PROVE  /\ a[n] \in Robots /\ Eligible(ms, n, a[n])
             /\ \A k \in Queued(ms) : Before(k, n, ms) => a[k] # a[n]
  BY <1>3 DEF Assignments
<1>4. \A n \in Queued(ms) : n # m => Before(n, m, ms) \/ Before(m, n, ms)
  <2>1. \A n \in Missions : n \in Int
    BY DispatchAssumption DEF Missions
  <2>2. \A n \in Missions : ms[n].priority \in Int
    <3>1. \A n \in Missions : ms[n].priority \in Priorities \cup {0}
      BY DEF Mission
    <3>2. Priorities \cup {0} \subseteq Int
      BY DispatchAssumption
    <3>. QED BY <3>1, <3>2
  <2>. QED BY <1>1, <1>2, <2>1, <2>2 DEF Before
<1>. QED BY <1>1, <1>2, <1>3, <1>4

LEMMA PinnedDispatched ==
  ASSUME TypeOK, PinnedRunIsActive, Tick
  PROVE  PinnedRunIsActive'
<1>1. PICK f \in NewRunIds : \E a \in Assignments(MissionsAfterSchedules(f)) :
                               Dispatched(MissionsAfterSchedules(f), a)
  BY DEF Tick
<1>. DEFINE ms == MissionsAfterSchedules(f)
<1>2. PICK a \in Assignments(ms) : Dispatched(ms, a)
  BY <1>1
<1>3. ms \in [Missions -> Mission]
  BY SchedulesGiveRuns
<1>. SUFFICES ASSUME NEW r \in Robots, pin'[r] # NoMission
              PROVE  /\ level'[r] # "absent"
                     /\ missions'[pin'[r]].status = "active"
                     /\ missions'[pin'[r]].robot = r
  BY DEF PinnedRunIsActive
<1>4. CASE \E m \in Assigned(ms, a) : a[m] = r
  <2>1. PICK m \in Assigned(ms, a) : a[m] = r /\ pin'[r] = m
    BY <1>2, <1>4 DEF Dispatched
  <2>2. missions'[m].status = "active" /\ missions'[m].robot = r
    BY <1>2, <1>3, <2>1, AssignmentsAreDisjoint DEF Dispatched, Mission
  <2>3. level[r] = "dispatchable"
    BY <1>3, <2>1, AssignmentsAreDisjoint DEF Eligible
  <2>. QED BY <2>1, <2>2, <2>3 DEF Tick
<1>5. CASE ~\E m \in Assigned(ms, a) : a[m] = r
  <2>1. pin'[r] = pin[r]
    BY <1>2, <1>5 DEF Dispatched
  <2>2. /\ level[r] # "absent" /\ pin[r] \in Missions
        /\ missions[pin[r]].status = "active" /\ missions[pin[r]].robot = r
    BY <2>1 DEF PinnedRunIsActive, TypeOK
  <2>3. ms[pin[r]] = missions[pin[r]]
    BY <2>2, SchedulesKeepRuns
  <2>4. pin[r] \notin Assigned(ms, a)
    BY <1>3, <2>2, <2>3, AssignmentsAreDisjoint
  <2>5. missions'[pin[r]] = missions[pin[r]]
    BY <1>2, <2>2, <2>3, <2>4 DEF Dispatched
  <2>. QED BY <2>1, <2>2, <2>5 DEF Tick
<1>. QED BY <1>4, <1>5

LEMMA PinnedSteady ==
  ASSUME TypeOK, PinnedRunIsActive, SteadyNext
  PROVE  PinnedRunIsActive'
<1>1. ASSUME NEW m \in Missions, NEW p \in BOOLEAN, PauseMission(m, p)
      PROVE  PinnedRunIsActive'
  BY <1>1 DEF PauseMission, PinnedRunIsActive, TypeOK, Mission
<1>2. ASSUME NEW m \in Missions, AbortMission(m)
      PROVE  PinnedRunIsActive'
  BY <1>2 DEF AbortMission, PinnedRunIsActive, Unpinned, TypeOK, Mission
<1>3. ASSUME NEW r \in Robots, TeleopGoto(r)
      PROVE  PinnedRunIsActive'
  BY <1>3 DEF TeleopGoto, PinnedRunIsActive
<1>4. CASE Operate
  <2>1. ASSUME NEW req \in Requests, NEW p \in Priorities,
               CreateMission(req, p)
        PROVE  PinnedRunIsActive'
    BY <2>1 DEF CreateMission, Fresh, PinnedRunIsActive, TypeOK
  <2>2. ASSUME NEW r \in Robots, NEW c \in Commands, Command(r, c)
        PROVE  PinnedRunIsActive'
    BY <2>2, <1>1, <1>2, <1>3 DEF Command, TypeOK
  <2>. QED BY <1>4, <1>1, <1>2, <1>3, <2>1, <2>2 DEF Operate
<1>5. CASE Adapt
  <2>1. ASSUME NEW r \in Robots, PullOrders(r)
        PROVE  PinnedRunIsActive'
    BY <2>1 DEF PullOrders, PinnedRunIsActive
  <2>2. ASSUME NEW o \in OrderIds, NEW outcome \in {"done", "failed"},
               SetOrderStatus(o, outcome)
        PROVE  PinnedRunIsActive'
    BY <2>2 DEF SetOrderStatus, PinnedRunIsActive, Unpinned, TypeOK, Mission
  <2>3. ASSUME NEW r \in Robots, NEW l \in {"state-only", "dispatchable"},
               RegisterExternal(r, l)
        PROVE  PinnedRunIsActive'
    BY <2>3 DEF RegisterExternal, PinnedRunIsActive, TypeOK
  <2>4. ASSUME NEW r \in Robots, NEW b \in BatteryLevels, IngestState(r, b)
        PROVE  PinnedRunIsActive'
    BY <2>4 DEF IngestState, PinnedRunIsActive
  <2>. QED BY <1>5, <2>1, <2>2, <2>3, <2>4 DEF Adapt
<1>6. CASE Plan
  BY <1>6 DEF Plan, CreateSchedule, PatchSchedule, DeleteSchedules,
              PinnedRunIsActive
<1>7. CASE Elapse
  <2>1. ASSUME NEW s \in Schedules, ScheduleComesDue(s)
        PROVE  PinnedRunIsActive'
    BY <2>1 DEF ScheduleComesDue, PinnedRunIsActive
  <2>2. ASSUME NEW r \in Robots, GoesStale(r)
        PROVE  PinnedRunIsActive'
    BY <2>2 DEF GoesStale, PinnedRunIsActive
  <2>3. ASSUME NEW stale \in SUBSET Missions, SweepStaleRuns(stale)
        PROVE  PinnedRunIsActive'
    BY <2>3 DEF SweepStaleRuns, PinnedRunIsActive, Unpinned, TypeOK, Mission
  <2>. QED BY <1>7, <2>1, <2>2, <2>3, PinnedDispatched DEF Elapse
<1>. QED BY <1>4, <1>5, <1>6, <1>7 DEF SteadyNext

\* A robot-scoped pause or abort reaches the run the robot carries, in every
\* reachable state: nav.missionId is released wherever a run ends, moves or
\* loses its robot.
THEOREM PinnedCorrect == Spec => []PinnedRunIsActive
<1>1. Init => PinnedRunIsActive
  BY DEF Init, PinnedRunIsActive
<1>2. TypeOK /\ PinnedRunIsActive /\ [Next]_vars => PinnedRunIsActive'
  <2>. SUFFICES ASSUME TypeOK, PinnedRunIsActive, [Next]_vars
                PROVE  PinnedRunIsActive'
    OBVIOUS
  <2>1. CASE SteadyNext
    BY <2>1, PinnedSteady
  <2>2. ASSUME NEW r \in Robots, RemoveExternal(r)
        PROVE  PinnedRunIsActive'
    BY <2>2 DEF RemoveExternal, PinnedRunIsActive, TypeOK
  <2>3. CASE Restart \/ Torn
    <3>1. pin' = [r \in Robots |-> NoMission]
      BY <2>3 DEF Restart, Torn, TornDispatch, TornSettle, TornAbort,
                  TornFiring, Hydrate
    <3>. QED BY <3>1 DEF PinnedRunIsActive
  <2>4. CASE UNCHANGED vars
    BY <2>4 DEF vars, PinnedRunIsActive
  <2>. QED BY <2>1, <2>2, <2>3, <2>4 DEF Next, CleanNext
<1>. QED BY <1>1, <1>2, TypeCorrect, PTL DEF Spec

-----------------------------------------------------------------------------
(* One run per robot, while no crash or deregistration loses a pin.        *)

\* The converse of PinnedRunIsActive: the robot of every active run knows it.
ActiveRunIsPinned ==
  \A m \in Missions : missions[m].status = "active" =>
    missions[m].robot \in Robots /\ pin[missions[m].robot] = m

LEMMA ActiveDispatched ==
  ASSUME TypeOK, ActiveRunIsPinned, Tick
  PROVE  ActiveRunIsPinned'
<1>1. PICK f \in NewRunIds : \E a \in Assignments(MissionsAfterSchedules(f)) :
                               Dispatched(MissionsAfterSchedules(f), a)
  BY DEF Tick
<1>. DEFINE ms == MissionsAfterSchedules(f)
<1>2. PICK a \in Assignments(ms) : Dispatched(ms, a)
  BY <1>1
<1>3. ms \in [Missions -> Mission]
  BY SchedulesGiveRuns
<1>. SUFFICES ASSUME NEW m \in Missions, missions'[m].status = "active"
              PROVE  /\ missions'[m].robot \in Robots
                     /\ pin'[missions'[m].robot] = m
  BY DEF ActiveRunIsPinned
<1>4. CASE m \in Assigned(ms, a)
  <2>1. a[m] \in Robots /\ \A n \in Assigned(ms, a) : a[n] = a[m] => n = m
    BY <1>3, <1>4, AssignmentsAreDisjoint
  <2>2. missions'[m].robot = a[m]
    BY <1>2, <1>3, <1>4 DEF Dispatched, Mission
  <2>3. pin'[a[m]] = m
    BY <1>2, <1>4, <2>1 DEF Dispatched
  <2>. QED BY <2>1, <2>2, <2>3
<1>5. CASE m \notin Assigned(ms, a)
  <2>1. missions'[m] = ms[m]
    BY <1>2, <1>5 DEF Dispatched
  <2>2. missions'[m] = missions[m]
    BY <2>1, SchedulesKeepRuns
  <2>3. missions[m].robot \in Robots /\ pin[missions[m].robot] = m
    BY <2>2 DEF ActiveRunIsPinned
  <2>4. ~\E n \in Assigned(ms, a) : a[n] = missions[m].robot
    BY <1>3, <2>3, AssignmentsAreDisjoint, DispatchAssumption DEF Eligible
  <2>5. pin'[missions[m].robot] = m
    BY <1>2, <2>3, <2>4 DEF Dispatched
  <2>. QED BY <2>2, <2>3, <2>5
<1>. QED BY <1>4, <1>5

LEMMA ActiveSteady ==
  ASSUME TypeOK, ActiveRunIsPinned, [SteadyNext]_vars
  PROVE  ActiveRunIsPinned'
<1>1. ASSUME NEW m \in Missions, NEW p \in BOOLEAN, PauseMission(m, p)
      PROVE  ActiveRunIsPinned'
  BY <1>1 DEF PauseMission, ActiveRunIsPinned, TypeOK, Mission
<1>2. ASSUME NEW m \in Missions, AbortMission(m)
      PROVE  ActiveRunIsPinned'
  BY <1>2 DEF AbortMission, ActiveRunIsPinned, Unpinned, TypeOK, Mission
<1>3. ASSUME NEW r \in Robots, TeleopGoto(r)
      PROVE  ActiveRunIsPinned'
  BY <1>3 DEF TeleopGoto, ActiveRunIsPinned
<1>4. CASE Operate
  <2>1. ASSUME NEW req \in Requests, NEW p \in Priorities,
               CreateMission(req, p)
        PROVE  ActiveRunIsPinned'
    BY <2>1 DEF CreateMission, NewMission, ActiveRunIsPinned, TypeOK, Mission
  <2>2. ASSUME NEW r \in Robots, NEW c \in Commands, Command(r, c)
        PROVE  ActiveRunIsPinned'
    BY <2>2, <1>1, <1>2, <1>3 DEF Command, TypeOK
  <2>. QED BY <1>4, <1>1, <1>2, <1>3, <2>1, <2>2 DEF Operate
<1>5. CASE Adapt
  <2>1. ASSUME NEW o \in OrderIds, NEW outcome \in {"done", "failed"},
               SetOrderStatus(o, outcome)
        PROVE  ActiveRunIsPinned'
    BY <2>1 DEF SetOrderStatus, ActiveRunIsPinned, Unpinned, TypeOK, Mission
  <2>. QED BY <1>5, <2>1 DEF Adapt, PullOrders, RegisterExternal, IngestState,
                             ActiveRunIsPinned
<1>6. CASE Plan
  BY <1>6 DEF Plan, CreateSchedule, PatchSchedule, DeleteSchedules,
              ActiveRunIsPinned
<1>7. CASE Elapse
  <2>1. ASSUME NEW stale \in SUBSET Missions, SweepStaleRuns(stale)
        PROVE  ActiveRunIsPinned'
    BY <2>1 DEF SweepStaleRuns, ActiveRunIsPinned, Unpinned, TypeOK, Mission
  <2>. QED BY <1>7, <2>1, ActiveDispatched
           DEF Elapse, ScheduleComesDue, GoesStale, ActiveRunIsPinned
<1>8. CASE UNCHANGED vars
  BY <1>8 DEF vars, ActiveRunIsPinned
<1>. QED BY <1>4, <1>5, <1>6, <1>7, <1>8 DEF SteadyNext

\* SteadySpec takes some of the steps of Spec.
LEMMA SteadyTypeCorrect == SteadySpec => []TypeOK
<1>1. [SteadyNext]_vars => [Next]_vars
  BY DEF Next, CleanNext
<1>. QED BY <1>1, InitType, NextType, PTL DEF SteadySpec

\* The dispatcher never gives a robot a second run while it carries one, for
\* any number of robots, runs and schedules, as long as the platform neither
\* restarts nor loses the robot's registration.
THEOREM SteadyNeverDoubleBooks == SteadySpec => []NeverDoubleBooked
<1>1. Init => ActiveRunIsPinned
  BY DEF Init, ActiveRunIsPinned, NoMissionYet
<1>2. ActiveRunIsPinned => NeverDoubleBooked
  BY DEF ActiveRunIsPinned, NeverDoubleBooked
<1>. QED BY <1>1, <1>2, ActiveSteady, SteadyTypeCorrect, PTL DEF SteadySpec

-----------------------------------------------------------------------------
(* One open run per schedule.                                              *)

LEMMA ScheduleFires ==
  ASSUME TypeOK, OneOpenRunPerSchedule, Tick
  PROVE  OneOpenRunPerSchedule'
<1>1. PICK f \in NewRunIds : \E a \in Assignments(MissionsAfterSchedules(f)) :
                               Dispatched(MissionsAfterSchedules(f), a)
  BY DEF Tick
<1>. DEFINE ms == MissionsAfterSchedules(f)
            open == {"queued", "active"}
<1>2. PICK a \in Assignments(ms) : Dispatched(ms, a)
  BY <1>1
<1>3. ms \in [Missions -> Mission]
  BY SchedulesGiveRuns
<1>4. ASSUME NEW m \in Missions
      PROVE  /\ missions'[m].schedule = ms[m].schedule
             /\ missions'[m].status \in open => ms[m].status \in open
  <2>1. CASE m \in Assigned(ms, a)
    <3>1. ms[m].status = "queued"
      BY <1>3, <2>1, AssignmentsAreDisjoint
    <3>. QED BY <1>2, <1>3, <2>1, <3>1 DEF Dispatched, Mission
  <2>2. CASE m \notin Assigned(ms, a)
    BY <1>2, <2>2 DEF Dispatched
  <2>. QED BY <2>1, <2>2
<1>5. ASSUME NEW m \in Missions, ms[m] # missions[m]
      PROVE  \E s \in Firing : f[s] = m /\ ms[m].schedule = s
  BY <1>5 DEF MissionsAfterSchedules, NewMission
<1>6. ASSUME NEW m \in Missions, NEW n \in Missions,
             ms[m].schedule # NoSchedule, ms[m].schedule = ms[n].schedule,
             ms[m].status \in open, ms[n].status \in open,
             ms[m] # missions[m]
      PROVE  m = n
  <2>1. PICK s \in Firing : f[s] = m /\ ms[m].schedule = s
    BY <1>5, <1>6
  <2>2. CASE ms[n] # missions[n]
    <3>1. PICK t \in Firing : f[t] = n /\ ms[n].schedule = t
      BY <1>5, <2>2
    <3>2. t = s
      BY <1>6, <2>1, <3>1
    <3>. QED BY <2>1, <3>1, <3>2
  <2>3. CASE ms[n] = missions[n]
    BY <1>6, <2>1, <2>3 DEF Firing, OpenRun
  <2>. QED BY <2>2, <2>3
<1>7. ASSUME NEW m \in Missions, NEW n \in Missions,
             ms[m].schedule # NoSchedule, ms[m].schedule = ms[n].schedule,
             ms[m].status \in open, ms[n].status \in open
      PROVE  m = n
  <2>1. CASE ms[m] = missions[m] /\ ms[n] = missions[n]
    BY <1>7, <2>1 DEF OneOpenRunPerSchedule
  <2>. QED BY <1>6, <1>7, <2>1
<1>. QED BY <1>4, <1>7 DEF OneOpenRunPerSchedule

\* A step that gives no run a schedule and reopens no run keeps the promise.
LEMMA RunsOnlyClose ==
  ASSUME OneOpenRunPerSchedule,
         \A m \in Missions :
           missions'[m].schedule # NoSchedule =>
             /\ missions'[m].schedule = missions[m].schedule
             /\ missions'[m].status \in {"queued", "active"} =>
                  missions[m].status \in {"queued", "active"}
  PROVE  OneOpenRunPerSchedule'
  BY DEF OneOpenRunPerSchedule

LEMMA HydrateCloses ==
  ASSUME TypeOK, NEW ms \in [Missions -> Mission], NEW os,
         Hydrate(ms, os), OneOpenRunPerSchedule,
         \A m \in Missions :
           ms[m].schedule # NoSchedule =>
             /\ ms[m].schedule = missions[m].schedule
             /\ ms[m].status \in {"queued", "active"} =>
                  missions[m].status \in {"queued", "active"}
  PROVE  OneOpenRunPerSchedule'
<1>1. \A m \in Missions : /\ missions'[m].schedule = ms[m].schedule
                          /\ missions'[m].status \in {"queued", "active"} =>
                               ms[m].status \in {"queued", "active"}
  BY DEF Hydrate, Mission
<1>. QED BY <1>1, RunsOnlyClose

\* A schedule never has two open runs, whatever is deferred, patched, deleted
\* or lost in a crash.
THEOREM ScheduleCorrect == Spec => []OneOpenRunPerSchedule
<1>1. Init => OneOpenRunPerSchedule
  BY DEF Init, OneOpenRunPerSchedule, NoMissionYet
<1>2. TypeOK /\ OneOpenRunPerSchedule /\ [Next]_vars => OneOpenRunPerSchedule'
  <2>. SUFFICES ASSUME TypeOK, OneOpenRunPerSchedule, [Next]_vars
                PROVE  OneOpenRunPerSchedule'
    OBVIOUS
  <2>. missions \in [Missions -> Mission] /\ orders \in [OrderIds -> Order]
    BY DEF TypeOK
  <2>1. ASSUME NEW m \in Missions, NEW p \in BOOLEAN, PauseMission(m, p)
        PROVE  OneOpenRunPerSchedule'
    BY <2>1, RunsOnlyClose DEF PauseMission, Mission
  <2>2. ASSUME NEW m \in Missions, AbortMission(m)
        PROVE  OneOpenRunPerSchedule'
    BY <2>2, RunsOnlyClose DEF AbortMission, Mission
  <2>3. ASSUME NEW req \in Requests, NEW p \in Priorities,
               CreateMission(req, p)
        PROVE  OneOpenRunPerSchedule'
    BY <2>3, RunsOnlyClose DEF CreateMission, NewMission, Mission
  <2>4. ASSUME NEW r \in Robots, NEW c \in Commands, Command(r, c)
        PROVE  OneOpenRunPerSchedule'
    <3>1. CASE TeleopGoto(r)
      BY <3>1 DEF TeleopGoto, OneOpenRunPerSchedule
    <3>. QED BY <2>1, <2>2, <2>4, <3>1 DEF Command, TypeOK
  <2>5. CASE Operate
    BY <2>1, <2>2, <2>3, <2>4, <2>5
       DEF Operate, TeleopGoto, OneOpenRunPerSchedule
  <2>6. CASE Adapt
    <3>1. ASSUME NEW o \in OrderIds, NEW outcome \in {"done", "failed"},
                 SetOrderStatus(o, outcome)
          PROVE  OneOpenRunPerSchedule'
      BY <3>1, RunsOnlyClose DEF SetOrderStatus, Settles, Mission
    <3>. QED BY <2>6, <3>1 DEF Adapt, PullOrders, RegisterExternal,
                               IngestState, OneOpenRunPerSchedule
  <2>7. CASE Plan
    BY <2>7 DEF Plan, CreateSchedule, PatchSchedule, DeleteSchedules,
                OneOpenRunPerSchedule
  <2>8. CASE Elapse
    <3>1. ASSUME NEW stale \in SUBSET Missions, SweepStaleRuns(stale)
          PROVE  OneOpenRunPerSchedule'
      BY <3>1, RunsOnlyClose DEF SweepStaleRuns, Mission
    <3>. QED BY <2>8, <3>1, ScheduleFires
             DEF Elapse, ScheduleComesDue, GoesStale, OneOpenRunPerSchedule
  <2>9. CASE Restart
    BY <2>9, HydrateCloses DEF Restart
  <2>10. ASSUME NEW m \in Missions, NEW r \in Robots, TornDispatch(m, r)
         PROVE  OneOpenRunPerSchedule'
    <3>. DEFINE ms == [missions EXCEPT ![m].status = "active", ![m].robot = r]
    <3>1. ms \in [Missions -> Mission] /\ missions[m].status = "queued"
      BY <2>10 DEF Mission, MissionStatus, TornDispatch
    <3>2. \A n \in Missions : /\ ms[n].schedule = missions[n].schedule
                              /\ n # m => ms[n].status = missions[n].status
      BY DEF Mission
    <3>3. Hydrate(ms, orders)
      BY <2>10 DEF TornDispatch
    <3>. HIDE DEF ms
    <3>. QED BY <3>1, <3>2, <3>3, HydrateCloses
  <2>11. ASSUME NEW o \in OrderIds, NEW outcome \in {"done", "failed"},
                TornSettle(o, outcome)
         PROVE  OneOpenRunPerSchedule'
    BY <2>11, HydrateCloses DEF TornSettle
  <2>12. ASSUME NEW m \in Missions, TornAbort(m)
         PROVE  OneOpenRunPerSchedule'
    BY <2>12, HydrateCloses DEF TornAbort
  <2>13. ASSUME NEW s \in Schedules, TornFiring(s)
         PROVE  OneOpenRunPerSchedule'
    <3>1. PICK m \in Missions :
            Hydrate([missions EXCEPT ![m] = NewMission(schedules[s].requested,
                                        schedules[s].priority, NoSchedule)],
                    orders)
      BY <2>13 DEF TornFiring, Fresh
    <3>. DEFINE new == NewMission(schedules[s].requested,
                                  schedules[s].priority, NoSchedule)
                ms == [missions EXCEPT ![m] = new]
    <3>2. new \in Mission /\ new.schedule = NoSchedule
      BY DEF NewMission, Mission, MissionStatus, TypeOK, Schedule
    <3>3. /\ ms \in [Missions -> Mission]
          /\ \A n \in Missions : ms[n].schedule # NoSchedule =>
                                   ms[n] = missions[n]
      BY <3>2
    <3>4. Hydrate(ms, orders)
      BY <3>1
    <3>. HIDE DEF ms, new
    <3>. QED BY <3>3, <3>4, HydrateCloses
  <2>14. CASE UNCHANGED vars \/ \E r \in Robots : RemoveExternal(r)
    BY <2>14 DEF vars, RemoveExternal, OneOpenRunPerSchedule
  <2>. QED BY <2>5, <2>6, <2>7, <2>8, <2>9, <2>10, <2>11, <2>12, <2>13, <2>14
           DEF Next, CleanNext, SteadyNext, Torn
<1>. QED BY <1>1, <1>2, TypeCorrect, PTL DEF Spec

-----------------------------------------------------------------------------
(* How runs and orders end.                                                *)

\* A run has no order before it is dispatched and no abort order before it is
\* aborted: that is what makes an order's identity free when it is enqueued.
UntouchedOrders ==
  \A m \in Missions :
    /\ missions[m].status \in {"none", "queued"} =>
         orders[<<"mission", m>>].state = "none"
    /\ missions[m].status \in {"none", "queued", "active"} =>
         orders[<<"abort", m>>].state = "none"

\* What one step does to runs and orders, as far as their ends go.
Ends == {"done", "failed"}
RunsAdvance(ms) ==
  \A m \in Missions :
    /\ ms[m].status # missions[m].status =>
         missions[m].status \in {"none", "queued", "active"}
    /\ ms[m].status \in {"none", "queued"} =>
         missions[m].status \in {"none", "queued"}
    /\ ms[m].status = "active" =>
         missions[m].status \in {"none", "queued", "active"}
OrdersAdvance(os) ==
  \A o \in OrderIds : os[o].state # orders[o].state =>
                        orders[o].state \in {"none", "pending", "acked"}

LEMMA AdvanceKeepsEnds ==
  ASSUME RunsAdvance(missions'), OrdersAdvance(orders')
  PROVE  EndsKept
  BY DEF RunsAdvance, OrdersAdvance, EndsKept

\* The identities of orders.
LEMMA OrderNames ==
  /\ \A m \in Missions : /\ <<"mission", m>> \in OrderIds
                         /\ <<"abort", m>> \in OrderIds
  /\ \A n \in 1..MaxExtra : <<"extra", n>> \in OrderIds
  /\ \A m, k : /\ <<"mission", m>> # <<"abort", k>>
               /\ <<"mission", m>> # <<"extra", k>>
               /\ <<"abort", m>> # <<"extra", k>>
  /\ \A o \in OrderIds : o[1] \in {"mission", "abort"} =>
                           o[2] \in Missions /\ o = <<o[1], o[2]>>
<1>1. \A o \in OrderIds : /\ o = <<o[1], o[2]>>
                          /\ \/ o[1] = "extra"
                             \/ o[2] \in Missions
  BY DEF OrderIds, Extra
<1>. QED BY <1>1 DEF OrderIds, Extra

LEMMA HydrateAdvances ==
  ASSUME NEW ms \in [Missions -> Mission], NEW os \in [OrderIds -> Order],
         TypeOK, Hydrate(ms, os), RunsAdvance(ms), OrdersAdvance(os),
         UntouchedOrders,
         \A o \in OrderIds : orders[o].state = "none" => os[o].state = "none"
  PROVE  UntouchedOrders' /\ EndsKept
<1>1. RunsAdvance(missions')
  BY DEF RunsAdvance, Hydrate, Mission
<1>2. \A o \in OrderIds : /\ os[o].state = "none" <=> orders'[o].state = "none"
                          /\ orders'[o].state # os[o].state =>
                               os[o].state = "acked"
  BY DEF Hydrate, Order
<1>3. OrdersAdvance(orders')
  BY <1>2 DEF OrdersAdvance, TypeOK, Order, OrderState
<1>4. UntouchedOrders'
  BY <1>1, <1>2, OrderNames DEF UntouchedOrders, RunsAdvance
<1>. QED BY <1>1, <1>3, <1>4, AdvanceKeepsEnds

LEMMA EndsOperate ==
  ASSUME TypeOK, UntouchedOrders, Operate
  PROVE  UntouchedOrders' /\ EndsKept
<1>1. ASSUME NEW m \in Missions, NEW p \in BOOLEAN, PauseMission(m, p)
      PROVE  UntouchedOrders' /\ EndsKept
  <2>1. \A k \in Missions : missions'[k].status = missions[k].status
    BY <1>1 DEF PauseMission, TypeOK, Mission
  <2>2. \A o \in OrderIds :
          \/ orders'[o] = orders[o]
          \/ /\ orders[o].state = "none"
             /\ \E n \in 1..MaxExtra : o = <<"extra", n>>
    BY <1>1 DEF PauseMission, FreeExtra, TypeOK
  <2>. QED BY <2>1, <2>2, OrderNames DEF UntouchedOrders, EndsKept
<1>2. ASSUME NEW m \in Missions, AbortMission(m)
      PROVE  UntouchedOrders' /\ EndsKept
  <2>1. /\ missions[m].status \in {"queued", "active"}
        /\ missions'[m].status = "aborted"
        /\ \A k \in Missions : k # m => missions'[k] = missions[k]
    BY <1>2 DEF AbortMission, TypeOK, Mission
  <2>2. \A o \in OrderIds :
          (o # <<"abort", m>> /\ orders'[o].state # orders[o].state)
            => orders[o].state = "pending"
    BY <1>2, OrderNames DEF AbortMission, OrdersAfterAbort, OrdersAfterCancel,
                            Cancelled
  <2>3. orders[<<"abort", m>>].state = "none"
    BY <2>1 DEF UntouchedOrders
  <2>4. EndsKept
    BY <2>1, <2>2, <2>3 DEF EndsKept
  <2>5. UntouchedOrders'
    BY <2>1, <2>2, OrderNames DEF UntouchedOrders
  <2>. QED BY <2>4, <2>5
<1>3. ASSUME NEW r \in Robots, TeleopGoto(r)
      PROVE  UntouchedOrders' /\ EndsKept
  <2>1. \A o \in OrderIds :
          \/ orders'[o] = orders[o]
          \/ /\ orders[o].state = "none"
             /\ \E n \in 1..MaxExtra : o = <<"extra", n>>
    BY <1>3 DEF TeleopGoto, FreeExtra, TypeOK
  <2>2. missions' = missions
    BY <1>3 DEF TeleopGoto
  <2>. QED BY <2>1, <2>2, OrderNames DEF UntouchedOrders, EndsKept
<1>4. ASSUME NEW req \in Requests, NEW p \in Priorities, CreateMission(req, p)
      PROVE  UntouchedOrders' /\ EndsKept
  BY <1>4 DEF CreateMission, Fresh, NewMission, TypeOK, UntouchedOrders,
              EndsKept
<1>5. ASSUME NEW r \in Robots, NEW c \in Commands, Command(r, c)
      PROVE  UntouchedOrders' /\ EndsKept
  BY <1>1, <1>2, <1>3, <1>5 DEF Command, TypeOK
<1>. QED BY <1>1, <1>2, <1>3, <1>4, <1>5 DEF Operate

LEMMA EndsTick ==
  ASSUME TypeOK, UntouchedOrders, Tick
  PROVE  UntouchedOrders' /\ EndsKept
<1>1. PICK f \in NewRunIds : \E a \in Assignments(MissionsAfterSchedules(f)) :
                               Dispatched(MissionsAfterSchedules(f), a)
  BY DEF Tick
<1>. DEFINE ms == MissionsAfterSchedules(f)
<1>2. PICK a \in Assignments(ms) : Dispatched(ms, a)
  BY <1>1
<1>3. ms \in [Missions -> Mission]
  BY SchedulesGiveRuns
<1>4. \A m \in Missions :
        \/ ms[m] = missions[m]
        \/ missions[m].status = "none" /\ ms[m].status = "queued"
  BY SchedulesKeepRuns DEF TypeOK
<1>5. \A m \in Assigned(ms, a) : m \in Missions /\ ms[m].status = "queued"
  BY <1>3, AssignmentsAreDisjoint
<1>6. \A m \in Missions : IF m \in Assigned(ms, a)
                            THEN missions'[m].status = "active"
                            ELSE missions'[m] = ms[m]
  BY <1>2, <1>3 DEF Dispatched, Mission
<1>7. \A o \in OrderIds : orders'[o] = orders[o]
          \/ \E m \in Assigned(ms, a) : o = <<"mission", m>>
  BY <1>2, OrderNames DEF Dispatched
<1>8. RunsAdvance(missions')
  BY <1>4, <1>5, <1>6 DEF RunsAdvance
<1>9. \A m \in Assigned(ms, a) : orders[<<"mission", m>>].state = "none"
  BY <1>4, <1>5 DEF UntouchedOrders
<1>10. EndsKept
  BY <1>7, <1>8, <1>9, AdvanceKeepsEnds DEF OrdersAdvance
<1>11. UntouchedOrders'
  BY <1>6, <1>7, <1>8, <1>9, OrderNames DEF UntouchedOrders, RunsAdvance
<1>. QED BY <1>10, <1>11

LEMMA EndsTorn ==
  ASSUME TypeOK, UntouchedOrders, Torn
  PROVE  UntouchedOrders' /\ EndsKept
<1>. missions \in [Missions -> Mission] /\ orders \in [OrderIds -> Order]
  BY DEF TypeOK
<1>0. RunsAdvance(missions) /\ OrdersAdvance(orders)
  BY DEF RunsAdvance, OrdersAdvance
<1>1. ASSUME NEW m \in Missions, NEW r \in Robots, TornDispatch(m, r)
      PROVE  UntouchedOrders' /\ EndsKept
  <2>. DEFINE ms == [missions EXCEPT ![m].status = "active", ![m].robot = r]
  <2>1. /\ ms \in [Missions -> Mission] /\ missions[m].status = "queued"
        /\ Hydrate(ms, orders)
    BY <1>1 DEF Mission, MissionStatus, TornDispatch
  <2>2. \A n \in Missions : n # m => ms[n].status = missions[n].status
    BY DEF Mission
  <2>3. ms[m].status = "active"
    BY DEF Mission
  <2>. HIDE DEF ms
  <2>4. RunsAdvance(ms)
    BY <2>1, <2>2, <2>3 DEF RunsAdvance
  <2>. QED BY <1>0, <2>1, <2>4, HydrateAdvances
<1>2. ASSUME NEW o \in OrderIds, NEW outcome \in {"done", "failed"},
             TornSettle(o, outcome)
      PROVE  UntouchedOrders' /\ EndsKept
  <2>. DEFINE os == [orders EXCEPT ![o].state = outcome]
  <2>1. /\ os \in [OrderIds -> Order] /\ orders[o].state \in Open
        /\ Hydrate(missions, os)
    BY <1>2 DEF Order, OrderState, TornSettle
  <2>2. \A n \in OrderIds : n # o => os[n] = orders[n]
    OBVIOUS
  <2>. HIDE DEF os
  <2>3. OrdersAdvance(os) /\ \A n \in OrderIds : orders[n].state = "none"
                                                   => os[n].state = "none"
    BY <2>1, <2>2 DEF OrdersAdvance, Open
  <2>. QED BY <1>0, <2>1, <2>3, HydrateAdvances
<1>3. ASSUME NEW m \in Missions, TornAbort(m)
      PROVE  UntouchedOrders' /\ EndsKept
  <2>1. OrdersAfterCancel({m}) \in [OrderIds -> Order]
    BY AbortOrdersType
  <2>2. /\ OrdersAdvance(OrdersAfterCancel({m}))
        /\ \A n \in OrderIds : orders[n].state = "none"
                                 => OrdersAfterCancel({m})[n].state = "none"
    BY DEF OrdersAdvance, OrdersAfterCancel, Cancelled, Order
  <2>. QED BY <1>0, <1>3, <2>1, <2>2, HydrateAdvances DEF TornAbort
<1>4. ASSUME NEW s \in Schedules, TornFiring(s)
      PROVE  UntouchedOrders' /\ EndsKept
  <2>. DEFINE new == NewMission(schedules[s].requested,
                                schedules[s].priority, NoSchedule)
  <2>1. PICK m \in Fresh : Hydrate([missions EXCEPT ![m] = new], orders)
    BY <1>4 DEF TornFiring
  <2>. DEFINE ms == [missions EXCEPT ![m] = new]
  <2>2. new \in Mission /\ new.status = "queued"
    BY DEF NewMission, Mission, MissionStatus, TypeOK, Schedule
  <2>3. /\ ms \in [Missions -> Mission]
        /\ \A n \in Missions : \/ ms[n] = missions[n]
                               \/ /\ missions[n].status = "none"
                                  /\ ms[n].status = "queued"
    BY <2>2 DEF Fresh
  <2>4. Hydrate(ms, orders)
    BY <2>1
  <2>. HIDE DEF ms, new
  <2>5. RunsAdvance(ms)
    BY <2>3 DEF RunsAdvance
  <2>. QED BY <1>0, <2>3, <2>4, <2>5, HydrateAdvances
<1>. QED BY <1>1, <1>2, <1>3, <1>4 DEF Torn

LEMMA EndsStep ==
  ASSUME TypeOK, UntouchedOrders, [Next]_vars
  PROVE  UntouchedOrders' /\ EndsKept
<1>1. CASE Operate
  BY <1>1, EndsOperate
<1>2. CASE Adapt
  <2>1. ASSUME NEW r \in Robots, PullOrders(r)
        PROVE  UntouchedOrders' /\ EndsKept
    <3>1. \A o \in OrderIds : \/ orders'[o] = orders[o]
                              \/ /\ orders[o].state = "pending"
                                 /\ orders'[o].state = "acked"
      BY <2>1 DEF PullOrders, TypeOK, Order
    <3>. QED BY <2>1, <3>1, OrderNames DEF PullOrders, UntouchedOrders, EndsKept
  <2>2. ASSUME NEW o \in OrderIds, NEW outcome \in {"done", "failed"},
               SetOrderStatus(o, outcome)
        PROVE  UntouchedOrders' /\ EndsKept
    <3>1. \A n \in OrderIds : \/ orders'[n] = orders[n]
                              \/ /\ orders[n].state \in Open
                                 /\ orders'[n].state = outcome
      BY <2>2 DEF SetOrderStatus, TypeOK, Order
    <3>2. \A m \in Missions : \/ missions'[m] = missions[m]
                              \/ /\ missions[m].status = "active"
                                 /\ missions'[m].status = outcome
      BY <2>2 DEF SetOrderStatus, Settles, TypeOK, Mission
    <3>. QED BY <3>1, <3>2, OrderNames DEF UntouchedOrders, EndsKept, Open
  <2>. QED BY <1>2, <2>1, <2>2 DEF Adapt, RegisterExternal, IngestState,
                                   UntouchedOrders, EndsKept
<1>3. CASE Plan
  BY <1>3 DEF Plan, CreateSchedule, PatchSchedule, DeleteSchedules,
              UntouchedOrders, EndsKept
<1>4. CASE Elapse
  <2>1. ASSUME NEW stale \in SUBSET Missions, SweepStaleRuns(stale)
        PROVE  UntouchedOrders' /\ EndsKept
    <3>1. \A m \in Missions : \/ missions'[m] = missions[m]
                              \/ /\ missions[m].status = "active"
                                 /\ missions'[m].status = "failed"
      BY <2>1 DEF SweepStaleRuns, TypeOK, Mission
    <3>. QED BY <2>1, <3>1 DEF SweepStaleRuns, UntouchedOrders, EndsKept
  <2>. QED BY <1>4, <2>1, EndsTick DEF Elapse, ScheduleComesDue, GoesStale,
                                       UntouchedOrders, EndsKept
<1>5. CASE Restart
  <2>1. RunsAdvance(missions) /\ OrdersAdvance(orders)
    BY DEF RunsAdvance, OrdersAdvance
  <2>. QED BY <1>5, <2>1, HydrateAdvances DEF Restart, TypeOK
<1>6. CASE UNCHANGED vars \/ \E r \in Robots : RemoveExternal(r)
  BY <1>6 DEF vars, RemoveExternal, UntouchedOrders, EndsKept
<1>. QED BY <1>1, <1>2, <1>3, <1>4, <1>5, <1>6, EndsTorn
         DEF Next, CleanNext, SteadyNext

LEMMA InitUntouched ==
  Init => UntouchedOrders /\ \A o \in OrderIds : orders[o].state = "none"
<1>1. Init => \A o \in OrderIds : orders[o].state = "none"
  BY DEF Init, NoOrderYet
<1>. QED BY <1>1, OrderNames DEF UntouchedOrders

\* How a run or an order ended never changes: not by a late, repeated or
\* contradicting receipt, not by an abort or the watchdog racing it, not by a
\* crash at any point and the recovery that follows.
THEOREM EndsCorrect == Spec => EndsAreFinal
<1>1. TypeOK /\ UntouchedOrders /\ [Next]_vars
        => UntouchedOrders' /\ [EndsKept]_vars
  BY EndsStep
<1>. QED BY <1>1, InitUntouched, TypeCorrect, PTL DEF Spec, EndsAreFinal

-----------------------------------------------------------------------------
(* An aborted run leaves the adapter's queue.                              *)

\* No order left memory, and a run's own order carries that run: so abort finds
\* it among the orders it cancels.
OrdersAtHand ==
  /\ dropped = {}
  /\ \A m \in Missions : orders[<<"mission", m>>].state # "none" =>
                           orders[<<"mission", m>>].mission = m

Cancellable == UntouchedOrders /\ OrdersAtHand /\ AbortedRunNotServed

LEMMA CancelStep ==
  ASSUME TypeOK, Cancellable, [SteadyNext]_vars
  PROVE  Cancellable'
<1>. USE DEF Cancellable
<1>1. UntouchedOrders'
  BY EndsStep DEF Next, CleanNext
<1>2. ASSUME \A m \in Missions :
               orders'[<<"mission", m>>] = orders[<<"mission", m>>],
             \A m \in Missions : missions'[m].status # missions[m].status
                                   => missions'[m].status # "aborted",
             dropped' = dropped
      PROVE  Cancellable'
  BY <1>1, <1>2 DEF OrdersAtHand, AbortedRunNotServed
<1>3. ASSUME NEW m \in Missions, NEW p \in BOOLEAN, PauseMission(m, p)
      PROVE  Cancellable'
  <2>1. \A k \in Missions : orders'[<<"mission", k>>] = orders[<<"mission", k>>]
    BY <1>3, OrderNames DEF PauseMission, FreeExtra, TypeOK
  <2>2. \A k \in Missions : missions'[k].status = missions[k].status
    BY <1>3 DEF PauseMission, TypeOK, Mission
  <2>. QED BY <1>2, <1>3, <2>1, <2>2 DEF PauseMission
<1>4. ASSUME NEW m \in Missions, AbortMission(m)
      PROVE  Cancellable'
  <2>1. /\ missions[m].status \in {"queued", "active"}
        /\ \A k \in Missions : k # m => missions'[k] = missions[k]
    BY <1>4 DEF AbortMission, TypeOK, Mission
  <2>2. CASE missions[m].status = "queued"
    BY <1>1, <1>4, <2>1, <2>2 DEF AbortMission, UntouchedOrders, OrdersAtHand,
                                  AbortedRunNotServed
  <2>3. CASE missions[m].status = "active"
    <3>1. \A o \in OrderIds : o[1] = "mission" =>
            orders'[o] = IF Cancelled(o, {m})
                           THEN [orders[o] EXCEPT !.state = "failed"]
                           ELSE orders[o]
      BY <1>4, <2>3 DEF AbortMission, OrdersAfterAbort, OrdersAfterCancel
    <3>2. \A o \in OrderIds : o[1] = "mission" =>
            /\ orders'[o].mission = orders[o].mission
            /\ orders'[o].state = "failed" \/ orders'[o] = orders[o]
            /\ orders'[o].state # "none" => orders[o].state # "none"
      <4>1. \A o \in OrderIds : orders[o] \in Order
        BY DEF TypeOK
      <4>. QED BY <3>1, <4>1 DEF Cancelled, Order
    <3>3. \A k \in Missions :
            LET o == <<"mission", k>>
            IN  /\ orders'[o].mission = orders[o].mission
                /\ orders'[o].state = "failed" \/ orders'[o] = orders[o]
                /\ orders'[o].state # "none" => orders[o].state # "none"
      BY <3>2, OrderNames
    <3>4. orders'[<<"mission", m>>].state # "pending"
      <4>. DEFINE o == <<"mission", m>>
      <4>1. o \in OrderIds /\ o[1] = "mission" /\ orders[o] \in Order
        BY OrderNames DEF TypeOK
      <4>2. orders[o].state = "pending" => Cancelled(o, {m})
        BY <4>1 DEF Cancelled, InMemory, OrdersAtHand
      <4>. HIDE DEF o
      <4>3. orders'[o].state # "pending"
        BY <3>1, <4>1, <4>2 DEF Order
      <4>. QED BY <4>3 DEF o
    <3>. QED BY <1>1, <1>4, <2>1, <3>3, <3>4
             DEF AbortMission, OrdersAtHand, AbortedRunNotServed
  <2>. QED BY <2>1, <2>2, <2>3
<1>5. ASSUME NEW r \in Robots, TeleopGoto(r)
      PROVE  Cancellable'
  BY <1>2, <1>5, OrderNames DEF TeleopGoto, FreeExtra, TypeOK
<1>6. CASE Operate
  <2>1. ASSUME NEW req \in Requests, NEW p \in Priorities,
               CreateMission(req, p)
        PROVE  Cancellable'
    BY <1>2, <2>1 DEF CreateMission, NewMission, TypeOK
  <2>2. ASSUME NEW r \in Robots, NEW c \in Commands, Command(r, c)
        PROVE  Cancellable'
    BY <1>3, <1>4, <1>5, <2>2 DEF Command, TypeOK
  <2>. QED BY <1>3, <1>4, <1>5, <1>6, <2>1, <2>2 DEF Operate
<1>7. CASE Adapt
  <2>1. ASSUME NEW r \in Robots, PullOrders(r)
        PROVE  Cancellable'
    <3>1. \A m \in Missions :
            LET o == <<"mission", m>>
            IN  /\ orders'[o].mission = orders[o].mission
                /\ orders'[o].state = "none" <=> orders[o].state = "none"
                /\ orders'[o].state = "pending" => orders[o].state = "pending"
      BY <2>1, OrderNames DEF PullOrders, TypeOK, Order
    <3>. QED BY <1>1, <2>1, <3>1 DEF PullOrders, OrdersAtHand,
                                     AbortedRunNotServed
  <2>2. ASSUME NEW o \in OrderIds, NEW outcome \in {"done", "failed"},
               SetOrderStatus(o, outcome)
        PROVE  Cancellable'
    <3>1. \A n \in OrderIds :
            /\ orders'[n].mission = orders[n].mission
            /\ orders'[n].state = "none" <=> orders[n].state = "none"
            /\ orders'[n].state = "pending" => orders[n].state = "pending"
      BY <2>2 DEF SetOrderStatus, Open, TypeOK, Order
    <3>2. \A m \in Missions : missions'[m].status = "aborted"
                                => missions[m].status = "aborted"
      BY <2>2 DEF SetOrderStatus, TypeOK, Mission
    <3>. QED BY <1>1, <2>2, <3>1, <3>2, OrderNames
             DEF SetOrderStatus, OrdersAtHand, AbortedRunNotServed
  <2>. QED BY <1>2, <1>7, <2>1, <2>2 DEF Adapt, RegisterExternal, IngestState
<1>8. CASE Plan
  BY <1>2, <1>8 DEF Plan, CreateSchedule, PatchSchedule, DeleteSchedules
<1>9. CASE Tick
  <2>1. PICK f \in NewRunIds : \E a \in Assignments(MissionsAfterSchedules(f)) :
                                 Dispatched(MissionsAfterSchedules(f), a)
    BY <1>9 DEF Tick
  <2>. DEFINE ms == MissionsAfterSchedules(f)
  <2>2. PICK a \in Assignments(ms) : Dispatched(ms, a)
    BY <2>1
  <2>3. ms \in [Missions -> Mission]
    BY SchedulesGiveRuns
  <2>4. \A m \in Missions : ms[m] = missions[m] \/ ms[m].status = "queued"
    BY SchedulesKeepRuns
  <2>5. \A m \in Missions : IF m \in Assigned(ms, a)
                              THEN missions'[m].status = "active"
                              ELSE missions'[m] = ms[m]
    BY <2>2, <2>3 DEF Dispatched, Mission
  <2>6. \A m \in Missions :
          orders'[<<"mission", m>>]
            = IF m \in Assigned(ms, a) THEN NewOrder("mission", a[m], m)
                                       ELSE orders[<<"mission", m>>]
    BY <2>2, OrderNames DEF Dispatched
  <2>7. dropped' = dropped
    BY <1>9 DEF Tick
  <2>. HIDE DEF ms
  <2>8. OrdersAtHand'
    <3>1. \A m \in Missions : m \in Assigned(ms, a) =>
            orders'[<<"mission", m>>].mission = m
      <4>1. \A m \in Missions : m \in Assigned(ms, a) =>
              orders'[<<"mission", m>>] = NewOrder("mission", a[m], m)
        BY <2>6
      <4>2. \A m \in Missions : NewOrder("mission", a[m], m).mission = m
        BY DEF NewOrder
      <4>. QED BY <4>1, <4>2
    <3>2. \A m \in Missions : m \notin Assigned(ms, a) =>
            orders'[<<"mission", m>>] = orders[<<"mission", m>>]
      BY <2>6
    <3>. QED BY <2>7, <3>1, <3>2 DEF OrdersAtHand
  <2>9. AbortedRunNotServed'
    BY <2>4, <2>5, <2>6 DEF AbortedRunNotServed
  <2>. QED BY <1>1, <2>8, <2>9
<1>10. CASE Elapse
  <2>1. ASSUME NEW stale \in SUBSET Missions, SweepStaleRuns(stale)
        PROVE  Cancellable'
    BY <1>2, <2>1 DEF SweepStaleRuns, TypeOK, Mission
  <2>. QED BY <1>2, <1>9, <1>10, <2>1 DEF Elapse, ScheduleComesDue, GoesStale
<1>11. CASE UNCHANGED vars
  BY <1>2, <1>11 DEF vars
<1>. QED BY <1>6, <1>7, <1>8, <1>10, <1>11 DEF SteadyNext

\* Once a run is aborted its order never waits in the adapter's queue, however
\* the abort races the pull, the receipt and the dispatch of other runs.
THEOREM SteadyAbortHolds == SteadySpec => []AbortedRunNotServed
<1>1. Init => Cancellable
  <2>1. Init => dropped = {}
    BY DEF Init
  <2>. QED BY <2>1, InitUntouched, OrderNames
           DEF Cancellable, OrdersAtHand, AbortedRunNotServed
<1>2. Cancellable => AbortedRunNotServed
  BY DEF Cancellable
<1>. QED BY <1>1, <1>2, CancelStep, SteadyTypeCorrect, PTL DEF SteadySpec

-----------------------------------------------------------------------------
(* An active run keeps the order that settles it, but for two named causes. *)

\* What an order says of its run, and the run of its order: a run order or an
\* abort order has the identity of its run, and no order names a run that was not dispatched.
OrderFacts ==
  /\ \A o \in OrderIds : orders[o].state # "none" =>
       /\ orders[o].kind = "mission" <=> o[1] = "mission"
       /\ o[1] \in {"mission", "abort"} => orders[o].mission = o[2]
       /\ orders[o].mission \in Missions =>
            missions[orders[o].mission].status \notin {"none", "queued"}
  /\ \A o \in dropped : orders[o].state # "none"

\* The open orders of an active run are with its robot, and a run order that waits
\* to be pulled waits together with the others: a cut-off abort cancels them all.
OrdersTogether ==
  \A m \in Missions, o \in OrderIds :
    /\ missions[m].status = "active"
    /\ orders[o].mission = m /\ orders[o].state \in Open
    => /\ orders[o].robot = missions[m].robot
       /\ orders[<<"mission", m>>].state = "pending" /\ InMemory(<<"mission", m>>)
            => orders[o].state = "pending" /\ InMemory(o)

\* The order of an active run was enqueued for the robot that carries it.
ActiveRunHasOrder ==
  \A m \in Missions : missions[m].status = "active" =>
    LET o == orders[<<"mission", m>>]
    IN o.state # "none" /\ o.robot = missions[m].robot

OrderInv == OrderFacts /\ OrdersTogether /\ ActiveRunHasOrder

\* A run that recovery leaves active has its own order among the open ones.
LEMMA HydrateOrders ==
  ASSUME TypeOK, NEW ms \in [Missions -> Mission], NEW os \in [OrderIds -> Order],
         Hydrate(ms, os),
         \A o \in OrderIds : os[o].state # "none" =>
           /\ os[o].kind = "mission" <=> o[1] = "mission"
           /\ o[1] \in {"mission", "abort"} => os[o].mission = o[2]
           /\ os[o].mission \in Missions =>
                ms[os[o].mission].status \notin {"none", "queued"},
         \A m \in Missions, o \in OrderIds :
           /\ ms[m].status = "active"
           /\ os[o].mission = m /\ os[o].state \in Open
           => /\ os[<<"mission", m>>].state # "none"
              /\ os[<<"mission", m>>].robot = ms[m].robot
              /\ os[o].robot = ms[m].robot
  PROVE  OrderInv'
<1>1. \A o \in OrderIds :
        /\ orders'[o].kind = os[o].kind /\ orders'[o].mission = os[o].mission
        /\ orders'[o].robot = os[o].robot
        /\ orders'[o].state = "none" <=> os[o].state = "none"
        /\ orders'[o].state \in Open <=> os[o].state \in Open
        /\ orders'[o].state # "acked"
  BY DEF Hydrate, Order, Open
<1>2. \A m \in Missions :
        \/ /\ missions'[m] = ms[m]
           /\ ms[m].status = "active" =>
                \E o \in OrderIds : os[o].mission = m /\ os[o].state \in Open
        \/ ms[m].status = "active" /\ missions'[m].status = "failed"
  BY DEF Hydrate, Mission
<1>3. dropped' = {}
  BY DEF Hydrate
<1>4. OrderFacts'
  BY <1>1, <1>2, <1>3 DEF OrderFacts
<1>5. \A m \in Missions : missions'[m].status = "active" =>
        /\ missions'[m] = ms[m] /\ <<"mission", m>> \in OrderIds
        /\ os[<<"mission", m>>].state # "none"
        /\ os[<<"mission", m>>].robot = ms[m].robot
        /\ \A o \in OrderIds : os[o].mission = m /\ os[o].state \in Open
                               => os[o].robot = ms[m].robot
  <2>1. SUFFICES ASSUME NEW m \in Missions, missions'[m].status = "active"
                 PROVE  /\ missions'[m] = ms[m] /\ <<"mission", m>> \in OrderIds
                        /\ os[<<"mission", m>>].state # "none"
                        /\ os[<<"mission", m>>].robot = ms[m].robot
                        /\ \A o \in OrderIds :
                             os[o].mission = m /\ os[o].state \in Open
                             => os[o].robot = ms[m].robot
    OBVIOUS
  <2>2. missions'[m] = ms[m] /\ ms[m].status = "active"
    BY <1>2, <2>1
  <2>3. PICK o \in OrderIds : os[o].mission = m /\ os[o].state \in Open
    BY <1>2, <2>1, <2>2
  <2>. QED BY <2>2, <2>3, OrderNames
<1>6. \A o \in OrderIds : orders'[o].state \in Open => orders'[o].state = "pending"
  BY <1>1 DEF Open
<1>7. OrdersTogether'
  BY <1>1, <1>3, <1>5, <1>6 DEF OrdersTogether, InMemory
<1>8. ActiveRunHasOrder'
  BY <1>1, <1>5 DEF ActiveRunHasOrder
<1>. QED BY <1>4, <1>7, <1>8 DEF OrderInv

\* A step that leaves the runs alone, and adds orders that wait with their run.
LEMMA ExtraOrder ==
  ASSUME TypeOK, OrderInv, NEW n \in FreeExtra,
         NEW k \in {"goto", "pause", "resume"}, NEW r \in Robots \cup {NoRobot},
         NEW m \in Missions \cup {NoMission},
         orders' = [orders EXCEPT ![<<"extra", n>>] = NewOrder(k, r, m)],
         dropped' = dropped,
         m \in Missions => missions[m].status = "active" /\ r = missions[m].robot,
         \A i \in Missions : missions'[i].status = missions[i].status
                             /\ missions'[i].robot = missions[i].robot
  PROVE  OrderInv'
<1> DEFINE new == <<"extra", n>>
<1>1. /\ new \in OrderIds /\ new[1] = "extra" /\ orders[new].state = "none"
      /\ new \notin dropped /\ \A i : new # <<"mission", i>>
  BY OrderNames DEF FreeExtra, OrderInv, OrderFacts
<1>2. /\ orders'[new].kind = k /\ orders'[new].mission = m /\ orders'[new].robot = r
      /\ orders'[new].state = "pending"
      /\ \A o \in OrderIds : o # new => orders'[o] = orders[o]
  BY <1>1 DEF TypeOK, NewOrder
<1> HIDE DEF new
<1>3. OrderFacts'
  BY <1>1, <1>2 DEF OrderInv, OrderFacts, TypeOK
<1>4. OrdersTogether'
  BY <1>1, <1>2, OrderNames DEF OrderInv, OrdersTogether, InMemory
<1>5. ActiveRunHasOrder'
  BY <1>1, <1>2, OrderNames DEF OrderInv, ActiveRunHasOrder
<1>. QED BY <1>3, <1>4, <1>5 DEF OrderInv

LEMMA OrdersOperate ==
  ASSUME TypeOK, OrderInv, UntouchedOrders, Operate
  PROVE  OrderInv'
<1>1. ASSUME NEW m \in Missions, NEW p \in BOOLEAN, PauseMission(m, p)
      PROVE  OrderInv'
  <2>1. \A i \in Missions : missions'[i].status = missions[i].status
                            /\ missions'[i].robot = missions[i].robot
    BY <1>1 DEF PauseMission, TypeOK, Mission
  <2>2. missions[m].status = "active" /\ dropped' = dropped
        /\ missions[m].robot \in Robots \cup {NoRobot}
    BY <1>1 DEF PauseMission, TypeOK, Mission
  <2>3. CASE orders' = orders
    BY <2>1, <2>2, <2>3
       DEF OrderInv, OrderFacts, OrdersTogether, ActiveRunHasOrder, InMemory
  <2>4. CASE orders' # orders
    BY <1>1, <2>1, <2>2, <2>4, ExtraOrder DEF PauseMission
  <2>. QED BY <2>3, <2>4
<1>2. ASSUME NEW m \in Missions, AbortMission(m)
      PROVE  OrderInv'
  <2>1. /\ missions[m].status \in {"queued", "active"} /\ dropped' = dropped
        /\ missions'[m].status = "aborted"
        /\ \A k \in Missions : k # m => missions'[k] = missions[k]
    BY <1>2 DEF AbortMission, TypeOK, Mission
  <2>2. \A o \in OrderIds :
          \/ orders'[o] = orders[o]
          \/ /\ orders[o].mission = m /\ orders[o].state = "pending"
             /\ orders'[o].state = "failed" /\ orders'[o].mission = m
             /\ orders'[o].kind = orders[o].kind
          \/ /\ o = <<"abort", m>> /\ orders'[o].kind = "abort"
             /\ orders'[o].mission = m
    BY <1>2, OrderNames
       DEF AbortMission, OrdersAfterAbort, OrdersAfterCancel, Cancelled, NewOrder,
           TypeOK, Order
  <2>3. OrderFacts'
    <3>1. \A o \in dropped : orders'[o].state # "none"
      BY <1>2, <2>2 DEF OrderInv, OrderFacts, AbortMission, OrdersAfterAbort,
         OrdersAfterCancel, Cancelled, NewOrder, TypeOK, Order
    <3>. QED BY <2>1, <2>2, <3>1, OrderNames DEF OrderInv, OrderFacts
  <2>4. ASSUME NEW k \in Missions, k # m
        PROVE  orders'[<<"mission", k>>] = orders[<<"mission", k>>]
    <3>1. /\ <<"mission", k>> \in OrderIds /\ <<"mission", k>> # <<"abort", m>>
          /\ <<"mission", k>>[1] = "mission" /\ <<"mission", k>>[2] = k
      BY OrderNames
    <3>. QED BY <2>2, <2>4, <3>1 DEF OrderInv, OrderFacts
  <2>5. \A k \in Missions : missions'[k].status = "active" =>
          k # m /\ missions'[k] = missions[k]
    BY <2>1
  <2>6. \A o \in OrderIds, k \in Missions :
          k # m /\ orders'[o].mission = k => orders'[o] = orders[o]
    BY <2>2
  <2>7. OrdersTogether'
    BY <2>1, <2>4, <2>5, <2>6 DEF OrderInv, OrdersTogether, InMemory
  <2>8. ActiveRunHasOrder'
    BY <2>4, <2>5 DEF OrderInv, ActiveRunHasOrder
  <2>. QED BY <2>3, <2>7, <2>8 DEF OrderInv
<1>3. ASSUME NEW r \in Robots, TeleopGoto(r)
      PROVE  OrderInv'
  <2>1. PICK n \in FreeExtra :
          orders' = [orders EXCEPT ![<<"extra", n>>] = NewOrder("goto", r, NoMission)]
    BY <1>3 DEF TeleopGoto
  <2>. QED BY <1>3, <2>1, ExtraOrder, DispatchAssumption DEF TeleopGoto
<1>4. ASSUME NEW req \in Requests, NEW p \in Priorities, CreateMission(req, p)
      PROVE  OrderInv'
  <2>1. PICK m \in Fresh : missions' = [missions EXCEPT
                                          ![m] = NewMission(req, p, NoSchedule)]
    BY <1>4 DEF CreateMission
  <2>2. /\ m \in Missions /\ missions[m].status = "none"
        /\ missions'[m].status = "queued"
        /\ \A k \in Missions : k # m => missions'[k] = missions[k]
        /\ UNCHANGED <<orders, dropped>>
    BY <1>4, <2>1 DEF CreateMission, Fresh, NewMission, TypeOK
  <2>. QED BY <2>2 DEF OrderInv, OrderFacts, OrdersTogether, ActiveRunHasOrder,
                       InMemory
<1>5. ASSUME NEW r \in Robots, NEW c \in Commands, Command(r, c)
      PROVE  OrderInv'
  BY <1>1, <1>2, <1>3, <1>5 DEF Command, TypeOK
<1>. QED BY <1>1, <1>2, <1>3, <1>4, <1>5 DEF Operate

LEMMA OrdersTick ==
  ASSUME TypeOK, OrderInv, UntouchedOrders, Tick
  PROVE  OrderInv'
<1>1. PICK f \in NewRunIds : \E a \in Assignments(MissionsAfterSchedules(f)) :
                               Dispatched(MissionsAfterSchedules(f), a)
  BY DEF Tick
<1>. DEFINE ms == MissionsAfterSchedules(f)
<1>2. PICK a \in Assignments(ms) : Dispatched(ms, a)
  BY <1>1
<1>3. ms \in [Missions -> Mission]
  BY SchedulesGiveRuns
<1>4. \A m \in Missions :
        \/ ms[m] = missions[m]
        \/ missions[m].status = "none" /\ ms[m].status = "queued"
  BY SchedulesKeepRuns DEF TypeOK
<1>5. \A m \in Assigned(ms, a) : /\ m \in Missions /\ ms[m].status = "queued"
                                 /\ missions[m].status \in {"none", "queued"}
                                 /\ a[m] \in Robots
  BY <1>3, <1>4, AssignmentsAreDisjoint
<1>6. \A m \in Missions : IF m \in Assigned(ms, a)
                            THEN /\ missions'[m].status = "active"
                                 /\ missions'[m].robot = a[m]
                            ELSE missions'[m] = ms[m]
  BY <1>2, <1>3 DEF Dispatched, Mission
<1>7. \A o \in OrderIds :
        \/ /\ orders'[o] = orders[o]
           /\ o[1] = "mission" => o[2] \notin Assigned(ms, a)
        \/ /\ o[1] = "mission" /\ o[2] \in Assigned(ms, a)
           /\ orders'[o] = NewOrder("mission", a[o[2]], o[2])
  BY <1>2 DEF Dispatched
<1>8. dropped' = dropped
  BY DEF Tick
<1>. HIDE DEF ms
<1>9. \A m \in Missions :
        /\ <<"mission", m>> \in OrderIds
        /\ <<"mission", m>>[1] = "mission" /\ <<"mission", m>>[2] = m
  BY OrderNames
<1>. DEFINE carry(o) == NewOrder("mission", a[o[2]], o[2])
<1>10. \A o \in OrderIds : o[1] = "mission" /\ o[2] \in Assigned(ms, a) =>
         orders'[o] = carry(o)
  BY <1>7
<1>11. \A o : /\ carry(o).kind = "mission" /\ carry(o).mission = o[2]
             /\ carry(o).state = "pending" /\ carry(o).robot = a[o[2]]
  BY DEF NewOrder
<1>. HIDE DEF carry
<1>12. \A o \in OrderIds :
        orders[o].state # "none" /\ orders[o].mission \in Missions =>
          orders[o].mission \notin Assigned(ms, a)
  BY <1>5 DEF OrderInv, OrderFacts
<1>13. OrderFacts'
  <2>1. \A o \in OrderIds : o[1] = "mission" /\ o[2] \in Assigned(ms, a) =>
          /\ orders'[o].kind = "mission" /\ orders'[o].mission = o[2]
          /\ orders'[o].state = "pending" /\ missions'[o[2]].status = "active"
    BY <1>5, <1>6, <1>10, <1>11
  <2>2. \A m \in Missions : missions[m].status \notin {"none", "queued"} =>
          missions'[m].status \notin {"none", "queued"}
    BY <1>4, <1>5, <1>6
  <2>3. ASSUME NEW o \in OrderIds, orders'[o].state # "none"
        PROVE  /\ orders'[o].kind = "mission" <=> o[1] = "mission"
               /\ o[1] \in {"mission", "abort"} => orders'[o].mission = o[2]
               /\ orders'[o].mission \in Missions =>
                    missions'[orders'[o].mission].status \notin {"none", "queued"}
    <3>1. CASE orders'[o] = orders[o] /\ ~(o[1] = "mission" /\ o[2] \in Assigned(ms, a))
      BY <2>2, <2>3, <3>1 DEF OrderInv, OrderFacts
    <3>2. CASE o[1] = "mission" /\ o[2] \in Assigned(ms, a)
      BY <2>1, <3>2
    <3>. QED BY <1>7, <3>1, <3>2
  <2>4. ASSUME NEW o \in dropped
        PROVE  orders'[o].state # "none"
    <3>1. o \in OrderIds /\ orders[o].state # "none"
      BY DEF TypeOK, OrderInv, OrderFacts
    <3>. QED BY <1>7, <2>1, <3>1
  <2>. QED BY <1>8, <2>3, <2>4 DEF OrderFacts
<1>14. ASSUME NEW m \in Missions, missions'[m].status = "active"
       PROVE  /\ orders'[<<"mission", m>>].state # "none"
              /\ orders'[<<"mission", m>>].robot = missions'[m].robot
              /\ \A o \in OrderIds :
                   orders'[o].mission = m /\ orders'[o].state \in Open =>
                     /\ orders'[o].robot = missions'[m].robot
                     /\ /\ orders'[<<"mission", m>>].state = "pending"
                        /\ InMemory(<<"mission", m>>)
                        => orders'[o].state = "pending" /\ InMemory(o)
  <2>1. CASE m \in Assigned(ms, a)
    <3>1. orders'[<<"mission", m>>] = NewOrder("mission", a[m], m)
      BY <1>7, <1>9, <2>1
    <3>2. \A o \in OrderIds : orders'[o].mission = m /\ orders'[o].state \in Open
            => o = <<"mission", m>>
      <4>1. SUFFICES ASSUME NEW o \in OrderIds, orders'[o].mission = m,
                            orders'[o].state \in Open, o # <<"mission", m>>
            PROVE FALSE
        OBVIOUS
      <4>2. orders'[o] = orders[o]
        <5>1. CASE o[1] = "mission" /\ o[2] \in Assigned(ms, a)
          <6>1. orders'[o].mission = o[2]
            BY <1>10, <1>11, <5>1
          <6>2. o = <<"mission", o[2]>>
            BY <1>5, <5>1, OrderNames
          <6>. QED BY <4>1, <6>1, <6>2
        <5>. QED BY <1>7, <5>1
      <4>. QED BY <1>12, <2>1, <4>1, <4>2 DEF Open
    <3>. QED BY <1>6, <2>1, <3>1, <3>2 DEF NewOrder, Open
  <2>2. CASE m \notin Assigned(ms, a)
    <3>1. missions'[m] = missions[m]
      BY <1>4, <1>6, <1>14, <2>2
    <3>2. orders'[<<"mission", m>>] = orders[<<"mission", m>>]
      BY <1>7, <1>9, <2>2
    <3>3. ASSUME NEW o \in OrderIds, orders'[o].mission = m
          PROVE  orders'[o] = orders[o]
      <4>1. CASE o[1] = "mission" /\ o[2] \in Assigned(ms, a)
        <5>1. orders'[o].mission = o[2]
          BY <1>10, <1>11, <4>1
        <5>. QED BY <2>2, <3>3, <4>1, <5>1
      <4>. QED BY <1>7, <4>1
    <3>. QED BY <1>14, <3>1, <3>2, <3>3
             DEF OrderInv, OrdersTogether, ActiveRunHasOrder
  <2>. QED BY <2>1, <2>2
<1>15. OrdersTogether' /\ ActiveRunHasOrder'
  BY <1>8, <1>14 DEF OrdersTogether, ActiveRunHasOrder, InMemory
<1>. QED BY <1>13, <1>15 DEF OrderInv

\* Runs that are over need no order.
LEMMA FewerActive ==
  ASSUME OrderInv, UNCHANGED <<orders, dropped>>,
         \A m \in Missions :
           \/ missions'[m] = missions[m]
           \/ missions[m].status = "active" /\ missions'[m].status = "failed"
  PROVE  OrderInv'
<1>1. OrderFacts'
  BY DEF OrderInv, OrderFacts
<1>2. OrdersTogether'
  BY DEF OrderInv, OrdersTogether, InMemory
<1>3. ActiveRunHasOrder'
  BY DEF OrderInv, ActiveRunHasOrder
<1>. QED BY <1>1, <1>2, <1>3 DEF OrderInv

LEMMA OrdersAdapt ==
  ASSUME TypeOK, OrderInv, Adapt
  PROVE  OrderInv'
<1>1. ASSUME NEW r \in Robots, PullOrders(r)
      PROVE  OrderInv'
  <2>1. \A o \in OrderIds :
          orders'[o] = IF /\ orders[o].robot = r /\ InMemory(o)
                          /\ orders[o].state = "pending"
                         THEN [orders[o] EXCEPT !.state = "acked"] ELSE orders[o]
    BY <1>1 DEF PullOrders
  <2>2. \A o \in OrderIds :
          /\ orders'[o].kind = orders[o].kind /\ orders'[o].mission = orders[o].mission
          /\ orders'[o].robot = orders[o].robot
          /\ orders'[o].state \in Open <=> orders[o].state \in Open
          /\ orders'[o].state = "none" <=> orders[o].state = "none"
          /\ orders'[o].state = "pending" <=>
               orders[o].state = "pending" /\ ~(orders[o].robot = r /\ InMemory(o))
    BY <2>1 DEF TypeOK, Order, Open
  <2>3. UNCHANGED <<missions, dropped>>
    BY <1>1 DEF PullOrders
  <2>4. OrderFacts'
    <3>1. \A o \in OrderIds : orders'[o].state # "none" =>
            /\ orders'[o].kind = "mission" <=> o[1] = "mission"
            /\ o[1] \in {"mission", "abort"} => orders'[o].mission = o[2]
            /\ orders'[o].mission \in Missions =>
                 missions'[orders'[o].mission].status \notin {"none", "queued"}
      BY <2>2, <2>3 DEF OrderInv, OrderFacts
    <3>2. \A o \in dropped' : orders'[o].state # "none"
      BY <2>2, <2>3 DEF OrderInv, OrderFacts, TypeOK
    <3>. QED BY <3>1, <3>2 DEF OrderFacts
  <2>5. OrdersTogether'
    <3>1. SUFFICES ASSUME NEW m \in Missions, NEW o \in OrderIds,
                          missions[m].status = "active", orders[o].mission = m,
                          orders[o].state \in Open
                   PROVE  /\ orders[o].robot = missions[m].robot
                          /\ /\ orders'[<<"mission", m>>].state = "pending"
                             /\ InMemory(<<"mission", m>>)
                             => orders'[o].state = "pending" /\ InMemory(o)
      BY <2>2, <2>3 DEF OrdersTogether, InMemory
    <3>2. /\ orders[o].robot = missions[m].robot
          /\ orders[<<"mission", m>>].robot = missions[m].robot
          /\ /\ orders[<<"mission", m>>].state = "pending"
             /\ InMemory(<<"mission", m>>)
             => orders[o].state = "pending" /\ InMemory(o)
      BY <3>1 DEF OrderInv, OrdersTogether, ActiveRunHasOrder
    <3>3. ASSUME orders'[<<"mission", m>>].state = "pending",
                 InMemory(<<"mission", m>>)
          PROVE  orders'[o].state = "pending" /\ InMemory(o)
      <4>1. /\ orders[<<"mission", m>>].state = "pending"
            /\ orders[<<"mission", m>>].robot # r
        BY <2>2, <3>3, OrderNames
      <4>2. orders[o].state = "pending" /\ InMemory(o) /\ orders[o].robot # r
        BY <3>2, <3>3, <4>1
      <4>3. orders'[o].state = "pending"
        BY <2>2, <4>2
      <4>. QED BY <4>2, <4>3
    <3>. QED BY <3>2, <3>3, <2>2
  <2>6. ActiveRunHasOrder'
    <3>1. SUFFICES ASSUME NEW m \in Missions, missions[m].status = "active"
                   PROVE  /\ orders'[<<"mission", m>>].state # "none"
                          /\ orders'[<<"mission", m>>].robot = missions[m].robot
      BY <2>3 DEF ActiveRunHasOrder
    <3>2. /\ orders[<<"mission", m>>].state # "none"
          /\ orders[<<"mission", m>>].robot = missions[m].robot
      BY <3>1 DEF OrderInv, ActiveRunHasOrder
    <3>3. PICK o \in OrderIds : o = <<"mission", m>>
      BY OrderNames
    <3>. QED BY <2>2, <3>2, <3>3
  <2>. QED BY <2>4, <2>5, <2>6 DEF OrderInv
<1>2. ASSUME NEW o \in OrderIds, NEW outcome \in {"done", "failed"},
             SetOrderStatus(o, outcome)
      PROVE  OrderInv'
  <2>1. /\ orders[o].state \in Open /\ dropped' = dropped
        /\ orders'[o] = [orders[o] EXCEPT !.state = outcome]
        /\ \A n \in OrderIds : n # o => orders'[n] = orders[n]
    BY <1>2 DEF SetOrderStatus, TypeOK
  <2>2. /\ orders'[o].kind = orders[o].kind /\ orders'[o].mission = orders[o].mission
        /\ orders'[o].state = outcome
    BY <2>1 DEF TypeOK, Order
  <2>3. \A m \in Missions :
          \/ missions'[m] = missions[m] /\ ~(Settles(o) /\ m = orders[o].mission)
          \/ /\ missions[m].status = "active" /\ missions'[m].status = outcome
             /\ m = orders[o].mission
    BY <1>2 DEF SetOrderStatus, Settles, TypeOK, Mission
  <2>4. \A m \in Missions : missions'[m].status = "active" =>
          missions'[m] = missions[m] /\ o # <<"mission", m>>
    <3>1. ASSUME NEW m \in Missions, o = <<"mission", m>>, missions[m].status = "active"
          PROVE  Settles(o) /\ m = orders[o].mission
      BY <2>1, <3>1, DispatchAssumption DEF Settles, OrderInv, OrderFacts, Open
    <3>. QED BY <2>3, <3>1
  <2>5. OrderFacts'
    <3>1. \A m \in Missions : missions[m].status \notin {"none", "queued"} =>
            missions'[m].status \notin {"none", "queued"}
      BY <2>3
    <3>2. ASSUME NEW n \in OrderIds, orders'[n].state # "none"
          PROVE  /\ orders'[n].kind = "mission" <=> n[1] = "mission"
                 /\ n[1] \in {"mission", "abort"} => orders'[n].mission = n[2]
                 /\ orders'[n].mission \in Missions =>
                      missions'[orders'[n].mission].status \notin {"none", "queued"}
      <4>1. /\ orders[n].state # "none" /\ orders'[n].kind = orders[n].kind
            /\ orders'[n].mission = orders[n].mission
        BY <2>1, <2>2, <3>2 DEF Open
      <4>. QED BY <3>1, <4>1 DEF OrderInv, OrderFacts
    <3>3. \A n \in dropped : n \in OrderIds /\ orders[n].state # "none"
      BY DEF OrderInv, OrderFacts, TypeOK
    <3>4. \A n \in dropped : orders'[n].state # "none"
      BY <2>1, <2>2, <3>3
    <3>. QED BY <2>1, <3>2, <3>4 DEF OrderFacts
  <2>6. OrdersTogether'
    <3>1. SUFFICES ASSUME NEW m \in Missions, NEW n \in OrderIds,
                          missions'[m].status = "active", orders'[n].mission = m,
                          orders'[n].state \in Open
                   PROVE  /\ orders'[n].robot = missions'[m].robot
                          /\ /\ orders'[<<"mission", m>>].state = "pending"
                             /\ InMemory(<<"mission", m>>)
                             => orders'[n].state = "pending" /\ InMemory(n)
      BY <2>1 DEF OrdersTogether, InMemory
    <3>2. /\ n # o /\ missions'[m] = missions[m]
          /\ orders'[<<"mission", m>>] = orders[<<"mission", m>>]
          /\ orders'[n] = orders[n]
      BY <2>1, <2>2, <2>4, <3>1, OrderNames DEF Open
    <3>. QED BY <3>1, <3>2 DEF OrderInv, OrdersTogether
  <2>7. ActiveRunHasOrder'
    BY <2>1, <2>4, OrderNames DEF OrderInv, ActiveRunHasOrder
  <2>. QED BY <2>5, <2>6, <2>7 DEF OrderInv
<1>3. CASE UNCHANGED <<missions, orders, dropped>>
  BY <1>3, FewerActive
<1>. QED BY <1>1, <1>2, <1>3 DEF Adapt, RegisterExternal, IngestState

\* The orders of a robot leave memory together.
LEMMA OrdersRemove ==
  ASSUME TypeOK, OrderInv, NEW r \in Robots, RemoveExternal(r)
  PROVE  OrderInv'
<1>1. /\ UNCHANGED <<missions, orders>>
      /\ dropped' = dropped \cup {o \in OrderIds : orders[o].robot = r
                                                   /\ orders[o].state \in Open}
  BY DEF RemoveExternal
<1>2. OrderFacts'
  BY <1>1 DEF OrderInv, OrderFacts, Open
<1>3. OrdersTogether'
  BY <1>1, OrderNames DEF OrderInv, OrdersTogether, ActiveRunHasOrder, InMemory
<1>4. ActiveRunHasOrder'
  BY <1>1 DEF OrderInv, ActiveRunHasOrder
<1>. QED BY <1>2, <1>3, <1>4 DEF OrderInv

\* What OrderInv says of one order and of one run, as recovery reads the rows.
RowFacts(ms, os) ==
  \A o \in OrderIds : os[o].state # "none" =>
    /\ os[o].kind = "mission" <=> o[1] = "mission"
    /\ o[1] \in {"mission", "abort"} => os[o].mission = o[2]
    /\ os[o].mission \in Missions =>
         ms[os[o].mission].status \notin {"none", "queued"}
RunKept(ms, os, m) ==
  ms[m].status = "active" =>
    \A o \in OrderIds : os[o].mission = m /\ os[o].state \in Open =>
      /\ os[<<"mission", m>>].state # "none"
      /\ os[<<"mission", m>>].robot = ms[m].robot
      /\ os[o].robot = ms[m].robot

LEMMA OrdersTorn ==
  ASSUME TypeOK, OrderInv, UntouchedOrders, Torn
  PROVE  OrderInv'
<1>. missions \in [Missions -> Mission] /\ orders \in [OrderIds -> Order]
  BY DEF TypeOK
<1>1. ASSUME NEW ms \in [Missions -> Mission], NEW os \in [OrderIds -> Order],
             Hydrate(ms, os), RowFacts(ms, os),
             \A m \in Missions : RunKept(ms, os, m)
      PROVE  OrderInv'
  BY <1>1, HydrateOrders DEF RowFacts, RunKept
<1>2. /\ RowFacts(missions, orders)
      /\ \A m \in Missions : RunKept(missions, orders, m)
  BY DEF RowFacts, RunKept, OrderInv, OrderFacts, OrdersTogether,
         ActiveRunHasOrder
<1>3. ASSUME NEW m \in Missions, NEW r \in Robots, TornDispatch(m, r)
      PROVE  OrderInv'
  <2>. DEFINE ms == [missions EXCEPT ![m].status = "active", ![m].robot = r]
  <2>1. /\ ms \in [Missions -> Mission] /\ missions[m].status = "queued"
        /\ Hydrate(ms, orders)
    BY <1>3 DEF Mission, MissionStatus, TornDispatch
  <2>2. /\ \A n \in Missions : n # m => ms[n] = missions[n]
        /\ ms[m].status = "active"
    BY DEF Mission
  <2>. HIDE DEF ms
  <2>3. \A o \in OrderIds : orders[o].mission = m => orders[o].state = "none"
    BY <2>1 DEF OrderInv, OrderFacts
  <2>4. RowFacts(ms, orders)
    BY <1>2, <2>2 DEF RowFacts
  <2>5. RunKept(ms, orders, m)
    BY <2>3 DEF RunKept, Open
  <2>6. \A n \in Missions : RunKept(ms, orders, n)
    BY <1>2, <2>2, <2>5 DEF RunKept
  <2>. QED BY <1>1, <2>1, <2>4, <2>6
<1>4. ASSUME NEW o \in OrderIds, NEW outcome \in {"done", "failed"},
             TornSettle(o, outcome)
      PROVE  OrderInv'
  <2>. DEFINE os == [orders EXCEPT ![o].state = outcome]
  <2>1. /\ os \in [OrderIds -> Order] /\ orders[o].state \in Open /\ Settles(o)
        /\ Hydrate(missions, os)
    BY <1>4 DEF Order, OrderState, TornSettle
  <2>2. /\ \A n \in OrderIds : n # o => os[n] = orders[n]
        /\ os[o].kind = orders[o].kind /\ os[o].mission = orders[o].mission
        /\ os[o].state = outcome
    BY DEF Order
  <2>. HIDE DEF os
  <2>3. RowFacts(missions, os)
    BY <1>2, <2>1, <2>2 DEF RowFacts, Open
  <2>4. /\ <<"mission", o[2]>> = o /\ outcome # "none" /\ os[o].robot = orders[o].robot
        /\ \A n \in OrderIds : /\ os[n].mission = orders[n].mission
                               /\ os[n].robot = orders[n].robot
                               /\ os[n].state \in Open => orders[n].state \in Open
    <3>1. o[1] = "mission"
      BY <1>2, <2>1 DEF RowFacts, Settles, Open
    <3>2. os[o].robot = orders[o].robot
      BY <1>4 DEF os, Order
    <3>. QED BY <2>2, <3>1, <3>2, <2>1, OrderNames DEF Open
  <2>5. ASSUME NEW m \in Missions
        PROVE  RunKept(missions, os, m)
    <3>1. SUFFICES ASSUME missions[m].status = "active", NEW n \in OrderIds,
                          os[n].mission = m, os[n].state \in Open
                   PROVE  /\ os[<<"mission", m>>].state # "none"
                          /\ os[<<"mission", m>>].robot = missions[m].robot
                          /\ os[n].robot = missions[m].robot
      BY DEF RunKept
    <3>2. /\ orders[<<"mission", m>>].state # "none"
          /\ orders[<<"mission", m>>].robot = missions[m].robot
          /\ orders[n].robot = missions[m].robot
      BY <1>2, <2>4, <3>1 DEF RunKept
    <3>3. <<"mission", m>> \in OrderIds
      BY OrderNames
    <3>. QED BY <2>2, <2>4, <3>2, <3>3
  <2>. QED BY <1>1, <2>1, <2>3, <2>5
<1>5. ASSUME NEW m \in Missions, TornAbort(m)
      PROVE  OrderInv'
  <2>. DEFINE os == OrdersAfterCancel({m})
  <2>1. os \in [OrderIds -> Order] /\ Hydrate(missions, os)
    BY <1>5, AbortOrdersType DEF TornAbort
  <2>2. \A o \in OrderIds :
          /\ os[o].kind = orders[o].kind /\ os[o].mission = orders[o].mission
          /\ os[o].robot = orders[o].robot
          /\ \/ os[o].state = orders[o].state
                /\ ~(InMemory(o) /\ orders[o].state = "pending"
                     /\ orders[o].mission = m)
             \/ InMemory(o) /\ orders[o].state = "pending"
                /\ orders[o].mission = m /\ os[o].state = "failed"
    BY DEF OrdersAfterCancel, Cancelled, Order
  <2>. HIDE DEF os
  <2>3. RowFacts(missions, os)
    BY <1>2, <2>2 DEF RowFacts
  <2>4. ASSUME NEW k \in Missions
        PROVE  RunKept(missions, os, k)
    <3>1. SUFFICES ASSUME missions[k].status = "active", NEW o \in OrderIds,
                          os[o].mission = k, os[o].state \in Open
                   PROVE  /\ os[<<"mission", k>>].state # "none"
                          /\ os[<<"mission", k>>].robot = missions[k].robot
                          /\ os[o].robot = missions[k].robot
      BY DEF RunKept
    <3>2. orders[o].mission = k /\ orders[o].state \in Open
      BY <2>2, <3>1 DEF Open
    <3>3. /\ orders[<<"mission", k>>].robot = missions[k].robot
          /\ orders[<<"mission", k>>].state # "none"
          /\ orders[o].robot = missions[k].robot
      BY <1>2, <3>1, <3>2 DEF RunKept
    <3>. QED BY <2>2, <3>3, OrderNames
  <2>. QED BY <1>1, <2>1, <2>3, <2>4
<1>6. ASSUME NEW s \in Schedules, TornFiring(s)
      PROVE  OrderInv'
  <2>. DEFINE new == NewMission(schedules[s].requested,
                                schedules[s].priority, NoSchedule)
  <2>1. PICK m \in Fresh : Hydrate([missions EXCEPT ![m] = new], orders)
    BY <1>6 DEF TornFiring
  <2>. DEFINE ms == [missions EXCEPT ![m] = new]
  <2>2. new \in Mission /\ new.status = "queued"
    BY DEF NewMission, Mission, MissionStatus, TypeOK, Schedule
  <2>3. /\ ms \in [Missions -> Mission]
        /\ \A n \in Missions : \/ ms[n] = missions[n]
                               \/ /\ missions[n].status = "none"
                                  /\ ms[n].status = "queued"
    BY <2>2 DEF Fresh
  <2>4. Hydrate(ms, orders)
    BY <2>1
  <2>. HIDE DEF ms, new
  <2>5. RowFacts(ms, orders)
    BY <1>2, <2>3 DEF RowFacts
  <2>6. \A n \in Missions : RunKept(ms, orders, n)
    BY <1>2, <2>3 DEF RunKept
  <2>. QED BY <1>1, <2>3, <2>4, <2>5, <2>6
<1>. QED BY <1>3, <1>4, <1>5, <1>6 DEF Torn

LEMMA OrdersClean ==
  ASSUME TypeOK, OrderInv, UntouchedOrders, [CleanNext]_vars
  PROVE  OrderInv'
<1>1. CASE Operate
  BY <1>1, OrdersOperate
<1>2. CASE Adapt
  BY <1>2, OrdersAdapt
<1>3. CASE Plan
  <2>1. UNCHANGED <<missions, orders, dropped>>
    BY <1>3 DEF Plan, CreateSchedule, PatchSchedule, DeleteSchedules
  <2>. QED BY <2>1, FewerActive
<1>4. CASE Elapse
  <2>1. ASSUME NEW stale \in SUBSET Missions, SweepStaleRuns(stale)
        PROVE  OrderInv'
    BY <2>1, FewerActive DEF SweepStaleRuns, TypeOK, Mission
  <2>2. CASE UNCHANGED <<missions, orders, dropped>>
    BY <2>2, FewerActive
  <2>. QED BY <1>4, <2>1, <2>2, OrdersTick DEF Elapse, ScheduleComesDue, GoesStale
<1>5. CASE Restart
  <2>1. /\ missions \in [Missions -> Mission] /\ orders \in [OrderIds -> Order]
        /\ Hydrate(missions, orders)
    BY <1>5 DEF TypeOK, Restart
  <2>2. /\ RowFacts(missions, orders)
        /\ \A m \in Missions : RunKept(missions, orders, m)
    BY DEF RowFacts, RunKept, OrderInv, OrderFacts, OrdersTogether,
           ActiveRunHasOrder
  <2>. QED BY <2>1, <2>2, HydrateOrders DEF RowFacts, RunKept
<1>6. CASE \E r \in Robots : RemoveExternal(r)
  BY <1>6, OrdersRemove
<1>7. CASE UNCHANGED vars
  BY <1>7, FewerActive DEF vars
<1>. QED BY <1>1, <1>2, <1>3, <1>4, <1>5, <1>6, <1>7 DEF CleanNext, SteadyNext

LEMMA InitOrders == Init => OrderInv
<1>1. Init => /\ dropped = {}
              /\ \A o \in OrderIds : orders[o].state = "none"
              /\ \A m \in Missions : missions[m].status = "none"
  BY DEF Init, NoOrderYet, NoMissionYet
<1>. QED BY <1>1 DEF OrderInv, OrderFacts, OrdersTogether, ActiveRunHasOrder,
                     Open

\* How a step may leave a run stranded: what RunsStaySettleable allows.
Excused(m) ==
  LET o == <<"mission", m>> IN
    \/ /\ o \in dropped'
       /\ o \in dropped \/ Deregistered(missions[m].robot)
    \/ /\ o \notin dropped' /\ missions[m].status = "active"
       /\ orders[o].state \in {"done", "failed"} \/ CutShort(o)

\* A step that leaves a run, the end of its order and the memory as they were.
LEMMA RunUndisturbed ==
  ASSUME TypeOK, OrderInv, NEW m \in Missions, dropped' = dropped,
         missions'[m].status = "active" =>
           /\ missions[m].status = "active"
           /\ missions'[m].robot = missions[m].robot
           /\ orders'[<<"mission", m>>].robot = orders[<<"mission", m>>].robot
           /\ orders[<<"mission", m>>].state \in Open =>
                orders'[<<"mission", m>>].state \in Open,
         Stranded(m)'
  PROVE  Excused(m)
<1>1. /\ missions'[m].status = "active" /\ missions[m].status = "active"
      /\ missions'[m].robot = missions[m].robot
      /\ orders'[<<"mission", m>>].robot = orders[<<"mission", m>>].robot
      /\ orders[<<"mission", m>>].state \in Open =>
           orders'[<<"mission", m>>].state \in Open
  BY DEF Stranded
<1>2. /\ orders[<<"mission", m>>].state # "none"
      /\ orders[<<"mission", m>>].robot = missions[m].robot
  BY <1>1 DEF OrderInv, ActiveRunHasOrder
<1>3. orders[<<"mission", m>>].state \in OrderState
  BY OrderNames DEF TypeOK, Order
<1>4. <<"mission", m>> \in dropped \/ orders[<<"mission", m>>].state \notin Open
  BY <1>1, <1>2 DEF Stranded, Settleable, InMemory
<1>. QED BY <1>1, <1>2, <1>3, <1>4 DEF Excused, OrderState, Open

\* What recovery leaves active has an open order: stranded, then, is a run whose
\* own order row has ended while another one is open.
KeptByAnother(ms, os, m) ==
  /\ ms[m].status = "active" /\ dropped' = {}
  /\ os[<<"mission", m>>].state \notin Open
  /\ \E e \in OrderIds : /\ os[e].mission = m /\ os[e].state \in Open
                         /\ orders'[e].mission = m
                         /\ orders'[e].state \in Open

LEMMA HydrateStrands ==
  ASSUME TypeOK, NEW ms \in [Missions -> Mission], NEW os \in [OrderIds -> Order],
         Hydrate(ms, os), NEW m \in Missions, RunKept(ms, os, m), Stranded(m)'
  PROVE  KeptByAnother(ms, os, m)
<1>1. missions'[m] = ms[m] /\ ms[m].status = "active"
      /\ \E o \in OrderIds : os[o].mission = m /\ os[o].state \in Open
  BY DEF Stranded, Hydrate, Mission
<1>2. PICK e \in OrderIds : os[e].mission = m /\ os[e].state \in Open
  BY <1>1
<1>3. os[<<"mission", m>>].robot = ms[m].robot
  BY <1>1, <1>2 DEF RunKept
<1>4. \A o \in OrderIds :
        /\ orders'[o].mission = os[o].mission /\ orders'[o].robot = os[o].robot
        /\ os[o].state \in Open => orders'[o].state \in Open
  BY DEF Hydrate, Order, Open
<1>5. dropped' = {}
  BY DEF Hydrate
<1>6. <<"mission", m>> \in OrderIds
  BY OrderNames
<1>7. os[<<"mission", m>>].state \notin Open
  BY <1>1, <1>3, <1>4, <1>5, <1>6 DEF Stranded, Settleable, InMemory
<1>. QED BY <1>1, <1>2, <1>4, <1>5, <1>7 DEF KeptByAnother

LEMMA OperateExcuses ==
  ASSUME TypeOK, OrderInv, Operate, NEW m \in Missions, Stranded(m)'
  PROVE  Excused(m)
<1>1. ASSUME NEW k \in Missions, NEW p \in BOOLEAN, PauseMission(k, p)
      PROVE  Excused(m)
  <2>1. /\ missions'[m].status = missions[m].status
        /\ missions'[m].robot = missions[m].robot /\ dropped' = dropped
    BY <1>1 DEF PauseMission, TypeOK, Mission
  <2>2. orders'[<<"mission", m>>] = orders[<<"mission", m>>]
    BY <1>1, OrderNames DEF PauseMission, FreeExtra, TypeOK
  <2>. QED BY <2>1, <2>2, RunUndisturbed
<1>2. ASSUME NEW k \in Missions, AbortMission(k)
      PROVE  Excused(m)
  <2>1. dropped' = dropped /\ missions'[k].status = "aborted"
        /\ (m # k => missions'[m] = missions[m])
    BY <1>2 DEF AbortMission, TypeOK, Mission
  <2>2. ASSUME m # k, missions[m].status = "active"
        PROVE  orders'[<<"mission", m>>] = orders[<<"mission", m>>]
    <3>1. /\ <<"mission", m>> \in OrderIds /\ <<"mission", m>>[1] = "mission"
          /\ <<"mission", m>>[2] = m
      BY OrderNames
    <3>2. orders[<<"mission", m>>].mission = m
      BY <2>2, <3>1 DEF OrderInv, OrderFacts, ActiveRunHasOrder
    <3>. QED BY <1>2, <2>2, <3>1, <3>2 DEF AbortMission, OrdersAfterAbort,
                                          OrdersAfterCancel, Cancelled
  <2>. QED BY <2>1, <2>2, RunUndisturbed
<1>3. ASSUME NEW r \in Robots, TeleopGoto(r)
      PROVE  Excused(m)
  <2>1. orders'[<<"mission", m>>] = orders[<<"mission", m>>]
    BY <1>3, OrderNames DEF TeleopGoto, FreeExtra, TypeOK
  <2>. QED BY <1>3, <2>1, RunUndisturbed DEF TeleopGoto
<1>4. ASSUME NEW req \in Requests, NEW p \in Priorities, CreateMission(req, p)
      PROVE  Excused(m)
  <2>1. missions'[m].status = "active" => missions'[m] = missions[m]
    BY <1>4 DEF CreateMission, NewMission, TypeOK
  <2>. QED BY <1>4, <2>1, RunUndisturbed DEF CreateMission
<1>5. ASSUME NEW r \in Robots, NEW c \in Commands, Command(r, c)
      PROVE  Excused(m)
  BY <1>1, <1>2, <1>3, <1>5 DEF Command, TypeOK
<1>. QED BY <1>1, <1>2, <1>3, <1>4, <1>5 DEF Operate

LEMMA AdaptExcuses ==
  ASSUME TypeOK, OrderInv, Adapt, NEW m \in Missions, Stranded(m)'
  PROVE  Excused(m)
<1>1. ASSUME NEW r \in Robots, PullOrders(r)
      PROVE  Excused(m)
  <2>1. \A o \in OrderIds : /\ orders'[o].robot = orders[o].robot
                            /\ orders[o].state \in Open => orders'[o].state \in Open
    BY <1>1 DEF PullOrders, TypeOK, Order, Open
  <2>. QED BY <1>1, <2>1, OrderNames, RunUndisturbed DEF PullOrders
<1>2. ASSUME NEW o \in OrderIds, NEW outcome \in {"done", "failed"},
             SetOrderStatus(o, outcome)
      PROVE  Excused(m)
  <2>1. /\ orders[o].state \in Open /\ dropped' = dropped
        /\ \A n \in OrderIds : n # o => orders'[n] = orders[n]
    BY <1>2 DEF SetOrderStatus, TypeOK
  <2>2. missions'[m].status = "active" =>
          /\ missions'[m] = missions[m]
          /\ ~(Settles(o) /\ m = orders[o].mission)
    BY <1>2 DEF SetOrderStatus, Settles, TypeOK, Mission
  <2>3. o = <<"mission", m>> /\ missions[m].status = "active"
          => Settles(o) /\ m = orders[o].mission
    BY <2>1, DispatchAssumption DEF Settles, OrderInv, OrderFacts, Open
  <2>4. missions'[m].status = "active" =>
          orders'[<<"mission", m>>] = orders[<<"mission", m>>]
    BY <2>1, <2>2, <2>3, OrderNames
  <2>. QED BY <2>1, <2>2, <2>4, RunUndisturbed
<1>3. CASE UNCHANGED <<missions, orders, dropped>>
  BY <1>3, RunUndisturbed
<1>. QED BY <1>1, <1>2, <1>3 DEF Adapt, RegisterExternal, IngestState

\* A run that is dispatched starts with its order at hand.
LEMMA TickExcuses ==
  ASSUME TypeOK, OrderInv, UntouchedOrders, Tick, NEW m \in Missions, Stranded(m)'
  PROVE  Excused(m)
<1>1. PICK f \in NewRunIds : \E a \in Assignments(MissionsAfterSchedules(f)) :
                               Dispatched(MissionsAfterSchedules(f), a)
  BY DEF Tick
<1>. DEFINE ms == MissionsAfterSchedules(f)
<1>2. PICK a \in Assignments(ms) : Dispatched(ms, a)
  BY <1>1
<1>3. ms \in [Missions -> Mission]
  BY SchedulesGiveRuns
<1>4. \/ ms[m] = missions[m]
      \/ missions[m].status = "none" /\ ms[m].status = "queued"
  BY SchedulesKeepRuns DEF TypeOK
<1>5. dropped' = dropped
  BY DEF Tick
<1>6. /\ <<"mission", m>> \in OrderIds /\ <<"mission", m>>[1] = "mission"
      /\ <<"mission", m>>[2] = m
  BY OrderNames
<1>7. CASE m \in Assigned(ms, a)
  <2>1. missions[m].status \in {"none", "queued"}
    BY <1>3, <1>4, <1>7, AssignmentsAreDisjoint
  <2>2. orders[<<"mission", m>>].state = "none"
    BY <2>1 DEF UntouchedOrders
  <2>3. <<"mission", m>> \notin dropped'
    BY <1>5, <2>2 DEF OrderInv, OrderFacts
  <2>4. missions'[m].robot = a[m]
    BY <1>2, <1>3, <1>7 DEF Dispatched, Mission
  <2>5. orders'[<<"mission", m>>] = NewOrder("mission", a[m], m)
    BY <1>2, <1>6, <1>7 DEF Dispatched
  <2>. QED BY <2>3, <2>4, <2>5 DEF Stranded, Settleable, InMemory, NewOrder, Open
<1>8. CASE m \notin Assigned(ms, a)
  <2>1. missions'[m] = ms[m]
    BY <1>2, <1>8 DEF Dispatched
  <2>2. orders'[<<"mission", m>>] = orders[<<"mission", m>>]
    BY <1>2, <1>6, <1>8 DEF Dispatched
  <2>. QED BY <1>4, <1>5, <2>1, <2>2, RunUndisturbed
<1>. QED BY <1>7, <1>8

\* A deregistration drops the orders addressed to its robot.
LEMMA RemoveExcuses ==
  ASSUME TypeOK, OrderInv, NEW r \in Robots, RemoveExternal(r),
         NEW m \in Missions, Stranded(m)'
  PROVE  Excused(m)
<1>1. /\ UNCHANGED <<missions, orders>> /\ Deregistered(r)
      /\ dropped' = dropped \cup {o \in OrderIds : orders[o].robot = r
                                                   /\ orders[o].state \in Open}
  BY DEF RemoveExternal, Deregistered, TypeOK
<1>2. CASE dropped' = dropped
  BY <1>1, <1>2, RunUndisturbed
<1>3. missions[m].status = "active"
  BY <1>1 DEF Stranded
<1>4. /\ orders[<<"mission", m>>].robot = missions[m].robot
      /\ orders[<<"mission", m>>].state \in OrderState
      /\ orders[<<"mission", m>>].state # "none"
  BY <1>3, OrderNames DEF OrderInv, ActiveRunHasOrder, TypeOK, Order
<1>5. CASE <<"mission", m>> \in dropped'
  BY <1>1, <1>4, <1>5 DEF Excused
<1>6. CASE <<"mission", m>> \notin dropped'
  <2>1. orders[<<"mission", m>>].state \notin Open
    BY <1>1, <1>4, <1>6 DEF Stranded, Settleable, InMemory
  <2>. QED BY <1>3, <1>4, <1>6, <2>1 DEF Excused, OrderState, Open
<1>. QED BY <1>5, <1>6

\* What the rows say of the runs, as recovery relies on it.
LEMMA RowsKept ==
  ASSUME OrderInv, NEW m \in Missions
  PROVE  RunKept(missions, orders, m)
  BY DEF RunKept, OrderInv, OrderFacts, OrdersTogether, ActiveRunHasOrder

\* Recovery strands no run of which it reads the order row as it was.
LEMMA RestartExcuses ==
  ASSUME TypeOK, OrderInv, NEW ms \in [Missions -> Mission],
         NEW os \in [OrderIds -> Order], Hydrate(ms, os), NEW m \in Missions,
         ms[m].status = "active" => ms[m] = missions[m],
         os[<<"mission", m>>].state \in Open \/
           os[<<"mission", m>>].state = orders[<<"mission", m>>].state,
         RunKept(ms, os, m), Stranded(m)'
  PROVE  Excused(m)
<1>1. /\ missions[m].status = "active" /\ dropped' = {}
      /\ orders[<<"mission", m>>].state \notin Open
  <2>1. KeptByAnother(ms, os, m)
    BY HydrateStrands
  <2>. QED BY <2>1 DEF KeptByAnother, Open
<1>2. /\ orders[<<"mission", m>>].state # "none"
      /\ orders[<<"mission", m>>].state \in OrderState
  BY <1>1, OrderNames DEF OrderInv, ActiveRunHasOrder, TypeOK, Order
<1>. QED BY <1>1, <1>2 DEF Excused, OrderState, Open

\* A crash inside a handler strands a run only where it cuts a receipt short: a
\* cut-off abort cancels the other orders of its run together with its own.
LEMMA TornExcuses ==
  ASSUME TypeOK, OrderInv, Torn, NEW m \in Missions, Stranded(m)'
  PROVE  Excused(m)
<1>. missions \in [Missions -> Mission] /\ orders \in [OrderIds -> Order]
  BY DEF TypeOK
<1>0. <<"mission", m>> \in OrderIds
  BY OrderNames
<1>1. ASSUME NEW k \in Missions, NEW r \in Robots, TornDispatch(k, r)
      PROVE  Excused(m)
  <2>. DEFINE ms == [missions EXCEPT ![k].status = "active", ![k].robot = r]
  <2>1. /\ ms \in [Missions -> Mission] /\ missions[k].status = "queued"
        /\ Hydrate(ms, orders)
    BY <1>1 DEF Mission, MissionStatus, TornDispatch
  <2>2. \A n \in Missions : n # k => ms[n] = missions[n]
    OBVIOUS
  <2>. HIDE DEF ms
  <2>3. \A o \in OrderIds : orders[o].mission = k => orders[o].state = "none"
    BY <2>1 DEF OrderInv, OrderFacts
  <2>4. RunKept(ms, orders, m)
    BY <2>2, <2>3, RowsKept DEF RunKept, Open
  <2>5. m # k
    <3>1. KeptByAnother(ms, orders, m)
      BY <2>1, <2>4, HydrateStrands
    <3>. QED BY <2>3, <3>1 DEF KeptByAnother, Open
  <2>. QED BY <2>1, <2>2, <2>4, <2>5, RestartExcuses
<1>2. ASSUME NEW o \in OrderIds, NEW outcome \in {"done", "failed"},
             TornSettle(o, outcome)
      PROVE  Excused(m)
  <2>. DEFINE os == [orders EXCEPT ![o].state = outcome]
  <2>1. /\ os \in [OrderIds -> Order] /\ orders[o].state \in Open /\ Settles(o)
        /\ Hydrate(missions, os)
    BY <1>2 DEF Order, OrderState, TornSettle
  <2>2. /\ \A n \in OrderIds : n # o => os[n] = orders[n]
        /\ os[o].state = outcome /\ os[o].mission = orders[o].mission
        /\ os[o].robot = orders[o].robot
    BY DEF Order
  <2>. HIDE DEF os
  <2>3. RunKept(missions, os, m)
    <3>1. SUFFICES ASSUME missions[m].status = "active", NEW n \in OrderIds,
                          os[n].mission = m, os[n].state \in Open
                   PROVE  /\ os[<<"mission", m>>].state # "none"
                          /\ os[<<"mission", m>>].robot = missions[m].robot
                          /\ os[n].robot = missions[m].robot
      BY DEF RunKept
    <3>2. n # o /\ orders[n].mission = m /\ orders[n].state \in Open
      BY <2>2, <3>1 DEF Open
    <3>3. /\ orders[<<"mission", m>>].state # "none"
          /\ orders[<<"mission", m>>].robot = missions[m].robot
          /\ orders[n].robot = missions[m].robot
      BY <3>1, <3>2, RowsKept DEF RunKept
    <3>. QED BY <1>0, <2>2, <3>2, <3>3
  <2>4. CASE o = <<"mission", m>>
    <3>1. /\ missions[m].status = "active" /\ dropped' = {}
          /\ \E e \in OrderIds : /\ os[e].mission = m /\ os[e].state \in Open
                                 /\ orders'[e].mission = m
                                 /\ orders'[e].state \in Open
      <4>1. KeptByAnother(missions, os, m)
        BY <2>1, <2>3, HydrateStrands
      <4>. QED BY <4>1 DEF KeptByAnother
    <3>2. PICK e \in OrderIds : /\ os[e].state \in Open /\ orders'[e].mission = m
                                /\ orders'[e].state \in Open
      BY <3>1
    <3>3. e # o /\ o[2] = m
      BY <2>2, <2>4, <3>2 DEF Open
    <3>4. CutShort(o)
      BY <1>2, <3>2, <3>3 DEF CutShort
    <3>. QED BY <2>4, <3>1, <3>4 DEF Excused
  <2>5. CASE o # <<"mission", m>>
    BY <1>0, <2>1, <2>2, <2>3, <2>5, RestartExcuses
  <2>. QED BY <2>4, <2>5
<1>3. ASSUME NEW k \in Missions, TornAbort(k)
      PROVE  Excused(m)
  <2>. DEFINE os == OrdersAfterCancel({k})
  <2>1. os \in [OrderIds -> Order] /\ Hydrate(missions, os)
    BY <1>3, AbortOrdersType DEF TornAbort
  <2>2. \A o \in OrderIds :
          /\ os[o].mission = orders[o].mission /\ os[o].robot = orders[o].robot
          /\ \/ os[o].state = orders[o].state
                /\ ~(InMemory(o) /\ orders[o].state = "pending"
                     /\ orders[o].mission = k)
             \/ InMemory(o) /\ orders[o].state = "pending"
                /\ orders[o].mission = k /\ os[o].state = "failed"
    BY DEF OrdersAfterCancel, Cancelled, Order
  <2>. HIDE DEF os
  <2>3. RunKept(missions, os, m)
    <3>1. SUFFICES ASSUME missions[m].status = "active", NEW n \in OrderIds,
                          os[n].mission = m, os[n].state \in Open
                   PROVE  /\ os[<<"mission", m>>].state # "none"
                          /\ os[<<"mission", m>>].robot = missions[m].robot
                          /\ os[n].robot = missions[m].robot
      BY DEF RunKept
    <3>2. orders[n].mission = m /\ orders[n].state \in Open
      BY <2>2, <3>1 DEF Open
    <3>3. /\ orders[<<"mission", m>>].state # "none"
          /\ orders[<<"mission", m>>].robot = missions[m].robot
          /\ orders[n].robot = missions[m].robot
      BY <3>1, <3>2, RowsKept DEF RunKept
    <3>. QED BY <1>0, <2>2, <3>3
  <2>4. CASE os[<<"mission", m>>].state = orders[<<"mission", m>>].state
    BY <2>1, <2>3, <2>4, RestartExcuses
  <2>5. CASE os[<<"mission", m>>].state # orders[<<"mission", m>>].state
    <3>1. /\ InMemory(<<"mission", m>>) /\ orders[<<"mission", m>>].state = "pending"
          /\ orders[<<"mission", m>>].mission = k
      BY <1>0, <2>2, <2>5
    <3>2. /\ missions[m].status = "active"
          /\ \E e \in OrderIds : os[e].mission = m /\ os[e].state \in Open
      <4>1. KeptByAnother(missions, os, m)
        BY <2>1, <2>3, HydrateStrands
      <4>. QED BY <4>1 DEF KeptByAnother
    <3>3. PICK e \in OrderIds : os[e].mission = m /\ os[e].state \in Open
      BY <3>2
    <3>4. orders[e].mission = m /\ orders[e].state \in Open
          /\ ~(InMemory(e) /\ orders[e].state = "pending" /\ m = k)
      BY <2>2, <3>3 DEF Open
    <3>5. k = m
      BY <1>0, <3>1, OrderNames DEF OrderInv, OrderFacts
    <3>. QED BY <3>1, <3>2, <3>4, <3>5 DEF OrderInv, OrdersTogether
  <2>. QED BY <2>4, <2>5
<1>4. ASSUME NEW s \in Schedules, TornFiring(s)
      PROVE  Excused(m)
  <2>. DEFINE new == NewMission(schedules[s].requested,
                                schedules[s].priority, NoSchedule)
  <2>1. PICK k \in Fresh : Hydrate([missions EXCEPT ![k] = new], orders)
    BY <1>4 DEF TornFiring
  <2>. DEFINE ms == [missions EXCEPT ![k] = new]
  <2>2. new \in Mission /\ new.status = "queued"
    BY DEF NewMission, Mission, MissionStatus, TypeOK, Schedule
  <2>3. ms \in [Missions -> Mission]
        /\ (ms[m] = missions[m] \/ ms[m].status = "queued")
    BY <2>2 DEF Fresh
  <2>4. Hydrate(ms, orders)
    BY <2>1
  <2>. HIDE DEF ms, new
  <2>5. RunKept(ms, orders, m)
    BY <2>3, RowsKept DEF RunKept
  <2>. QED BY <2>3, <2>4, <2>5, RestartExcuses
<1>. QED BY <1>1, <1>2, <1>3, <1>4 DEF Torn

LEMMA SettleableStep ==
  ASSUME TypeOK, OrderInv, UntouchedOrders, [Next]_vars, NEW m \in Missions,
         Stranded(m)'
  PROVE  Excused(m)
<1>1. CASE UNCHANGED <<missions, orders, dropped>>
  BY <1>1, RunUndisturbed
<1>2. CASE Plan
  BY <1>1, <1>2 DEF Plan, CreateSchedule, PatchSchedule, DeleteSchedules
<1>3. CASE Elapse
  <2>1. ASSUME NEW stale \in SUBSET Missions, SweepStaleRuns(stale)
        PROVE  Excused(m)
    <3>1. missions'[m].status = "active" => missions'[m] = missions[m]
      BY <2>1 DEF SweepStaleRuns, TypeOK, Mission
    <3>. QED BY <2>1, <3>1, RunUndisturbed DEF SweepStaleRuns
  <2>. QED BY <1>1, <1>3, <2>1, TickExcuses DEF Elapse, ScheduleComesDue, GoesStale
<1>4. CASE Restart
  <2>1. /\ missions \in [Missions -> Mission] /\ orders \in [OrderIds -> Order]
        /\ Hydrate(missions, orders)
    BY <1>4 DEF TypeOK, Restart
  <2>. QED BY <2>1, RowsKept, RestartExcuses
<1>5. CASE UNCHANGED vars
  BY <1>1, <1>5 DEF vars
<1>. QED BY <1>2, <1>3, <1>4, <1>5, OperateExcuses, AdaptExcuses, RemoveExcuses,
            TornExcuses DEF Next, CleanNext, SteadyNext

\* A run can be settled by its adapter's receipt from its dispatch to its end, but
\* for the two causes the property names: whatever is paused, resumed, aborted
\* and served again around it, and wherever the process dies.
THEOREM RunsCanEnd == Spec => RunsStaySettleable
<1>1. Init => TypeOK /\ OrderInv /\ UntouchedOrders
  BY InitType, InitOrders, InitUntouched
<1>2. /\ TypeOK /\ OrderInv /\ UntouchedOrders /\ [Next]_vars
      => (TypeOK /\ OrderInv /\ UntouchedOrders)'
  BY NextType, OrdersClean, OrdersTorn, EndsStep DEF Next
<1>3. /\ TypeOK /\ OrderInv /\ UntouchedOrders /\ [Next]_vars
      => \A m \in Missions : Stranded(m)' => Excused(m)
  BY SettleableStep
<1>. QED BY <1>1, <1>2, <1>3, PTL DEF Spec, RunsStaySettleable, Excused

-----------------------------------------------------------------------------
(* The dispatcher hands out robots in order.                               *)

\* No order names a run that waits for a robot: a torn dispatch of it fails.
StartedRunsNamed ==
  \A o \in OrderIds :
    orders[o].state # "none" /\ orders[o].mission \in Missions =>
      missions[orders[o].mission].status \notin {"none", "queued"}

\* The orders a step writes name runs that have been started.
NamesStarted(ms, os) ==
  /\ \A m \in Missions : ms[m].status \in {"none", "queued"} =>
                           missions[m].status \in {"none", "queued"}
  /\ \A o \in OrderIds :
       \/ /\ os[o].mission = orders[o].mission
          /\ os[o].state # "none" => orders[o].state # "none"
       \/ os[o].mission \in Missions =>
            ms[os[o].mission].status \notin {"none", "queued"}

LEMMA NamesKept ==
  ASSUME StartedRunsNamed, NamesStarted(missions', orders')
  PROVE  StartedRunsNamed'
  BY DEF StartedRunsNamed, NamesStarted

LEMMA NamesHydrate ==
  ASSUME StartedRunsNamed, NEW ms \in [Missions -> Mission],
         NEW os \in [OrderIds -> Order], NamesStarted(ms, os), Hydrate(ms, os)
  PROVE  StartedRunsNamed'
<1>1. \A o \in OrderIds : /\ orders'[o].mission = os[o].mission
                          /\ orders'[o].state # "none" => os[o].state # "none"
  BY DEF Hydrate, Order
<1>2. \A m \in Missions : \/ missions'[m] = ms[m]
                          \/ missions'[m].status = "failed"
  BY DEF Hydrate, Mission
<1>3. NamesStarted(missions', orders')
  BY <1>1, <1>2 DEF NamesStarted
<1>. QED BY <1>3, NamesKept

LEMMA NamesOperate ==
  ASSUME TypeOK, StartedRunsNamed, Operate
  PROVE  StartedRunsNamed'
<1>1. ASSUME NEW m \in Missions, NEW p \in BOOLEAN, PauseMission(m, p)
      PROVE  StartedRunsNamed'
  <2>1. \A k \in Missions : missions'[k].status = missions[k].status
    BY <1>1 DEF PauseMission, TypeOK, Mission
  <2>2. \A o \in OrderIds : orders'[o] = orders[o] \/ orders'[o].mission = m
    <3>1. \A k, r : NewOrder(k, r, m).mission = m
      BY DEF NewOrder
    <3>2. CASE orders' # orders
      <4>1. PICK n \in FreeExtra :
              orders' = [orders EXCEPT ![<<"extra", n>>] =
                           NewOrder(IF p THEN "pause" ELSE "resume",
                                    missions[m].robot, m)]
        BY <1>1, <3>2 DEF PauseMission
      <4>. QED BY <3>1, <4>1 DEF TypeOK
    <3>. QED BY <3>2
  <2>3. missions[m].status = "active"
    BY <1>1 DEF PauseMission
  <2>4. NamesStarted(missions', orders')
    BY <2>1, <2>2, <2>3 DEF NamesStarted
  <2>. QED BY <2>4, NamesKept
<1>2. ASSUME NEW m \in Missions, AbortMission(m)
      PROVE  StartedRunsNamed'
  <2>1. /\ missions'[m].status = "aborted"
        /\ \A k \in Missions : k # m => missions'[k] = missions[k]
    BY <1>2 DEF AbortMission, TypeOK, Mission
  <2>2. \A o \in OrderIds :
          \/ orders'[o] = orders[o]
          \/ orders'[o].mission = m
    BY <1>2 DEF AbortMission, OrdersAfterAbort, OrdersAfterCancel, Cancelled,
                NewOrder, TypeOK, Order
  <2>3. NamesStarted(missions', orders')
    BY <2>1, <2>2 DEF NamesStarted
  <2>. QED BY <2>3, NamesKept
<1>3. ASSUME NEW r \in Robots, TeleopGoto(r)
      PROVE  StartedRunsNamed'
  <2>1. \A o \in OrderIds : orders'[o] = orders[o] \/ orders'[o].mission = NoMission
    BY <1>3 DEF TeleopGoto, TypeOK, NewOrder
  <2>2. missions' = missions
    BY <1>3 DEF TeleopGoto
  <2>3. NamesStarted(missions', orders')
    BY <2>1, <2>2, DispatchAssumption DEF NamesStarted
  <2>. QED BY <2>3, NamesKept
<1>4. ASSUME NEW req \in Requests, NEW p \in Priorities, CreateMission(req, p)
      PROVE  StartedRunsNamed'
  BY <1>4 DEF CreateMission, Fresh, NewMission, TypeOK, StartedRunsNamed
<1>5. ASSUME NEW r \in Robots, NEW c \in Commands, Command(r, c)
      PROVE  StartedRunsNamed'
  BY <1>1, <1>2, <1>3, <1>5 DEF Command, TypeOK
<1>. QED BY <1>1, <1>2, <1>3, <1>4, <1>5 DEF Operate

LEMMA NamesTick ==
  ASSUME TypeOK, StartedRunsNamed, Tick
  PROVE  StartedRunsNamed'
<1>1. PICK f \in NewRunIds : \E a \in Assignments(MissionsAfterSchedules(f)) :
                               Dispatched(MissionsAfterSchedules(f), a)
  BY DEF Tick
<1>. DEFINE ms == MissionsAfterSchedules(f)
<1>2. PICK a \in Assignments(ms) : Dispatched(ms, a)
  BY <1>1
<1>3. ms \in [Missions -> Mission]
  BY SchedulesGiveRuns
<1>4. \A m \in Missions :
        \/ ms[m] = missions[m]
        \/ missions[m].status = "none" /\ ms[m].status = "queued"
  BY SchedulesKeepRuns DEF TypeOK
<1>5. \A m \in Missions : IF m \in Assigned(ms, a)
                            THEN missions'[m].status = "active"
                            ELSE missions'[m] = ms[m]
  BY <1>2, <1>3 DEF Dispatched, Mission
<1>6. \A m \in Assigned(ms, a) : missions[m].status \in {"none", "queued"}
  BY <1>3, <1>4, AssignmentsAreDisjoint
<1>7. \A r, m : NewOrder("mission", r, m).mission = m
  BY DEF NewOrder
<1>8. \A o \in OrderIds : \/ orders'[o] = orders[o]
                          \/ orders'[o].mission \in Assigned(ms, a)
  BY <1>2, <1>7 DEF Dispatched
<1>. HIDE DEF ms
<1>9. NamesStarted(missions', orders')
  BY <1>4, <1>5, <1>6, <1>8 DEF NamesStarted
<1>. QED BY <1>9, NamesKept

LEMMA NamesTorn ==
  ASSUME TypeOK, StartedRunsNamed, Torn
  PROVE  StartedRunsNamed'
<1>. missions \in [Missions -> Mission] /\ orders \in [OrderIds -> Order]
  BY DEF TypeOK
<1>1. ASSUME NEW m \in Missions, NEW r \in Robots, TornDispatch(m, r)
      PROVE  StartedRunsNamed'
  <2>. DEFINE ms == [missions EXCEPT ![m].status = "active", ![m].robot = r]
  <2>1. ms \in [Missions -> Mission] /\ Hydrate(ms, orders)
    BY <1>1 DEF Mission, MissionStatus, TornDispatch
  <2>2. /\ \A n \in Missions : n # m => ms[n].status = missions[n].status
        /\ ms[m].status = "active"
    BY DEF Mission
  <2>. HIDE DEF ms
  <2>3. NamesStarted(ms, orders)
    BY <2>2 DEF NamesStarted
  <2>. QED BY <2>1, <2>3, NamesHydrate
<1>2. ASSUME NEW o \in OrderIds, NEW outcome \in {"done", "failed"},
             TornSettle(o, outcome)
      PROVE  StartedRunsNamed'
  <2>. DEFINE os == [orders EXCEPT ![o].state = outcome]
  <2>1. /\ os \in [OrderIds -> Order] /\ orders[o].state \in Open
        /\ Hydrate(missions, os)
    BY <1>2 DEF Order, OrderState, TornSettle
  <2>2. /\ \A n \in OrderIds : n # o => os[n] = orders[n]
        /\ os[o].mission = orders[o].mission
    BY DEF Order
  <2>. HIDE DEF os
  <2>3. NamesStarted(missions, os)
    BY <2>1, <2>2 DEF NamesStarted, Open
  <2>. QED BY <2>1, <2>3, NamesHydrate
<1>3. ASSUME NEW m \in Missions, TornAbort(m)
      PROVE  StartedRunsNamed'
  <2>1. OrdersAfterCancel({m}) \in [OrderIds -> Order]
    BY AbortOrdersType
  <2>2. NamesStarted(missions, OrdersAfterCancel({m}))
    BY DEF NamesStarted, OrdersAfterCancel, Cancelled, Order
  <2>. QED BY <1>3, <2>1, <2>2, NamesHydrate DEF TornAbort
<1>4. ASSUME NEW s \in Schedules, TornFiring(s)
      PROVE  StartedRunsNamed'
  <2>. DEFINE new == NewMission(schedules[s].requested,
                                schedules[s].priority, NoSchedule)
  <2>1. PICK m \in Fresh : Hydrate([missions EXCEPT ![m] = new], orders)
    BY <1>4 DEF TornFiring
  <2>. DEFINE ms == [missions EXCEPT ![m] = new]
  <2>2. new \in Mission /\ new.status = "queued"
    BY DEF NewMission, Mission, MissionStatus, TypeOK, Schedule
  <2>3. /\ ms \in [Missions -> Mission]
        /\ \A n \in Missions : \/ ms[n] = missions[n]
                               \/ missions[n].status = "none"
    BY <2>2 DEF Fresh
  <2>4. Hydrate(ms, orders)
    BY <2>1
  <2>. HIDE DEF ms, new
  <2>5. NamesStarted(ms, orders)
    BY <2>3 DEF NamesStarted
  <2>. QED BY <2>3, <2>4, <2>5, NamesHydrate
<1>. QED BY <1>1, <1>2, <1>3, <1>4 DEF Torn

LEMMA NamesStep ==
  ASSUME TypeOK, StartedRunsNamed, [Next]_vars
  PROVE  StartedRunsNamed'
<1>1. ASSUME NEW r \in Robots, PullOrders(r)
      PROVE  StartedRunsNamed'
  <2>1. NamesStarted(missions', orders')
    BY <1>1 DEF PullOrders, TypeOK, Order, NamesStarted
  <2>. QED BY <2>1, NamesKept
<1>2. ASSUME NEW o \in OrderIds, NEW outcome \in {"done", "failed"},
             SetOrderStatus(o, outcome)
      PROVE  StartedRunsNamed'
  <2>1. \A n \in OrderIds : \/ orders'[n] = orders[n]
                            \/ /\ orders[n].state \in Open
                               /\ orders'[n].mission = orders[n].mission
    BY <1>2 DEF SetOrderStatus, TypeOK, Order
  <2>2. \A m \in Missions : \/ missions'[m] = missions[m]
                            \/ missions'[m].status = outcome
    BY <1>2 DEF SetOrderStatus, TypeOK, Mission
  <2>3. NamesStarted(missions', orders')
    BY <2>1, <2>2 DEF NamesStarted, Open
  <2>. QED BY <2>3, NamesKept
<1>3. ASSUME NEW stale \in SUBSET Missions, SweepStaleRuns(stale)
      PROVE  StartedRunsNamed'
  <2>1. NamesStarted(missions', orders')
    BY <1>3 DEF SweepStaleRuns, TypeOK, Mission, NamesStarted
  <2>. QED BY <2>1, NamesKept
<1>4. CASE UNCHANGED <<missions, orders>>
  BY <1>4 DEF StartedRunsNamed
<1>5. CASE Restart
  <2>1. NamesStarted(missions, orders)
    BY DEF NamesStarted
  <2>. QED BY <1>5, <2>1, NamesHydrate DEF Restart, TypeOK
<1>6. CASE Adapt
  BY <1>1, <1>2, <1>4, <1>6 DEF Adapt, RegisterExternal, IngestState
<1>7. CASE Plan
  BY <1>4, <1>7 DEF Plan, CreateSchedule, PatchSchedule, DeleteSchedules
<1>8. CASE Elapse
  BY <1>3, <1>4, <1>8, NamesTick DEF Elapse, ScheduleComesDue, GoesStale
<1>9. CASE UNCHANGED vars \/ \E r \in Robots : RemoveExternal(r)
  BY <1>4, <1>9 DEF vars, RemoveExternal
<1>. QED BY <1>5, <1>6, <1>7, <1>8, <1>9, NamesOperate, NamesTorn
         DEF Next, CleanNext, SteadyNext

\* What NoOvertaking says of one step.
InOrder ==
  \A m, n \in Missions :
    /\ missions[m].status = "queued" /\ missions'[m].status = "active"
    /\ missions[n].status = "queued" /\ missions'[n].status = "queued"
    /\ Eligible(missions, n, missions'[m].robot)
    => \/ missions[m].priority < missions[n].priority
       \/ missions[m].priority = missions[n].priority /\ m < n

LEMMA TickInOrder ==
  ASSUME TypeOK, Tick
  PROVE  InOrder
<1>1. PICK f \in NewRunIds : \E a \in Assignments(MissionsAfterSchedules(f)) :
                               Dispatched(MissionsAfterSchedules(f), a)
  BY DEF Tick
<1>. DEFINE ms == MissionsAfterSchedules(f)
<1>2. PICK a \in Assignments(ms) : Dispatched(ms, a)
  BY <1>1
<1>3. ms \in [Missions -> Mission]
  BY SchedulesGiveRuns
<1>4. \A m \in Missions : missions[m].status = "queued" => ms[m] = missions[m]
  BY SchedulesKeepRuns DEF TypeOK
<1>5. \A m \in Missions : IF m \in Assigned(ms, a)
                            THEN /\ missions'[m].status = "active"
                                 /\ missions'[m].robot = a[m]
                            ELSE missions'[m] = ms[m]
  BY <1>2, <1>3 DEF Dispatched, Mission
<1>. HIDE DEF ms
<1>6. SUFFICES ASSUME NEW m \in Missions, NEW n \in Missions,
                      missions[m].status = "queued", missions'[m].status = "active",
                      missions[n].status = "queued", missions'[n].status = "queued",
                      Eligible(missions, n, missions'[m].robot)
               PROVE  \/ missions[m].priority < missions[n].priority
                      \/ missions[m].priority = missions[n].priority /\ m < n
  BY DEF InOrder
<1>7. /\ m \in Assigned(ms, a) /\ n \notin Assigned(ms, a)
      /\ missions'[m].robot = a[m] /\ ms[m] = missions[m] /\ ms[n] = missions[n]
  BY <1>4, <1>5, <1>6
<1>8. n \in Queued(ms) /\ a[n] = NoRobot
  BY <1>6, <1>7 DEF Queued, Assigned
<1>9. a[m] \in Robots /\ \A k \in Assigned(ms, a) : a[k] = a[m] => k = m
  BY <1>3, <1>7, AssignmentsAreDisjoint
<1>10. Eligible(ms, n, a[m])
  BY <1>6, <1>7 DEF Eligible
<1>11. a[m] \in {a[k] : k \in {i \in Queued(ms) : Before(i, n, ms)}}
  BY <1>8, <1>9, <1>10, DispatchAssumption DEF Assignments
<1>12. PICK k \in Queued(ms) : Before(k, n, ms) /\ a[k] = a[m]
  BY <1>11
<1>13. k = m
  BY <1>9, <1>12, DispatchAssumption DEF Assigned
<1>. QED BY <1>7, <1>12, <1>13 DEF Before

\* A run that a crash cuts off after its first row is not handed a robot.
LEMMA CutInOrder ==
  ASSUME TypeOK, StartedRunsNamed, Torn
  PROVE  \A m \in Missions :
           missions[m].status = "queued" => missions'[m].status # "active"
<1>. missions \in [Missions -> Mission]
  BY DEF TypeOK
<1>1. ASSUME NEW k \in Missions, NEW r \in Robots, TornDispatch(k, r),
             NEW m \in Missions, missions[m].status = "queued"
      PROVE  missions'[m].status # "active"
  <2>1. \A o \in OrderIds : orders[o].mission = m => orders[o].state = "none"
    BY <1>1 DEF StartedRunsNamed
  <2>2. ~\E o \in OrderIds : orders[o].mission = m /\ orders[o].state \in Open
    BY <2>1 DEF Open
  <2>3. CASE m = k
    BY <1>1, <2>2, <2>3 DEF TornDispatch, Hydrate, Mission
  <2>4. CASE m # k
    BY <1>1, <2>4 DEF TornDispatch, Hydrate, Mission
  <2>. QED BY <2>3, <2>4
<1>2. ASSUME NEW s \in Schedules, TornFiring(s),
             NEW m \in Missions, missions[m].status = "queued"
      PROVE  missions'[m].status # "active"
  BY <1>2 DEF TornFiring, Fresh, Hydrate
<1>3. ASSUME NEW o \in OrderIds, NEW outcome \in {"done", "failed"},
             TornSettle(o, outcome),
             NEW m \in Missions, missions[m].status = "queued"
      PROVE  missions'[m].status # "active"
  BY <1>3 DEF TornSettle, Hydrate
<1>4. ASSUME NEW k \in Missions, TornAbort(k),
             NEW m \in Missions, missions[m].status = "queued"
      PROVE  missions'[m].status # "active"
  BY <1>4 DEF TornAbort, Hydrate
<1>. QED BY <1>1, <1>2, <1>3, <1>4 DEF Torn

LEMMA StepsInOrder ==
  ASSUME TypeOK, StartedRunsNamed, [Next]_vars
  PROVE  InOrder
<1>1. CASE Tick
  BY <1>1, TickInOrder
<1>2. ASSUME \A m \in Missions :
               missions[m].status = "queued" => missions'[m].status # "active"
      PROVE  InOrder
  BY <1>2 DEF InOrder
<1>3. CASE Torn
  BY <1>2, <1>3, CutInOrder
<1>4. CASE Operate
  <2>1. ASSUME NEW m \in Missions, NEW p \in BOOLEAN, PauseMission(m, p)
        PROVE  InOrder
    BY <1>2, <2>1 DEF PauseMission, TypeOK, Mission
  <2>2. ASSUME NEW m \in Missions, AbortMission(m)
        PROVE  InOrder
    BY <1>2, <2>2 DEF AbortMission, TypeOK, Mission
  <2>3. ASSUME NEW r \in Robots, TeleopGoto(r)
        PROVE  InOrder
    BY <1>2, <2>3 DEF TeleopGoto
  <2>4. ASSUME NEW req \in Requests, NEW p \in Priorities, CreateMission(req, p)
        PROVE  InOrder
    BY <1>2, <2>4 DEF CreateMission, Fresh, NewMission, TypeOK
  <2>5. ASSUME NEW r \in Robots, NEW c \in Commands, Command(r, c)
        PROVE  InOrder
    BY <2>1, <2>2, <2>3, <2>5 DEF Command, TypeOK
  <2>. QED BY <1>4, <2>1, <2>2, <2>3, <2>4, <2>5 DEF Operate
<1>5. CASE Adapt
  <2>1. ASSUME NEW o \in OrderIds, NEW outcome \in {"done", "failed"},
               SetOrderStatus(o, outcome)
        PROVE  InOrder
    <3>1. \A m \in Missions : \/ missions'[m] = missions[m]
                              \/ missions'[m].status = outcome
      BY <2>1 DEF SetOrderStatus, TypeOK, Mission
    <3>. QED BY <1>2, <3>1
  <2>2. CASE missions' = missions
    BY <1>2, <2>2
  <2>. QED BY <1>5, <2>1, <2>2 DEF Adapt, PullOrders, RegisterExternal, IngestState
<1>6. CASE Plan
  BY <1>2, <1>6 DEF Plan, CreateSchedule, PatchSchedule, DeleteSchedules
<1>7. CASE Elapse /\ ~Tick
  <2>1. ASSUME NEW stale \in SUBSET Missions, SweepStaleRuns(stale)
        PROVE  InOrder
    BY <1>2, <2>1 DEF SweepStaleRuns, TypeOK, Mission
  <2>2. CASE missions' = missions
    BY <1>2, <2>2
  <2>. QED BY <1>7, <2>1, <2>2 DEF Elapse, ScheduleComesDue, GoesStale
<1>8. CASE Restart
  BY <1>2, <1>8 DEF Restart, Hydrate, TypeOK
<1>9. CASE UNCHANGED vars \/ \E r \in Robots : RemoveExternal(r)
  BY <1>2, <1>9 DEF vars, RemoveExternal
<1>. QED BY <1>1, <1>3, <1>4, <1>5, <1>6, <1>7, <1>8, <1>9
         DEF Next, CleanNext, SteadyNext

\* A run never takes a robot that a more urgent, or equally urgent and earlier,
\* queued run could have had: not in a tick that fires schedules as well, and not
\* through a dispatch that a crash cuts short.
THEOREM DispatchInOrder == Spec => NoOvertaking
<1>1. Init => StartedRunsNamed
  BY InitUntouched DEF StartedRunsNamed
<1>2. TypeOK /\ StartedRunsNamed /\ [Next]_vars => StartedRunsNamed' /\ [InOrder]_vars
  BY NamesStep, StepsInOrder
<1>3. NoOvertaking <=> [][InOrder]_vars
  BY DEF NoOvertaking, InOrder
<1>. QED BY <1>1, <1>2, <1>3, TypeCorrect, PTL DEF Spec
=============================================================================
