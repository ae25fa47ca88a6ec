------------------------------ MODULE PtzPatrol ------------------------------
(***************************************************************************)
(* Camera patrols of one robot: presets, plans and runs of                 *)
(* server/src/ptz.ts, the camera reservations (ptzLocks) they share with   *)
(* the control sessions of control.ts, and the adapter that carries out    *)
(* the camera orders.                                                      *)
(*                                                                         *)
(* The platform is one process, so each handler is one action.  Runs and   *)
(* plans are read from their rows at every tick; ptzLocks lives in memory  *)
(* and is rebuilt at a restart.  The tick, and the start of a run, write   *)
(* in one transaction; cancel does not, and may be cut short by a crash.   *)
(*                                                                         *)
(* A run sends one order per stop, waits for its receipt, dwells, and goes *)
(* on.  A run that ends with an order delivered and unanswered keeps the   *)
(* camera (interlocked) until a stop is confirmed.  Names, poses, records  *)
(* and the times of a cadence are left out: "due" says that a time passed. *)
(***************************************************************************)
EXTENDS Naturals, Sequences, FiniteSets

CONSTANTS
  Channels,      \* the cameras of the robot, all with absolute positioning
  Stoppable,     \* those that declare a verified stop (ptz.manual)
  Manual,        \* bound: those that get a directional command, one each
  Runs,          \* identities of runs; a bound on how many are started
  Presets,       \* identities of presets
  Plans,         \* identities of plans
  MaxStops,      \* bound: stops of a plan
  Nobody,        \* holder of a free camera
  Operator,      \* holder of a camera under a control session
  AtRest, Adrift \* a camera that stands; one that moves after a failure

ASSUME PtzPatrolAssumption ==
  /\ Stoppable \subseteq Channels /\ Manual \subseteq Channels
  /\ MaxStops \in Nat \ {0}
  /\ Nobody \notin Runs /\ Operator \notin Runs /\ Nobody # Operator
  /\ Channels \cap Runs = {} /\ Nobody \notin Channels \cup Plans
  /\ {"none", "drive"} \cap Channels = {} /\ IsFiniteSet(Plans)
  /\ {AtRest, Adrift} \cap ((Runs \cup Channels) \X (0..MaxStops)) = {}

VARIABLES
  presets,       \* camera of each preset, Nobody when it does not exist
  plans,         \* plan rows
  runs,          \* run rows
  orders,        \* state of every camera order
  ptzLocks,      \* holder of each camera
  session,       \* the robot's control session: "none", "drive" or a camera
  online,        \* telemetry of the robot is fresh
  wire,          \* orders in a reply on its way to the adapter
  seen,          \* orders this adapter process was handed before
  tasks,         \* what the adapter does about each order
  motion         \* the order that moves each camera

tables == <<presets, plans>>
claims == <<runs, orders, ptzLocks>>
adapter == <<wire, seen, tasks, motion>>
vars == <<tables, claims, session, online, adapter>>

-----------------------------------------------------------------------------
RunStatus  == {"none", "running", "done", "failed", "cancelled"}
OrderState == {"none", "pending", "acked", "done", "failed"}

Run == [status : RunStatus, channel : Channels \cup {Nobody},
        plan : Plans \cup {Nobody},
        stops : 1..MaxStops, step : 1..MaxStops,
        arrived : BOOLEAN,      \* steps[stepIndex].arrivedAt is set
        due : BOOLEAN,          \* the timeout or the dwell of it has passed
        interlocked : BOOLEAN,
        stopping : BOOLEAN]     \* stopOrderId is set

Plan == [state : {"none", "off", "on"}, channel : Channels \cup {Nobody},
         stops : Seq(Presets), due : BOOLEAN, once : BOOLEAN]

\* Order n of a run moves to its n-th stop, order 0 stops the camera.  Each
\* camera has one order of its own, a directional command of an operator.
OrderIds   == (Runs \cup Channels) \X (0..MaxStops)
Stop(r)    == <<r, 0>>
Direct(c)  == <<c, 0>>
Current(r) == <<r, runs[r].step>>
ChannelOf(o) == IF o[1] \in Channels THEN o[1] ELSE runs[o[1]].channel
IsStop(o)  == o[1] \in Runs /\ o[2] = 0
IsMove(o)  == ~IsStop(o)
Open(o)    == orders[o] \in {"pending", "acked"}

Running(r) == runs[r].status = "running"
Fresh      == {r \in Runs : runs[r].status = "none"}
Spare      == Cardinality(Fresh) > Cardinality({p \in Plans : plans[p].due})
Busy(c)    == \E o \in OrderIds : Open(o) /\ ChannelOf(o) = c

\* World.command takes an order for the robot.
AcceptsReserved == online
Accepts == online /\ session = "none"

\* The row of a run at its first stop.
RunRow(status, c, plan, n) ==
  [status |-> status, channel |-> c, plan |-> plan, stops |-> n, step |-> 1,
   arrived |-> FALSE, due |-> FALSE, interlocked |-> FALSE, stopping |-> FALSE]

NoRun  == RunRow("none", Nobody, Nobody, 1)
NoPlan == [state |-> "none", channel |-> Nobody, stops |-> <<>>,
           due |-> FALSE, once |-> FALSE]

Init ==
  /\ presets = [p \in Presets |-> Nobody]
  /\ plans = [p \in Plans |-> NoPlan]
  /\ runs = [r \in Runs |-> NoRun]
  /\ orders = [o \in OrderIds |-> "none"]
  /\ ptzLocks = [c \in Channels |-> Nobody]
  /\ session = "none" /\ online = FALSE
  /\ wire = {} /\ seen = {}
  /\ tasks = [o \in OrderIds |-> "none"]
  /\ motion = [c \in Channels |-> AtRest]

-----------------------------------------------------------------------------
(* Presets and plans.                                                      *)

UsedByEnabled(p) == {q \in Plans : /\ plans[q].state = "on"
                               /\ \E i \in DOMAIN plans[q].stops :
                                    plans[q].stops[i] = p}
UsedBy(p) == {q \in Plans : \E i \in DOMAIN plans[q].stops :
                              plans[q].stops[i] = p}

SavePreset(p, c) ==
  /\ presets[p] \in {Nobody, c} \/ UsedBy(p) = {}
  /\ presets' = [presets EXCEPT ![p] = c]
  /\ UNCHANGED <<plans, claims, session, online, adapter>>

DeletePreset(p) ==
  /\ presets[p] # Nobody /\ UsedBy(p) = {}
  /\ presets' = [presets EXCEPT ![p] = Nobody]
  /\ UNCHANGED <<plans, claims, session, online, adapter>>

Usable(stops, c) == \A i \in DOMAIN stops : presets[stops[i]] = c

\* An edit that leaves the cadence and the switch alone keeps nextRunAt; any
\* other sets it to a later time.
SavePlan(p, c, stops, on, once, sameCadence) ==
  /\ Usable(stops, c)
  /\ LET old == plans[p]
         unchanged == /\ sameCadence /\ old.once = once
                      /\ old.state = IF on THEN "on" ELSE "off"
     IN plans' = [plans EXCEPT ![p] =
          [state |-> IF on THEN "on" ELSE "off", channel |-> c,
           stops |-> stops, once |-> once,
           due |-> on /\ unchanged /\ old.due]]
  /\ UNCHANGED <<presets, claims, session, online, adapter>>

DeletePlan(p) ==
  /\ plans[p].state # "none"
  /\ \A r \in Runs : ~(Running(r) /\ runs[r].plan = p)
  /\ plans' = [plans EXCEPT ![p] = NoPlan]
  /\ UNCHANGED <<presets, claims, session, online, adapter>>

\* Spare, here and below, is the bound on runs: one is left for each due plan.
PlanComesDue(p) ==
  /\ plans[p].state = "on" /\ ~plans[p].due /\ Spare
  /\ plans' = [plans EXCEPT ![p].due = TRUE]
  /\ UNCHANGED <<presets, claims, session, online, adapter>>

-----------------------------------------------------------------------------
(* Runs.                                                                   *)

\* start: the run takes the camera and sends its first order, or is failed
\* at once when the command is rejected.
NewRun(c, plan, n) ==
  RunRow(IF Accepts THEN "running" ELSE "failed", c, plan, n)

Start(r, c, plan, n) ==
  /\ r \in Fresh /\ Spare
  /\ ptzLocks[c] = Nobody /\ ~Busy(c)
  /\ runs' = [runs EXCEPT ![r] = NewRun(c, plan, n)]
  /\ IF Accepts
       THEN /\ orders' = [orders EXCEPT ![<<r, 1>>] = "pending"]
            /\ ptzLocks' = [ptzLocks EXCEPT ![c] = r]
       ELSE UNCHANGED <<orders, ptzLocks>>
  /\ UNCHANGED <<tables, session, online, adapter>>

RunPreset(r, p) == presets[p] # Nobody /\ Start(r, presets[p], Nobody, 1)

RunPlan(r, p) ==
  /\ plans[p].state # "none"
  /\ \A i \in DOMAIN plans[p].stops : presets[plans[p].stops[i]] # Nobody
  /\ Start(r, plans[p].channel, p, Len(plans[p].stops))

\* finish: an order delivered and unanswered leaves the camera interlocked,
\* and a stop is sent if the camera has one and the command is accepted.
Uncertain(r, recovering) ==
  \/ orders[Current(r)] = "acked"
  \/ recovering /\ ~runs[r].arrived
SendsStop(r, recovering) ==
  /\ Uncertain(r, recovering)
  /\ runs[r].channel \in Stoppable /\ Accepts /\ ~recovering
Finished(r, status, recovering) ==
  [runs[r] EXCEPT !.status = status,
                  !.interlocked = Uncertain(r, recovering),
                  !.stopping = SendsStop(r, recovering)]
WithdrawnIfPulled(r, o) ==
  IF o = Current(r) /\ orders[o] = "acked" THEN "failed" ELSE orders[o]
Withdrawn(r, o) == IF o = Current(r) /\ Open(o) THEN "failed" ELSE orders[o]
OrderAfterFinish(r, o, recovering) ==
  IF o = Stop(r) /\ SendsStop(r, recovering) THEN "pending"
  ELSE Withdrawn(r, o)
LockAfterFinishFreed(r, recovering) == Nobody
LockAfterFinish(r, recovering) ==
  LET c == runs[r].channel IN
  IF Uncertain(r, recovering) THEN r
  ELSE IF ptzLocks[c] = r THEN Nobody ELSE ptzLocks[c]

Cancel(r) ==
  /\ Running(r)
  /\ runs' = [runs EXCEPT ![r] = Finished(r, "cancelled", FALSE)]
  /\ orders' = [o \in OrderIds |-> OrderAfterFinish(r, o, FALSE)]
  /\ ptzLocks' = [ptzLocks EXCEPT ![runs[r].channel] =
                    LockAfterFinish(r, FALSE)]
  /\ UNCHANGED <<tables, session, online, adapter>>

\* An operator looked: the camera stands, and the adapter does nothing.
Verified(c) ==
  /\ motion[c] = AtRest
  /\ \A o \in OrderIds :
       ChannelOf(o) = c => tasks[o] = "none" /\ o \notin wire

Release(r) ==
  /\ runs[r].interlocked /\ Verified(runs[r].channel)
  /\ runs' = [runs EXCEPT ![r].interlocked = FALSE]
  /\ ptzLocks' = [c \in Channels |->
       IF c = runs[r].channel /\ ptzLocks[c] = r THEN Nobody
       ELSE ptzLocks[c]]
  /\ UNCHANGED <<tables, orders, session, online, adapter>>

\* 30 s since the order was sent, or the dwell since its receipt.
TimePasses(r) ==
  /\ Running(r) /\ ~runs[r].due
  /\ runs' = [runs EXCEPT ![r].due = TRUE]
  /\ UNCHANGED <<tables, orders, ptzLocks, session, online, adapter>>

-----------------------------------------------------------------------------
(* The tick, every 500 ms: confirmed stops, then running runs, then plans. *)

Confirmed(r) ==
  runs[r].interlocked /\ runs[r].stopping /\ orders[Stop(r)] = "done"

Dwells(r)  == runs[r].plan # Nobody     \* a preset or a reset has no dwell
Waits(r)   == Running(r) /\ ~runs[r].arrived
BreaksRefused(r) == Waits(r) /\ orders[Current(r)] = "failed"
Breaks(r)  == Waits(r) /\ \/ orders[Current(r)] = "failed"
                          \/ Open(Current(r)) /\ runs[r].due
ArrivesPulled(r) ==
  Waits(r) /\ orders[Current(r)] \in {"acked", "done"} /\ Dwells(r)
Arrives(r) == Waits(r) /\ orders[Current(r)] = "done" /\ Dwells(r)
Leaves(r)  == Running(r) /\ IF runs[r].arrived THEN runs[r].due
                            ELSE orders[Current(r)] = "done" /\ ~Dwells(r)
Completes(r) == Leaves(r) /\ runs[r].step = runs[r].stops
GoesOn(r)    == Leaves(r) /\ runs[r].step < runs[r].stops

RunAfterTick(r) ==
  CASE Confirmed(r) -> [runs[r] EXCEPT !.interlocked = FALSE]
    [] Breaks(r)    -> Finished(r, "failed", FALSE)
    [] Arrives(r)   -> [runs[r] EXCEPT !.arrived = TRUE, !.due = FALSE]
    [] Completes(r) -> [runs[r] EXCEPT !.status = "done", !.arrived = TRUE]
    [] GoesOn(r)    ->
         IF Accepts
           THEN [runs[r] EXCEPT !.step = @ + 1, !.arrived = FALSE,
                                !.due = FALSE]
           ELSE [runs[r] EXCEPT !.status = "failed"]
    [] OTHER        -> runs[r]

OrderAfterTick(o) ==
  IF o[1] \notin Runs THEN orders[o]
  ELSE LET r == o[1] IN
    IF Breaks(r) THEN OrderAfterFinish(r, o, FALSE)
    ELSE IF GoesOn(r) /\ Accepts /\ o[2] = runs[r].step + 1 THEN "pending"
    ELSE orders[o]

LockAfterTick(c) ==
  LET r == ptzLocks[c] IN
  IF r \notin Runs THEN r
  ELSE IF Breaks(r) THEN LockAfterFinish(r, FALSE)
  ELSE IF Confirmed(r) \/ Completes(r) \/ (GoesOn(r) /\ ~Accepts) THEN Nobody
  ELSE r

\* Due plans whose camera is free.  When it can be driven one of them takes
\* it and the others wait; when it cannot, each is recorded as failed.
Ready(p) == /\ plans[p].state = "on" /\ plans[p].due
            /\ LockAfterTick(plans[p].channel) = Nobody
CanStart(c) ==
  /\ Accepts
  /\ \A o \in OrderIds : ChannelOf(o) = c =>
       OrderAfterTick(o) \notin {"pending", "acked"}
Whole(p) == \A i \in DOMAIN plans[p].stops :
              presets[plans[p].stops[i]] # Nobody
Contenders(c) == {p \in Plans : /\ Ready(p) /\ plans[p].channel = c
                                /\ Whole(p) /\ CanStart(c)}
Failing == {p \in Plans : /\ Ready(p)
                          /\ ~(Whole(p) /\ CanStart(plans[p].channel))}

\* One contender for each camera that has any.
Firings == {F \in SUBSET UNION {Contenders(c) : c \in Channels} :
              \A c \in Channels :
                Cardinality(F \cap Contenders(c)) =
                  IF Contenders(c) = {} THEN 0 ELSE 1}

PlanRun(p, taken) ==
  RunRow(IF taken THEN "running" ELSE "failed",
         plans[p].channel, p, Len(plans[p].stops))

\* The rows of one tick: plans of taking get the camera, all in fired a run.
Fire(taking, fired, id) ==
  LET New(r) == {p \in fired : id[p] = r} IN
  /\ \A p, q \in fired : id[p] = id[q] => p = q
  /\ runs' = [r \in Runs |->
       IF New(r) = {} THEN RunAfterTick(r)
       ELSE LET p == CHOOSE p \in New(r) : TRUE IN PlanRun(p, p \in taking)]
  /\ orders' = [o \in OrderIds |->
       IF o[2] = 1 /\ New(o[1]) \cap taking # {} THEN "pending"
       ELSE OrderAfterTick(o)]
  /\ ptzLocks' = [c \in Channels |->
       IF \E p \in taking : plans[p].channel = c
         THEN id[CHOOSE p \in taking : plans[p].channel = c]
         ELSE LockAfterTick(c)]
  /\ plans' = [p \in Plans |->
       IF p \notin fired THEN plans[p]
       ELSE [plans[p] EXCEPT !.due = FALSE,
                             !.state = IF plans[p].once THEN "off" ELSE @]]

Tick ==
  /\ \E taking \in Firings :
       LET fired == taking \cup Failing IN
       \E id \in [fired -> Fresh] : Fire(taking, fired, id)
  /\ UNCHANGED <<presets, session, online, adapter>>

-----------------------------------------------------------------------------
(* Directional commands, control sessions, telemetry.                      *)

\* An operator's own camera command.
Command(c) ==
  /\ Accepts /\ ptzLocks[c] = Nobody /\ orders[Direct(c)] = "none"
  /\ orders' = [orders EXCEPT ![Direct(c)] = "pending"]
  /\ UNCHANGED <<tables, runs, ptzLocks, session, online, adapter>>

TakeOver(target) ==
  /\ session = "none" /\ online
  /\ \A c \in Channels : ptzLocks[c] = Nobody
  /\ \A c \in Channels : ~Busy(c)
  /\ session' = target
  /\ ptzLocks' = [c \in Channels |->
                    IF c = target THEN Operator ELSE ptzLocks[c]]
  /\ UNCHANGED <<tables, runs, orders, online, adapter>>

EndSession ==
  /\ session # "none" /\ session' = "none"
  /\ ptzLocks' = [c \in Channels |->
       IF c = session /\ ptzLocks[c] = Operator THEN Nobody ELSE ptzLocks[c]]
  /\ UNCHANGED <<tables, runs, orders, online, adapter>>

Telemetry ==
  /\ online' = ~online
  /\ UNCHANGED <<tables, claims, session, adapter>>

-----------------------------------------------------------------------------
(* The adapter.  A poll's reply is taken before the next poll is answered. *)

\* setOrderStatus; a receipt may be lost, and a late one changes nothing.
Settled(o, s, lost) == IF lost \/ ~Open(o) THEN orders[o] ELSE s

PullOrders ==
  LET out == {o \in OrderIds : orders[o] = "pending"} IN
  /\ wire = {} /\ out # {}
  /\ orders' = [o \in OrderIds |-> IF o \in out THEN "acked" ELSE orders[o]]
  /\ wire' = out
  /\ UNCHANGED <<tables, runs, ptzLocks, session, online, seen, tasks, motion>>

\* Orders this process was handed before are skipped.
Deliver ==
  /\ wire # {}
  /\ tasks' = [o \in OrderIds |-> IF o \in wire \ seen THEN "begun"
                                  ELSE tasks[o]]
  /\ seen' = seen \cup wire /\ wire' = {}
  /\ UNCHANGED <<tables, claims, session, online, motion>>

LoseReply ==
  /\ wire # {} /\ wire' = {}
  /\ UNCHANGED <<tables, claims, session, online, seen, tasks, motion>>

Driving(c) == {o \in OrderIds : tasks[o] = "moving" /\ ChannelOf(o) = c}

Move(o) ==
  /\ tasks[o] = "begun" /\ IsMove(o) /\ Driving(ChannelOf(o)) = {}
  /\ tasks' = [tasks EXCEPT ![o] = "moving"]
  /\ motion' = [motion EXCEPT ![ChannelOf(o)] = o]
  /\ UNCHANGED <<tables, claims, session, online, wire, seen>>

CameraRests(c) ==
  /\ motion[c] # AtRest
  /\ motion' = [motion EXCEPT ![c] = AtRest]
  /\ UNCHANGED <<tables, claims, session, online, wire, seen, tasks>>

\* The measured position is the one asked for.
MoveDone(o, lost) ==
  /\ tasks[o] = "moving" /\ motion[ChannelOf(o)] = AtRest
  /\ tasks' = [tasks EXCEPT ![o] = "none"]
  /\ orders' = [orders EXCEPT ![o] = Settled(o, "done", lost)]
  /\ UNCHANGED <<tables, runs, ptzLocks, session, online, wire, seen, motion>>

\* The vendor rejected it, was busy, or lost track of the movement.
MoveFails(o, lost) ==
  /\ IsMove(o) /\ \/ tasks[o] = "moving"
                  \/ tasks[o] = "begun" /\ Driving(ChannelOf(o)) # {}
  /\ tasks' = [tasks EXCEPT ![o] = "none"]
  /\ orders' = [orders EXCEPT ![o] = Settled(o, "failed", lost)]
  /\ motion' = [c \in Channels |-> IF motion[c] = o THEN Adrift
                                   ELSE motion[c]]
  /\ UNCHANGED <<tables, runs, ptzLocks, session, online, wire, seen>>

\* mode 'stop': moves in flight are cancelled, and the camera measured.
Cancels(o, m) == m # o /\ IsMove(m) /\ ChannelOf(m) = ChannelOf(o)
                 /\ tasks[m] # "none"
StopEnds(o, s, lost) ==
  /\ tasks[o] = "begun" /\ IsStop(o)
  /\ tasks' = [m \in OrderIds |-> IF m = o \/ Cancels(o, m) THEN "none"
                                  ELSE tasks[m]]
  /\ orders' = [m \in OrderIds |-> IF m = o THEN Settled(o, s, lost)
                 ELSE IF Cancels(o, m) THEN Settled(m, "failed", lost)
                 ELSE orders[m]]
  /\ UNCHANGED <<tables, runs, ptzLocks, session, online, wire, seen>>
StopDone(o, lost) ==
  /\ StopEnds(o, "done", lost)
  /\ motion' = [motion EXCEPT ![ChannelOf(o)] = AtRest]
StopFails(o, lost) ==
  /\ StopEnds(o, "failed", lost)
  /\ motion' = [motion EXCEPT ![ChannelOf(o)] =
                  IF @ = AtRest THEN AtRest ELSE Adrift]

\* The process is gone; the camera goes on with what it was told.
AdapterCrash ==
  /\ wire' = {} /\ seen' = {}
  /\ tasks' = [o \in OrderIds |-> "none"]
  /\ UNCHANGED <<tables, claims, session, online, motion>>

-----------------------------------------------------------------------------
(* Restart: hydrate queues delivered orders again, PtzService fails the    *)
(* runs it finds running, control.ts takes its session's camera back.      *)

RestartWith(rows) ==
  /\ runs' = [r \in Runs |-> IF Running(r) THEN Finished(r, "failed", TRUE)
                             ELSE runs[r]]
  /\ orders' = [o \in OrderIds |->
       IF /\ o[1] \in Runs /\ Running(o[1]) /\ o = Current(o[1])
          /\ rows[o] \in {"pending", "acked"}
         THEN "failed"
       ELSE IF rows[o] = "acked" THEN "pending" ELSE rows[o]]
  /\ ptzLocks' = [c \in Channels |->
       IF session = c THEN Operator
       ELSE IF \E r \in Runs : runs'[r].interlocked /\ runs[r].channel = c
              THEN CHOOSE r \in Runs : runs'[r].interlocked
                                       /\ runs[r].channel = c
              ELSE Nobody]
  /\ online' = FALSE
  /\ UNCHANGED <<tables, session, adapter>>

Restart == RestartWith(orders)

\* cancel wrote one or both of its orders, and not yet the run.
TornCancel(r) ==
  /\ Running(r)
  /\ \E rows \in {[o \in OrderIds |-> Withdrawn(r, o)],
                  [o \in OrderIds |-> OrderAfterFinish(r, o, FALSE)]} :
       rows # orders /\ RestartWith(rows)

-----------------------------------------------------------------------------
StopLists == UNION {[1..n -> Presets] : n \in 1..MaxStops}

Configure ==
  \/ \E p \in Presets, c \in Channels : SavePreset(p, c)
  \/ \E p \in Presets : DeletePreset(p)
  \/ \E p \in Plans, c \in Channels, stops \in StopLists,
        on, once, sameCadence \in BOOLEAN :
       SavePlan(p, c, stops, on, once, sameCadence)
  \/ \E p \in Plans : DeletePlan(p)

Operate ==
  \/ \E r \in Runs : \/ \E p \in Presets : RunPreset(r, p)
                     \/ \E p \in Plans : RunPlan(r, p)
                     \/ Cancel(r) \/ Release(r)
  \/ \E c \in Manual : Command(c)
  \/ \E target \in Channels \cup {"drive"} : TakeOver(target)
  \/ EndSession

Elapse ==
  \/ \E r \in Runs : TimePasses(r)
  \/ \E p \in Plans : PlanComesDue(p)
  \/ Telemetry

Adapt ==
  \/ PullOrders \/ Deliver \/ LoseReply \/ AdapterCrash
  \/ \E o \in OrderIds : Move(o)
  \/ \E o \in OrderIds, lost \in BOOLEAN :
       MoveDone(o, lost) \/ MoveFails(o, lost)
       \/ StopDone(o, lost) \/ StopFails(o, lost)
  \/ \E c \in Channels : CameraRests(c)

Fail == Restart \/ \E r \in Runs : TornCancel(r)

Next == Configure \/ Operate \/ Elapse \/ Tick \/ Adapt \/ Fail

Spec == Init /\ [][Next]_vars

\* The 500 ms timer ticks and the clock advances.
Fairness ==
  /\ WF_vars(Tick)
  /\ \A r \in Runs : WF_vars(TimePasses(r))

FairSpec == Spec /\ Fairness

-----------------------------------------------------------------------------
(* Properties.                                                             *)

TypeOK ==
  /\ presets \in [Presets -> Channels \cup {Nobody}]
  /\ plans \in [Plans -> Plan]
  /\ runs \in [Runs -> Run]
  /\ orders \in [OrderIds -> OrderState]
  /\ ptzLocks \in [Channels -> Runs \cup {Nobody, Operator}]
  /\ session \in Channels \cup {"none", "drive"} /\ online \in BOOLEAN
  /\ wire \subseteq OrderIds /\ seen \subseteq OrderIds
  /\ tasks \in [OrderIds -> {"none", "begun", "moving"}]
  /\ motion \in [Channels -> OrderIds \cup {AtRest, Adrift}]

Holds(r) == Running(r) \/ runs[r].interlocked

\* ptzLocks, kept in memory, names exactly the run that runs or is interlocked
\* on a camera, or the session that has it, through restarts included; so no
\* camera is ever claimed twice (ptz.ts:319-344, 362-378, control.ts:39-52).
LockIsTheHolder ==
  /\ \A r \in Runs : Holds(r) => ptzLocks[runs[r].channel] = r
  /\ \A c \in Channels :
       /\ ptzLocks[c] \in Runs => /\ Holds(ptzLocks[c])
                                  /\ runs[ptzLocks[c]].channel = c
       /\ ptzLocks[c] = Operator <=> session = c

\* A camera moved by the order of a run is reserved by that run: cancelling, a
\* timeout, a lost receipt, an adapter crash or a restart never give it away
\* while it moves (ptz.ts:362-378).
MovesUnderReservation ==
  \A c \in Channels, r \in Runs, n \in 1..MaxStops :
    motion[c] = <<r, n>> => ptzLocks[c] = r

\* While an operator has the robot no patrol runs on it or keeps one of its
\* cameras (control.ts:102, world.ts:1327).
SessionExcludesPatrol ==
  session # "none" => \A r \in Runs : ~Holds(r)

\* A run is done only when the adapter confirmed the arrival at each of its
\* stops (ptz.ts:390-440).
DoneMeansArrived ==
  \A r \in Runs : runs[r].status = "done" =>
    \A n \in 1..runs[r].stops : orders[<<r, n>>] = "done"

\* A plan names existing presets of its own camera, whatever is edited or
\* deleted around it (ptz.ts:204-268).
PlanPresetsExist ==
  \A p \in Plans : \A i \in DOMAIN plans[p].stops :
    presets[plans[p].stops[i]] = plans[p].channel

\* The adapter is handed the move of a run only while the run waits for it: a
\* restart, which queues delivered orders again, replays no movement
\* (ptz.ts:145-152).
NothingReplayed ==
  [][\A r \in Runs, n \in 1..MaxStops :
       <<r, n>> \in wire' \ wire => Running(r) /\ runs[r].step = n]_vars

\* A camera moves for a run only while that run holds it, and only once.
MovesForItsRun == []MovesUnderReservation /\ NothingReplayed

\* Every run ends, whatever the adapter and the network do (ptz.ts:426-430).
RunEnds == \A r \in Runs : []<>(~Running(r))

=============================================================================
