------------------------------ MODULE PtzProofs ------------------------------
(***************************************************************************)
(* What TLAPS proves of the camera patrols, for any number of cameras,     *)
(* presets, plans and runs: a lock is its holder's, a patrol that is done  *)
(* was at every stop, and no move is sent or done for a run that is over.  *)
(***************************************************************************)
EXTENDS PtzPatrol, FiniteSetTheorems, TLAPS

-----------------------------------------------------------------------------
(* PtzPatrol: runs, orders, the adapter and its locks.                     *)

Steps == 1..MaxStops

\* The adapter has to do with a move: it is on its way, a task, or under way.
DealsWith(r, n) ==
  \/ <<r, n>> \in wire \/ tasks[<<r, n>>] # "none"
  \/ \E c \in Channels : motion[c] = <<r, n>>

RunsSound ==
  \A r \in Runs :
    /\ runs[r].status # "none" => runs[r].channel \in Channels
    /\ runs[r].interlocked => runs[r].status \in {"failed", "cancelled"}
    /\ Running(r) => runs[r].step <= runs[r].stops

\* The orders of a run follow its step: what went before is done, and only
\* the move it waits for is open.
OrdersFollow(r) ==
  \A n \in Steps :
    /\ Open(<<r, n>>) => Running(r) /\ runs[r].step = n
    /\ Running(r) /\ n < runs[r].step => orders[<<r, n>>] = "done"
    /\ Running(r) /\ runs[r].arrived => orders[Current(r)] = "done"

\* A stop is sent after its run; once it was pulled no move of the run is on
\* its way, and once it is done the adapter has nothing more to do with one.
StopTaken(r) ==
  \/ orders[Stop(r)] \in {"acked", "done", "failed"}
  \/ tasks[Stop(r)] # "none" \/ Stop(r) \in wire

StopsFollow(r) ==
  /\ orders[Stop(r)] # "none" => runs[r].status \in {"failed", "cancelled"}
  /\ tasks[Stop(r)] # "moving"
  /\ StopTaken(r) => /\ orders[Stop(r)] # "none"
                     /\ \A n \in Steps : <<r, n>> \notin wire
  /\ orders[Stop(r)] = "done" => \A n \in Steps : ~DealsWith(r, n)

\* The adapter moves for runs that hold their camera, and for the step that a
\* running one waits for.
MovesFollow(r) ==
  \A n \in Steps : DealsWith(r, n) =>
    /\ Holds(r)
    /\ Running(r) => runs[r].step = n /\ orders[<<r, n>>] = "acked"
    /\ \A c \in Channels : motion[c] = <<r, n>> => c = runs[r].channel
    /\ <<r, n>> \in wire => /\ tasks[<<r, n>>] = "none"
                            /\ \A c \in Channels : motion[c] # <<r, n>>

Arrived(r) ==
  runs[r].status = "done" =>
    \A n \in 1..runs[r].stops : orders[<<r, n>>] = "done"

RunOK(r) == OrdersFollow(r) /\ StopsFollow(r) /\ MovesFollow(r) /\ Arrived(r)

\* LockIsTheHolder, for a run and a camera that do not depend on the state.
LockHolds ==
  /\ \A r \in Runs : Holds(r) => ptzLocks[runs[r].channel] = r
  /\ \A c \in Channels :
       /\ \A r \in Runs : ptzLocks[c] = r => Holds(r) /\ runs[r].channel = c
       /\ ptzLocks[c] = Operator <=> session = c

ClaimsOK ==
  /\ \A r \in Runs : RunOK(r)
  /\ LockHolds /\ SessionExcludesPatrol

PlansSound ==
  /\ PlanPresetsExist
  /\ \A p \in Plans :
       IF plans[p].state = "none" THEN plans[p].stops = <<>>
       ELSE plans[p].channel \in Channels /\ Len(plans[p].stops) \in Steps

RowsOK == TypeOK /\ RunsSound /\ PlansSound

IInv == RowsOK /\ ClaimsOK

-----------------------------------------------------------------------------
(* Rows: types, plans and the shape of runs.                               *)

\* The names of orders: of a run or a camera, with a number.
LEMMA OrderNames ==
  /\ \A r \in Runs, n \in 0..MaxStops :
       /\ <<r, n>> \in OrderIds /\ ChannelOf(<<r, n>>) = runs[r].channel
       /\ IsStop(<<r, n>>) <=> n = 0
  /\ \A c \in Channels : <<c, 0>> \in OrderIds /\ ~IsStop(<<c, 0>>)
  /\ \A o \in OrderIds : o = <<o[1], o[2]>> /\ o[2] \in 0..MaxStops
  /\ 1 \in Steps /\ 1 \in 0..MaxStops /\ Steps \subseteq 0..MaxStops
  BY PtzPatrolAssumption DEF OrderIds, ChannelOf, IsStop, Steps

LEMMA InitRows == Init => RowsOK
<1>. SUFFICES ASSUME Init PROVE RowsOK
  OBVIOUS
<1>1. NoRun \in Run
  BY PtzPatrolAssumption DEF NoRun, RunRow, Run, RunStatus
<1>2. NoPlan \in Plan
  BY DEF NoPlan, Plan
<1>3. TypeOK
  BY <1>1, <1>2 DEF Init, TypeOK, OrderState
<1>4. RunsSound
  BY DEF Init, RunsSound, NoRun, RunRow, Running
<1>5. PlansSound
  BY DEF Init, PlansSound, NoPlan, PlanPresetsExist
<1>. QED BY <1>3, <1>4, <1>5 DEF RowsOK

\* What handlers write of a run that starts.
LEMMA RunRowIsRun ==
  ASSUME NEW c \in Channels, NEW p \in Plans \cup {Nobody}, NEW n \in Steps,
         NEW s \in {"running", "failed"}
  PROVE  /\ RunRow(s, c, p, n) \in Run
         /\ RunRow(s, c, p, n).status = s /\ RunRow(s, c, p, n).channel = c
         /\ RunRow(s, c, p, n).step = 1 /\ RunRow(s, c, p, n).stops = n
         /\ ~RunRow(s, c, p, n).interlocked /\ ~RunRow(s, c, p, n).arrived
  BY PtzPatrolAssumption DEF RunRow, Run, RunStatus, Steps

\* What a run that ends has on its row.
LEMMA FinishedIsRun ==
  ASSUME TypeOK, NEW r \in Runs, NEW s \in {"failed", "cancelled"},
         NEW recovering \in BOOLEAN
  PROVE  /\ Finished(r, s, recovering) \in Run
         /\ Finished(r, s, recovering).status = s
         /\ Finished(r, s, recovering).channel = runs[r].channel
         /\ Finished(r, s, recovering).interlocked = Uncertain(r, recovering)
<1>1. runs[r] \in Run
  BY DEF TypeOK
<1>2. Uncertain(r, recovering) \in BOOLEAN /\ SendsStop(r, recovering) \in BOOLEAN
  BY <1>1 DEF Uncertain, SendsStop, Run
<1>. QED BY <1>1, <1>2 DEF Finished, Run, RunStatus

LEMMA ConfigureRows ==
  ASSUME RowsOK, Configure
  PROVE  RowsOK'
<1>. USE DEF RowsOK
<1>1. ASSUME NEW p \in Presets, NEW c \in Channels, SavePreset(p, c)
      PROVE  RowsOK'
  <2>1. TypeOK' /\ RunsSound'
    BY <1>1 DEF SavePreset, TypeOK, RunsSound, Running, claims, adapter
  <2>2. ASSUME NEW q \in Plans, NEW i \in DOMAIN plans[q].stops
        PROVE  presets'[plans[q].stops[i]] = plans[q].channel
    <3>1. presets[plans[q].stops[i]] = plans[q].channel /\ plans[q].stops[i] \in Presets
      BY <2>2 DEF PlansSound, PlanPresetsExist, TypeOK, Plan
    <3>2. CASE plans[q].stops[i] = p
      <4>1. q \in UsedBy(p)
        BY <2>2, <3>2 DEF UsedBy
      <4>2. plans[q].channel \in Channels
        BY <2>2 DEF PlansSound
      <4>. QED BY <1>1, <3>1, <3>2, <4>1, <4>2, PtzPatrolAssumption
              DEF SavePreset, TypeOK
    <3>. QED BY <1>1, <3>1, <3>2 DEF SavePreset, TypeOK
  <2>. QED BY <1>1, <2>1, <2>2 DEF SavePreset, PlansSound, PlanPresetsExist
<1>2. ASSUME NEW p \in Presets, DeletePreset(p)
      PROVE  RowsOK'
  <2>1. TypeOK' /\ RunsSound'
    BY <1>2 DEF DeletePreset, TypeOK, RunsSound, Running, claims, adapter
  <2>2. ASSUME NEW q \in Plans, NEW i \in DOMAIN plans[q].stops
        PROVE  presets'[plans[q].stops[i]] = plans[q].channel
    <3>1. presets[plans[q].stops[i]] = plans[q].channel /\ plans[q].stops[i] \in Presets
      BY <2>2 DEF PlansSound, PlanPresetsExist, TypeOK, Plan
    <3>2. plans[q].stops[i] # p
      BY <1>2, <2>2 DEF DeletePreset, UsedBy
    <3>. QED BY <1>2, <3>1, <3>2 DEF DeletePreset, TypeOK
  <2>. QED BY <1>2, <2>1, <2>2 DEF DeletePreset, PlansSound, PlanPresetsExist
<1>3. ASSUME NEW p \in Plans, NEW c \in Channels, NEW stops \in StopLists,
             NEW on \in BOOLEAN, NEW once \in BOOLEAN, NEW same \in BOOLEAN,
             SavePlan(p, c, stops, on, once, same)
      PROVE  RowsOK'
  <2>1. stops \in Seq(Presets) /\ Len(stops) \in Steps
    BY PtzPatrolAssumption DEF StopLists, Steps
  <2>2. PICK plan : /\ plan \in Plan /\ plans' = [plans EXCEPT ![p] = plan]
                    /\ plan.channel = c /\ plan.stops = stops
                    /\ plan.state \in {"on", "off"}
    <3>. DEFINE due == /\ on /\ same /\ plans[p].once = once
                       /\ plans[p].state = IF on THEN "on" ELSE "off"
                       /\ plans[p].due
                row == [state |-> IF on THEN "on" ELSE "off", channel |-> c,
                        stops |-> stops, once |-> once, due |-> due]
    <3>1. due \in BOOLEAN
      BY DEF TypeOK, Plan
    <3>2. /\ row \in Plan /\ row.channel = c /\ row.stops = stops
          /\ row.state \in {"on", "off"}
      <4>. HIDE DEF due
      <4>. QED BY <2>1, <3>1 DEF Plan
    <3>3. plans' = [plans EXCEPT ![p] = row]
      BY <1>3 DEF SavePlan
    <3>. HIDE DEF row
    <3>. QED BY <3>2, <3>3
  <2>3. TypeOK' /\ RunsSound'
    BY <1>3, <2>2 DEF SavePlan, TypeOK, RunsSound, Running, claims, adapter
  <2>4. PlansSound'
    BY <1>3, <2>1, <2>2 DEF SavePlan, PlansSound, PlanPresetsExist, Usable, TypeOK
  <2>. QED BY <2>3, <2>4
<1>4. ASSUME NEW p \in Plans, DeletePlan(p)
      PROVE  RowsOK'
  <2>1. NoPlan \in Plan /\ NoPlan.state = "none" /\ NoPlan.stops = <<>>
    BY DEF NoPlan, Plan
  <2>2. TypeOK' /\ RunsSound'
    BY <1>4, <2>1 DEF DeletePlan, TypeOK, RunsSound, Running, claims, adapter
  <2>3. PlansSound'
    BY <1>4, <2>1 DEF DeletePlan, PlansSound, PlanPresetsExist, TypeOK
  <2>. QED BY <2>2, <2>3
<1>. QED BY <1>1, <1>2, <1>3, <1>4 DEF Configure

LEMMA FinishTypes ==
  ASSUME TypeOK, NEW r \in Runs, runs[r].channel \in Channels,
         NEW recovering \in BOOLEAN
  PROVE  /\ \A o \in OrderIds : OrderAfterFinish(r, o, recovering) \in OrderState
         /\ LockAfterFinish(r, recovering) \in Runs \cup {Nobody, Operator}
<1>1. ASSUME NEW o \in OrderIds
      PROVE  OrderAfterFinish(r, o, recovering) \in OrderState
  BY <1>1 DEF OrderAfterFinish, Withdrawn, TypeOK, OrderState
<1>2. LockAfterFinish(r, recovering) \in Runs \cup {Nobody, Operator}
  BY DEF LockAfterFinish, TypeOK
<1>. QED BY <1>1, <1>2

LEMMA StartRows ==
  ASSUME RowsOK, NEW r \in Runs, NEW c \in Channels,
         NEW plan \in Plans \cup {Nobody}, NEW n \in Steps, Start(r, c, plan, n)
  PROVE  RowsOK'
<1>. USE DEF RowsOK
<1>. DEFINE row == NewRun(c, plan, n)
<1>1. /\ row \in Run /\ row.status \in {"running", "failed"} /\ row.channel = c
      /\ row.step = 1 /\ row.stops = n /\ ~row.interlocked
  BY RunRowIsRun DEF NewRun
<1>2. runs' = [runs EXCEPT ![r] = row] /\ UNCHANGED <<presets, plans>>
  BY DEF Start, tables
<1>. HIDE DEF row
<1>3. orders' \in [OrderIds -> OrderState]
  BY OrderNames DEF Start, TypeOK, OrderState
<1>4. TypeOK'
  BY <1>1, <1>2, <1>3 DEF Start, TypeOK, adapter
<1>5. RunsSound'
  BY <1>1, <1>2 DEF RunsSound, Running, Steps, TypeOK
<1>6. PlansSound'
  BY <1>2 DEF PlansSound, PlanPresetsExist
<1>. QED BY <1>4, <1>5, <1>6

LEMMA CancelRows ==
  ASSUME RowsOK, NEW r \in Runs, Cancel(r)
  PROVE  RowsOK'
<1>. USE DEF RowsOK
<1>. DEFINE row == Finished(r, "cancelled", FALSE)
<1>1. runs[r].channel \in Channels
  BY DEF RunsSound, Cancel, Running
<1>2. row \in Run /\ row.status = "cancelled" /\ row.channel = runs[r].channel
  BY FinishedIsRun
<1>3. runs' = [runs EXCEPT ![r] = row]
  BY DEF Cancel
<1>. HIDE DEF row
<1>4. orders' \in [OrderIds -> OrderState]
  BY <1>1, FinishTypes DEF Cancel
<1>5. ptzLocks' \in [Channels -> Runs \cup {Nobody, Operator}]
  BY <1>1, FinishTypes DEF Cancel, TypeOK
<1>6. TypeOK'
  BY <1>2, <1>3, <1>4, <1>5 DEF Cancel, TypeOK, tables, adapter
<1>7. RunsSound'
  BY <1>1, <1>2, <1>3 DEF RunsSound, Running, TypeOK
<1>8. PlansSound'
  BY DEF Cancel, PlansSound, PlanPresetsExist, tables
<1>. QED BY <1>6, <1>7, <1>8

LEMMA OperateRows ==
  ASSUME RowsOK, Operate
  PROVE  RowsOK'
<1>1. ASSUME NEW r \in Runs, NEW p \in Presets, RunPreset(r, p)
      PROVE  RowsOK'
  BY <1>1, StartRows, OrderNames DEF RunPreset, RowsOK, TypeOK
<1>2. ASSUME NEW r \in Runs, NEW p \in Plans, RunPlan(r, p)
      PROVE  RowsOK'
  BY <1>2, StartRows DEF RunPlan, RowsOK, PlansSound
<1>3. ASSUME NEW r \in Runs, Cancel(r)
      PROVE  RowsOK'
  BY <1>3, CancelRows
<1>4. ASSUME NEW r \in Runs, Release(r)
      PROVE  RowsOK'
  <2>1. TypeOK'
    BY <1>4 DEF Release, RowsOK, TypeOK, Run, tables, adapter
  <2>2. RunsSound' /\ PlansSound'
    BY <1>4 DEF Release, RowsOK, TypeOK, Run, RunsSound, Running, PlansSound,
                PlanPresetsExist, tables
  <2>. QED BY <2>1, <2>2 DEF RowsOK
<1>5. ASSUME NEW c \in Channels, Command(c)
      PROVE  RowsOK'
  <2>1. TypeOK'
    BY <1>5 DEF Command, RowsOK, TypeOK, OrderState, tables, adapter
  <2>2. RunsSound' /\ PlansSound'
    BY <1>5 DEF Command, RowsOK, RunsSound, Running, PlansSound, PlanPresetsExist, tables
  <2>. QED BY <2>1, <2>2 DEF RowsOK
<1>6. ASSUME NEW target \in Channels \cup {"drive"}, TakeOver(target)
      PROVE  RowsOK'
  <2>1. TypeOK'
    BY <1>6 DEF TakeOver, RowsOK, TypeOK, tables, adapter
  <2>2. RunsSound' /\ PlansSound'
    BY <1>6 DEF TakeOver, RowsOK, RunsSound, Running, PlansSound, PlanPresetsExist, tables
  <2>. QED BY <2>1, <2>2 DEF RowsOK
<1>7. ASSUME EndSession
      PROVE  RowsOK'
  <2>1. TypeOK'
    BY <1>7 DEF EndSession, RowsOK, TypeOK, tables, adapter
  <2>2. RunsSound' /\ PlansSound'
    BY <1>7 DEF EndSession, RowsOK, RunsSound, Running, PlansSound, PlanPresetsExist, tables
  <2>. QED BY <2>1, <2>2 DEF RowsOK
<1>. QED BY <1>1, <1>2, <1>3, <1>4, <1>5, <1>6, <1>7, PtzPatrolAssumption DEF Operate

LEMMA ElapseRows ==
  ASSUME RowsOK, Elapse
  PROVE  RowsOK'
<1>1. ASSUME NEW r \in Runs, TimePasses(r)
      PROVE  RowsOK'
  <2>1. TypeOK'
    BY <1>1 DEF TimePasses, RowsOK, TypeOK, Run, tables, adapter
  <2>2. RunsSound' /\ PlansSound'
    BY <1>1 DEF TimePasses, RowsOK, TypeOK, Run, RunsSound, Running, PlansSound,
                PlanPresetsExist, tables
  <2>. QED BY <2>1, <2>2 DEF RowsOK
<1>2. ASSUME NEW p \in Plans, PlanComesDue(p)
      PROVE  RowsOK'
  <2>1. TypeOK' /\ RunsSound'
    BY <1>2 DEF PlanComesDue, RowsOK, TypeOK, Plan, RunsSound, Running, claims, adapter
  <2>2. PlansSound'
    BY <1>2 DEF PlanComesDue, RowsOK, TypeOK, Plan, PlansSound, PlanPresetsExist
  <2>. QED BY <2>1, <2>2 DEF RowsOK
<1>3. ASSUME Telemetry
      PROVE  RowsOK'
  BY <1>3 DEF Telemetry, RowsOK, TypeOK, RunsSound, Running, PlansSound,
              PlanPresetsExist, tables, claims, adapter
<1>. QED BY <1>1, <1>2, <1>3 DEF Elapse

LEMMA AdaptRows ==
  ASSUME RowsOK, Adapt
  PROVE  RowsOK'
<1>1. UNCHANGED <<presets, plans, runs, ptzLocks, session, online>>
  BY DEF Adapt, PullOrders, Deliver, LoseReply, AdapterCrash, Move, MoveDone, MoveFails,
         StopDone, StopFails, StopEnds, CameraRests, tables, claims
<1>2. orders' \in [OrderIds -> OrderState]
  BY DEF Adapt, PullOrders, Deliver, LoseReply, AdapterCrash, Move, MoveDone, MoveFails,
         StopDone, StopFails, StopEnds, CameraRests, claims, Settled, RowsOK, TypeOK, OrderState
<1>3. tasks' \in [OrderIds -> {"none", "begun", "moving"}]
  BY DEF Adapt, PullOrders, Deliver, LoseReply, AdapterCrash, Move, MoveDone, MoveFails,
         StopDone, StopFails, StopEnds, CameraRests, RowsOK, TypeOK
<1>4. wire' \subseteq OrderIds /\ seen' \subseteq OrderIds
  BY DEF Adapt, PullOrders, Deliver, LoseReply, AdapterCrash, Move, MoveDone, MoveFails,
         StopDone, StopFails, StopEnds, CameraRests, RowsOK, TypeOK
<1>5. motion' \in [Channels -> OrderIds \cup {AtRest, Adrift}]
  BY DEF Adapt, PullOrders, Deliver, LoseReply, AdapterCrash, Move, MoveDone, MoveFails,
         StopDone, StopFails, StopEnds, CameraRests, RowsOK, TypeOK
<1>6. TypeOK'
  BY <1>1, <1>2, <1>3, <1>4, <1>5 DEF RowsOK, TypeOK
<1>7. RunsSound' /\ PlansSound'
  BY <1>1 DEF RowsOK, RunsSound, Running, PlansSound, PlanPresetsExist
<1>. QED BY <1>6, <1>7 DEF RowsOK

-----------------------------------------------------------------------------
(* The tick and the restart.                                               *)

\* The arms of the tick exclude each other: a confirmed run is over, and a
\* running one either waits for its order or dwells.
LEMMA TickArms ==
  ASSUME RowsOK, NEW r \in Runs
  PROVE  /\ Confirmed(r) => ~Running(r) /\ RunAfterTick(r) = [runs[r] EXCEPT !.interlocked = FALSE]
         /\ Breaks(r) => /\ RunAfterTick(r) = Finished(r, "failed", FALSE)
                         /\ Waits(r) /\ ~Completes(r) /\ ~GoesOn(r)
         /\ Arrives(r) => /\ RunAfterTick(r) = [runs[r] EXCEPT !.arrived = TRUE, !.due = FALSE]
                          /\ Waits(r) /\ ~Completes(r) /\ ~GoesOn(r)
         /\ Completes(r) => /\ RunAfterTick(r) = [runs[r] EXCEPT !.status = "done", !.arrived = TRUE]
                            /\ Leaves(r) /\ ~GoesOn(r)
         /\ GoesOn(r) => /\ RunAfterTick(r) =
                              IF Accepts THEN [runs[r] EXCEPT !.step = @ + 1, !.arrived = FALSE, !.due = FALSE]
                              ELSE [runs[r] EXCEPT !.status = "failed"]
                         /\ Leaves(r)
         /\ ~Confirmed(r) /\ ~Breaks(r) /\ ~Arrives(r) /\ ~Completes(r) /\ ~GoesOn(r)
              => RunAfterTick(r) = runs[r]
<1>1. runs[r] \in Run
  BY DEF RowsOK, TypeOK
<1>2. Confirmed(r) => ~Running(r)
  BY DEF Confirmed, Running, RowsOK, RunsSound
<1>3. Running(r) => ~Confirmed(r)
  BY <1>2
<1>4. /\ Breaks(r) => Waits(r) /\ Running(r) /\ ~Leaves(r) /\ ~Arrives(r)
      /\ Arrives(r) => Waits(r) /\ Running(r) /\ ~Leaves(r)
      /\ Leaves(r) => Running(r)
  BY DEF Breaks, Arrives, Leaves, Waits, Open
<1>5. /\ Completes(r) => Leaves(r) /\ ~GoesOn(r)
      /\ GoesOn(r) => Leaves(r)
  BY <1>1 DEF Completes, GoesOn, Run
<1>. QED BY <1>3, <1>4, <1>5 DEF RunAfterTick

\* What a tick leaves on the row of a run it does not start.
LEMMA TickRow ==
  ASSUME RowsOK, NEW r \in Runs
  PROVE  LET new == RunAfterTick(r) IN
         /\ new \in Run /\ new.channel = runs[r].channel
         /\ new.status = "none" <=> runs[r].status = "none"
         /\ new.interlocked => new.status \in {"failed", "cancelled"}
         /\ new.status = "running" => Running(r) /\ new.step <= new.stops
<1>1. runs[r] \in Run /\ (runs[r].interlocked => runs[r].status \in {"failed", "cancelled"})
  BY DEF RowsOK, TypeOK, RunsSound
<1>2. CASE Confirmed(r)
  <2>1. RunAfterTick(r) = [runs[r] EXCEPT !.interlocked = FALSE] /\ ~Running(r)
    BY <1>2, TickArms
  <2>. QED BY <1>1, <2>1 DEF Running, Run, RunStatus
<1>3. CASE Breaks(r)
  <2>1. Running(r)
    BY <1>3, TickArms DEF Waits
  <2>2. RunAfterTick(r) = Finished(r, "failed", FALSE)
    BY <1>3, TickArms
  <2>. QED BY <2>1, <2>2, FinishedIsRun DEF RowsOK, Running
<1>4. CASE Arrives(r)
  BY <1>1, <1>4, TickArms DEF Waits, Running, Run, RunStatus, RowsOK, RunsSound
<1>5. CASE Completes(r)
  <2>1. RunAfterTick(r) = [runs[r] EXCEPT !.status = "done", !.arrived = TRUE] /\ Running(r)
    BY <1>5, TickArms DEF Leaves
  <2>. QED BY <1>1, <2>1 DEF Running, Run, RunStatus
<1>6. CASE GoesOn(r)
  <2>1. Running(r) /\ runs[r].step + 1 \in Steps /\ runs[r].step + 1 <= runs[r].stops
    BY <1>1, <1>6, PtzPatrolAssumption DEF GoesOn, Leaves, Run, Steps
  <2>2. RunAfterTick(r) = IF Accepts THEN [runs[r] EXCEPT !.step = @ + 1, !.arrived = FALSE, !.due = FALSE]
                          ELSE [runs[r] EXCEPT !.status = "failed"]
    BY <1>6, TickArms
  <2>3. CASE Accepts
    <3>. DEFINE next == runs[r].step + 1
    <3>1. RunAfterTick(r) = [runs[r] EXCEPT !.step = next, !.arrived = FALSE, !.due = FALSE]
      BY <2>2, <2>3
    <3>. HIDE DEF next
    <3>. QED BY <1>1, <2>1, <3>1 DEF Running, Run, Steps, next
  <2>. QED BY <1>1, <2>1, <2>2, <2>3 DEF Running, Run, RunStatus
<1>7. CASE ~Confirmed(r) /\ ~Breaks(r) /\ ~Arrives(r) /\ ~Completes(r) /\ ~GoesOn(r)
  BY <1>1, <1>7, TickArms DEF Running, RowsOK, RunsSound
<1>. QED BY <1>2, <1>3, <1>4, <1>5, <1>6, <1>7

\* One contender starts on a camera that has any, and nothing else takes it.
LEMMA OneStarts ==
  ASSUME RowsOK, NEW taking \in Firings
  PROVE  /\ \A p \in taking :
              /\ p \in Plans /\ p \notin Failing /\ Ready(p) /\ Whole(p)
              /\ plans[p].channel \in Channels /\ CanStart(plans[p].channel)
         /\ \A p, q \in taking : plans[p].channel = plans[q].channel => p = q
<1>1. ASSUME NEW p \in taking
      PROVE  /\ p \in Plans /\ Ready(p) /\ Whole(p) /\ p \in Contenders(plans[p].channel)
             /\ plans[p].channel \in Channels /\ CanStart(plans[p].channel)
  BY DEF Firings, Contenders
<1>2. ASSUME NEW p \in taking, NEW q \in taking, plans[p].channel = plans[q].channel
      PROVE  p = q
  <2>. DEFINE c == plans[p].channel
              mine == taking \cap Contenders(c)
  <2>1. p \in mine /\ q \in mine /\ c \in Channels /\ Contenders(c) # {}
    BY <1>1, <1>2
  <2>2. Cardinality(mine) = 1
    BY <2>1 DEF Firings
  <2>3. IsFiniteSet(mine)
    <3>1. mine \subseteq Plans
      BY DEF Contenders
    <3>. QED BY <3>1, PtzPatrolAssumption, FS_Subset
  <2>4. PICK x : mine = {x}
    BY <2>2, <2>3, FS_Singleton
  <2>. QED BY <2>1, <2>4
<1>3. \A p \in taking : p \notin Failing
  BY <1>1 DEF Failing
<1>. QED BY <1>1, <1>2, <1>3

\* A tick that starts the runs id of the plans that take a camera and of those
\* that fail at once.
FiresAs(taking, id) ==
  /\ taking \in Firings /\ id \in [taking \cup Failing -> Fresh]
  /\ \A p, q \in taking \cup Failing : id[p] = id[q] => p = q
  /\ \A p \in taking \cup Failing : runs'[id[p]] = PlanRun(p, p \in taking)
  /\ \A r \in Runs : (\A p \in taking \cup Failing : id[p] # r)
                       => runs'[r] = RunAfterTick(r)
  /\ \A p \in taking : /\ orders'[<<id[p], 1>>] = "pending"
                        /\ ptzLocks'[plans[p].channel] = id[p]
  /\ \A o \in OrderIds : (\A p \in taking : o # <<id[p], 1>>)
                          => orders'[o] = OrderAfterTick(o)
  /\ \A c \in Channels : (\A p \in taking : plans[p].channel # c)
                          => ptzLocks'[c] = LockAfterTick(c)
  /\ \A p \in Plans :
       plans'[p] = IF p \notin taking \cup Failing THEN plans[p]
                   ELSE [plans[p] EXCEPT !.due = FALSE,
                                         !.state = IF plans[p].once THEN "off" ELSE @]
  /\ DOMAIN runs' = Runs /\ DOMAIN orders' = OrderIds
  /\ DOMAIN ptzLocks' = Channels /\ DOMAIN plans' = Plans

LEMMA TickFires ==
  ASSUME RowsOK, Tick
  PROVE  \E taking, id : FiresAs(taking, id)
<1>0. PICK taking \in Firings :
        \E id \in [taking \cup Failing -> Fresh] : Fire(taking, taking \cup Failing, id)
  BY DEF Tick
<1>. DEFINE fired == taking \cup Failing
<1>1. PICK id \in [fired -> Fresh] : Fire(taking, fired, id)
  BY <1>0
<1>. DEFINE New(r) == {p \in fired : id[p] = r}
<1>2. \A p, q \in fired : id[p] = id[q] => p = q
  BY <1>1 DEF Fire
<1>3. \A p \in fired : id[p] \in Runs /\ New(id[p]) = {p}
  BY <1>2 DEF Fresh
<1>4. \A p \in fired : runs'[id[p]] = PlanRun(p, p \in taking)
  BY <1>1, <1>3 DEF Fire
<1>5. \A r \in Runs : (\A p \in fired : id[p] # r) => runs'[r] = RunAfterTick(r)
  BY <1>1 DEF Fire
<1>6. \A p \in taking : orders'[<<id[p], 1>>] = "pending"
  BY <1>1, <1>3, OrderNames DEF Fire
<1>7. \A p \in taking : ptzLocks'[plans[p].channel] = id[p]
  BY <1>1, OneStarts DEF Fire
<1>8. ASSUME NEW o \in OrderIds, \A p \in taking : o # <<id[p], 1>>
      PROVE  orders'[o] = OrderAfterTick(o)
  <2>1. o = <<o[1], o[2]>>
    BY OrderNames
  <2>2. ~(o[2] = 1 /\ New(o[1]) \cap taking # {})
    BY <1>8, <2>1
  <2>. QED BY <1>1, <2>2 DEF Fire
<1>9. \A c \in Channels : (\A p \in taking : plans[p].channel # c)
                          => ptzLocks'[c] = LockAfterTick(c)
  BY <1>1 DEF Fire
<1>10. /\ \A p \in Plans :
             plans'[p] = IF p \notin fired THEN plans[p]
                         ELSE [plans[p] EXCEPT !.due = FALSE,
                                               !.state = IF plans[p].once THEN "off" ELSE @]
       /\ DOMAIN runs' = Runs /\ DOMAIN orders' = OrderIds
       /\ DOMAIN ptzLocks' = Channels /\ DOMAIN plans' = Plans
  BY <1>1 DEF Fire
<1>11. FiresAs(taking, id)
  BY <1>1, <1>2, <1>4, <1>5, <1>6, <1>7, <1>8, <1>9, <1>10 DEF FiresAs
<1>. QED BY <1>11

LEMMA TickRows ==
  ASSUME RowsOK, Tick
  PROVE  RowsOK'
<1>. USE DEF RowsOK
<1>1. PICK taking, id : FiresAs(taking, id)
  BY TickFires
<1>. DEFINE fired == taking \cup Failing
<1>2. UNCHANGED <<presets, session, online, wire, seen, tasks, motion>>
  BY DEF Tick, adapter
<1>3. ASSUME NEW p \in fired
      PROVE  /\ p \in Plans /\ id[p] \in Fresh
             /\ plans[p].channel \in Channels /\ Len(plans[p].stops) \in Steps
  BY <1>1, OneStarts DEF FiresAs, Failing, Ready, PlansSound
<1>4. ASSUME NEW p \in fired
      PROVE  LET new == runs'[id[p]] IN
             /\ new \in Run /\ new.channel \in Channels /\ ~new.interlocked
             /\ new.step = 1 /\ new.stops \in Steps
  <2>. DEFINE s == IF p \in taking THEN "running" ELSE "failed"
  <2>1. runs'[id[p]] = RunRow(s, plans[p].channel, p, Len(plans[p].stops))
    BY <1>1 DEF FiresAs, PlanRun
  <2>2. s \in {"running", "failed"}
    OBVIOUS
  <2>. HIDE DEF s
  <2>. QED BY <1>3, <2>1, <2>2, RunRowIsRun
<1>5. ASSUME NEW r \in Runs, \A p \in fired : id[p] # r
      PROVE  runs'[r] = RunAfterTick(r)
  BY <1>1, <1>5 DEF FiresAs
<1>6. runs' \in [Runs -> Run]
  <2>1. ASSUME NEW r \in Runs PROVE runs'[r] \in Run
    BY <1>4, <1>5, TickRow
  <2>2. runs' = [r \in Runs |-> runs'[r]]
    BY <1>1 DEF Tick, Fire
  <2>. QED BY <2>1, <2>2
<1>7. orders' \in [OrderIds -> OrderState]
  <2>1. ASSUME NEW o \in OrderIds PROVE OrderAfterTick(o) \in OrderState
    <3>1. CASE o[1] \in Runs /\ Breaks(o[1])
      <4>1. runs[o[1]].channel \in Channels
        BY <3>1 DEF Breaks, Waits, Running, RunsSound
      <4>. QED BY <3>1, <4>1, FinishTypes DEF OrderAfterTick
    <3>. QED BY <3>1 DEF OrderAfterTick, TypeOK, OrderState
  <2>2. orders' = [o \in OrderIds |-> orders'[o]]
    BY DEF Tick, Fire
  <2>3. ASSUME NEW o \in OrderIds PROVE orders'[o] \in OrderState
    BY <1>1, <2>1 DEF FiresAs, OrderState
  <2>. QED BY <2>2, <2>3
<1>8. ptzLocks' \in [Channels -> Runs \cup {Nobody, Operator}]
  <2>1. ASSUME NEW c \in Channels PROVE LockAfterTick(c) \in Runs \cup {Nobody, Operator}
    <3>1. CASE ptzLocks[c] \in Runs /\ Breaks(ptzLocks[c])
      <4>1. runs[ptzLocks[c]].channel \in Channels
        BY <3>1 DEF Breaks, Waits, Running, RunsSound
      <4>. QED BY <3>1, <4>1, FinishTypes DEF LockAfterTick
    <3>. QED BY <3>1 DEF LockAfterTick, TypeOK
  <2>2. ptzLocks' = [c \in Channels |-> ptzLocks'[c]]
    BY DEF Tick, Fire
  <2>3. ASSUME NEW c \in Channels PROVE ptzLocks'[c] \in Runs \cup {Nobody, Operator}
    <3>1. CASE \E p \in taking : plans[p].channel = c
      <4>1. PICK p \in taking : plans[p].channel = c
        BY <3>1
      <4>2. ptzLocks'[c] = id[p] /\ id[p] \in Runs
        BY <1>1, <1>3, <4>1 DEF FiresAs, Fresh
      <4>. QED BY <4>2
    <3>2. CASE \A p \in taking : plans[p].channel # c
      BY <1>1, <2>1, <3>2 DEF FiresAs
    <3>. QED BY <3>1, <3>2
  <2>. QED BY <2>2, <2>3
<1>9. ASSUME NEW p \in Plans
      PROVE  /\ plans'[p] \in Plan /\ plans'[p].channel = plans[p].channel
             /\ plans'[p].stops = plans[p].stops
             /\ plans'[p].state = "none" <=> plans[p].state = "none"
  <2>1. plans[p] \in Plan
    BY DEF TypeOK
  <2>2. CASE p \in fired
    <3>1. plans[p].state = "on"
      BY <1>1, <2>2, OneStarts DEF FiresAs, Failing, Ready
    <3>2. plans'[p] = [plans[p] EXCEPT !.due = FALSE,
                         !.state = IF plans[p].once THEN "off" ELSE @]
      BY <1>1, <2>2 DEF FiresAs
    <3>. QED BY <2>1, <3>1, <3>2 DEF Plan
  <2>. QED BY <1>1, <2>1, <2>2 DEF FiresAs
<1>10. plans' \in [Plans -> Plan]
  <2>1. plans' = [p \in Plans |-> plans'[p]]
    BY DEF Tick, Fire
  <2>. QED BY <1>9, <2>1
<1>11. TypeOK'
  BY <1>2, <1>6, <1>7, <1>8, <1>10 DEF TypeOK
<1>12. RunsSound'
  <2>. SUFFICES ASSUME NEW r \in Runs
       PROVE  /\ runs'[r].status # "none" => runs'[r].channel \in Channels
              /\ runs'[r].interlocked => runs'[r].status \in {"failed", "cancelled"}
              /\ runs'[r].status = "running" => runs'[r].step <= runs'[r].stops
    BY DEF RunsSound, Running
  <2>1. CASE \E p \in fired : id[p] = r
    BY <1>4, <2>1 DEF Steps
  <2>2. CASE \A p \in fired : id[p] # r
    BY <1>5, <2>2, TickRow DEF RunsSound
  <2>. QED BY <2>1, <2>2
<1>13. PlansSound'
  BY <1>2, <1>9 DEF PlansSound, PlanPresetsExist
<1>. QED BY <1>11, <1>12, <1>13

LEMMA RestartRows ==
  ASSUME RowsOK, NEW rows \in [OrderIds -> OrderState], RestartWith(rows)
  PROVE  RowsOK'
<1>. USE DEF RowsOK
<1>1. UNCHANGED <<presets, plans, session, wire, seen, tasks, motion>> /\ online' = FALSE
  BY DEF RestartWith, tables, adapter
<1>2. ASSUME NEW r \in Runs
      PROVE  LET new == runs'[r] IN
             /\ new \in Run /\ new.channel = runs[r].channel
             /\ new.status # "none" => runs[r].status # "none"
             /\ new.interlocked => new.status \in {"failed", "cancelled"}
             /\ new.status # "running"
  <2>1. CASE Running(r)
    <3>1. runs'[r] = Finished(r, "failed", TRUE)
      BY <2>1 DEF RestartWith
    <3>. QED BY <2>1, <3>1, FinishedIsRun DEF Running
  <2>2. CASE ~Running(r)
    <3>1. runs'[r] = runs[r] /\ runs[r] \in Run
      BY <2>2 DEF RestartWith, TypeOK
    <3>. QED BY <2>2, <3>1 DEF Running, RunsSound
  <2>. QED BY <2>1, <2>2
<1>3. runs' \in [Runs -> Run]
  <2>1. runs' = [r \in Runs |-> runs'[r]]
    BY DEF RestartWith
  <2>. QED BY <1>2, <2>1
<1>4. orders' \in [OrderIds -> OrderState]
  BY DEF RestartWith, OrderState
<1>5. ptzLocks' \in [Channels -> Runs \cup {Nobody, Operator}]
  <2>1. ptzLocks' = [c \in Channels |-> ptzLocks'[c]]
    BY DEF RestartWith
  <2>2. ASSUME NEW c \in Channels PROVE ptzLocks'[c] \in Runs \cup {Nobody, Operator}
    BY DEF RestartWith
  <2>. QED BY <2>1, <2>2
<1>6. TypeOK'
  BY <1>1, <1>3, <1>4, <1>5 DEF TypeOK
<1>7. RunsSound' /\ PlansSound'
  BY <1>1, <1>2 DEF RunsSound, Running, PlansSound, PlanPresetsExist
<1>. QED BY <1>6, <1>7

\* A restart that finds a cancellation cut short is a restart over other rows.
LEMMA FailRestarts ==
  ASSUME RowsOK, Fail
  PROVE  \E rows \in [OrderIds -> OrderState] :
           /\ RestartWith(rows)
           /\ \/ rows = orders
              \/ \E r \in Runs : /\ Running(r)
                                 /\ \/ rows = [o \in OrderIds |-> Withdrawn(r, o)]
                                    \/ rows = [o \in OrderIds |-> OrderAfterFinish(r, o, FALSE)]
<1>1. CASE Restart
  BY <1>1 DEF Restart, RowsOK, TypeOK
<1>2. ASSUME NEW r \in Runs, TornCancel(r)
      PROVE  \E rows \in [OrderIds -> OrderState] :
               /\ RestartWith(rows) /\ Running(r)
               /\ \/ rows = [o \in OrderIds |-> Withdrawn(r, o)]
                  \/ rows = [o \in OrderIds |-> OrderAfterFinish(r, o, FALSE)]
  <2>1. Running(r) /\ runs[r].channel \in Channels
    BY <1>2 DEF TornCancel, RowsOK, RunsSound, Running
  <2>2. [o \in OrderIds |-> OrderAfterFinish(r, o, FALSE)] \in [OrderIds -> OrderState]
    BY <2>1, FinishTypes DEF RowsOK
  <2>3. [o \in OrderIds |-> Withdrawn(r, o)] \in [OrderIds -> OrderState]
    BY DEF Withdrawn, RowsOK, TypeOK, OrderState
  <2>. QED BY <1>2, <2>1, <2>2, <2>3 DEF TornCancel
<1>. QED BY <1>1, <1>2 DEF Fail

LEMMA NextRows ==
  ASSUME RowsOK, [Next]_vars
  PROVE  RowsOK'
<1>1. CASE UNCHANGED vars
  BY <1>1 DEF vars, tables, claims, adapter, RowsOK, TypeOK, RunsSound, Running,
              PlansSound, PlanPresetsExist
<1>. QED BY <1>1, ConfigureRows, OperateRows, ElapseRows, TickRows, AdaptRows,
            FailRestarts, RestartRows DEF Next

\* Every row and memory cell holds what its declaration says, in every state
\* and for every number of cameras, runs and plans (ptz.ts:19-141).
THEOREM PtzTypes == Spec => []TypeOK
<1>1. Init => RowsOK
  BY InitRows
<1>2. RowsOK /\ [Next]_vars => RowsOK'
  BY NextRows
<1>3. RowsOK => TypeOK
  BY DEF RowsOK
<1>. QED BY <1>1, <1>2, <1>3, PTL DEF Spec

\* A plan names existing presets of its own camera, whatever is edited, deleted,
\* run or restarted around it (ptz.ts:204-268).
THEOREM PlansNameTheirPresets == Spec => []PlanPresetsExist
<1>1. Init => RowsOK
  BY InitRows
<1>2. RowsOK /\ [Next]_vars => RowsOK'
  BY NextRows
<1>3. RowsOK => PlanPresetsExist
  BY DEF RowsOK, PlansSound
<1>. QED BY <1>1, <1>2, <1>3, PTL DEF Spec

-----------------------------------------------------------------------------
(* Claims, run by run.                                                     *)

\* Nothing a run's own claims are about has changed.
SameFor(r) ==
  /\ runs'[r].status = runs[r].status /\ runs'[r].channel = runs[r].channel
  /\ runs'[r].step = runs[r].step /\ runs'[r].stops = runs[r].stops
  /\ runs'[r].arrived = runs[r].arrived
  /\ runs'[r].interlocked = runs[r].interlocked
  /\ \A n \in 0..MaxStops : orders'[<<r, n>>] = orders[<<r, n>>]

LEMMA SameRun ==
  ASSUME RowsOK, NEW r \in Runs, RunOK(r), SameFor(r), UNCHANGED adapter
  PROVE  RunOK(r)' /\ (Holds(r)' <=> Holds(r))
<1>1. /\ runs[r].step \in Steps /\ runs[r].stops \in Steps
      /\ \A n \in Steps : n \in 0..MaxStops /\ 0 \in 0..MaxStops
      /\ \A n \in 1..runs[r].stops : n \in Steps
  BY PtzPatrolAssumption DEF RowsOK, TypeOK, Run, Steps
<1>2. Holds(r)' <=> Holds(r)
  BY DEF SameFor, Holds, Running
<1>3. OrdersFollow(r)'
  BY <1>1 DEF RunOK, OrdersFollow, SameFor, Running, Open, Current
<1>4. \A n \in Steps : DealsWith(r, n)' <=> DealsWith(r, n)
  BY DEF DealsWith, adapter
<1>5. StopsFollow(r)'
  BY <1>1, <1>4 DEF RunOK, StopsFollow, StopTaken, SameFor, Stop, adapter
<1>6. MovesFollow(r)'
  BY <1>1, <1>2, <1>4 DEF RunOK, MovesFollow, SameFor, Running, adapter
<1>7. Arrived(r)'
  BY <1>1 DEF RunOK, Arrived, SameFor
<1>. QED BY <1>2, <1>3, <1>5, <1>6, <1>7 DEF RunOK

\* Before a run starts, and after it ended with no order out, it has no part in
\* what the adapter does.
LEMMA Unheld ==
  ASSUME NEW r \in Runs, RunOK(r), ~Holds(r), NEW n \in Steps
  PROVE  ~DealsWith(r, n)
  BY DEF RunOK, MovesFollow

LEMMA StartedRun ==
  ASSUME RowsOK, NEW r \in Runs, RunOK(r), r \in Fresh, UNCHANGED adapter,
         runs'[r].status \in {"running", "failed"}, runs'[r].step = 1,
         ~runs'[r].arrived,
         \A n \in 0..MaxStops : orders'[<<r, n>>] =
           IF n = 1 /\ runs'[r].status = "running" THEN "pending" ELSE orders[<<r, n>>]
  PROVE  RunOK(r)'
<1>1. /\ \A n \in Steps : n \in 0..MaxStops /\ n # 0 /\ ~(n < 1)
      /\ 0 \in 0..MaxStops /\ 1 \in Steps
  BY PtzPatrolAssumption DEF Steps
<1>2. runs[r].status = "none" /\ ~Holds(r)
  BY DEF Fresh, Running, Holds, RowsOK, RunsSound
<1>3. OrdersFollow(r)'
  <2>1. \A n \in Steps : ~Open(<<r, n>>)
    BY <1>2 DEF RunOK, OrdersFollow, Holds
  <2>. QED BY <1>1, <2>1 DEF OrdersFollow, Running, Open
<1>4. \A n \in Steps : ~DealsWith(r, n)'
  BY <1>2, Unheld DEF DealsWith, adapter
<1>5. StopsFollow(r)'
  BY <1>1, <1>2, <1>4 DEF RunOK, StopsFollow, StopTaken, Stop, adapter
<1>6. MovesFollow(r)'
  BY <1>4 DEF MovesFollow
<1>. QED BY <1>3, <1>5, <1>6 DEF RunOK, Arrived

LEMMA FinishedRun ==
  ASSUME RowsOK, NEW r \in Runs, RunOK(r), Running(r), UNCHANGED adapter,
         NEW s \in {"failed", "cancelled"}, runs'[r] = Finished(r, s, FALSE),
         \A n \in 0..MaxStops : orders'[<<r, n>>] = OrderAfterFinish(r, <<r, n>>, FALSE)
  PROVE  RunOK(r)' /\ (Holds(r)' <=> Uncertain(r, FALSE))
<1>1. /\ \A n \in Steps : n \in 0..MaxStops /\ n # 0 /\ <<r, n>> # Stop(r)
      /\ 0 \in 0..MaxStops /\ runs[r].step \in Steps
  BY PtzPatrolAssumption DEF Steps, RowsOK, TypeOK, Run, Stop
<1>2. /\ runs'[r].status = s /\ runs'[r].channel = runs[r].channel
      /\ runs'[r].interlocked = Uncertain(r, FALSE)
  BY FinishedIsRun DEF RowsOK
<1>3. ~Running(r)' /\ (Holds(r)' <=> Uncertain(r, FALSE))
  BY <1>2 DEF Running, Holds
<1>4. OrdersFollow(r)'
  <2>1. \A n \in Steps : ~Open(<<r, n>>)'
    <3>. SUFFICES ASSUME NEW n \in Steps PROVE ~Open(<<r, n>>)'
      OBVIOUS
    <3>1. orders'[<<r, n>>] = Withdrawn(r, <<r, n>>)
      BY <1>1 DEF OrderAfterFinish
    <3>2. Open(<<r, n>>) => <<r, n>> = Current(r)
      BY DEF RunOK, OrdersFollow, Current
    <3>. QED BY <3>1, <3>2 DEF Withdrawn, Open
  <2>. QED BY <1>3, <2>1 DEF OrdersFollow
<1>5. \A n \in Steps : DealsWith(r, n)' <=> DealsWith(r, n)
  BY DEF DealsWith, adapter
<1>6. orders[Stop(r)] = "none" /\ ~StopTaken(r)
  BY DEF RunOK, StopsFollow, Running
<1>7. orders'[Stop(r)] \in {"none", "pending"}
  BY <1>1, <1>6 DEF OrderAfterFinish, Withdrawn, Stop, Open
<1>8. StopsFollow(r)'
  <2>1. ~StopTaken(r)'
    BY <1>6, <1>7 DEF StopTaken, Stop, adapter
  <2>. QED BY <1>2, <1>7, <2>1 DEF RunOK, StopsFollow, Stop, adapter
<1>9. MovesFollow(r)'
  <2>1. ASSUME NEW n \in Steps, DealsWith(r, n) PROVE Uncertain(r, FALSE)
    BY <2>1 DEF RunOK, MovesFollow, Uncertain, Current
  <2>. QED BY <1>2, <1>3, <1>5, <2>1 DEF RunOK, MovesFollow, adapter
<1>. QED BY <1>2, <1>3, <1>4, <1>8, <1>9 DEF RunOK, Arrived

\* A camera stays with the run that has it as long as the run holds it.
KeepsOrFrees(c) ==
  /\ \A q \in Runs : ptzLocks[c] = q =>
       ptzLocks'[c] = IF Holds(q)' THEN q ELSE Nobody
  /\ ptzLocks[c] \notin Runs => ptzLocks'[c] = ptzLocks[c]

LEMMA LockStep ==
  ASSUME RowsOK, LockHolds, UNCHANGED session,
         \A r \in Runs : Holds(r)' => Holds(r),
         \A r \in Runs : Holds(r) => runs'[r].channel = runs[r].channel,
         \A c \in Channels : KeepsOrFrees(c)
  PROVE  LockHolds'
<1>1. \A r \in Runs : Holds(r) => runs[r].channel \in Channels
  BY DEF Holds, Running, RowsOK, RunsSound
<1>2. ASSUME NEW r \in Runs, Holds(r)' PROVE ptzLocks'[runs'[r].channel] = r
  BY <1>1, <1>2 DEF LockHolds, KeepsOrFrees
<1>3. ASSUME NEW c \in Channels
      PROVE  /\ \A r \in Runs : ptzLocks'[c] = r => Holds(r)' /\ runs'[r].channel = c
             /\ ptzLocks'[c] = Operator <=> session' = c
  <2>1. CASE ptzLocks[c] \in Runs
    <3>1. PICK q \in Runs : ptzLocks[c] = q
      BY <2>1
    <3>2. Holds(q) /\ runs[q].channel = c /\ session # c
      BY <3>1, PtzPatrolAssumption DEF LockHolds
    <3>3. ptzLocks'[c] = IF Holds(q)' THEN q ELSE Nobody
      BY <3>1 DEF KeepsOrFrees
    <3>. QED BY <3>2, <3>3, PtzPatrolAssumption
  <2>2. CASE ptzLocks[c] \notin Runs
    BY <2>2 DEF LockHolds, KeepsOrFrees
  <2>. QED BY <2>1, <2>2
<1>4. ASSUME NEW r \in Runs PROVE Holds(r)' => ptzLocks'[runs'[r].channel] = r
  BY <1>2
<1>. QED BY <1>3, <1>4 DEF LockHolds

\* The reservation of a run that leaves it unanswered stays, any other goes.
LEMMA FinishedLock ==
  ASSUME RowsOK, LockHolds, NEW r \in Runs, Running(r)
  PROVE  /\ ptzLocks[runs[r].channel] = r
         /\ LockAfterFinish(r, FALSE) = IF Uncertain(r, FALSE) THEN r ELSE Nobody
  BY DEF LockHolds, Holds, LockAfterFinish

LEMMA CancelClaims ==
  ASSUME IInv, NEW r \in Runs, Cancel(r)
  PROVE  ClaimsOK'
<1>. USE DEF IInv, ClaimsOK
<1>1. /\ Running(r) /\ UNCHANGED <<session, wire, seen, tasks, motion>> /\ UNCHANGED adapter
      /\ runs'[r] = Finished(r, "cancelled", FALSE)
      /\ \A q \in Runs \ {r} : runs'[q] = runs[q]
      /\ \A o \in OrderIds : orders'[o] = OrderAfterFinish(r, o, FALSE)
  BY DEF Cancel, adapter, RowsOK, TypeOK
<1>2. RunOK(r)' /\ (Holds(r)' <=> Uncertain(r, FALSE))
  BY <1>1, FinishedRun, OrderNames
<1>3. ASSUME NEW q \in Runs, q # r PROVE RunOK(q)' /\ (Holds(q)' <=> Holds(q))
  <2>1. SameFor(q)
    <3>1. \A n \in 0..MaxStops : orders'[<<q, n>>] = orders[<<q, n>>]
      BY <1>1, <1>3, OrderNames DEF OrderAfterFinish, Withdrawn, Stop, Current
    <3>. QED BY <1>1, <1>3, <3>1 DEF SameFor
  <2>. QED BY <1>1, <2>1, SameRun
<1>4. runs'[r].channel = runs[r].channel
  BY <1>1, FinishedIsRun DEF RowsOK
<1>5. ASSUME NEW c \in Channels
      PROVE  KeepsOrFrees(c)
  <2>1. \A q \in Runs : ptzLocks[c] = q => Holds(q) /\ runs[q].channel = c
    BY DEF LockHolds
  <2>2. CASE c = runs[r].channel
    <3>1. ptzLocks[c] = r /\ ptzLocks'[c] = IF Uncertain(r, FALSE) THEN r ELSE Nobody
      BY <1>1, <2>2, FinishedLock DEF Cancel, RowsOK, TypeOK
    <3>. QED BY <1>2, <3>1 DEF KeepsOrFrees
  <2>3. CASE c # runs[r].channel
    <3>1. ptzLocks'[c] = ptzLocks[c]
      BY <2>3 DEF Cancel, RowsOK, TypeOK
    <3>2. \A q \in Runs : ptzLocks[c] = q => q # r /\ Holds(q)'
      BY <1>3, <2>1, <2>3
    <3>. QED BY <3>1, <3>2 DEF KeepsOrFrees
  <2>. QED BY <2>2, <2>3
<1>6. LockHolds'
  <2>1. \A q \in Runs : Holds(q)' => Holds(q)
    BY <1>1, <1>3 DEF Holds
  <2>2. \A q \in Runs : runs'[q].channel = runs[q].channel
    BY <1>1, <1>4
  <2>. QED BY <1>1, <1>5, <2>1, <2>2, LockStep
<1>7. SessionExcludesPatrol'
  BY <1>1, <1>3 DEF SessionExcludesPatrol, Holds
<1>. QED BY <1>2, <1>3, <1>6, <1>7

LEMMA ReleaseClaims ==
  ASSUME IInv, NEW r \in Runs, Release(r)
  PROVE  ClaimsOK'
<1>. USE DEF IInv, ClaimsOK
<1>1. /\ runs[r].interlocked /\ Verified(runs[r].channel)
      /\ runs'[r] = [runs[r] EXCEPT !.interlocked = FALSE] /\ runs[r] \in Run
      /\ \A q \in Runs \ {r} : runs'[q] = runs[q]
      /\ UNCHANGED <<orders, session, wire, seen, tasks, motion>> /\ UNCHANGED adapter
  BY DEF Release, adapter, RowsOK, TypeOK
<1>2. /\ ~Running(r) /\ ~Running(r)' /\ Holds(r) /\ ~Holds(r)'
      /\ runs'[r].status = runs[r].status /\ runs'[r].channel = runs[r].channel
      /\ runs'[r].status \in {"failed", "cancelled"}
  BY <1>1 DEF Running, Holds, Run, RowsOK, RunsSound
<1>3. ASSUME NEW n \in Steps PROVE ~DealsWith(r, n)
  <2>1. <<r, n>> \in OrderIds /\ ChannelOf(<<r, n>>) = runs[r].channel
    BY OrderNames
  <2>2. tasks[<<r, n>>] = "none" /\ <<r, n>> \notin wire
    BY <1>1, <2>1 DEF Verified
  <2>3. \A c \in Channels : motion[c] = <<r, n>> => c = runs[r].channel
    BY DEF RunOK, MovesFollow, DealsWith
  <2>4. <<r, n>> # AtRest
    BY <2>1, PtzPatrolAssumption DEF OrderIds
  <2>. QED BY <1>1, <2>2, <2>3, <2>4 DEF DealsWith, Verified
<1>4. RunOK(r)'
  <2>1. \A n \in Steps : ~DealsWith(r, n)' /\ ~Open(<<r, n>>)'
    BY <1>1, <1>2, <1>3 DEF DealsWith, Open, RunOK, OrdersFollow
  <2>2. OrdersFollow(r)' /\ MovesFollow(r)' /\ Arrived(r)'
    BY <1>2, <2>1 DEF OrdersFollow, MovesFollow, Arrived
  <2>3. StopsFollow(r)'
    BY <1>1, <1>2, <2>1 DEF RunOK, StopsFollow, StopTaken, Stop
  <2>. QED BY <2>2, <2>3 DEF RunOK
<1>5. ASSUME NEW q \in Runs, q # r PROVE RunOK(q)' /\ (Holds(q)' <=> Holds(q))
  BY <1>1, <1>5, SameRun DEF SameFor
<1>6. ASSUME NEW c \in Channels
      PROVE  KeepsOrFrees(c)
  <2>1. \A q \in Runs : ptzLocks[c] = q => Holds(q) /\ runs[q].channel = c
    BY DEF LockHolds
  <2>2. ptzLocks'[c] = IF c = runs[r].channel /\ ptzLocks[c] = r THEN Nobody
                       ELSE ptzLocks[c]
    BY DEF Release
  <2>3. \A q \in Runs : q # r /\ ptzLocks[c] = q => Holds(q)'
    BY <1>5, <2>1
  <2>. QED BY <1>2, <2>1, <2>2, <2>3 DEF KeepsOrFrees
<1>7. LockHolds'
  <2>1. \A q \in Runs : Holds(q)' => Holds(q)
    BY <1>2, <1>5
  <2>2. \A q \in Runs : runs'[q].channel = runs[q].channel
    BY <1>1, <1>2
  <2>. QED BY <1>1, <1>6, <2>1, <2>2, LockStep
<1>8. SessionExcludesPatrol'
  BY <1>1, <1>2, <1>5 DEF SessionExcludesPatrol
<1>. QED BY <1>4, <1>5, <1>7, <1>8

LEMMA StartClaims ==
  ASSUME IInv, NEW r \in Runs, NEW c \in Channels, NEW plan \in Plans \cup {Nobody},
         NEW k \in Steps, Start(r, c, plan, k)
  PROVE  ClaimsOK'
<1>. USE DEF IInv, ClaimsOK
<1>. DEFINE row == NewRun(c, plan, k)
<1>1. /\ row.status = IF Accepts THEN "running" ELSE "failed"
      /\ row.channel = c /\ row.step = 1 /\ ~row.interlocked /\ ~row.arrived
  BY RunRowIsRun DEF NewRun
<1>2. /\ r \in Fresh /\ ptzLocks[c] = Nobody
      /\ runs'[r] = row /\ \A q \in Runs \ {r} : runs'[q] = runs[q]
      /\ UNCHANGED session /\ UNCHANGED adapter
      /\ \A o \in OrderIds : orders'[o] = IF o = <<r, 1>> /\ Accepts THEN "pending"
                                          ELSE orders[o]
      /\ \A d \in Channels : ptzLocks'[d] = IF d = c /\ Accepts THEN r ELSE ptzLocks[d]
  BY OrderNames DEF Start, RowsOK, TypeOK
<1>. HIDE DEF row
<1>3. ~Holds(r) /\ (Holds(r)' <=> Accepts)
  BY <1>1, <1>2 DEF Fresh, Holds, Running, RowsOK, RunsSound
<1>4. RunOK(r)'
  <2>1. runs'[r].status = IF Accepts THEN "running" ELSE "failed"
    BY <1>1, <1>2
  <2>2. \A n \in 0..MaxStops : orders'[<<r, n>>] =
           IF n = 1 /\ runs'[r].status = "running" THEN "pending" ELSE orders[<<r, n>>]
    BY <1>2, <2>1, OrderNames
  <2>. QED BY <1>1, <1>2, <2>1, <2>2, StartedRun
<1>5. ASSUME NEW q \in Runs, q # r PROVE RunOK(q)' /\ (Holds(q)' <=> Holds(q))
  <2>1. SameFor(q)
    BY <1>2, <1>5, OrderNames DEF SameFor
  <2>. QED BY <1>2, <2>1, SameRun
<1>6. LockHolds'
  <2>1. ASSUME NEW q \in Runs, Holds(q)' PROVE ptzLocks'[runs'[q].channel] = q
    <3>1. CASE q = r
      BY <1>1, <1>2, <1>3, <2>1, <3>1
    <3>2. CASE q # r
      <4>1. Holds(q) /\ ptzLocks[runs[q].channel] = q /\ runs[q].channel \in Channels
        BY <1>5, <2>1, <3>2 DEF LockHolds, Holds, Running, RowsOK, RunsSound
      <4>. QED BY <1>2, <3>2, <4>1, PtzPatrolAssumption
    <3>. QED BY <3>1, <3>2
  <2>2. ASSUME NEW d \in Channels
        PROVE  /\ \A q \in Runs : ptzLocks'[d] = q => Holds(q)' /\ runs'[q].channel = d
               /\ ptzLocks'[d] = Operator <=> session' = d
    <3>1. CASE d = c /\ Accepts
      <4>1. ptzLocks'[d] = r /\ Holds(r)' /\ runs'[r].channel = d /\ session' # d
        BY <1>1, <1>2, <1>3, <3>1, PtzPatrolAssumption DEF LockHolds
      <4>. QED BY <4>1, PtzPatrolAssumption
    <3>2. CASE ~(d = c /\ Accepts)
      <4>1. ptzLocks'[d] = ptzLocks[d]
        BY <1>2, <3>2
      <4>2. \A q \in Runs : ptzLocks[d] = q => /\ Holds(q) /\ runs[q].channel = d /\ q # r
        BY <1>3 DEF LockHolds
      <4>3. \A q \in Runs : ptzLocks[d] = q => Holds(q)' /\ runs'[q].channel = d
        BY <1>2, <1>5, <4>2
      <4>. QED BY <1>2, <4>1, <4>3 DEF LockHolds
    <3>. QED BY <3>1, <3>2
  <2>3. \A q \in Runs : Holds(q)' => ptzLocks'[runs'[q].channel] = q
    BY <2>1
  <2>. QED BY <2>2, <2>3 DEF LockHolds
<1>7. SessionExcludesPatrol'
  BY <1>2, <1>3, <1>5 DEF SessionExcludesPatrol, Accepts
<1>. QED BY <1>4, <1>5, <1>6, <1>7

\* Steps that change no claim: rows of presets and plans, clocks, the link, and
\* the orders of operators.
LEMMA SameClaims ==
  ASSUME IInv, \A r \in Runs : SameFor(r),
         UNCHANGED <<ptzLocks, session, wire, seen, tasks, motion>>
  PROVE  ClaimsOK'
<1>1. ASSUME NEW r \in Runs PROVE RunOK(r)' /\ (Holds(r)' <=> Holds(r))
  BY SameRun DEF IInv, ClaimsOK, adapter
<1>2. \A r \in Runs : runs'[r].channel = runs[r].channel
  BY DEF SameFor
<1>. QED BY <1>1, <1>2 DEF IInv, ClaimsOK, LockHolds, SessionExcludesPatrol

LEMMA ConfigureClaims ==
  ASSUME IInv, Configure
  PROVE  ClaimsOK'
<1>1. UNCHANGED <<runs, orders, ptzLocks, session, wire, seen, tasks, motion>>
  BY DEF Configure, SavePreset, DeletePreset, SavePlan, DeletePlan, claims, adapter
<1>. QED BY <1>1, SameClaims DEF SameFor

LEMMA ElapseClaims ==
  ASSUME IInv, Elapse
  PROVE  ClaimsOK'
<1>1. ASSUME NEW r \in Runs, TimePasses(r) PROVE ClaimsOK'
  <2>1. /\ UNCHANGED <<orders, ptzLocks, session, wire, seen, tasks, motion>>
        /\ runs' = [runs EXCEPT ![r].due = TRUE] /\ runs \in [Runs -> Run]
    BY <1>1 DEF TimePasses, adapter, IInv, RowsOK, TypeOK
  <2>2. \A q \in Runs : SameFor(q)
    BY <2>1 DEF SameFor, Run
  <2>. QED BY <2>1, <2>2, SameClaims
<1>2. ASSUME NEW p \in Plans, PlanComesDue(p) PROVE ClaimsOK'
  BY <1>2, SameClaims DEF PlanComesDue, claims, adapter, SameFor
<1>3. ASSUME Telemetry PROVE ClaimsOK'
  BY <1>3, SameClaims DEF Telemetry, claims, adapter, SameFor
<1>. QED BY <1>1, <1>2, <1>3 DEF Elapse

LEMMA OperateClaims ==
  ASSUME IInv, Operate
  PROVE  ClaimsOK'
<1>. USE DEF IInv, ClaimsOK
<1>1. ASSUME NEW r \in Runs, NEW p \in Presets, RunPreset(r, p) PROVE ClaimsOK'
  BY <1>1, StartClaims, OrderNames DEF RunPreset, RowsOK, TypeOK
<1>2. ASSUME NEW r \in Runs, NEW p \in Plans, RunPlan(r, p) PROVE ClaimsOK'
  BY <1>2, StartClaims DEF RunPlan, RowsOK, PlansSound
<1>3. ASSUME NEW r \in Runs, Cancel(r) \/ Release(r) PROVE ClaimsOK'
  BY <1>3, CancelClaims, ReleaseClaims
<1>4. ASSUME NEW c \in Channels, Command(c) PROVE ClaimsOK'
  <2>1. \A r \in Runs, n \in 0..MaxStops : orders'[<<r, n>>] = orders[<<r, n>>]
    BY <1>4, OrderNames, PtzPatrolAssumption DEF Command, Direct, RowsOK, TypeOK
  <2>. QED BY <1>4, <2>1, SameClaims DEF Command, SameFor, adapter
<1>5. ASSUME NEW target \in Channels \cup {"drive"}, TakeOver(target) PROVE ClaimsOK'
  <2>1. UNCHANGED <<runs, orders, wire, seen, tasks, motion>> /\ UNCHANGED adapter
    BY <1>5 DEF TakeOver, adapter
  <2>2. ASSUME NEW r \in Runs PROVE ~Holds(r) /\ runs'[r] = runs[r] /\ RunOK(r)'
    <3>1. ~Holds(r)
      BY <1>5, PtzPatrolAssumption
      DEF TakeOver, LockHolds, Holds, Running, RowsOK, RunsSound
    <3>. QED BY <2>1, <3>1, SameRun DEF SameFor
  <2>3. \A r \in Runs : ~Holds(r)'
    BY <2>1, <2>2, SameRun DEF SameFor
  <2>4. \A c \in Channels : ptzLocks'[c] = IF c = target THEN Operator ELSE Nobody
    BY <1>5 DEF TakeOver
  <2>5. LockHolds'
    BY <1>5, <2>3, <2>4, PtzPatrolAssumption DEF TakeOver, LockHolds
  <2>. QED BY <2>2, <2>3, <2>5 DEF SessionExcludesPatrol
<1>6. ASSUME EndSession PROVE ClaimsOK'
  <2>1. UNCHANGED <<runs, orders, wire, seen, tasks, motion>> /\ UNCHANGED adapter
    BY <1>6 DEF EndSession, adapter
  <2>2. ASSUME NEW r \in Runs PROVE RunOK(r)' /\ ~Holds(r) /\ ~Holds(r)'
    BY <1>6, <2>1, SameRun DEF SameFor, EndSession, SessionExcludesPatrol
  <2>3. \A c \in Channels : ptzLocks'[c] \notin Runs /\ ptzLocks'[c] # Operator
    BY <1>6, <2>2, PtzPatrolAssumption DEF EndSession, LockHolds
  <2>4. LockHolds'
    BY <1>6, <2>2, <2>3, PtzPatrolAssumption DEF EndSession, LockHolds
  <2>. QED BY <1>6, <2>2, <2>4 DEF SessionExcludesPatrol
<1>. QED BY <1>1, <1>2, <1>3, <1>4, <1>5, <1>6, PtzPatrolAssumption DEF Operate

\* A step of the adapter after which it has to do with no more moves of a run
\* than before, and settles only what it is through with.
Recedes(r) ==
  /\ runs'[r] = runs[r]
  /\ \A n \in Steps :
       /\ DealsWith(r, n)' => DealsWith(r, n)
       /\ \/ orders'[<<r, n>>] = orders[<<r, n>>]
          \/ Open(<<r, n>>) /\ ~Open(<<r, n>>)' /\ ~DealsWith(r, n)'
       /\ <<r, n>> \in wire' => <<r, n>> \in wire /\ tasks'[<<r, n>>] = tasks[<<r, n>>]
       /\ \A c \in Channels : motion'[c] = <<r, n>> =>
            \/ motion[c] = <<r, n>>
            \/ c = runs[r].channel /\ <<r, n>> \notin wire'
  /\ orders[Stop(r)] # "none" => orders'[Stop(r)] # "none"
  /\ \/ orders'[Stop(r)] = orders[Stop(r)]
     \/ Open(Stop(r)) /\ StopTaken(r) /\ \A n \in Steps : ~DealsWith(r, n)'
  /\ tasks'[Stop(r)] # "moving"
  /\ tasks'[Stop(r)] # "none" => StopTaken(r)
  /\ Stop(r) \in wire' => Stop(r) \in wire

LEMMA RecedingRun ==
  ASSUME RowsOK, NEW r \in Runs, RunOK(r), Recedes(r)
  PROVE  RunOK(r)'
<1>1. /\ runs[r].step \in Steps /\ runs[r].stops \in Steps
      /\ \A n \in 1..runs[r].stops : n \in Steps
  BY PtzPatrolAssumption DEF RowsOK, TypeOK, Run, Steps
<1>2. \A n \in Steps : orders[<<r, n>>] = "done" => orders'[<<r, n>>] = "done"
  BY DEF Recedes, Open
<1>3. \A n \in Steps : Open(<<r, n>>)' => Open(<<r, n>>)
  BY DEF Recedes, Open
<1>4. OrdersFollow(r)'
  BY <1>1, <1>2, <1>3 DEF RunOK, OrdersFollow, Recedes, Running, Current
<1>5. StopsFollow(r)'
  <2>1. StopTaken(r)' => StopTaken(r)
    BY DEF Recedes, StopTaken, Stop
  <2>2. orders[Stop(r)] = "none" => ~StopTaken(r)
    BY DEF RunOK, StopsFollow
  <2>3. orders'[Stop(r)] # "none" => orders[Stop(r)] # "none"
    BY DEF Recedes, Open
  <2>4. orders'[Stop(r)] = "done" => \A n \in Steps : ~DealsWith(r, n)'
    BY DEF RunOK, StopsFollow, Recedes
  <2>. QED BY <2>1, <2>2, <2>3, <2>4 DEF RunOK, StopsFollow, Recedes, Stop
<1>6. MovesFollow(r)'
  <2>. SUFFICES ASSUME NEW n \in Steps, DealsWith(r, n)'
       PROVE  /\ Holds(r)'
              /\ Running(r)' => runs'[r].step = n /\ orders'[<<r, n>>] = "acked"
              /\ \A c \in Channels : motion'[c] = <<r, n>> => c = runs'[r].channel
              /\ <<r, n>> \in wire' => /\ tasks'[<<r, n>>] = "none"
                                       /\ \A c \in Channels : motion'[c] # <<r, n>>
    BY DEF MovesFollow
  <2>1. DealsWith(r, n) /\ orders'[<<r, n>>] = orders[<<r, n>>] /\ runs'[r] = runs[r]
    BY DEF Recedes
  <2>2. /\ Holds(r)
        /\ Running(r) => runs[r].step = n /\ orders[<<r, n>>] = "acked"
        /\ \A c \in Channels : motion[c] = <<r, n>> => c = runs[r].channel
        /\ <<r, n>> \in wire => /\ tasks[<<r, n>>] = "none"
                                /\ \A c \in Channels : motion[c] # <<r, n>>
    BY <2>1 DEF RunOK, MovesFollow
  <2>. QED BY <2>1, <2>2 DEF Holds, Running, Recedes
<1>7. Arrived(r)'
  BY <1>1, <1>2 DEF RunOK, Arrived, Recedes
<1>. QED BY <1>4, <1>5, <1>6, <1>7 DEF RunOK

\* While the claims of other actors stay, receding runs are all there is to show.
LEMMA AdapterClaims ==
  ASSUME IInv, UNCHANGED <<runs, ptzLocks, session>>, \A r \in Runs : RunOK(r)'
  PROVE  ClaimsOK'
  BY DEF IInv, ClaimsOK, LockHolds, SessionExcludesPatrol, Holds, Running

LEMMA PullClaims ==
  ASSUME IInv, PullOrders
  PROVE  ClaimsOK'
<1>. USE DEF IInv, ClaimsOK
<1>1. /\ wire = {} /\ UNCHANGED <<runs, ptzLocks, session, tasks, motion>>
      /\ \A o \in OrderIds : /\ orders'[o] = IF orders[o] = "pending" THEN "acked" ELSE orders[o]
                             /\ o \in wire' <=> orders[o] = "pending"
  BY DEF PullOrders
<1>2. ASSUME NEW r \in Runs PROVE RunOK(r)'
  <2>1. /\ \A n \in Steps : <<r, n>> \in OrderIds
        /\ Stop(r) \in OrderIds /\ runs[r].step \in Steps
        /\ \A n \in 1..runs[r].stops : n \in Steps
        /\ Current(r) \in OrderIds
    BY OrderNames, PtzPatrolAssumption DEF Stop, Current, RowsOK, TypeOK, Run, Steps
  <2>2. OrdersFollow(r)'
    BY <1>1, <2>1 DEF RunOK, OrdersFollow, Open, Running, Current
  <2>3. Arrived(r)'
    BY <1>1, <2>1 DEF RunOK, Arrived
  <2>4. \A n \in Steps : <<r, n>> \in wire' => Running(r) /\ runs[r].step = n
    BY <1>1, <2>1 DEF RunOK, OrdersFollow, Open
  <2>5. orders[Stop(r)] # "none" => ~Running(r)
    BY DEF RunOK, StopsFollow, Running
  <2>6. StopsFollow(r)'
    <3>1. StopTaken(r)' => orders[Stop(r)] # "none"
      BY <1>1, <2>1 DEF RunOK, StopsFollow, StopTaken, Stop
    <3>2. StopTaken(r)' => \A n \in Steps : <<r, n>> \notin wire'
      BY <2>4, <2>5, <3>1
    <3>3. orders'[Stop(r)] = "done" => \A n \in Steps : ~DealsWith(r, n)'
      BY <1>1, <2>1, <2>4, <2>5 DEF RunOK, StopsFollow, DealsWith
    <3>4. orders'[Stop(r)] # "none" => orders[Stop(r)] # "none"
      BY <1>1, <2>1
    <3>5. StopTaken(r)' => orders'[Stop(r)] # "none"
      BY <1>1, <2>1, <3>1
    <3>. QED BY <1>1, <3>2, <3>3, <3>4, <3>5 DEF RunOK, StopsFollow, Stop
  <2>7. MovesFollow(r)'
    <3>. SUFFICES ASSUME NEW n \in Steps, DealsWith(r, n)'
         PROVE  /\ Holds(r)'
                /\ Running(r)' => runs'[r].step = n /\ orders'[<<r, n>>] = "acked"
                /\ \A c \in Channels : motion'[c] = <<r, n>> => c = runs'[r].channel
                /\ <<r, n>> \in wire' => /\ tasks'[<<r, n>>] = "none"
                                         /\ \A c \in Channels : motion'[c] # <<r, n>>
      BY DEF MovesFollow
    <3>1. CASE DealsWith(r, n)
      <4>1. /\ Holds(r)
            /\ Running(r) => runs[r].step = n /\ orders[<<r, n>>] = "acked"
            /\ \A c \in Channels : motion[c] = <<r, n>> => c = runs[r].channel
        BY <3>1 DEF RunOK, MovesFollow
      <4>2. <<r, n>> \notin wire'
        BY <1>1, <2>1, <2>4, <4>1
      <4>. QED BY <1>1, <2>1, <4>1, <4>2 DEF Holds, Running
    <3>2. CASE ~DealsWith(r, n)
      <4>1. <<r, n>> \in wire'
        BY <1>1, <3>2 DEF DealsWith
      <4>. QED BY <1>1, <2>1, <2>4, <3>2, <4>1 DEF DealsWith, Holds, Running
    <3>. QED BY <3>1, <3>2
  <2>. QED BY <2>2, <2>3, <2>6, <2>7 DEF RunOK
<1>. QED BY <1>1, <1>2, AdapterClaims

\* A reply that arrives or is lost, a process that is gone, a camera at rest.
LEMMA QuietClaims ==
  ASSUME IInv, Deliver \/ LoseReply \/ AdapterCrash \/ \E c \in Channels : CameraRests(c)
  PROVE  ClaimsOK'
<1>. USE DEF IInv, ClaimsOK
<1>1. /\ UNCHANGED <<runs, orders, ptzLocks, session>> /\ wire' \subseteq wire
      /\ \A o \in OrderIds :
           /\ tasks'[o] # "none" => o \in wire \/ tasks[o] # "none"
           /\ tasks'[o] = "moving" => tasks[o] = "moving"
           /\ o \in wire' => tasks'[o] = tasks[o]
      /\ \A c \in Channels : motion'[c] # motion[c] => motion'[c] = AtRest
  BY DEF Deliver, LoseReply, AdapterCrash, CameraRests, claims, RowsOK, TypeOK
<1>2. ASSUME NEW r \in Runs PROVE RunOK(r)'
  <2>1. /\ Stop(r) \in OrderIds
        /\ \A n \in Steps : <<r, n>> \in OrderIds /\ <<r, n>> # AtRest
    <3>1. Stop(r) \in OrderIds /\ \A n \in Steps : <<r, n>> \in OrderIds
      <4>1. \A n \in Steps \cup {0} : n \in 0..MaxStops
        BY PtzPatrolAssumption DEF Steps
      <4>. QED BY <4>1, OrderNames DEF Stop
    <3>2. AtRest \notin OrderIds
      BY PtzPatrolAssumption DEF OrderIds
    <3>. QED BY <3>1, <3>2
  <2>2. Recedes(r)
    <3>1. \A n \in Steps : DealsWith(r, n)' => DealsWith(r, n)
      BY <1>1, <2>1 DEF DealsWith
    <3>2. tasks[Stop(r)] # "moving"
      BY DEF RunOK, StopsFollow
    <3>. QED BY <1>1, <2>1, <3>1, <3>2 DEF Recedes, StopTaken, Stop
  <2>. QED BY <2>2, RecedingRun
<1>. QED BY <1>1, <1>2, AdapterClaims

LEMMA MoveClaims ==
  ASSUME IInv, NEW o \in OrderIds, Move(o)
  PROVE  ClaimsOK'
<1>. USE DEF IInv, ClaimsOK
<1>1. /\ tasks[o] = "begun" /\ IsMove(o)
      /\ UNCHANGED <<runs, orders, ptzLocks, session, wire>>
      /\ \A p \in OrderIds : tasks'[p] = IF p = o THEN "moving" ELSE tasks[p]
      /\ \A c \in Channels : motion'[c] = IF c = ChannelOf(o) THEN o ELSE motion[c]
  BY DEF Move, claims, RowsOK, TypeOK
<1>2. ASSUME NEW r \in Runs PROVE RunOK(r)'
  <2>1. /\ Stop(r) \in OrderIds /\ Stop(r) # o
        /\ \A n \in Steps : <<r, n>> \in OrderIds /\ ChannelOf(<<r, n>>) = runs[r].channel
    <3>1. Stop(r) \in OrderIds /\ IsStop(Stop(r))
      BY PtzPatrolAssumption DEF Stop, IsStop, OrderIds
    <3>. QED BY <1>1, <3>1, OrderNames DEF IsMove
  <2>2. \A n \in Steps : <<r, n>> \in wire => <<r, n>> # o
    BY <1>1 DEF RunOK, MovesFollow, DealsWith
  <2>3. Recedes(r)
    <3>1. \A n \in Steps : DealsWith(r, n)' => DealsWith(r, n)
      BY <1>1, <2>1 DEF DealsWith
    <3>2. \A n \in Steps, c \in Channels : motion'[c] = <<r, n>> =>
            motion[c] = <<r, n>> \/ (c = runs[r].channel /\ <<r, n>> \notin wire')
      BY <1>1, <2>1, <2>2
    <3>3. tasks[Stop(r)] # "moving"
      BY DEF RunOK, StopsFollow
    <3>4. \A n \in Steps : <<r, n>> \in wire' =>
            <<r, n>> \in wire /\ tasks'[<<r, n>>] = tasks[<<r, n>>]
      BY <1>1, <2>1, <2>2
    <3>. QED BY <1>1, <2>1, <3>1, <3>2, <3>3, <3>4 DEF Recedes, StopTaken, Stop
  <2>. QED BY <2>3, RecedingRun
<1>. QED BY <1>1, <1>2, AdapterClaims

LEMMA SettledClaims ==
  ASSUME IInv, NEW o \in OrderIds, NEW lost \in BOOLEAN,
         MoveDone(o, lost) \/ MoveFails(o, lost)
  PROVE  ClaimsOK'
<1>. USE DEF IInv, ClaimsOK
<1>1. /\ tasks[o] # "none" /\ (tasks[o] = "moving" \/ IsMove(o))
      /\ UNCHANGED <<runs, ptzLocks, session, wire>>
      /\ \A p \in OrderIds : tasks'[p] = IF p = o THEN "none" ELSE tasks[p]
      /\ \A p \in OrderIds : \/ orders'[p] = orders[p]
                             \/ p = o /\ Open(p) /\ orders'[p] \in {"done", "failed"}
      /\ \/ motion' = motion /\ motion[ChannelOf(o)] = AtRest
         \/ \A c \in Channels : motion'[c] = IF motion[c] = o THEN Adrift ELSE motion[c]
  BY DEF MoveDone, MoveFails, Settled, RowsOK, TypeOK
<1>2. ASSUME NEW r \in Runs PROVE RunOK(r)'
  <2>1. /\ Stop(r) \in OrderIds /\ Stop(r) # o
        /\ \A n \in Steps : /\ <<r, n>> \in OrderIds
                            /\ ChannelOf(<<r, n>>) = runs[r].channel
                            /\ <<r, n>> # AtRest /\ <<r, n>> # Adrift
    BY <1>1, OrderNames, PtzPatrolAssumption
    DEF Stop, IsMove, IsStop, OrderIds, RunOK, StopsFollow
  <2>2. \A n \in Steps : DealsWith(r, n)' => DealsWith(r, n)
    BY <1>1, <2>1 DEF DealsWith
  <2>3. ASSUME NEW n \in Steps, o = <<r, n>> PROVE ~DealsWith(r, n)'
    <3>1. /\ DealsWith(r, n) /\ <<r, n>> \notin wire
          /\ \A c \in Channels : motion[c] = <<r, n>> => c = runs[r].channel
      BY <1>1, <2>3 DEF DealsWith, RunOK, MovesFollow
    <3>. QED BY <1>1, <2>1, <2>3, <3>1 DEF DealsWith
  <2>4. Recedes(r)
    <3>1. \A n \in Steps : \/ orders'[<<r, n>>] = orders[<<r, n>>]
                           \/ Open(<<r, n>>) /\ ~Open(<<r, n>>)' /\ ~DealsWith(r, n)'
      BY <1>1, <2>1, <2>3 DEF Open
    <3>2. \A n \in Steps, c \in Channels : motion'[c] = <<r, n>> => motion[c] = <<r, n>>
      BY <1>1, <2>1
    <3>3. tasks[Stop(r)] # "moving" /\ tasks'[Stop(r)] = tasks[Stop(r)]
      BY <1>1, <2>1 DEF RunOK, StopsFollow
    <3>4. \A n \in Steps : <<r, n>> \in wire => <<r, n>> # o
      BY <1>1 DEF RunOK, MovesFollow, DealsWith
    <3>5. orders'[Stop(r)] = orders[Stop(r)]
      BY <1>1, <2>1
    <3>6. \A n \in Steps : <<r, n>> \in wire' =>
            <<r, n>> \in wire /\ tasks'[<<r, n>>] = tasks[<<r, n>>]
      BY <1>1, <2>1, <3>4
    <3>. QED BY <1>1, <2>2, <3>1, <3>2, <3>3, <3>5, <3>6 DEF Recedes, StopTaken
  <2>. QED BY <2>4, RecedingRun
<1>. QED BY <1>1, <1>2, AdapterClaims

LEMMA StopClaims ==
  ASSUME IInv, NEW o \in OrderIds, NEW lost \in BOOLEAN,
         StopDone(o, lost) \/ StopFails(o, lost)
  PROVE  ClaimsOK'
<1>. USE DEF IInv, ClaimsOK
<1>1. /\ tasks[o] = "begun" /\ IsStop(o)
      /\ UNCHANGED <<runs, ptzLocks, session, wire>>
      /\ \A p \in OrderIds : tasks'[p] = IF p = o \/ Cancels(o, p) THEN "none" ELSE tasks[p]
      /\ \A p \in OrderIds : \/ orders'[p] = orders[p]
                             \/ /\ p = o \/ Cancels(o, p)
                                /\ Open(p) /\ orders'[p] \in {"done", "failed"}
      /\ \A c \in Channels : IF c = ChannelOf(o) THEN motion'[c] \in {AtRest, Adrift}
                             ELSE motion'[c] = motion[c]
  BY DEF StopDone, StopFails, StopEnds, Settled, RowsOK, TypeOK
<1>2. ASSUME NEW r \in Runs PROVE RunOK(r)'
  <2>1. /\ Stop(r) \in OrderIds /\ ~Cancels(o, Stop(r))
        /\ \A n \in Steps : /\ <<r, n>> \in OrderIds /\ <<r, n>> # o /\ IsMove(<<r, n>>)
                            /\ ChannelOf(<<r, n>>) = runs[r].channel
                            /\ <<r, n>> # AtRest /\ <<r, n>> # Adrift
    <3>1. Stop(r) \in OrderIds /\ IsStop(Stop(r))
      BY PtzPatrolAssumption DEF Stop, IsStop, OrderIds
    <3>2. \A n \in Steps : /\ <<r, n>> \in OrderIds /\ ~IsStop(<<r, n>>)
                           /\ ChannelOf(<<r, n>>) = runs[r].channel
      BY OrderNames DEF Steps
    <3>3. \A n \in Steps : <<r, n>> # AtRest /\ <<r, n>> # Adrift
      BY <3>2, PtzPatrolAssumption DEF OrderIds
    <3>. QED BY <1>1, <3>1, <3>2, <3>3 DEF Cancels, IsMove
  <2>2. \A n \in Steps : DealsWith(r, n)' => DealsWith(r, n)
    BY <1>1, <2>1 DEF DealsWith
  <2>3. ASSUME NEW n \in Steps, ~DealsWith(r, n) \/ <<r, n>> \notin wire,
               ChannelOf(o) = runs[r].channel
        PROVE  ~DealsWith(r, n)'
    <3>1. tasks'[<<r, n>>] = "none"
      BY <1>1, <2>1, <2>3 DEF Cancels
    <3>2. <<r, n>> \notin wire
      BY <2>3 DEF DealsWith
    <3>3. \A c \in Channels : motion[c] = <<r, n>> => c = runs[r].channel
      BY DEF RunOK, MovesFollow, DealsWith
    <3>. QED BY <1>1, <2>1, <2>3, <3>1, <3>2, <3>3 DEF DealsWith
  <2>4. \A n \in Steps : <<r, n>> \in wire => tasks[<<r, n>>] = "none"
    BY DEF RunOK, MovesFollow, DealsWith
  <2>5. Recedes(r)
    <3>1. \A n \in Steps : \/ orders'[<<r, n>>] = orders[<<r, n>>]
                           \/ Open(<<r, n>>) /\ ~Open(<<r, n>>)' /\ ~DealsWith(r, n)'
      BY <1>1, <2>1, <2>3, <2>4 DEF Open, Cancels
    <3>2. \A n \in Steps, c \in Channels : motion'[c] = <<r, n>> => motion[c] = <<r, n>>
      BY <1>1, <2>1
    <3>3. tasks[Stop(r)] # "moving" /\ tasks'[Stop(r)] # "moving"
          /\ (tasks'[Stop(r)] # "none" => tasks[Stop(r)] # "none")
      BY <1>1, <2>1 DEF RunOK, StopsFollow
    <3>4. \A n \in Steps : <<r, n>> \in wire' =>
            <<r, n>> \in wire /\ tasks'[<<r, n>>] = tasks[<<r, n>>]
      BY <1>1, <2>1, <2>4 DEF Cancels
    <3>5. \/ orders'[Stop(r)] = orders[Stop(r)]
          \/ Open(Stop(r)) /\ StopTaken(r) /\ \A n \in Steps : ~DealsWith(r, n)'
      <4>1. CASE Stop(r) = o
        <5>1. StopTaken(r) /\ \A n \in Steps : <<r, n>> \notin wire
          BY <1>1, <4>1 DEF RunOK, StopsFollow, StopTaken
        <5>2. ChannelOf(o) = runs[r].channel
          BY <4>1, OrderNames DEF Stop
        <5>. QED BY <1>1, <2>1, <2>3, <5>1, <5>2
      <4>. QED BY <1>1, <2>1, <4>1
    <3>6. orders[Stop(r)] # "none" => orders'[Stop(r)] # "none"
      BY <1>1, <2>1
    <3>. QED BY <1>1, <2>2, <3>1, <3>2, <3>3, <3>4, <3>5, <3>6 DEF Recedes, StopTaken
  <2>. QED BY <2>5, RecedingRun
<1>. QED BY <1>1, <1>2, AdapterClaims

LEMMA AdaptClaims ==
  ASSUME IInv, Adapt
  PROVE  ClaimsOK'
  BY PullClaims, QuietClaims, MoveClaims, SettledClaims, StopClaims DEF Adapt

\* What a tick leaves of the claims of a run it does not start.
LEMMA TickRun ==
  ASSUME IInv, NEW r \in Runs, UNCHANGED adapter, runs'[r] = RunAfterTick(r),
         \A n \in 0..MaxStops : orders'[<<r, n>>] = OrderAfterTick(<<r, n>>)
  PROVE  /\ RunOK(r)' /\ (Holds(r)' => Holds(r))
         /\ Holds(r) => LockAfterTick(runs[r].channel) = IF Holds(r)' THEN r ELSE Nobody
<1>. USE DEF IInv, ClaimsOK
<1>1. /\ runs[r] \in Run /\ runs[r].step \in Steps /\ runs[r].stops \in Steps
      /\ \A n \in Steps : n \in 0..MaxStops /\ n # 0
      /\ 0 \in 0..MaxStops /\ runs[r].step + 1 # 0
  BY PtzPatrolAssumption DEF RowsOK, TypeOK, Run, Steps
<1>2. RunOK(r) /\ (Holds(r) => ptzLocks[runs[r].channel] = r)
  BY DEF LockHolds
<1>3. \A n \in 0..MaxStops : /\ ~Breaks(r) /\ ~(GoesOn(r) /\ Accepts)
                             => orders'[<<r, n>>] = orders[<<r, n>>]
  BY DEF OrderAfterTick
<1>4. \A n \in Steps : DealsWith(r, n)' <=> DealsWith(r, n)
  BY DEF DealsWith, adapter
<1>5. ASSUME Leaves(r)
      PROVE  /\ Running(r) /\ Holds(r) /\ ~runs[r].interlocked
             /\ orders[Current(r)] = "done" /\ orders[Stop(r)] = "none"
             /\ \A n \in Steps : ~Open(<<r, n>>) /\ ~DealsWith(r, n)
             /\ \A n \in Steps : n <= runs[r].step => orders[<<r, n>>] = "done"
  <2>1. Running(r) /\ Holds(r) /\ ~runs[r].interlocked
    BY <1>5 DEF Leaves, Holds, Running, RowsOK, RunsSound
  <2>2. orders[Current(r)] = "done" /\ orders[Stop(r)] = "none"
    BY <1>1, <1>2, <1>5, <2>1 DEF Leaves, RunOK, OrdersFollow, StopsFollow, Running
  <2>3. \A n \in Steps : ~Open(<<r, n>>) /\ ~DealsWith(r, n)
    BY <1>2, <2>1, <2>2 DEF RunOK, OrdersFollow, MovesFollow, Open, Current
  <2>4. \A n \in Steps : n <= runs[r].step => n < runs[r].step \/ n = runs[r].step
    BY <1>1 DEF Steps
  <2>5. \A n \in Steps : n <= runs[r].step => orders[<<r, n>>] = "done"
    BY <1>2, <2>1, <2>2, <2>4 DEF RunOK, OrdersFollow, Current
  <2>. QED BY <2>1, <2>2, <2>3, <2>5
<1>6. CASE Confirmed(r)
  <2>1. /\ runs'[r] = [runs[r] EXCEPT !.interlocked = FALSE] /\ ~Running(r)
        /\ ~Breaks(r) /\ ~GoesOn(r) /\ ~Completes(r)
    BY <1>6, TickArms DEF Breaks, Waits, GoesOn, Completes, Leaves
  <2>2. /\ ~Running(r)' /\ ~Holds(r)' /\ runs'[r].status = runs[r].status /\ Holds(r)
        /\ runs'[r].status \in {"failed", "cancelled"} /\ orders[Stop(r)] = "done"
    BY <1>1, <1>6, <2>1 DEF Confirmed, Running, Holds, Run, RowsOK, RunsSound
  <2>3. \A n \in Steps : ~DealsWith(r, n)' /\ ~Open(<<r, n>>)'
    BY <1>1, <1>2, <1>3, <1>4, <2>1, <2>2
    DEF Open, RunOK, OrdersFollow, StopsFollow
  <2>4. OrdersFollow(r)' /\ MovesFollow(r)' /\ Arrived(r)'
    BY <2>2, <2>3 DEF OrdersFollow, MovesFollow, Arrived
  <2>5. StopsFollow(r)'
    BY <1>1, <1>2, <1>3, <2>1, <2>2, <2>3
    DEF RunOK, StopsFollow, StopTaken, Stop, adapter
  <2>. QED BY <1>2, <1>6, <2>1, <2>2, <2>4, <2>5 DEF RunOK, LockAfterTick
<1>7. CASE Breaks(r)
  <2>1. Running(r) /\ Holds(r) /\ runs'[r] = Finished(r, "failed", FALSE)
    BY <1>7, TickArms DEF Waits, Holds
  <2>2. \A n \in 0..MaxStops : orders'[<<r, n>>] = OrderAfterFinish(r, <<r, n>>, FALSE)
    BY <1>7 DEF OrderAfterTick
  <2>3. RunOK(r)' /\ (Holds(r)' <=> Uncertain(r, FALSE))
    BY <1>2, <2>1, <2>2, FinishedRun
  <2>4. LockAfterTick(runs[r].channel) = IF Uncertain(r, FALSE) THEN r ELSE Nobody
    BY <1>2, <1>7, <2>1 DEF LockAfterTick, LockAfterFinish
  <2>. QED BY <2>1, <2>3, <2>4
<1>8. CASE Arrives(r)
  <2>1. /\ runs'[r] = [runs[r] EXCEPT !.arrived = TRUE, !.due = FALSE] /\ Running(r)
        /\ ~Confirmed(r) /\ ~Breaks(r) /\ ~GoesOn(r) /\ ~Completes(r)
    BY <1>8, TickArms DEF Waits, Arrives, Breaks, Open
  <2>2. /\ Running(r)' /\ Holds(r)' /\ Holds(r) /\ runs'[r].status = runs[r].status
        /\ runs'[r].channel = runs[r].channel /\ runs'[r].step = runs[r].step
        /\ orders[Current(r)] = "done"
    BY <1>1, <1>8, <2>1 DEF Running, Holds, Run, Arrives
  <2>3. OrdersFollow(r)'
    BY <1>1, <1>2, <1>3, <2>1, <2>2 DEF RunOK, OrdersFollow, Open, Current
  <2>4. StopsFollow(r)'
    BY <1>1, <1>2, <1>3, <1>4, <2>1, <2>2
    DEF RunOK, StopsFollow, StopTaken, Stop, adapter
  <2>5. MovesFollow(r)'
    BY <1>1, <1>2, <1>3, <1>4, <2>1, <2>2 DEF RunOK, MovesFollow, adapter
  <2>6. Arrived(r)'
    BY <2>2 DEF Arrived, Running
  <2>. QED BY <1>2, <2>1, <2>2, <2>3, <2>4, <2>5, <2>6 DEF RunOK, LockAfterTick
<1>9. CASE Completes(r)
  <2>1. /\ runs'[r] = [runs[r] EXCEPT !.status = "done", !.arrived = TRUE]
        /\ Leaves(r) /\ ~Breaks(r) /\ ~GoesOn(r) /\ runs[r].step = runs[r].stops
    BY <1>9, TickArms DEF Completes
  <2>2. /\ runs'[r].status = "done" /\ ~Running(r)' /\ ~Holds(r)'
        /\ runs'[r].stops = runs[r].stops
    BY <1>1, <1>5, <2>1 DEF Running, Holds, Run
  <2>3. Arrived(r)'
    <3>1. \A n \in 1..runs[r].stops : n \in Steps /\ n <= runs[r].step
      BY <1>1, <2>1, PtzPatrolAssumption DEF Steps
    <3>. QED BY <1>1, <1>3, <1>5, <2>1, <2>2, <3>1 DEF Arrived
  <2>4. OrdersFollow(r)' /\ MovesFollow(r)'
    BY <1>1, <1>3, <1>4, <1>5, <2>1, <2>2 DEF OrdersFollow, MovesFollow, Open
  <2>5. StopsFollow(r)'
    BY <1>1, <1>2, <1>3, <1>5, <2>1, <2>2
    DEF RunOK, StopsFollow, StopTaken, Stop, adapter
  <2>. QED BY <1>2, <1>5, <1>9, <2>1, <2>2, <2>3, <2>4, <2>5 DEF RunOK, LockAfterTick
<1>10. CASE GoesOn(r) /\ Accepts
  <2>. DEFINE next == runs[r].step + 1
  <2>1. Leaves(r) /\ ~Breaks(r) /\ ~Completes(r) /\ ~Confirmed(r)
        /\ runs'[r] = [runs[r] EXCEPT !.step = next, !.arrived = FALSE, !.due = FALSE]
    BY <1>5, <1>10, TickArms
  <2>2. next \in Steps /\ \A n \in Steps : n < next => n <= runs[r].step /\ n # next
    BY <1>1, <1>10, PtzPatrolAssumption DEF GoesOn, Steps
  <2>3. \A n \in 0..MaxStops : orders'[<<r, n>>] = IF n = next THEN "pending"
                                                   ELSE orders[<<r, n>>]
    BY <1>10, <2>1 DEF OrderAfterTick
  <2>. HIDE DEF next
  <2>4. /\ Running(r)' /\ Holds(r)' /\ Holds(r) /\ runs'[r].step = next
        /\ ~runs'[r].arrived /\ runs'[r].status = "running"
    BY <1>1, <1>5, <2>1, <2>2 DEF Running, Holds, Run
  <2>5. OrdersFollow(r)' /\ MovesFollow(r)' /\ Arrived(r)'
    BY <1>1, <1>4, <1>5, <2>1, <2>2, <2>3, <2>4
    DEF OrdersFollow, MovesFollow, Arrived, Open
  <2>6. orders'[Stop(r)] = "none"
    BY <1>1, <1>5, <2>1, <2>2, <2>3 DEF Stop
  <2>7. StopsFollow(r)'
    BY <1>2, <1>5, <2>1, <2>6 DEF RunOK, StopsFollow, StopTaken, Stop, adapter
  <2>. QED BY <1>2, <1>10, <2>1, <2>4, <2>5, <2>7 DEF RunOK, LockAfterTick
<1>11. CASE GoesOn(r) /\ ~Accepts
  <2>1. Leaves(r) /\ ~Breaks(r) /\ runs'[r] = [runs[r] EXCEPT !.status = "failed"]
    BY <1>11, TickArms
  <2>2. runs'[r].status = "failed" /\ ~Running(r)' /\ ~Holds(r)'
    BY <1>1, <1>5, <2>1 DEF Running, Holds, Run
  <2>3. OrdersFollow(r)' /\ MovesFollow(r)' /\ Arrived(r)'
    BY <1>1, <1>3, <1>4, <1>5, <1>11, <2>1, <2>2
    DEF OrdersFollow, MovesFollow, Arrived, Open
  <2>4. StopsFollow(r)'
    BY <1>1, <1>2, <1>3, <1>5, <1>11, <2>1, <2>2
    DEF RunOK, StopsFollow, StopTaken, Stop, adapter
  <2>. QED BY <1>2, <1>5, <1>11, <2>1, <2>2, <2>3, <2>4 DEF RunOK, LockAfterTick
<1>12. CASE ~Confirmed(r) /\ ~Breaks(r) /\ ~Arrives(r) /\ ~Completes(r) /\ ~GoesOn(r)
  <2>1. runs'[r] = runs[r]
    BY <1>12, TickArms
  <2>2. SameFor(r)
    BY <1>3, <1>12, <2>1 DEF SameFor
  <2>. QED BY <1>2, <1>12, <2>2, SameRun DEF LockAfterTick
<1>. QED BY <1>6, <1>7, <1>8, <1>9, <1>10, <1>11, <1>12

LEMMA TickClaims ==
  ASSUME IInv, Tick
  PROVE  ClaimsOK'
<1>. USE DEF IInv, ClaimsOK
<1>1. PICK taking, id : FiresAs(taking, id)
  BY TickFires
<1>2. UNCHANGED adapter /\ UNCHANGED session
  BY DEF Tick
<1>. DEFINE fired == taking \cup Failing
<1>3. ASSUME NEW p \in fired
      PROVE  /\ p \in Plans /\ id[p] \in Fresh /\ id[p] \in Runs /\ ~Holds(id[p])
             /\ plans[p].channel \in Channels /\ Len(plans[p].stops) \in Steps
             /\ runs'[id[p]].status = IF p \in taking THEN "running" ELSE "failed"
             /\ runs'[id[p]].channel = plans[p].channel /\ runs'[id[p]].step = 1
             /\ ~runs'[id[p]].interlocked /\ ~runs'[id[p]].arrived
             /\ (Holds(id[p])' <=> p \in taking)
  <2>. DEFINE s == IF p \in taking THEN "running" ELSE "failed"
  <2>1. /\ p \in Plans /\ id[p] \in Fresh
        /\ plans[p].channel \in Channels /\ Len(plans[p].stops) \in Steps
    BY <1>1, OneStarts DEF FiresAs, Failing, Ready, RowsOK, PlansSound
  <2>2. runs'[id[p]] = RunRow(s, plans[p].channel, p, Len(plans[p].stops))
    BY <1>1 DEF FiresAs, PlanRun
  <2>3. s \in {"running", "failed"}
    OBVIOUS
  <2>. HIDE DEF s
  <2>4. /\ runs'[id[p]].status = s /\ runs'[id[p]].channel = plans[p].channel
        /\ runs'[id[p]].step = 1
        /\ ~runs'[id[p]].interlocked /\ ~runs'[id[p]].arrived
    BY <2>1, <2>2, <2>3, RunRowIsRun
  <2>5. id[p] \in Runs /\ ~Holds(id[p])
    BY <2>1 DEF Fresh, Holds, Running, RowsOK, RunsSound
  <2>6. (s = "running" <=> p \in taking) /\ s = IF p \in taking THEN "running" ELSE "failed"
    BY DEF s
  <2>7. Holds(id[p])' <=> p \in taking
    <3>1. ASSUME NEW r \in Runs, r = id[p] PROVE Holds(r)' <=> p \in taking
      BY <2>4, <2>6, <3>1 DEF Holds, Running
    <3>. QED BY <2>5, <3>1
  <2>. QED BY <2>1, <2>4, <2>5, <2>6, <2>7
<1>4. ASSUME NEW r \in Runs, NEW p \in fired, id[p] = r PROVE RunOK(r)'
  <2>1. r \in Fresh /\ ~Breaks(r) /\ ~GoesOn(r)
    BY <1>3, <1>4 DEF Fresh, Breaks, Waits, GoesOn, Leaves, Running
  <2>2. ASSUME NEW n \in 0..MaxStops
        PROVE  orders'[<<r, n>>] = IF n = 1 /\ runs'[r].status = "running" THEN "pending"
                                   ELSE orders[<<r, n>>]
    <3>1. CASE n = 1 /\ p \in taking
      BY <1>1, <1>3, <1>4, <3>1 DEF FiresAs
    <3>2. CASE ~(n = 1 /\ p \in taking)
      <4>1. \A q \in taking : <<r, n>> # <<id[q], 1>>
        BY <1>1, <1>4, <3>2 DEF FiresAs
      <4>2. orders'[<<r, n>>] = OrderAfterTick(<<r, n>>)
        BY <1>1, <4>1, OrderNames DEF FiresAs
      <4>. QED BY <1>3, <1>4, <2>1, <3>2, <4>2 DEF OrderAfterTick
    <3>. QED BY <3>1, <3>2
  <2>. QED BY <1>2, <1>3, <1>4, <2>1, <2>2, StartedRun
<1>5. ASSUME NEW r \in Runs, \A p \in fired : id[p] # r
      PROVE  /\ RunOK(r)' /\ (Holds(r)' => Holds(r))
             /\ Holds(r) => LockAfterTick(runs[r].channel) = IF Holds(r)' THEN r ELSE Nobody
             /\ runs'[r].channel = runs[r].channel
  <2>1. runs'[r] = RunAfterTick(r)
    BY <1>1, <1>5 DEF FiresAs
  <2>2. \A n \in 0..MaxStops : orders'[<<r, n>>] = OrderAfterTick(<<r, n>>)
    BY <1>1, <1>5, OrderNames DEF FiresAs
  <2>. QED BY <1>2, <2>1, <2>2, TickRun, TickRow
<1>6. ASSUME NEW p \in taking
      PROVE  /\ p \in fired /\ plans[p].channel \in Channels /\ session = "none"
             /\ ptzLocks'[plans[p].channel] = id[p]
             /\ LockAfterTick(plans[p].channel) = Nobody
  BY <1>1, OneStarts DEF FiresAs, Ready, CanStart, Accepts
<1>7. LockHolds'
  <2>1. ASSUME NEW r \in Runs, Holds(r)' PROVE ptzLocks'[runs'[r].channel] = r
    <3>1. CASE \E p \in fired : id[p] = r
      <4>1. PICK p \in fired : id[p] = r
        BY <3>1
      <4>2. p \in taking
        BY <1>3, <2>1, <4>1
      <4>. QED BY <1>3, <1>6, <4>1, <4>2
    <3>2. CASE \A p \in fired : id[p] # r
      <4>1. /\ Holds(r) /\ runs[r].channel \in Channels
            /\ LockAfterTick(runs[r].channel) = r /\ runs'[r].channel = runs[r].channel
        BY <1>5, <2>1, <3>2 DEF Holds, Running, RowsOK, RunsSound
      <4>2. \A p \in taking : plans[p].channel # runs[r].channel
        BY <1>6, <4>1, PtzPatrolAssumption
      <4>. QED BY <1>1, <4>1, <4>2 DEF FiresAs
    <3>. QED BY <3>1, <3>2
  <2>2. ASSUME NEW c \in Channels
        PROVE  /\ \A r \in Runs : ptzLocks'[c] = r => Holds(r)' /\ runs'[r].channel = c
               /\ ptzLocks'[c] = Operator <=> session' = c
    <3>1. CASE \E p \in taking : plans[p].channel = c
      <4>1. PICK p \in taking : plans[p].channel = c
        BY <3>1
      <4>2. ptzLocks'[c] = id[p] /\ id[p] \in Runs /\ runs'[id[p]].channel = c
            /\ session' # c
        BY <1>2, <1>3, <1>6, <4>1, PtzPatrolAssumption
      <4>3. \A r \in Runs : r = id[p] => Holds(r)'
        BY <1>3, <1>6
      <4>. QED BY <4>2, <4>3, PtzPatrolAssumption
    <3>2. CASE \A p \in taking : plans[p].channel # c
      <4>1. ptzLocks'[c] = LockAfterTick(c)
        BY <1>1, <3>2 DEF FiresAs
      <4>2. CASE ptzLocks[c] \in Runs
        <5>1. PICK q \in Runs : ptzLocks[c] = q
          BY <4>2
        <5>2. Holds(q) /\ runs[q].channel = c /\ session # c
          BY <5>1, PtzPatrolAssumption DEF LockHolds
        <5>3. \A p \in fired : id[p] # q
          BY <1>3, <5>2
        <5>4. ptzLocks'[c] = IF Holds(q)' THEN q ELSE Nobody
          BY <1>5, <4>1, <5>2, <5>3
        <5>5. runs'[q].channel = c
          BY <1>5, <5>2, <5>3
        <5>. QED BY <1>2, <5>2, <5>4, <5>5, PtzPatrolAssumption
      <4>3. CASE ptzLocks[c] \notin Runs
        BY <1>2, <4>1, <4>3 DEF LockAfterTick, LockHolds
      <4>. QED BY <4>2, <4>3
    <3>. QED BY <3>1, <3>2
  <2>3. \A r \in Runs : Holds(r)' => ptzLocks'[runs'[r].channel] = r
    BY <2>1
  <2>. QED BY <2>2, <2>3 DEF LockHolds
<1>8. SessionExcludesPatrol'
  <2>1. ASSUME session # "none", NEW r \in Runs PROVE ~Holds(r)'
    <3>1. \A p \in fired : id[p] = r => ~Holds(r)'
      BY <1>3, <1>6, <2>1
    <3>. QED BY <1>5, <2>1, <3>1 DEF SessionExcludesPatrol
  <2>. QED BY <1>2, <2>1 DEF SessionExcludesPatrol
<1>. QED BY <1>4, <1>5, <1>7, <1>8

LEMMA RestartClaims ==
  ASSUME IInv, NEW rows, RestartWith(rows),
         \/ rows = orders
         \/ \E r \in Runs : /\ Running(r)
                            /\ \/ rows = [o \in OrderIds |-> Withdrawn(r, o)]
                               \/ rows = [o \in OrderIds |-> OrderAfterFinish(r, o, FALSE)]
  PROVE  ClaimsOK'
<1>. USE DEF IInv, ClaimsOK
<1>1. UNCHANGED <<session, wire, seen, tasks, motion>> /\ UNCHANGED adapter
  BY DEF RestartWith, adapter
<1>2. ASSUME NEW r \in Runs
      PROVE  /\ runs'[r] = IF Running(r) THEN Finished(r, "failed", TRUE) ELSE runs[r]
             /\ runs'[r].channel = runs[r].channel /\ ~Running(r)'
             /\ (Holds(r)' <=> runs'[r].interlocked) /\ (Holds(r)' => Holds(r))
  <2>1. runs'[r] = IF Running(r) THEN Finished(r, "failed", TRUE) ELSE runs[r]
    BY DEF RestartWith
  <2>2. Running(r) => runs'[r].status = "failed" /\ runs'[r].channel = runs[r].channel
    BY <2>1, FinishedIsRun
    DEF RowsOK
  <2>. QED BY <2>1, <2>2 DEF Holds, Running
<1>3. ASSUME NEW r \in Runs, NEW n \in 0..MaxStops
      PROVE  orders'[<<r, n>>] =
               IF Running(r) /\ n = runs[r].step /\ rows[<<r, n>>] \in {"pending", "acked"}
               THEN "failed"
               ELSE IF rows[<<r, n>>] = "acked" THEN "pending" ELSE rows[<<r, n>>]
  BY OrderNames DEF RestartWith, Current
<1>4. ASSUME NEW r \in Runs, ~Running(r), NEW n \in 0..MaxStops
      PROVE  rows[<<r, n>>] = orders[<<r, n>>]
  BY <1>4, OrderNames DEF Withdrawn, OrderAfterFinish, Current, Stop
<1>5. ASSUME NEW r \in Runs, Running(r), NEW n \in Steps
      PROVE  \/ rows[<<r, n>>] = orders[<<r, n>>]
             \/ n = runs[r].step /\ rows[<<r, n>>] = "failed"
  <2>1. <<r, n>> \in OrderIds /\ \A q \in Runs : <<r, n>> # Stop(q)
    BY OrderNames DEF Stop, Steps
  <2>2. <<r, n>> = Current(r) => n = runs[r].step
    BY DEF Current
  <2>3. \A q \in Runs : q # r => <<r, n>> # Current(q)
    BY DEF Current
  <2>. QED BY <2>1, <2>2, <2>3 DEF Withdrawn, OrderAfterFinish
<1>6. ASSUME NEW r \in Runs, Running(r)
      PROVE  rows[Stop(r)] \in {orders[Stop(r)], "pending"}
  <2>1. Stop(r) \in OrderIds /\ Stop(r) # Current(r)
    BY PtzPatrolAssumption DEF Stop, OrderIds, Current, RowsOK, TypeOK, Run
  <2>2. \A q \in Runs : q # r => Stop(r) # Current(q) /\ Stop(r) # Stop(q)
    BY DEF Stop, Current
  <2>. QED BY <2>1, <2>2 DEF Withdrawn, OrderAfterFinish
<1>7. ASSUME NEW r \in Runs PROVE RunOK(r)'
  <2>1. /\ \A n \in Steps : n \in 0..MaxStops
        /\ 0 \in 0..MaxStops /\ Stop(r) = <<r, 0>> /\ runs[r].step # 0
        /\ \A n \in 1..runs[r].stops : n \in Steps
    BY PtzPatrolAssumption DEF Steps, Stop, RowsOK, TypeOK, Run
  <2>2. \A n \in Steps : DealsWith(r, n)' <=> DealsWith(r, n)
    BY <1>1 DEF DealsWith
  <2>3. OrdersFollow(r)'
    <3>1. \A n \in Steps : ~Open(<<r, n>>)'
      <4>1. CASE Running(r)
        BY <1>3, <1>5, <2>1, <4>1 DEF RunOK, OrdersFollow, Open
      <4>2. CASE ~Running(r)
        BY <1>3, <1>4, <2>1, <4>2 DEF RunOK, OrdersFollow, Open
      <4>. QED BY <4>1, <4>2
    <3>. QED BY <1>2, <3>1 DEF OrdersFollow
  <2>4. CASE Running(r)
    <3>1. runs'[r].status = "failed" /\ runs'[r].interlocked = Uncertain(r, TRUE)
      BY <1>2, <2>4, FinishedIsRun DEF RowsOK
    <3>2. orders[Stop(r)] = "none" /\ ~StopTaken(r)
      BY <2>4 DEF RunOK, StopsFollow, Running
    <3>3. orders'[Stop(r)] \in {"none", "pending"}
      BY <1>3, <1>6, <2>1, <2>4, <3>2
    <3>4. StopsFollow(r)'
      <4>1. ~StopTaken(r)'
        BY <1>1, <3>2, <3>3 DEF StopTaken, Stop
      <4>. QED BY <1>1, <3>1, <3>3, <4>1 DEF RunOK, StopsFollow, Stop
    <3>5. MovesFollow(r)'
      <4>1. \A n \in Steps : DealsWith(r, n) => Uncertain(r, TRUE)
        BY <2>4 DEF RunOK, MovesFollow, Uncertain, Current
      <4>. QED BY <1>1, <1>2, <2>2, <3>1, <4>1 DEF RunOK, MovesFollow
    <3>. QED BY <2>3, <3>1, <3>4, <3>5 DEF RunOK, Arrived
  <2>5. CASE ~Running(r)
    <3>1. runs'[r] = runs[r] /\ (Holds(r)' <=> Holds(r))
      BY <1>2, <2>5 DEF Holds
    <3>2. \A n \in 0..MaxStops : orders'[<<r, n>>] =
            IF orders[<<r, n>>] = "acked" THEN "pending" ELSE orders[<<r, n>>]
      BY <1>3, <1>4, <2>5
    <3>3. StopsFollow(r)'
      BY <1>1, <2>1, <2>2, <3>1, <3>2 DEF RunOK, StopsFollow, StopTaken, Stop
    <3>4. MovesFollow(r)'
      BY <1>1, <1>2, <2>2, <3>1 DEF RunOK, MovesFollow
    <3>5. Arrived(r)'
      BY <2>1, <3>1, <3>2 DEF RunOK, Arrived
    <3>. QED BY <2>3, <3>3, <3>4, <3>5 DEF RunOK
  <2>. QED BY <2>4, <2>5
<1>8. ASSUME NEW c \in Channels
      PROVE  ptzLocks'[c] =
               IF session = c THEN Operator
               ELSE IF \E r \in Runs : runs'[r].interlocked /\ runs[r].channel = c
               THEN CHOOSE r \in Runs : runs'[r].interlocked /\ runs[r].channel = c
               ELSE Nobody
  BY DEF RestartWith
<1>9. LockHolds'
  <2>1. ASSUME NEW r \in Runs, Holds(r)' PROVE ptzLocks'[runs'[r].channel] = r
    <3>1. Holds(r) /\ runs[r].channel \in Channels /\ runs'[r].interlocked
      BY <1>2, <2>1 DEF Holds, Running, RowsOK, RunsSound
    <3>2. ptzLocks[runs[r].channel] = r /\ session # runs[r].channel
      BY <3>1, PtzPatrolAssumption DEF LockHolds
    <3>3. ASSUME NEW q \in Runs, runs'[q].interlocked, runs[q].channel = runs[r].channel
          PROVE  q = r
      <4>1. Holds(q)
        BY <1>2, <3>3
      <4>. QED BY <3>2, <3>3, <4>1 DEF LockHolds
    <3>4. runs'[r].channel = runs[r].channel
      BY <1>2
    <3>5. (CHOOSE q \in Runs : runs'[q].interlocked /\ runs[q].channel = runs[r].channel) = r
      BY <3>1, <3>3
    <3>. QED BY <1>8, <3>1, <3>2, <3>4, <3>5
  <2>2. ASSUME NEW c \in Channels
        PROVE  /\ \A r \in Runs : ptzLocks'[c] = r => Holds(r)' /\ runs'[r].channel = c
               /\ ptzLocks'[c] = Operator <=> session' = c
    <3>1. CASE session = c
      BY <1>1, <1>8, <3>1, PtzPatrolAssumption
    <3>2. CASE session # c /\ \E r \in Runs : runs'[r].interlocked /\ runs[r].channel = c
      <4>1. /\ ptzLocks'[c] \in Runs /\ runs'[ptzLocks'[c]].interlocked
            /\ runs[ptzLocks'[c]].channel = c
        BY <1>8, <3>2
      <4>2. \A r \in Runs : ptzLocks'[c] = r => Holds(r)' /\ runs'[r].channel = c
        BY <1>2, <4>1
      <4>. QED BY <1>1, <3>2, <4>1, <4>2, PtzPatrolAssumption
    <3>3. CASE session # c /\ ~\E r \in Runs : runs'[r].interlocked /\ runs[r].channel = c
      BY <1>1, <1>8, <3>3, PtzPatrolAssumption
    <3>. QED BY <3>1, <3>2, <3>3
  <2>3. \A r \in Runs : Holds(r)' => ptzLocks'[runs'[r].channel] = r
    BY <2>1
  <2>. QED BY <2>2, <2>3 DEF LockHolds
<1>10. SessionExcludesPatrol'
  BY <1>1, <1>2 DEF SessionExcludesPatrol
<1>. QED BY <1>7, <1>9, <1>10

LEMMA InitClaims == Init => ClaimsOK
<1>. SUFFICES ASSUME Init PROVE ClaimsOK
  OBVIOUS
<1>1. ASSUME NEW r \in Runs PROVE RunOK(r) /\ ~Holds(r)
  <2>1. /\ runs[r].status = "none" /\ ~runs[r].interlocked
        /\ \A n \in 0..MaxStops : orders[<<r, n>>] = "none" /\ tasks[<<r, n>>] = "none"
        /\ wire = {}
    BY OrderNames DEF Init, NoRun, RunRow
  <2>2. \A n \in Steps : n \in 0..MaxStops /\ <<r, n>> # AtRest
    BY OrderNames, PtzPatrolAssumption DEF OrderIds, Steps
  <2>3. \A n \in Steps : ~DealsWith(r, n) /\ ~Open(<<r, n>>)
    BY <2>1, <2>2 DEF DealsWith, Open, Init
  <2>4. OrdersFollow(r) /\ MovesFollow(r) /\ Arrived(r)
    BY <2>1, <2>3 DEF OrdersFollow, MovesFollow, Arrived, Running
  <2>5. orders[Stop(r)] = "none" /\ tasks[Stop(r)] = "none"
    BY <2>1, PtzPatrolAssumption DEF Stop
  <2>6. StopsFollow(r)
    BY <2>1, <2>5 DEF StopsFollow, StopTaken
  <2>. QED BY <2>1, <2>4, <2>6 DEF RunOK, Holds, Running
<1>2. LockHolds
  BY <1>1, PtzPatrolAssumption DEF Init, LockHolds
<1>. QED BY <1>1, <1>2 DEF Init, ClaimsOK, SessionExcludesPatrol

LEMMA NextIInv ==
  ASSUME IInv, [Next]_vars
  PROVE  IInv'
<1>1. RowsOK'
  BY NextRows DEF IInv
<1>2. CASE UNCHANGED vars
  <2>1. UNCHANGED <<runs, orders, ptzLocks, session, wire, seen, tasks, motion>>
    BY <1>2 DEF vars, claims, adapter
  <2>2. ClaimsOK'
    BY <2>1, SameClaims DEF SameFor
  <2>. QED BY <1>1, <2>2 DEF IInv
<1>3. Fail => ClaimsOK'
  BY FailRestarts, RestartClaims DEF IInv
<1>. QED BY <1>1, <1>2, <1>3, ConfigureClaims, OperateClaims, ElapseClaims, TickClaims,
            AdaptClaims DEF Next, IInv

\* The inductive invariant holds in every state.
THEOREM PtzInductive == Spec => []IInv
<1>1. Init => IInv
  BY InitRows, InitClaims DEF IInv
<1>2. IInv /\ [Next]_vars => IInv'
  BY NextIInv
<1>. QED BY <1>1, <1>2, PTL DEF Spec

\* ptzLocks names exactly the run that runs or is interlocked on a camera, or
\* the session that has it, through cancels, timeouts, ticks that start several
\* runs at once, torn writes and restarts (ptz.ts:319-344, 362-378).
THEOREM LockNamesTheHolder == Spec => []LockIsTheHolder
<1>1. IInv => LockIsTheHolder
  BY DEF IInv, ClaimsOK, LockHolds, LockIsTheHolder
<1>. QED BY <1>1, PtzInductive, PTL

\* While an operator has the robot no patrol runs on it or keeps one of its
\* cameras (control.ts:102, world.ts:1327).
THEOREM SessionsExcludePatrols == Spec => []SessionExcludesPatrol
<1>1. IInv => SessionExcludesPatrol
  BY DEF IInv, ClaimsOK
<1>. QED BY <1>1, PtzInductive, PTL

\* A run is done only when the adapter confirmed each of its stops, whatever is
\* lost or crashes on the way (ptz.ts:390-440).
THEOREM DoneRunsArrived == Spec => []DoneMeansArrived
<1>1. IInv => DoneMeansArrived
  BY DEF IInv, ClaimsOK, RunOK, Arrived, DoneMeansArrived
<1>. QED BY <1>1, PtzInductive, PTL

\* Only a poll hands the adapter an order.
LEMMA PullsPending ==
  ASSUME [Next]_vars, NEW o \in OrderIds, o \in wire' \ wire
  PROVE  orders[o] = "pending"
<1>1. CASE PullOrders
  BY <1>1 DEF PullOrders
<1>2. CASE Configure \/ Operate \/ Elapse \/ Tick \/ Fail \/ UNCHANGED vars
  BY <1>2
  DEF Configure, SavePreset, DeletePreset, SavePlan, DeletePlan, Operate, RunPreset,
      RunPlan, Start, Cancel, Release, Command, TakeOver, EndSession, Elapse, TimePasses,
      PlanComesDue, Telemetry, Tick, Fail, Restart, TornCancel, RestartWith, vars, adapter
<1>3. CASE Adapt /\ ~PullOrders
  BY <1>3
  DEF Adapt, Deliver, LoseReply, AdapterCrash, Move, MoveDone, MoveFails, StopDone,
      StopFails, StopEnds, CameraRests
<1>. QED BY <1>1, <1>2, <1>3 DEF Next

\* A camera moves for a run only while that run has it reserved, and a restart,
\* which queues delivered orders again, replays no movement (ptz.ts:145-152,
\* 362-378).
THEOREM CameraMovesForItsRun == Spec => MovesForItsRun
<1>1. ASSUME IInv PROVE MovesUnderReservation
  <2>. SUFFICES ASSUME NEW c \in Channels, NEW r \in Runs, NEW n \in Steps,
                       motion[c] = <<r, n>>
       PROVE  ptzLocks[c] = r
    BY DEF MovesUnderReservation, Steps
  <2>1. DealsWith(r, n) /\ RunOK(r) /\ LockHolds
    BY <1>1 DEF DealsWith, IInv, ClaimsOK
  <2>2. Holds(r) /\ c = runs[r].channel
    BY <2>1 DEF RunOK, MovesFollow
  <2>. QED BY <2>1, <2>2 DEF LockHolds
<1>2. ASSUME IInv, [Next]_vars
      PROVE  [\A r \in Runs, n \in 1..MaxStops :
               <<r, n>> \in wire' \ wire => Running(r) /\ runs[r].step = n]_vars
  <2>1. ASSUME NEW r \in Runs, NEW n \in Steps, <<r, n>> \in wire' \ wire
        PROVE  Running(r) /\ runs[r].step = n
    <3>1. orders[<<r, n>>] = "pending" /\ RunOK(r)
      BY <1>2, <2>1, PullsPending, OrderNames DEF IInv, ClaimsOK
    <3>. QED BY <3>1 DEF RunOK, OrdersFollow, Open
  <2>. QED BY <2>1 DEF Steps
<1>. QED BY <1>1, <1>2, PtzInductive, PTL DEF MovesForItsRun, NothingReplayed, Spec
=============================================================================
