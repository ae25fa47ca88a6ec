------------------------------ MODULE OrderPump ------------------------------
(***************************************************************************)
(* From the platform's order queue to a moving robot: the order pump and   *)
(* the waypoint runner of the adapter SDK (sdk/adapter-sdk-ts/src/index.ts)*)
(* as the three bundled adapters use them.                                 *)
(*                                                                         *)
(* The adapter is one Node.js process: a loop over the orders of one reply *)
(* is not interrupted, but everything it starts waits for answers, and     *)
(* another reply, an operator's intervention or a crash may come between.  *)
(* Spot and GoRobot go point by point and look at a flag; DeepRobotics     *)
(* hands a whole mission to the robot and cancels it there.                *)
(*                                                                         *)
(* An order's identity is its place in the order of creation.  Places on   *)
(* the map, notes and waiting times are left out; camera orders and        *)
(* announcements touch nothing of this and are left out too.               *)
(***************************************************************************)
EXTENDS Naturals, Sequences, FiniteSets, SequencesExt

CONSTANTS
  Kits,        \* adapters: subset of {"spot", "gosuncn", "deeprobotics"}
  OrderCount,  \* bound: orders ever queued
  SeenCap,     \* length of the ring of order identities
  MaxPoints,   \* bound: waypoints of a mission
  MaxReplies,  \* bound: replies under way at a time
  MaxFaults    \* bound: restarts, and replies and receipts lost

Ids == 1..OrderCount
Nobody == 0

ASSUME OrderPumpAssumption ==
  /\ Kits \subseteq {"spot", "gosuncn", "deeprobotics"}
  /\ OrderCount \in Nat /\ SeenCap \in Nat \ {0} /\ MaxPoints \in Nat
  /\ MaxReplies \in Nat /\ MaxFaults \in Nat

VARIABLES
  kit,         \* the adapter of this robot
  orders,      \* order -> its kind and state at the platform
  replies,     \* pulled orders on their way to the adapter
  batch,       \* orders of a reply that the pump has still to go through
  ring,        \* PumpState.seenRing; PumpState.seen holds the same
  queue,       \* PumpState.queue
  inflight,    \* PumpState.inflight
  doing,       \* order -> how far the adapter is with it
  run,         \* activeMotion and missionRun of the adapter
  calls,       \* calls to the vendor that have not taken effect
  robot,       \* the order it moves for; whether it got there
  faults       \* how many there were

pump == <<batch, ring, queue, inflight>>
task == <<doing, run, calls>>
orderVars == <<kit, orders, replies, pump, task, robot, faults>>

-----------------------------------------------------------------------------
MotionKinds == {"goto", "mission"}
Kinds == MotionKinds \cup {"pause", "resume", "abort"}
\* "check" asks whether the robot is busy, "nav" sent a goal, "going" polls,
\* "ask" and "halt" wait for a call of an intervention, and "done" and
\* "failed" send that receipt.
Stages == {"idle", "check", "nav", "going", "dwell", "held", "ask", "halt",
           "done", "failed", "over"}

Native == kit = "deeprobotics"
Motion(o) == orders[o].kind \in MotionKinds
Fresh  == {o \in Ids : orders[o].state = "none"}
Seen   == ToSet(ring)

NavCall(o)  == [act |-> "nav", by |-> o]
HaltCall(o) == [act |-> "halt", by |-> o]
AtRest == [goal |-> Nobody, reached |-> FALSE]
NoRun  == [active |-> Nobody, mission |-> Nobody,
           aborted |-> FALSE, paused |-> FALSE, points |-> 0]

NewProcess ==
  /\ batch' = {} /\ ring' = <<>> /\ queue' = <<>> /\ inflight' = Nobody
  /\ doing' = [o \in Ids |-> "idle"] /\ run' = NoRun /\ calls' = <<>>

OrderInit ==
  /\ kit \in Kits
  /\ orders = [o \in Ids |-> [kind |-> "goto", state |-> "none", of |-> Nobody]]
  /\ replies = {}
  /\ batch = {} /\ ring = <<>> /\ queue = <<>> /\ inflight = Nobody
  /\ doing = [o \in Ids |-> "idle"] /\ run = NoRun /\ calls = <<>>
  /\ robot = AtRest /\ faults = 0

-----------------------------------------------------------------------------
(* The platform's queue.                                                   *)

Enqueue(kind, of) ==
  \E o \in Fresh :
    /\ \A p \in Fresh : o <= p
    /\ orders' = [orders EXCEPT
                    ![o] = [kind |-> kind, state |-> "pending", of |-> of]]
  /\ UNCHANGED <<kit, faults, replies, pump, task, robot>>

Request == \E kind \in MotionKinds : Enqueue(kind, Nobody)

\* Pause, resume and abort follow a mission that has not been settled; a
\* mission is aborted once.
Intervene ==
  \E m \in Ids, kind \in {"pause", "resume", "abort"} :
    /\ orders[m].kind = "mission"
    /\ orders[m].state \in (IF kind = "abort" THEN {"acked"}
                                             ELSE {"pending", "acked"})
    /\ ~\E o \in Ids : orders[o].kind = "abort" /\ orders[o].of = m
    /\ Enqueue(kind, m)

\* A mission nobody pulled is cancelled in the queue.
CancelPending(m) ==
  /\ orders[m].kind = "mission" /\ orders[m].state = "pending"
  /\ orders' = [o \in Ids |->
       IF orders[o].state = "pending" /\ (o = m \/ orders[o].of = m)
         THEN [orders[o] EXCEPT !.state = "failed"] ELSE orders[o]]
  /\ UNCHANGED <<kit, faults, replies, pump, task, robot>>

Pull ==
  LET out == {o \in Ids : orders[o].state = "pending"} IN
  /\ out # {} /\ Cardinality(replies) < MaxReplies
  /\ orders' = [o \in Ids |-> IF o \in out THEN [orders[o] EXCEPT !.state = "acked"]
                                           ELSE orders[o]]
  /\ replies' = replies \cup {out}
  /\ UNCHANGED <<kit, faults, pump, task, robot>>

Fault == faults < MaxFaults /\ faults' = faults + 1

\* After a restart the platform serves again what was pulled and not settled.
Reserve ==
  /\ Fault
  /\ \E o \in Ids : orders[o].state = "acked"
  /\ orders' = [o \in Ids |->
       IF orders[o].state = "acked" THEN [orders[o] EXCEPT !.state = "pending"]
                                    ELSE orders[o]]
  /\ UNCHANGED <<kit, replies, pump, task, robot>>

Settled(o, outcome) ==
  \/ Fault /\ orders' = orders                       \* the receipt is lost
  \/ /\ UNCHANGED faults
     /\ orders[o].state \in {"done", "failed"} /\ orders' = orders
  \/ /\ UNCHANGED faults
     /\ orders[o].state \in {"pending", "acked"}
     /\ orders' = [orders EXCEPT ![o].state = outcome]

-----------------------------------------------------------------------------
(* Motion orders: exec and the waypoint runner, up to their first await.   *)

\* The step before o is d and r; the pump is told what to hold in flight.
Begin(o, d, r) ==
  /\ inflight' = o
  /\ \/ /\ Native
        /\ doing' = [d EXCEPT ![o] = "check"]
        /\ run' = r /\ UNCHANGED calls
     \/ /\ ~Native /\ orders[o].kind = "goto"
        /\ doing' = [d EXCEPT ![o] = "nav"]
        /\ run' = [r EXCEPT !.active = o, !.aborted = FALSE]
        /\ calls' = Append(calls, NavCall(o))
     \/ /\ ~Native /\ orders[o].kind = "mission"
        /\ \E n \in 0..MaxPoints :
             /\ run' = [active |-> o, mission |-> o, aborted |-> FALSE,
                        paused |-> FALSE, points |-> n]
             /\ doing' = [d EXCEPT ![o] = IF n = 0 THEN "done" ELSE "nav"]
             /\ calls' = IF n = 0 THEN calls ELSE Append(calls, NavCall(o))

Begins == inflight = Nobody

\* Variant: the first sight of an order is not remembered.
RemembersNot(o) == <<>>
Remembers(o) ==
  LET r == Append(ring, o) IN IF Len(r) > SeenCap THEN Tail(r) ELSE r

\* The preempt hook: raise the flag of the active motion, or cancel.
Preempted ==
  IF inflight = Nobody THEN UNCHANGED <<run, calls>>
  ELSE IF Native THEN calls' = Append(calls, HaltCall(Nobody)) /\ UNCHANGED run
  ELSE run' = [run EXCEPT !.aborted = run.active # Nobody \/ @] /\ UNCHANGED calls

-----------------------------------------------------------------------------
(* pumpOrders: the orders of a reply, in the order of their creation.      *)

Deliver(reply) ==
  /\ batch' = reply
  /\ replies' = replies \ {reply}
  /\ UNCHANGED <<kit, faults, orders, ring, queue, inflight, task, robot>>

Lose(reply) ==
  /\ Fault
  /\ replies' = replies \ {reply}
  /\ UNCHANGED <<kit, orders, pump, task, robot>>

Foremost == Min(batch)

SkipSeen ==
  /\ batch # {} /\ Foremost \in Seen
  /\ batch' = batch \ {Foremost}
  /\ UNCHANGED <<kit, faults, orders, replies, ring, queue, inflight, task, robot>>

TakeMotion ==
  /\ batch # {} /\ Foremost \notin Seen /\ Motion(Foremost)
  /\ batch' = batch \ {Foremost} /\ ring' = Remembers(Foremost)
  /\ IF Begins
       THEN queue' = queue /\ Begin(Foremost, doing, run)
       ELSE /\ queue' = Append(queue, Foremost) /\ Preempted
            /\ UNCHANGED <<inflight, doing>>
  /\ UNCHANGED <<kit, faults, orders, replies, robot>>

\* Interventions run at once, up to their first await.
TakeIntervention ==
  /\ batch # {} /\ Foremost \notin Seen /\ ~Motion(Foremost)
  /\ batch' = batch \ {Foremost} /\ ring' = Remembers(Foremost)
  /\ LET o == Foremost  kind == orders[o].kind IN
       \/ /\ Native /\ kind = "abort"
          /\ doing' = [doing EXCEPT ![o] = "halt"]
          /\ calls' = Append(calls, HaltCall(o)) /\ UNCHANGED run
       \/ /\ Native /\ kind # "abort"
          /\ doing' = [doing EXCEPT ![o] = "failed"]
          /\ UNCHANGED <<run, calls>>
       \/ /\ ~Native /\ kind = "abort"
          /\ run' = [run EXCEPT !.aborted = run.active # Nobody \/ @]
          /\ IF kit = "spot"
               THEN /\ doing' = [doing EXCEPT ![o] = "halt"]
                    /\ calls' = Append(calls, HaltCall(o))
               ELSE /\ doing' = [doing EXCEPT ![o] = "done"]
                    /\ UNCHANGED calls
       \/ /\ kit = "spot" /\ kind # "abort"
          /\ run' = [run EXCEPT !.paused = IF run.mission = Nobody THEN @
                                           ELSE kind = "pause"]
          /\ doing' = [doing EXCEPT ![o] = "done"]
          /\ UNCHANGED calls
       \/ /\ kit = "gosuncn" /\ kind # "abort"
          /\ doing' = [doing EXCEPT ![o] = "ask"]
          /\ UNCHANGED <<run, calls>>
  /\ UNCHANGED <<kit, faults, orders, replies, queue, inflight, robot>>

-----------------------------------------------------------------------------
(* What goes on after an await.  No other code runs while a reply is gone  *)
(* through.                                                                *)

Stage(o, s) == doing[o] = s
GoesTo(o, s) == doing' = [doing EXCEPT ![o] = s]

\* ensureIdle: a busy robot is cancelled first.  The calls of one connection
\* are served in order, so the query is answered after those before it.
CheckIdle(o) ==
  /\ Stage(o, "check") /\ calls = <<>>
  /\ calls' = IF robot.goal = Nobody THEN <<NavCall(o)>>
                                     ELSE <<HaltCall(Nobody), NavCall(o)>>
  /\ GoesTo(o, "nav")
  /\ UNCHANGED <<kit, faults, orders, replies, pump, run, robot>>

\* Variant: a run waiting for resume does not look at its abort.
ReleasedByResumeOnly == ~run.paused
Released == ~run.paused \/ run.aborted

\* The top of the runner's loop; calls and stages of the next point.
NextPoint(o, points) ==
  IF points = 0 \/ run.aborted
    THEN GoesTo(o, IF run.aborted THEN "failed" ELSE "done") /\ UNCHANGED calls
  ELSE IF run.paused THEN GoesTo(o, "held") /\ UNCHANGED calls
  ELSE GoesTo(o, "nav") /\ calls' = Append(calls, NavCall(o))

NavEnds(o) ==
  /\ Stage(o, "going")
  /\ \/ /\ robot.reached /\ (run.aborted => Native)
        /\ GoesTo(o, IF orders[o].kind = "mission" /\ ~Native THEN "dwell"
                                                             ELSE "done")
     \/ /\ ~robot.reached \/ run.aborted    \* aborted, refused or timed out
        /\ GoesTo(o, "failed")
  /\ UNCHANGED <<kit, faults, orders, replies, pump, run, calls, robot>>

Dwelt(o) ==
  /\ Stage(o, "dwell")
  /\ run' = [run EXCEPT !.points = @ - 1]
  /\ NextPoint(o, run.points - 1)
  /\ UNCHANGED <<kit, faults, orders, replies, pump, robot>>

\* The run goes on to its next point when it is resumed, and, as the abort is
\* not looked at again before the call, also when it is aborted.
Resumed(o) ==
  /\ Stage(o, "held") /\ Released
  /\ GoesTo(o, "nav") /\ calls' = Append(calls, NavCall(o))
  /\ UNCHANGED <<kit, faults, orders, replies, pump, run, robot>>

\* GoRobot sets the flag when the vendor has answered, on the run there is.
Asked(o) ==
  /\ Stage(o, "ask")
  /\ run' = [run EXCEPT !.paused = IF run.mission = Nobody THEN @
                                   ELSE orders[o].kind = "pause"]
  /\ \E outcome \in {"done", "failed"} : GoesTo(o, outcome)
  /\ UNCHANGED <<kit, faults, orders, replies, pump, calls, robot>>

Cleared(o) == [run EXCEPT !.active = IF @ = o THEN Nobody ELSE @,
                          !.mission = IF @ = o THEN Nobody ELSE @]

\* The receipt is sent; a motion order leaves the pump, which goes on.
Report(o) ==
  /\ doing[o] \in {"done", "failed"}
  /\ Settled(o, doing[o])
  /\ LET d == [doing EXCEPT ![o] = "over"] IN
     IF ~Motion(o)
       THEN doing' = d /\ UNCHANGED <<queue, inflight, run, calls>>
     ELSE IF queue = <<>>
       THEN /\ doing' = d /\ run' = Cleared(o) /\ inflight' = Nobody
            /\ UNCHANGED <<queue, calls>>
     ELSE queue' = Tail(queue) /\ Begin(Head(queue), d, Cleared(o))
  /\ UNCHANGED <<kit, replies, batch, ring, robot>>

-----------------------------------------------------------------------------
(* The vendor and the robot.                                               *)

\* DeepRobotics serves the calls of its connection in order.
Serves(i) == i \in DOMAIN calls /\ (Native => i = 1)
Served(i) == calls' = RemoveAt(calls, i)

TakesGoal(i) ==
  /\ Serves(i) /\ calls[i].act = "nav" /\ Served(i)
  /\ robot' = [goal |-> calls[i].by, reached |-> FALSE]
  /\ GoesTo(calls[i].by, "going")
  /\ UNCHANGED <<kit, faults, orders, replies, pump, run>>

\* The goal is refused, or the answer does not come in time: the adapter takes
\* it for refused, and the robot may have set out.
RefusesGoal(i) ==
  /\ Serves(i) /\ calls[i].act = "nav" /\ Served(i)
  /\ \E taken \in BOOLEAN :
       robot' = IF taken THEN [goal |-> calls[i].by, reached |-> FALSE] ELSE robot
  /\ GoesTo(calls[i].by, "failed")
  /\ UNCHANGED <<kit, faults, orders, replies, pump, run>>

\* A halt, sent by an abort order or by the preempt hook; Spot's abort says
\* done even when the robot did not sit down.
Halts(i) ==
  /\ Serves(i) /\ calls[i].act = "halt" /\ Served(i)
  /\ \E taken \in BOOLEAN :
       /\ robot' = IF taken THEN AtRest ELSE robot
       /\ doing' = IF calls[i].by = Nobody THEN doing
                   ELSE [doing EXCEPT ![calls[i].by] =
                           IF taken \/ ~Native THEN "done" ELSE "failed"]
  /\ UNCHANGED <<kit, faults, orders, replies, pump, run>>

Arrives == /\ robot.goal # Nobody
           /\ robot' = [goal |-> Nobody, reached |-> TRUE]
           /\ UNCHANGED <<kit, faults, orders, replies, pump, task>>

Stalls == /\ robot.goal # Nobody
          /\ robot' = AtRest
          /\ UNCHANGED <<kit, faults, orders, replies, pump, task>>

\* The adapter process ends and is started again; the robot goes on.
AdapterRestarts == Fault /\ NewProcess /\ UNCHANGED <<kit, orders, replies, robot>>

-----------------------------------------------------------------------------
Steps(o) == \/ CheckIdle(o) \/ NavEnds(o) \/ Dwelt(o) \/ Resumed(o)
            \/ Asked(o) \/ Report(o)
Loop     == SkipSeen \/ TakeMotion \/ TakeIntervention
VendorCalls == \E i \in DOMAIN calls : TakesGoal(i) \/ RefusesGoal(i) \/ Halts(i)

Others ==
  \/ Request \/ Intervene \/ (\E m \in Ids : CancelPending(m)) \/ Pull \/ Reserve
  \/ \E reply \in replies : Deliver(reply) \/ Lose(reply)
  \/ \E o \in Ids : Steps(o)
  \/ VendorCalls \/ Arrives \/ Stalls \/ AdapterRestarts

\* The loop over a reply is not interrupted by what the process started, and
\* what others do meanwhile might as well come after it.
OrderNext == Loop \/ (batch = {} /\ Others)

OrderSpec == OrderInit /\ [][OrderNext]_orderVars

\* The process runs, every call to the vendor is answered or given up, and
\* navigation that does not end is given up.
OrderFairness ==
  /\ WF_orderVars(Loop) /\ WF_orderVars(VendorCalls)
  /\ \A o \in Ids : WF_orderVars(Steps(o))
OrderFairSpec == OrderSpec /\ OrderFairness

-----------------------------------------------------------------------------
OrderTypeOK ==
  /\ kit \in Kits
  /\ orders \in [Ids -> [kind : Kinds, of : Ids \cup {Nobody},
                 state : {"none", "pending", "acked", "done", "failed"}]]
  /\ replies \subseteq SUBSET Ids
  /\ batch \subseteq Ids /\ ring \in Seq(Ids) /\ queue \in Seq(Ids)
  /\ inflight \in Ids \cup {Nobody}
  /\ doing \in [Ids -> Stages]
  /\ run \in [active : Ids \cup {Nobody}, mission : Ids \cup {Nobody},
              aborted : BOOLEAN, paused : BOOLEAN, points : 0..MaxPoints]
  /\ calls \in Seq([act : {"nav", "halt"}, by : Ids \cup {Nobody}])
  /\ robot \in [goal : Ids \cup {Nobody}, reached : BOOLEAN]
  /\ faults \in 0..MaxFaults

\* docs/integration.md:233-236: whatever is served twice, arrives out of
\* order, preempts or crashes, motion orders are carried out one at a time and
\* once, and the robot sets out for the one in flight only.
Serial == INSTANCE SerialMotion WITH
  Orders <- Ids, NoOrder <- Nobody, current <- inflight, body <- robot.goal,
  handed <- {o \in Ids : Motion(o) /\ doing[o] # "idle"}
KeepsSerialMotion == Serial!SerialSpec

\* No order waits in the queue for ever, whatever ended the motion before it;
\* only a run that is paused, and was not told to make way, may hold it up
\* (index.ts:323-365, 375-418).
QueueMoves == []<>(queue = <<>> \/ (run.paused /\ ~run.aborted))
=============================================================================
