--------------------------- MODULE ManualDispatch ---------------------------
(***************************************************************************)
(* Dispatch and manual control of one platform, over the same robots and   *)
(* the same controlLocks: an operator who takes a robot ends what it does  *)
(* (server/src/control.ts:95-125), the dispatcher leaves a reserved robot  *)
(* alone, and the adapter is told of a session only when no motion order   *)
(* of its robot is open (control.ts:159-171).                              *)
(*                                                                         *)
(* Of the adapter's control loop, which ControlPump models, only what the  *)
(* platform sees is kept: it reads frames, and reports about the last one  *)
(* it read as often and as late as it likes.                               *)
(***************************************************************************)
EXTENDS Dispatch

CONSTANTS InputTicks, MaxInput, MaxSequence   \* as in ManualSession

ASSUME ManualDispatchAssumption ==
  InputTicks \in Nat /\ MaxInput \in Nat /\ MaxSequence \in Nat

VARIABLES
  sessions, saved, inputs, ttl,  \* as in ManualSession
  read                           \* the last frame the adapter read, if any

S == INSTANCE ManualSession

records == <<sessions, saved, inputs, ttl>>
runVars == <<missions, orders, dropped, served, pin, level, online, battery,
             schedules>>
manualVars == <<vars, records, read>>

ManualInit == Init /\ S!SessionInit /\ read = {}

-----------------------------------------------------------------------------
(* Taking a robot.                                                         *)

\* Variant: orders the adapter has pulled already are not looked at.
MotionsPending(r) ==
  {o \in OrderIds : /\ orders[o].robot = r /\ InMemory(o)
                    /\ orders[o].state = "pending"}

\* motionOrders: every kind of order of this model moves the robot.
Motions(r) ==
  {o \in OrderIds : /\ orders[o].robot = r /\ InMemory(o)
                    /\ orders[o].state \in Open}

\* The runs are aborted, and what they leave pending fails.
OrdersAfterTakeOver(r) ==
  LET after == OrdersAfterAbort(ActiveOn(r)) IN
  [o \in OrderIds |->
     IF o \in Motions(r) /\ after[o].state = "pending"
       THEN [after[o] EXCEPT !.state = "failed"] ELSE after[o]]

\* A motion the adapter has begun is ended by an abort order, if none is open.
NeedsAbort(r, os) ==
  /\ \E o \in Motions(r) : /\ orders[o].state = "acked"
                           /\ orders[o].kind \in {"goto", "mission"}
  /\ ~\E o \in OrderIds : /\ os[o].kind = "abort" /\ os[o].robot = r
                          /\ InMemory(o) /\ os[o].state \in Open

EndsMotion(r) ==
  LET os == OrdersAfterTakeOver(r) IN
  /\ missions' = [m \in Missions |->
       IF m \in ActiveOn(r) THEN [missions[m] EXCEPT !.status = "aborted"]
                            ELSE missions[m]]
  /\ pin' = Unpinned(ActiveOn(r))
  /\ IF NeedsAbort(r, os)
       THEN \E n \in FreeExtra : /\ NextExtra(n)
              /\ orders' = [os EXCEPT ![<<"extra", n>>] =
                              NewOrder("abort", r, NoMission)]
       ELSE orders' = os
  /\ UNCHANGED <<dropped, served, level, online, battery, schedules>>

MayTake(r) == r \in online /\ level[r] = "dispatchable"

TakeControl(s, r) ==
  MayTake(r) /\ S!Acquire(s, r) /\ EndsMotion(r) /\ UNCHANGED read

-----------------------------------------------------------------------------
(* The adapter's control loop.                                             *)

Quiet(r) == Motions(r) = {}

\* A poll sweeps the leases first.
GetFrame(s, r) ==
  /\ level[r] # "absent" /\ S!Unfinished(sessions[s]) /\ sessions[s].robot = r
  /\ Quiet(r)
  /\ S!StopAll(S!Lapsed)
  /\ read' = {<<s, sessions'[s].sequence>>}
  /\ controlLocks' = S!Locked(sessions, controlLocks)
  /\ UNCHANGED <<ttl, runVars>>

\* What comes for a session that is closed changes nothing.
PostReceipt(s, n, report) ==
  /\ <<s, n>> \in read /\ level[sessions[s].robot] # "absent"
  /\ S!Receipt(s, n, report)
  /\ read' = IF sessions'[s].status = "closed" THEN {} ELSE read
  /\ UNCHANGED runVars

-----------------------------------------------------------------------------
(* One process: both halves restart together.                              *)

RestartBoth == Restart /\ S!RestartSessions /\ UNCHANGED read

\* The crash falls while a handler of the dispatcher writes its rows.
TornBoth == Torn /\ S!RestartSessions /\ UNCHANGED read

\* The crash falls after the session's row, before the runs are aborted.
TornTakeControl(s, r) ==
  /\ sessions[s].status = "none" /\ S!Current(r) = {} /\ MayTake(r)
  /\ Hydrate(missions, orders)
  /\ \A x \in SessionIds : saved[x].sequence < MaxSequence
  /\ LET row == [S!NoSessionYet EXCEPT !.status = "starting", !.robot = r] IN
     sessions' = [x \in SessionIds |-> S!Restored(IF x = s THEN row ELSE saved[x])]
  /\ saved' = sessions'
  /\ inputs' = [x \in SessionIds |-> "none"]
  /\ controlLocks' = S!Locked(sessions', [x \in Robots |-> NoSession])
  /\ UNCHANGED <<ttl, read>>

-----------------------------------------------------------------------------
RunSteps == /\ SteadyNext \/ \E r \in Robots : RemoveExternal(r)
            /\ UNCHANGED <<records, read>>

SessionSteps ==
  /\ \/ \E s \in SessionIds, c \in 1..MaxInput, a \in {"zero", "move"} :
          S!PutInput(s, c, a)
     \/ \E s \in SessionIds : S!Release(s)
     \/ S!SessionTime \/ S!InputsAge \/ S!Shutdown
  /\ UNCHANGED <<runVars, read>>

ManualNext ==
  \/ RunSteps \/ SessionSteps
  \/ \E s \in SessionIds, r \in Robots :
       TakeControl(s, r) \/ GetFrame(s, r) \/ TornTakeControl(s, r)
  \/ \E x \in read, report \in S!Reports : PostReceipt(x[1], x[2], report)
  \/ RestartBoth \/ TornBoth

\* As of the dispatcher: interval timers only.
ManualFairness ==
  /\ WF_manualVars(Tick /\ UNCHANGED <<records, read>>)
  /\ \A m \in Missions :
       WF_manualVars(SweepStaleRuns({m}) /\ UNCHANGED <<records, read>>)

ManualSpec == ManualInit /\ [][ManualNext]_manualVars
ManualFairSpec == ManualSpec /\ ManualFairness

-----------------------------------------------------------------------------
\* While an operator may drive a robot nothing else moves it: from the moment
\* its session is active no run is active on it and no motion order of it is
\* open, whatever is scheduled, requested, pulled, reported late, deregistered
\* or recovered around it (manual-control.md:5, 40; control.ts:95-125).
DrivesAlone ==
  \A s \in SessionIds : sessions[s].status = "active" =>
    /\ ActiveOn(sessions[s].robot) = {}
    /\ ~\E o \in OrderIds : /\ orders[o].robot = sessions[s].robot
                            /\ InMemory(o) /\ orders[o].state \in Open

\* A run pinned to a robot that stays dispatchable leaves the queue, unless
\* the robot is reserved: no run keeps it for ever, through lost receipts,
\* take-overs, restarts and the watchdog (world.ts:1491-1525).
PinnedRequestLeavesQueue ==
  \A m \in Missions, r \in Robots :
    []<>(missions[m].status = "queued" /\ missions[m].requested = r
           => level[r] # "dispatchable" \/ controlLocks[r] # NoSession)

\* No run stays where it is for ever, neither active nor queued.
RunsMoveOn == ActiveRunEnds /\ PinnedRequestLeavesQueue
=============================================================================
