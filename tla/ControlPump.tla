----------------------------- MODULE ControlPump -----------------------------
(***************************************************************************)
(* Driving one robot by hand, end to end: the platform's sessions          *)
(* (ManualSession), the adapter's control loop and watchdog                *)
(* (sdk/adapter-sdk-ts/src/control.ts, pumpControl), and the robot.        *)
(*                                                                         *)
(* The loop polls a frame, starts, applies or stops vendor motion, and     *)
(* posts a receipt.  It is asynchronous: between two awaits of the loop    *)
(* the platform, the 40 ms watchdog and the vendor's connection all move,  *)
(* so each await ends an action and pc says where the loop waits.          *)
(*                                                                         *)
(* The vendor is the ManualController contract: start aborts older motion  *)
(* and confirms that the robot stands; stop resolves only on a measured    *)
(* stop and rejects when uncertain; a command takes effect at any time     *)
(* before its promise settles, and not after.                              *)
(***************************************************************************)
EXTENDS ManualSession, FiniteSets

CONSTANTS
  Robot,         \* the robot this loop serves
  MaxCrashes,    \* bound: crashes of the adapter process
  MaxLate        \* bound: receipts still on their way when the loop polls

ASSUME ControlPumpAssumption ==
  Robot \in Robots /\ MaxCrashes \in Nat /\ MaxLate \in Nat

VARIABLES
  pc,            \* where the loop waits
  held,          \* the frame of the current iteration
  active,        \* session the loop drives: [id, sequence]
  lastSequence,  \* newest sequence applied in this session
  moving,        \* the watchdog is armed
  left,          \* ticks until expiresAt
  failed,        \* the session was interrupted on this side
  stopCall,      \* controller.stop in flight: "none", "asked", "took"
  watching,      \* the watchdog waits for that stop too
  applyCall,     \* controller.apply in flight: "none", "sent", "took"
  motion,        \* [id, sequence] of the command the robot executes
  receipts,      \* receipts on their way to the platform
  crashes        \* adapter crashes so far

pumpVars == <<pc, held, active, lastSequence, moving, left, failed, stopCall,
              watching, applyCall, motion, receipts, crashes>>
vars == <<sessionVars, pumpVars>>

-----------------------------------------------------------------------------
Idle    == [id |-> NoSession, sequence |-> 0]
Still   == Idle
Waiting == {"haltNull", "haltOld", "haltStop", "haltZero", "haltAfter",
            "haltFail"}       \* the loop awaits ensureStop

Init ==
  /\ SessionInit
  /\ pc = "down" /\ held = NoFrame /\ active = Idle /\ lastSequence = -1
  /\ moving = FALSE /\ left = 0 /\ failed = FALSE
  /\ stopCall = "none" /\ watching = FALSE /\ applyCall = "none"
  /\ motion = Still /\ receipts = {} /\ crashes = 0

\* The frame is local to its iteration.
KeepFrame == held' = IF pc' = "idle" THEN NoFrame ELSE held

Vendor == <<stopCall, watching, applyCall, motion>>

\* Calls of the loop that do not wait for the vendor.
\* A receipt is awaited for 350 ms, and the loop sleeps 80 ms before it polls:
\* longer than any input known by then stays in force.
Sent(k, id, n, wait) ==
  [id |-> id, sequence |-> n, report |-> k, wait |-> wait]
Post(k, n) ==
  receipts' = receipts \cup {Sent(k, active'.id, n, InputTicks)}

\* ensureStop: join the stop in flight, or ask for one.
EnsureStop(where) ==
  /\ pc' = where
  /\ IF stopCall # "none"
       THEN UNCHANGED <<stopCall, moving>>
       ELSE stopCall' = "asked" /\ moving' = FALSE

\* reportFailure and the ensureStop that follows it in the loop.
Fails ==
  /\ failed' = TRUE /\ moving' = FALSE
  /\ pc' = "haltFail"
  /\ stopCall' = IF stopCall # "none" THEN stopCall ELSE "asked"
  /\ active' = active
  /\ Post("failed", active.sequence)

-----------------------------------------------------------------------------
(* The loop.                                                               *)

\* Every receipt was answered or given up, not too many of them (a bound).
Rested == /\ \A x \in receipts : x.wait = 0
          /\ Cardinality(receipts) <= MaxLate

\* The platform answers the poll, after its expiry sweep.  It answers null
\* when no session is open, or while orders that move the robot are (busy).
Poll(busy) ==
  /\ pc = "idle" /\ Rested
  /\ StopAll(Lapsed) /\ controlLocks' = Locked(sessions, controlLocks)
  /\ held' = IF busy \/ Current(Robot) = {} THEN NoFrame
             ELSE LET s == CHOOSE s \in Current(Robot) : TRUE
                  IN FrameOf(SessionsAfter(Lapsed)[s], s,
                             InputsAfter(Lapsed)[s])
  /\ pc' = "reply"
  /\ UNCHANGED <<ttl, active, lastSequence, moving, left, failed, Vendor,
                 receipts, crashes>>

\* No answer within 350 ms.
PollFails ==
  /\ pc = "idle" /\ active # Idle /\ Rested
  /\ Fails
  /\ KeepFrame
  /\ UNCHANGED <<sessionVars, lastSequence, left, watching, applyCall,
                 motion, crashes>>

\* A null frame: stop whatever this loop was driving.
NothingToDrive ==
  /\ pc = "reply" /\ held = NoFrame
  /\ IF active = Idle
       THEN pc' = "idle" /\ UNCHANGED <<stopCall, moving>>
       ELSE EnsureStop("haltNull")
  /\ KeepFrame
  /\ UNCHANGED <<sessionVars, active, lastSequence, left, failed,
                 watching, applyCall, motion, receipts, crashes>>

\* A frame of another session: the older one is stopped first.
OtherSession ==
  /\ pc = "reply" /\ held # NoFrame
  /\ active # Idle /\ active.id # held.id
  /\ EnsureStop("haltOld")
  /\ KeepFrame
  /\ UNCHANGED <<sessionVars, active, lastSequence, left, failed,
                 watching, applyCall, motion, receipts, crashes>>

Take == active' = [id |-> held.id, sequence |-> held.sequence]

\* controller.start is asked; pc "starting" waits for it.
Begin ==
  /\ \/ pc = "reply" /\ held # NoFrame /\ active = Idle
     \/ pc = "begin"
  /\ Take /\ pc' = "starting"
  /\ lastSequence' = -1 /\ failed' = FALSE
  /\ KeepFrame
  /\ UNCHANGED <<sessionVars, moving, left, Vendor, receipts, crashes>>

\* start resolves once older motion is aborted and the robot stands.
Started ==
  /\ pc = "starting"
  /\ motion' = Still /\ pc' = "serve"
  /\ KeepFrame
  /\ UNCHANGED <<sessionVars, active, lastSequence, moving, left,
                 failed, stopCall, watching, applyCall, receipts, crashes>>

StartFails ==
  /\ pc = "starting" /\ Fails
  /\ KeepFrame
  /\ UNCHANGED <<sessionVars, lastSequence, left, watching, applyCall,
                 motion, crashes>>

Serving == \/ pc = "serve"
           \/ pc = "reply" /\ held # NoFrame /\ active.id = held.id

\* A stop request, or a session that failed here: report that if the platform
\* does not know yet, then stop.
ServeStop ==
  /\ Serving /\ (failed \/ held.status \in {"stopping", "failed"})
  /\ Take /\ EnsureStop("haltStop")
  /\ IF held.status \in {"stopping", "failed"}
       THEN UNCHANGED receipts ELSE Post("failed", held.sequence)
  /\ KeepFrame
  /\ UNCHANGED <<sessionVars, lastSequence, left, failed, watching,
                 applyCall, motion, crashes>>

ServeStart ==
  /\ Serving /\ ~failed /\ held.status = "starting"
  /\ Take /\ Post("ready", held.sequence) /\ pc' = "idle"
  /\ KeepFrame
  /\ UNCHANGED <<sessionVars, lastSequence, moving, left, failed,
                 Vendor, crashes>>

Driving == Serving /\ ~failed /\ held.status = "active"

\* Every iteration that reaches the end of an active frame confirms a newer
\* sequence once.
Confirm ==
  /\ pc' = "idle"
  /\ lastSequence' = IF held.sequence > lastSequence THEN held.sequence
                                                     ELSE lastSequence
  /\ IF held.sequence > lastSequence THEN Post("applied", held.sequence)
                                     ELSE UNCHANGED receipts

\* Zero or expired input stops a moving robot.
ServeZero ==
  /\ Driving /\ (~held.moves \/ held.remaining = 0)
  /\ Take
  /\ IF moving THEN EnsureStop("haltZero") /\ UNCHANGED <<lastSequence, receipts>>
               ELSE Confirm /\ UNCHANGED <<stopCall, moving>>
  /\ KeepFrame
  /\ UNCHANGED <<sessionVars, left, failed, watching, applyCall, motion,
                 crashes>>

\* An input already applied is not applied again.
ServeRepeat ==
  /\ Driving /\ held.moves /\ held.remaining > 0
  /\ held.sequence <= lastSequence
  /\ Take /\ pc' = "idle"
  /\ KeepFrame
  /\ UNCHANGED <<sessionVars, lastSequence, moving, left, failed,
                 Vendor, receipts, crashes>>

\* Variant: the deadline counts from the arrival of the frame.
SendInputFullTime == /\ left' = InputTicks /\ moving' = TRUE
                     /\ applyCall' = "sent" /\ pc' = "applying"

\* The command goes out with the watchdog armed at its deadline.
SendInput == /\ left' = held.remaining /\ moving' = TRUE
             /\ applyCall' = "sent" /\ pc' = "applying"

\* A newer input waits for a stop in flight.
ServeInput ==
  /\ Driving /\ held.moves /\ held.remaining > 0
  /\ held.sequence > lastSequence
  /\ Take
  /\ IF stopCall = "none" THEN SendInput
     ELSE pc' = "beforeApply" /\ UNCHANGED <<left, moving, applyCall>>
  /\ KeepFrame
  /\ UNCHANGED <<sessionVars, lastSequence, failed, stopCall, watching,
                 motion, receipts, crashes>>

\* It may be too late for the input when that stop is over.
ApplyAfterStop ==
  /\ pc = "apply" /\ active' = active
  /\ IF ~failed /\ held.remaining > 0
       THEN SendInput /\ UNCHANGED <<lastSequence, receipts>>
       ELSE Confirm /\ UNCHANGED <<left, moving, applyCall>>
  /\ KeepFrame
  /\ UNCHANGED <<sessionVars, failed, stopCall, watching, motion,
                 crashes>>

\* The command resolved before its deadline and before any stop.
InTime == moving /\ left > 0

\* apply resolves.  A stop sent during it may have come before the command:
\* wait for that stop, then stop once more.
Applied ==
  /\ pc = "applying" /\ applyCall = "took"
  /\ applyCall' = "none" /\ active' = active
  /\ IF InTime
       THEN Confirm /\ UNCHANGED <<stopCall, moving>>
     ELSE IF stopCall # "none"
       THEN pc' = "afterApply"
            /\ UNCHANGED <<stopCall, moving, lastSequence, receipts>>
     ELSE EnsureStop("haltAfter") /\ UNCHANGED <<lastSequence, receipts>>
  /\ KeepFrame
  /\ UNCHANGED <<sessionVars, left, failed, watching, motion, crashes>>

ApplyFails ==
  /\ pc = "applying" /\ applyCall' = "none" /\ Fails
  /\ KeepFrame
  /\ UNCHANGED <<sessionVars, lastSequence, left, watching, motion,
                 crashes>>

\* controller.stop resolves: every await of it goes on.
StopConfirmed ==
  /\ stopCall = "took" /\ motion = Still
  /\ watching' = FALSE
  /\ stopCall' = IF pc = "afterApply" THEN "asked" ELSE "none"
  /\ active' = IF pc = "haltNull" THEN Idle ELSE active
  /\ CASE pc \in {"haltZero", "haltAfter"} -> Confirm
       [] pc = "haltStop" -> /\ pc' = "idle" /\ Post("stopped", held.sequence)
                             /\ UNCHANGED lastSequence
       [] OTHER -> /\ pc' = CASE pc \in {"haltNull", "haltFail"} -> "idle"
                              [] pc = "haltOld" -> "begin"
                              [] pc = "beforeApply" -> "apply"
                              [] pc = "afterApply" -> "haltAfter"
                              [] OTHER -> pc
                   /\ lastSequence' = IF pc = "haltNull" THEN -1
                                                         ELSE lastSequence
                   /\ UNCHANGED receipts
  /\ KeepFrame
  /\ UNCHANGED <<sessionVars, moving, left, failed, applyCall, motion,
                 crashes>>

\* controller.stop rejects: a failure for each await that does not ignore it.
StopRejected ==
  /\ stopCall # "none"
  /\ watching' = FALSE
  /\ LET fails == pc \in (Waiting \ {"haltFail"}) \cup {"beforeApply"}
     IN /\ stopCall' = IF fails \/ pc = "afterApply" THEN "asked" ELSE "none"
        /\ pc' = IF fails THEN "haltFail"
                 ELSE IF pc = "haltFail" THEN "idle"
                 ELSE IF pc = "afterApply" THEN "haltAfter" ELSE pc
        /\ failed' = (failed \/ fails \/ (watching /\ active # Idle))
        /\ active' = active
        /\ receipts' = receipts
             \cup (IF fails
                     THEN {Sent("failed", active.id, active.sequence, InputTicks)}
                     ELSE {})
             \cup (IF watching /\ active # Idle
                     THEN {Sent("failed", active.id, active.sequence, 0)}
                     ELSE {})
  /\ moving' = FALSE
  /\ KeepFrame
  /\ UNCHANGED <<sessionVars, lastSequence, left, applyCall, motion,
                 crashes>>

\* The 40 ms watchdog.
Watchdog ==
  /\ moving /\ left = 0
  /\ EnsureStop(pc) /\ watching' = TRUE
  /\ UNCHANGED <<sessionVars, held, active, lastSequence, left, failed,
                 applyCall, motion, receipts, crashes>>

-----------------------------------------------------------------------------
(* The vendor, the network, crashes and time.                              *)

StopTakes ==
  /\ stopCall = "asked"
  /\ stopCall' = "took" /\ motion' = Still
  /\ UNCHANGED <<sessionVars, pc, held, active, lastSequence, moving, left,
                 failed, watching, applyCall, receipts, crashes>>

\* The command is executed; it was sent for the frame the loop holds.
ApplyTakes ==
  /\ applyCall = "sent"
  /\ applyCall' = "took"
  /\ motion' = [id |-> active.id, sequence |-> active.sequence]
  /\ UNCHANGED <<sessionVars, pc, held, active, lastSequence, moving, left,
                 failed, stopCall, watching, receipts, crashes>>

Deliver(x) ==
  /\ receipts' = receipts \ {x}
  /\ \/ Receipt(x.id, x.sequence, x.report)
     \/ ~Accepts(sessions[x.id], x.sequence) /\ UNCHANGED sessionVars
  /\ UNCHANGED <<pc, held, active, lastSequence, moving, left, failed, Vendor,
                 crashes>>

Lose(x) == /\ receipts' = receipts \ {x}
           /\ UNCHANGED <<sessionVars, pc, held, active, lastSequence, moving,
                          left, failed, Vendor, crashes>>

\* The adapter dies.  Its robot goes on with the command it has; one on its
\* way to the vendor arrives or is lost.
Crash ==
  /\ pc # "down" /\ crashes < MaxCrashes
  /\ crashes' = crashes + 1
  /\ pc' = "down" /\ held' = NoFrame /\ active' = Idle /\ lastSequence' = -1
  /\ moving' = FALSE /\ left' = 0 /\ failed' = FALSE
  /\ stopCall' = "none" /\ watching' = FALSE /\ applyCall' = "none"
  /\ \/ motion' = motion
     \/ stopCall = "asked" /\ motion' = Still
     \/ applyCall = "sent"
        /\ motion' = [id |-> active.id, sequence |-> active.sequence]
  /\ UNCHANGED <<sessionVars, receipts>>

\* A new process takes over.  It is spawned at least 500 ms after the old one
\* exited, so the old one's receipts (350 ms) were delivered or lost.
Respawn ==
  /\ pc = "down" /\ receipts = {}
  /\ pc' = "idle"
  /\ UNCHANGED <<sessionVars, held, active, lastSequence, moving, left, failed,
                 Vendor, receipts, crashes>>

\* The connections of a platform that dies die with it.
PlatformRestart ==
  /\ RestartSessions /\ receipts' = {}
  /\ UNCHANGED <<pc, held, active, lastSequence, moving, left, failed, Vendor,
                 crashes>>

\* A tick passes: the deadline of the frame the loop holds comes nearer from
\* the moment the platform answered, not from the moment the loop looks.
Elapse ==
  /\ \/ left > 0 \/ \E s \in SessionIds : ttl[s] > 0
     \/ \E x \in receipts : x.wait > 0
  /\ ttl' = [s \in SessionIds |-> Aged(ttl[s])]
  /\ left' = Aged(left)
  /\ held' = IF held = NoFrame THEN held
             ELSE [held EXCEPT !.remaining = Aged(held.remaining)]
  /\ receipts' = {[x EXCEPT !.wait = Aged(x.wait)] : x \in receipts}
  /\ UNCHANGED <<sessions, saved, inputs, controlLocks, pc, active,
                 lastSequence, moving, failed, Vendor, crashes>>

-----------------------------------------------------------------------------
Polled == \E busy \in BOOLEAN : Poll(busy)

Loop ==
  \/ Polled \/ PollFails \/ NothingToDrive \/ OtherSession \/ Begin
  \/ Started \/ StartFails
  \/ ServeStop \/ ServeStart \/ ServeZero \/ ServeRepeat \/ ServeInput
  \/ ApplyAfterStop \/ Applied \/ ApplyFails

VendorNext == StopTakes \/ StopConfirmed \/ StopRejected \/ ApplyTakes

Network == \E x \in receipts : Deliver(x) \/ Lose(x)

Platform == Operator \/ SessionTime \/ Shutdown

Next ==
  \/ Loop \/ Watchdog \/ VendorNext \/ Network \/ Elapse
  \/ Platform /\ UNCHANGED pumpVars
  \/ Crash \/ Respawn \/ PlatformRestart

Spec == Init /\ [][Next]_vars

\* The loop and the timers run; the vendor settles every call and each receipt
\* is delivered or lost.  And the world is not out for good: of the polls that go
\* out again and again one is answered, with a frame or with null, of the starts
\* one succeeds, of the stops for a request or for a hand-over one is confirmed,
\* of the confirmations one arrives.  Nothing is asked of the orders for which the
\* platform withholds the frame.
Fairness ==
  /\ WF_vars(Loop) /\ WF_vars(Watchdog) /\ WF_vars(Elapse)
  /\ WF_vars(SessionTime /\ UNCHANGED pumpVars)
  /\ WF_vars(Respawn) /\ WF_vars(Network)
  /\ WF_vars(StopTakes) /\ WF_vars(ApplyTakes)
  /\ WF_vars(StopConfirmed \/ StopRejected)
  /\ SF_vars(Polled) /\ SF_vars(Started)
  /\ \A where \in {"haltStop", "haltOld"} :
       /\ SF_vars(pc = where /\ StopTakes)
       /\ SF_vars(pc = where /\ StopConfirmed)
  /\ SF_vars(\E x \in receipts : x.report = "stopped" /\ Deliver(x))
FairSpec == Spec /\ Fairness

-----------------------------------------------------------------------------
Places == Waiting \cup {"down", "idle", "reply", "begin", "starting", "serve",
                        "beforeApply", "apply", "applying", "afterApply"}
Doing  == [id: SessionIds \cup {NoSession}, sequence: Nat]

PumpTypeOK ==
  /\ SessionTypeOK
  /\ pc \in Places
  /\ held = NoFrame \/ /\ held.id \in SessionIds
                       /\ held.sequence \in Nat /\ held.status \in Status
                       /\ held.moves \in BOOLEAN
                       /\ held.remaining \in 0..InputTicks
  /\ active \in Doing /\ motion \in Doing
  /\ lastSequence \in Nat \cup {-1}
  /\ moving \in BOOLEAN /\ failed \in BOOLEAN /\ watching \in BOOLEAN
  /\ left \in 0..InputTicks
  /\ stopCall \in {"none", "asked", "took"}
  /\ applyCall \in {"none", "sent", "took"}
  /\ receipts \subseteq [id: SessionIds, sequence: Nat, report: Reports,
                         wait: 0..InputTicks]
  /\ crashes \in 0..MaxCrashes

\* A robot whose reservation is gone stands still, whatever command, stop or
\* receipt was in flight when the platform closed the session.
ReleasedMeansStill ==
  motion # Still => Unfinished(sessions[motion.id])

\* No delay on the way lets an input act longer than its 400 ms from the moment
\* the platform accepted it.
InputNeverOutlived == moving => left <= ttl[active.id]

\* While the adapter runs, a robot in motion is never left to itself: the
\* watchdog is armed, or a command or a stop is under way, or the failure is
\* latched that stops the robot at the next poll.
MotionIsWatched ==
  motion # Still /\ active # Idle /\ pc # "starting" =>
    moving \/ stopCall # "none" \/ applyCall # "none" \/ failed

\* A robot in motion always has both: a reservation, and something that ends
\* the motion if the operator and the platform fall silent, in time.
NoRunaway == ReleasedMeansStill /\ MotionIsWatched /\ InputNeverOutlived

\* The answer is null although the robot is held: an order that moves it is open.
Withheld == Poll(TRUE) /\ Current(Robot) # {}

\* Once the operator falls silent his session is closed by a confirmed stop,
\* through lost control receipts, failed calls, crashes and restarts, unless its
\* frame is withheld again and again: while a goto, mission, abort, pause or
\* resume order of the robot is open the adapter never hears of the stop, so an
\* order whose receipt was lost keeps the robot reserved.
ReservationEnds ==
  \A s \in SessionIds : \/ []<>(~Unfinished(sessions[s]))
                        \/ []<><<Withheld>>_vars

\* The platform, the adapter and the robot together keep the promise of
\* Reservation: one holder, motion for the holder only, hand-over at rest.
R == INSTANCE Reservation WITH
       Sessions <- SessionIds, NoHolder <- NoSession,
       holder <- controlLocks[Robot], mover <- motion.id,
       spent <- {s \in SessionIds : sessions[s].robot = Robot}
KeepsReservation == R!ReservationSpec
=============================================================================
