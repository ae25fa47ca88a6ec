------------------------ MODULE ManualControlProofs -------------------------
(***************************************************************************)
(* Driving by hand, end to end, for any number of robots and sessions and  *)
(* any delays.                                                             *)
(*                                                                         *)
(* ControlPump: no runaway, and the promise of Reservation.                *)
(* OperatorPanel: a key that is up is still.                               *)
(* MCManualControl: all of it, of robots, sessions, adapters and panels.   *)
(***************************************************************************)
EXTENDS MCManualControl, ManualSessionProofs


Frame  == [id: SessionIds, sequence: Nat, status: Status, moves: BOOLEAN,
           remaining: 0..InputTicks]
Task   == [id: SessionIds, sequence: Nat]
Notice == [id: SessionIds, sequence: Nat, report: Reports, wait: 0..InputTicks]

PumpTypes ==
  /\ pc \in Places /\ held \in Frame \cup {NoFrame}
  /\ active \in Task \cup {Idle} /\ motion \in Task \cup {Still}
  /\ lastSequence \in Nat \cup {-1} /\ left \in 0..InputTicks
  /\ moving \in BOOLEAN /\ failed \in BOOLEAN /\ watching \in BOOLEAN
  /\ stopCall \in {"none", "asked", "took"}
  /\ applyCall \in {"none", "sent", "took"}
  /\ receipts \subseteq Notice /\ crashes \in 0..MaxCrashes

-----------------------------------------------------------------------------
(* The loop: what it knows at each place it waits.                         *)

\* Places where the loop serves the frame it holds, and where it waits for a stop.
Serves == {"starting", "serve", "haltStop", "haltZero", "haltAfter",
           "beforeApply", "apply", "applying", "afterApply"}
Awaits == Waiting \cup {"beforeApply", "afterApply"}

LoopOK ==
  /\ pc \in {"idle", "down"} => held = NoFrame
  /\ pc \in Serves =>
       /\ held # NoFrame
       /\ active = [id |-> held.id, sequence |-> held.sequence]
  /\ pc \in {"haltOld", "begin"} => held # NoFrame
  /\ pc \in {"haltNull", "haltOld"} => active # Idle
  /\ pc \in Awaits => stopCall # "none"
  /\ applyCall # "none" => pc = "applying"
  /\ moving => /\ stopCall = "none" /\ active # Idle
               /\ pc \notin {"begin", "starting", "apply"}
  /\ pc = "apply" => stopCall = "none"
  /\ pc \in {"beforeApply", "apply"} => held.moves
  /\ pc = "haltFail" => failed
  /\ stopCall # "none" /\ pc \notin Awaits => watching

-----------------------------------------------------------------------------
(* The loop and the sessions.                                              *)

Known(s) == sessions[s].status # "none" /\ sessions[s].robot = Robot

\* A number beyond the session's own is from before a restart, which stopped it.
Ahead(s, n) == n > sessions[s].sequence => ~Driven(sessions[s])

\* A receipt that can end its session.
Closing(x, s) == /\ x.id = s /\ x.report = "stopped"
                 /\ x.sequence >= sessions[s].sequence

\* Memory and the database agree on which sessions were ever acquired.
Fresh(s) == /\ saved[s].status = "none" <=> sessions[s].status = "none"
            /\ sessions[s].status = "none" => sessions[s].robot = NoRobot

\* The session of a command that may move the robot is open and stays open.
Safe(s) == Known(s) /\ Unfinished(sessions[s]) /\ \A x \in receipts : ~Closing(x, s)

FrameOK ==
  held # NoFrame =>
    /\ Known(held.id) /\ Ahead(held.id, held.sequence)
    /\ held.remaining <= ttl[held.id]
    /\ held.moves /\ held.remaining > 0 => Safe(held.id)

CommandsOK ==
  /\ active # Idle => Known(active.id)
  /\ applyCall = "sent" => Safe(active.id)
  /\ motion # Still => Safe(motion.id)
  /\ \A x \in receipts :
       /\ Known(x.id)
       /\ x.report = "stopped" =>
            /\ Ahead(x.id, x.sequence)
            /\ x.sequence >= sessions[x.id].sequence => ttl[x.id] <= x.wait
  /\ \A s \in SessionIds : Fresh(s)

SafeOK == FrameOK /\ CommandsOK

PumpInv ==
  /\ SessionInv /\ PumpTypes /\ LoopOK /\ SafeOK
  /\ InputNeverOutlived /\ MotionIsWatched

-----------------------------------------------------------------------------
(* Steps of the loop, the watchdog and the vendor.                         *)

\* What every one of them keeps to: frames are only dropped, a command goes out
\* only for an input in force, and a stop is reported only at rest.
LoopGoes ==
  /\ UNCHANGED sessionVars
  /\ held' \in {held, NoFrame}
  /\ \/ active' \in {active, Idle}
     \/ held # NoFrame /\ active' = [id |-> held.id, sequence |-> held.sequence]
  /\ applyCall' = "sent" =>
       \/ applyCall = "sent" /\ active' = active
       \/ held # NoFrame /\ held.moves /\ held.remaining > 0 /\ active'.id = held.id
  /\ \/ motion' \in {motion, Still}
     \/ applyCall = "sent" /\ motion' = active
  /\ moving' => \/ moving /\ left' = left /\ active'.id = active.id
                \/ held # NoFrame /\ left' = held.remaining /\ active'.id = held.id
  /\ \A x \in receipts' \ receipts :
       /\ \/ active # Idle /\ x.id = active.id
          \/ held # NoFrame /\ x.id = held.id
       /\ x.report = "stopped" =>
            /\ held # NoFrame /\ x.id = held.id /\ x.sequence = held.sequence
            /\ x.wait = InputTicks
            /\ held' = NoFrame /\ motion' = Still /\ applyCall' # "sent"

LEMMA LoopGoesSafe ==
  ASSUME PumpInv, LoopGoes, PumpTypes'
  PROVE  SafeOK' /\ InputNeverOutlived'
<1>. USE DEF PumpInv
<1>1. UNCHANGED <<sessions, saved, inputs, ttl, controlLocks>>
  BY DEF LoopGoes, sessionVars
<1>2. ASSUME NEW s \in SessionIds, Safe(s),
             held' # NoFrame \/ motion' # Still \/ applyCall' = "sent"
      PROVE  Safe(s)'
  <2>1. \A x \in receipts' : x.report = "stopped" => x \in receipts
    BY <1>2 DEF LoopGoes
  <2>. QED BY <1>1, <1>2, <2>1 DEF Safe, Known, Closing
<1>3. held' # NoFrame =>
        /\ Known(held.id)' /\ Ahead(held.id, held.sequence)'
        /\ held'.remaining <= ttl'[held'.id]
        /\ held'.moves /\ held'.remaining > 0 => Safe(held.id)'
  <2>. SUFFICES ASSUME held' # NoFrame
       PROVE  /\ Known(held.id)' /\ Ahead(held.id, held.sequence)'
              /\ held'.remaining <= ttl'[held'.id]
              /\ held'.moves /\ held'.remaining > 0 => Safe(held.id)'
    OBVIOUS
  <2>1. held' = held /\ held \in Frame
    BY DEF LoopGoes, PumpTypes
  <2>2. PICK s \in SessionIds : s = held.id
    BY <2>1 DEF Frame
  <2>3. held.moves /\ held.remaining > 0 => Safe(s)'
    BY <1>2, <2>1, <2>2 DEF SafeOK, FrameOK, CommandsOK
  <2>. QED BY <1>1, <2>1, <2>2, <2>3
           DEF SafeOK, FrameOK, CommandsOK, Known, Ahead, Safe, Closing
<1>4. active' # Idle => Known(active.id)'
  BY <1>1 DEF LoopGoes, SafeOK, FrameOK, CommandsOK, Known
<1>5. applyCall' = "sent" => Safe(active.id)'
  <2>. SUFFICES ASSUME applyCall' = "sent" PROVE Safe(active.id)'
    OBVIOUS
  <2>1. PICK s : s = active'.id
    OBVIOUS
  <2>2. Safe(s) /\ s \in SessionIds
    BY <2>1, PumpInv
         DEF LoopGoes, SafeOK, FrameOK, CommandsOK, PumpTypes, Frame, Task,
             LoopOK, Serves
  <2>3. Safe(s)'
    BY <1>2, <2>2
  <2>. QED BY <2>1, <2>3 DEF Safe, Known, Closing
<1>6. motion' # Still => Safe(motion.id)'
  <2>. SUFFICES ASSUME motion' # Still PROVE Safe(motion.id)'
    OBVIOUS
  <2>1. PICK s : s = motion'.id
    OBVIOUS
  <2>2. Safe(s) /\ s \in SessionIds
    BY <2>1
         DEF LoopGoes, SafeOK, FrameOK, CommandsOK, PumpTypes, Frame, Task,
             LoopOK, Serves
  <2>3. Safe(s)'
    BY <1>2, <2>2
  <2>. QED BY <2>1, <2>3 DEF Safe, Known, Closing
<1>7. \A x \in receipts' :
        /\ Known(x.id)'
        /\ x.report = "stopped" =>
             /\ Ahead(x.id, x.sequence)'
             /\ x.sequence >= sessions'[x.id].sequence => ttl'[x.id] <= x.wait
  <2>. SUFFICES ASSUME NEW x \in receipts'
       PROVE  /\ Known(x.id)'
              /\ x.report = "stopped" =>
                   /\ Ahead(x.id, x.sequence)'
                   /\ x.sequence >= sessions'[x.id].sequence => ttl'[x.id] <= x.wait
    OBVIOUS
  <2>1. CASE x \in receipts
    BY <1>1, <2>1 DEF SafeOK, FrameOK, CommandsOK, Known, Ahead
  <2>2. CASE x \notin receipts
    <3>1. Known(x.id) /\ x.id \in SessionIds
      BY <2>2 DEF LoopGoes, SafeOK, FrameOK, CommandsOK, PumpTypes, Notice
    <3>2. ttl[x.id] <= InputTicks
      BY <3>1, ManualSessionAssumption DEF SessionInv, SessionTypeOK
    <3>. QED BY <1>1, <2>2, <3>1, <3>2
             DEF LoopGoes, SafeOK, FrameOK, CommandsOK, Known, Ahead
  <2>. QED BY <2>1, <2>2
<1>8. SafeOK'
  BY <1>1, <1>3, <1>4, <1>5, <1>6, <1>7 DEF SafeOK, FrameOK, CommandsOK, Fresh
<1>9. InputNeverOutlived'
  BY <1>1 DEF LoopGoes, InputNeverOutlived, SafeOK, FrameOK, CommandsOK
<1>. QED BY <1>8, <1>9
-----------------------------------------------------------------------------
(* The steps one by one.                                                   *)

\* The other variables keep their types.
Typed ==
  /\ pc' \in Places
  /\ \/ lastSequence' \in {lastSequence, -1}
     \/ held # NoFrame /\ lastSequence' = held.sequence
  /\ \/ left' \in {left, 0}
     \/ held # NoFrame /\ left' = held.remaining
  /\ moving' \in BOOLEAN /\ failed' \in BOOLEAN /\ watching' \in BOOLEAN
  /\ stopCall' \in {"none", "asked", "took"}
  /\ applyCall' \in {"none", "sent", "took"}
  /\ crashes' \in 0..MaxCrashes
  /\ \A x \in receipts' \ receipts :
       \E k \in Reports, w \in {0, InputTicks} :
         \/ held # NoFrame /\ x = Sent(k, held.id, held.sequence, w)
         \/ active # Idle /\ x = Sent(k, active.id, active.sequence, w)

Steps == LoopOK' /\ MotionIsWatched' /\ LoopGoes /\ Typed

\* What the types say of a frame and of a task.
LEMMA FrameAndTask ==
  ASSUME PumpInv
  PROVE  /\ held # NoFrame =>
              /\ held.id \in SessionIds /\ held.sequence \in Nat
              /\ held.status \in Status /\ held.moves \in BOOLEAN
              /\ held.remaining \in 0..InputTicks /\ held.remaining \in Nat
              /\ held.id # Idle.id
              /\ [id |-> held.id, sequence |-> held.sequence] \in Task
         /\ active # Idle =>
              active \in Task /\ active.id \in SessionIds /\ active.sequence \in Nat
         /\ pc \in Serves =>
              /\ held # NoFrame /\ active # Idle
              /\ active.id = held.id /\ active.sequence = held.sequence
         /\ Idle \notin Task
         /\ InputTicks \in Nat /\ InputTicks \in 0..InputTicks /\ 0 \in 0..InputTicks
BY ManualSessionAssumption
   DEF PumpInv, PumpTypes, LoopOK, Frame, Task, Idle, Serves

LEMMA StepsAreTyped ==
  ASSUME PumpInv, LoopGoes, Typed
  PROVE  PumpTypes'
<1>. USE FrameAndTask DEF PumpInv, PumpTypes
<1>1. held' \in Frame \cup {NoFrame} /\ active' \in Task \cup {Idle}
  BY DEF LoopGoes
<1>2. motion' \in Task \cup {Still}
  BY DEF LoopGoes, LoopOK, Serves, Still
<1>3. lastSequence' \in Nat \cup {-1} /\ left' \in 0..InputTicks
  BY DEF Typed
<1>4. receipts' \subseteq Notice
  <2>1. ASSUME NEW x \in receipts', x \notin receipts  PROVE x \in Notice
    <3>1. PICK k \in Reports, w \in {0, InputTicks} :
            \/ held # NoFrame /\ x = Sent(k, held.id, held.sequence, w)
            \/ active # Idle /\ x = Sent(k, active.id, active.sequence, w)
      BY <2>1 DEF Typed
    <3>2. w \in 0..InputTicks
      OBVIOUS
    <3>. QED BY <3>1, <3>2 DEF Sent, Notice
  <2>. QED BY <2>1
<1>. QED BY <1>1, <1>2, <1>3, <1>4 DEF Typed

\* The steps that leave the sessions alone.
Local ==
  \/ PollFails \/ NothingToDrive \/ OtherSession \/ Begin \/ Started \/ StartFails
  \/ ServeStop \/ ServeStart \/ ServeZero \/ ServeRepeat \/ ServeInput
  \/ ApplyAfterStop \/ Applied \/ ApplyFails \/ StopConfirmed \/ StopRejected
  \/ Watchdog \/ StopTakes \/ ApplyTakes \/ (\E x \in receipts : Lose(x))
  \/ Crash \/ Respawn

LEMMA LocalSteps ==
  ASSUME PumpInv, Local
  PROVE  Steps
<1>. USE FrameAndTask, ControlPumpAssumption
     DEF PumpInv, PumpTypes, LoopOK, Serves, Awaits, Waiting, KeepFrame, Vendor,
         Sent, Post, pumpVars, sessionVars, MotionIsWatched, LoopGoes, Typed,
         Still, Idle, Status, Places, Reports
<1>1. CASE PollFails
  <2>. USE <1>1 DEF PollFails, Fails, Rested
  <2>1. LoopOK' /\ MotionIsWatched'
    OBVIOUS
  <2>2. LoopGoes
    OBVIOUS
  <2>3. Typed
    OBVIOUS
  <2>. QED BY <2>1, <2>2, <2>3 DEF Steps
<1>2. CASE NothingToDrive
  BY <1>2 DEF Steps, NothingToDrive, EnsureStop
<1>3. CASE OtherSession
  BY <1>3 DEF Steps, OtherSession, EnsureStop
<1>4. CASE Begin
  BY <1>4 DEF Steps, Begin, Take
<1>5. CASE Started
  BY <1>5 DEF Steps, Started
<1>6. CASE StartFails
  <2>. USE <1>6 DEF StartFails, Fails
  <2>1. LoopOK' /\ MotionIsWatched'
    OBVIOUS
  <2>2. LoopGoes
    OBVIOUS
  <2>3. Typed
    OBVIOUS
  <2>. QED BY <2>1, <2>2, <2>3 DEF Steps
<1>7. CASE ServeStop
  <2>. USE <1>7 DEF ServeStop, Serving, Take, EnsureStop
  <2>1. LoopOK' /\ MotionIsWatched'
    OBVIOUS
  <2>2. LoopGoes
    OBVIOUS
  <2>3. Typed
    OBVIOUS
  <2>. QED BY <2>1, <2>2, <2>3 DEF Steps
<1>8. CASE ServeStart
  BY <1>8 DEF Steps, ServeStart, Serving, Take
<1>9. CASE ServeZero
  <2>. USE <1>9 DEF ServeZero, Driving, Serving, Take, EnsureStop, Confirm
  <2>1. LoopOK' /\ MotionIsWatched'
    OBVIOUS
  <2>2. LoopGoes
    OBVIOUS
  <2>3. Typed
    OBVIOUS
  <2>. QED BY <2>1, <2>2, <2>3 DEF Steps
<1>10. CASE ServeRepeat
  BY <1>10 DEF Steps, ServeRepeat, Driving, Serving, Take
<1>11. CASE ServeInput
  BY <1>11 DEF Steps, ServeInput, Driving, Serving, Take, SendInput
<1>12. CASE ApplyAfterStop
  <2>. USE <1>12 DEF ApplyAfterStop, SendInput, Confirm
  <2>1. LoopOK' /\ MotionIsWatched'
    OBVIOUS
  <2>2. LoopGoes
    OBVIOUS
  <2>3. Typed
    OBVIOUS
  <2>. QED BY <2>1, <2>2, <2>3 DEF Steps
<1>13. CASE Applied
  <2>. USE <1>13 DEF Applied, InTime, Confirm, EnsureStop
  <2>1. LoopOK' /\ MotionIsWatched'
    OBVIOUS
  <2>2. LoopGoes
    OBVIOUS
  <2>3. Typed
    OBVIOUS
  <2>. QED BY <2>1, <2>2, <2>3 DEF Steps
<1>14. CASE ApplyFails
  <2>. USE <1>14 DEF ApplyFails, Fails
  <2>1. LoopOK' /\ MotionIsWatched'
    OBVIOUS
  <2>2. LoopGoes
    OBVIOUS
  <2>3. Typed
    OBVIOUS
  <2>. QED BY <2>1, <2>2, <2>3 DEF Steps
<1>15. CASE StopConfirmed
  <2>. USE <1>15 DEF StopConfirmed, Confirm
  <2>1. LoopOK' /\ MotionIsWatched'
    OBVIOUS
  <2>2. LoopGoes
    OBVIOUS
  <2>3. Typed
    <3>1. /\ pc' \in Places
          /\ (lastSequence' \in {lastSequence, -1} \/ (held # NoFrame /\ lastSequence' = held.sequence))
      OBVIOUS
    <3>2. /\ left' \in {left, 0} \/ (held # NoFrame /\ left' = held.remaining)
          /\ moving' \in BOOLEAN /\ failed' \in BOOLEAN /\ watching' \in BOOLEAN
          /\ stopCall' \in {"none", "asked", "took"}
          /\ applyCall' \in {"none", "sent", "took"} /\ crashes' \in 0..MaxCrashes
      OBVIOUS
    <3>3. \A x \in receipts' \ receipts :
            \E k \in Reports, w \in {0, InputTicks} :
              \/ held # NoFrame /\ x = Sent(k, held.id, held.sequence, w)
              \/ active # Idle /\ x = Sent(k, active.id, active.sequence, w)
      OBVIOUS
    <3>. QED BY <3>1, <3>2, <3>3
  <2>. QED BY <2>1, <2>2, <2>3 DEF Steps
<1>16. CASE StopRejected
  <2>. USE <1>16 DEF StopRejected
  <2>1. LoopOK' /\ MotionIsWatched'
    OBVIOUS
  <2>2. LoopGoes
    OBVIOUS
  <2>3. Typed
    OBVIOUS
  <2>. QED BY <2>1, <2>2, <2>3 DEF Steps
<1>17. CASE Watchdog
  BY <1>17 DEF Steps, Watchdog, EnsureStop
<1>18. CASE StopTakes
  BY <1>18 DEF Steps, StopTakes
<1>19. CASE ApplyTakes
  BY <1>19 DEF Steps, ApplyTakes
<1>20. CASE \E x \in receipts : Lose(x)
  BY <1>20 DEF Steps, Lose
<1>21. CASE Crash
  <2>. USE <1>21 DEF Crash
  <2>1. LoopOK' /\ MotionIsWatched' /\ LoopGoes
    OBVIOUS
  <2>2. crashes' \in 0..MaxCrashes
    OBVIOUS
  <2>3. Typed
    BY <2>2
  <2>. QED BY <2>1, <2>3 DEF Steps
<1>22. CASE Respawn
  BY <1>22 DEF Steps, Respawn
<1>. QED BY <1>1, <1>2, <1>3, <1>4, <1>5, <1>6, <1>7, <1>8, <1>9, <1>10, <1>11,
            <1>12, <1>13, <1>14, <1>15, <1>16, <1>17, <1>18, <1>19, <1>20, <1>21, <1>22
                 DEF Local

-----------------------------------------------------------------------------
(* Steps of the platform.                                                  *)

\* What they keep to for a session the adapter knows: the number grows, and only
\* while the session is driven; an input in force is renewed by a newer number.
Goes(s) ==
  Known(s) =>
    /\ sessions'[s].status # "none" /\ sessions'[s].robot = Robot
    /\ sessions'[s].sequence >= sessions[s].sequence
    /\ Driven(sessions'[s]) => Driven(sessions[s])
    /\ sessions'[s].sequence # sessions[s].sequence => Driven(sessions[s])
    /\ ttl'[s] >= ttl[s]
    /\ ttl'[s] # ttl[s] => sessions'[s].sequence > sessions[s].sequence

\* An unfinished session stays one, unless a receipt on its way closes it.
Stays(s) == Safe(s) => Unfinished(sessions'[s])

SessionsGo ==
  \A s \in SessionIds :
    /\ Goes(s) /\ Stays(s) /\ Fresh(s)'

LEMMA SessionsGoSafe ==
  ASSUME PumpInv, SessionInv', SessionsGo, receipts' \subseteq receipts,
         UNCHANGED <<active, applyCall, motion, moving, left>>
  PROVE  /\ CommandsOK' /\ InputNeverOutlived'
         /\ \A s \in SessionIds : Safe(s) => Safe(s)'
<1>. USE DEF PumpInv
<1>1. \A s \in SessionIds :
        /\ sessions[s].sequence \in Nat /\ sessions'[s].sequence \in Nat
        /\ ttl[s] \in Nat /\ ttl'[s] \in Nat
  BY ManualSessionAssumption DEF SessionInv, SessionTypeOK, Session
<1>2. \A x \in receipts : x.id \in SessionIds /\ x.sequence \in Nat /\ x.wait \in Nat
  BY ManualSessionAssumption DEF PumpTypes, Notice
<1>3. \A s \in SessionIds : Known(s) => Known(s)'
  BY DEF SessionsGo, Goes, Known
<1>4. \A s \in SessionIds, n \in Nat : Known(s) /\ Ahead(s, n) => Ahead(s, n)'
  BY <1>1 DEF SessionsGo, Goes, Ahead
<1>5. \A s \in SessionIds : Safe(s) => Safe(s)'
  BY <1>1, <1>2, <1>3 DEF SessionsGo, Goes, Stays, Fresh, Safe, Closing
<1>6. active' # Idle => Known(active.id)'
  <2>. SUFFICES ASSUME active' # Idle PROVE Known(active.id)'
    OBVIOUS
  <2>1. PICK s \in SessionIds : s = active.id /\ active' = active
    BY DEF PumpTypes, Task
  <2>. QED BY <1>3, <2>1 DEF CommandsOK, SafeOK, Known
<1>7. applyCall' = "sent" => Safe(active.id)'
  <2>. SUFFICES ASSUME applyCall' = "sent" PROVE Safe(active.id)'
    OBVIOUS
  <2>1. PICK s \in SessionIds : s = active.id /\ active' = active
    BY FrameAndTask DEF LoopOK, Serves
  <2>. QED BY <1>5, <2>1 DEF CommandsOK, SafeOK, Safe, Known, Closing
<1>8. motion' # Still => Safe(motion.id)'
  <2>. SUFFICES ASSUME motion' # Still PROVE Safe(motion.id)'
    OBVIOUS
  <2>1. PICK s \in SessionIds : s = motion.id /\ motion' = motion
    BY DEF PumpTypes, Task
  <2>. QED BY <1>5, <2>1 DEF CommandsOK, SafeOK, Safe, Known, Closing
<1>9. \A x \in receipts' :
        /\ Known(x.id)'
        /\ x.report = "stopped" =>
             /\ Ahead(x.id, x.sequence)'
             /\ x.sequence >= sessions'[x.id].sequence => ttl'[x.id] <= x.wait
  <2>. SUFFICES ASSUME NEW x \in receipts'
       PROVE  /\ Known(x.id)'
              /\ x.report = "stopped" =>
                   /\ Ahead(x.id, x.sequence)'
                   /\ x.sequence >= sessions'[x.id].sequence => ttl'[x.id] <= x.wait
    OBVIOUS
  <2>1. PICK s \in SessionIds : s = x.id
    BY <1>2
  <2>2. x \in receipts /\ Known(s)
    BY <2>1 DEF CommandsOK, SafeOK
  <2>3. x.report = "stopped" /\ x.sequence >= sessions'[s].sequence
          => ttl'[s] <= x.wait
    BY <1>1, <1>2, <2>1, <2>2 DEF CommandsOK, SafeOK, Ahead, SessionsGo, Goes
  <2>. QED BY <1>2, <1>3, <1>4, <2>1, <2>2, <2>3
           DEF CommandsOK, SafeOK, Ahead, Known
<1>10. CommandsOK'
  BY <1>6, <1>7, <1>8, <1>9 DEF CommandsOK, SessionsGo
<1>11. InputNeverOutlived'
  <2>. SUFFICES ASSUME moving' PROVE left' <= ttl'[active'.id]
    BY DEF InputNeverOutlived
  <2>1. PICK s \in SessionIds : s = active.id /\ active' = active /\ Known(s)
    BY FrameAndTask DEF LoopOK, CommandsOK, SafeOK
  <2>2. left \in Nat /\ left <= ttl[s] /\ ttl'[s] >= ttl[s]
    BY <2>1, ManualSessionAssumption
       DEF PumpTypes, InputNeverOutlived, SessionsGo, Goes
  <2>. QED BY <1>1, <2>1, <2>2
<1>. QED BY <1>5, <1>10, <1>11

LEMMA StoppedGoes ==
  ASSUME NEW x \in Session
  PROVE  /\ ~Driven(Stopped(x)) /\ Stopped(x).robot = x.robot
         /\ Stopped(x).status = "none" <=> x.status = "none"
         /\ ~Driven(x) => Stopped(x) = x
BY DEF Stopped, Driven, Session, Status

LEMMA StopAllGoes ==
  ASSUME PumpInv, NEW S \in SUBSET SessionIds, StopAll(S), ttl' = ttl
  PROVE  SessionsGo
<1>1. SUFFICES ASSUME NEW s \in SessionIds
      PROVE  Goes(s) /\ Stays(s) /\ Fresh(s)'
  BY DEF SessionsGo
<1>2. /\ sessions[s] \in Session /\ sessions[s].sequence \in Nat /\ ttl[s] \in Nat
      /\ sessions'[s] = IF s \in S THEN Stopped(sessions[s]) ELSE sessions[s]
      /\ saved'[s] = IF s \in S /\ Driven(sessions[s])
                       THEN Stopped(sessions[s]) ELSE saved[s]
      /\ saved[s].status = "none" <=> sessions[s].status = "none"
      /\ sessions[s].status = "none" => sessions[s].robot = NoRobot
  BY ManualSessionAssumption
    
         DEF PumpInv, SafeOK, CommandsOK, Fresh, SessionInv, SessionTypeOK,
             Session, StopAll,
         SessionsAfter, SavedAfter, Halting
<1>3. Stopped(sessions[s]).sequence >= sessions[s].sequence
  BY <1>2, StoppedSession
<1>. QED BY <1>2, <1>3, StoppedSession, StoppedGoes
         DEF Goes, Stays, Fresh, Safe, Known

\* Acquiring concerns a session the adapter does not know yet.
LEMMA AcquireGoes ==
  ASSUME PumpInv, NEW q \in SessionIds, NEW r \in Robots, Acquire(q, r)
  PROVE  SessionsGo
<1>1. SUFFICES ASSUME NEW s \in SessionIds
      PROVE  Goes(s) /\ Stays(s) /\ Fresh(s)'
  BY DEF SessionsGo
<1>2. /\ sessions[s] \in Session /\ sessions[s].sequence \in Nat /\ ttl[s] \in Nat
      /\ saved[s].status = "none" <=> sessions[s].status = "none"
      /\ sessions[s].status = "none" => sessions[s].robot = NoRobot
      /\ sessions \in [SessionIds -> Session] /\ saved \in [SessionIds -> Session]
  BY ManualSessionAssumption
     DEF PumpInv, SafeOK, CommandsOK, Fresh, SessionInv, SessionTypeOK, Session
<1>3. CASE s = q
  BY <1>2, <1>3
    
         DEF Acquire, Goes, Stays, Fresh, Safe, Known, NoSessionYet,
             SessionsAfter, SavedAfter
<1>4. CASE s # q
  <2>1. /\ sessions'[s] = IF s \in Lapsed THEN Stopped(sessions[s]) ELSE sessions[s]
        /\ saved'[s] = IF s \in Lapsed /\ Driven(sessions[s])
                         THEN Stopped(sessions[s]) ELSE saved[s]
        /\ ttl' = ttl
    BY <1>2, <1>4 DEF Acquire, SessionsAfter, SavedAfter, Halting
  <2>2. Stopped(sessions[s]).sequence >= sessions[s].sequence
    BY <1>2, StoppedSession
  <2>. QED BY <1>2, <2>1, <2>2, StoppedSession, StoppedGoes
           DEF Goes, Stays, Fresh, Safe, Known
<1>. QED BY <1>3, <1>4

LEMMA PutInputGoes ==
  ASSUME PumpInv, NEW q \in SessionIds, NEW c \in 1..MaxInput,
         NEW a \in {"zero", "move"}, PutInput(q, c, a)
  PROVE  SessionsGo
<1>1. SUFFICES ASSUME NEW s \in SessionIds
      PROVE  Goes(s) /\ Stays(s) /\ Fresh(s)'
  BY DEF SessionsGo
<1>2. /\ sessions[s] \in Session /\ sessions[s].sequence \in Nat
      /\ ttl[s] \in 0..InputTicks /\ InputTicks \in Nat
      /\ saved[s].status = "none" <=> sessions[s].status = "none"
      /\ sessions[s].status = "none" => sessions[s].robot = NoRobot
      /\ sessions \in [SessionIds -> Session] /\ ttl \in [SessionIds -> 0..InputTicks]
  BY ManualSessionAssumption
     DEF PumpInv, SafeOK, CommandsOK, Fresh, SessionInv, SessionTypeOK, Session
<1>3. CASE s = q
  <2>1. /\ sessions'[s].status = sessions[s].status
        /\ sessions'[s].robot = sessions[s].robot
        /\ sessions'[s].sequence = sessions[s].sequence + 1
        /\ ttl'[s] = InputTicks /\ saved' = saved /\ Driven(sessions[s])
    BY <1>2, <1>3 DEF PutInput, Session
  <2>. QED BY <1>2, <2>1 DEF Goes, Stays, Fresh, Safe, Known, Unfinished, Driven
<1>4. CASE s # q
  <2>1. sessions'[s] = sessions[s] /\ ttl'[s] = ttl[s] /\ saved' = saved
    BY <1>2, <1>4 DEF PutInput
  <2>. QED BY <1>2, <2>1 DEF Goes, Stays, Fresh, Safe, Known
<1>. QED BY <1>3, <1>4

LEMMA LapseGoes ==
  ASSUME PumpInv, NEW q \in SessionIds, LeaseLapses(q)
  PROVE  SessionsGo
<1>1. SUFFICES ASSUME NEW s \in SessionIds
      PROVE  Goes(s) /\ Stays(s) /\ Fresh(s)'
  BY DEF SessionsGo
<1>2. /\ sessions[s] \in Session /\ sessions[s].sequence \in Nat /\ ttl[s] \in Nat
      /\ saved[s].status = "none" <=> sessions[s].status = "none"
      /\ sessions[s].status = "none" => sessions[s].robot = NoRobot
      /\ sessions \in [SessionIds -> Session]
  BY ManualSessionAssumption
     DEF PumpInv, SafeOK, CommandsOK, Fresh, SessionInv, SessionTypeOK, Session
<1>3. /\ sessions'[s].status = sessions[s].status
      /\ sessions'[s].robot = sessions[s].robot
      /\ sessions'[s].sequence = sessions[s].sequence
      /\ ttl' = ttl /\ saved' = saved
  BY <1>2 DEF LeaseLapses, Session
<1>. QED BY <1>2, <1>3 DEF Goes, Stays, Fresh, Safe, Known, Unfinished, Driven

\* A receipt on its way ends a session only when it is its closing one.
LEMMA ReceiptGoes ==
  ASSUME PumpInv, NEW x \in receipts, Receipt(x.id, x.sequence, x.report)
  PROVE  SessionsGo
<1> DEFINE q == x.id
<1>1. SUFFICES ASSUME NEW s \in SessionIds
      PROVE  Goes(s) /\ Stays(s) /\ Fresh(s)'
  BY DEF SessionsGo
<1>2. /\ sessions[s] \in Session /\ sessions[s].sequence \in Nat /\ ttl[s] \in Nat
      /\ saved[s].status = "none" <=> sessions[s].status = "none"
      /\ sessions[s].status = "none" => sessions[s].robot = NoRobot
      /\ sessions \in [SessionIds -> Session] /\ saved \in [SessionIds -> Session]
      /\ x.report \in Reports /\ q \in SessionIds
  BY ManualSessionAssumption
    
         DEF PumpInv, SafeOK, CommandsOK, Fresh, SessionInv, SessionTypeOK,
             Session, PumpTypes,
         Notice
<1>3. ttl' = ttl
  BY DEF Receipt
<1>4. CASE s = q
  <2> DEFINE y == sessions'[s]
  <2>1. /\ y.robot = sessions[s].robot /\ y.sequence = sessions[s].sequence
        /\ \/ y.status \in {"failed", sessions[s].status}
           \/ y.status = "closed" /\ Closing(x, s)
           \/ y.status = "active" /\ sessions[s].status = "starting"
    BY <1>2, <1>4 DEF Receipt, Closes, Closing, Session
  <2>2. \/ saved'[s] = sessions'[s]
        \/ saved'[s] = saved[s] /\ y.status = sessions[s].status
    BY <1>2, <1>4 DEF Receipt, Recorded, Session
  <2>3. Unfinished(sessions[s])
    BY <1>4 DEF Receipt, Accepts
  <2>. QED BY <1>2, <1>3, <2>1, <2>2, <2>3
           DEF Goes, Stays, Fresh, Safe, Known, Unfinished, Driven
<1>5. CASE s # q
  <2>1. sessions'[s] = sessions[s] /\ saved'[s] = saved[s]
    BY <1>2, <1>5 DEF Receipt
  <2>. QED BY <1>2, <1>3, <2>1 DEF Goes, Stays, Fresh, Safe, Known
<1>. QED BY <1>4, <1>5

LEMMA FrameStays ==
  ASSUME PumpInv, SessionInv', SessionsGo, held' = held,
         \A s \in SessionIds : Safe(s) => Safe(s)'
  PROVE  FrameOK'
<1>. SUFFICES ASSUME held # NoFrame PROVE FrameOK'
  BY DEF FrameOK
<1>1. PICK s \in SessionIds : s = held.id
  BY FrameAndTask
<1>2. /\ sessions[s].sequence \in Nat /\ sessions'[s].sequence \in Nat
      /\ ttl[s] \in Nat /\ ttl'[s] \in Nat
      /\ held.sequence \in Nat /\ held.remaining \in Nat
  BY ManualSessionAssumption, FrameAndTask
     DEF PumpInv, SessionInv, SessionTypeOK, Session
<1>3. /\ Known(s) /\ Ahead(s, held.sequence) /\ held.remaining <= ttl[s]
      /\ held.moves /\ held.remaining > 0 => Safe(s)'
  BY <1>1 DEF PumpInv, SafeOK, FrameOK
<1>. QED BY <1>1, <1>2, <1>3
         DEF FrameOK, SessionsGo, Goes, Known, Ahead, Safe, Closing

\* The loop waits where it waited.
LEMMA LoopStays ==
  ASSUME PumpInv, UNCHANGED <<pc, held, active, lastSequence, moving, left, failed,
                              Vendor, crashes>>, receipts' \subseteq receipts
  PROVE  PumpTypes' /\ LoopOK' /\ MotionIsWatched'
BY DEF PumpInv, PumpTypes, LoopOK, MotionIsWatched, Vendor

LEMMA PlatformKeeps ==
  ASSUME PumpInv, Platform, UNCHANGED pumpVars
  PROVE  PumpInv'
<1>1. SessionInv'
  BY StepKeepsInv DEF PumpInv, Platform, SessionNext
<1>2. SessionsGo
  <2>1. CASE Operator
    BY <2>1, AcquireGoes, PutInputGoes, StopAllGoes DEF Operator, Release
  <2>2. CASE SessionTime
    BY <2>2, LapseGoes, StopAllGoes DEF SessionTime, Expire, Lapsed
  <2>3. CASE Shutdown
    BY <2>3, StopAllGoes DEF Shutdown
  <2>. QED BY <2>1, <2>2, <2>3 DEF Platform
<1>3. /\ UNCHANGED <<pc, held, active, lastSequence, moving, left, failed, Vendor,
                     crashes, receipts>>
      /\ UNCHANGED <<active, applyCall, motion, moving, left>> /\ held' = held
      /\ receipts' \subseteq receipts
  BY DEF pumpVars, Vendor
<1>. QED BY <1>1, <1>2, <1>3, SessionsGoSafe, FrameStays, LoopStays
         DEF PumpInv, SafeOK

\* A receipt that is refused changes nothing.
LEMMA DeliverKeeps ==
  ASSUME PumpInv, NEW x \in receipts, Deliver(x)
  PROVE  PumpInv'
<1>1. x.id \in SessionIds /\ x.sequence \in Nat /\ x.report \in Reports
  BY DEF PumpInv, PumpTypes, Notice
<1>2. SessionInv' /\ SessionsGo
  <2>1. CASE Receipt(x.id, x.sequence, x.report)
    BY <1>1, <2>1, ReceiptKeepsInv, ReceiptGoes DEF PumpInv
  <2>2. CASE UNCHANGED sessionVars
    <3>1. SessionInv'
      BY <2>2, StepKeepsInv DEF PumpInv
    <3>2. \A s \in SessionIds : sessions[s].sequence \in Nat /\ ttl[s] \in Nat
      BY ManualSessionAssumption DEF PumpInv, SessionInv, SessionTypeOK, Session
    <3>3. UNCHANGED <<sessions, saved, ttl>>
      BY <2>2 DEF sessionVars
    <3>. QED BY <3>1, <3>2, <3>3
            
                 DEF PumpInv, SafeOK, CommandsOK, SessionsGo, Goes, Stays,
                     Fresh, Safe, Known
  <2>. QED BY <2>1, <2>2 DEF Deliver
<1>3. /\ UNCHANGED <<pc, held, active, lastSequence, moving, left, failed, Vendor,
                     crashes>>
      /\ UNCHANGED <<active, applyCall, motion, moving, left>> /\ held' = held
      /\ receipts' \subseteq receipts
  BY DEF Deliver, Vendor
<1>. QED BY <1>2, <1>3, SessionsGoSafe, FrameStays, LoopStays DEF PumpInv, SafeOK

\* The frame is of an open session.  A confirmation still on its way could close
\* it only after the input ran out, for the loop polls when receipts are settled.
LEMMA PollKeeps ==
  ASSUME PumpInv, NEW busy \in BOOLEAN, Poll(busy)
  PROVE  PumpInv'
<1>1. /\ StopAll(Lapsed) /\ Lapsed \in SUBSET SessionIds
      /\ UNCHANGED <<ttl, controlLocks>>
  BY LocksStand DEF Poll, Lapsed, PumpInv
<1>2. SessionInv' /\ SessionsGo
  BY <1>1, StopKeepsInv, StopAllGoes DEF PumpInv
<1>3. UNCHANGED <<active, lastSequence, moving, left, failed, Vendor, receipts,
                  crashes, stopCall, watching, applyCall, motion>>
  BY DEF Poll, Vendor
<1>4. /\ CommandsOK' /\ InputNeverOutlived'
      /\ \A s \in SessionIds : Safe(s) => Safe(s)'
  BY <1>2, <1>3, SessionsGoSafe
<1>5. CASE held' = NoFrame
  <2>1. PumpTypes' /\ LoopOK' /\ MotionIsWatched'
    BY <1>3, <1>5 DEF Poll, PumpInv, PumpTypes, LoopOK, MotionIsWatched, Places,
       Serves, Awaits, Waiting
  <2>. QED BY <1>2, <1>4, <1>5, <2>1 DEF PumpInv, SafeOK, FrameOK
<1>6. CASE held' # NoFrame
  <2>1. PICK s \in Current(Robot) :
          held' = FrameOf(SessionsAfter(Lapsed)[s], s, InputsAfter(Lapsed)[s])
    BY <1>6 DEF Poll
  <2>2. /\ s \in SessionIds /\ Unfinished(sessions[s]) /\ Known(s)
        /\ sessions[s].status # "none"
    BY DEF Current, Known, Unfinished
  <2>3. /\ sessions'[s] \in Session /\ sessions'[s].sequence \in Nat
        /\ sessions'[s].status \in Status
        /\ ttl[s] \in 0..InputTicks /\ 0 \in 0..InputTicks /\ sessions[s].sequence \in Nat
    BY <1>2, <2>2, ManualSessionAssumption
       DEF PumpInv, SessionInv, SessionTypeOK, Session
  <2>4. /\ held'.id = s /\ held'.sequence = sessions'[s].sequence
        /\ held'.status = sessions'[s].status /\ held'.moves \in BOOLEAN
        /\ held'.remaining \in {0, ttl[s]} /\ held' \in Frame
        /\ held'.moves => ttl[s] > 0 /\ sessions'[s].status = "active"
    BY <1>1, <2>1, <2>2, <2>3 DEF StopAll, FrameOf, Frame
  <2>5. held'.moves /\ held'.remaining > 0 => Safe(s)
    <3>. SUFFICES ASSUME held'.moves, NEW x \in receipts, Closing(x, s) PROVE FALSE
      BY <2>2 DEF Safe
    <3>1. x.wait = 0 /\ x.wait >= ttl[s]
      BY DEF Poll, Rested, Closing, PumpInv, SafeOK, CommandsOK
    <3>. QED BY <2>3, <2>4, <3>1
  <2>6. FrameOK'
    <3>1. Known(s)' /\ Ahead(s, held.sequence)' /\ held'.remaining <= ttl'[s]
      BY <1>1, <1>2, <2>2, <2>3, <2>4 DEF SessionsGo, Goes, Known, Ahead
    <3>2. held'.moves /\ held'.remaining > 0 => Safe(s)'
      BY <1>4, <2>2, <2>5
    <3>. QED BY <2>4, <3>1, <3>2 DEF FrameOK, Known, Ahead, Safe, Closing
  <2>7. PumpTypes' /\ LoopOK' /\ MotionIsWatched'
    BY <1>3, <2>4 DEF Poll, PumpInv, PumpTypes, LoopOK, MotionIsWatched, Places,
       Serves, Awaits, Waiting
  <2>. QED BY <1>2, <1>4, <2>6, <2>7 DEF PumpInv, SafeOK
<1>. QED BY <1>5, <1>6

\* Everything grows older at the same pace.
LEMMA ElapseKeeps ==
  ASSUME PumpInv, Elapse
  PROVE  PumpInv'
<1>. USE DEF PumpInv
<1>1. \A n \in 0..InputTicks :
        /\ Aged(n) \in 0..InputTicks /\ Aged(n) <= n
        /\ \A m \in 0..InputTicks : n <= m => Aged(n) <= Aged(m)
  BY ManualSessionAssumption DEF Aged
<1>2. /\ UNCHANGED <<sessions, saved, inputs, controlLocks, pc, active, lastSequence,
                     moving, failed, stopCall, watching, applyCall, motion, crashes>>
      /\ ttl' = [s \in SessionIds |-> Aged(ttl[s])] /\ left' = Aged(left)
      /\ receipts' = {[x EXCEPT !.wait = Aged(x.wait)] : x \in receipts}
  BY DEF Elapse, Vendor
<1>3. ttl \in [SessionIds -> 0..InputTicks] /\ left \in 0..InputTicks
  BY DEF SessionInv, SessionTypeOK, PumpTypes
<1>4. SessionInv'
  BY <1>1, <1>2, <1>3 DEF SessionInv, SessionTypeOK, LockIsTheSession,
     RowsKeepReservations
<1>5. /\ held = NoFrame <=> held' = NoFrame
      /\ held # NoFrame =>
           /\ held' \in Frame /\ held'.id = held.id /\ held'.sequence = held.sequence
           /\ held'.moves = held.moves /\ held'.remaining = Aged(held.remaining)
           /\ held.remaining \in 0..InputTicks
  <2>. SUFFICES ASSUME held # NoFrame
       PROVE  /\ held' \in Frame /\ held'.id = held.id /\ held'.sequence = held.sequence
              /\ held'.moves = held.moves /\ held'.remaining = Aged(held.remaining)
              /\ held.remaining \in 0..InputTicks /\ held' # NoFrame
    BY DEF Elapse
  <2>1. held \in Frame /\ held' = [held EXCEPT !.remaining = Aged(held.remaining)]
    BY DEF Elapse, PumpTypes
  <2>2. held' \in Frame /\ held'.id \in SessionIds
    BY <1>1, <2>1 DEF Frame
  <2>. QED BY <2>1, <2>2, ManualSessionAssumption DEF Frame, NoFrame
<1>6. \A y \in receipts' : \E x \in receipts :
        /\ y.id = x.id /\ y.sequence = x.sequence /\ y.report = x.report
        /\ y.wait = Aged(x.wait) /\ y \in Notice /\ x.wait \in 0..InputTicks
  BY <1>1, <1>2 DEF PumpTypes, Notice
<1>7. PumpTypes' /\ LoopOK' /\ MotionIsWatched'
  BY <1>1, <1>2, <1>3, <1>5, <1>6
     DEF PumpTypes, LoopOK, MotionIsWatched, Serves
<1>8. \A s \in SessionIds : Safe(s) => Safe(s)'
  BY <1>2, <1>6 DEF Safe, Known, Closing
<1>9. FrameOK'
  <2>. SUFFICES ASSUME held' # NoFrame PROVE FrameOK'
    BY DEF FrameOK
  <2>1. PICK s \in SessionIds : s = held.id
    BY <1>5, FrameAndTask
  <2>2. held'.remaining > 0 => held.remaining > 0
    BY <1>5, ManualSessionAssumption DEF Aged
  <2>3. held'.remaining <= ttl'[s]
    BY <1>1, <1>2, <1>3, <1>5, <2>1 DEF SafeOK, FrameOK
  <2>. QED BY <1>2, <1>5, <1>8, <2>1, <2>2, <2>3
           DEF SafeOK, FrameOK, Known, Ahead, Safe, Closing
<1>10. CommandsOK'
  <2>1. active' # Idle => Known(active.id)'
    BY <1>2 DEF SafeOK, CommandsOK, Known
  <2>2. applyCall' = "sent" => Safe(active.id)'
    BY <1>2, <1>8, FrameAndTask
         DEF SafeOK, CommandsOK, Safe, Known, Closing, LoopOK,
       Serves
  <2>3. motion' # Still => Safe(motion.id)'
    BY <1>2, <1>8 DEF SafeOK, CommandsOK, Safe, Known, Closing, PumpTypes, Task
  <2>4. \A y \in receipts' :
          /\ Known(y.id)'
          /\ y.report = "stopped" =>
               /\ Ahead(y.id, y.sequence)'
               /\ y.sequence >= sessions'[y.id].sequence => ttl'[y.id] <= y.wait
    <3>. SUFFICES ASSUME NEW y \in receipts'
         PROVE  /\ Known(y.id)'
                /\ y.report = "stopped" =>
                     /\ Ahead(y.id, y.sequence)'
                     /\ y.sequence >= sessions'[y.id].sequence => ttl'[y.id] <= y.wait
      OBVIOUS
    <3>1. PICK x \in receipts :
            /\ y.id = x.id /\ y.sequence = x.sequence /\ y.report = x.report
            /\ y.wait = Aged(x.wait) /\ y \in Notice /\ x.wait \in 0..InputTicks
      BY <1>6
    <3>. QED BY <1>1, <1>2, <1>3, <3>1
             DEF SafeOK, CommandsOK, Known, Ahead, Notice
  <2>. QED BY <1>2, <2>1, <2>2, <2>3, <2>4 DEF SafeOK, CommandsOK, Fresh
<1>11. InputNeverOutlived'
  BY <1>1, <1>2, <1>3, FrameAndTask DEF InputNeverOutlived, LoopOK
<1>. QED BY <1>4, <1>7, <1>9, <1>10, <1>11 DEF SafeOK

\* A restart may take the numbers back; every open session is stopped by it, and
\* no receipt survives it.
LEMMA PlatformRestartKeeps ==
  ASSUME PumpInv, PlatformRestart
  PROVE  PumpInv'
<1>. USE DEF PumpInv
<1>1. /\ UNCHANGED <<pc, held, active, lastSequence, moving, left, failed, Vendor,
                     crashes, motion, applyCall, ttl>>
      /\ RestartSessions /\ receipts' = {}
  BY DEF PlatformRestart, RestartSessions, Vendor
<1>2. SessionInv'
  BY <1>1, RestartKeepsInv
<1>3. PumpTypes' /\ LoopOK' /\ MotionIsWatched'
  BY <1>1, LoopStays
<1>4. \A s \in SessionIds :
        /\ Known(s) => sessions'[s].status # "none" /\ sessions'[s].robot = Robot
        /\ ~Driven(sessions'[s])
        /\ Unfinished(sessions[s]) <=> Unfinished(sessions'[s])
        /\ saved'[s] = sessions'[s] /\ Fresh(s)'
  <2>. SUFFICES ASSUME NEW s \in SessionIds
       PROVE  /\ Known(s) => sessions'[s].status # "none" /\ sessions'[s].robot = Robot
              /\ ~Driven(sessions'[s])
              /\ Unfinished(sessions[s]) <=> Unfinished(sessions'[s])
              /\ saved'[s] = sessions'[s] /\ Fresh(s)'
    OBVIOUS
  <2>1. /\ saved[s] \in Session /\ sessions'[s] = Restored(saved[s])
        /\ saved'[s] = sessions'[s] /\ saved[s].robot = sessions[s].robot
        /\ Unfinished(saved[s]) <=> Unfinished(sessions[s])
        /\ saved[s].status = "none" <=> sessions[s].status = "none"
        /\ sessions[s].status = "none" => sessions[s].robot = NoRobot
    BY <1>1 DEF RestartSessions, SessionInv, SessionTypeOK, RowsKeepReservations,
       SafeOK, CommandsOK, Fresh
  <2>2. /\ ~Driven(Restored(saved[s]))
        /\ Restored(saved[s]).status = "none" <=> saved[s].status = "none"
    BY <2>1 DEF Restored, Unfinished, Driven, Session
  <2>. QED BY <2>1, <2>2, RestoredSession DEF Known, Fresh
<1>5. FrameOK'
  BY <1>1, <1>4, FrameAndTask DEF SafeOK, FrameOK, Known, Ahead, Safe, Closing
<1>6. CommandsOK'
  BY <1>1, <1>4, FrameAndTask DEF SafeOK, CommandsOK, Known, Ahead, Safe, Closing,
     LoopOK, Serves, PumpTypes, Task
<1>7. InputNeverOutlived'
  BY <1>1 DEF InputNeverOutlived
<1>. QED BY <1>2, <1>3, <1>5, <1>6, <1>7 DEF SafeOK

-----------------------------------------------------------------------------
(* The whole.                                                              *)

LEMMA PumpStarts == Init => PumpInv
<1>. SUFFICES ASSUME Init PROVE PumpInv
  OBVIOUS
<1>1. SessionInv
  BY InitInv DEF Init
<1>2. PumpTypes
  <2>1. 0 \in 0..InputTicks /\ 0 \in 0..MaxCrashes
    BY ManualSessionAssumption, ControlPumpAssumption
  <2>. QED BY <2>1 DEF Init, PumpTypes, Places
<1>3. LoopOK /\ MotionIsWatched /\ InputNeverOutlived
  BY DEF Init, LoopOK, MotionIsWatched, InputNeverOutlived, Serves, Awaits, Waiting,
     Idle, Still
<1>4. SafeOK
  BY DEF Init, SessionInit, SafeOK, FrameOK, CommandsOK, Fresh, NoSessionYet, Still
<1>. QED BY <1>1, <1>2, <1>3, <1>4 DEF PumpInv

LEMMA LocalKeeps ==
  ASSUME PumpInv, Local
  PROVE  PumpInv' /\ LoopGoes
<1>1. Steps
  BY LocalSteps
<1>2. SessionInv' /\ PumpTypes'
  BY <1>1, StepKeepsInv, StepsAreTyped DEF PumpInv, Steps, LoopGoes
<1>. QED BY <1>1, <1>2, LoopGoesSafe DEF PumpInv, Steps

LEMMA NextIs ==
  ASSUME Next
  PROVE  \/ Local \/ PlatformRestart \/ Elapse
         \/ Platform /\ UNCHANGED pumpVars
         \/ \E busy \in BOOLEAN : Poll(busy)
         \/ \E x \in receipts : Deliver(x)
BY DEF Next, Loop, Polled, VendorNext, Network, Local

LEMMA PumpSteps == PumpInv /\ [Next]_vars => PumpInv'
<1>. SUFFICES ASSUME PumpInv, [Next]_vars PROVE PumpInv'
  OBVIOUS
<1>1. CASE Next
  BY <1>1, NextIs, LocalKeeps, PlatformRestartKeeps, ElapseKeeps, PlatformKeeps,
     PollKeeps, DeliverKeeps
<1>2. CASE UNCHANGED vars
  BY <1>2 DEF vars, pumpVars, sessionVars, PumpInv, SessionInv, SessionTypeOK,
     LockIsTheSession, RowsKeepReservations, PumpTypes, LoopOK, SafeOK, FrameOK,
     CommandsOK, Fresh, Known, Ahead, Safe, Closing, InputNeverOutlived, MotionIsWatched
<1>. QED BY <1>1, <1>2

LEMMA PumpInvHolds == Spec => []PumpInv
  BY PumpStarts, PumpSteps, PTL DEF Spec

LEMMA PumpInvImplies == PumpInv => PumpTypeOK /\ NoRunaway
<1>. SUFFICES ASSUME PumpInv PROVE PumpTypeOK /\ NoRunaway
  OBVIOUS
<1>. USE DEF PumpInv
<1>1. PumpTypeOK
  BY DEF PumpTypes, PumpTypeOK, SessionInv, Frame, Task, Notice, Doing, Idle, Still
<1>2. ReleasedMeansStill
  BY DEF SafeOK, CommandsOK, Safe, ReleasedMeansStill
<1>. QED BY <1>1, <1>2 DEF NoRunaway

\* The composition keeps the type invariant of all its tables.
THEOREM PumpTypeCorrect == Spec => []PumpTypeOK
  BY PumpInvHolds, PumpInvImplies, PTL

\* No runaway, for any number of robots and sessions, any length of an input, and
\* any number of crashes, restarts, lost receipts and failed calls: a robot moves
\* only under an open reservation, watched, and never longer than its input is in
\* force.
THEOREM NoRunawayEver == Spec => []NoRunaway
  BY PumpInvHolds, PumpInvImplies, PTL

\* The adapters of the composition do not disturb what the sessions promise.
THEOREM DrivenExclusively == Spec => [](LockIsTheSession /\ RowsKeepReservations)
  BY PumpInvHolds, PTL DEF PumpInv, SessionInv

-----------------------------------------------------------------------------
(* The composition implements Reservation.                                 *)

Holder == controlLocks[Robot]
Spent  == {s \in SessionIds : sessions[s].robot = Robot}

\* A robot moves for the session that reserves it.
LEMMA MoverHolds ==
  ASSUME PumpInv, NEW s \in SessionIds, Safe(s)
  PROVE  Holder = s /\ Holder # NoSession
BY ManualSessionAssumption, ControlPumpAssumption
   DEF PumpInv, SessionInv, LockIsTheSession, Safe, Known, Holder

LEMMA MotionIs ==
  ASSUME PumpInv
  PROVE  motion # Still => motion.id \in SessionIds /\ Holder = motion.id
BY MoverHolds DEF PumpInv, PumpTypes, Task, SafeOK, CommandsOK

\* Sessions that keep their robot and stay as open as they are keep every lock.
SameHolding ==
  \A s \in SessionIds :
    /\ sessions'[s].robot = sessions[s].robot
    /\ Unfinished(sessions'[s]) <=> Unfinished(sessions[s])

LEMMA HolderStays ==
  ASSUME SessionInv, SessionInv', SameHolding
  PROVE  UNCHANGED <<Holder, Spent>>
<1>1. /\ Robot \in Robots /\ Holder \in SessionIds \cup {NoSession}
      /\ Holder' \in SessionIds \cup {NoSession}
  BY ControlPumpAssumption DEF SessionInv, SessionTypeOK, Holder
<1>2. \A s \in SessionIds : Holder = s <=> Holder' = s
  BY <1>1 DEF SessionInv, LockIsTheSession, SameHolding, Holder
<1>. QED BY <1>1, <1>2 DEF Spent, SameHolding

LEMMA StopAllHolds ==
  ASSUME SessionInv, NEW S \in SUBSET SessionIds, StopAll(S)
  PROVE  SameHolding
BY StoppedSession
   DEF SameHolding, SessionInv, SessionTypeOK, StopAll, SessionsAfter

\* What a step does to the reservation.
Promise ==
  \/ \E s \in SessionIds :
       /\ Holder = NoSession /\ s \notin Spent
       /\ Holder' = s /\ Spent' = Spent \cup {s} /\ motion'.id = motion.id
  \/ /\ Holder # NoSession
     /\ motion'.id \in {Holder, NoSession} /\ UNCHANGED <<Holder, Spent>>
  \/ /\ Holder # NoSession /\ motion.id = NoSession
     /\ Holder' = NoSession /\ motion'.id = motion.id /\ UNCHANGED Spent
  \/ motion'.id = motion.id /\ UNCHANGED <<Holder, Spent>>

LEMMA LocalPromise ==
  ASSUME PumpInv, Local
  PROVE  Promise
<1>1. LoopGoes /\ UNCHANGED <<Holder, Spent>>
  BY LocalKeeps DEF LoopGoes, sessionVars, Holder, Spent
<1>2. CASE applyCall = "sent" /\ motion' = active
  <2>1. active.id \in SessionIds /\ Safe(active.id)
    BY <1>2, FrameAndTask DEF PumpInv, SafeOK, CommandsOK, LoopOK, Serves
  <2>. QED BY <1>1, <1>2, <2>1, MoverHolds DEF Promise
<1>3. CASE motion' = Still
  <2>1. motion'.id = NoSession
    BY <1>3 DEF Still, Idle
  <2>2. CASE motion = Still
    BY <1>1, <1>3, <2>2 DEF Promise
  <2>3. CASE motion # Still
    BY <1>1, <2>1, <2>3, MotionIs, ManualSessionAssumption DEF Promise
  <2>. QED BY <2>2, <2>3
<1>4. CASE motion' = motion
  BY <1>1, <1>4 DEF Promise
<1>. QED BY <1>1, <1>2, <1>3, <1>4 DEF LoopGoes

\* A reservation is made of a free robot, for a session that never held it.
LEMMA AcquirePromise ==
  ASSUME PumpInv, NEW s \in SessionIds, NEW r \in Robots, Acquire(s, r),
         motion' = motion
  PROVE  Promise
<1>. USE DEF PumpInv
<1>1. /\ sessions \in [SessionIds -> Session] /\ Robot \in Robots
      /\ controlLocks \in [Robots -> SessionIds \cup {NoSession}]
  BY ControlPumpAssumption DEF SessionInv, SessionTypeOK
<1>2. controlLocks' = [controlLocks EXCEPT ![r] = s]
  BY LocksStand DEF Acquire
<1>3. \A t \in SessionIds : t # s => sessions'[t].robot = sessions[t].robot
  BY <1>1, StoppedSession DEF Acquire, SessionsAfter
<1>4. sessions'[s].robot = r /\ sessions[s].robot = NoRobot /\ NoRobot # Robot
  BY <1>1, ManualSessionAssumption
     DEF Acquire, SessionsAfter, NoSessionYet, SafeOK, CommandsOK, Fresh
<1>5. CASE r = Robot
  <2>1. Holder = NoSession
    BY <1>1, <1>5 DEF Acquire, Current, SessionInv, LockIsTheSession, Holder
  <2>2. Holder' = s /\ s \notin Spent /\ Spent' = Spent \cup {s}
    BY <1>1, <1>2, <1>3, <1>4, <1>5 DEF Holder, Spent
  <2>. QED BY <2>1, <2>2 DEF Promise
<1>6. CASE r # Robot
  BY <1>1, <1>2, <1>3, <1>4, <1>6 DEF Holder, Spent, Promise
<1>. QED BY <1>5, <1>6

LEMMA PlatformPromise ==
  ASSUME PumpInv, Platform, UNCHANGED pumpVars
  PROVE  Promise
<1>1. SessionInv /\ SessionInv' /\ motion' = motion
  BY PlatformKeeps DEF PumpInv, pumpVars
<1>2. ASSUME SameHolding PROVE Promise
  BY <1>1, <1>2, HolderStays DEF Promise
<1>3. ASSUME NEW s \in SessionIds, NEW r \in Robots, Acquire(s, r) PROVE Promise
  BY <1>1, <1>3, AcquirePromise
<1>4. ASSUME NEW s \in SessionIds, NEW c \in 1..MaxInput,
             NEW a \in {"zero", "move"}, PutInput(s, c, a)
      PROVE  SameHolding
  BY <1>1, <1>4
     DEF PutInput, SameHolding, SessionInv, SessionTypeOK, Session, Unfinished
<1>5. ASSUME NEW s \in SessionIds, LeaseLapses(s) PROVE SameHolding
  BY <1>1, <1>5
     DEF LeaseLapses, SameHolding, SessionInv, SessionTypeOK, Session, Unfinished
<1>6. ASSUME NEW s \in SessionIds, Release(s) PROVE SameHolding
  BY <1>1, <1>6, StopAllHolds DEF Release
<1>7. Shutdown \/ Expire => SameHolding
  BY <1>1, StopAllHolds DEF Shutdown, Expire, Lapsed
<1>. QED BY <1>2, <1>3, <1>4, <1>5, <1>6, <1>7 DEF Platform, Operator, SessionTime

\* The robot stands when a receipt gives it free.
LEMMA DeliverPromise ==
  ASSUME PumpInv, NEW x \in receipts, Deliver(x)
  PROVE  Promise
<1>. USE DEF PumpInv
<1> DEFINE s == x.id
<1>1. /\ SessionInv /\ SessionInv' /\ motion' = motion
      /\ s \in SessionIds /\ Known(s) /\ Robot \in Robots
      /\ sessions \in [SessionIds -> Session]
      /\ controlLocks \in [Robots -> SessionIds \cup {NoSession}]
  BY DeliverKeeps, ControlPumpAssumption
     DEF Deliver, Vendor, PumpTypes, Notice, SafeOK, CommandsOK, SessionInv,
         SessionTypeOK
<1>2. CASE UNCHANGED sessionVars
  BY <1>1, <1>2 DEF Promise, sessionVars, Holder, Spent
<1>3. CASE Receipt(s, x.sequence, x.report)
  <2>1. Holder = s /\ sessions[s].robot = Robot /\ Unfinished(sessions[s])
    BY <1>1, <1>3
       DEF Receipt, Accepts, Known, SessionInv, LockIsTheSession, Holder
  <2>2. Spent' = Spent
    BY <1>1, <1>3 DEF Receipt, Spent, Session
  <2>3. CASE Closes(sessions[s], x.sequence, x.report)
    <3>1. Closing(x, s)
      BY <1>1, <2>3 DEF Closes, Closing, Session
    <3>2. motion = Still
      BY <2>1, <3>1, MotionIs DEF SafeOK, CommandsOK, Safe
    <3>3. Holder' = NoSession
      BY <1>1, <1>3, <2>1, <2>3 DEF Receipt, Closes, Reports, Holder
    <3>. QED BY <1>1, <2>1, <2>2, <3>2, <3>3, ManualSessionAssumption
             DEF Promise, Still, Idle
  <2>4. CASE ~Closes(sessions[s], x.sequence, x.report)
    <3>1. Holder' = Holder
      BY <1>1, <1>3, <2>1, <2>4 DEF Receipt, Unfinished, Holder
    <3>. QED BY <1>1, <2>2, <3>1 DEF Promise
  <2>. QED BY <2>3, <2>4
<1>. QED BY <1>2, <1>3 DEF Deliver

LEMMA NextPromise == PumpInv /\ [Next]_vars => Promise
<1>. SUFFICES ASSUME PumpInv, [Next]_vars PROVE Promise
  OBVIOUS
<1>1. ASSUME SameHolding, motion' = motion PROVE Promise
  BY <1>1, PumpSteps, HolderStays DEF PumpInv, Promise
<1>2. ASSUME UNCHANGED <<sessions, motion>> PROVE Promise
  BY <1>1, <1>2 DEF SameHolding
<1>3. CASE PlatformRestart
  <2>1. SameHolding
    BY <1>3, RestoredSession
       DEF PlatformRestart, RestartSessions, SameHolding, PumpInv, SessionInv,
           SessionTypeOK, RowsKeepReservations
  <2>. QED BY <1>1, <1>3, <2>1 DEF PlatformRestart, Vendor
<1>4. CASE \E busy \in BOOLEAN : Poll(busy)
  BY <1>1, <1>4, StopAllHolds DEF Poll, Vendor, Lapsed, PumpInv
<1>5. CASE Elapse
  BY <1>2, <1>5 DEF Elapse, Vendor
<1>6. CASE UNCHANGED vars
  BY <1>2, <1>6 DEF vars, sessionVars, pumpVars
<1>. QED BY <1>3, <1>4, <1>5, <1>6, NextIs, LocalPromise, PlatformPromise,
            DeliverPromise

\* For any number of robots and sessions the platform, the adapter and the robot
\* together keep the promise of Reservation: one holder at a time, motion for the
\* holder only, hand-over at rest.
THEOREM ReservationKept == Spec => KeepsReservation
<1>1. Init => R!ReservationInit
  BY ManualSessionAssumption, ControlPumpAssumption
     DEF Init, SessionInit, R!ReservationInit, NoSessionYet, Still, Idle
<1>2. PumpInv /\ [Next]_vars => [R!ReservationNext]_(R!reservationVars)
  BY NextPromise
     DEF Promise, Holder, Spent, R!ReservationNext, R!Reserve, R!Drive, R!Hand,
         R!reservationVars
<1>. QED BY <1>1, <1>2, PumpInvHolds, PTL DEF Spec, KeepsReservation,
            R!ReservationSpec

-----------------------------------------------------------------------------
(* The panel.  LetGoMeansStill speaks of what the panel knows and of what   *)
(* the platform holds, and is not inductive.  It needs what lies between    *)
(* the two: every input of the token on its way carries a number the panel  *)
(* has sent, none that moves is newer than the last key-up, and an answer   *)
(* that accepted an input of a driven session names no number the session   *)
(* has not reached.  A session granted anew brings none of these along.     *)


\* An input is in force in a driven session only, and a session that was
\* acquired has a row.
InputsAreDriven ==
  \A s \in SessionIds : /\ inputs[s] # "none" => Driven(sessions[s])
                        /\ saved[s].status = "none" => sessions[s].status = "none"

Acquired(s) == sessions[s].status # "none"

AsksWithoutToken == asking # "no" => token = NoSession
TokenCounts ==
  token # NoSession =>
    /\ Acquired(token) /\ sessions[token].client <= panelSeq
    /\ saved[token].client <= panelSeq
    /\ Driven(sessions[token]) => heard <= sessions[token].client
CallsCount ==
  \A c \in calls : Acquired(c.s) /\ (c.s = token => c.n <= panelSeq)
AnswersTrue ==
  \A a \in answers :
    /\ Acquired(a.s)
    /\ a.said \in Taken /\ Driven(sessions[a.s]) => a.n <= sessions[a.s].client
GrantIsFresh ==
  asking \in SessionIds =>
    /\ Acquired(asking) /\ sessions[asking].client = 0 /\ saved[asking].client = 0
    /\ inputs[asking] = "none"
    /\ \A c \in calls : c.s # asking
StillAfterKeyUp ==
  token # NoSession /\ axes = "zero" =>
    /\ \A c \in calls : c.s = token /\ c.axes = "move" => c.n < letGo
    /\ inputs[token] = "move" => sessions[token].client < letGo

PanelFacts ==
  /\ AsksWithoutToken /\ TokenCounts /\ CallsCount
  /\ AnswersTrue /\ GrantIsFresh /\ StillAfterKeyUp

PanelType ==
  /\ open \in BOOLEAN /\ inFlight \in BOOLEAN
  /\ asking \in {"no", "asked"} \cup SessionIds
  /\ token \in SessionIds \cup {NoSession} /\ axes \in {"zero", "move"}
  /\ panelSeq \in 0..MaxInput /\ lease \in Status
  /\ calls \subseteq [s : SessionIds, n : 1..MaxInput, axes : {"zero", "move"}]
  /\ deletes \subseteq SessionIds
  /\ awaited \subseteq [s : SessionIds, n : 1..MaxInput]
  /\ answers \subseteq [s : SessionIds, n : 1..MaxInput, said : Said]
  /\ poll \subseteq [s : SessionIds \cup {NoSession}, status : Status]
  /\ letGo \in 0..MaxInput /\ heard \in 0..MaxInput

PanelInv == SessionInv /\ InputsAreDriven /\ PanelType /\ PanelFacts

-----------------------------------------------------------------------------
(* What the platform's handlers do to a session that was acquired.         *)

\* All but an input: no session is driven again that was not, and none gets an
\* input or a number that it did not have.
OnwardsOnly ==
  \A s \in SessionIds : Acquired(s) =>
    /\ Acquired(s)'
    /\ Driven(sessions'[s]) => Driven(sessions[s]) /\ sessions'[s].client = sessions[s].client
    /\ sessions'[s].client \in {sessions[s].client, saved[s].client}
    /\ saved'[s].client \in {sessions[s].client, saved[s].client}
    /\ inputs'[s] \in {inputs[s], "none"}

LEMMA StoppedFacts ==
  ASSUME NEW x \in Session
  PROVE  /\ ~Driven(Stopped(x)) /\ Stopped(x).client = x.client
         /\ Stopped(x).status = "none" <=> x.status = "none"
BY DEF Stopped, Driven, Session

LEMMA StopOnwards ==
  ASSUME SessionInv, InputsAreDriven, NEW S \in SUBSET SessionIds, StopAll(S)
  PROVE  OnwardsOnly /\ InputsAreDriven'
<1>1. /\ sessions \in [SessionIds -> Session] /\ saved \in [SessionIds -> Session]
      /\ inputs \in [SessionIds -> Axes]
  BY DEF SessionInv, SessionTypeOK
<1>2. ASSUME NEW s \in SessionIds
      PROVE  /\ sessions'[s] = IF s \in S THEN Stopped(sessions[s]) ELSE sessions[s]
             /\ saved'[s] = IF s \in S /\ Driven(sessions[s]) THEN Stopped(sessions[s])
                            ELSE saved[s]
             /\ inputs'[s] = IF s \in S /\ Driven(sessions[s]) THEN "none" ELSE inputs[s]
  BY DEF StopAll, SessionsAfter, SavedAfter, InputsAfter, Halting
<1>3. \A s \in SessionIds :
        /\ ~Driven(Stopped(sessions[s])) /\ Stopped(sessions[s]).client = sessions[s].client
        /\ Stopped(sessions[s]).status = "none" <=> sessions[s].status = "none"
  BY <1>1, StoppedFacts
<1>4. OnwardsOnly
  BY <1>1, <1>2, <1>3 DEF OnwardsOnly, Acquired
<1>5. InputsAreDriven'
  BY <1>1, <1>2, <1>3 DEF InputsAreDriven
<1> QED
  BY <1>4, <1>5

LEMMA ReceiptOnwards ==
  ASSUME SessionInv, InputsAreDriven, NEW s \in SessionIds, NEW n \in Nat,
         NEW k \in Reports, Receipt(s, n, k)
  PROVE  OnwardsOnly /\ InputsAreDriven'
<1> DEFINE x == sessions[s]
           status == IF k = "failed" THEN "failed"
                     ELSE IF Closes(x, n, k) THEN "closed"
                     ELSE IF k = "ready" /\ x.status = "starting" THEN "active"
                     ELSE x.status
<1>1. /\ sessions \in [SessionIds -> Session] /\ saved \in [SessionIds -> Session]
      /\ inputs \in [SessionIds -> Axes] /\ x \in Session
  BY DEF SessionInv, SessionTypeOK
<1>2. /\ Unfinished(x)
      /\ sessions' = [sessions EXCEPT ![s].applied = n, ![s].status = status]
      /\ saved' = IF Recorded(x, status, k) THEN [saved EXCEPT ![s] = sessions'[s]] ELSE saved
      /\ inputs' = IF status \in {"failed", "closed"} THEN [inputs EXCEPT ![s] = "none"] ELSE inputs
  BY DEF Receipt, Accepts
<1>3. /\ status # "none" /\ status \in {"failed", "closed", "active", x.status}
      /\ status = "active" => x.status \in {"starting", "active"}
  BY <1>2 DEF Unfinished
<1> HIDE DEF status
<1>4. /\ sessions'[s].status = status /\ sessions'[s].client = x.client
      /\ \A t \in SessionIds \ {s} : sessions'[t] = sessions[t]
  BY <1>1, <1>2 DEF Session
<1>5. /\ saved'[s] \in {saved[s], sessions'[s]}
      /\ \A t \in SessionIds \ {s} : saved'[t] = saved[t]
  BY <1>1, <1>2
<1>6. /\ inputs'[s] = IF status \in {"failed", "closed"} THEN "none" ELSE inputs[s]
      /\ \A t \in SessionIds \ {s} : inputs'[t] = inputs[t]
  BY <1>1, <1>2
<1>7. x.status # "none"
  BY <1>2 DEF Unfinished
<1>8. OnwardsOnly
  BY <1>1, <1>3, <1>4, <1>5, <1>6, <1>7 DEF OnwardsOnly, Acquired, Driven
<1>9. InputsAreDriven'
  BY <1>1, <1>3, <1>4, <1>5, <1>6, <1>7 DEF InputsAreDriven, Driven
<1> QED
  BY <1>8, <1>9

LEMMA RestartOnwards ==
  ASSUME SessionInv, InputsAreDriven, RestartSessions
  PROVE  OnwardsOnly /\ InputsAreDriven'
<1>1. /\ sessions \in [SessionIds -> Session] /\ saved \in [SessionIds -> Session]
      /\ \A s \in SessionIds : saved[s] \in Session
  BY DEF SessionInv, SessionTypeOK
<1>2. \A x \in Session : /\ ~Driven(Restored(x)) /\ Restored(x).client = x.client
                         /\ Restored(x).status = "none" <=> x.status = "none"
  BY DEF Restored, Driven, Unfinished, Session
<1>3. \A s \in SessionIds : /\ sessions'[s] = Restored(saved[s]) /\ saved'[s] = sessions'[s]
                            /\ inputs'[s] = "none"
  BY DEF RestartSessions
<1>4. OnwardsOnly
  BY <1>1, <1>2, <1>3 DEF OnwardsOnly, Acquired, InputsAreDriven
<1>5. InputsAreDriven'
  BY <1>1, <1>2, <1>3 DEF InputsAreDriven
<1> QED
  BY <1>4, <1>5

\* What happens to the sessions without this panel.
LEMMA OutsideOnwards ==
  ASSUME SessionInv, InputsAreDriven, Outside
  PROVE  SessionInv' /\ OnwardsOnly /\ InputsAreDriven' /\ UNCHANGED panelVars
<1>0. UNCHANGED panelVars
  BY DEF Outside
<1>1. ASSUME NEW s \in SessionIds, NEW k \in {"ready", "stopped"},
             Receipt(s, sessions[s].sequence, k)
      PROVE  SessionInv' /\ OnwardsOnly /\ InputsAreDriven'
  <2>1. sessions[s].sequence \in Nat /\ k \in Reports
    BY DEF SessionInv, SessionTypeOK, Session, Reports
  <2> QED
    BY <1>1, <2>1, ReceiptOnwards, ReceiptKeepsInv
<1>2. ASSUME NEW s \in SessionIds, Release(s)
      PROVE  SessionInv' /\ OnwardsOnly /\ InputsAreDriven'
  BY <1>2, StopOnwards, StopKeepsInv DEF Release
<1>3. ASSUME SessionTime PROVE SessionInv' /\ OnwardsOnly /\ InputsAreDriven'
  <2>1. SessionInv'
    BY <1>3, StepKeepsInv DEF SessionNext
  <2>2. CASE Expire
    BY <2>1, <2>2, StopOnwards DEF Expire, Lapsed
  <2>3. ASSUME NEW s \in SessionIds, LeaseLapses(s) PROVE OnwardsOnly /\ InputsAreDriven'
    <3>1. /\ sessions'[s].status = sessions[s].status /\ sessions'[s].client = sessions[s].client
          /\ \A t \in SessionIds \ {s} : sessions'[t] = sessions[t]
          /\ UNCHANGED <<saved, inputs>>
      BY <2>3 DEF LeaseLapses, SessionInv, SessionTypeOK, Session
    <3> QED
      BY <3>1 DEF OnwardsOnly, Acquired, InputsAreDriven, Driven
  <2> QED
    BY <1>3, <2>1, <2>2, <2>3 DEF SessionTime
<1>4. ASSUME InputsAge PROVE SessionInv' /\ OnwardsOnly /\ InputsAreDriven'
  BY <1>4, AgeKeepsInv DEF InputsAge, OnwardsOnly, Acquired, InputsAreDriven
<1>5. ASSUME RestartSessions PROVE SessionInv' /\ OnwardsOnly /\ InputsAreDriven'
  BY <1>5, RestartOnwards, RestartKeepsInv
<1> QED
  BY <1>0, <1>1, <1>2, <1>3, <1>4, <1>5 DEF Outside

-----------------------------------------------------------------------------
(* The panel's steps.                                                      *)

\* Sessions that go on, and answers that accept nothing, leave everything true
\* of a panel that does nothing.
LEMMA PanelGoesOn ==
  ASSUME PanelInv, OnwardsOnly, SessionInv', InputsAreDriven',
         UNCHANGED <<asking, token, axes, panelSeq, letGo, heard>>, calls' \subseteq calls,
         \A a \in answers' \ answers :
           a.said \notin Taken /\ a.s \in SessionIds /\ Acquired(a.s)
  PROVE  PanelFacts'
<1>2. \A s \in SessionIds : sessions[s].client \in Int /\ saved[s].client \in Int
  BY DEF PanelInv, SessionInv, SessionTypeOK, Session
<1>3. AsksWithoutToken'
  BY DEF PanelInv, PanelFacts, AsksWithoutToken
<1>4. TokenCounts'
  BY <1>2 DEF PanelInv, PanelFacts, PanelType, TokenCounts, OnwardsOnly, Acquired
<1>5. CallsCount'
  BY DEF PanelInv, PanelFacts, PanelType, CallsCount, OnwardsOnly, Acquired
<1>6. AnswersTrue'
  BY DEF PanelInv, PanelFacts, PanelType, AnswersTrue, OnwardsOnly, Acquired
<1>7. GrantIsFresh'
  BY DEF PanelInv, PanelFacts, GrantIsFresh, OnwardsOnly, Acquired
<1>8. StillAfterKeyUp'
  <2>1. ASSUME token # NoSession, axes = "zero", inputs'[token] = "move"
        PROVE  sessions'[token].client < letGo
    <3>1. Driven(sessions'[token]) /\ inputs[token] = "move" /\ Acquired(token)
      BY <2>1 DEF PanelInv, PanelFacts, PanelType, TokenCounts, InputsAreDriven, OnwardsOnly
    <3> QED
      BY <2>1, <3>1 DEF PanelInv, PanelFacts, PanelType, StillAfterKeyUp, OnwardsOnly
  <2> QED
    BY <2>1 DEF PanelInv, PanelFacts, StillAfterKeyUp
<1> QED
  BY <1>3, <1>4, <1>5, <1>6, <1>7, <1>8 DEF PanelFacts

LEMMA PanelWaits ==
  ASSUME PanelInv, OnwardsOnly, SessionInv', InputsAreDriven', UNCHANGED panelVars
  PROVE  PanelInv'
<1>1. PanelType'
  BY DEF panelVars, PanelInv, PanelType
<1>2. PanelFacts'
  BY PanelGoesOn DEF panelVars
<1> QED
  BY <1>1, <1>2 DEF PanelInv

\* The operator's side: nothing happens to the sessions.
LEMMA OperatorStep ==
  ASSUME PanelInv,
         \/ Asks \/ NotGranted \/ Takes \/ Presses \/ KeyUp \/ Heartbeat
         \/ Blurs \/ Unmounts
  PROVE  PanelInv'
<1> USE DEF PanelInv, PanelType
<1>0. SessionInv' /\ InputsAreDriven' /\ UNCHANGED sessionVars
  <2>1. UNCHANGED sessionVars
    BY DEF Asks, NotGranted, Takes, Presses, KeyUp, Heartbeat, Sends, Blurs, Unmounts
  <2>2. SessionInv'
    BY <2>1, StepKeepsInv
  <2> QED
    BY <2>1, <2>2 DEF sessionVars, InputsAreDriven
<1>a. /\ sessions' = sessions /\ saved' = saved /\ inputs' = inputs
      /\ \A s \in SessionIds : sessions[s].client \in Nat /\ saved[s].client \in Nat
  BY <1>0 DEF sessionVars, SessionInv, SessionTypeOK, Session
<1> USE ManualSessionAssumption, OperatorPanelAssumption
<1>1. ASSUME Asks \/ NotGranted PROVE PanelType' /\ PanelFacts'
  BY <1>1, <1>a DEF Asks, NotGranted, PanelFacts, AsksWithoutToken, TokenCounts, CallsCount,
     AnswersTrue, GrantIsFresh, StillAfterKeyUp, Acquired
<1>2. ASSUME Takes PROVE PanelType' /\ PanelFacts'
  <2>1. PanelType'
    <3>1. CASE open
      <4>1. /\ asking' = "no" /\ token' = asking /\ axes' = "zero" /\ panelSeq' = 0
            /\ lease' = "starting" /\ letGo' = 0 /\ heard' = 0
            /\ UNCHANGED <<deletes, open, inFlight, calls, awaited, answers, poll>>
        BY <1>2, <3>1 DEF Takes
      <4>2. "starting" \in Status /\ 0 \in 0..MaxInput /\ asking \in SessionIds
        BY <1>2 DEF Takes, Status
      <4> QED
        BY <4>1, <4>2
    <3>2. CASE ~open
      <4>1. /\ asking' = "no" /\ deletes' = deletes \cup {asking}
            /\ UNCHANGED <<token, axes, panelSeq, lease, letGo, heard, open, inFlight, calls,
                           awaited, answers, poll>>
        BY <1>2, <3>2 DEF Takes
      <4> QED
        BY <1>2, <4>1 DEF Takes
    <3> QED
      BY <3>1, <3>2
  <2>2. AsksWithoutToken' /\ GrantIsFresh' /\ AnswersTrue'
    BY <1>2, <1>a DEF Takes, PanelFacts, AsksWithoutToken, GrantIsFresh, AnswersTrue, Acquired
  <2>3. TokenCounts' /\ CallsCount' /\ StillAfterKeyUp'
    BY <1>2, <1>a DEF Takes, PanelFacts, TokenCounts, CallsCount, StillAfterKeyUp,
       AsksWithoutToken, GrantIsFresh, Acquired
  <2> QED
    BY <2>1, <2>2, <2>3 DEF PanelFacts
<1>3. ASSUME NEW a \in {"zero", "move"}, Sends(a)
      PROVE  /\ token \in SessionIds /\ panelSeq' = panelSeq + 1 /\ panelSeq < MaxInput
             /\ calls' = calls \cup {[s |-> token, n |-> panelSeq + 1, axes |-> a]}
             /\ UNCHANGED <<asking, token, answers, heard, open, deletes, poll, lease>>
             /\ inFlight' \in BOOLEAN /\ panelSeq' \in 0..MaxInput
             /\ calls' \subseteq [s : SessionIds, n : 1..MaxInput, axes : {"zero", "move"}]
             /\ awaited' \subseteq [s : SessionIds, n : 1..MaxInput]
             /\ AsksWithoutToken' /\ TokenCounts' /\ CallsCount' /\ AnswersTrue' /\ GrantIsFresh'
  <2>1. /\ token \in SessionIds /\ panelSeq' = panelSeq + 1 /\ panelSeq < MaxInput
        /\ calls' = calls \cup {[s |-> token, n |-> panelSeq + 1, axes |-> a]}
        /\ awaited' = awaited \cup {[s |-> token, n |-> panelSeq + 1]}
        /\ UNCHANGED <<asking, token, answers, heard, open, deletes, poll, lease>>
        /\ inFlight' \in BOOLEAN /\ panelSeq + 1 \in 1..MaxInput
    BY <1>3 DEF Sends
  <2>2. /\ calls' \subseteq [s : SessionIds, n : 1..MaxInput, axes : {"zero", "move"}]
        /\ awaited' \subseteq [s : SessionIds, n : 1..MaxInput]
    BY <2>1
  <2>3. AsksWithoutToken' /\ AnswersTrue' /\ GrantIsFresh'
    BY <2>1, <1>a DEF PanelFacts, AsksWithoutToken, AnswersTrue, GrantIsFresh, Acquired
  <2>4. TokenCounts'
    BY <2>1, <1>a DEF PanelFacts, TokenCounts, Acquired
  <2>5. CallsCount'
    BY <2>1, <1>a DEF PanelFacts, TokenCounts, CallsCount, Acquired
  <2> QED
    BY <2>1, <2>2, <2>3, <2>4, <2>5
<1>4. ASSUME Presses PROVE PanelType' /\ PanelFacts'
  <2>1. StillAfterKeyUp'
    BY <1>4 DEF Presses, StillAfterKeyUp
  <2> QED
    BY <1>4, <1>3, <2>1 DEF Presses, PanelFacts
<1>5. ASSUME KeyUp PROVE PanelType' /\ PanelFacts'
  <2>1. Sends("zero") /\ axes' = "zero" /\ letGo' = panelSeq + 1
    BY <1>5 DEF KeyUp
  <2>2. StillAfterKeyUp'
    BY <2>1, <1>3, <1>a DEF PanelFacts, TokenCounts, CallsCount, StillAfterKeyUp
  <2> QED
    BY <2>1, <1>3, <2>2 DEF PanelFacts
<1>6. ASSUME Heartbeat PROVE PanelType' /\ PanelFacts'
  <2>1. Sends(axes) /\ UNCHANGED <<axes, letGo>>
    BY <1>6 DEF Heartbeat
  <2>2. StillAfterKeyUp'
    BY <2>1, <1>3, <1>a DEF PanelFacts, StillAfterKeyUp
  <2> QED
    BY <2>1, <1>3, <2>2 DEF PanelFacts
<1>7. ASSUME Blurs \/ Unmounts PROVE PanelType' /\ PanelFacts'
  <2>1. PanelType'
    BY <1>7 DEF Blurs, Unmounts, LetsGo
  <2>2. PanelFacts'
    BY <1>7, <1>a DEF Blurs, Unmounts, LetsGo, PanelFacts, AsksWithoutToken, TokenCounts,
       CallsCount, AnswersTrue, GrantIsFresh, StillAfterKeyUp, Acquired
  <2> QED
    BY <2>1, <2>2
<1> QED
  BY <1>0, <1>1, <1>2, <1>4, <1>5, <1>6, <1>7

\* Answers, polls and timeouts: the sessions are left alone, and the panel
\* keeps its session or lets it go.
LEMMA NewsStep ==
  ASSUME PanelInv,
         \/ \E a \in answers : Answered(a)
         \/ \E w \in awaited : GivesUp(w)
         \/ PollRead
         \/ \E p \in poll : PollAnswered(p)
  PROVE  PanelInv'
<1> USE DEF PanelInv, PanelType
<1>0. SessionInv' /\ InputsAreDriven' /\ UNCHANGED sessionVars
  <2>1. UNCHANGED sessionVars
    BY DEF Answered, GivesUp, PollRead, PollAnswered
  <2>2. SessionInv'
    BY <2>1, StepKeepsInv
  <2> QED
    BY <2>1, <2>2 DEF sessionVars, InputsAreDriven
<1>a. /\ sessions' = sessions /\ saved' = saved /\ inputs' = inputs
      /\ \A s \in SessionIds : /\ sessions[s].client \in Nat /\ saved[s].client \in Nat
                               /\ sessions[s].status \in Status
  BY <1>0 DEF sessionVars, SessionInv, SessionTypeOK, Session
<1> USE ManualSessionAssumption, OperatorPanelAssumption
<1>1. ASSUME LetsGo \/ Holds, UNCHANGED <<asking, calls, letGo>>, answers' \subseteq answers,
             heard' = heard \/ \E a \in answers : a.said \in Taken /\ token = a.s /\ heard' = a.n
      PROVE  PanelFacts' /\ token' \in SessionIds \cup {NoSession} /\ axes' \in {"zero", "move"}
             /\ panelSeq' = panelSeq /\ deletes' \subseteq SessionIds /\ heard' \in 0..MaxInput
  <2>1. /\ token' \in SessionIds \cup {NoSession} /\ axes' \in {"zero", "move"}
        /\ panelSeq' = panelSeq /\ deletes' \subseteq SessionIds
    BY <1>1 DEF LetsGo, Holds
  <2>2. heard' \in 0..MaxInput
    BY <1>1
  <2>3. token' = NoSession \/ UNCHANGED <<token, axes>>
    BY <1>1 DEF LetsGo, Holds
  <2>4. AsksWithoutToken' /\ CallsCount' /\ GrantIsFresh' /\ StillAfterKeyUp'
    BY <1>1, <2>1, <2>3, <1>a DEF PanelFacts, AsksWithoutToken, CallsCount, GrantIsFresh,
       StillAfterKeyUp, Acquired
  <2>5. AnswersTrue'
    BY <1>1, <1>a DEF PanelFacts, AnswersTrue, Acquired
  <2>6. TokenCounts'
    BY <1>1, <2>1, <2>3, <1>a DEF PanelFacts, TokenCounts, AnswersTrue, Acquired
  <2> QED
    BY <2>1, <2>2, <2>4, <2>5, <2>6 DEF PanelFacts
<1>2. ASSUME NEW a \in answers, Answered(a) PROVE PanelType' /\ PanelFacts'
  <2>1. LetsGo \/ Holds
    BY <1>2 DEF Answered
  <2>2. UNCHANGED <<asking, calls, letGo, open, poll>> /\ answers' \subseteq answers
    BY <1>2 DEF Answered
  <2>3. heard' = heard \/ \E b \in answers : b.said \in Taken /\ token = b.s /\ heard' = b.n
    BY <1>2 DEF Answered
  <2>4. lease' \in Status /\ inFlight' \in BOOLEAN /\ awaited' \subseteq awaited
    BY <1>2 DEF Answered, Taken, Status
  <2> QED
    BY <1>1, <2>1, <2>2, <2>3, <2>4
<1>3. ASSUME NEW w \in awaited, GivesUp(w) PROVE PanelType' /\ PanelFacts'
  <2>1. LetsGo \/ Holds
    BY <1>3 DEF GivesUp
  <2>2. /\ UNCHANGED <<asking, calls, letGo, heard, open, poll, lease>> /\ answers' \subseteq answers
        /\ inFlight' \in BOOLEAN /\ awaited' \subseteq awaited
    BY <1>3 DEF GivesUp
  <2> QED
    BY <1>1, <2>1, <2>2
<1>4. ASSUME PollRead PROVE PanelType' /\ PanelFacts'
  <2>1. Holds /\ UNCHANGED <<asking, calls, letGo, heard, open, answers, lease, awaited, inFlight>>
    BY <1>4 DEF PollRead, Holds
  <2>2. poll' \subseteq [s : SessionIds \cup {NoSession}, status : Status]
    <3>1. CASE Current(Driver) = {}
      BY <1>4, <3>1 DEF PollRead, Status
    <3>2. CASE Current(Driver) # {}
      <4>1. PICK s : s = CHOOSE t \in Current(Driver) : TRUE
        OBVIOUS
      <4>2. s \in SessionIds
        BY <3>2, <4>1 DEF Current
      <4> QED
        BY <1>4, <3>2, <4>1, <4>2, <1>a DEF PollRead
    <3> QED
      BY <3>1, <3>2
  <2> QED
    BY <1>1, <2>1, <2>2
<1>5. ASSUME NEW p \in poll, PollAnswered(p) PROVE PanelType' /\ PanelFacts'
  <2>1. LetsGo \/ Holds
    BY <1>5 DEF PollAnswered
  <2>2. /\ UNCHANGED <<asking, calls, letGo, heard, open, answers, awaited, inFlight>>
        /\ poll' = {} /\ lease' \in Status
    BY <1>5 DEF PollAnswered
  <2> QED
    BY <1>1, <2>1, <2>2
<1> QED
  BY <1>0, <1>2, <1>3, <1>4, <1>5

\* A request for a session arrives, and so does a release.
LEMMA RequestStep ==
  ASSUME PanelInv,
         \/ \E s \in SessionIds : Granted(s)
         \/ \E s \in deletes : DeleteArrives(s)
         \/ Outside
  PROVE  PanelInv'
<1> USE ManualSessionAssumption, OperatorPanelAssumption
<1>0. SessionInv /\ InputsAreDriven /\ PanelType
  BY DEF PanelInv
<1>a. /\ sessions \in [SessionIds -> Session] /\ saved \in [SessionIds -> Session]
      /\ inputs \in [SessionIds -> Axes]
  BY <1>0 DEF SessionInv, SessionTypeOK
<1>1. ASSUME NEW s \in SessionIds, Granted(s) PROVE PanelInv'
  <2>1. /\ Acquire(s, Driver) /\ asking = "asked" /\ asking' = s
        /\ UNCHANGED <<open, token, axes, panelSeq, inFlight, lease, calls, deletes,
                       awaited, answers, poll, letGo, heard>>
    BY <1>1 DEF Granted
  <2>2. SessionInv' /\ sessions[s].status = "none"
    BY <2>1, <1>0, AcquireKeepsInv DEF Acquire
  <2> DEFINE new == [NoSessionYet EXCEPT !.status = "starting", !.robot = Driver]
  <2>3. sessions'[s] = new /\ saved'[s] = new /\ inputs'[s] = "none"
    BY <2>1, <2>2, <1>0, <1>a DEF Acquire, SessionsAfter, SavedAfter, InputsAfter,
       InputsAreDriven, Driven
  <2>4. new.status = "starting" /\ new.client = 0
    BY DEF NoSessionYet
  <2> HIDE DEF new
  <2>5. ASSUME NEW t \in SessionIds \ {s}
        PROVE  /\ sessions'[t] \in {sessions[t], Stopped(sessions[t])}
               /\ sessions'[t] # sessions[t] => Driven(sessions[t])
               /\ saved'[t] \in {saved[t], Stopped(sessions[t])}
               /\ saved'[t] # saved[t] => Driven(sessions[t])
               /\ inputs'[t] \in {inputs[t], "none"}
               /\ inputs'[t] # "none" => sessions'[t] = sessions[t]
    BY <2>1, <1>a DEF Acquire, SessionsAfter, SavedAfter, InputsAfter, Halting, Lapsed
  <2>6. \A t \in SessionIds :
          /\ ~Driven(Stopped(sessions[t])) /\ Stopped(sessions[t]).client = sessions[t].client
          /\ Stopped(sessions[t]).status = "none" <=> sessions[t].status = "none"
    BY <1>a, StoppedFacts
  <2>7. OnwardsOnly
    BY <2>2, <2>5, <2>6 DEF OnwardsOnly, Acquired
  <2>8. InputsAreDriven'
    BY <1>0, <2>3, <2>4, <2>5, <2>6 DEF InputsAreDriven, Driven
  <2>9. PanelFacts'
    <3>1. token = NoSession
      BY <2>1 DEF PanelInv, PanelFacts, AsksWithoutToken
    <3>2. AsksWithoutToken' /\ TokenCounts' /\ StillAfterKeyUp'
      BY <2>1, <3>1 DEF AsksWithoutToken, TokenCounts, StillAfterKeyUp
    <3>3. \A c \in calls : Acquired(c.s) /\ c.s \in SessionIds /\ c.s # s
      BY <2>2 DEF PanelInv, PanelType, PanelFacts, CallsCount, Acquired
    <3>4. CallsCount' /\ GrantIsFresh'
      BY <2>1, <2>3, <2>4, <2>7, <3>1, <3>3 DEF CallsCount, GrantIsFresh, OnwardsOnly, Acquired
    <3>5. AnswersTrue'
      BY <2>1, <2>7 DEF PanelInv, PanelType, PanelFacts, AnswersTrue, OnwardsOnly, Acquired
    <3> QED
      BY <3>2, <3>4, <3>5 DEF PanelFacts
  <2>10. PanelType'
    BY <2>1 DEF PanelInv, PanelType
  <2> QED
    BY <2>2, <2>8, <2>9, <2>10 DEF PanelInv
<1>2. ASSUME NEW s \in deletes, DeleteArrives(s) PROVE PanelInv'
  <2>1. s \in SessionIds
    BY <1>0 DEF PanelType
  <2>2. SessionInv' /\ OnwardsOnly /\ InputsAreDriven'
    <3>1. CASE Driven(sessions[s])
      <4>1. Release(s)
        BY <1>2, <3>1 DEF DeleteArrives
      <4> QED
        BY <4>1, <2>1, <1>0, StopOnwards, StopKeepsInv DEF Release
    <3>2. CASE ~Driven(sessions[s])
      <4>1. UNCHANGED sessionVars
        BY <1>2, <3>2 DEF DeleteArrives
      <4>2. SessionInv'
        BY <4>1, <1>0, StepKeepsInv
      <4> QED
        BY <4>1, <4>2, <1>0 DEF sessionVars, OnwardsOnly, Acquired, InputsAreDriven
    <3> QED
      BY <3>1, <3>2
  <2>3. PanelType'
    BY <1>2, <1>0 DEF DeleteArrives, PanelType
  <2>4. PanelFacts'
    <3>1. UNCHANGED <<asking, token, axes, panelSeq, calls, answers, letGo, heard>>
      BY <1>2 DEF DeleteArrives
    <3> QED
      BY <3>1, <2>2, PanelGoesOn
  <2> QED
    BY <2>2, <2>3, <2>4 DEF PanelInv
<1>3. ASSUME Outside PROVE PanelInv'
  BY <1>3, <1>0, OutsideOnwards, PanelWaits
<1> QED
  BY <1>1, <1>2, <1>3

-----------------------------------------------------------------------------
(* An input arrives.                                                       *)

LEMMA ArrivesStep ==
  ASSUME PanelInv, NEW c \in calls, Arrives(c)
  PROVE  PanelInv'
<1> USE ManualSessionAssumption, OperatorPanelAssumption
<1>0. /\ SessionInv /\ InputsAreDriven /\ PanelType
      /\ c.s \in SessionIds /\ c.n \in 1..MaxInput /\ c.axes \in {"zero", "move"}
      /\ calls' = calls \ {c}
      /\ UNCHANGED <<open, asking, token, axes, panelSeq, inFlight, lease, deletes,
                     awaited, poll, letGo, heard>>
  BY DEF PanelInv, PanelType, Arrives
<1>1. ASSUME NEW said \in Said, Told(c, said)
      PROVE  /\ answers' \subseteq answers \cup {[s |-> c.s, n |-> c.n, said |-> said]}
             /\ PanelType'
  BY <1>0, <1>1 DEF Told, PanelType
<1>2. CASE /\ SessionInv' /\ OnwardsOnly /\ InputsAreDriven'
           /\ \E said \in Said \ Taken : Told(c, said)
  <2>1. PICK said \in Said \ Taken : Told(c, said)
    BY <1>2
  <2>2. /\ answers' \subseteq answers \cup {[s |-> c.s, n |-> c.n, said |-> said]}
        /\ PanelType'
    BY <1>1, <2>1
  <2>3. PanelFacts'
    <3>1. c.s \in SessionIds /\ Acquired(c.s)
      BY <1>0 DEF PanelInv, PanelFacts, CallsCount
    <3>2. \A a \in answers' \ answers : a.said = said /\ a.s = c.s
      BY <2>2
    <3>3. UNCHANGED <<asking, token, axes, panelSeq, letGo, heard>> /\ calls' \subseteq calls
      BY <1>0
    <3>4. \A a \in answers' \ answers :
            a.said \notin Taken /\ a.s \in SessionIds /\ Acquired(a.s)
      BY <3>1, <3>2
    <3> QED
      BY <1>2, <3>3, <3>4, PanelGoesOn
  <2> QED
    BY <1>2, <2>2, <2>3 DEF PanelInv
<1>3. CASE Driven(sessions[c.s]) /\ Release(c.s) /\ Told(c, "over")
  <2>1. SessionInv' /\ OnwardsOnly /\ InputsAreDriven'
    BY <1>0, <1>3, StopOnwards, StopKeepsInv DEF Release
  <2> QED
    BY <1>2, <1>3, <2>1 DEF Said, Taken
<1>4. CASE UNCHANGED sessionVars /\ \E said \in {"over", "stale", "refused"} : Told(c, said)
  <2>1. SessionInv'
    BY <1>4, <1>0, StepKeepsInv
  <2>2. OnwardsOnly /\ InputsAreDriven'
    BY <1>4, <1>0 DEF sessionVars, OnwardsOnly, Acquired, InputsAreDriven
  <2> QED
    BY <1>2, <1>4, <2>1, <2>2 DEF Said, Taken
<1>5. CASE /\ Driven(sessions[c.s]) /\ Told(c, sessions[c.s].status)
           /\ PutInput(c.s, c.n, c.axes)
  <2>1. SessionInv'
    BY <1>0, <1>5, PutInputKeepsInv
  <2>a. /\ sessions \in [SessionIds -> Session] /\ saved \in [SessionIds -> Session]
        /\ inputs \in [SessionIds -> Axes]
    BY <1>0 DEF SessionInv, SessionTypeOK
  <2>2. /\ sessions'[c.s].status = sessions[c.s].status /\ sessions'[c.s].client = c.n
        /\ inputs'[c.s] = c.axes /\ UNCHANGED saved /\ sessions[c.s].client < c.n
        /\ \A s \in SessionIds \ {c.s} : sessions'[s] = sessions[s] /\ inputs'[s] = inputs[s]
    BY <1>0, <1>5, <2>a DEF PutInput, Session, Stale
  <2>3. InputsAreDriven'
    BY <1>0, <1>5, <2>2 DEF InputsAreDriven, Driven
  <2>4. sessions[c.s].status \in Taken
    BY <1>5 DEF Driven, Taken
  <2>5. /\ answers' \subseteq answers \cup {[s |-> c.s, n |-> c.n, said |-> sessions[c.s].status]}
        /\ PanelType'
    BY <1>1, <1>5, <2>4 DEF Said
  <2>6. \A s \in SessionIds : sessions[s].client \in Nat
    BY <2>a DEF Session
  <2>7. AsksWithoutToken' /\ CallsCount'
    BY <1>0, <2>2 DEF PanelInv, PanelFacts, PanelType, AsksWithoutToken, CallsCount, Acquired
  <2>8. TokenCounts'
    BY <1>0, <2>2, <2>6 DEF PanelInv, PanelFacts, PanelType, TokenCounts, CallsCount, Acquired,
       Driven
  <2>9. AnswersTrue'
    <3>1. ASSUME NEW a \in answers'
          PROVE  /\ Acquired(a.s)'
                 /\ a.said \in Taken /\ Driven(sessions'[a.s]) => a.n <= sessions'[a.s].client
      <4>1. CASE a \in answers
        BY <1>0, <2>2, <2>6, <4>1 DEF PanelInv, PanelFacts, PanelType, AnswersTrue, Acquired,
           Driven
      <4>2. CASE a = [s |-> c.s, n |-> c.n, said |-> sessions[c.s].status]
        BY <1>0, <1>5, <2>2, <4>2 DEF Acquired, Driven
      <4> QED
        BY <2>5, <4>1, <4>2
    <3> QED
      BY <3>1 DEF AnswersTrue
  <2>10. GrantIsFresh'
    BY <1>0, <2>2 DEF PanelInv, PanelFacts, PanelType, GrantIsFresh, Acquired
  <2>11. StillAfterKeyUp'
    BY <1>0, <2>2 DEF PanelInv, PanelFacts, PanelType, StillAfterKeyUp
  <2> QED
    BY <2>1, <2>3, <2>5, <2>7, <2>8, <2>9, <2>10, <2>11 DEF PanelInv, PanelFacts
<1> QED
  BY <1>3, <1>4, <1>5 DEF Arrives

-----------------------------------------------------------------------------
LEMMA PanelStarts == PanelInit => PanelInv
<1> USE ManualSessionAssumption, OperatorPanelAssumption
<1> SUFFICES ASSUME PanelInit PROVE PanelInv
  OBVIOUS
<1>1. SessionInv
  BY InitInv DEF PanelInit
<1>2. InputsAreDriven
  BY DEF PanelInit, SessionInit, InputsAreDriven
<1>3. PanelType
  <2>1. MaxInput \in Nat /\ 0 \in 0..MaxInput
    OBVIOUS
  <2> QED
    BY <2>1 DEF PanelInit, PanelType, Status
<1>4. PanelFacts
  BY DEF PanelInit, PanelFacts, AsksWithoutToken, TokenCounts, CallsCount, AnswersTrue,
     GrantIsFresh, StillAfterKeyUp
<1> QED
  BY <1>1, <1>2, <1>3, <1>4 DEF PanelInv

LEMMA PanelSteps == PanelInv /\ [PanelNext]_panelAll => PanelInv'
<1> USE ManualSessionAssumption, OperatorPanelAssumption
<1>1. ASSUME PanelInv, PanelNext PROVE PanelInv'
  BY <1>1, OperatorStep, NewsStep, RequestStep, ArrivesStep DEF PanelNext
<1>2. ASSUME PanelInv, UNCHANGED panelAll PROVE PanelInv'
  <2>1. UNCHANGED sessionVars /\ UNCHANGED panelVars
    BY <1>2 DEF panelAll
  <2>2. SessionInv'
    BY <1>2, <2>1, StepKeepsInv DEF PanelInv
  <2>3. OnwardsOnly /\ InputsAreDriven'
    BY <1>2, <2>1 DEF PanelInv, sessionVars, OnwardsOnly, Acquired, InputsAreDriven
  <2> QED
    BY <1>2, <2>1, <2>2, <2>3, PanelWaits
<1> QED
  BY <1>1, <1>2

LEMMA PanelInvHolds == PanelSpec => []PanelInv
  BY PanelStarts, PanelSteps, PTL DEF PanelSpec

LEMMA PanelInvImplies == PanelInv => PanelTypeOK /\ LetGoMeansStill
<1>1. PanelInv => PanelTypeOK
  BY DEF PanelInv, SessionInv, PanelType, PanelTypeOK
<1>2. PanelInv => LetGoMeansStill
  <2> SUFFICES ASSUME PanelInv, token # NoSession, axes = "zero", heard >= letGo,
                      inputs[token] = "move"
               PROVE  FALSE
    BY DEF LetGoMeansStill
  <2>1. token \in SessionIds
    BY DEF PanelInv, PanelType
  <2>2. Driven(sessions[token])
    BY <2>1 DEF PanelInv, InputsAreDriven
  <2>3. heard <= sessions[token].client /\ sessions[token].client < letGo
    BY <2>2 DEF PanelInv, PanelFacts, TokenCounts, StillAfterKeyUp
  <2>4. sessions[token].client \in Int /\ heard \in Int /\ letGo \in Int
    BY <2>1 DEF PanelInv, PanelType, SessionInv, SessionTypeOK, Session
  <2> QED
    BY <2>3, <2>4
<1> QED
  BY <1>1, <1>2

\* The panel and the sessions behind it keep their types, whatever requests and
\* answers are overtaken or lost (ManualControl.tsx, control.ts).
THEOREM PanelTypeCorrect == PanelSpec => []PanelTypeOK
  BY PanelInvHolds, PanelInvImplies, PTL

\* Once a key-up is confirmed the robot of this panel has no input that moves
\* it, however late an older input arrives and whatever happens to the session
\* meanwhile (ManualControl.tsx:94-128, control.ts:130).
THEOREM KeyUpIsStill == PanelSpec => []LetGoMeansStill
  BY PanelInvHolds, PanelInvImplies, PTL

-----------------------------------------------------------------------------
(* The adapter and the panel in one state graph.                           *)

\* The part that takes the steps has its invariant, the other is as it was.
ControlInv ==
  /\ scope = "panel" => PanelInv /\ PumpTypes /\ moving = FALSE /\ motion = Still
  /\ scope # "panel" => PumpInv /\ PanelType /\ token = NoSession

LEMMA ControlStarts == ControlInit => ControlInv
<1> SUFFICES ASSUME ControlInit PROVE ControlInv
  OBVIOUS
<1>1. PumpInv /\ PanelInv
  BY PumpStarts, PanelStarts DEF ControlInit
<1>2. moving = FALSE /\ motion = Still /\ token = NoSession
  BY DEF ControlInit, Init, PanelInit
<1> QED
  BY <1>1, <1>2 DEF ControlInv, PumpInv, PanelInv

LEMMA ControlSteps == ControlInv /\ [ControlNext]_controlVars => ControlInv'
<1> SUFFICES ASSUME ControlInv, [ControlNext]_controlVars PROVE ControlInv'
  OBVIOUS
<1>1. scope' = scope
  BY DEF ControlNext, controlVars
<1>2. CASE scope = "panel"
  <2>1. [PanelNext]_panelAll /\ UNCHANGED pumpVars
    BY <1>2 DEF ControlNext, controlVars, vars, panelAll
  <2>2. PanelInv'
    BY <1>2, <2>1, PanelSteps DEF ControlInv
  <2>3. PumpTypes' /\ moving' = FALSE /\ motion' = Still
    BY <1>2, <2>1 DEF ControlInv, PumpTypes, pumpVars, Still, Idle
  <2> QED
    BY <1>1, <1>2, <2>2, <2>3 DEF ControlInv
<1>3. CASE scope # "panel"
  <2>1. [Next]_vars /\ UNCHANGED panelVars
    BY <1>3 DEF ControlNext, controlVars, vars
  <2>2. PumpInv'
    BY <1>3, <2>1, PumpSteps DEF ControlInv
  <2>3. PanelType' /\ token' = NoSession
    BY <1>3, <2>1 DEF ControlInv, PanelType, panelVars
  <2> QED
    BY <1>1, <1>3, <2>2, <2>3 DEF ControlInv
<1> QED
  BY <1>2, <1>3

\* Robots, sessions, adapters and panels keep their types, and every safety
\* property of them holds in the graph they share (control.ts, the SDK's pump,
\* ManualControl.tsx).
THEOREM ControlHolds ==
  ControlSpec => [](/\ ControlTypeOK /\ NoRunaway /\ LetGoMeansStill
                   /\ LockIsTheSession /\ RowsKeepReservations)
<1>1. ASSUME PanelInv, PumpTypes, moving = FALSE, motion = Still
      PROVE  ControlTypeOK /\ NoRunaway /\ LetGoMeansStill
    <2>1. PumpTypeOK
      BY <1>1 DEF PanelInv, SessionInv, PumpTypes, PumpTypeOK, Frame, Task, Notice, Doing,
                  Idle, Still
    <2>2. NoRunaway
      BY <1>1 DEF NoRunaway, ReleasedMeansStill, MotionIsWatched, InputNeverOutlived
    <2> QED
      BY <1>1, <2>1, <2>2, PanelInvImplies DEF ControlTypeOK
<1>2. ASSUME PumpInv, PanelType, token = NoSession
      PROVE  ControlTypeOK /\ NoRunaway /\ LetGoMeansStill
    <2>1. PanelTypeOK
      BY <1>2 DEF PumpInv, SessionInv, PanelType, PanelTypeOK
    <2> QED
      BY <1>2, <2>1, PumpInvImplies DEF ControlTypeOK, LetGoMeansStill
<1>3. PumpInv \/ PanelInv => LockIsTheSession /\ RowsKeepReservations
  BY DEF PumpInv, PanelInv, SessionInv
<1>4. ControlInv => /\ ControlTypeOK /\ NoRunaway /\ LetGoMeansStill
                    /\ LockIsTheSession /\ RowsKeepReservations
  BY <1>1, <1>2, <1>3 DEF ControlInv
<1> QED
  BY <1>4, ControlStarts, ControlSteps, PTL DEF ControlSpec
=============================================================================
