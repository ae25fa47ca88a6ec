------------------------ MODULE ManualDispatchProofs ------------------------
(***************************************************************************)
(* An operator who drives a robot is alone with it, for any number of      *)
(* robots, runs, orders and sessions: the theorem that joins what is       *)
(* proved of the dispatcher and what is proved of the sessions.            *)
(***************************************************************************)
EXTENDS ManualDispatch, DispatchProofs

SP == INSTANCE ManualSessionProofs

LEMMA SessionAssumptions == SP!ManualSessionAssumption
  BY DispatchAssumption, ManualDispatchAssumption DEF SP!ManualSessionAssumption

-----------------------------------------------------------------------------
(* The two instances of the sessions are one.                              *)

LEMMA SameReading ==
  /\ \A x : (S!Unfinished(x) <=> SP!Unfinished(x)) /\ (S!Driven(x) <=> SP!Driven(x))
  /\ \A x : S!Stopped(x) = SP!Stopped(x) /\ S!Restored(x) = SP!Restored(x)
  /\ S!Lapsed = SP!Lapsed
<1>1. \A x : S!Unfinished(x) <=> SP!Unfinished(x)
  BY DEF S!Unfinished, SP!Unfinished
<1>2. \A x : S!Driven(x) <=> SP!Driven(x)
  BY DEF S!Driven, SP!Driven
<1>3. \A x : S!Stopped(x) = SP!Stopped(x)
  BY DEF S!Driven, SP!Driven, S!Stopped, SP!Stopped
<1>4. \A x : S!Restored(x) = SP!Restored(x)
  BY DEF S!Unfinished, SP!Unfinished, S!Restored, SP!Restored
<1>5. S!Lapsed = SP!Lapsed
  BY DEF S!Driven, SP!Driven, S!Lapsed, SP!Lapsed
<1>. QED BY <1>1, <1>2, <1>3, <1>4, <1>5

LEMMA SameStops ==
  /\ \A T : S!StopAll(T) <=> SP!StopAll(T)
  /\ \A ss, locks : S!Locked(ss, locks) = SP!Locked(ss, locks)
<1>1. \A T : S!StopAll(T) <=> SP!StopAll(T)
  BY DEF S!StopAll, SP!StopAll, S!SessionsAfter, SP!SessionsAfter, S!SavedAfter,
         SP!SavedAfter, S!InputsAfter, SP!InputsAfter, S!Halting, SP!Halting,
         S!Driven, SP!Driven, S!Stopped, SP!Stopped
<1>2. \A ss, locks : S!Locked(ss, locks) = SP!Locked(ss, locks)
  BY DEF S!Locked, SP!Locked, S!Unfinished, SP!Unfinished
<1>. QED BY <1>1, <1>2

LEMMA SameSteps ==
  /\ \A s, r : S!Acquire(s, r) <=> SP!Acquire(s, r)
  /\ \A s, c, a : S!PutInput(s, c, a) <=> SP!PutInput(s, c, a)
  /\ \A s : S!Release(s) <=> SP!Release(s)
  /\ S!SessionTime <=> SP!SessionTime
  /\ S!InputsAge <=> SP!InputsAge
  /\ S!Shutdown <=> SP!Shutdown
  /\ S!RestartSessions <=> SP!RestartSessions
  /\ \A s, n, k : S!Receipt(s, n, k) <=> SP!Receipt(s, n, k)
  /\ S!Reports = SP!Reports
<1>1. \A s, r : S!Acquire(s, r) <=> SP!Acquire(s, r)
  BY DEF S!Acquire, SP!Acquire, S!Current, SP!Current, S!NoSessionYet,
         SP!NoSessionYet, S!SessionsAfter, SP!SessionsAfter, S!SavedAfter,
         SP!SavedAfter, S!InputsAfter, SP!InputsAfter, S!Halting, SP!Halting,
         S!Driven, SP!Driven, S!Stopped, SP!Stopped, S!Lapsed, SP!Lapsed,
         S!Locked, SP!Locked, S!Unfinished, SP!Unfinished
<1>2. \A s, c, a : S!PutInput(s, c, a) <=> SP!PutInput(s, c, a)
  BY DEF S!PutInput, SP!PutInput, S!Driven, SP!Driven, S!Stale, SP!Stale
<1>3. \A s : S!Release(s) <=> SP!Release(s)
  BY DEF S!Release, SP!Release, S!StopAll, SP!StopAll, S!SessionsAfter,
         SP!SessionsAfter, S!SavedAfter, SP!SavedAfter, S!InputsAfter,
         SP!InputsAfter, S!Halting, SP!Halting, S!Driven, SP!Driven, S!Stopped,
         SP!Stopped
<1>4. S!SessionTime <=> SP!SessionTime
  BY DEF S!SessionTime, SP!SessionTime, S!LeaseLapses, SP!LeaseLapses, S!Expire,
         SP!Expire, S!StopAll, SP!StopAll, S!SessionsAfter, SP!SessionsAfter,
         S!SavedAfter, SP!SavedAfter, S!InputsAfter, SP!InputsAfter, S!Halting,
         SP!Halting, S!Driven, SP!Driven, S!Stopped, SP!Stopped, S!Lapsed,
         SP!Lapsed, S!Locked, SP!Locked, S!Unfinished, SP!Unfinished
<1>5. S!InputsAge <=> SP!InputsAge
  BY DEF S!InputsAge, SP!InputsAge, S!Aged, SP!Aged
<1>6. S!Shutdown <=> SP!Shutdown
  BY DEF S!Shutdown, SP!Shutdown, S!StopAll, SP!StopAll, S!SessionsAfter,
         SP!SessionsAfter, S!SavedAfter, SP!SavedAfter, S!InputsAfter,
         SP!InputsAfter, S!Halting, SP!Halting, S!Driven, SP!Driven, S!Stopped,
         SP!Stopped
<1>7. S!RestartSessions <=> SP!RestartSessions
  BY DEF S!RestartSessions, SP!RestartSessions, S!Restored, SP!Restored, S!Locked,
         SP!Locked, S!Unfinished, SP!Unfinished
<1>8. \A s, n, k : S!Receipt(s, n, k) <=> SP!Receipt(s, n, k)
  BY DEF S!Receipt, SP!Receipt, S!Accepts, SP!Accepts, S!Closes, SP!Closes,
         S!Recorded, SP!Recorded, S!Unfinished, SP!Unfinished
<1>9. S!Reports = SP!Reports
  BY DEF S!Reports, SP!Reports
<1>. QED BY <1>1, <1>2, <1>3, <1>4, <1>5, <1>6, <1>7, <1>8, <1>9

-----------------------------------------------------------------------------
(* The sessions of the platform, whatever its runs do.                     *)

\* Nothing but a hand-over touches the reservations on the dispatcher's side.
LEMMA RunsLeaveLocks ==
  ASSUME SteadyNext \/ \E r \in Robots : RemoveExternal(r)
  PROVE  UNCHANGED controlLocks
<1>1. CASE Operate
  BY <1>1 DEF Operate, CreateMission, PauseMission, AbortMission, TeleopGoto, Command
<1>2. CASE Adapt
  BY <1>2 DEF Adapt, PullOrders, SetOrderStatus, RegisterExternal, IngestState
<1>3. CASE Plan
  BY <1>3 DEF Plan, CreateSchedule, PatchSchedule, DeleteSchedules
<1>4. CASE Elapse
  BY <1>4 DEF Elapse, Tick, ScheduleComesDue, GoesStale, SweepStaleRuns
<1>. QED BY <1>1, <1>2, <1>3, <1>4 DEF SteadyNext, RemoveExternal

\* The last frame read is one of a session that still holds its robot.
ReadOpen ==
  \A x \in read : /\ x[1] \in SessionIds /\ x[2] \in Nat
                  /\ SP!Unfinished(sessions[x[1]])

SessionsHold == SP!SessionInv /\ ReadOpen

LEMMA InitSessionsHold == ManualInit => SessionsHold
<1>1. SP!SessionInit <=> S!SessionInit
  BY DEF SP!SessionInit, S!SessionInit, SP!NoSessionYet, S!NoSessionYet
<1>. QED BY <1>1, SP!InitInv, SessionAssumptions DEF ManualInit, SessionsHold, ReadOpen

\* What stopping sessions and lapsing leases do to each session.
SessionsFade ==
  \A t \in SessionIds :
    /\ SP!Unfinished(sessions[t]) => SP!Unfinished(sessions'[t])
    /\ sessions'[t].status \in {"starting", "active"} =>
         /\ sessions[t].status = sessions'[t].status
         /\ sessions[t].robot = sessions'[t].robot

LEMMA StopsFade ==
  ASSUME SP!SessionInv, NEW T \in SUBSET SessionIds, SP!StopAll(T)
  PROVE  SessionsFade
<1>1. /\ sessions \in [SessionIds -> SP!Session]
      /\ sessions' = SP!SessionsAfter(T)
  BY DEF SP!SessionInv, SP!SessionTypeOK, SP!StopAll
<1>2. \A t \in SessionIds :
        sessions'[t] = sessions[t] \/ sessions'[t] = SP!Stopped(sessions[t])
  BY <1>1 DEF SP!SessionsAfter
<1>3. \A t \in SessionIds :
        \/ sessions'[t] = sessions[t]
        \/ SP!Driven(sessions[t]) /\ sessions'[t].status = "stopping"
  BY <1>1, <1>2 DEF SP!Stopped, SP!Session
<1>. QED BY <1>3 DEF SessionsFade, SP!Unfinished

LEMMA SessionStepsFade ==
  ASSUME SP!SessionInv, SessionSteps
  PROVE  SP!SessionInv' /\ SessionsFade
<1>. SP!ManualSessionAssumption
  BY SessionAssumptions
<1>. sessions \in [SessionIds -> SP!Session]
  BY DEF SP!SessionInv, SP!SessionTypeOK
<1>1. ASSUME NEW s \in SessionIds, NEW c \in 1..MaxInput, NEW a \in {"zero", "move"},
             SP!PutInput(s, c, a)
      PROVE  SP!SessionInv' /\ SessionsFade
  <2>1. SP!SessionInv'
    BY <1>1, SP!PutInputKeepsInv
  <2>2. SessionsFade
    BY <1>1 DEF SP!PutInput, SP!Session, SessionsFade, SP!Unfinished
  <2>. QED BY <2>1, <2>2
<1>2. ASSUME NEW T \in SUBSET SessionIds, SP!StopAll(T), UNCHANGED <<ttl, controlLocks>>
      PROVE  SP!SessionInv' /\ SessionsFade
  BY <1>2, SP!StopKeepsInv, StopsFade
<1>3. ASSUME NEW s \in SessionIds, SP!LeaseLapses(s)
      PROVE  SP!SessionInv' /\ SessionsFade
  <2>1. SP!SessionInv'
    BY <1>3, SP!LapseKeepsInv
  <2>2. SessionsFade
    BY <1>3 DEF SP!LeaseLapses, SP!Session, SessionsFade, SP!Unfinished
  <2>. QED BY <2>1, <2>2
<1>4. CASE SP!Expire
  <2>1. controlLocks' = controlLocks
    BY <1>4, SP!LocksStand DEF SP!Expire
  <2>2. SP!Lapsed \in SUBSET SessionIds /\ SP!StopAll(SP!Lapsed) /\ ttl' = ttl
    BY <1>4 DEF SP!Expire, SP!Lapsed
  <2>. QED BY <1>2, <2>1, <2>2
<1>5. CASE SP!InputsAge
  <2>1. SP!SessionInv'
    BY <1>5, SP!AgeKeepsInv
  <2>2. SessionsFade
    BY <1>5 DEF SP!InputsAge, SessionsFade
  <2>. QED BY <2>1, <2>2
<1>6. SP!Shutdown => SP!SessionInv' /\ SessionsFade
  BY <1>2 DEF SP!Shutdown
<1>7. \A s \in SessionIds : SP!Release(s) => SP!SessionInv' /\ SessionsFade
  BY <1>2 DEF SP!Release
<1>. QED BY <1>1, <1>3, <1>4, <1>5, <1>6, <1>7, SameSteps
         DEF SessionSteps, SP!SessionTime

\* Taking a robot: a session of it that has read nothing begins, the others fade.
LEMMA TakeKeeps ==
  ASSUME SessionsHold, NEW s \in SessionIds, NEW r \in Robots, S!Acquire(s, r),
         UNCHANGED read
  PROVE  /\ SessionsHold'
         /\ sessions'[s].status = "starting" /\ sessions'[s].robot = r
         /\ ~\E x \in read : x[1] = s
         /\ \A t \in SessionIds \ {s} :
              /\ sessions'[t].status \in {"starting", "active"} =>
                   /\ sessions[t].status = sessions'[t].status
                   /\ sessions[t].robot = sessions'[t].robot
              /\ SP!Unfinished(sessions[t]) => sessions[t].robot # r
<1>1. SP!SessionInv' /\ SP!Acquire(s, r)
  BY SameSteps, SP!AcquireKeepsInv, SessionAssumptions DEF SessionsHold
<1>2. sessions \in [SessionIds -> SP!Session]
  BY DEF SessionsHold, SP!SessionInv, SP!SessionTypeOK
<1>3. /\ sessions[s].status = "none" /\ SP!Current(r) = {}
      /\ sessions' = [SP!SessionsAfter(SP!Lapsed) EXCEPT
                        ![s] = [SP!NoSessionYet EXCEPT !.status = "starting",
                                                       !.robot = r]]
  BY <1>1 DEF SP!Acquire
<1>4. sessions'[s].status = "starting" /\ sessions'[s].robot = r
  BY <1>2, <1>3 DEF SP!SessionsAfter, SP!NoSessionYet
<1>5. ~\E x \in read : x[1] = s
  BY <1>3 DEF SessionsHold, ReadOpen, SP!Unfinished
<1>6. \A t \in SessionIds \ {s} :
        \/ sessions'[t] = sessions[t]
        \/ SP!Driven(sessions[t]) /\ sessions'[t].status = "stopping"
  <2>1. \A t \in SessionIds \ {s} :
          sessions'[t] = sessions[t] \/ sessions'[t] = SP!Stopped(sessions[t])
    BY <1>2, <1>3 DEF SP!SessionsAfter
  <2>. QED BY <1>2, <2>1 DEF SP!Stopped, SP!Session
<1>7. \A t \in SessionIds : SP!Unfinished(sessions[t]) => sessions[t].robot # r
  BY <1>3 DEF SP!Current
<1>8. ReadOpen'
  BY <1>5, <1>6 DEF SessionsHold, ReadOpen, SP!Unfinished
<1>. QED BY <1>1, <1>4, <1>5, <1>6, <1>7, <1>8 DEF SessionsHold

LEMMA GetFrameKeeps ==
  ASSUME SessionsHold, NEW s \in SessionIds, NEW r \in Robots, GetFrame(s, r)
  PROVE  SessionsHold' /\ SessionsFade
<1>1. /\ SP!StopAll(SP!Lapsed) /\ UNCHANGED ttl
      /\ controlLocks' = SP!Locked(sessions, controlLocks)
      /\ SP!Unfinished(sessions[s]) /\ read' = {<<s, sessions'[s].sequence>>}
  BY SameReading, SameStops DEF GetFrame
<1>2. controlLocks' = controlLocks
  BY <1>1, SP!LocksStand, SessionAssumptions DEF SessionsHold
<1>3. SP!Lapsed \in SUBSET SessionIds
  BY DEF SP!Lapsed
<1>4. SP!SessionInv' /\ SessionsFade
  BY <1>1, <1>2, <1>3, SP!StopKeepsInv, StopsFade, SessionAssumptions DEF SessionsHold
<1>5. sessions'[s].sequence \in Nat
  BY <1>4 DEF SP!SessionInv, SP!SessionTypeOK, SP!Session
<1>6. ReadOpen'
  BY <1>1, <1>4, <1>5 DEF ReadOpen, SessionsFade
<1>. QED BY <1>4, <1>6 DEF SessionsHold

\* A session becomes active by a receipt of the last frame read, while it starts.
LEMMA PostReceiptKeeps ==
  ASSUME SessionsHold, NEW x \in read, NEW k \in S!Reports,
         PostReceipt(x[1], x[2], k)
  PROVE  /\ SessionsHold' /\ read' \subseteq read
         /\ \A t \in SessionIds :
              sessions'[t].status \in {"starting", "active"} =>
                /\ sessions[t].robot = sessions'[t].robot
                /\ \/ sessions[t].status = sessions'[t].status
                   \/ sessions[t].status = "starting" /\ t = x[1]
<1>. DEFINE s == x[1]
            n == x[2]
<1>1. s \in SessionIds /\ n \in Nat /\ SP!Unfinished(sessions[s])
  BY DEF SessionsHold, ReadOpen
<1>2. SP!Receipt(s, n, k) /\ k \in SP!Reports
  BY SameSteps DEF PostReceipt
<1>3. SP!SessionInv'
  BY <1>1, <1>2, SP!ReceiptKeepsInv, SessionAssumptions DEF SessionsHold
<1>4. sessions \in [SessionIds -> SP!Session]
  BY DEF SessionsHold, SP!SessionInv, SP!SessionTypeOK
<1>5. /\ \A t \in SessionIds \ {s} : sessions'[t] = sessions[t]
      /\ sessions'[s].robot = sessions[s].robot
      /\ sessions'[s].status \in {"failed", "closed", "active", sessions[s].status}
      /\ sessions'[s].status = "active" => sessions[s].status \in {"starting", "active"}
  <2>. DEFINE now == sessions[s].status
              status == IF k = "failed" THEN "failed"
                        ELSE IF SP!Closes(sessions[s], n, k) THEN "closed"
                        ELSE IF k = "ready" /\ now = "starting" THEN "active"
                        ELSE now
  <2>1. sessions' = [sessions EXCEPT ![s].applied = n, ![s].status = status]
    BY <1>2 DEF SP!Receipt
  <2>2. /\ status \in {"failed", "closed", "active", now}
        /\ status = "active" => now \in {"starting", "active"}
    OBVIOUS
  <2>. HIDE DEF status
  <2>. QED BY <1>1, <1>4, <2>1, <2>2 DEF SP!Session
<1>6. read' = IF sessions'[s].status = "closed" THEN {} ELSE read
  BY DEF PostReceipt
<1>7. ReadOpen'
  BY <1>1, <1>5, <1>6 DEF SessionsHold, ReadOpen, SP!Unfinished
<1>8. \A t \in SessionIds :
        sessions'[t].status \in {"starting", "active"} =>
          /\ sessions[t].robot = sessions'[t].robot
          /\ \/ sessions[t].status = sessions'[t].status
             \/ sessions[t].status = "starting" /\ t = x[1]
  BY <1>5
<1>. QED BY <1>3, <1>6, <1>7, <1>8 DEF SessionsHold

\* A restart leaves stop requests only.
LEMMA RestartStops ==
  ASSUME SessionsHold, S!RestartSessions, UNCHANGED read
  PROVE  /\ SessionsHold'
         /\ \A t \in SessionIds : ~SP!Driven(sessions'[t])
<1>1. SP!RestartSessions /\ SP!SessionInv'
  BY SameSteps, SP!RestartKeepsInv, SessionAssumptions DEF SessionsHold
<1>2. saved \in [SessionIds -> SP!Session]
  BY DEF SessionsHold, SP!SessionInv, SP!SessionTypeOK
<1>3. \A t \in SessionIds :
        /\ sessions'[t] = SP!Restored(saved[t])
        /\ SP!Unfinished(SP!Restored(saved[t])) <=> SP!Unfinished(sessions[t])
  BY <1>1, <1>2, SP!RestoredSession, SessionAssumptions
     DEF SP!RestartSessions, SessionsHold, SP!SessionInv, SP!RowsKeepReservations
<1>4. \A t \in SessionIds : ~SP!Driven(sessions'[t])
  BY <1>2, <1>3 DEF SP!Restored, SP!Driven, SP!Unfinished, SP!Session
<1>5. ReadOpen'
  BY <1>3 DEF SessionsHold, ReadOpen
<1>. QED BY <1>1, <1>4, <1>5 DEF SessionsHold

\* A hand-over cut short by a crash leaves one more stop request.
LEMMA TornTakeStops ==
  ASSUME SessionsHold, NEW s \in SessionIds, NEW r \in Robots, TornTakeControl(s, r)
  PROVE  /\ SessionsHold'
         /\ \A t \in SessionIds : ~SP!Driven(sessions'[t])
<1>. DEFINE row == [SP!NoSessionYet EXCEPT !.status = "starting", !.robot = r]
            rows == [x \in SessionIds |-> IF x = s THEN row ELSE saved[x]]
<1>1. /\ saved \in [SessionIds -> SP!Session]
      /\ controlLocks \in [Robots -> SessionIds \cup {NoSession}]
      /\ inputs \in [SessionIds -> SP!Axes] /\ ttl \in [SessionIds -> 0..InputTicks]
  BY DEF SessionsHold, SP!SessionInv, SP!SessionTypeOK
<1>2. row \in SP!Session /\ SP!Unfinished(row) /\ row.robot = r
  <2>1. SP!NoSessionYet \in SP!Session
    BY ManualDispatchAssumption DEF SP!NoSessionYet, SP!Session, SP!Status
  <2>2. row \in SP!Session /\ row.status = "starting" /\ row.robot = r
    BY <2>1 DEF SP!Session, SP!Status
  <2>. QED BY <2>2 DEF SP!Unfinished
<1>3. /\ sessions[s].status = "none" /\ S!Current(r) = {}
      /\ saved' = sessions' /\ UNCHANGED <<ttl, read>>
      /\ inputs' = [x \in SessionIds |-> "none"]
      /\ controlLocks' = SP!Locked(sessions', [x \in Robots |-> NoSession])
  BY SameStops DEF TornTakeControl
<1>4. sessions' = [x \in SessionIds |-> SP!Restored(rows[x])]
  <2>1. sessions' = [x \in SessionIds |-> S!Restored(IF x = s THEN row ELSE saved[x])]
    BY DEF TornTakeControl, SP!NoSessionYet, S!NoSessionYet
  <2>2. \A x \in SessionIds : rows[x] = IF x = s THEN row ELSE saved[x]
    OBVIOUS
  <2>. HIDE DEF rows, row
  <2>. QED BY <2>1, <2>2, SameReading
<1>5. \A t \in SessionIds : rows[t] \in SP!Session
  BY <1>1, <1>2
<1>6. \A t \in SessionIds :
        IF t = s THEN rows[t] = row
                 ELSE /\ SP!Unfinished(rows[t]) <=> SP!Unfinished(sessions[t])
                      /\ rows[t].robot = sessions[t].robot
  BY DEF SessionsHold, SP!SessionInv, SP!RowsKeepReservations
<1>. HIDE DEF rows, row
<1>7. \A t \in SessionIds :
        /\ sessions'[t] \in SP!Session
        /\ SP!Unfinished(sessions'[t]) <=> SP!Unfinished(rows[t])
        /\ sessions'[t].robot = rows[t].robot
  BY <1>4, <1>5, SP!RestoredSession, SessionAssumptions
<1>8. \A t \in SessionIds : ~SP!Driven(sessions'[t])
  BY <1>4, <1>5 DEF SP!Restored, SP!Driven, SP!Unfinished, SP!Session
<1>. DEFINE Holds(q, t) == SP!Unfinished(sessions'[t]) /\ sessions'[t].robot = q
<1>9. \A q \in Robots, t, u \in SessionIds : Holds(q, t) /\ Holds(q, u) => t = u
  <2>1. \A t \in SessionIds : ~(SP!Unfinished(sessions[t]) /\ sessions[t].robot = r)
    BY <1>3, SameReading DEF S!Current
  <2>2. \A q \in Robots, t, u \in SessionIds :
          /\ SP!Unfinished(sessions[t]) /\ sessions[t].robot = q
          /\ SP!Unfinished(sessions[u]) /\ sessions[u].robot = q
          => t = u
    BY DEF SessionsHold, SP!SessionInv, SP!LockIsTheSession
  <2>. QED BY <1>2, <1>6, <1>7, <2>1, <2>2
<1>10. \A q \in Robots : controlLocks'[q] =
          IF \E t \in SessionIds : Holds(q, t)
            THEN CHOOSE t \in SessionIds : Holds(q, t) ELSE NoSession
  BY <1>3 DEF SP!Locked
<1>11. SP!LockIsTheSession'
  <2>1. ASSUME NEW q \in Robots, NEW t \in SessionIds
        PROVE  controlLocks'[q] = t <=> Holds(q, t)
    <3>. HIDE DEF Holds
    <3>1. CASE \E u \in SessionIds : Holds(q, u)
      <4>1. PICK u \in SessionIds : Holds(q, u)
        BY <3>1
      <4>2. (CHOOSE v \in SessionIds : Holds(q, v)) = u
        BY <1>9, <4>1
      <4>. QED BY <1>9, <1>10, <3>1, <4>1, <4>2
    <3>2. CASE ~\E u \in SessionIds : Holds(q, u)
      BY <1>10, <3>2, DispatchAssumption
    <3>. QED BY <3>1, <3>2
  <2>. QED BY <2>1 DEF SP!LockIsTheSession
<1>12. SP!SessionTypeOK'
  <2>1. sessions' \in [SessionIds -> SP!Session]
    BY <1>4, <1>7
  <2>2. controlLocks' \in [Robots -> SessionIds \cup {NoSession}]
    <3>1. \A q \in Robots : controlLocks'[q] \in SessionIds \cup {NoSession}
      BY <1>10
    <3>. QED BY <1>3, <3>1 DEF SP!Locked
  <2>. QED BY <1>1, <1>3, <2>1, <2>2 DEF SP!SessionTypeOK, SP!Axes
<1>13. SP!RowsKeepReservations'
  BY <1>3, <1>7 DEF SP!RowsKeepReservations, SP!Session
<1>14. ReadOpen'
  BY <1>3, <1>6, <1>7 DEF SessionsHold, ReadOpen, SP!Unfinished
<1>. QED BY <1>8, <1>11, <1>12, <1>13, <1>14 DEF SessionsHold, SP!SessionInv

-----------------------------------------------------------------------------
(* The runs and orders of a robot, as other handlers leave them.           *)

\* Taking a robot writes well-typed tables.
LEMMA EndsMotionType ==
  ASSUME TypeOK, NEW r \in Robots, EndsMotion(r),
         controlLocks' \in [Robots -> SessionIds \cup {NoSession}]
  PROVE  TypeOK'
<1>1. ActiveOn(r) \in SUBSET Missions
  BY DEF ActiveOn
<1>2. OrdersAfterTakeOver(r) \in [OrderIds -> Order]
  <2>1. OrdersAfterAbort(ActiveOn(r)) \in [OrderIds -> Order]
    BY <1>1, AbortOrdersType
  <2>. QED BY <2>1 DEF OrdersAfterTakeOver, Order, OrderState
<1>3. orders' \in [OrderIds -> Order]
  <2>1. NewOrder("abort", r, NoMission) \in Order
    BY NewRecords DEF OrderKind
  <2>2. \/ orders' = OrdersAfterTakeOver(r)
        \/ \E n \in FreeExtra :
             orders' = [OrdersAfterTakeOver(r) EXCEPT
                          ![<<"extra", n>>] = NewOrder("abort", r, NoMission)]
    BY DEF EndsMotion
  <2>. QED BY <1>2, <2>1, <2>2
<1>4. missions' \in [Missions -> Mission] /\ pin' \in [Robots -> Missions \cup {NoMission}]
  BY DEF EndsMotion, TypeOK, Mission, MissionStatus, Unpinned
<1>. QED BY <1>3, <1>4 DEF EndsMotion, TypeOK

\* No run becomes active on the robot and no order of it becomes open.
LeftAlone(r) ==
  /\ \A m \in Missions :
       missions'[m].status = "active" /\ missions'[m].robot = r => m \in ActiveOn(r)
  /\ \A o \in OrderIds :
       o \notin dropped' /\ orders'[o].robot = r /\ orders'[o].state \in Open
       => o \in Motions(r)

LEMMA AloneIsKept ==
  ASSUME NEW r, LeftAlone(r)
  PROVE  /\ ActiveOn(r) = {} => ActiveOn(r)' = {}
         /\ Quiet(r) => Quiet(r)'
  BY DEF LeftAlone, ActiveOn, Quiet, Motions, InMemory

\* A reserved robot on which no run is active is left alone by the dispatcher,
\* the operators' other calls and the adapter.
LEMMA ReservedLeftAlone ==
  ASSUME TypeOK, NEW r \in Robots, controlLocks[r] # NoSession, ActiveOn(r) = {},
         SteadyNext \/ \E q \in Robots : RemoveExternal(q)
  PROVE  LeftAlone(r)
<1>. missions \in [Missions -> Mission] /\ orders \in [OrderIds -> Order]
  BY DEF TypeOK
<1>0. \A m \in Missions : ~(missions[m].status = "active" /\ missions[m].robot = r)
  BY DEF ActiveOn
<1>1. ASSUME NEW m \in Missions, NEW p \in BOOLEAN, PauseMission(m, p)
      PROVE  LeftAlone(r)
  <2>1. /\ \A k \in Missions : /\ missions'[k].status = missions[k].status
                               /\ missions'[k].robot = missions[k].robot
        /\ dropped' = dropped
    BY <1>1 DEF PauseMission, Mission
  <2>2. missions[m].status = "active" /\ missions[m].robot # r
    BY <1>0, <1>1 DEF PauseMission
  <2>3. \A o \in OrderIds : orders'[o] = orders[o] \/ orders'[o].robot # r
    <3>1. \A k, q : NewOrder(k, q, m).robot = q
      BY DEF NewOrder
    <3>2. CASE orders' # orders
      <4>1. PICK n \in FreeExtra :
              orders' = [orders EXCEPT ![<<"extra", n>>] =
                           NewOrder(IF p THEN "pause" ELSE "resume",
                                    missions[m].robot, m)]
        BY <1>1, <3>2 DEF PauseMission
      <4>. QED BY <2>2, <3>1, <4>1
    <3>. QED BY <3>2
  <2>. QED BY <1>0, <2>1, <2>3 DEF LeftAlone, Motions, InMemory
<1>2. ASSUME NEW m \in Missions, AbortMission(m)
      PROVE  LeftAlone(r)
  <2>1. /\ \A k \in Missions : \/ missions'[k] = missions[k]
                               \/ missions'[k].status = "aborted"
        /\ dropped' = dropped
    BY <1>2 DEF AbortMission, Mission
  <2>2. CASE missions[m].status = "active"
    <3>1. missions[m].robot # r
      BY <1>0, <2>2
    <3>2. \A o \in OrderIds : \/ orders'[o] = orders[o]
                              \/ orders'[o].state = "failed"
                              \/ orders'[o].robot = missions[m].robot
      BY <1>2, <2>2 DEF AbortMission, OrdersAfterAbort, OrdersAfterCancel, Cancelled,
                        NewOrder, Order
    <3>. QED BY <1>0, <2>1, <3>1, <3>2 DEF LeftAlone, Motions, InMemory, Open
  <2>3. CASE missions[m].status # "active"
    BY <1>0, <1>2, <2>1, <2>3 DEF AbortMission, LeftAlone, Motions, InMemory
  <2>. QED BY <2>2, <2>3
<1>3. ASSUME NEW q \in Robots, TeleopGoto(q)
      PROVE  LeftAlone(r)
  <2>1. q # r /\ UNCHANGED <<missions, dropped>>
    BY <1>3 DEF TeleopGoto
  <2>2. \A o \in OrderIds : orders'[o] = orders[o] \/ orders'[o].robot = q
    BY <1>3 DEF TeleopGoto, NewOrder
  <2>. QED BY <1>0, <2>1, <2>2 DEF LeftAlone, Motions, InMemory
<1>4. ASSUME NEW req \in Requests, NEW p \in Priorities, CreateMission(req, p)
      PROVE  LeftAlone(r)
  BY <1>0, <1>4 DEF CreateMission, NewMission, LeftAlone, Motions, InMemory
<1>5. ASSUME NEW q \in Robots, NEW c \in Commands, Command(q, c)
      PROVE  LeftAlone(r)
  BY <1>1, <1>2, <1>3, <1>5 DEF Command, TypeOK
<1>6. CASE Tick
  <2>1. PICK f \in NewRunIds : \E a \in Assignments(MissionsAfterSchedules(f)) :
                                 Dispatched(MissionsAfterSchedules(f), a)
    BY <1>6 DEF Tick
  <2>. DEFINE ms == MissionsAfterSchedules(f)
  <2>2. PICK a \in Assignments(ms) : Dispatched(ms, a)
    BY <2>1
  <2>3. ms \in [Missions -> Mission]
    BY SchedulesGiveRuns
  <2>4. \A m \in Missions : ms[m] = missions[m] \/ ms[m].status = "queued"
    BY SchedulesKeepRuns
  <2>5. \A m \in Assigned(ms, a) : a[m] # r
    BY <2>3, AssignmentsAreDisjoint DEF Eligible
  <2>6. \A m \in Missions : IF m \in Assigned(ms, a)
                              THEN missions'[m].robot = a[m]
                              ELSE missions'[m] = ms[m]
    BY <2>2, <2>3 DEF Dispatched, Mission
  <2>7. \A k, q, m : NewOrder(k, q, m).robot = q
    BY DEF NewOrder
  <2>8. \A o \in OrderIds : orders'[o] = orders[o] \/ orders'[o].robot # r
    <3>1. \A o \in OrderIds :
            \/ orders'[o] = orders[o]
            \/ \E m \in Assigned(ms, a) : orders'[o] = NewOrder("mission", a[m], m)
      BY <2>2 DEF Dispatched
    <3>. QED BY <2>5, <2>7, <3>1
  <2>9. dropped' = dropped
    BY <1>6 DEF Tick
  <2>. HIDE DEF ms
  <2>. QED BY <1>0, <2>4, <2>5, <2>6, <2>8, <2>9 DEF LeftAlone, Motions, InMemory
<1>7. ASSUME NEW q \in Robots, PullOrders(q)
      PROVE  LeftAlone(r)
  <2>1. \A o \in OrderIds : /\ orders'[o].robot = orders[o].robot
                            /\ orders'[o].state \in Open => orders[o].state \in Open
    BY <1>7 DEF PullOrders, Order, Open
  <2>. QED BY <1>0, <1>7, <2>1 DEF PullOrders, LeftAlone, Motions, InMemory
<1>8. ASSUME NEW o \in OrderIds, NEW outcome \in {"done", "failed"},
             SetOrderStatus(o, outcome)
      PROVE  LeftAlone(r)
  <2>1. /\ \A n \in OrderIds : \/ orders'[n] = orders[n]
                               \/ orders'[n].state = outcome
        /\ dropped' = dropped
    BY <1>8 DEF SetOrderStatus, Order
  <2>2. \A m \in Missions : \/ missions'[m] = missions[m]
                            \/ missions'[m].status = outcome
    BY <1>8 DEF SetOrderStatus, Mission
  <2>. QED BY <1>0, <2>1, <2>2 DEF LeftAlone, Motions, InMemory, Open
<1>9. ASSUME NEW stale \in SUBSET Missions, SweepStaleRuns(stale)
      PROVE  LeftAlone(r)
  BY <1>0, <1>9 DEF SweepStaleRuns, Mission, LeftAlone, Motions, InMemory
<1>10. ASSUME NEW q \in Robots, RemoveExternal(q)
       PROVE  LeftAlone(r)
  BY <1>0, <1>10 DEF RemoveExternal, LeftAlone, Motions, InMemory
<1>11. CASE UNCHANGED <<missions, orders, dropped>>
  BY <1>0, <1>11 DEF LeftAlone, Motions, InMemory
<1>12. CASE Operate
  BY <1>1, <1>2, <1>3, <1>4, <1>5, <1>12 DEF Operate
<1>13. CASE Adapt
  BY <1>7, <1>8, <1>11, <1>13 DEF Adapt, RegisterExternal, IngestState
<1>14. CASE Plan
  BY <1>11, <1>14 DEF Plan, CreateSchedule, PatchSchedule, DeleteSchedules
<1>15. CASE Elapse
  BY <1>6, <1>9, <1>11, <1>15 DEF Elapse, ScheduleComesDue, GoesStale
<1>. QED BY <1>10, <1>12, <1>13, <1>14, <1>15 DEF SteadyNext

\* Taking a robot ends its runs and leaves every other robot alone.
LEMMA TakeOverEndsRuns ==
  ASSUME TypeOK, NEW r \in Robots, EndsMotion(r)
  PROVE  /\ ActiveOn(r)' = {}
         /\ \A q \in Robots \ {r} : LeftAlone(q)
<1>1. \A m \in Missions :
        \/ missions'[m] = missions[m] /\ m \notin ActiveOn(r)
        \/ missions'[m].status = "aborted"
  BY DEF EndsMotion, TypeOK, Mission
<1>2. ActiveOn(r)' = {}
  BY <1>1 DEF ActiveOn
<1>3. \A o \in OrderIds :
        \/ OrdersAfterTakeOver(r)[o] = orders[o]
        \/ OrdersAfterTakeOver(r)[o].state = "failed"
        \/ OrdersAfterTakeOver(r)[o].robot = r
  <2>1. \A o \in OrderIds :
          \/ OrdersAfterAbort(ActiveOn(r))[o] = orders[o]
          \/ OrdersAfterAbort(ActiveOn(r))[o].state = "failed"
          \/ OrdersAfterAbort(ActiveOn(r))[o].robot = r
    BY DEF OrdersAfterAbort, OrdersAfterCancel, Cancelled, NewOrder, ActiveOn, TypeOK,
           Order
  <2>2. OrdersAfterAbort(ActiveOn(r)) \in [OrderIds -> Order]
    BY AbortOrdersType DEF ActiveOn
  <2>3. \A o \in OrderIds :
          \/ OrdersAfterTakeOver(r)[o] = OrdersAfterAbort(ActiveOn(r))[o]
          \/ OrdersAfterTakeOver(r)[o].state = "failed"
    BY <2>2 DEF OrdersAfterTakeOver, Order
  <2>. QED BY <2>1, <2>3
<1>4. \A o \in OrderIds : \/ orders'[o] = orders[o]
                          \/ orders'[o].state = "failed"
                          \/ orders'[o].robot = r
  <2>1. OrdersAfterTakeOver(r) = [o \in OrderIds |-> OrdersAfterTakeOver(r)[o]]
    BY DEF OrdersAfterTakeOver
  <2>2. NewOrder("abort", r, NoMission).robot = r
    BY DEF NewOrder
  <2>3. \A o \in OrderIds :
          \/ orders'[o] = OrdersAfterTakeOver(r)[o]
          \/ orders'[o] = NewOrder("abort", r, NoMission)
    BY <2>1 DEF EndsMotion
  <2>. QED BY <1>3, <2>2, <2>3
<1>5. dropped' = dropped
  BY DEF EndsMotion
<1>6. \A q \in Robots \ {r} : LeftAlone(q)
  BY <1>1, <1>4, <1>5 DEF LeftAlone, ActiveOn, Motions, InMemory, Open
<1>. QED BY <1>2, <1>6

-----------------------------------------------------------------------------
(* Driving alone.                                                          *)

\* From the hand-over no run is active on the robot, and once the adapter has
\* read a frame of the session no order of the robot is open.
HeldAlone ==
  \A s \in SessionIds :
    /\ SP!Driven(sessions[s]) => /\ sessions[s].robot \in Robots
                                 /\ ActiveOn(sessions[s].robot) = {}
    /\ \/ sessions[s].status = "active"
       \/ sessions[s].status = "starting" /\ \E x \in read : x[1] = s
       => Quiet(sessions[s].robot)

ManualInv == TypeOK /\ SessionsHold /\ HeldAlone

LEMMA NobodyDriven ==
  ASSUME \A t \in SessionIds : ~SP!Driven(sessions'[t])
  PROVE  HeldAlone'
  BY DEF HeldAlone, SP!Driven

\* Sessions that only fade keep what they had.
LEMMA FadingKeepsAlone ==
  ASSUME HeldAlone, SessionsFade, read' \subseteq read,
         UNCHANGED <<missions, orders, dropped>>
  PROVE  HeldAlone'
<1>1. SUFFICES ASSUME NEW s \in SessionIds,
                      sessions'[s].status \in {"starting", "active"}
               PROVE  /\ sessions'[s].robot \in Robots
                      /\ ActiveOn(sessions[s].robot)' = {}
                      /\ \/ sessions'[s].status = "active"
                         \/ sessions'[s].status = "starting" /\ \E x \in read' : x[1] = s
                         => Quiet(sessions[s].robot)'
  BY DEF HeldAlone, SP!Driven
<1>2. /\ sessions[s].status = sessions'[s].status
      /\ sessions[s].robot = sessions'[s].robot
  BY <1>1 DEF SessionsFade
<1>3. /\ ActiveOn(sessions[s].robot)' = ActiveOn(sessions[s].robot)
      /\ Quiet(sessions[s].robot)' <=> Quiet(sessions[s].robot)
  BY <1>2 DEF ActiveOn, Quiet, Motions, InMemory
<1>. QED BY <1>1, <1>2, <1>3 DEF HeldAlone, SP!Driven

LEMMA InitAlone == ManualInit => ManualInv
<1>1. ManualInit => HeldAlone
  <2>1. ManualInit => \A s \in SessionIds : sessions[s].status = "none"
    BY DEF ManualInit, S!SessionInit, S!NoSessionYet
  <2>. QED BY <2>1 DEF HeldAlone, SP!Driven
<1>. QED BY <1>1, InitType, InitSessionsHold DEF ManualInit, ManualInv

\* The steps of the dispatcher while sessions hold robots.
LEMMA RunsKeepAlone ==
  ASSUME ManualInv, RunSteps
  PROVE  ManualInv'
<1>1. /\ SteadyNext \/ \E r \in Robots : RemoveExternal(r)
      /\ UNCHANGED <<sessions, saved, inputs, ttl, read>>
  BY DEF RunSteps, records
<1>2. UNCHANGED controlLocks
  BY <1>1, RunsLeaveLocks
<1>3. TypeOK'
  BY <1>1, NextType DEF ManualInv, Next, CleanNext
<1>4. SessionsHold'
  BY <1>1, <1>2 DEF ManualInv, SessionsHold, ReadOpen, SP!SessionInv,
     SP!SessionTypeOK, SP!LockIsTheSession, SP!RowsKeepReservations
<1>5. HeldAlone'
  <2>1. SUFFICES ASSUME NEW s \in SessionIds, SP!Driven(sessions[s])
                 PROVE  /\ ActiveOn(sessions[s].robot)' = {}
                        /\ Quiet(sessions[s].robot) => Quiet(sessions[s].robot)'
    BY <1>1 DEF HeldAlone, SP!Driven, ManualInv
  <2>2. PICK r : r = sessions[s].robot
    OBVIOUS
  <2>3. r \in Robots /\ ActiveOn(r) = {}
    BY <2>1, <2>2 DEF ManualInv, HeldAlone
  <2>4. controlLocks[r] = s
    BY <2>1, <2>2, <2>3 DEF ManualInv, SessionsHold, SP!SessionInv,
       SP!LockIsTheSession, SP!Driven, SP!Unfinished
  <2>5. LeftAlone(r)
    BY <1>1, <2>3, <2>4, ReservedLeftAlone, DispatchAssumption DEF ManualInv
  <2>6. ActiveOn(r)' = {} /\ (Quiet(r) => Quiet(r)')
    BY <2>3, <2>5, AloneIsKept
  <2>. QED BY <1>1, <2>2, <2>6
<1>. QED BY <1>3, <1>4, <1>5 DEF ManualInv

LEMMA TakeKeepsAlone ==
  ASSUME ManualInv, NEW s \in SessionIds, NEW r \in Robots, TakeControl(s, r)
  PROVE  ManualInv'
<1>1. /\ S!Acquire(s, r) /\ EndsMotion(r) /\ UNCHANGED read
      /\ TypeOK /\ SessionsHold /\ HeldAlone
  BY DEF TakeControl, ManualInv
<1>2. /\ SessionsHold'
      /\ sessions'[s].status = "starting" /\ sessions'[s].robot = r
      /\ ~\E x \in read : x[1] = s
      /\ \A t \in SessionIds \ {s} :
           /\ sessions'[t].status \in {"starting", "active"} =>
                /\ sessions[t].status = sessions'[t].status
                /\ sessions[t].robot = sessions'[t].robot
           /\ SP!Unfinished(sessions[t]) => sessions[t].robot # r
  BY <1>1, TakeKeeps
<1>3. TypeOK'
  BY <1>1, <1>2, EndsMotionType DEF SessionsHold, SP!SessionInv, SP!SessionTypeOK
<1>4. ActiveOn(r)' = {} /\ \A q \in Robots \ {r} : LeftAlone(q)
  BY <1>1, TakeOverEndsRuns
<1>5. ASSUME NEW t \in SessionIds, sessions'[t].status \in {"starting", "active"}
      PROVE  /\ sessions'[t].robot \in Robots
             /\ ActiveOn(sessions[t].robot)' = {}
             /\ \/ sessions'[t].status = "active"
                \/ sessions'[t].status = "starting" /\ \E x \in read' : x[1] = t
                => Quiet(sessions[t].robot)'
  <2>1. CASE t = s
    BY <1>1, <1>2, <1>4, <2>1
  <2>2. CASE t # s
    <3>1. PICK q : q = sessions[t].robot
      OBVIOUS
    <3>2. /\ sessions[t].status = sessions'[t].status /\ sessions'[t].robot = q
          /\ q # r
      BY <1>2, <1>5, <2>2, <3>1 DEF SP!Unfinished
    <3>3. q \in Robots /\ ActiveOn(q) = {}
      BY <1>1, <1>5, <3>1, <3>2 DEF HeldAlone, SP!Driven
    <3>4. ActiveOn(q)' = {} /\ (Quiet(q) => Quiet(q)')
      BY <1>4, <3>2, <3>3, AloneIsKept
    <3>5. \/ sessions'[t].status = "active"
          \/ sessions'[t].status = "starting" /\ \E x \in read' : x[1] = t
          => Quiet(q)
      BY <1>1, <3>1, <3>2 DEF HeldAlone
    <3>. QED BY <3>2, <3>3, <3>4, <3>5
  <2>. QED BY <2>1, <2>2
<1>6. HeldAlone'
  BY <1>5 DEF HeldAlone, SP!Driven
<1>. QED BY <1>2, <1>3, <1>6 DEF ManualInv

\* The steps of the sessions; orders and runs stay as they are.
LEMMA SessionsKeepAlone ==
  ASSUME ManualInv, UNCHANGED runVars, SessionsHold',
         HeldAlone'
  PROVE  ManualInv'
<1>1. controlLocks' \in [Robots -> SessionIds \cup {NoSession}]
  BY DEF SessionsHold, SP!SessionInv, SP!SessionTypeOK
<1>2. TypeOK'
  BY <1>1 DEF ManualInv, TypeOK, runVars
<1>. QED BY <1>2 DEF ManualInv

LEMMA GetFrameKeepsAlone ==
  ASSUME ManualInv, NEW s \in SessionIds, NEW r \in Robots, GetFrame(s, r)
  PROVE  ManualInv'
<1>1. /\ SessionsHold' /\ SessionsFade /\ UNCHANGED runVars
      /\ sessions[s].robot = r /\ Quiet(r)
      /\ \A x \in read' : x[1] = s
  BY GetFrameKeeps DEF ManualInv, GetFrame
<1>2. UNCHANGED <<missions, orders, dropped>>
  BY <1>1 DEF runVars
<1>3. SUFFICES ASSUME NEW t \in SessionIds,
                      sessions'[t].status \in {"starting", "active"}
               PROVE  /\ sessions'[t].robot \in Robots
                      /\ ActiveOn(sessions[t].robot)' = {}
                      /\ \/ sessions'[t].status = "active"
                         \/ sessions'[t].status = "starting" /\ \E x \in read' : x[1] = t
                         => Quiet(sessions[t].robot)'
  BY <1>1, SessionsKeepAlone DEF HeldAlone, SP!Driven
<1>4. /\ sessions[t].status = sessions'[t].status
      /\ sessions[t].robot = sessions'[t].robot
  BY <1>1, <1>3 DEF SessionsFade
<1>5. /\ ActiveOn(sessions[t].robot)' = ActiveOn(sessions[t].robot)
      /\ Quiet(sessions[t].robot)' <=> Quiet(sessions[t].robot)
  BY <1>2, <1>4 DEF ActiveOn, Quiet, Motions, InMemory
<1>6. CASE t = s
  BY <1>1, <1>3, <1>4, <1>5, <1>6 DEF ManualInv, HeldAlone, SP!Driven
<1>7. CASE t # s
  BY <1>1, <1>3, <1>4, <1>5, <1>7 DEF ManualInv, HeldAlone, SP!Driven
<1>. QED BY <1>6, <1>7

LEMMA PostReceiptKeepsAlone ==
  ASSUME ManualInv, NEW y \in read, NEW k \in S!Reports,
         PostReceipt(y[1], y[2], k)
  PROVE  ManualInv'
<1>1. /\ SessionsHold' /\ read' \subseteq read
      /\ \A t \in SessionIds :
           sessions'[t].status \in {"starting", "active"} =>
             /\ sessions[t].robot = sessions'[t].robot
             /\ \/ sessions[t].status = sessions'[t].status
                \/ sessions[t].status = "starting" /\ t = y[1]
  BY PostReceiptKeeps DEF ManualInv
<1>2. UNCHANGED <<missions, orders, dropped>> /\ UNCHANGED runVars
  BY DEF PostReceipt, runVars
<1>3. SUFFICES ASSUME NEW t \in SessionIds,
                      sessions'[t].status \in {"starting", "active"}
               PROVE  /\ sessions'[t].robot \in Robots
                      /\ ActiveOn(sessions[t].robot)' = {}
                      /\ \/ sessions'[t].status = "active"
                         \/ sessions'[t].status = "starting" /\ \E x \in read' : x[1] = t
                         => Quiet(sessions[t].robot)'
  BY <1>1, <1>2, SessionsKeepAlone DEF HeldAlone, SP!Driven
<1>4. /\ ActiveOn(sessions[t].robot)' = ActiveOn(sessions[t].robot)
      /\ Quiet(sessions[t].robot)' <=> Quiet(sessions[t].robot)
  BY <1>1, <1>2, <1>3 DEF ActiveOn, Quiet, Motions, InMemory
<1>. QED BY <1>1, <1>3, <1>4 DEF ManualInv, HeldAlone, SP!Driven

\* A restart leaves nobody driving, wherever the crash fell.
LEMMA RestartKeepsAlone ==
  ASSUME ManualInv,
         \/ RestartBoth \/ TornBoth
         \/ \E s \in SessionIds, r \in Robots : TornTakeControl(s, r)
  PROVE  ManualInv'
<1>1. /\ SessionsHold'
      /\ \A t \in SessionIds : ~SP!Driven(sessions'[t])
  BY RestartStops, TornTakeStops DEF ManualInv, RestartBoth, TornBoth
<1>2. controlLocks' \in [Robots -> SessionIds \cup {NoSession}]
  BY <1>1 DEF SessionsHold, SP!SessionInv, SP!SessionTypeOK
<1>3. /\ TypeOK /\ missions \in [Missions -> Mission]
      /\ orders \in [OrderIds -> Order]
  BY DEF ManualInv, TypeOK
<1>4. TypeOK'
  BY <1>2, <1>3, HydrateType, TornType DEF RestartBoth, TornBoth, Restart, TornTakeControl
<1>. QED BY <1>1, <1>4, NobodyDriven DEF ManualInv

LEMMA ManualStep == ManualInv /\ [ManualNext]_manualVars => ManualInv'
<1>. SUFFICES ASSUME ManualInv, [ManualNext]_manualVars PROVE ManualInv'
  OBVIOUS
<1>1. CASE SessionSteps
  <2>1. SP!SessionInv' /\ SessionsFade /\ UNCHANGED runVars /\ UNCHANGED read
    BY <1>1, SessionStepsFade DEF SessionSteps, ManualInv, SessionsHold
  <2>2. SessionsHold'
    BY <2>1 DEF ManualInv, SessionsHold, ReadOpen, SessionsFade
  <2>3. HeldAlone'
    BY <2>1, FadingKeepsAlone DEF ManualInv, runVars
  <2>. QED BY <2>1, <2>2, <2>3, SessionsKeepAlone
<1>2. CASE UNCHANGED manualVars
  <2>1. UNCHANGED vars /\ UNCHANGED <<sessions, saved, inputs, ttl, read>>
    BY <1>2 DEF manualVars, records
  <2>2. TypeOK'
    BY <2>1, NextType DEF ManualInv
  <2>3. SessionsHold'
    BY <2>1 DEF vars, ManualInv, SessionsHold, ReadOpen, SP!SessionInv,
       SP!SessionTypeOK, SP!LockIsTheSession, SP!RowsKeepReservations
  <2>4. HeldAlone'
    <3>1. SessionsFade
      BY <2>1 DEF SessionsFade
    <3>. QED BY <2>1, <3>1, FadingKeepsAlone DEF ManualInv, vars
  <2>. QED BY <2>2, <2>3, <2>4 DEF ManualInv
<1>. QED BY <1>1, <1>2, RunsKeepAlone, TakeKeepsAlone, GetFrameKeepsAlone,
            PostReceiptKeepsAlone, RestartKeepsAlone DEF ManualNext

\* While an operator may drive a robot nothing else moves it: no run is active on
\* it and no order of it is open, in every reachable state of runs, orders,
\* sessions, registrations, crashes inside any handler and recoveries.
THEOREM OperatorDrivesAlone == ManualSpec => []DrivesAlone
<1>1. ManualInv => DrivesAlone
  BY DEF ManualInv, HeldAlone, DrivesAlone, Quiet, Motions, SP!Driven
<1>. QED BY <1>1, InitAlone, ManualStep, PTL DEF ManualSpec

\* The tables of runs, orders and schedules stay well typed when sessions share the
\* platform with them.
THEOREM ManualTypeCorrect == ManualSpec => []TypeOK
<1>1. ManualInv => TypeOK
  BY DEF ManualInv
<1>. QED BY <1>1, InitAlone, ManualStep, PTL DEF ManualSpec
=============================================================================
