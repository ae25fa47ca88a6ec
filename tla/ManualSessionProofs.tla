------------------------- MODULE ManualSessionProofs -------------------------
(***************************************************************************)
(* Exclusive manual control, for any number of robots and sessions: the    *)
(* type invariant, the agreement of locks and sessions, and the agreement  *)
(* of memory and database, which a restart rests on, are proved together.  *)
(***************************************************************************)
EXTENDS ManualSession, TLAPS

SessionInv == SessionTypeOK /\ LockIsTheSession /\ RowsKeepReservations

\* A numbered stop request is a session of the same robot.
LEMMA StopRequest ==
  ASSUME NEW x \in Session, NEW y,
         y = [x EXCEPT !.status = "stopping", !.sequence = x.sequence + 1]
  PROVE  /\ y \in Session /\ Unfinished(y)
         /\ y.robot = x.robot /\ y.sequence >= x.sequence
<1>1. x.sequence + 1 \in Nat /\ x.sequence + 1 >= x.sequence
  BY DEF Session
<1>2. y \in Session
  <2> DEFINE n == x.sequence + 1
  <2>1. n \in Nat  BY <1>1
  <2>2. y = [x EXCEPT !.status = "stopping", !.sequence = n]  OBVIOUS
  <2> HIDE DEF n
  <2>. QED BY <2>1, <2>2 DEF Session, Status
<1>3. y.robot = x.robot /\ y.sequence = x.sequence + 1 /\ y.status = "stopping"
  BY DEF Session
<1>. QED BY <1>1, <1>2, <1>3 DEF Unfinished

LEMMA StoppedSession ==
  ASSUME NEW x \in Session
  PROVE  /\ Stopped(x) \in Session
         /\ Unfinished(Stopped(x)) <=> Unfinished(x)
         /\ Stopped(x).robot = x.robot
         /\ Stopped(x).sequence >= x.sequence
<1>1. CASE Driven(x)
  <2>1. Stopped(x) = [x EXCEPT !.status = "stopping",
                               !.sequence = x.sequence + 1]
    BY <1>1 DEF Stopped
  <2>2. Unfinished(x)
    BY <1>1 DEF Driven, Unfinished
  <2>. QED BY <2>1, <2>2, StopRequest
<1>2. CASE ~Driven(x)
  BY <1>2 DEF Stopped, Session
<1>. QED BY <1>1, <1>2

LEMMA RestoredSession ==
  ASSUME NEW x \in Session
  PROVE  /\ Restored(x) \in Session
         /\ Unfinished(Restored(x)) <=> Unfinished(x)
         /\ Restored(x).robot = x.robot
<1>1. CASE Unfinished(x)
  BY <1>1, StopRequest DEF Restored
<1>2. CASE ~Unfinished(x)
  BY <1>2 DEF Restored
<1>. QED BY <1>1, <1>2

\* Putting back the locks of unfinished sessions changes nothing, even while
\* some of them are being stopped.
LEMMA LocksStand ==
  ASSUME SessionInv
  PROVE  Locked(sessions, controlLocks) = controlLocks
<1>1. ASSUME NEW r \in Robots
      PROVE  Locked(sessions, controlLocks)[r] = controlLocks[r]
  <2>1. CASE \E s \in SessionIds : Unfinished(sessions[s]) /\ sessions[s].robot = r
    <3> DEFINE Holds(s) == Unfinished(sessions[s]) /\ sessions[s].robot = r
    <3>1. PICK s \in SessionIds : Holds(s)  BY <2>1
    <3>2. \A t \in SessionIds : Holds(t) => t = s
      BY <3>1 DEF SessionInv, LockIsTheSession
    <3>3. (CHOOSE t \in SessionIds : Holds(t)) = s  BY <3>1, <3>2
    <3>4. controlLocks[r] = s  BY <3>1 DEF SessionInv, LockIsTheSession
    <3> QED BY <3>3, <3>4, <2>1 DEF Locked
  <2>2. CASE ~\E s \in SessionIds : Unfinished(sessions[s]) /\ sessions[s].robot = r
    BY <2>2 DEF Locked
  <2> QED BY <2>1, <2>2
<1> QED BY <1>1 DEF Locked, SessionInv, SessionTypeOK

\* Stopping sessions leaves every reservation as it was.
LEMMA StopKeepsInv ==
  ASSUME SessionInv, NEW S \in SUBSET SessionIds, StopAll(S),
         UNCHANGED <<ttl, controlLocks>>
  PROVE  SessionInv'
<1>1. /\ sessions \in [SessionIds -> Session] /\ saved \in [SessionIds -> Session]
      /\ sessions' = SessionsAfter(S) /\ saved' = SavedAfter(S)
      /\ inputs' = InputsAfter(S)
  BY DEF SessionInv, SessionTypeOK, StopAll
<1>2. \A s \in SessionIds :
        /\ sessions'[s] \in Session
        /\ Unfinished(sessions'[s]) <=> Unfinished(sessions[s])
        /\ sessions'[s].robot = sessions[s].robot
        /\ sessions'[s].sequence >= sessions[s].sequence
  BY <1>1, StoppedSession DEF SessionsAfter, Session
<1>3. \A s \in SessionIds :
        /\ saved'[s] \in Session
        /\ saved'[s] = saved[s] \/ saved'[s] = sessions'[s]
  BY <1>1, StoppedSession DEF SavedAfter, SessionsAfter, Halting
<1>4. SessionTypeOK'
  BY <1>1, <1>2, <1>3 DEF SessionInv, SessionTypeOK, SessionsAfter, SavedAfter,
     InputsAfter, Axes
<1>5. LockIsTheSession'
  BY <1>2 DEF SessionInv, LockIsTheSession
<1>6. RowsKeepReservations'
  BY <1>1, <1>2, <1>3 DEF SessionInv, RowsKeepReservations, Session
<1> QED BY <1>4, <1>5, <1>6 DEF SessionInv

-----------------------------------------------------------------------------
(* One lemma per kind of step.                                             *)

LEMMA InitInv == SessionInit => SessionInv
<1>. SUFFICES ASSUME SessionInit PROVE SessionInv
  OBVIOUS
<1>1. NoSessionYet \in Session /\ ~Unfinished(NoSessionYet)
  BY ManualSessionAssumption DEF NoSessionYet, Session, Status, Unfinished
<1>2. SessionTypeOK
  BY <1>1, ManualSessionAssumption DEF SessionInit, SessionTypeOK, Axes
<1>3. LockIsTheSession
  BY <1>1, ManualSessionAssumption DEF SessionInit, LockIsTheSession
<1>4. RowsKeepReservations
  BY <1>1 DEF SessionInit, RowsKeepReservations, Session
<1>. QED BY <1>2, <1>3, <1>4 DEF SessionInv

\* A session is acquired only while no other of its robot is unfinished.
LEMMA AcquireKeepsInv ==
  ASSUME SessionInv, NEW s \in SessionIds, NEW r \in Robots, Acquire(s, r)
  PROVE  SessionInv'
<1> DEFINE new == [NoSessionYet EXCEPT !.status = "starting", !.robot = r]
<1>1. new \in Session /\ Unfinished(new) /\ new.robot = r /\ new.sequence = 0
  <2>1. NoSessionYet \in Session /\ NoSessionYet.sequence = 0
    BY ManualSessionAssumption DEF NoSessionYet, Session, Status
  <2>2. /\ new \in Session /\ new.status = "starting" /\ new.robot = r
        /\ new.sequence = 0
    BY <2>1 DEF Session, Status
  <2>. QED BY <2>2 DEF Unfinished
<1>2. /\ sessions \in [SessionIds -> Session]
      /\ saved \in [SessionIds -> Session]
      /\ inputs \in [SessionIds -> Axes]
      /\ controlLocks \in [Robots -> SessionIds \cup {NoSession}]
  BY DEF SessionInv, SessionTypeOK
<1>3. controlLocks' = [controlLocks EXCEPT ![r] = s]
  BY LocksStand DEF Acquire
<1>4. sessions'[s] = new /\ saved'[s] = new
  BY <1>2 DEF Acquire, SessionsAfter, SavedAfter
<1> HIDE DEF new
<1>5. \A t \in SessionIds \ {s} :
        /\ sessions'[t] \in Session
        /\ Unfinished(sessions'[t]) <=> Unfinished(sessions[t])
        /\ sessions'[t].robot = sessions[t].robot
        /\ sessions'[t].sequence >= sessions[t].sequence
  BY <1>2, StoppedSession DEF Acquire, SessionsAfter, Session
<1>6. \A t \in SessionIds \ {s} :
        /\ saved'[t] \in Session
        /\ saved'[t] = saved[t] \/ saved'[t] = sessions'[t]
  BY <1>2, StoppedSession DEF Acquire, SavedAfter, SessionsAfter, Halting,
     Lapsed
<1>7. SessionTypeOK'
  <2>1. sessions' \in [SessionIds -> Session]
    BY <1>1, <1>4, <1>5 DEF Acquire, SessionsAfter
  <2>2. saved' \in [SessionIds -> Session]
    BY <1>1, <1>4, <1>6 DEF Acquire, SavedAfter
  <2>3. inputs' \in [SessionIds -> Axes]
    BY <1>2 DEF Acquire, InputsAfter, Axes
  <2>. QED BY <1>2, <1>3, <2>1, <2>2, <2>3 DEF Acquire, SessionInv, SessionTypeOK
<1>8. LockIsTheSession'
  <2>1. \A t \in SessionIds : ~(Unfinished(sessions[t]) /\ sessions[t].robot = r)
    BY DEF Acquire, Current
  <2>2. ~Unfinished(sessions[s])
    BY DEF Acquire, Unfinished
  <2>3. ASSUME NEW q \in Robots, NEW t \in SessionIds
        PROVE  (controlLocks'[q] = t)
                 <=> (Unfinished(sessions'[t]) /\ sessions'[t].robot = q)
    <3>1. CASE q = r
      BY <3>1, <2>1, <1>1, <1>2, <1>3, <1>4, <1>5
    <3>2. CASE q # r
      BY <3>2, <2>2, <1>1, <1>2, <1>3, <1>4, <1>5
         DEF SessionInv, LockIsTheSession
    <3>. QED BY <3>1, <3>2
  <2>. QED BY <2>3 DEF LockIsTheSession
<1>9. RowsKeepReservations'
  BY <1>1, <1>2, <1>4, <1>5, <1>6
     DEF SessionInv, RowsKeepReservations, Session
<1>. QED BY <1>7, <1>8, <1>9 DEF SessionInv

\* An input raises the sequence number in memory only.
LEMMA PutInputKeepsInv ==
  ASSUME SessionInv, NEW s \in SessionIds, NEW c \in 1..MaxInput,
         NEW a \in {"zero", "move"}, PutInput(s, c, a)
  PROVE  SessionInv'
<1> DEFINE x == sessions[s]
           n == x.sequence + 1
           y == [x EXCEPT !.client = c, !.sequence = n]
<1>1. x \in Session /\ sessions \in [SessionIds -> Session]
  BY DEF SessionInv, SessionTypeOK
<1>2. n \in Nat /\ n >= x.sequence
  BY <1>1 DEF Session
<1>3. c \in 0..MaxInput
  BY ManualSessionAssumption
<1>4. sessions' = [sessions EXCEPT ![s] = y]
  BY <1>1 DEF PutInput, Session
<1> HIDE DEF n, x
<1>5. y \in Session /\ y.robot = x.robot /\ y.status = x.status
      /\ y.sequence = n
  BY <1>1, <1>2, <1>3 DEF Session
<1> HIDE DEF y
<1>6. Unfinished(y) <=> Unfinished(x)
  BY <1>5 DEF Unfinished
<1>7. SessionTypeOK'
  <2>1. /\ inputs' = [inputs EXCEPT ![s] = a]
        /\ ttl' = [ttl EXCEPT ![s] = InputTicks]
        /\ saved' = saved /\ controlLocks' = controlLocks
    BY DEF PutInput
  <2>2. sessions' \in [SessionIds -> Session]
    BY <1>1, <1>4, <1>5
  <2>3. inputs' \in [SessionIds -> Axes]
    BY <2>1 DEF SessionInv, SessionTypeOK, Axes
  <2>4. ttl' \in [SessionIds -> 0..InputTicks]
    <3>1. InputTicks \in 0..InputTicks
      BY ManualSessionAssumption
    <3>. QED BY <2>1, <3>1 DEF SessionInv, SessionTypeOK
  <2>. QED BY <2>1, <2>2, <2>3, <2>4 DEF SessionInv, SessionTypeOK
<1>8. LockIsTheSession'
  <2>1. controlLocks' = controlLocks
    BY DEF PutInput
  <2>. QED BY <2>1, <1>1, <1>4, <1>5, <1>6 DEF SessionInv, LockIsTheSession, x
<1>9. RowsKeepReservations'
  <2>1. saved' = saved /\ saved[s].sequence \in Nat /\ x.sequence \in Nat
    BY <1>1 DEF PutInput, SessionInv, SessionTypeOK, Session
  <2>2. saved[s].sequence <= x.sequence
    BY DEF SessionInv, RowsKeepReservations, x
  <2>3. saved[s].sequence <= n
    BY <2>1, <2>2, <1>2
  <2>. QED BY <2>1, <2>3, <1>1, <1>4, <1>5, <1>6
     DEF SessionInv, RowsKeepReservations, x
<1>. QED BY <1>7, <1>8, <1>9 DEF SessionInv

\* A receipt frees the robot exactly when it closes its session, and that is
\* written at once.
LEMMA ReceiptKeepsInv ==
  ASSUME SessionInv, NEW s \in SessionIds, NEW n \in Nat, NEW k \in Reports,
         Receipt(s, n, k)
  PROVE  SessionInv'
<1> DEFINE x == sessions[s]
           status == IF k = "failed" THEN "failed"
                     ELSE IF Closes(x, n, k) THEN "closed"
                     ELSE IF k = "ready" /\ x.status = "starting" THEN "active"
                     ELSE x.status
           y == [x EXCEPT !.applied = n, !.status = status]
<1>1. /\ x \in Session /\ sessions \in [SessionIds -> Session]
      /\ saved \in [SessionIds -> Session]
      /\ controlLocks \in [Robots -> SessionIds \cup {NoSession}]
  BY DEF SessionInv, SessionTypeOK
<1>2. Unfinished(x)
  BY DEF Receipt, Accepts
<1>3. /\ sessions' = [sessions EXCEPT ![s] = y]
      /\ saved' = IF Recorded(x, status, k) THEN [saved EXCEPT ![s] = y]
                                            ELSE saved
      /\ inputs' = IF status \in {"failed", "closed"}
                     THEN [inputs EXCEPT ![s] = "none"] ELSE inputs
      /\ controlLocks' = IF status = "closed" /\ controlLocks[x.robot] = s
                           THEN [controlLocks EXCEPT ![x.robot] = NoSession]
                           ELSE controlLocks
      /\ ttl' = ttl
  BY <1>1 DEF Receipt, Session
<1>4. status \in Status
  BY <1>1 DEF Status, Session
<1>5. status # "closed" => status \notin {"none", "closed"}
  BY <1>2 DEF Unfinished
<1>6. status # x.status => Recorded(x, status, k)
  BY DEF Recorded
<1> HIDE DEF status, x
<1>7. y \in Session /\ y.robot = x.robot /\ y.status = status
      /\ y.sequence = x.sequence
  BY <1>1, <1>4 DEF Session
<1> HIDE DEF y
<1>8. Unfinished(y) <=> status # "closed"
  BY <1>5, <1>7 DEF Unfinished
<1>9. SessionTypeOK'
  BY <1>1, <1>3, <1>7, ManualSessionAssumption
     DEF SessionInv, SessionTypeOK, Axes
<1>10. LockIsTheSession'
  <2>1. \A r \in Robots, t \in SessionIds :
          (controlLocks[r] = t) <=> (Unfinished(sessions[t])
                                     /\ sessions[t].robot = r)
    BY DEF SessionInv, LockIsTheSession
  <2>2. ASSUME NEW r \in Robots, NEW t \in SessionIds
        PROVE  (controlLocks'[r] = t)
                 <=> (Unfinished(sessions'[t]) /\ sessions'[t].robot = r)
    <3>1. CASE status = "closed" /\ r = x.robot
      <4>1. controlLocks[r] = s
        BY <3>1, <2>1, <1>2 DEF x
      <4>2. controlLocks'[r] = NoSession
        BY <3>1, <4>1, <1>1, <1>3
      <4>3. t # s => controlLocks[r] # t
        BY <4>1
      <4>. QED BY <3>1, <4>2, <4>3, <2>1, <1>1, <1>3, <1>7, <1>8,
                  ManualSessionAssumption DEF x
    <3>2. CASE ~(status = "closed" /\ r = x.robot)
      <4>1. controlLocks'[r] = controlLocks[r]
        BY <3>2, <1>1, <1>3
      <4>2. t = s => (Unfinished(sessions'[t]) /\ sessions'[t].robot = r
                        <=> Unfinished(sessions[t]) /\ sessions[t].robot = r)
        BY <3>2, <1>1, <1>2, <1>3, <1>7, <1>8 DEF x
      <4>3. t # s => sessions'[t] = sessions[t]
        BY <1>1, <1>3
      <4>. QED BY <4>1, <4>2, <4>3, <2>1
    <3>. QED BY <3>1, <3>2
  <2>. QED BY <2>2 DEF LockIsTheSession
<1>11. RowsKeepReservations'
  <2>1. x.sequence \in Nat
    BY <1>1 DEF Session
  <2>2. CASE Recorded(x, status, k)
    BY <2>1, <2>2, <1>1, <1>3, <1>7, <1>8 DEF SessionInv, RowsKeepReservations
  <2>3. CASE ~Recorded(x, status, k)
    <3>1. status = x.status /\ saved' = saved
      BY <2>3, <1>3, <1>6
    <3>2. Unfinished(y)
      BY <3>1, <1>2, <1>7 DEF Unfinished
    <3>. QED BY <3>1, <3>2, <1>1, <1>2, <1>3, <1>7
             DEF SessionInv, RowsKeepReservations, x
  <2>. QED BY <2>2, <2>3
<1>. QED BY <1>9, <1>10, <1>11 DEF SessionInv

\* The rows bring back the reservations that memory held.
LEMMA RestartKeepsInv ==
  ASSUME SessionInv, RestartSessions
  PROVE  SessionInv'
<1>1. /\ saved \in [SessionIds -> Session]
      /\ sessions \in [SessionIds -> Session]
      /\ controlLocks \in [Robots -> SessionIds \cup {NoSession}]
  BY DEF SessionInv, SessionTypeOK
<1>2. \A s \in SessionIds :
        /\ sessions'[s] \in Session /\ saved'[s] = sessions'[s]
        /\ Unfinished(sessions'[s]) <=> Unfinished(sessions[s])
        /\ sessions'[s].robot = sessions[s].robot
  BY <1>1, RestoredSession
     DEF RestartSessions, SessionInv, RowsKeepReservations
<1>3. controlLocks' = controlLocks
  <2> DEFINE Holds(r, s) == Unfinished(saved[s]) /\ saved[s].robot = r
  <2>1. ASSUME NEW r \in Robots, NEW s \in SessionIds
        PROVE  (controlLocks[r] = s) <=> Holds(r, s)
    BY DEF SessionInv, LockIsTheSession, RowsKeepReservations
  <2>2. ASSUME NEW r \in Robots
        PROVE  Locked(saved, [q \in Robots |-> NoSession])[r] = controlLocks[r]
    <3>1. CASE \E s \in SessionIds : Holds(r, s)
      <4>1. PICK s \in SessionIds : Holds(r, s)  BY <3>1
      <4>2. \A t \in SessionIds : Holds(r, t) => t = s
        BY <4>1, <2>1
      <4>3. (CHOOSE t \in SessionIds : Holds(r, t)) = s
        BY <4>1, <4>2
      <4>. QED BY <3>1, <4>1, <4>3, <2>1 DEF Locked
    <3>2. CASE ~\E s \in SessionIds : Holds(r, s)
      BY <3>2, <2>1, <1>1 DEF Locked
    <3>. QED BY <3>1, <3>2
  <2>3. controlLocks' = Locked(saved, [q \in Robots |-> NoSession])
    BY DEF RestartSessions
  <2>. QED BY <2>2, <2>3, <1>1 DEF Locked
<1>4. SessionTypeOK'
  BY <1>1, <1>2, <1>3 DEF RestartSessions, SessionInv, SessionTypeOK, Axes
<1>5. LockIsTheSession'
  BY <1>2, <1>3 DEF SessionInv, LockIsTheSession
<1>6. RowsKeepReservations'
  BY <1>2 DEF RowsKeepReservations, Session
<1>. QED BY <1>4, <1>5, <1>6 DEF SessionInv

LEMMA LapseKeepsInv ==
  ASSUME SessionInv, NEW s \in SessionIds, LeaseLapses(s)
  PROVE  SessionInv'
<1> DEFINE y == [sessions[s] EXCEPT !.lapsed = TRUE]
<1>1. sessions \in [SessionIds -> Session]
  BY DEF SessionInv, SessionTypeOK
<1>2. sessions' = [sessions EXCEPT ![s] = y]
  BY DEF LeaseLapses
<1>3. y \in Session /\ y.robot = sessions[s].robot
      /\ y.status = sessions[s].status /\ y.sequence = sessions[s].sequence
  BY <1>1 DEF Session
<1> HIDE DEF y
<1>4. Unfinished(y) <=> Unfinished(sessions[s])
  BY <1>3 DEF Unfinished
<1>5. UNCHANGED <<saved, inputs, ttl, controlLocks>>
  BY DEF LeaseLapses
<1>6. SessionTypeOK'
  BY <1>1, <1>2, <1>3, <1>5 DEF SessionInv, SessionTypeOK
<1>7. LockIsTheSession'
  BY <1>1, <1>2, <1>3, <1>4, <1>5 DEF SessionInv, LockIsTheSession
<1>8. RowsKeepReservations'
  BY <1>1, <1>2, <1>3, <1>4, <1>5 DEF SessionInv, RowsKeepReservations
<1>. QED BY <1>6, <1>7, <1>8 DEF SessionInv

LEMMA AgeKeepsInv ==
  ASSUME SessionInv, InputsAge
  PROVE  SessionInv'
<1>1. \A n \in 0..InputTicks : Aged(n) \in 0..InputTicks
  BY ManualSessionAssumption DEF Aged
<1>2. ttl' \in [SessionIds -> 0..InputTicks]
  BY <1>1 DEF InputsAge, SessionInv, SessionTypeOK
<1>. QED BY <1>2 DEF InputsAge, SessionInv, SessionTypeOK, LockIsTheSession,
            RowsKeepReservations

LEMMA StepKeepsInv == SessionInv /\ [SessionNext]_sessionVars => SessionInv'
<1>. SUFFICES ASSUME SessionInv, [SessionNext]_sessionVars
              PROVE  SessionInv'
  OBVIOUS
<1>1. ASSUME NEW s \in SessionIds, NEW r \in Robots, Acquire(s, r)
      PROVE  SessionInv'
  BY <1>1, AcquireKeepsInv
<1>2. ASSUME NEW s \in SessionIds, NEW c \in 1..MaxInput,
             NEW a \in {"zero", "move"}, PutInput(s, c, a)
      PROVE  SessionInv'
  BY <1>2, PutInputKeepsInv
<1>3. ASSUME NEW s \in SessionIds, Release(s)
      PROVE  SessionInv'
  BY <1>3, StopKeepsInv DEF Release
<1>4. CASE SessionTime
  <2>1. CASE Expire
    <3>1. controlLocks' = controlLocks
      BY <2>1, LocksStand DEF Expire
    <3>2. Lapsed \in SUBSET SessionIds /\ StopAll(Lapsed) /\ ttl' = ttl
      BY <2>1 DEF Expire, Lapsed
    <3>. QED BY <3>1, <3>2, StopKeepsInv
  <2>. QED BY <1>4, <2>1, LapseKeepsInv DEF SessionTime
<1>5. CASE InputsAge
  BY <1>5, AgeKeepsInv
<1>6. ASSUME NEW s \in SessionIds, NEW n \in 0..(MaxSequence + MaxInput + 1),
             NEW k \in Reports, Receipt(s, n, k)
      PROVE  SessionInv'
  BY <1>6, ReceiptKeepsInv
<1>7. CASE Shutdown
  BY <1>7, StopKeepsInv DEF Shutdown
<1>8. CASE RestartSessions
  BY <1>8, RestartKeepsInv
<1>9. CASE UNCHANGED sessionVars
  BY <1>9 DEF sessionVars, SessionInv, SessionTypeOK, LockIsTheSession,
     RowsKeepReservations
<1>. QED BY <1>1, <1>2, <1>3, <1>4, <1>5, <1>6, <1>7, <1>8, <1>9
         DEF SessionNext, Operator

LEMMA InvHolds == SessionSpec => []SessionInv
  BY InitInv, StepKeepsInv, PTL DEF SessionSpec

-----------------------------------------------------------------------------
\* Every table of the sessions keeps its type.
THEOREM SessionTypeCorrect == SessionSpec => []SessionTypeOK
  BY InvHolds, PTL DEF SessionInv

\* For any number of robots, sessions and restarts, whatever the adapters
\* report: a robot is locked exactly by its one unfinished session.
THEOREM ExclusiveControl == SessionSpec => []LockIsTheSession
  BY InvHolds, PTL DEF SessionInv

\* The database always holds exactly the reservations that memory holds, so a
\* restart at any moment neither loses nor revives one.
THEOREM RestartIsSafe == SessionSpec => []RowsKeepReservations
  BY InvHolds, PTL DEF SessionInv
=============================================================================
