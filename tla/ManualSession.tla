---------------------------- MODULE ManualSession ----------------------------
(***************************************************************************)
(* Manual-control sessions: the platform's side of driving a robot by hand *)
(* (server/src/control.ts).                                                *)
(*                                                                         *)
(* A session reserves its robot from the acquisition until the adapter     *)
(* confirms, with the session's current sequence number, that the robot    *)
(* stands still.  An operator keeps it alive with inputs; silence, a       *)
(* release, a failure or a platform restart turn it into a stop request.   *)
(* The row in the database lags the session in memory: inputs raise the    *)
(* sequence number without writing it.                                     *)
(*                                                                         *)
(* Time is counted in ticks of INPUT_MS / InputTicks; the lease (1.5 s, or *)
(* 5 s before the first input) outlasts the input (400 ms).                *)
(***************************************************************************)
EXTENDS Integers

CONSTANTS
  Robots, NoRobot,
  SessionIds, NoSession,  \* sessions ever acquired
  InputTicks,             \* INPUT_MS, in ticks
  MaxInput,               \* bound: the operator's own sequence numbers
  MaxSequence             \* bound on restarts: sequence numbers of a session

ASSUME ManualSessionAssumption ==
  /\ NoRobot \notin Robots /\ NoSession \notin SessionIds
  /\ InputTicks \in Nat /\ MaxInput \in Nat /\ MaxSequence \in Nat

VARIABLES
  sessions,      \* session -> its record in memory
  saved,         \* session -> its row in control_sessions
  inputs,        \* session -> the input in force
  ttl,           \* session -> ticks until its last input expires
  controlLocks   \* robot -> session that reserves it

sessionVars == <<sessions, saved, inputs, ttl, controlLocks>>

-----------------------------------------------------------------------------
Status  == {"none", "starting", "active", "stopping", "failed", "closed"}
Session == [status: Status, robot: Robots \cup {NoRobot}, lapsed: BOOLEAN,
            sequence: Nat, client: 0..MaxInput, applied: Nat \cup {-1}]
Axes    == {"none", "zero", "move"}
Reports == {"ready", "applied", "stopped", "failed"}

NoSessionYet == [status |-> "none", robot |-> NoRobot, lapsed |-> FALSE,
                 sequence |-> 0, client |-> 0, applied |-> -1]

SessionInit ==
  /\ sessions = [s \in SessionIds |-> NoSessionYet]
  /\ saved = sessions
  /\ inputs = [s \in SessionIds |-> "none"]
  /\ ttl = [s \in SessionIds |-> 0]
  /\ controlLocks = [r \in Robots |-> NoSession]

-----------------------------------------------------------------------------
\* Variant: a session whose adapter failed no longer holds its robot.
UnfinishedUnlessFailed(x) == x.status \notin {"none", "closed", "failed"}

Unfinished(x) == x.status \notin {"none", "closed"}
Driven(x)     == x.status \in {"starting", "active"}
Current(r)    == {s \in SessionIds : Unfinished(sessions[s])
                                     /\ sessions[s].robot = r}

\* A stop request is numbered like an input, and made once.
Stopped(x) ==
  IF Driven(x)
    THEN [x EXCEPT !.status = "stopping", !.sequence = x.sequence + 1]
    ELSE x

\* Every unfinished session of ss holds its robot's lock.
Locked(ss, locks) ==
  [r \in Robots |->
     IF \E s \in SessionIds : Unfinished(ss[s]) /\ ss[s].robot = r
       THEN CHOOSE s \in SessionIds : Unfinished(ss[s]) /\ ss[s].robot = r
       ELSE locks[r]]

\* The sessions of S that are still driven are stopped and saved.
Halting(S)       == {s \in S : Driven(sessions[s])}
SessionsAfter(S) == [s \in SessionIds |-> IF s \in S THEN Stopped(sessions[s])
                                                     ELSE sessions[s]]
SavedAfter(S)    == [s \in SessionIds |->
                       IF s \in Halting(S) THEN Stopped(sessions[s])
                                           ELSE saved[s]]
InputsAfter(S)   == [s \in SessionIds |->
                       IF s \in Halting(S) THEN "none" ELSE inputs[s]]

StopAll(S) == /\ sessions' = SessionsAfter(S)
              /\ saved' = SavedAfter(S)
              /\ inputs' = InputsAfter(S)

\* The leases that ran out.  The sweep stops them and puts back the locks of
\* unfinished sessions; most handlers begin with it.
Lapsed == {s \in SessionIds : Driven(sessions[s]) /\ sessions[s].lapsed}

-----------------------------------------------------------------------------
(* The operator's calls.                                                   *)

Acquire(s, r) ==
  /\ sessions[s].status = "none" /\ Current(r) = {}
  /\ sessions' = [SessionsAfter(Lapsed) EXCEPT
                    ![s] = [NoSessionYet EXCEPT !.status = "starting",
                                                !.robot = r]]
  /\ saved' = [SavedAfter(Lapsed) EXCEPT ![s] = sessions'[s]]
  /\ inputs' = InputsAfter(Lapsed)
  /\ controlLocks' = [Locked(sessions, controlLocks) EXCEPT ![r] = s]
  /\ UNCHANGED ttl

\* Variant: the input that arrives last counts.
NeverStale(x, client) == FALSE
Stale(x, client) == client <= x.client

\* Inputs count up; only an active session moves the robot.  Nothing is saved.
PutInput(s, client, axes) ==
  /\ Driven(sessions[s]) /\ ~sessions[s].lapsed
  /\ ~Stale(sessions[s], client)
  /\ sessions[s].status = "starting" => axes = "zero"
  /\ sessions' = [sessions EXCEPT ![s].client = client,
                                  ![s].sequence = @ + 1]
  /\ inputs' = [inputs EXCEPT ![s] = axes]
  /\ ttl' = [ttl EXCEPT ![s] = InputTicks]
  /\ UNCHANGED <<saved, controlLocks>>

\* The owner's release, any operator's stop, an input after the lease.
Release(s) == /\ Driven(sessions[s])
              /\ StopAll({s}) /\ UNCHANGED <<ttl, controlLocks>>

-----------------------------------------------------------------------------
(* The adapter's calls.                                                    *)

\* Variant: any confirmation closes a stopping session, current or not.
ClosesAnySequence(x, n, report) ==
  report = "stopped" /\ x.status \in {"stopping", "failed"}

\* Only a stop confirmed at the current sequence number ends a session.
Closes(x, n, report) ==
  /\ report = "stopped" /\ x.status \in {"stopping", "failed"}
  /\ n = x.sequence

\* Variant: a second receipt of the same sequence number is refused.
AcceptsOnce(x, n) == Unfinished(x) /\ n > x.applied /\ n <= x.sequence

\* A receipt may not be newer than the session or older than the last one.
Accepts(x, n) == Unfinished(x) /\ n \in x.applied..x.sequence

\* Variant: the end of a session is not written.
RecordedUnlessClosed(x, status, report) ==
  status # x.status /\ status # "closed"

\* A receipt is written when it fails the session or changes its status.
Recorded(x, status, report) == status # x.status \/ report = "failed"

Receipt(s, n, report) ==
  LET x == sessions[s]
      status == IF report = "failed" THEN "failed"
                ELSE IF Closes(x, n, report) THEN "closed"
                ELSE IF report = "ready" /\ x.status = "starting" THEN "active"
                ELSE x.status
  IN /\ Accepts(x, n)
     /\ sessions' = [sessions EXCEPT ![s].applied = n, ![s].status = status]
     /\ saved' = IF Recorded(x, status, report)
                   THEN [saved EXCEPT ![s] = sessions'[s]] ELSE saved
     /\ inputs' = IF status \in {"failed", "closed"}
                    THEN [inputs EXCEPT ![s] = "none"] ELSE inputs
     /\ controlLocks' = IF status = "closed" /\ controlLocks[x.robot] = s
                          THEN [controlLocks EXCEPT ![x.robot] = NoSession]
                          ELSE controlLocks
     /\ UNCHANGED ttl

\* The frame of a session x that an adapter reads; its axes are void once the
\* input expired.
NoFrame == [id |-> NoSession]
FrameOf(x, s, input) ==
  [id |-> s, sequence |-> x.sequence, status |-> x.status,
   moves |-> input = "move" /\ ttl[s] > 0 /\ x.status = "active",
   remaining |-> IF input = "none" THEN 0 ELSE ttl[s]]

-----------------------------------------------------------------------------
(* Time, shutdown and restart.                                             *)

\* A lease outlasts the input that renewed it.
LeaseLapses(s) ==
  /\ Driven(sessions[s]) /\ ~sessions[s].lapsed
  /\ ttl[s] = 0
  /\ sessions' = [sessions EXCEPT ![s].lapsed = TRUE]
  /\ UNCHANGED <<saved, inputs, ttl, controlLocks>>

\* Variant: what is left of an input is not cut off at zero.
AgedBelowZero(n) == n - 1

Aged(n) == IF n > 0 THEN n - 1 ELSE 0

\* The 100 ms sweep.
Expire == /\ Lapsed # {}
          /\ StopAll(Lapsed)
          /\ controlLocks' = Locked(sessions, controlLocks)
          /\ UNCHANGED ttl

Shutdown == StopAll(SessionIds) /\ UNCHANGED <<ttl, controlLocks>>

\* What a restart makes of the rows: every open session is a stop request.
Restored(x) ==
  IF Unfinished(x)
    THEN [x EXCEPT !.status = "stopping", !.sequence = x.sequence + 1]
    ELSE x

\* Inputs are never saved; ttl still says how old the lost input is.
RestartSessions ==
  /\ \A s \in SessionIds : saved[s].sequence < MaxSequence
  /\ sessions' = [s \in SessionIds |-> Restored(saved[s])]
  /\ saved' = sessions'
  /\ inputs' = [s \in SessionIds |-> "none"]
  /\ controlLocks' = Locked(saved, [r \in Robots |-> NoSession])
  /\ UNCHANGED ttl

-----------------------------------------------------------------------------
Operator ==
  \/ \E s \in SessionIds, r \in Robots : Acquire(s, r)
  \/ \E s \in SessionIds, c \in 1..MaxInput, a \in {"zero", "move"} :
       PutInput(s, c, a)
  \/ \E s \in SessionIds : Release(s)

SessionTime == \/ \E s \in SessionIds : LeaseLapses(s)
               \/ Expire

InputsAge == /\ \E s \in SessionIds : ttl[s] > 0
             /\ ttl' = [s \in SessionIds |-> Aged(ttl[s])]
             /\ UNCHANGED <<sessions, saved, inputs, controlLocks>>

\* The sessions by themselves, whatever the adapters report.
SessionNext ==
  \/ Operator \/ SessionTime \/ InputsAge
  \/ \E s \in SessionIds, n \in 0..(MaxSequence + MaxInput + 1), k \in Reports :
       Receipt(s, n, k)
  \/ Shutdown
  \/ RestartSessions

SessionSpec == SessionInit /\ [][SessionNext]_sessionVars

-----------------------------------------------------------------------------
SessionTypeOK ==
  /\ sessions \in [SessionIds -> Session]
  /\ saved \in [SessionIds -> Session]
  /\ inputs \in [SessionIds -> Axes]
  /\ ttl \in [SessionIds -> 0..InputTicks]
  /\ controlLocks \in [Robots -> SessionIds \cup {NoSession}]

\* Exclusive control: a robot is locked exactly while one session of it is
\* unfinished, and by that session; two operators never hold one robot.
LockIsTheSession ==
  \A r \in Robots, s \in SessionIds :
    (controlLocks[r] = s) <=> (Unfinished(sessions[s])
                               /\ sessions[s].robot = r)

\* A restart neither forgets a reservation nor brings back a released one: the
\* rows agree with memory on which sessions hold which robot.
RowsKeepReservations ==
  \A s \in SessionIds :
    /\ Unfinished(saved[s]) <=> Unfinished(sessions[s])
    /\ saved[s].robot = sessions[s].robot
    /\ saved[s].sequence <= sessions[s].sequence
=============================================================================
