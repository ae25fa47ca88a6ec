----------------------------- MODULE MCDispatch -----------------------------
(* Instances of Dispatch for TLC.                                          *)
EXTENDS Dispatch, TLC

\* Every robot carries what every run needs.
AllEquipped == [m \in Missions |-> Robots]

\* Run 2 needs a payload that some robots lack.
SomeEquipped == [m \in Missions |->
                   IF m = 2 THEN {CHOOSE r \in Robots : TRUE} ELSE Robots]

\* To keep the instance small a life of the platform has either all of its runs
\* and its schedules, when the extra orders are of the past, or one run fewer,
\* no schedule, and the extra orders.
SpentRun      == [NewMission(AnyRobot, 1, NoSchedule) EXCEPT !.status = "aborted"]
SpentOrder    == [NewOrder("goto", CHOOSE r \in Robots : TRUE, NoMission)
                    EXCEPT !.state = "done"]
SpentSchedule == [NoScheduleYet EXCEPT !.life = "deleted"]

AllRuns ==
  /\ missions = [m \in Missions |-> NoMissionYet]
  /\ orders = [o \in OrderIds |-> IF o \in Extra THEN SpentOrder ELSE NoOrderYet]
  /\ schedules = [s \in Schedules |-> NoScheduleYet]

OneRunFewer ==
  /\ missions = [m \in Missions |-> IF m = 1 THEN SpentRun ELSE NoMissionYet]
  /\ orders = [o \in OrderIds |-> NoOrderYet]
  /\ schedules = [s \in Schedules |-> SpentSchedule]

CrashInit ==
  /\ AllRuns \/ OneRunFewer
  /\ served = {o \in OrderIds : orders[o].state = "done"}
  /\ dropped = {} /\ online = {}
  /\ pin = [r \in Robots |-> NoMission]
  /\ level = [r \in Robots |-> "absent"]
  /\ battery = [r \in Robots |-> "ok"]
  /\ controlLocks = [r \in Robots |-> NoSession]

CrashSpec == CrashInit /\ [][Next]_vars

Symmetry == Permutations(Robots)
=============================================================================
