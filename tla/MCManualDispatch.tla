-------------------------- MODULE MCManualDispatch --------------------------
(* A platform with runs and sessions.  To keep the instance small a life    *)
(* of the platform has either all of its runs, when the sessions and the    *)
(* last extra order are of the past, or one run fewer and the rest.         *)
EXTENDS ManualDispatch, TLC

AllEquipped == [m \in Missions |-> Robots]

SpentRun == [NoMissionYet EXCEPT !.status = "aborted"]
SpentOrder == [NoOrderYet EXCEPT !.state = "done"]
SpentSession == [S!NoSessionYet EXCEPT !.status = "closed", !.sequence = 1]

AllRuns ==
  /\ missions = [m \in Missions |-> NoMissionYet]
  /\ orders = [o \in OrderIds |->
       IF o = <<"extra", MaxExtra>> THEN SpentOrder ELSE NoOrderYet]
  /\ sessions = [s \in SessionIds |-> SpentSession]

OneRunFewer ==
  /\ missions = [m \in Missions |-> IF m = MaxMissions THEN SpentRun
                                                       ELSE NoMissionYet]
  /\ orders = [o \in OrderIds |-> NoOrderYet]
  /\ sessions = [s \in SessionIds |-> S!NoSessionYet]

MCInit ==
  /\ AllRuns \/ OneRunFewer
  /\ dropped = {} /\ served = {} /\ online = {}
  /\ pin = [r \in Robots |-> NoMission]
  /\ level = [r \in Robots |-> "absent"]
  /\ battery = [r \in Robots |-> "ok"]
  /\ schedules = [s \in Schedules |-> NoScheduleYet]
  /\ saved = sessions
  /\ inputs = [s \in SessionIds |-> "none"] /\ ttl = [s \in SessionIds |-> 0]
  /\ controlLocks = [r \in Robots |-> NoSession]
  /\ read = {}

MCSpec == MCInit /\ [][ManualNext]_manualVars /\ ManualFairness
=============================================================================
