------------------------------ MODULE MCRecords ------------------------------
(* What the platform keeps on record, in one state graph: the orders,       *)
(* presets and runs of camera patrols, the identities given out by a world, *)
(* the registry of the organization and of the inspected assets, the times  *)
(* of a schedule, the judgements and results of video analysis, and         *)
(* the points of a site, drawn in a browser or driven to by a robot: a save *)
(* of a page is to the robot a request like any other.  In a behaviour one  *)
(* part takes all steps, the others stay as they were.                      *)
EXTENDS PtzPatrol, Ledger, Registry, Cadence, Previews, SitePoints,
        Watching, TLC

VARIABLE part   \* which of them takes the steps

recordVars ==
  <<vars, ledgerVars, regVars, cadVars, prevVars, pointVars, watchVars, part>>

AnyCadence ==
  /\ shift.by = 0 /\ hour = 0 /\ plan.what = "mission" /\ plan.cadence.kind = "once"

AnyOf(S) == CHOOSE x \in S : TRUE

\* The hours of an analysis: always, over midnight, a whole day.
Hours ==
  {[days |-> {0, 1}, start |-> 0, end |-> 0], [days |-> {0}, start |-> 2, end |-> 1],
   [days |-> {1}, start |-> 0, end |-> 0]}

\* Where a part starts in many states, they are told apart in its own
\* behaviours only.
RecordsInit ==
  /\ part \in {"patrols", "ledger", "organization", "records", "schedules",
               "previews", "judging", "drawing", "driving"}
  /\ Init /\ LedgerInit /\ PrevInit
  /\ RegInit /\ (part \notin {"organization", "records"} => \A u \in Users : roles[u] = "admin")
  /\ CadInit /\ (part # "schedules" => AnyCadence)
  /\ PointInit /\ (part \notin {"drawing", "driving"} => stored = NoBody.points)
  /\ part # "drawing" => row = NoPoint
  /\ WatchInit /\ (part # "judging" => kind = AnyOf(RuleKinds) /\ schedule = AnyOf(Schedules))

\* Accounts change with either half of the registry, which know of each other
\* through accounts alone.
RecordsNext ==
  /\ UNCHANGED part
  /\ \/ part = "patrols" /\ Next /\ UNCHANGED <<ledgerVars, regVars, cadVars, prevVars, pointVars, watchVars>>
     \/ part = "ledger" /\ LedgerNext /\ UNCHANGED <<vars, regVars, cadVars, prevVars, pointVars, watchVars>>
     \/ part = "organization" /\ (Accounts \/ Organization)
          /\ UNCHANGED <<vars, ledgerVars, cadVars, prevVars, pointVars, watchVars>>
     \/ part = "records" /\ (Accounts \/ Records)
          /\ UNCHANGED <<vars, ledgerVars, cadVars, prevVars, pointVars, watchVars>>
     \/ part = "schedules" /\ CadNext
          /\ UNCHANGED <<vars, ledgerVars, regVars, prevVars, pointVars, watchVars>>
     \/ part = "previews" /\ PrevNext
          /\ UNCHANGED <<vars, ledgerVars, regVars, cadVars, pointVars, watchVars>>
     \/ part = "judging" /\ WatchNext
          /\ UNCHANGED <<vars, ledgerVars, regVars, cadVars, prevVars, pointVars>>
     \/ part = "drawing" /\ (SiteSteps \/ PageSteps)
          /\ UNCHANGED <<vars, ledgerVars, regVars, cadVars, prevVars, watchVars>>
     \/ part = "driving" /\ (SiteSteps \/ RobotSteps)
          /\ UNCHANGED <<vars, ledgerVars, regVars, cadVars, prevVars, watchVars>>

RecordsSpec == RecordsInit /\ [][RecordsNext]_recordVars

RecordsTypeOK ==
  /\ TypeOK /\ LedgerTypeOK /\ RegTypeOK
  /\ CadTypeOK /\ PrevTypeOK /\ PointTypeOK /\ WatchTypeOK

\* Of video analysis: what is judged, and what becomes of results and pictures.
AnalysisHolds == EvidenceHolds /\ AlertsAreEarned

Symmetry == Permutations(Runs)
=============================================================================
