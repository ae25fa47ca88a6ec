----------------------------- MODULE MCServices -----------------------------
(* Services of the platform in one state graph: patrols with plans,         *)
(* recordings, video analysis, and the console that shows a site.  In a     *)
(* behaviour one of them takes all steps and the others stay at their       *)
(* initial states, where no step of theirs is fair, so each is checked as   *)
(* if it were alone.                                                        *)
EXTENDS PtzPatrol, Recordings, Vision, Console, TLC

VARIABLE service   \* "patrols", "recordings", "analysis" or "console"

serviceVars == <<vars, recVars, visVars, conVars, service>>

ServicesInit ==
  /\ Init /\ RecInit /\ VisInit /\ ConInit
  /\ service \in {"patrols", "recordings", "analysis", "console"}
  /\ service # "console" => ws = NoSocket /\ siteId = CHOOSE s \in Sites : TRUE

ServicesNext ==
  /\ UNCHANGED service
  /\ \/ service = "patrols" /\ Next /\ UNCHANGED <<recVars, visVars, conVars>>
     \/ service = "recordings" /\ RecNext /\ UNCHANGED <<vars, visVars, conVars>>
     \/ service = "analysis" /\ VisNext /\ UNCHANGED <<vars, recVars, conVars>>
     \/ service = "console" /\ ConNext /\ UNCHANGED <<vars, recVars, visVars>>

ServicesSpec ==
  /\ ServicesInit /\ [][ServicesNext]_serviceVars
  /\ Fairness /\ RecFairness /\ VisFairness /\ ConFairness

\* The type invariants of the four, and a plan names presets of its own camera,
\* whatever is edited or deleted around it (ptz.ts:204-268).
ServicesTypeOK ==
  TypeOK /\ PlanPresetsExist /\ RecTypeOK /\ VisTypeOK /\ ConTypeOK
=============================================================================
