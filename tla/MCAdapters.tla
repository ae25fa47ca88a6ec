----------------------------- MODULE MCAdapters ------------------------------
(* The parties around the platform in one state graph: the connector        *)
(* processes, the order pump inside one of them, the sessions two of them   *)
(* keep with their robots, and the panels of the web console.  In a         *)
(* behaviour one part takes all steps and the others stay at their initial  *)
(* states.  There no step of theirs is fair: a session that nobody started  *)
(* has no dance, and a panel that nobody opened asks nothing.  So each part *)
(* is checked as if it were alone.                                          *)
EXTENDS Connectors, OrderPump, SpotSession, RobotServer, Panels, TLC

VARIABLE part   \* "processes", "orders", "session", "line" or "panels"

adapterVars == <<vars, orderVars, spotVars, lineVars, panelVars, part>>

AdaptersInit ==
  /\ part \in {"processes", "orders", "session", "line", "panels"}
  /\ Init /\ OrderInit /\ LineInit
  /\ part # "orders" => kit = CHOOSE k \in Kits : TRUE
  /\ IF part = "session" THEN SpotInit
     ELSE SpotBlank /\ dances = [d \in Dances |-> Idle]
  /\ view = CHOOSE v \in Views : TRUE
  /\ IF part = "panels" THEN PanelInit
     ELSE /\ PanelBlank
          /\ panel = "missions" /\ flights = [f \in Flights |-> NoFlight]

AdaptersNext ==
  /\ UNCHANGED part
  /\ \/ /\ part = "processes" /\ Next
        /\ UNCHANGED <<orderVars, spotVars, lineVars, panelVars>>
     \/ /\ part = "orders" /\ OrderNext
        /\ UNCHANGED <<vars, spotVars, lineVars, panelVars>>
     \/ /\ part = "session" /\ SpotNext
        /\ UNCHANGED <<vars, orderVars, lineVars, panelVars>>
     \/ /\ part = "line" /\ LineNext
        /\ UNCHANGED <<vars, orderVars, spotVars, panelVars>>
     \/ /\ part = "panels" /\ PanelNext
        /\ UNCHANGED <<vars, orderVars, spotVars, lineVars>>

AdaptersSpec ==
  /\ AdaptersInit /\ [][AdaptersNext]_adapterVars
  /\ Fairness /\ OrderFairness /\ SpotFairness /\ LineFairness /\ PanelFairness

\* The type invariants of the parts.
AdaptersTypeOK ==
  TypeOK /\ OrderTypeOK /\ SpotTypeOK /\ LineTypeOK /\ PanelTypeOK

\* What the two adapters say of their robots (spot main.ts:121-263 and
\* deeprobotics main.ts:134-256): the Spot adapter never rests on a session
\* nobody keeps, and DeepRobotics' answers, late or torn, mislead nobody.
LinksAreTrue ==
  /\ part = "session" => SessionIsTended
  /\ LineTellsTheTruth

\* And both get on: the session comes back, and a run does not wait for ever.
LinksComeBack ==
  /\ <>[](part = "session") => SessionComesBack
  /\ RunsSettle

\* Both: what is said of a robot is true, and something is said.
LinksHold == []LinksAreTrue /\ LinksComeBack
=============================================================================
