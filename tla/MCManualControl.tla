--------------------------- MODULE MCManualControl ---------------------------
(* Driving one robot by hand in one state graph: the adapter's loop with one *)
(* session, inputs and a crash; the loop with one session after the other;  *)
(* and the panel in the browser with one session.  A behaviour keeps to one *)
(* of the three, and the others stay as they were at the start.             *)
EXTENDS ControlPump, OperatorPanel, TLC

VARIABLE scope   \* "loop", "handover" or "panel"

controlVars == <<vars, panelVars, scope>>

ControlInit == Init /\ PanelInit /\ scope \in {"loop", "handover", "panel"}

\* One of the sessions is never acquired.
OneSession == \E s \in SessionIds : sessions'[s].status = "none"

\* The smaller instance for two sessions: no crash, one input in one of them,
\* and a restart before a session was stopped twice.
Small ==
  /\ crashes' = 0 /\ \A s \in SessionIds : saved'[s].sequence <= 2
  /\ \A s, t \in SessionIds :
       sessions'[s].client + (IF s = t THEN 0 ELSE sessions'[t].client) <= 1

ControlNext ==
  /\ UNCHANGED scope
  /\ \/ scope = "loop" /\ Next /\ UNCHANGED panelVars /\ OneSession
     \/ scope = "handover" /\ Next /\ UNCHANGED panelVars /\ Small
     \/ scope = "panel" /\ PanelNext /\ UNCHANGED pumpVars /\ OneSession

ControlSpec == ControlInit /\ [][ControlNext]_controlVars

ControlTypeOK == PumpTypeOK /\ PanelTypeOK

Symmetry == Permutations(SessionIds)
=============================================================================
