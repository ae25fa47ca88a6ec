------------------------------ MODULE MCPumpLive ------------------------------
(* Driving by hand under fairness: one session with two inputs, or one and a *)
(* crash of the adapter; or a session with an input and one after it.      *)
EXTENDS ControlPump

CONSTANTS First, Second   \* the two sessions, in the order they are acquired

\* Leaving the instance takes an acquisition, an input or a crash: nothing that
\* fairness promises.
Instance ==
  \/ /\ sessions[Second].status = "none"
     /\ sessions[First].client + crashes <= MaxInput
  \/ /\ sessions[First].status # "none" /\ crashes = 0
     /\ sessions[First].client <= 1 /\ sessions[Second].client = 0
=============================================================================
