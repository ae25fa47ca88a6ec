---------------------------- MODULE OperatorPanel ----------------------------
(***************************************************************************)
(* The panel an operator drives a robot with, in the browser               *)
(* (web/src/components/ManualControl.tsx, ControlPanel), and the platform's *)
(* sessions (ManualSession) at the other end of HTTP requests that overtake *)
(* each other, arrive after the panel gave them up, or are lost.           *)
(*                                                                         *)
(* The panel repeats the axes of the pressed key as a heartbeat, sends at  *)
(* once when a key goes down or up, polls the session, and lets go when    *)
(* anything looks wrong.  A key is enough: which one does not matter.      *)
(***************************************************************************)
EXTENDS ManualSession, FiniteSets

CONSTANTS
  Driver,     \* the robot this panel is of
  MaxCalls    \* bound: inputs on their way to the platform

ASSUME OperatorPanelAssumption ==
  Driver \in Robots /\ MaxCalls \in Nat /\ {"no", "asked"} \cap SessionIds = {}

VARIABLES
  open,       \* alive: the panel is on the screen
  asking,     \* the request for a session: "no", "asked", or its session
  token,      \* the session this panel holds
  axes,       \* what the pressed key asks for
  panelSeq,   \* newest sequence number sent for this token
  inFlight,   \* an input of this panel is unanswered
  lease,      \* status of the session, as shown
  calls,      \* inputs on their way: [s, n, axes]
  deletes,    \* releases on their way
  awaited,    \* inputs the panel waits for: [s, n]
  answers,    \* answers on their way: [s, n, said]
  poll,       \* the session a poll saw, on its way: a set of at most one
  letGo,      \* sequence number of the input that the last key-up sent
  heard       \* newest input of this token that the platform confirmed

panelVars == <<open, asking, token, axes, panelSeq, inFlight, lease, calls,
               deletes, awaited, answers, poll, letGo, heard>>
panelAll == <<sessionVars, panelVars>>

-----------------------------------------------------------------------------
Taken == {"starting", "active"}   \* with the status of the session
Said  == Taken \cup {"stale", "over", "refused"}

PanelInit ==
  /\ SessionInit
  /\ open = TRUE /\ asking = "no" /\ token = NoSession /\ axes = "zero"
  /\ panelSeq = 0 /\ inFlight = FALSE /\ lease = "none"
  /\ calls = {} /\ deletes = {} /\ awaited = {} /\ answers = {} /\ poll = {}
  /\ letGo = 0 /\ heard = 0

\* release: the token is dropped first, then told.
LetsGo ==
  /\ token' = NoSession /\ axes' = "zero"
  /\ deletes' = IF token = NoSession THEN deletes ELSE deletes \cup {token}
  /\ UNCHANGED panelSeq

Holds == UNCHANGED <<token, axes, panelSeq, deletes>>

-----------------------------------------------------------------------------
(* What the operator does.                                                 *)

\* takeControl.
Asks == /\ open /\ asking = "no" /\ token = NoSession /\ asking' = "asked"
        /\ UNCHANGED <<sessionVars, open, token, axes, panelSeq, inFlight, lease,
                       calls, deletes, awaited, answers, poll, letGo, heard>>

Granted(s) ==
  /\ asking = "asked" /\ Acquire(s, Driver) /\ asking' = s
  /\ UNCHANGED <<open, token, axes, panelSeq, inFlight, lease, calls, deletes,
                 awaited, answers, poll, letGo, heard>>

\* Refused, or the answer is lost: the panel does not know of its session.
NotGranted ==
  /\ asking # "no" /\ asking' = "no"
  /\ UNCHANGED <<sessionVars, open, token, axes, panelSeq, inFlight, lease, calls,
                 deletes, awaited, answers, poll, letGo, heard>>

\* The grant of a panel that is gone is given back.
Takes ==
  /\ asking \in SessionIds /\ asking' = "no"
  /\ IF open
       THEN /\ token' = asking /\ axes' = "zero" /\ panelSeq' = 0
            /\ lease' = "starting" /\ letGo' = 0 /\ heard' = 0
            /\ UNCHANGED deletes
       ELSE /\ deletes' = deletes \cup {asking}
            /\ UNCHANGED <<token, axes, panelSeq, lease, letGo, heard>>
  /\ UNCHANGED <<sessionVars, open, inFlight, calls, awaited, answers, poll>>

\* sendInput.
Sends(a) ==
  /\ token # NoSession /\ panelSeq < MaxInput /\ Cardinality(calls) < MaxCalls
  /\ panelSeq' = panelSeq + 1 /\ inFlight' = TRUE
  /\ calls' = calls \cup {[s |-> token, n |-> panelSeq + 1, axes |-> a]}
  /\ awaited' = awaited \cup {[s |-> token, n |-> panelSeq + 1]}
  /\ UNCHANGED <<sessionVars, open, asking, token, lease, deletes, answers, poll,
                 heard>>

Presses ==
  /\ token # NoSession /\ lease = "active" /\ axes' = "move"
  /\ Sends("move") /\ UNCHANGED letGo

\* stop.
KeyUp ==
  /\ axes = "move" /\ axes' = "zero"
  /\ Sends("zero") /\ letGo' = panelSeq + 1

\* Every 180 ms, unless an input is unanswered.
Heartbeat == ~inFlight /\ Sends(axes) /\ UNCHANGED <<axes, letGo>>

\* The window loses the focus, is hidden or left.
Blurs ==
  /\ open /\ token # NoSession /\ LetsGo
  /\ UNCHANGED <<sessionVars, open, asking, inFlight, lease, calls, awaited,
                 answers, poll, letGo, heard>>
Unmounts ==
  /\ open /\ open' = FALSE /\ LetsGo
  /\ UNCHANGED <<sessionVars, asking, inFlight, lease, calls, awaited, answers,
                 poll, letGo, heard>>

-----------------------------------------------------------------------------
(* Requests arrive, in any order, and are answered.                        *)

Told(c, said) ==
  answers' = IF [s |-> c.s, n |-> c.n] \in awaited
               THEN answers \cup {[s |-> c.s, n |-> c.n, said |-> said]} ELSE answers

Arrives(c) ==
  /\ calls' = calls \ {c}
  /\ LET x == sessions[c.s] IN
       \/ /\ Driven(x) /\ x.lapsed /\ Release(c.s) /\ Told(c, "over")
       \/ /\ ~Driven(x) /\ Told(c, "over") /\ UNCHANGED sessionVars
       \/ /\ Driven(x) /\ ~x.lapsed /\ Stale(x, c.n) /\ Told(c, "stale")
          /\ UNCHANGED sessionVars
       \/ /\ Driven(x) /\ ~x.lapsed /\ ~Stale(x, c.n)
          /\ IF x.status = "starting" /\ c.axes = "move"
               THEN Told(c, "refused") /\ UNCHANGED sessionVars
               ELSE Told(c, x.status) /\ PutInput(c.s, c.n, c.axes)
  /\ UNCHANGED <<open, asking, token, axes, panelSeq, inFlight, lease, deletes,
                 awaited, poll, letGo, heard>>

DeleteArrives(s) ==
  /\ s \in deletes /\ deletes' = deletes \ {s}
  /\ IF Driven(sessions[s]) THEN Release(s) ELSE UNCHANGED sessionVars
  /\ UNCHANGED <<open, asking, token, axes, panelSeq, inFlight, lease, calls,
                 awaited, answers, poll, letGo, heard>>

\* An answer; an error lets go of the session the input was of, the news that
\* a session is over of whatever session the panel holds.
Answered(a) ==
  /\ answers' = answers \ {a} /\ awaited' = awaited \ {[s |-> a.s, n |-> a.n]}
  /\ inFlight' = FALSE
  /\ IF a.said = "over" \/ (a.said = "refused" /\ token = a.s) THEN LetsGo ELSE Holds
  /\ heard' = IF a.said \in Taken /\ token = a.s /\ a.n > heard THEN a.n ELSE heard
  /\ lease' = IF a.said \in Taken /\ open /\ token = a.s /\ a.n = panelSeq
                THEN a.said ELSE lease
  /\ UNCHANGED <<sessionVars, open, asking, calls, poll, letGo>>

\* No answer within 800 ms; the request may still arrive.
GivesUp(w) ==
  /\ w \in awaited /\ awaited' = awaited \ {w} /\ inFlight' = FALSE
  /\ answers' = {a \in answers : a.s # w.s \/ a.n # w.n}
  /\ IF open /\ token = w.s THEN LetsGo ELSE Holds
  /\ UNCHANGED <<sessionVars, open, asking, lease, calls, poll, letGo, heard>>

\* refresh, every 500 ms: what the platform says of the robot's session.
PollRead ==
  /\ open /\ poll = {}
  /\ poll' = {IF Current(Driver) = {} THEN [s |-> NoSession, status |-> "none"]
              ELSE LET s == CHOOSE s \in Current(Driver) : TRUE
                   IN [s |-> s, status |-> sessions[s].status]}
  /\ UNCHANGED <<sessionVars, open, asking, token, axes, panelSeq, inFlight, lease,
                 calls, deletes, awaited, answers, letGo, heard>>
PollAnswered(p) ==
  /\ p \in poll /\ poll' = {}
  /\ IF open THEN /\ lease' = p.status
                  /\ IF p.s = token /\ p.status \in {"starting", "active"} THEN Holds
                     ELSE LetsGo
             ELSE Holds /\ UNCHANGED lease
  /\ UNCHANGED <<sessionVars, open, asking, inFlight, calls, awaited, answers,
                 letGo, heard>>

-----------------------------------------------------------------------------
\* The adapter reports; somebody else may stop the session.
Outside ==
  /\ \/ \E s \in SessionIds, k \in {"ready", "stopped"} :
          /\ sessions[s].applied < sessions[s].sequence \/ sessions[s].status = "starting"
          /\ Receipt(s, sessions[s].sequence, k)
     \/ \E s \in SessionIds : Release(s)
     \/ SessionTime \/ InputsAge \/ RestartSessions
  /\ UNCHANGED panelVars

PanelNext ==
  \/ Asks \/ NotGranted \/ Takes \/ \E s \in SessionIds : Granted(s)
  \/ Presses \/ KeyUp \/ Heartbeat \/ Blurs \/ Unmounts
  \/ \E c \in calls : Arrives(c)
  \/ \E s \in deletes : DeleteArrives(s)
  \/ \E a \in answers : Answered(a)
  \/ \E w \in awaited : GivesUp(w)
  \/ PollRead \/ \E p \in poll : PollAnswered(p)
  \/ Outside

PanelSpec == PanelInit /\ [][PanelNext]_panelAll

-----------------------------------------------------------------------------
PanelTypeOK ==
  /\ SessionTypeOK /\ open \in BOOLEAN /\ inFlight \in BOOLEAN
  /\ asking \in {"no", "asked"} \cup SessionIds
  /\ token \in SessionIds \cup {NoSession} /\ axes \in {"zero", "move"}
  /\ panelSeq \in 0..MaxInput /\ lease \in Status
  /\ calls \subseteq [s : SessionIds, n : 1..MaxInput, axes : {"zero", "move"}]
  /\ deletes \subseteq SessionIds
  /\ awaited \subseteq [s : SessionIds, n : 1..MaxInput]
  /\ answers \subseteq [s : SessionIds, n : 1..MaxInput, said : Said]
  /\ poll \subseteq [s : SessionIds \cup {NoSession}, status : Status]
  /\ letGo \in 0..MaxInput /\ heard \in 0..MaxInput

\* Once the platform has confirmed the input that a key-up sent, or a newer
\* one, no input in force moves the robot while no key is pressed, however
\* late an older input arrives (ManualControl.tsx:94-128, control.ts:130).
LetGoMeansStill ==
  token # NoSession /\ axes = "zero" /\ heard >= letGo /\ heard > 0 =>
    inputs[token] # "move"

=============================================================================
