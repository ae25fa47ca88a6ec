----------------------------- MODULE RobotServer -----------------------------
(***************************************************************************)
(* The line between the DeepRobotics adapter and its robot                 *)
(* (integrations/deeprobotics/adapter/main.ts:70-256, protocol.ts): one    *)
(* TCP connection with numbered requests of which the answers may come     *)
(* late, torn apart or not at all, and runNav on top of it, which clears   *)
(* the robot and hands it a task.                                          *)
(*                                                                         *)
(* The answer to a task is its end.  The robot keeps the connection's      *)
(* order.  What it does with a task when the line drops is its own affair: *)
(* it may go on or stop (vendor code 41802).  Poses and notes are left out.*)
(***************************************************************************)
EXTENDS Naturals, Sequences

CONSTANTS
  MaxRuns,      \* bound: navigation tasks asked for
  MaxExtras,    \* bound: polls, and cancels of aborts and of preemption
  MaxUpsets   \* bound: lost connections, and tasks of the robot itself

ASSUME RobotServerAssumption ==
  MaxRuns \in Nat /\ MaxExtras \in Nat /\ MaxUpsets \in Nat

Numbers == 1..(3 * MaxRuns + MaxExtras)
Nothing == 0
OwnTask == 3 * MaxRuns + MaxExtras + 1     \* the robot's own schedule

VARIABLES
  connected,  \* RobotServerClient.connected
  seq,        \* the last number given to a request
  waits,      \* pending and navWaiters: number -> type of the request
  leg,        \* how far runNav is, and the number it waits for
  toRobot,    \* requests on the line
  toAdapter,  \* answers on the line
  torn,       \* the parser holds the head of a frame whose rest is lost
  duty,       \* what the robot does: a number, its own task or nothing
  arrived,    \* tasks the robot completed
  last,       \* the last task settled, and how
  confirmed,  \* the last cancel answered with success
  counts      \* runs, extras and troubles so far

lineVars == <<connected, seq, waits, leg, toRobot, toAdapter, torn, duty,
              arrived, last, confirmed, counts>>
robotSide == <<duty, arrived>>

LineInit ==
  /\ connected = FALSE /\ seq = 0
  /\ waits = [n \in Numbers |-> "none"]
  /\ leg = [at |-> "idle", number |-> Nothing]
  /\ toRobot = <<>> /\ toAdapter = <<>> /\ torn = FALSE
  /\ duty = Nothing /\ arrived = {}
  /\ last = [number |-> Nothing, code |-> 1] /\ confirmed = 0
  /\ counts = [runs |-> 0, extras |-> 0, troubles |-> 0]

Counted(what, most) ==
  counts[what] < most /\ counts' = [counts EXCEPT ![what] = @ + 1]

-----------------------------------------------------------------------------
(* Requests.                                                               *)

\* Sent on a line that is up; the next number is the request's.
Sent(type, w) ==
  /\ seq' = seq + 1
  /\ waits' = [w EXCEPT ![seq + 1] = type]
  /\ toRobot' = Append(toRobot, [number |-> seq + 1, type |-> type])

\* request rejects when there is no connection.
Rejected(w) == waits' = w /\ UNCHANGED <<seq, toRobot>>

\* 1002 each second, and 1004 for an abort order or a newer motion order.
Extra ==
  /\ connected /\ Counted("extras", MaxExtras)
  /\ \E type \in {"poll", "cancel"} : Sent(type, waits)
  /\ UNCHANGED <<connected, leg, toAdapter, torn, robotSide, last, confirmed>>

-----------------------------------------------------------------------------
(* runNav: is the robot busy, cancel if so, then the task.  These are what *)
(* follows when the waits are w and the call before has ended.             *)

SettledAs(number, code) == last' = [number |-> number, code |-> code]

AsksNav(w) ==
  IF connected
    THEN /\ Sent("nav", w) /\ leg' = [at |-> "nav", number |-> seq + 1]
         /\ UNCHANGED last
    ELSE /\ Rejected(w) /\ leg' = [at |-> "idle", number |-> Nothing]
         /\ SettledAs(Nothing, 1)

AsksCancel(w) ==
  IF connected
    THEN Sent("cancel", w) /\ leg' = [at |-> "cancel", number |-> seq + 1]
    ELSE Rejected(w) /\ leg' = [at |-> "pause", number |-> Nothing]

RunNav ==
  /\ leg.at = "idle" /\ Counted("runs", MaxRuns)
  /\ IF connected
       THEN /\ Sent("query", waits) /\ leg' = [at |-> "query", number |-> seq + 1]
            /\ UNCHANGED last
       ELSE AsksNav(waits)
  /\ UNCHANGED <<connected, toAdapter, torn, robotSide, confirmed>>

\* 400 ms after the cancel.
Pauses ==
  /\ leg.at = "pause"
  /\ AsksNav(waits)
  /\ UNCHANGED <<connected, toAdapter, torn, robotSide, confirmed, counts>>

-----------------------------------------------------------------------------
(* A request ends, with an answer or without one.                          *)

Freed(n) == [waits EXCEPT ![n] = "none"]

\* The call of runNav, or another one that nobody continues.
Ends(n, code) ==
  IF leg.number # n THEN Rejected(Freed(n)) /\ UNCHANGED <<leg, last>>
  ELSE CASE leg.at = "query" /\ code = 1 -> AsksCancel(Freed(n)) /\ UNCHANGED last
         [] leg.at = "query" /\ code # 1 -> AsksNav(Freed(n))
         [] leg.at = "cancel" ->
              /\ Rejected(Freed(n)) /\ leg' = [at |-> "pause", number |-> Nothing]
              /\ UNCHANGED last
         [] leg.at = "nav" ->
              /\ Rejected(Freed(n)) /\ leg' = [at |-> "idle", number |-> Nothing]
              /\ SettledAs(n, code)

\* Without an answer a query is null, a cancel false and a task failed.
NoAnswer(n) == IF waits[n] = "query" THEN 0 ELSE 1

\* Variant: a task is waited for however long it takes.
SyncTimeout(n) ==
  /\ waits[n] \notin {"none", "nav"}
  /\ Ends(n, NoAnswer(n))
  /\ UNCHANGED <<connected, toAdapter, torn, robotSide, confirmed, counts>>

Timeout(n) ==
  /\ waits[n] # "none"
  /\ Ends(n, NoAnswer(n))
  /\ UNCHANGED <<connected, toAdapter, torn, robotSide, confirmed, counts>>

\* Variant: an answer is given to whoever waits for one of its type.
MatchedByType(f) == {n \in Numbers : waits[n] = f.type}
Matched(f) == {n \in Numbers : n = f.number /\ waits[n] = f.type}

\* FrameParser: what follows a torn frame is taken for its rest, one frame or
\* several.
Swallowed ==
  /\ torn /\ torn' \in BOOLEAN
  /\ UNCHANGED <<seq, waits, leg, toRobot, last, confirmed>>

\* route: an answer nobody waits for is dropped.
Routed(f) ==
  /\ ~torn /\ UNCHANGED torn
  /\ IF Matched(f) = {}
       THEN UNCHANGED <<seq, waits, leg, toRobot, last, confirmed>>
     ELSE \E n \in Matched(f) :
       /\ Ends(n, f.code)
       /\ confirmed' = IF f.type = "cancel" /\ f.code = 0 /\ n > confirmed
                         THEN n ELSE confirmed

Receive ==
  /\ toAdapter # <<>>
  /\ toAdapter' = Tail(toAdapter)
  /\ Swallowed \/ Routed(Head(toAdapter))
  /\ UNCHANGED <<connected, robotSide, counts>>

-----------------------------------------------------------------------------
(* The connection.                                                         *)

Connects ==
  /\ ~connected /\ connected' = TRUE
  /\ UNCHANGED <<seq, waits, leg, toRobot, toAdapter, torn, robotSide, last,
                 confirmed, counts>>

\* drop: every wait is given up; dial comes after the backoff.  What runNav
\* does next finds the line down.  The parser is kept, with half a frame.
Drops ==
  /\ connected /\ Counted("troubles", MaxUpsets)
  /\ connected' = FALSE
  /\ waits' = [n \in Numbers |-> "none"]
  /\ toRobot' = <<>> /\ toAdapter' = <<>>
  /\ torn' \in {torn, toAdapter # <<>> \/ torn}
  /\ leg' = [at |-> IF leg.at \in {"cancel", "pause"} THEN "pause" ELSE "idle",
             number |-> Nothing]
  /\ IF leg.at \in {"query", "nav"} THEN SettledAs(leg.number, 1) ELSE UNCHANGED last
  /\ duty' \in {duty, IF duty = OwnTask THEN duty ELSE Nothing}
  /\ UNCHANGED <<seq, arrived, confirmed>>

-----------------------------------------------------------------------------
(* The robot.                                                              *)

Answer(n, type, code) == [number |-> n, type |-> type, code |-> code]

\* A task it is asked to drop ends with an answer of its own.
Ending == IF duty \in Numbers THEN <<Answer(duty, "nav", 2)>> ELSE <<>>

RobotServes ==
  /\ toRobot # <<>>
  /\ toRobot' = Tail(toRobot)
  /\ LET q == Head(toRobot)  n == q.number IN
     \/ /\ q.type = "poll"
        /\ toAdapter' = Append(toAdapter, Answer(n, "poll", 0))
        /\ UNCHANGED duty
     \/ /\ q.type = "query"
        /\ toAdapter' = Append(toAdapter,
                          Answer(n, "query", IF duty = Nothing THEN 0 ELSE 1))
        /\ UNCHANGED duty
     \/ /\ q.type = "cancel" /\ duty' = Nothing
        /\ toAdapter' = toAdapter \o <<Answer(n, "cancel", 0)>> \o Ending
     \/ /\ q.type = "nav" /\ duty # Nothing     \* 41793
        /\ toAdapter' = Append(toAdapter, Answer(n, "nav", 1))
        /\ UNCHANGED duty
     \/ /\ q.type = "nav" /\ duty = Nothing /\ duty' = n
        /\ UNCHANGED toAdapter
  /\ UNCHANGED <<connected, seq, waits, leg, torn, arrived, last, confirmed, counts>>

\* A task of ours ends well or not; its answer is lost when the line is down.
TaskEnds ==
  /\ duty \in Numbers /\ duty' = Nothing
  /\ \E code \in {0, 1} :
       /\ arrived' = IF code = 0 THEN arrived \cup {duty} ELSE arrived
       /\ toAdapter' = IF connected THEN Append(toAdapter, Answer(duty, "nav", code))
                                    ELSE toAdapter
  /\ UNCHANGED <<connected, seq, waits, leg, toRobot, torn, last, confirmed, counts>>

\* The robot has a schedule of its own.
OwnTaskBegins ==
  /\ duty = Nothing /\ Counted("troubles", MaxUpsets) /\ duty' = OwnTask
  /\ UNCHANGED <<connected, seq, waits, leg, toRobot, toAdapter, torn, arrived,
                 last, confirmed>>

OwnTaskEnds ==
  /\ duty = OwnTask /\ duty' = Nothing
  /\ UNCHANGED <<connected, seq, waits, leg, toRobot, toAdapter, torn, arrived,
                 last, confirmed, counts>>

-----------------------------------------------------------------------------
LineNext ==
  \/ RunNav \/ Pauses \/ Extra \/ Receive \/ Connects \/ Drops
  \/ \E n \in Numbers : Timeout(n)
  \/ RobotServes \/ TaskEnds \/ OwnTaskBegins \/ OwnTaskEnds

LineSpec == LineInit /\ [][LineNext]_lineVars

\* Timers fire.  Nothing is asked of the robot or of the network.
LineFairness == WF_lineVars(Pauses) /\ \A n \in Numbers : WF_lineVars(Timeout(n))
LineFairSpec == LineSpec /\ LineFairness

-----------------------------------------------------------------------------
LineTypeOK ==
  LET Types == {"poll", "query", "cancel", "nav"} IN
  /\ connected \in BOOLEAN /\ seq \in Numbers \cup {0}
  /\ waits \in [Numbers -> Types \cup {"none"}]
  /\ leg \in [at : {"idle", "query", "cancel", "pause", "nav"},
              number : Numbers \cup {Nothing}]
  /\ toRobot \in Seq([number : Numbers, type : Types])
  /\ toAdapter \in Seq([number : Numbers, type : Types, code : 0..2])
  /\ torn \in BOOLEAN /\ arrived \subseteq Numbers
  /\ duty \in Numbers \cup {Nothing, OwnTask}
  /\ last \in [number : Numbers \cup {Nothing}, code : 0..2]
  /\ confirmed \in Numbers \cup {0}
  /\ counts \in [runs : 0..MaxRuns, extras : 0..MaxExtras, troubles : 0..MaxUpsets]

\* main.ts:134-152, 229-256: an order is reported done only if the robot ended
\* that very task well, and a cancel is reported done only if no task sent
\* before it goes on; answers that are late or torn do not mislead.
LineTellsTheTruth ==
  /\ last.code = 0 => last.number \in arrived
  /\ duty \in Numbers => duty > confirmed

\* main.ts:3-5: no run waits for ever for an answer that does not come.
RunsSettle == []<>(leg.at = "idle")
=============================================================================
