----------------------------- MODULE SpotSession -----------------------------
(***************************************************************************)
(* The session the Spot adapter keeps with its robot: the "dance" through  *)
(* authentication, time, body lease, emergency stop and power, the three   *)
(* keep-alives it leaves behind, and teardown, which any of them may call  *)
(* (integrations/spot/adapter/main.ts:99-263).                             *)
(*                                                                         *)
(* Nothing ties a dance or a call to the session it belongs to: a teardown *)
(* does not end the dance that is under way, clearInterval does not recall *)
(* the calls already sent, and both go on to write the same record.  So    *)
(* there may be several dances, and answers that come too late.            *)
(*                                                                         *)
(* Of a lease only this is kept: whether it is the one the robot accepts.  *)
(* Tokens, endpoints and clocks are left out; the steps that only read the *)
(* robot before the lease are one call.                                    *)
(***************************************************************************)
EXTENDS Naturals, FiniteSets

CONSTANTS
  MaxDances,    \* bound: dances scheduled or under way
  MaxCalls,     \* bound: keep-alive calls of a kind without an answer
  MaxLosses   \* bound: losses of contact, leases taken by other clients

ASSUME SpotSessionAssumption ==
  MaxDances \in Nat \ {0} /\ MaxCalls \in Nat /\ MaxLosses \in Nat

Dances == 1..MaxDances
Slots  == {"retain", "beat"} \X (1..MaxCalls)
KeepAlives == {"retain", "estop", "sync"}
Leases == {"none", "good", "stale"}

VARIABLES
  ready,      \* session.ready
  lease,      \* session.lease
  timers,     \* session.timers: the kinds of interval that run
  dances,     \* where each dance is, and the lease its call brought or bears
  pings,      \* keep-alive calls under way
  contact,    \* does the robot answer
  troubles    \* how many there were

spotVars == <<ready, lease, timers, dances, pings, contact, troubles>>

-----------------------------------------------------------------------------
Idle   == [at |-> "none", lease |-> "none", lost |-> FALSE]
Asleep == [at |-> "asleep", lease |-> "none", lost |-> FALSE]
NoCall == [out |-> FALSE, lease |-> "none", lost |-> FALSE]

\* Waits for an answer of the robot.
Waits(d) == dances[d].at \notin {"none", "asleep"}
Pending  == {d \in Dances : dances[d].at # "none"}
FreeDances     == Dances \ Pending

SpotBlank ==
  /\ ready = FALSE /\ lease = "none" /\ timers = {}
  /\ pings = [c \in Slots |-> NoCall]
  /\ contact = TRUE /\ troubles = 0

SpotInit ==
  SpotBlank /\ dances = [d \in Dances |-> IF d = 1 THEN Asleep ELSE Idle]

\* A lease that is no longer the robot's, wherever it is kept.
Outdated(l) == IF l = "good" THEN "stale" ELSE l
OutdatedDances == [d \in Dances |-> [dances[d] EXCEPT !.lease = Outdated(@)]]
OutdatedCalls  == [c \in Slots  |-> [pings[c]  EXCEPT !.lease = Outdated(@)]]

-----------------------------------------------------------------------------
(* The dance, one action per answer.                                       *)

\* The timer of scheduleDance fires and the robot is greeted.
Wakes(d) ==
  /\ dances[d].at = "asleep"
  /\ dances' = [dances EXCEPT ![d].at = "hello"]
  /\ UNCHANGED <<ready, lease, timers, pings, contact, troubles>>

Answered(d, stage) == dances[d].at = stage /\ ~dances[d].lost

\* Authenticated, services found and clocks compared: the lease is asked for.
Greeted(d) ==
  /\ contact /\ Answered(d, "hello")
  /\ dances' = [dances EXCEPT ![d].at = "acquire"]
  /\ UNCHANGED <<ready, lease, timers, pings, contact, troubles>>

\* Somebody holds the body, perhaps an earlier dance: it is taken.
Claimed(d) ==
  /\ contact /\ Answered(d, "acquire") /\ dances[d].lease = "none"
  /\ dances' = [dances EXCEPT ![d].at = "take"]
  /\ UNCHANGED <<ready, lease, timers, pings, contact, troubles>>

\* The robot issues a lease, which outdates all others.
Granted(d) ==
  /\ contact /\ \E stage \in {"acquire", "take"} : Answered(d, stage)
  /\ dances[d].lease = "none"
  /\ dances' = [OutdatedDances EXCEPT ![d].lease = "good"]
  /\ lease' = Outdated(lease) /\ pings' = OutdatedCalls
  /\ UNCHANGED <<ready, timers, contact, troubles>>

Leased(d) ==
  /\ \E stage \in {"acquire", "take"} : Answered(d, stage)
  /\ dances[d].lease # "none"
  /\ lease' = dances[d].lease /\ timers' = timers \cup {"retain"}
  /\ dances' = [dances EXCEPT ![d].at = "estop", ![d].lease = "none"]
  /\ UNCHANGED <<ready, pings, contact, troubles>>

\* The endpoint is registered and checked in: power is asked for, with the
\* lease the session has now.
CheckedIn(d) ==
  /\ contact /\ Answered(d, "estop")
  /\ timers' = timers \cup {"estop"}
  /\ dances' = [dances EXCEPT ![d].at = "power", ![d].lease = lease]
  /\ UNCHANGED <<ready, lease, pings, contact, troubles>>

PoweredOn(d) ==
  /\ contact /\ Answered(d, "power") /\ dances[d].lease = "good"
  /\ dances' = [dances EXCEPT ![d].at = "feedback", ![d].lease = "none"]
  /\ UNCHANGED <<ready, lease, timers, pings, contact, troubles>>

Finishes(d) ==
  /\ contact /\ Answered(d, "feedback")
  /\ timers' = timers \cup {"sync"} /\ ready' = TRUE
  /\ dances' = [dances EXCEPT ![d] = Idle]
  /\ UNCHANGED <<lease, pings, contact, troubles>>

\* Variant: a dance that fails after another finished is not tried again.
FailsForGood(d) ==
  /\ \/ Waits(d) /\ dances[d].lost
     \/ contact /\ Answered(d, "power") /\ dances[d].lease # "good"
  /\ timers' = {}
  /\ dances' = [dances EXCEPT ![d] = IF ready THEN Idle ELSE Asleep]
  /\ UNCHANGED <<ready, lease, pings, contact, troubles>>

\* A call without answer, or a lease that is refused.
Fails(d) ==
  /\ \/ Waits(d) /\ dances[d].lost
     \/ contact /\ Answered(d, "power") /\ dances[d].lease # "good"
  /\ timers' = {}
  /\ dances' = [dances EXCEPT ![d] = Asleep]
  /\ UNCHANGED <<ready, lease, pings, contact, troubles>>

-----------------------------------------------------------------------------
(* Keep-alives.                                                            *)

Sends(kind, l) ==
  /\ \E i \in 1..MaxCalls :
       /\ ~pings[<<kind, i>>].out /\ \A j \in 1..(i - 1) : pings[<<kind, j>>].out
       /\ pings' = [pings EXCEPT ![<<kind, i>>].out = TRUE, ![<<kind, i>>].lease = l]
  /\ UNCHANGED <<ready, lease, timers, dances, contact, troubles>>

RetainLease ==
  "retain" \in timers /\ Sends("retain", lease)

\* EstopCheckIn, TimeSyncUpdate, and the state loop of a session that is ready.
Beats ==
  /\ ready \/ timers \cap {"estop", "sync"} # {}
  /\ Sends("beat", "none")

Answers(c) ==
  /\ contact /\ pings[c].out /\ ~pings[c].lost
  /\ pings[c].lease # "stale"
  /\ pings' = [pings EXCEPT ![c] = NoCall]
  /\ UNCHANGED <<ready, lease, timers, dances, contact, troubles>>

TearsDown == ready \/ timers # {}

Ended ==
  /\ ready' = FALSE /\ lease' = "none" /\ timers' = {}
  /\ \E d \in FreeDances : /\ \A e \in FreeDances : d <= e
                     /\ dances' = [dances EXCEPT ![d] = Asleep]

\* The lease is refused, or there is no answer: teardown.
IsRefused(c) ==
  /\ pings[c].out
  /\ pings[c].lost \/ (contact /\ pings[c].lease = "stale")
  /\ pings' = [pings EXCEPT ![c] = NoCall]
  /\ IF TearsDown THEN Ended
     ELSE UNCHANGED <<ready, lease, timers, dances>>
  /\ UNCHANGED <<contact, troubles>>

-----------------------------------------------------------------------------
(* The robot.                                                              *)

Trouble == troubles < MaxLosses /\ troubles' = troubles + 1

ContactLost == /\ contact /\ Trouble /\ contact' = FALSE
               /\ UNCHANGED <<ready, lease, timers, dances, pings>>

ContactBack == /\ ~contact /\ contact' = TRUE
               /\ UNCHANGED <<ready, lease, timers, dances, pings, troubles>>

\* What is under way will end without an answer, perhaps much later.
LosesAnswer ==
  /\ ~contact
  /\ \/ \E d \in Dances : /\ Waits(d) /\ ~dances[d].lost
                          /\ dances' = [dances EXCEPT ![d].lost = TRUE]
                          /\ pings' = pings
     \/ \E c \in Slots : /\ pings[c].out /\ ~pings[c].lost
                         /\ pings' = [pings EXCEPT ![c].lost = TRUE]
                         /\ dances' = dances
  /\ UNCHANGED <<ready, lease, timers, contact, troubles>>

\* A tablet takes the lease, or the robot withdraws it.
Robbed ==
  /\ Trouble
  /\ lease' = Outdated(lease) /\ dances' = OutdatedDances
  /\ pings' = OutdatedCalls
  /\ UNCHANGED <<ready, timers, contact>>

-----------------------------------------------------------------------------
DanceStep(d) ==
  \/ Wakes(d) \/ Greeted(d) \/ Claimed(d) \/ Granted(d) \/ Leased(d)
  \/ CheckedIn(d) \/ PoweredOn(d) \/ Finishes(d) \/ Fails(d)

SpotNext ==
  \/ \E d \in Dances : DanceStep(d)
  \/ RetainLease \/ Beats
  \/ \E c \in Slots : Answers(c) \/ IsRefused(c)
  \/ ContactLost \/ ContactBack \/ LosesAnswer \/ Robbed

SpotSpec == SpotInit /\ [][SpotNext]_spotVars

\* Timers fire, calls end by answer or deadline, and contact comes back.
SpotFairness ==
  /\ \A d \in Dances : WF_spotVars(DanceStep(d))
  /\ \A c \in Slots : WF_spotVars(Answers(c) \/ IsRefused(c))
  /\ WF_spotVars(RetainLease) /\ WF_spotVars(Beats) /\ WF_spotVars(ContactBack)
SpotFairSpec == SpotSpec /\ SpotFairness

-----------------------------------------------------------------------------
SpotTypeOK ==
  /\ ready \in BOOLEAN /\ lease \in Leases /\ timers \subseteq KeepAlives
  /\ dances \in [Dances ->
       [at : {"none", "asleep", "hello", "acquire", "take", "estop", "power",
              "feedback"}, lease : Leases, lost : BOOLEAN]]
  /\ pings \in [Slots ->
       [out : BOOLEAN, lease : Leases, lost : BOOLEAN]]
  /\ contact \in BOOLEAN /\ troubles \in 0..MaxLosses

\* main.ts:4-5: however dances and late answers fall together, either a dance
\* is still to come or the session is up with a lease and all its keep-alives;
\* the adapter never rests on a session nobody keeps.
SessionIsTended ==
  Pending = {} => ready /\ lease # "none" /\ timers = KeepAlives

\* main.ts:121-131, 258-262: once contact keeps and nobody else wants the body,
\* the session comes up again and again, with the lease the robot accepts.  (Two
\* dances that meet may take the lease from each other for ever.)
SessionComesBack ==
  <>[](Cardinality(Pending) <= 1) => []<>(ready /\ lease = "good" /\ timers = KeepAlives)
=============================================================================
