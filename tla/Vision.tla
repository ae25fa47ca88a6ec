------------------------------- MODULE Vision -------------------------------
(***************************************************************************)
(* Video analysis: the worker at the camera, with its outbox               *)
(* (integrations/vision/worker.py), and the platform that keeps the        *)
(* configurations, takes the observations and raises the alarms            *)
(* (server/src/vision.ts).                                                 *)
(*                                                                         *)
(* The worker has a thread that captures, judges and sends the head of the *)
(* outbox, and one that sends heartbeats.  A second instance with the same *)
(* name may compete for the lease.  An observation's identity is the       *)
(* moment it was captured, and moments follow each other as they were      *)
(* captured.  Images, regions, readings and the retention of results are   *)
(* left out (taken keeps what was ever stored), and so are preview jobs.   *)
(***************************************************************************)
EXTENDS Naturals, Sequences, FiniteSets, SequencesExt

CONSTANTS
  Watches,      \* monitoring configurations
  MaxRevision,  \* bound: revisions of a configuration
  MaxMoments,   \* bound: observations
  OutboxCap,    \* records the outbox holds
  MaxTroubles   \* bound: restarts, lost heartbeats, timeouts, takeovers

Moments == 1..MaxMoments
Revisions == 1..MaxRevision
Absent == 0

ASSUME VisionAssumption ==
  /\ MaxRevision \in Nat \ {0} /\ MaxMoments \in Nat
  /\ OutboxCap \in Nat \ {0} /\ MaxTroubles \in Nat

VARIABLES
  watch,      \* vision_configs: revision (0 removed), enabled, on this adapter
  holder,     \* whose lease it is: "none", "mine" or "other"
  renewed,    \* its last heartbeat is less than 15 s ago
  known,      \* Worker.configs: revision, 0 if not told of it
  token,      \* Worker.token: "none", "good", or "old"
  outbox,     \* the worker's outbox
  elsewhere,  \* the same of the other instance
  posts,      \* results on their way
  taken,      \* vision_results
  unrecorded, \* alarms raised and shown, whose rows were undone
  episode,    \* vision_episodes, of the revision in force
  clock,      \* moment of the last observation
  aged,       \* what was captured up to this moment is over a week old
  skewed,     \* captured by a clock over a minute ahead, or a week behind
  troubles

lease  == <<holder, renewed>>
worker == <<known, token, outbox>>
store  == <<taken, episode>>
times  == <<clock, aged, skewed>>
visVars == <<watch, lease, worker, elsewhere, posts, store, unrecorded, times, troubles>>

NoEpisode == [at |-> 0, status |-> "unknown"]

\* The worker has sent its first heartbeat.
VisInit ==
  /\ watch = [k \in Watches |-> [rev |-> 1, on |-> TRUE, ours |-> TRUE]]
  /\ holder = "mine" /\ renewed = TRUE
  /\ known = [k \in Watches |-> 1] /\ token = "good"
  /\ outbox = <<>> /\ elsewhere = {} /\ posts = {} /\ taken = {} /\ unrecorded = {}
  /\ episode = [k \in Watches |-> NoEpisode]
  /\ clock = 0 /\ aged = 0 /\ skewed = {} /\ troubles = 0

Trouble == troubles < MaxTroubles /\ troubles' = troubles + 1

-----------------------------------------------------------------------------
(* Configurations.                                                         *)

\* PUT: a new revision, switched on or off, or given to another adapter.
PutWatch(k) ==
  /\ watch[k].rev \in 1..(MaxRevision - 1)
  /\ \E on, ours \in BOOLEAN :
       /\ on \/ ours
       /\ watch' = [watch EXCEPT ![k] =
                       [rev |-> @.rev + 1, on |-> on, ours |-> ours]]
  /\ episode' = [episode EXCEPT ![k] = NoEpisode]
  /\ UNCHANGED <<lease, worker, elsewhere, posts, taken, unrecorded, times, troubles>>

RemoveWatch(k) ==
  /\ watch[k].rev # Absent
  /\ watch' = [watch EXCEPT ![k].rev = Absent]
  /\ UNCHANGED <<lease, worker, elsewhere, posts, store, unrecorded, times, troubles>>

-----------------------------------------------------------------------------
(* The lease.                                                              *)

\* A token is good while the lease it was given for lasts.
NewLease ==
  /\ posts' = {[p EXCEPT !.good = FALSE] : p \in posts}
  /\ token' = IF token = "good" THEN "old" ELSE token

Told == [k \in Watches |-> IF watch[k].on /\ watch[k].ours THEN watch[k].rev
                           ELSE Absent]

Refused == holder = "other" /\ renewed

\* heartbeat, answered.
Heartbeat ==
  /\ IF Refused THEN token' = "none" /\ UNCHANGED <<lease, known, posts>>
     ELSE /\ holder' = "mine" /\ renewed' = TRUE
          /\ token' = "good" /\ known' = Told
          /\ posts' = IF holder = "mine" THEN posts
                      ELSE {[p EXCEPT !.good = FALSE] : p \in posts}
  /\ UNCHANGED <<watch, outbox, elsewhere, store, unrecorded, times, troubles>>

\* heartbeat, not answered; it may have reached the platform.
HeartbeatLost ==
  /\ Trouble /\ token' = "none"
  /\ \/ UNCHANGED <<lease, posts>>
     \/ /\ ~Refused /\ holder' = "mine" /\ renewed' = TRUE
        /\ posts' = IF holder = "mine" THEN posts
                    ELSE {[p EXCEPT !.good = FALSE] : p \in posts}
  /\ UNCHANGED <<watch, known, outbox, elsewhere, store, unrecorded, times>>

OtherTakesOver ==
  /\ Trouble /\ ~(holder = "mine" /\ renewed)
  /\ holder' = "other" /\ renewed' = TRUE /\ NewLease
  /\ UNCHANGED <<watch, known, outbox, elsewhere, store, unrecorded, times>>

\* The other instance, or a runtime that is over, is not heard any more; this
\* one only if its heartbeats fail.
LeaseExpires ==
  /\ renewed /\ renewed' = FALSE
  /\ IF holder = "mine" THEN Trouble ELSE UNCHANGED troubles
  /\ UNCHANGED <<watch, holder, worker, elsewhere, posts, store, unrecorded, times>>

-----------------------------------------------------------------------------
(* Observing and sending.                                                  *)

Awaiting == \E p \in posts : p.awaited

\* emit and Outbox.add: a full outbox discards its oldest record.  The time is
\* the worker's own.
Emit(k, status) ==
  /\ ~Awaiting /\ known[k] # Absent /\ clock < MaxMoments
  /\ clock' = clock + 1
  /\ \/ UNCHANGED <<skewed, troubles>>
     \/ Trouble /\ skewed' = skewed \cup {clock + 1}
  /\ LET o == [at |-> clock + 1, of |-> k, rev |-> known[k], status |-> status] IN
     outbox' = Append(IF Len(outbox) = OutboxCap THEN Tail(outbox) ELSE outbox, o)
  /\ UNCHANGED <<watch, lease, known, token, elsewhere, posts, store, unrecorded, aged>>

OtherEmits(k, status) ==
  /\ holder = "other" /\ renewed /\ elsewhere = {} /\ Told[k] # Absent
  /\ clock < MaxMoments /\ clock' = clock + 1
  /\ elsewhere' = {[at |-> clock + 1, of |-> k, rev |-> watch[k].rev, status |-> status]}
  /\ UNCHANGED <<watch, lease, worker, posts, store, unrecorded, aged, skewed, troubles>>

\* Outbox.flush: the head only, while there is a token.
Flush ==
  /\ ~Awaiting /\ token # "none" /\ outbox # <<>>
  /\ posts' = posts \cup {[obs |-> Head(outbox), good |-> token = "good",
                           awaited |-> TRUE]}
  /\ UNCHANGED <<watch, lease, worker, elsewhere, store, unrecorded, times, troubles>>

\* The answer does not come within a second; the request may still arrive.
FlushTimesOut ==
  /\ Trouble
  /\ \E p \in posts : /\ p.awaited
                      /\ posts' = (posts \ {p}) \cup {[p EXCEPT !.awaited = FALSE]}
  /\ UNCHANGED <<watch, lease, worker, elsewhere, store, unrecorded, times>>

-----------------------------------------------------------------------------
(* POST results.                                                           *)

Untimely(o) == o.at <= aged \/ o.at \in skewed

Verdict(o, good) ==
  LET w == watch[o.of] IN
  IF ~(good /\ renewed) THEN "expired"                        \* 409
  ELSE IF \E r \in taken : r.at = o.at THEN "duplicate"
  ELSE IF w.rev = Absent THEN "removed"                        \* 410
  ELSE IF ~w.ours THEN "foreign"                              \* 403
  ELSE IF w.rev # o.rev \/ ~w.on THEN "superseded"            \* 409
  ELSE IF Untimely(o) THEN "untimely"                         \* 400
  ELSE "accepted"

\* Variant: an observation counts whatever was counted before it.
CountsAnyway(o) == TRUE
Counts(o) == o.at > episode[o.of].at

\* The observation is stored; if it counts, which a late one does not, it may
\* open an episode.  How long the delivery took is left open.
Taken(o) ==
  \E late \in BOOLEAN :
  LET e == episode[o.of]
      counts == ~late /\ Counts(o)
      raised == counts /\ o.status = "alert" /\ e.status # "alert"
  IN /\ taken' = taken \cup {[at |-> o.at, of |-> o.of, rev |-> o.rev,
                              status |-> o.status, counted |-> counts,
                              raised |-> raised]}
     /\ episode' = IF ~counts THEN episode
                   ELSE [episode EXCEPT ![o.of] =
                          [at |-> o.at, status |-> IF o.status = "unknown" THEN e.status
                                                   ELSE o.status]]

\* Variant: an expired lease is taken for the end of the matter.
SettledOnExpired ==
  {"accepted", "duplicate", "removed", "superseded", "untimely", "expired"}
Settling == {"accepted", "duplicate", "removed", "superseded", "untimely"}

\* The transaction fails and its rows are undone, but not what ingestEvent did
\* before: the alarm is in memory and was shown.
Undone(o) ==
  /\ Trouble /\ UNCHANGED store
  /\ \/ UNCHANGED unrecorded
     \/ /\ Counts(o) /\ o.status = "alert" /\ episode[o.of].status # "alert"
        /\ unrecorded' = unrecorded \cup
             {[at |-> o.at, of |-> o.of, rev |-> o.rev, nth |-> troubles]}

\* The platform answers; a failed transaction settles nothing (500).
Receive(p) ==
  LET verdict == Verdict(p.obs, p.good) IN
  /\ posts' = posts \ {p}
  /\ \/ /\ IF verdict = "accepted" THEN Taken(p.obs) ELSE UNCHANGED store
        /\ outbox' = IF p.awaited /\ verdict \in Settling
                       THEN RemoveFirst(outbox, p.obs) ELSE outbox
        /\ UNCHANGED <<unrecorded, troubles>>
     \/ verdict = "accepted" /\ Undone(p.obs) /\ UNCHANGED outbox
  /\ UNCHANGED <<watch, lease, known, token, elsewhere, times>>

OtherReports ==
  /\ holder = "other" /\ renewed
  /\ \E o \in elsewhere :
       \/ /\ IF Verdict(o, TRUE) = "accepted" THEN Taken(o) ELSE UNCHANGED store
          /\ elsewhere' = {} /\ UNCHANGED <<unrecorded, troubles>>
       \/ Verdict(o, TRUE) = "accepted" /\ Undone(o) /\ UNCHANGED elsewhere
  /\ UNCHANGED <<watch, lease, worker, posts, times>>

-----------------------------------------------------------------------------
\* Leases, and alarms that have no row, live in the platform's memory.
PlatformRestarts ==
  /\ Trouble /\ holder' = "none" /\ renewed' = FALSE /\ unrecorded' = {}
  /\ posts' = {} /\ token' = IF token = "good" THEN "old" ELSE token
  /\ UNCHANGED <<watch, known, outbox, elsewhere, store, times>>

\* A new runtime is another one to the platform; the outbox is on disk.
WorkerRestarts ==
  /\ Trouble /\ token' = "none" /\ known' = [k \in Watches |-> Absent]
  /\ holder' = IF holder = "mine" THEN "other" ELSE holder
  /\ posts' = {[p EXCEPT !.awaited = FALSE, !.good = FALSE] : p \in posts}
  /\ UNCHANGED <<watch, renewed, outbox, elsewhere, store, unrecorded, times>>

\* What was captured ahead of time is in time after a while.
ClockAgrees ==
  /\ skewed # {} /\ \E t \in skewed : skewed' = skewed \ {t}
  /\ UNCHANGED <<watch, lease, worker, elsewhere, posts, store, unrecorded, clock,
                 aged, troubles>>

\* A week, which no request lasts.
WeekPasses ==
  /\ Trouble /\ posts = {} /\ aged' = clock
  /\ UNCHANGED <<watch, lease, worker, elsewhere, posts, store, unrecorded, clock,
                 skewed>>

VisNext ==
  \/ \E k \in Watches : \/ PutWatch(k) \/ RemoveWatch(k)
                        \/ \E status \in {"normal", "alert", "unknown"} :
                             Emit(k, status) \/ OtherEmits(k, status)
  \/ Heartbeat \/ HeartbeatLost \/ OtherTakesOver \/ LeaseExpires
  \/ Flush \/ FlushTimesOut \/ (\E p \in posts : Receive(p)) \/ OtherReports
  \/ PlatformRestarts \/ WorkerRestarts \/ ClockAgrees \/ WeekPasses

\* Heartbeats are sent every 3 s, the loop of the worker goes on, requests
\* are answered, and a lease nobody renews runs out.
VisFairness ==
  /\ WF_visVars(Heartbeat) /\ WF_visVars(Flush)
  /\ WF_visVars(\E p \in posts : Receive(p))
  /\ WF_visVars(holder = "other" /\ LeaseExpires)

VisFairSpec == VisInit /\ [][VisNext]_visVars /\ VisFairness

-----------------------------------------------------------------------------
Observations == [at : Moments, of : Watches, rev : Revisions,
                 status : {"normal", "alert", "unknown"}]
VisTypeOK ==
  /\ watch \in [Watches -> [rev : 0..MaxRevision, on : BOOLEAN, ours : BOOLEAN]]
  /\ holder \in {"none", "mine", "other"} /\ renewed \in BOOLEAN
  /\ known \in [Watches -> 0..MaxRevision] /\ token \in {"none", "good", "old"}
  /\ outbox \in Seq(Observations) /\ Len(outbox) <= OutboxCap
  /\ elsewhere \subseteq Observations
  /\ posts \subseteq [obs : Observations, good : BOOLEAN, awaited : BOOLEAN]
  /\ \A r \in taken : r.raised => r.counted /\ r.status = "alert"
  /\ episode \in [Watches -> [at : 0..MaxMoments,
                              status : {"normal", "alert", "unknown"}]]
  /\ unrecorded \subseteq [at : Moments, of : Watches, rev : Revisions, nth : Nat]
  /\ clock \in 0..MaxMoments /\ aged \in 0..MaxMoments /\ skewed \subseteq Moments
  /\ troubles \in 0..MaxTroubles

\* The alarms on record of the stretch of abnormal observations that a is in.
AlarmsOf(a) ==
  LET same == {r \in taken : r.of = a.of /\ r.rev = a.rev /\ r.counted}
      ended == {n \in same : n.status = "normal"}
  IN {r \in same : /\ r.raised /\ r.at <= a.at
                    /\ ~\E n \in ended : r.at < n.at /\ n.at < a.at}

\* Whatever is repeated, delayed, delivered out of order or undone, each stretch
\* of abnormal observations that count has exactly one alarm on record
\* (vision.ts:558-601).
OneOnRecord ==
  \A a \in taken : a.counted /\ a.status = "alert" => Cardinality(AlarmsOf(a)) = 1

\* A transaction that is undone has shown its alarm nevertheless (vision.ts:574,
\* 611-616), and the report that is sent again shows it again: but only while
\* the stretch has no alarm on record.
NoneBesideRecord == \A s \in unrecorded' \ unrecorded : AlarmsOf(s) = {}

\* docs/vision.md:81: alarms follow the change between normal and abnormal, and
\* an unclear observation ends nothing.  No step breaks this.
OneAlarmPerEpisode == [][OneOnRecord' /\ NoneBesideRecord]_visVars

\* docs/vision.md:82: the outbox gives up an observation only when the platform
\* has it, when its configuration was removed, changed or switched off, when its
\* time is no time the platform accepts (vision.ts:501), or when it is full.
NothingIsForgotten ==
  [][\A o \in ToSet(outbox) \ ToSet(outbox') :
       \/ \E r \in taken' : r.at = o.at
       \/ watch[o.of].rev # o.rev \/ ~watch[o.of].on
       \/ Untimely(o)
       \/ Len(outbox) = OutboxCap]_visVars

\* worker.py:84-101: the outbox empties, whatever was interrupted, unless an
\* observation of a configuration that was moved to another adapter is at its
\* head: the platform answers 403 and the worker tries again for ever.
Blocked == outbox # <<>> /\ watch[Head(outbox).of].rev # Absent
                         /\ ~watch[Head(outbox).of].ours
OutboxDrains == []<>(outbox = <<>> \/ Blocked)

\* The outbox neither gives up too early nor never.
ReportsArrive == NothingIsForgotten /\ OutboxDrains
=============================================================================
