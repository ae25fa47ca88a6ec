------------------------------ MODULE Watching -------------------------------
(***************************************************************************)
(* How the analysis worker judges one source for one configuration: the    *)
(* thread that captures, the loop that samples its latest frame, the guard *)
(* of the view, and the rules that want a condition to last                *)
(* (integrations/vision/worker.py, inference.py, rules.py).                *)
(*                                                                         *)
(* One person at most is in a frame, with the identity its tracker gave.   *)
(* Counting, crossings, parked vehicles and displays that are read are     *)
(* left out, and so are previews and what is sent of the judgements.       *)
(***************************************************************************)
EXTENDS Integers, Sequences

CONSTANTS
  RuleKinds,       \* rules looked at: "above", "below" and "dwell"
  Visitors,    \* identities of a tracker
  NoPerson,
  Schedules,   \* hours of a configuration, see Active
  WeekLength,  \* days of a week
  DayLength,   \* instants of a day
  Gap,         \* 3 s: age of a frame, and time between two of them
  Steady,      \* 2 s a view must be still
  Lasting,     \* durationS
  MaxInstant,  \* bound: time
  MaxUpsets    \* bound: sources lost, revisions, failed inferences

ASSUME WatchingAssumption ==
  /\ RuleKinds \subseteq {"above", "below", "dwell"} /\ NoPerson \notin Visitors
  /\ WeekLength \in Nat \ {0} /\ DayLength \in Nat \ {0}
  /\ \A w \in Schedules : /\ w.days \subseteq 0..(WeekLength - 1)
                         /\ {w.start, w.end} \subseteq 0..(DayLength - 1)
  /\ Gap \in Nat /\ Steady \in Nat /\ Lasting \in Nat
  /\ MaxInstant \in Nat /\ MaxUpsets \in Nat

VARIABLES
  kind,      \* the preset's rule
  schedule,  \* the configuration's hours
  revision,  \* Worker.configs
  instant,   \* time
  latest,    \* Source.latest, of the present epoch unless it is NoFrame
  epoch,     \* Source.epoch
  sight,     \* Worker.views: epoch, last frame, guard.stable_since
  state,     \* Worker.states: the revision and the Rule
  judged,    \* what was judged since the condition last failed
  upsets

watchVars ==
  <<kind, schedule, revision, instant, latest, epoch, sight, state, judged, upsets>>

Unset == -1
NoFrame == [at |-> Unset, image |-> "dark", who |-> NoPerson]
NoSight == [epoch |-> Unset, last |-> Unset, stable |-> Unset]

\* Rule.reset, and no rule.
Forgotten == [last |-> Unset, since |-> Unset, who |-> NoPerson]
NoState == [revision |-> Unset, rule |-> Forgotten]

WatchInit ==
  /\ kind \in RuleKinds /\ schedule \in Schedules /\ revision = 0 /\ instant = 0
  /\ latest = NoFrame /\ epoch = 0 /\ sight = NoSight /\ state = NoState
  /\ judged = <<>> /\ upsets = 0

Upset == upsets < MaxUpsets /\ upsets' = upsets + 1

InstantPasses ==
  /\ instant < MaxInstant /\ instant' = instant + 1
  /\ UNCHANGED <<kind, schedule, revision, latest, epoch, sight, state, judged, upsets>>

-----------------------------------------------------------------------------
\* capture: the latest frame only.
Captures ==
  /\ latest.at # instant
  /\ \E image \in {"still", "moved", "dark"}, who \in Visitors \cup {NoPerson} :
       /\ image # "still" => who = NoPerson
       /\ latest' = [at |-> instant, image |-> image, who |-> who]
  /\ UNCHANGED <<kind, schedule, revision, instant, epoch, sight, state, judged, upsets>>

\* The stream breaks and is opened again.
Reconnects ==
  /\ Upset /\ latest' = NoFrame /\ epoch' = epoch + 1
  /\ UNCHANGED <<kind, schedule, revision, instant, sight, state, judged>>

\* A heartbeat brings a changed configuration.
Revised ==
  /\ Upset /\ revision' = revision + 1
  /\ UNCHANGED <<kind, schedule, instant, latest, epoch, sight, state, judged>>

-----------------------------------------------------------------------------
\* Variant: a view is the same for as long as there is no gap.
LookedAtBlindly == IF latest.at - sight.last > Gap THEN NoSight ELSE sight

\* The view the loop judges the frame in: a new one with another epoch or
\* after a gap.
LookedAt ==
  IF sight.epoch # epoch \/ latest.at - sight.last > Gap
    THEN [NoSight EXCEPT !.epoch = epoch] ELSE sight

\* ViewGuard.check: since when the view is still.
StableSince(view) ==
  CASE latest.image = "dark" -> Unset
    [] latest.image = "moved" -> latest.at
    [] OTHER -> IF view.stable = Unset THEN latest.at ELSE view.stable

Still(view) ==
  StableSince(view) # Unset /\ latest.at - StableSince(view) >= Steady

\* Variant: the hours after midnight are those of their own day.
ActiveToday(w, time) ==
  LET day == (time \div DayLength) % WeekLength  at == time % DayLength IN
  /\ day \in w.days
  /\ w.start < w.end => w.start <= at /\ at < w.end
  /\ w.start > w.end => w.start <= at \/ at < w.end

\* active.
Active(w, time) ==
  LET day == (time \div DayLength) % WeekLength
      at == time % DayLength
      today == day \in w.days
      yesterday == (day - 1) % WeekLength \in w.days
  IN CASE w.start = w.end -> today
       [] w.start < w.end -> today /\ w.start <= at /\ at < w.end
       [] OTHER -> (today /\ at >= w.start) \/ (yesterday /\ at < w.end)

Fulfils(who) == IF kind = "below" THEN who = NoPerson ELSE who # NoPerson

\* Variant: an observation that is not valid leaves the rule as it was.
JudgedWhatever(r, fit) == r

\* Rule.evaluate, what it forgets first.
Continued(r, fit) ==
  IF ~fit \/ (r.last # Unset /\ latest.at - r.last > Gap) THEN Forgotten ELSE r

\* Variant: a condition that does not hold for a moment goes on.
BegunOnce(r) == IF r.since = Unset THEN latest.at ELSE r.since

\* condition_since, or since when the track is in the region; a track that is
\* missing is forgotten.
Begun(r) ==
  IF ~Fulfils(latest.who) THEN Unset
  ELSE IF r.since = Unset \/ (kind = "dwell" /\ r.who # latest.who) THEN latest.at
  ELSE r.since

\* Rule.evaluate of a valid observation.
Evaluated(r) == [last |-> latest.at, since |-> Begun(r), who |-> latest.who]

Judgement(r, fit) ==
  IF ~fit THEN "unknown"
  ELSE IF r.since # Unset /\ latest.at - r.since >= Lasting THEN "alert"
  ELSE IF r.since # Unset /\ kind # "dwell" THEN "unknown"
  ELSE "normal"

\* What was judged; from a condition that does not hold nothing follows.
Noted(still, judgement) ==
  LET o == [at |-> latest.at, epoch |-> epoch, revision |-> revision, who |-> latest.who,
            still |-> still, judgement |-> judgement]
  IN judged' = IF still /\ Fulfils(latest.who) THEN Append(judged, o) ELSE <<o>>

IsFresh == latest.at # Unset /\ instant - latest.at <= Gap

\* run, one frame.
Judges ==
  /\ IsFresh /\ latest.at > LookedAt.last
  /\ LET view == LookedAt
         old == IF view.last = Unset \/ state.revision # revision THEN Forgotten
                ELSE state.rule
         fit == Still(view) /\ Active(schedule, latest.at)
         cleared == Continued(old, fit)
         rule == IF fit THEN Evaluated(cleared) ELSE cleared
     IN /\ sight' = [view EXCEPT !.last = latest.at, !.stable = StableSince(view)]
        /\ state' = [revision |-> revision, rule |-> rule]
        /\ Noted(Still(view), Judgement(rule, fit))
  /\ UNCHANGED <<kind, schedule, revision, instant, latest, epoch, upsets>>

\* The models, which see still views only, throw.
InferenceFails ==
  /\ Upset /\ IsFresh /\ latest.at > LookedAt.last /\ Still(LookedAt)
  /\ sight' = [LookedAt EXCEPT !.last = latest.at, !.stable = StableSince(LookedAt)]
  /\ state' = NoState /\ Noted(FALSE, "failed")
  /\ UNCHANGED <<kind, schedule, revision, instant, latest, epoch>>

\* No frame, or none that is fresh.
FindsNoFrame ==
  /\ ~IsFresh /\ state' = NoState
  /\ UNCHANGED <<kind, schedule, revision, instant, latest, epoch, sight, judged, upsets>>

WatchNext ==
  \/ InstantPasses \/ Captures \/ Reconnects \/ Revised
  \/ Judges \/ InferenceFails \/ FindsNoFrame

WatchSpec == WatchInit /\ [][WatchNext]_watchVars

-----------------------------------------------------------------------------
Judgements == {"normal", "unknown", "alert", "failed"}

WatchTypeOK ==
  /\ kind \in RuleKinds /\ schedule \in Schedules /\ instant \in 0..MaxInstant /\ upsets \in 0..MaxUpsets
  /\ revision \in 0..MaxUpsets /\ epoch \in 0..MaxUpsets
  /\ latest \in [at : Unset..instant, image : {"still", "moved", "dark"},
                 who : Visitors \cup {NoPerson}]
  /\ sight \in [epoch : Unset..epoch, last : Unset..instant, stable : Unset..instant]
  /\ state \in [revision : Unset..revision,
                rule : [last : Unset..instant, since : Unset..instant,
                        who : Visitors \cup {NoPerson}]]
  /\ \A i \in 1..Len(judged) : judged[i].judgement \in Judgements

\* A moment is within the hours if they began on a day of theirs and last.
WithinHours(w, time) ==
  LET length == IF w.start = w.end THEN DayLength ELSE (w.end - w.start) % DayLength
      begin(day) == day * DayLength + IF w.start = w.end THEN 0 ELSE w.start
  IN \E day \in -1..(time \div DayLength) :
       /\ day % WeekLength \in w.days
       /\ begin(day) <= time /\ time < begin(day) + length

\* The observations from the i-th to the j-th are one: of one connection and
\* one revision, without a gap, each of a still view, within the hours and
\* fulfilling the condition, for a dwell with the same person.
Unbroken(i, j) ==
  /\ \A k \in i..j :
       /\ judged[k].still /\ WithinHours(schedule, judged[k].at) /\ Fulfils(judged[k].who)
       /\ judged[k].epoch = judged[i].epoch /\ judged[k].revision = judged[i].revision
       /\ kind = "dwell" => judged[k].who = judged[i].who
  /\ \A k \in i..(j - 1) : judged[k + 1].at - judged[k].at <= Gap

\* docs/vision.md:113: a moved or unusable view, a lost source, a gap, and
\* (:65) a changed rule or the end of the hours begin the duration anew: an observation is an alert if
\* and only if the condition was observed for the whole duration without any
\* of them.
AlertsAreEarned ==
  \A j \in 1..Len(judged) :
    judged[j].judgement = "alert" <=>
      \E i \in 1..j : Unbroken(i, j) /\ judged[j].at - judged[i].at >= Lasting
=============================================================================
