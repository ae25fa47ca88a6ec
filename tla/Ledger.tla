------------------------------- MODULE Ledger -------------------------------
(***************************************************************************)
(* The identities the platform gives out, and what they name later: the    *)
(* counters of a world and its rows (server/src/world.ts, config.ts), the  *)
(* retention that deletes rows (db.ts), and a restart, which counts on     *)
(* from the rows that are left.                                            *)
(*                                                                         *)
(* Rules and their events are modelled closer than the rest.  An event     *)
(* keeps the identity of the rule that caused it when the rule is gone.  A *)
(* threshold rule rests for a while after it fired, which the platform     *)
(* remembers in memory and in the rule's row, written after the event's.   *)
(*                                                                         *)
(* Everything else is written through, so rows stand for memory too.  What *)
(* readings say is left to chance.  Time has units of its own, in which    *)
(* the lives of rows are much shorter than in the code.                    *)
(***************************************************************************)
EXTENDS Naturals, FiniteSetsExt

CONSTANTS
  Tables,      \* tables with a counter
  Cooldown,    \* 3 minutes
  OrderLife,   \* 7 days, of orders that are settled
  EventLife,   \* 90 days, of events and of runs that are over
  MaxRows,     \* bound: identities given out, all together
  MaxNow,      \* bound on time
  MaxKills     \* bound: restarts of the platform

ASSUME LedgerAssumption ==
  /\ {"rule", "ev"} \subseteq Tables
  /\ Tables \subseteq {"rule", "ev", "mission", "order", "tmpl", "sched"}
  /\ {OrderLife, EventLife, MaxRows, MaxKills} \subseteq Nat
  /\ Cooldown \in Nat \ {0} /\ MaxNow \in Nat /\ Cooldown <= MaxNow

VARIABLES
  now,
  running,    \* the platform is up
  seq,        \* table -> the identity it gives out next
  rows,       \* table -> its rows
  lastFired,  \* thresholdLastFired: rule -> when it fired, 0 if unknown
  drawing,    \* synthetic events that wait for their picture
  firing,     \* the rule that fired and whose row is not written yet
  high,       \* table -> newest identity ever given out
  given,      \* identities given out, all together
  kills

ledgerVars == <<now, running, seq, rows, lastFired, drawing, firing, high,
                given, kills>>

-----------------------------------------------------------------------------
\* The birth of a row tells it from others that were given the same identity.
Identity == 1..MaxRows
Plain == [id : Identity, birth : Identity, at : 0..MaxNow, open : BOOLEAN]
Rule  == [id : Identity, birth : Identity, kind : {"sim", "threshold"},
          enabled : BOOLEAN, lastFiredAt : 0..MaxNow]
Event == [id : Identity, birth : Identity, at : 0..MaxNow,
          ruleId : {0} \cup Identity, of : {0} \cup Identity,
          cooled : BOOLEAN, torn : BOOLEAN]
NoRule == [id |-> 0, birth |-> 0]

LedgerInit ==
  /\ now = Cooldown /\ running = TRUE
  /\ seq = [t \in Tables |-> 1] /\ rows = [t \in Tables |-> {}]
  /\ lastFired = [i \in Identity |-> 0]
  /\ drawing = {} /\ firing = {}
  /\ high = [t \in Tables |-> 0] /\ given = 0 /\ kills = 0

\* No handler is half done.
Serves == running /\ firing = {}

-----------------------------------------------------------------------------
(* Rows come and go.                                                       *)

\* A new row of table t with the next identity.
Inserted(t, row) ==
  /\ given < MaxRows /\ given' = given + 1
  /\ rows' = [rows EXCEPT ![t] = {x \in @ : x.id # seq[t]} \cup {row}]
  /\ seq' = [seq EXCEPT ![t] = @ + 1]
  /\ high' = [high EXCEPT ![t] = Max({@, seq[t]})]

\* createMission, enqueueOrder, createTemplate, createSchedule.
Create(t) ==
  /\ Serves /\ t \in Tables \ {"rule", "ev"}
  /\ Inserted(t, [id |-> seq[t], birth |-> given + 1, at |-> now, open |-> TRUE])
  /\ UNCHANGED <<now, running, lastFired, drawing, firing, kills>>

Rewrites(t, x, y) ==
  /\ rows' = [rows EXCEPT ![t] = (@ \ {x}) \cup {y}]
  /\ UNCHANGED <<now, running, seq, lastFired, drawing, firing, high, given, kills>>

\* An order or a run comes to its end.
Settle(t, x) ==
  /\ Serves /\ t \in Tables \cap {"mission", "order"} /\ x \in rows[t] /\ x.open
  /\ Rewrites(t, x, [x EXCEPT !.open = FALSE, !.at = now])

\* deleteTemplate, deleteSchedule, deleteRule.
Delete(t, x) ==
  /\ Serves /\ t \in Tables \cap {"tmpl", "sched", "rule"} /\ x \in rows[t]
  /\ rows' = [rows EXCEPT ![t] = @ \ {x}]
  /\ UNCHANGED <<now, running, seq, lastFired, drawing, firing, high, given, kills>>

\* sweepRetention.
Kept(t) ==
  {x \in rows[t] :
     CASE t = "order"   -> x.open \/ x.at + OrderLife >= now
       [] t = "mission" -> x.open \/ x.at + EventLife >= now
       [] t = "ev"      -> x.at + EventLife >= now
       [] OTHER         -> TRUE}
Sweep ==
  /\ Serves /\ rows' = [t \in Tables |-> Kept(t)] /\ rows' # rows
  /\ UNCHANGED <<now, running, seq, lastFired, drawing, firing, high, given, kills>>

Advance ==
  /\ firing = {} /\ now < MaxNow /\ now' = now + 1
  /\ UNCHANGED <<running, seq, rows, lastFired, drawing, firing, high, given, kills>>

-----------------------------------------------------------------------------
(* Rules and events.                                                       *)

AddRule(kind) ==
  /\ Serves
  /\ Inserted("rule", [id |-> seq["rule"], birth |-> given + 1, kind |-> kind,
                       enabled |-> TRUE, lastFiredAt |-> 0])
  /\ UNCHANGED <<now, running, lastFired, drawing, firing, kills>>

EditRule(r) ==
  /\ Serves /\ r \in rows["rule"]
  /\ Rewrites("rule", r, [r EXCEPT !.enabled = ~@])

\* makeEvent.  An event of another system names no rule.
MakeEvent(r, cooled) ==
  Inserted("ev", [id |-> seq["ev"], birth |-> given + 1, at |-> now,
                  ruleId |-> r.id, of |-> r.birth, cooled |-> cooled, torn |-> FALSE])

IngestEvent ==
  /\ Serves /\ MakeEvent(NoRule, FALSE)
  /\ UNCHANGED <<now, running, lastFired, drawing, firing, kills>>

\* generateEvent goes on after its picture, which another call may overtake.
DrawEvent(r) ==
  /\ Serves /\ r \in rows["rule"] /\ r.kind = "sim" /\ r.enabled
  /\ drawing' = drawing \cup {[id |-> r.id, birth |-> r.birth]}
  /\ rows' = [rows EXCEPT !["rule"] = (@ \ {r}) \cup {[r EXCEPT !.lastFiredAt = now]}]
  /\ UNCHANGED <<now, running, seq, lastFired, firing, high, given, kills>>
DrawnEvent(r) ==
  /\ Serves /\ r \in drawing /\ drawing' = drawing \ {r}
  /\ MakeEvent(r, FALSE)
  /\ UNCHANGED <<now, running, lastFired, firing, kills>>

\* Variant: a restart forgets when the rule fired.
FiredInThisLife(r) == lastFired[r.id]
FiredAt(r) == IF lastFired[r.id] # 0 THEN lastFired[r.id] ELSE r.lastFiredAt

\* checkThresholds on a reading beyond the bound: the event, then the rule.
Fires(r) ==
  /\ Serves /\ r \in rows["rule"] /\ r.kind = "threshold" /\ r.enabled
  /\ now >= FiredAt(r) + Cooldown
  /\ lastFired' = [lastFired EXCEPT ![r.id] = now] /\ firing' = {r}
  /\ MakeEvent(r, TRUE)
  /\ UNCHANGED <<now, running, drawing, kills>>
RecordFiring ==
  /\ running /\ firing' = {}
  /\ \E r \in firing :
       rows' = [rows EXCEPT !["rule"] = (@ \ {r}) \cup {[r EXCEPT !.lastFiredAt = now]}]
  /\ UNCHANGED <<now, running, seq, lastFired, drawing, high, given, kills>>

-----------------------------------------------------------------------------
(* The process ends, and starts again.                                     *)

Kill ==
  /\ running /\ kills < MaxKills
  /\ running' = FALSE /\ kills' = kills + 1
  /\ lastFired' = [i \in Identity |-> 0] /\ drawing' = {} /\ firing' = {}
  /\ rows' = [rows EXCEPT !["ev"] =
       {[e EXCEPT !.torn = e.torn \/ \E r \in firing : e.of = r.birth /\ e.at = now] : e \in @}]
  /\ UNCHANGED <<now, seq, high, given>>

Newest(ids) == Max({0} \cup ids)
Ids(t) == {x.id : x \in Kept(t)}

\* Variants: events are not asked for the rules they name; the newest identity
\* is given out once more.
CountOn(t) == Newest(Ids(t)) + 1
CountFromNewest(t) == Newest(Ids(t))
\* loadSeqs, after the boot's sweep.
LoadSeq(t) ==
  Newest(Ids(t) \cup (IF t = "rule" THEN {e.ruleId : e \in Kept("ev")} ELSE {})) + 1

Boot ==
  /\ ~running /\ running' = TRUE
  /\ rows' = [t \in Tables |-> Kept(t)]
  /\ seq' = [t \in Tables |-> LoadSeq(t)]
  /\ UNCHANGED <<now, lastFired, drawing, firing, high, given, kills>>

-----------------------------------------------------------------------------
LedgerNext ==
  \/ \E t \in Tables : Create(t) \/ \E x \in rows[t] : Settle(t, x) \/ Delete(t, x)
  \/ \E kind \in {"sim", "threshold"} : AddRule(kind)
  \/ \E r \in rows["rule"] : EditRule(r) \/ DrawEvent(r) \/ Fires(r)
  \/ \E r \in drawing : DrawnEvent(r)
  \/ IngestEvent \/ RecordFiring
  \/ Sweep \/ Advance \/ Kill \/ Boot

LedgerSpec == LedgerInit /\ [][LedgerNext]_ledgerVars

-----------------------------------------------------------------------------
LedgerTypeOK ==
  /\ now \in Cooldown..MaxNow /\ running \in BOOLEAN
  /\ seq \in [Tables -> 1..(MaxRows + 1)] /\ high \in [Tables -> 0..MaxRows]
  /\ \A t \in Tables : rows[t] \subseteq CASE t = "rule" -> Rule [] t = "ev" -> Event
                                           [] OTHER -> Plain
  /\ lastFired \in [Identity -> 0..MaxNow]
  /\ drawing \subseteq [id : Identity, birth : Identity] /\ firing \subseteq Rule
  /\ given \in 0..MaxRows /\ kills \in 0..MaxKills

\* What is on record keeps its name: a running platform gives no row the
\* identity of another that is there, and the rule an event names is, while a
\* rule of that name exists, the rule that caused it, through deletions,
\* retention and restarts (config.ts:521-541).
NamesStayTrue ==
  /\ running => \A t \in Tables : \A x \in rows[t] : x.id < seq[t]
  /\ \A e \in rows["ev"], r \in rows["rule"] : e.ruleId = r.id => e.of = r.birth

\* A threshold rule fires at most once in three minutes, restarts included,
\* unless the platform died between an event and the row of its rule
\* (world.ts:794-833).
CooldownHolds ==
  \A e, f \in rows["ev"] :
    e.cooled /\ f.cooled /\ ~e.torn /\ e.of = f.of /\ e.birth < f.birth =>
      f.at >= e.at + Cooldown

\* The events on record are those the rules gave rise to: the right rule, and
\* no second alarm for one cause.
EventsStayTrue == NamesStayTrue /\ CooldownHolds

\* "so hydrated Worlds never reuse ids (audit-safe)": what a running platform
\* gives out next was never given out before (config.ts:521).
IdsAreNeverReused ==
  running => \A t \in Tables : seq[t] > high[t]
=============================================================================
