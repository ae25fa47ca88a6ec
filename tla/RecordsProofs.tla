--------------------------- MODULE RecordsProofs ----------------------------
(***************************************************************************)
(* What the platform keeps on record, for any bounds.                      *)
(*                                                                         *)
(* Ledger: an event keeps the name of its rule, and a rule rests after it  *)
(* fired, through deletions, retention, kills and restarts.                *)
(* SitePoints: what a page was told is saved is in force, and a robot that *)
(* is done went where the points said.                                     *)
(* Registry: units are a tree, and what is on record names what is there.  *)
(* Previews: rows and pictures agree, whatever is killed in a sweep.       *)
(* Watching: an alert was earned for the whole duration and no other.      *)
(* Cadence: the next run of a schedule is the first that its weekdays and  *)
(* its hour name, in the calendar's dates as in the server's hours.        *)
(* MCRecords: all of it, and the camera patrols (PtzProofs), in one graph. *)
(*                                                                         *)
(* An invariant says of every part what it must know of its past: which    *)
(* identities were given, what a page was answered, which pictures the     *)
(* next sweep takes off their rows, since when a rule saw its condition.   *)
(***************************************************************************)
EXTENDS MCRecords, PtzProofs, FiniteSetTheorems, WellFoundedInduction, TLAPS

-----------------------------------------------------------------------------
(* Least and greatest numbers.                                             *)

LEMMA LeastNumber ==
  ASSUME NEW T \in SUBSET Nat, T # {}
  PROVE  \E x \in T : \A y \in T : x <= y
<1>1. PICK R : R = OpToRel(<, Nat)
  OBVIOUS
<1>2. IsWellFoundedOn(R, Nat)
  BY <1>1, NatLessThanWellFounded
<1>3. PICK x \in T : \A y \in T : ~(<<y, x>> \in R)
  BY <1>2, WFMin
<1>4. \A y, z \in Nat : y < z => <<y, z>> \in R
  BY <1>1 DEF OpToRel
<1>5. \A y \in T : ~(y < x)
  BY <1>3, <1>4
<1> QED
  BY <1>5

\* Max of the community modules, of some numbers that are bounded.
LEMMA GreatestNumber ==
  ASSUME NEW n \in Nat, NEW T \in SUBSET (0..n), T # {}
  PROVE  Max(T) \in T /\ \A y \in T : y <= Max(T)
<1> DEFINE U == {n - y : y \in T}
<1>1. U \in SUBSET Nat /\ U # {}
  <2>1. \A y \in T : y \in Nat /\ y <= n
    OBVIOUS
  <2>2. \A y \in Nat : y <= n => n - y \in Nat
    OBVIOUS
  <2> QED
    BY <2>1, <2>2
<1>2. PICK u \in U : \A v \in U : u <= v
  BY <1>1, LeastNumber
<1>3. PICK x \in T : u = n - x
  OBVIOUS
<1>4. \A y \in T : x >= y
  <2>1. ASSUME NEW y \in T PROVE x >= y
    <3>1. n - y \in U
      OBVIOUS
    <3>2. n - x <= n - y
      BY <3>1, <1>2, <1>3
    <3>3. x \in Int /\ y \in Int /\ n \in Int
      OBVIOUS
    <3> HIDE DEF U
    <3> QED
      BY <3>2, <3>3
  <2> QED
    BY <2>1
<1>5. \E z \in T : \A y \in T : z >= y
  BY <1>4
<1>6. Max(T) = CHOOSE z \in T : \A y \in T : z >= y
  BY DEF Max
<1>7. Max(T) \in T /\ \A y \in T : Max(T) >= y
  BY <1>5, <1>6
<1> QED
  BY <1>7

-----------------------------------------------------------------------------
(* Ledger: counters and rows.                                              *)

RowsOf(t) == CASE t = "rule" -> Rule [] t = "ev" -> Event [] OTHER -> Plain

\* Nothing is numbered higher than what was given out, and while the platform
\* runs a counter is ahead of the rows of its table.
Counted ==
  \A t \in Tables :
    /\ seq[t] \in 1..(given + 1) /\ high[t] \in 0..given
    /\ \A x \in rows[t] : x.id <= given /\ x.birth <= given
    /\ running => \A x \in rows[t] : x.id < seq[t]
HalfDone ==
  /\ ~running => drawing = {} /\ firing = {}
  /\ firing \subseteq rows["rule"] /\ \A r, q \in firing : r = q
  /\ \A d \in drawing : d.birth <= given
LedgerTypes ==
  /\ now \in Cooldown..MaxNow /\ running \in BOOLEAN
  /\ DOMAIN seq = Tables /\ DOMAIN high = Tables /\ DOMAIN rows = Tables
  /\ seq = [t \in Tables |-> seq[t]] /\ high = [t \in Tables |-> high[t]]
  /\ rows = [t \in Tables |-> rows[t]]
  /\ \A t \in Tables : rows[t] \subseteq RowsOf(t)
  /\ lastFired \in [Identity -> 0..MaxNow]
  /\ drawing \subseteq [id : Identity, birth : Identity]
  /\ given \in 0..MaxRows /\ kills \in 0..MaxKills
LedgerBook == LedgerTypes /\ Counted /\ HalfDone

\* An event, and a synthetic one that waits for its picture, name a rule that
\* was given out, and no other rule than theirs has that name.
NamesHold ==
  /\ running => /\ \A e \in rows["ev"] : e.ruleId < seq["rule"]
                /\ \A d \in drawing : d.id < seq["rule"]
  /\ \A r \in rows["rule"] :
       /\ \A e \in rows["ev"] : e.ruleId = r.id => e.of = r.birth
       /\ \A d \in drawing : d.id = r.id => d.birth = r.birth
       /\ \A q \in rows["rule"] : q.id = r.id \/ q.birth = r.birth => q = r
  /\ \A e \in rows["ev"] : e.ruleId <= given /\ e.of <= given

\* A rule knows of each of its events, in memory or in its row, except while
\* its row is being written.
RulesRest ==
  /\ \A e \in rows["ev"] : e.at <= now
  /\ \A e \in rows["ev"], r \in rows["rule"] :
       e.cooled /\ ~e.torn /\ e.of = r.birth =>
         /\ lastFired[r.id] # 0 => e.at <= lastFired[r.id]
         /\ e.at <= r.lastFiredAt \/ (r \in firing /\ e.at = now)

LedgerInv == LedgerBook /\ NamesHold /\ RulesRest /\ CooldownHolds

LEMMA RowFields ==
  ASSUME LedgerBook
  PROVE  /\ {"rule", "ev"} \subseteq Tables
         /\ \A r \in rows["rule"] : r \in Rule
         /\ \A e \in rows["ev"] : e \in Event
         /\ now \in Nat /\ given \in Nat /\ Cooldown \in Nat \ {0} /\ MaxRows \in Nat
         /\ \A t \in Tables : seq[t] \in Nat
         /\ \A i \in Identity : lastFired[i] \in Nat
         /\ \A d \in drawing : d.id \in Nat /\ d.birth \in Nat
         /\ firing \subseteq Rule
BY LedgerAssumption DEF LedgerBook, LedgerTypes, Counted, HalfDone, RowsOf, Identity

\* What is given out next is an identity.
LEMMA NextIdentity ==
  ASSUME LedgerBook
  PROVE  /\ now \in 0..MaxNow
         /\ given < MaxRows => given + 1 \in Identity /\ \A t \in Tables : seq[t] \in Identity
<1>1. /\ Cooldown \in Nat /\ MaxNow \in Nat /\ MaxRows \in Nat
      /\ now \in Cooldown..MaxNow /\ given \in 0..MaxRows
      /\ \A t \in Tables : seq[t] \in 1..(given + 1)
  BY LedgerAssumption DEF LedgerBook, LedgerTypes, Counted
<1> QED
  BY <1>1 DEF Identity

\* A new row of a table leaves the others alone and its rows in place.
LEMMA InsertedRow ==
  ASSUME LedgerBook, running, NEW t \in Tables, NEW x, x \in RowsOf(t),
         x.id = seq[t], x.birth = given + 1, Inserted(t, x)
  PROVE  /\ rows'[t] = rows[t] \cup {x} /\ \A u \in Tables \ {t} : rows'[u] = rows[u]
         /\ DOMAIN rows' = Tables /\ rows' = [u \in Tables |-> rows'[u]]
         /\ \A u \in Tables : rows'[u] \subseteq RowsOf(u)
         /\ DOMAIN seq' = Tables /\ seq' = [u \in Tables |-> seq'[u]]
         /\ DOMAIN high' = Tables /\ high' = [u \in Tables |-> high'[u]]
         /\ given' = given + 1 /\ given' \in 0..MaxRows
         /\ seq'[t] = seq[t] + 1 /\ \A u \in Tables \ {t} : seq'[u] = seq[u]
         /\ Counted'
<1>1. /\ rows = [u \in Tables |-> rows[u]] /\ seq = [u \in Tables |-> seq[u]]
      /\ high = [u \in Tables |-> high[u]] /\ given \in 0..MaxRows /\ MaxRows \in Nat
      /\ DOMAIN seq = Tables /\ DOMAIN high = Tables /\ DOMAIN rows = Tables
      /\ \A u \in Tables : rows[u] \subseteq RowsOf(u)
      /\ \A u \in Tables : seq[u] \in 1..(given + 1) /\ high[u] \in 0..given
      /\ \A u \in Tables : \A y \in rows[u] : y.id <= given /\ y.birth <= given /\ y.id < seq[u]
  BY LedgerAssumption DEF LedgerBook, LedgerTypes, Counted
<1>2. rows'[t] = {y \in rows[t] : y.id # seq[t]} \cup {x}
  BY <1>1 DEF Inserted
<1>a. \A y \in rows[t] : y.id \in Nat
  BY <1>1 DEF RowsOf, Rule, Event, Plain, Identity
<1>3. rows'[t] = rows[t] \cup {x}
  <2>1. \A y \in rows[t] : y.id # seq[t]
    BY <1>1, <1>a
  <2> QED
    BY <1>2, <2>1
<1>4. /\ DOMAIN rows' = Tables /\ \A u \in Tables \ {t} : rows'[u] = rows[u]
      /\ rows' = [u \in Tables |-> rows'[u]]
  BY <1>1 DEF Inserted
<1>5. /\ DOMAIN seq' = Tables /\ seq' = [u \in Tables |-> seq'[u]]
      /\ seq'[t] = seq[t] + 1 /\ \A u \in Tables \ {t} : seq'[u] = seq[u]
  BY <1>1 DEF Inserted
<1>6. given < MaxRows /\ given' = given + 1
  BY DEF Inserted
<1>7. /\ DOMAIN high' = Tables /\ high' = [u \in Tables |-> high'[u]]
      /\ high'[t] = Max({high[t], seq[t]}) /\ \A u \in Tables \ {t} : high'[u] = high[u]
  BY <1>1 DEF Inserted
<1>8. high'[t] \in 0..given'
  <2>1. {high[t], seq[t]} \in SUBSET (0..(given + 1)) /\ given + 1 \in Nat
    BY <1>1
  <2>2. Max({high[t], seq[t]}) \in {high[t], seq[t]}
    BY <2>1, GreatestNumber
  <2> QED
    BY <1>6, <1>7, <2>1, <2>2
<1>9. \A u \in Tables : rows'[u] \subseteq RowsOf(u)
  BY <1>1, <1>3, <1>4
<1>10. Counted'
  <2>1. ASSUME NEW u \in Tables
        PROVE  /\ seq'[u] \in 1..(given' + 1) /\ high'[u] \in 0..given'
               /\ \A y \in rows'[u] : y.id <= given' /\ y.birth <= given' /\ y.id < seq'[u]
    <3>1. CASE u = t
      <4>1. \A y \in rows[t] : y.birth \in Nat
        BY <1>1 DEF RowsOf, Rule, Event, Plain, Identity
      <4> QED
        BY <1>1, <1>a, <1>3, <1>5, <1>6, <1>8, <3>1, <4>1
    <3>2. CASE u # t
      <4>1. \A y \in rows[u] : y.birth \in Nat /\ y.id \in Nat
        BY <1>1 DEF RowsOf, Rule, Event, Plain, Identity
      <4> QED
        BY <1>1, <1>4, <1>5, <1>6, <1>7, <3>2, <4>1
    <3> QED
      BY <3>1, <3>2
  <2> QED
    BY <2>1 DEF Counted
<1> QED
  BY <1>1, <1>3, <1>4, <1>5, <1>6, <1>7, <1>9, <1>10

\* Rows that go leave the rest true.
LEMMA RowsGo ==
  ASSUME LedgerInv, firing = {}, \A t \in Tables : rows'[t] \subseteq rows[t],
         DOMAIN rows' = Tables, rows' = [t \in Tables |-> rows'[t]],
         UNCHANGED <<now, running, seq, lastFired, drawing, firing, high, given, kills>>
  PROVE  LedgerInv'
<1>1. {"rule", "ev"} \subseteq Tables
  BY LedgerAssumption
<1>2. LedgerTypes'
  BY DEF LedgerInv, LedgerBook, LedgerTypes
<1>3. Counted' /\ HalfDone'
  BY <1>1 DEF LedgerInv, LedgerBook, LedgerTypes, Counted, HalfDone
<1>4. NamesHold'
  BY <1>1 DEF LedgerInv, NamesHold
<1>5. RulesRest' /\ CooldownHolds'
  BY <1>1 DEF LedgerInv, RulesRest, CooldownHolds
<1> QED
  BY <1>2, <1>3, <1>4, <1>5 DEF LedgerInv, LedgerBook

\* Creations and ends of rows that are neither rules nor events.
LEMMA PlainStep ==
  ASSUME LedgerInv, NEW t \in Tables,
         \/ Create(t)
         \/ \E x \in rows[t] : Settle(t, x) \/ Delete(t, x)
  PROVE  LedgerInv'
<1>0. LedgerBook /\ {"rule", "ev"} \subseteq Tables
  BY LedgerAssumption DEF LedgerInv
<1>1. ASSUME Create(t) PROVE LedgerInv'
  <2> DEFINE x == [id |-> seq[t], birth |-> given + 1, at |-> now, open |-> TRUE]
  <2>1. /\ running /\ firing = {} /\ t \notin {"rule", "ev"} /\ Inserted(t, x)
        /\ UNCHANGED <<now, running, lastFired, drawing, firing, kills>> /\ given < MaxRows
    BY <1>1 DEF Create, Serves, Inserted
  <2>2. x \in RowsOf(t) /\ x.id = seq[t] /\ x.birth = given + 1
    <3>1. seq[t] \in Identity /\ given + 1 \in Identity /\ now \in 0..MaxNow
      BY <1>0, <2>1, NextIdentity
    <3>2. RowsOf(t) = Plain
      BY <2>1 DEF RowsOf
    <3> QED
      BY <3>1, <3>2 DEF Plain
  <2> HIDE DEF x
  <2>3. /\ \A u \in Tables \ {t} : rows'[u] = rows[u] /\ seq'[u] = seq[u]
        /\ DOMAIN rows' = Tables /\ rows' = [u \in Tables |-> rows'[u]]
        /\ \A u \in Tables : rows'[u] \subseteq RowsOf(u)
        /\ DOMAIN seq' = Tables /\ seq' = [u \in Tables |-> seq'[u]]
        /\ DOMAIN high' = Tables /\ high' = [u \in Tables |-> high'[u]]
        /\ given' = given + 1 /\ given' \in 0..MaxRows /\ Counted'
    BY <1>0, <2>1, <2>2, InsertedRow
  <2>4. rows'["rule"] = rows["rule"] /\ rows'["ev"] = rows["ev"] /\ seq'["rule"] = seq["rule"]
    BY <1>0, <2>1, <2>3
  <2>5. LedgerTypes'
    BY <1>0, <2>1, <2>3 DEF LedgerBook, LedgerTypes
  <2>6. HalfDone'
    BY <1>0, <2>1, <2>3, <2>4, RowFields DEF LedgerBook, HalfDone
  <2>7. NamesHold'
    BY <1>0, <2>1, <2>3, <2>4, RowFields DEF LedgerInv, NamesHold, Event, Identity
  <2>8. RulesRest' /\ CooldownHolds'
    BY <2>1, <2>4 DEF LedgerInv, RulesRest, CooldownHolds
  <2> QED
    BY <2>3, <2>5, <2>6, <2>7, <2>8 DEF LedgerInv, LedgerBook
<1>2. ASSUME NEW x \in rows[t], Settle(t, x) PROVE LedgerInv'
  <2> DEFINE y == [x EXCEPT !.open = FALSE, !.at = now]
  <2>1. /\ running /\ firing = {} /\ t \notin {"rule", "ev"}
        /\ rows' = [rows EXCEPT ![t] = (@ \ {x}) \cup {y}]
        /\ UNCHANGED <<now, running, seq, lastFired, drawing, firing, high, given, kills>>
    BY <1>2 DEF Settle, Serves, Rewrites
  <2>2. y \in RowsOf(t) /\ y.id = x.id /\ y.birth = x.birth
    <3>1. now \in 0..MaxNow
      BY <1>0, NextIdentity
    <3>2. RowsOf(t) = Plain
      BY <2>1 DEF RowsOf
    <3>3. x \in Plain
      BY <1>0, <3>2 DEF LedgerBook, LedgerTypes
    <3> QED
      BY <3>1, <3>2, <3>3 DEF Plain
  <2> HIDE DEF y
  <2>3. /\ rows'[t] = (rows[t] \ {x}) \cup {y} /\ \A u \in Tables \ {t} : rows'[u] = rows[u]
        /\ DOMAIN rows' = Tables /\ rows' = [u \in Tables |-> rows'[u]]
    BY <1>0, <2>1 DEF LedgerBook, LedgerTypes
  <2>4. rows'["rule"] = rows["rule"] /\ rows'["ev"] = rows["ev"]
    BY <1>0, <2>1, <2>3
  <2>5. LedgerTypes'
    BY <1>0, <2>1, <2>2, <2>3 DEF LedgerBook, LedgerTypes
  <2>6. Counted' /\ HalfDone'
    BY <1>0, <2>1, <2>2, <2>3, <2>4 DEF LedgerBook, Counted, HalfDone
  <2>7. NamesHold' /\ RulesRest' /\ CooldownHolds'
    BY <2>1, <2>4 DEF LedgerInv, NamesHold, RulesRest, CooldownHolds
  <2> QED
    BY <2>5, <2>6, <2>7 DEF LedgerInv, LedgerBook
<1>3. ASSUME NEW x \in rows[t], Delete(t, x) PROVE LedgerInv'
  <2>1. /\ firing = {} /\ rows' = [rows EXCEPT ![t] = @ \ {x}]
        /\ UNCHANGED <<now, running, seq, lastFired, drawing, firing, high, given, kills>>
    BY <1>3 DEF Delete, Serves
  <2>2. /\ DOMAIN rows' = Tables /\ rows' = [u \in Tables |-> rows'[u]]
        /\ \A u \in Tables : rows'[u] \subseteq rows[u]
    BY <1>0, <2>1 DEF LedgerBook, LedgerTypes
  <2> QED
    BY <2>1, <2>2, RowsGo
<1> QED
  BY <1>1, <1>2, <1>3

\* A rule's row is written anew: the same rule, fired no earlier than before.
LEMMA RuleRewritten ==
  ASSUME LedgerInv, NEW r \in rows["rule"], NEW q \in Rule,
         q.id = r.id, q.birth = r.birth,
         \A e \in rows["ev"] : e.cooled /\ ~e.torn /\ e.of = r.birth => e.at <= q.lastFiredAt,
         rows' = [rows EXCEPT !["rule"] = (@ \ {r}) \cup {q}],
         drawing' \subseteq drawing \cup {[id |-> r.id, birth |-> r.birth]},
         firing \subseteq {r}, firing' = {}, running,
         UNCHANGED <<now, running, seq, lastFired, high, given, kills>>
  PROVE  LedgerInv'
<1>0. /\ LedgerBook /\ {"rule", "ev"} \subseteq Tables /\ r \in Rule
      /\ r.id <= given /\ r.birth <= given /\ r.id < seq["rule"]
  BY LedgerAssumption, RowFields DEF LedgerInv, LedgerBook, Counted
<1>1. /\ rows'["rule"] = (rows["rule"] \ {r}) \cup {q}
      /\ \A u \in Tables \ {"rule"} : rows'[u] = rows[u]
      /\ DOMAIN rows' = Tables /\ rows' = [u \in Tables |-> rows'[u]]
      /\ rows'["ev"] = rows["ev"]
  BY <1>0 DEF LedgerBook, LedgerTypes
<1>2. \A p \in rows'["rule"] :
        \E o \in rows["rule"] : /\ p.id = o.id /\ p.birth = o.birth
                                /\ (p = q /\ o = r) \/ (p = o /\ o # r)
  BY <1>1
<1>3. q \in RowsOf("rule")
  BY DEF RowsOf
<1>4. LedgerTypes'
  <2>1. \A u \in Tables : rows'[u] \subseteq RowsOf(u)
    BY <1>0, <1>1, <1>3 DEF LedgerBook, LedgerTypes
  <2>2. [id |-> r.id, birth |-> r.birth] \in [id : Identity, birth : Identity]
    BY <1>0 DEF Rule
  <2>3. drawing' \subseteq [id : Identity, birth : Identity]
    BY <1>0, <2>2 DEF LedgerBook, LedgerTypes
  <2> QED
    BY <1>0, <1>1, <2>1, <2>3 DEF LedgerBook, LedgerTypes
<1>5. Counted'
  BY <1>0, <1>1, <1>2 DEF LedgerBook, Counted
<1>6. HalfDone'
  BY <1>0, <1>1 DEF LedgerBook, HalfDone
<1>7. NamesHold'
  <2>1. \A p, o \in rows'["rule"] : p.id = o.id \/ p.birth = o.birth => p = o
    BY <1>2 DEF LedgerInv, NamesHold
  <2>2. \A p \in rows'["rule"], e \in rows'["ev"] : e.ruleId = p.id => e.of = p.birth
    BY <1>1, <1>2 DEF LedgerInv, NamesHold
  <2>3. \A p \in rows'["rule"], d \in drawing' : d.id = p.id => d.birth = p.birth
    BY <1>1, <1>2 DEF LedgerInv, NamesHold
  <2>4. \A d \in drawing' : d.id < seq["rule"]
    BY <1>0 DEF LedgerInv, NamesHold
  <2> QED
    BY <1>1, <2>1, <2>2, <2>3, <2>4 DEF LedgerInv, NamesHold
<1>8. RulesRest'
  BY <1>1, <1>2 DEF LedgerInv, RulesRest
<1>9. CooldownHolds'
  BY <1>1 DEF LedgerInv, CooldownHolds
<1> QED
  BY <1>4, <1>5, <1>6, <1>7, <1>8, <1>9 DEF LedgerInv, LedgerBook

LEMMA RewriteStep ==
  ASSUME LedgerInv,
         \/ \E r \in rows["rule"] : EditRule(r) \/ DrawEvent(r)
         \/ RecordFiring
  PROVE  LedgerInv'
<1>0. LedgerBook /\ now \in 0..MaxNow /\ {"rule", "ev"} \subseteq Tables
  BY NextIdentity, LedgerAssumption DEF LedgerInv
<1>a. \A r \in rows["rule"] : r \in Rule
  BY <1>0, RowFields
<1>b. \A r \in rows["rule"] : firing = {} =>
        \A e \in rows["ev"] : e.cooled /\ ~e.torn /\ e.of = r.birth => e.at <= r.lastFiredAt
  BY DEF LedgerInv, RulesRest
<1>1. ASSUME NEW r \in rows["rule"], EditRule(r) PROVE LedgerInv'
  <2> DEFINE q == [r EXCEPT !.enabled = ~@]
  <2>1. q \in Rule /\ q.id = r.id /\ q.birth = r.birth /\ q.lastFiredAt = r.lastFiredAt
    BY <1>a DEF Rule
  <2>2. /\ rows' = [rows EXCEPT !["rule"] = (@ \ {r}) \cup {q}] /\ firing = {} /\ running
        /\ UNCHANGED <<now, running, seq, lastFired, drawing, firing, high, given, kills>>
    BY <1>1 DEF EditRule, Serves, Rewrites
  <2> HIDE DEF q
  <2>3. \A e \in rows["ev"] : e.cooled /\ ~e.torn /\ e.of = r.birth => e.at <= q.lastFiredAt
    BY <1>b, <2>1, <2>2
  <2> QED
    BY <2>1, <2>2, <2>3, RuleRewritten
<1>2. ASSUME NEW r \in rows["rule"], NEW q, q = [r EXCEPT !.lastFiredAt = now]
      PROVE  /\ q \in Rule /\ q.id = r.id /\ q.birth = r.birth
             /\ \A e \in rows["ev"] : e.cooled /\ ~e.torn /\ e.of = r.birth => e.at <= q.lastFiredAt
  <2>1. q \in Rule /\ q.id = r.id /\ q.birth = r.birth /\ q.lastFiredAt = now
    BY <1>0, <1>a, <1>2 DEF Rule
  <2> QED
    BY <2>1 DEF LedgerInv, RulesRest
<1>3. ASSUME NEW r \in rows["rule"], DrawEvent(r) PROVE LedgerInv'
  <2>1. PICK q : q = [r EXCEPT !.lastFiredAt = now]
    OBVIOUS
  <2>2. /\ rows' = [rows EXCEPT !["rule"] = (@ \ {r}) \cup {q}] /\ firing = {} /\ running
        /\ drawing' = drawing \cup {[id |-> r.id, birth |-> r.birth]}
        /\ UNCHANGED <<now, running, seq, lastFired, firing, high, given, kills>>
    BY <1>3, <2>1 DEF DrawEvent, Serves
  <2>3. /\ q \in Rule /\ q.id = r.id /\ q.birth = r.birth
        /\ \A e \in rows["ev"] : e.cooled /\ ~e.torn /\ e.of = r.birth => e.at <= q.lastFiredAt
    BY <1>2, <2>1
  <2> QED
    BY <2>2, <2>3, RuleRewritten
<1>4. ASSUME RecordFiring PROVE LedgerInv'
  <2>1. PICK r \in firing :
          rows' = [rows EXCEPT !["rule"] = (@ \ {r}) \cup {[r EXCEPT !.lastFiredAt = now]}]
    BY <1>4 DEF RecordFiring
  <2>2. PICK q : q = [r EXCEPT !.lastFiredAt = now]
    OBVIOUS
  <2>3. /\ r \in rows["rule"] /\ firing \subseteq {r}
    BY <1>0 DEF LedgerBook, HalfDone
  <2>4. /\ rows' = [rows EXCEPT !["rule"] = (@ \ {r}) \cup {q}] /\ firing' = {} /\ running
        /\ UNCHANGED <<now, running, seq, lastFired, drawing, high, given, kills>>
    BY <1>4, <2>1, <2>2 DEF RecordFiring
  <2>5. /\ q \in Rule /\ q.id = r.id /\ q.birth = r.birth
        /\ \A e \in rows["ev"] : e.cooled /\ ~e.torn /\ e.of = r.birth => e.at <= q.lastFiredAt
    BY <1>2, <2>2, <2>3
  <2> QED
    BY <2>3, <2>4, <2>5, RuleRewritten
<1> QED
  BY <1>1, <1>3, <1>4

\* A rule is added under a name that nothing on record knows.
LEMMA AddRuleStep ==
  ASSUME LedgerInv, NEW sort \in {"sim", "threshold"}, AddRule(sort)
  PROVE  LedgerInv'
<1>0. LedgerBook /\ {"rule", "ev"} \subseteq Tables
  BY LedgerAssumption DEF LedgerInv
<1> DEFINE x == [id |-> seq["rule"], birth |-> given + 1, kind |-> sort,
                 enabled |-> TRUE, lastFiredAt |-> 0]
<1>1. /\ running /\ firing = {} /\ Inserted("rule", x) /\ given < MaxRows
      /\ UNCHANGED <<now, running, lastFired, drawing, firing, kills>>
  BY DEF AddRule, Serves, Inserted
<1>2. x \in RowsOf("rule") /\ x.id = seq["rule"] /\ x.birth = given + 1
  <2>1. seq["rule"] \in Identity /\ given + 1 \in Identity
    BY <1>0, <1>1, NextIdentity
  <2>2. 0 \in 0..MaxNow
    BY LedgerAssumption
  <2> QED
    BY <2>1, <2>2 DEF RowsOf, Rule
<1> HIDE DEF x
<1>3. /\ rows'["rule"] = rows["rule"] \cup {x} /\ seq'["rule"] = seq["rule"] + 1
      /\ \A u \in Tables \ {"rule"} : rows'[u] = rows[u]
      /\ DOMAIN rows' = Tables /\ rows' = [u \in Tables |-> rows'[u]]
      /\ \A u \in Tables : rows'[u] \subseteq RowsOf(u)
      /\ DOMAIN seq' = Tables /\ seq' = [u \in Tables |-> seq'[u]]
      /\ DOMAIN high' = Tables /\ high' = [u \in Tables |-> high'[u]]
      /\ given' = given + 1 /\ given' \in 0..MaxRows /\ Counted'
  BY <1>0, <1>1, <1>2, InsertedRow
<1>4. /\ rows'["ev"] = rows["ev"] /\ given \in Nat /\ seq["rule"] \in Nat
      /\ \A r \in rows["rule"] : /\ r.id \in Nat /\ r.birth \in Nat /\ r.birth <= given
                                 /\ r.id < seq["rule"]
      /\ \A e \in rows["ev"] : e.ruleId \in Nat /\ e.of \in Nat
      /\ \A d \in drawing : d.id \in Nat /\ d.birth \in Nat
  BY <1>0, <1>1, <1>3, RowFields DEF LedgerBook, Counted, Rule, Event, Identity
<1>5. LedgerTypes'
  BY <1>0, <1>1, <1>3 DEF LedgerBook, LedgerTypes
<1>6. HalfDone'
  BY <1>0, <1>1, <1>3, <1>4 DEF LedgerBook, HalfDone
<1>7. NamesHold'
  <2>1. \A e \in rows["ev"] : e.ruleId < seq["rule"] /\ e.ruleId <= given /\ e.of <= given
    BY <1>1 DEF LedgerInv, NamesHold
  <2>2. \A d \in drawing : d.id < seq["rule"]
    BY <1>1 DEF LedgerInv, NamesHold
  <2>3. \A e \in rows["ev"] : e.ruleId # x.id
    BY <1>2, <1>4, <2>1
  <2>4. \A d \in drawing : d.id # x.id
    BY <1>2, <1>4, <2>2
  <2>5. \A r \in rows["rule"] : r.id # x.id /\ r.birth # x.birth
    BY <1>2, <1>4
  <2>6. \A r \in rows'["rule"] :
       /\ \A e \in rows'["ev"] : e.ruleId = r.id => e.of = r.birth
       /\ \A d \in drawing' : d.id = r.id => d.birth = r.birth
       /\ \A q \in rows'["rule"] : q.id = r.id \/ q.birth = r.birth => q = r
    BY <1>1, <1>3, <1>4, <2>3, <2>4, <2>5 DEF LedgerInv, NamesHold
  <2>7. /\ \A e \in rows'["ev"] : e.ruleId < seq'["rule"]
        /\ \A d \in drawing' : d.id < seq'["rule"]
        /\ \A e \in rows'["ev"] : e.ruleId <= given' /\ e.of <= given'
    BY <1>1, <1>3, <1>4, <2>1, <2>2
  <2> QED
    BY <2>6, <2>7 DEF NamesHold
<1>8. RulesRest'
  <2>1. \A e \in rows["ev"] : e.of # x.birth
    BY <1>2, <1>4 DEF LedgerInv, NamesHold
  <2> QED
    BY <1>1, <1>3, <1>4, <2>1 DEF LedgerInv, RulesRest
<1>9. CooldownHolds'
  BY <1>4 DEF LedgerInv, CooldownHolds
<1> QED
  BY <1>3, <1>5, <1>6, <1>7, <1>8, <1>9 DEF LedgerInv, LedgerBook

\* An event of a rule that is on record or was, or of another system.
LEMMA EventMade ==
  ASSUME LedgerInv, running, firing = {}, NEW r, NEW cooled \in BOOLEAN,
         r.id \in {0} \cup Identity, r.birth \in {0} \cup Identity,
         r.id < seq["rule"], r.id <= given, r.birth <= given,
         \A p \in rows["rule"] : r.id = p.id => r.birth = p.birth,
         MakeEvent(r, cooled), drawing' \subseteq drawing,
         UNCHANGED <<now, running, kills>>,
         \/ ~cooled /\ UNCHANGED <<lastFired, firing>>
         \/ /\ cooled /\ r \in rows["rule"] /\ firing' = {r} /\ now >= FiredAt(r) + Cooldown
            /\ lastFired' = [lastFired EXCEPT ![r.id] = now]
  PROVE  LedgerInv'
<1> DEFINE f == [id |-> seq["ev"], birth |-> given + 1, at |-> now,
                 ruleId |-> r.id, of |-> r.birth, cooled |-> cooled, torn |-> FALSE]
<1>0. LedgerBook /\ {"rule", "ev"} \subseteq Tables /\ now \in 0..MaxNow
  BY LedgerAssumption, NextIdentity DEF LedgerInv
<1>1. Inserted("ev", f) /\ given < MaxRows
  BY DEF MakeEvent, Inserted
<1>2. f \in RowsOf("ev") /\ f.id = seq["ev"] /\ f.birth = given + 1
  <2>1. seq["ev"] \in Identity /\ given + 1 \in Identity
    BY <1>0, <1>1, NextIdentity
  <2> QED
    BY <1>0, <2>1 DEF RowsOf, Event
<1>a. /\ f.at = now /\ f.ruleId = r.id /\ f.of = r.birth /\ f.cooled = cooled /\ f.torn = FALSE
  OBVIOUS
<1> HIDE DEF f
<1>3. /\ rows'["ev"] = rows["ev"] \cup {f}
      /\ \A u \in Tables \ {"ev"} : rows'[u] = rows[u] /\ seq'[u] = seq[u]
      /\ DOMAIN rows' = Tables /\ rows' = [u \in Tables |-> rows'[u]]
      /\ \A u \in Tables : rows'[u] \subseteq RowsOf(u)
      /\ DOMAIN seq' = Tables /\ seq' = [u \in Tables |-> seq'[u]]
      /\ DOMAIN high' = Tables /\ high' = [u \in Tables |-> high'[u]]
      /\ given' = given + 1 /\ given' \in 0..MaxRows /\ Counted'
  BY <1>0, <1>1, <1>2, InsertedRow
<1>4. rows'["rule"] = rows["rule"] /\ seq'["rule"] = seq["rule"]
  BY <1>0, <1>3
<1>5. /\ given \in Nat /\ seq["rule"] \in Nat /\ Cooldown \in Nat \ {0} /\ now \in Nat
      /\ \A p \in rows["rule"] : /\ p.id \in Identity /\ p.lastFiredAt \in Nat
                                 /\ lastFired[p.id] \in Nat
      /\ \A e \in rows["ev"] : /\ e.birth \in Nat /\ e.birth <= given /\ e.ruleId \in Nat
                               /\ e.of \in Nat /\ e.at \in Nat
      /\ \A d \in drawing : d.id \in Nat /\ d.birth \in Nat
  BY <1>0, RowFields DEF LedgerBook, Counted, Rule, Event, Identity
<1>6. LedgerTypes'
  <2>1. lastFired' \in [Identity -> 0..MaxNow]
    BY <1>0 DEF LedgerBook, LedgerTypes
  <2>2. drawing' \subseteq [id : Identity, birth : Identity]
    BY <1>0 DEF LedgerBook, LedgerTypes
  <2> QED
    BY <1>0, <1>3, <2>1, <2>2 DEF LedgerBook, LedgerTypes
<1>7. HalfDone'
  BY <1>0, <1>3, <1>4, <1>5 DEF LedgerBook, HalfDone
<1>8. NamesHold'
  <2>1. \A e \in rows'["ev"] : /\ e.ruleId < seq["rule"] /\ e.ruleId <= given' /\ e.of <= given'
                               /\ \A p \in rows["rule"] : e.ruleId = p.id => e.of = p.birth
    <3>1. \A e \in rows["ev"] : /\ e.ruleId < seq["rule"] /\ e.ruleId <= given /\ e.of <= given
                                /\ \A p \in rows["rule"] : e.ruleId = p.id => e.of = p.birth
      BY DEF LedgerInv, NamesHold
    <3>2. r.id \in Nat /\ r.birth \in Nat
      BY DEF Identity
    <3> QED
      BY <1>a, <1>3, <1>5, <3>1, <3>2
  <2>2. /\ \A d \in drawing' : d.id < seq["rule"]
        /\ \A p \in rows["rule"] : \A d \in drawing' : d.id = p.id => d.birth = p.birth
        /\ \A p, q \in rows["rule"] : q.id = p.id \/ q.birth = p.birth => q = p
    BY DEF LedgerInv, NamesHold
  <2> QED
    BY <1>3, <1>4, <2>1, <2>2 DEF NamesHold
<1>9. CASE ~cooled /\ UNCHANGED <<lastFired, firing>>
  <2>1. RulesRest'
    BY <1>3, <1>4, <1>5, <1>9, <1>a DEF LedgerInv, RulesRest
  <2>2. CooldownHolds'
    BY <1>3, <1>9, <1>a DEF LedgerInv, CooldownHolds
  <2> QED
    BY <1>3, <1>6, <1>7, <1>8, <2>1, <2>2 DEF LedgerInv, LedgerBook
<1>10. CASE /\ cooled /\ r \in rows["rule"] /\ firing' = {r} /\ now >= FiredAt(r) + Cooldown
            /\ lastFired' = [lastFired EXCEPT ![r.id] = now]
  <2>1. \A i \in Identity : lastFired'[i] = IF i = r.id THEN now ELSE lastFired[i]
    BY <1>0, <1>10 DEF LedgerBook, LedgerTypes
  <2>2. \A p \in rows["rule"] : p.birth = r.birth => p = r
    BY <1>10 DEF LedgerInv, NamesHold
  <2>3. ASSUME NEW e \in rows["ev"], NEW p \in rows["rule"],
               e.cooled, ~e.torn, e.of = p.birth
        PROVE  /\ e.at <= p.lastFiredAt /\ e.at <= now
               /\ lastFired[p.id] # 0 => e.at <= lastFired[p.id]
    BY <2>3 DEF LedgerInv, RulesRest
  <2>4. RulesRest'
    <3>1. \A e \in rows'["ev"] : e.at <= now
      BY <1>3, <1>5, <1>a DEF LedgerInv, RulesRest
    <3>2. ASSUME NEW e \in rows'["ev"], NEW p \in rows["rule"],
                 e.cooled, ~e.torn, e.of = p.birth
          PROVE  /\ lastFired'[p.id] # 0 => e.at <= lastFired'[p.id]
                 /\ e.at <= p.lastFiredAt \/ (p \in firing' /\ e.at = now)
      <4>1. CASE e \in rows["ev"]
        BY <3>2, <4>1, <2>1, <2>3, <1>5
      <4>2. CASE e = f
        BY <3>2, <4>2, <2>1, <2>2, <1>5, <1>10, <1>a
      <4> QED
        BY <1>3, <4>1, <4>2
    <3> QED
      BY <1>4, <3>1, <3>2 DEF RulesRest
  <2>5. CooldownHolds'
    <3>1. ASSUME NEW e \in rows["ev"], e.cooled, ~e.torn, e.of = r.birth
          PROVE  f.at >= e.at + Cooldown
      <4>1. e.at <= FiredAt(r)
        BY <1>10, <2>3, <3>1 DEF FiredAt
      <4>2. FiredAt(r) \in Nat
        BY <1>5, <1>10 DEF FiredAt
      <4> QED
        BY <4>1, <4>2, <1>5, <1>10, <1>a
    <3>2. \A e \in rows["ev"] : ~(f.birth < e.birth)
      BY <1>2, <1>5
    <3>3. ~(f.birth < f.birth)
      BY <1>2, <1>5
    <3>4. ASSUME NEW e \in rows'["ev"], NEW g \in rows'["ev"],
                 e.cooled /\ g.cooled /\ ~e.torn /\ e.of = g.of /\ e.birth < g.birth
          PROVE  g.at >= e.at + Cooldown
      <4>1. e \in rows["ev"]
        BY <1>3, <3>2, <3>3, <3>4
      <4>2. CASE g \in rows["ev"]
        BY <3>4, <4>1, <4>2 DEF LedgerInv, CooldownHolds
      <4>3. CASE g = f
        BY <3>1, <3>4, <4>1, <4>3, <1>a
      <4> QED
        BY <1>3, <4>2, <4>3
    <3> QED
      BY <3>4 DEF CooldownHolds
  <2> QED
    BY <1>3, <1>6, <1>7, <1>8, <2>4, <2>5 DEF LedgerInv, LedgerBook
<1> QED
  BY <1>9, <1>10

LEMMA EventStep ==
  ASSUME LedgerInv,
         \/ IngestEvent
         \/ \E r \in drawing : DrawnEvent(r)
         \/ \E r \in rows["rule"] : Fires(r)
  PROVE  LedgerInv'
<1>0. /\ LedgerBook /\ {"rule", "ev"} \subseteq Tables
      /\ \A r \in rows["rule"] : /\ r.id \in Identity /\ r.birth \in Identity
                                 /\ r.id <= given /\ r.birth <= given
      /\ seq["rule"] \in 1..(given + 1) /\ given \in Nat
  BY LedgerAssumption, RowFields DEF LedgerInv, LedgerBook, Counted, Rule
<1>1. ASSUME IngestEvent PROVE LedgerInv'
  <2>1. /\ NoRule.id = 0 /\ NoRule.birth = 0 /\ 0 < seq["rule"] /\ 0 <= given
        /\ \A p \in rows["rule"] : p.id # 0
    BY <1>0 DEF NoRule, Identity
  <2>2. /\ running /\ firing = {} /\ MakeEvent(NoRule, FALSE)
        /\ UNCHANGED <<now, running, lastFired, drawing, firing, kills>>
    BY <1>1 DEF IngestEvent, Serves
  <2> QED
    BY <2>1, <2>2, EventMade
<1>2. ASSUME NEW r \in drawing, DrawnEvent(r) PROVE LedgerInv'
  <2>1. /\ running /\ firing = {} /\ MakeEvent(r, FALSE) /\ drawing' \subseteq drawing
        /\ UNCHANGED <<now, running, lastFired, firing, kills>>
    BY <1>2 DEF DrawnEvent, Serves
  <2>2. /\ r.id \in Identity /\ r.birth \in Identity /\ r.id < seq["rule"] /\ r.birth <= given
        /\ \A p \in rows["rule"] : r.id = p.id => r.birth = p.birth
    BY <1>0, <2>1 DEF LedgerInv, LedgerBook, LedgerTypes, HalfDone, NamesHold
  <2>3. r.id <= given
    BY <1>0, <2>2 DEF Identity
  <2> QED
    BY <2>1, <2>2, <2>3, EventMade
<1>3. ASSUME NEW r \in rows["rule"], Fires(r) PROVE LedgerInv'
  <2>1. /\ running /\ firing = {} /\ MakeEvent(r, TRUE) /\ firing' = {r}
        /\ now >= FiredAt(r) + Cooldown /\ lastFired' = [lastFired EXCEPT ![r.id] = now]
        /\ UNCHANGED <<now, running, drawing, kills>>
    BY <1>3 DEF Fires, Serves
  <2>2. r.id < seq["rule"] /\ \A p \in rows["rule"] : r.id = p.id => r.birth = p.birth
    BY <1>0, <2>1 DEF LedgerInv, LedgerBook, Counted, NamesHold
  <2> QED
    BY <1>0, <2>1, <2>2, EventMade
<1> QED
  BY <1>1, <1>2, <1>3

\* The process ends, perhaps between an event and the row of its rule.
LEMMA KillStep ==
  ASSUME LedgerInv, Kill
  PROVE  LedgerInv'
<1>0. LedgerBook /\ {"rule", "ev"} \subseteq Tables
  BY LedgerAssumption DEF LedgerInv
<1> DEFINE Torn(e) == [e EXCEPT !.torn = e.torn \/ \E r \in firing : e.of = r.birth /\ e.at = now]
<1>1. /\ running' = FALSE /\ kills' = kills + 1 /\ kills < MaxKills
      /\ lastFired' = [i \in Identity |-> 0] /\ drawing' = {} /\ firing' = {}
      /\ rows' = [rows EXCEPT !["ev"] = {Torn(e) : e \in @}]
      /\ UNCHANGED <<now, seq, high, given>>
  BY DEF Kill
<1>2. ASSUME NEW e \in rows["ev"]
      PROVE  /\ Torn(e) \in Event
             /\ Torn(e).id = e.id /\ Torn(e).birth = e.birth /\ Torn(e).at = e.at
             /\ Torn(e).ruleId = e.ruleId /\ Torn(e).of = e.of /\ Torn(e).cooled = e.cooled
             /\ Torn(e).torn = (e.torn \/ \E r \in firing : e.of = r.birth /\ e.at = now)
  <2>1. e \in Event
    BY <1>0, RowFields
  <2> QED
    BY <2>1 DEF Event
<1> HIDE DEF Torn
<1>3. /\ rows'["ev"] = {Torn(e) : e \in rows["ev"]}
      /\ \A u \in Tables \ {"ev"} : rows'[u] = rows[u]
      /\ DOMAIN rows' = Tables /\ rows' = [u \in Tables |-> rows'[u]]
      /\ rows'["rule"] = rows["rule"]
  BY <1>0, <1>1 DEF LedgerBook, LedgerTypes
<1>4. \A e \in rows'["ev"] : \E o \in rows["ev"] : e = Torn(o)
  BY <1>3
<1>5. LedgerTypes'
  <2>1. \A u \in Tables : rows'[u] \subseteq RowsOf(u)
    BY <1>0, <1>2, <1>3, <1>4 DEF LedgerBook, LedgerTypes, RowsOf
  <2>2. 0 \in 0..MaxNow /\ kills' \in 0..MaxKills
    BY <1>0, <1>1, LedgerAssumption DEF LedgerBook, LedgerTypes
  <2> QED
    BY <1>0, <1>1, <1>3, <2>1, <2>2 DEF LedgerBook, LedgerTypes
<1>6. Counted' /\ HalfDone'
  BY <1>0, <1>1, <1>2, <1>3, <1>4 DEF LedgerBook, Counted, HalfDone
<1>7. NamesHold'
  BY <1>1, <1>2, <1>3, <1>4 DEF LedgerInv, NamesHold
<1>8. RulesRest'
  <2>1. \A e \in rows'["ev"] : e.at <= now'
    BY <1>1, <1>2, <1>4 DEF LedgerInv, RulesRest
  <2>2. ASSUME NEW e \in rows'["ev"], NEW r \in rows'["rule"],
               e.cooled /\ ~e.torn /\ e.of = r.birth
        PROVE  (lastFired'[r.id] # 0 => e.at <= lastFired'[r.id]) /\ e.at <= r.lastFiredAt
    <3>1. PICK o \in rows["ev"] : e = Torn(o)
      BY <1>4
    <3>2. /\ o.cooled /\ ~o.torn /\ o.of = r.birth /\ o.at = e.at /\ r \in rows["rule"]
          /\ ~(r \in firing /\ o.at = now)
      <4>1. ~Torn(o).torn
        BY <2>2, <3>1
      <4>2. ~(o.torn \/ \E q \in firing : o.of = q.birth /\ o.at = now)
        BY <4>1, <1>2, Zenon
      <4>3. o.cooled /\ o.of = r.birth /\ o.at = e.at /\ r \in rows["rule"]
        BY <1>2, <1>3, <2>2, <3>1
      <4> QED
        BY <4>2, <4>3
    <3>3. e.at <= r.lastFiredAt
      BY <3>2 DEF LedgerInv, RulesRest
    <3>4. r.id \in Identity
      BY <1>0, <3>2, RowFields DEF Rule
    <3>5. lastFired'[r.id] = 0
      BY <1>1, <3>4
    <3> QED
      BY <3>3, <3>5
  <2> QED
    BY <2>1, <2>2 DEF RulesRest
<1>9. CooldownHolds'
  <2>1. ASSUME NEW e \in rows'["ev"], NEW g \in rows'["ev"],
               e.cooled /\ g.cooled /\ ~e.torn /\ e.of = g.of /\ e.birth < g.birth
        PROVE  g.at >= e.at + Cooldown
    <3>1. PICK o \in rows["ev"] : e = Torn(o)
      BY <1>4
    <3>2. PICK p \in rows["ev"] : g = Torn(p)
      BY <1>4
    <3>3. o.cooled /\ p.cooled /\ ~o.torn /\ o.of = p.of /\ o.birth < p.birth
      BY <1>2, <2>1, <3>1, <3>2
    <3>4. p.at >= o.at + Cooldown
      BY <3>3 DEF LedgerInv, CooldownHolds
    <3> QED
      BY <1>2, <3>1, <3>2, <3>4
  <2> QED
    BY <2>1 DEF CooldownHolds
<1> QED
  BY <1>5, <1>6, <1>7, <1>8, <1>9 DEF LedgerInv, LedgerBook

\* loadSeqs: the counters go on behind every row that is left and every name
\* that an event keeps.
LEMMA LoadSeqAhead ==
  ASSUME LedgerInv, NEW t \in Tables
  PROVE  /\ LoadSeq(t) \in 1..(given + 1) /\ \A x \in Kept(t) : x.id < LoadSeq(t)
         /\ t = "rule" => \A e \in Kept("ev") : e.ruleId < LoadSeq(t)
<1>0. LedgerBook /\ {"rule", "ev"} \subseteq Tables /\ given \in Nat
  BY LedgerAssumption, RowFields DEF LedgerInv
<1>1. PICK S : S = Ids(t) \cup (IF t = "rule" THEN {e.ruleId : e \in Kept("ev")} ELSE {})
  OBVIOUS
<1>2. Kept(t) \subseteq rows[t] /\ Kept("ev") \subseteq rows["ev"]
  BY DEF Kept
<1>3. \A x \in rows[t] : x.id \in Nat /\ x.id <= given
  BY <1>0 DEF LedgerBook, LedgerTypes, Counted, RowsOf, Rule, Event, Plain, Identity
<1>4. \A e \in rows["ev"] : e.ruleId \in Nat /\ e.ruleId <= given
  BY <1>0, RowFields DEF LedgerInv, NamesHold, Event, Identity
<1>5. {0} \cup S \in SUBSET (0..given)
  BY <1>0, <1>1, <1>2, <1>3, <1>4 DEF Ids
<1>6. Max({0} \cup S) \in 0..given /\ \A y \in S : y <= Max({0} \cup S)
  BY <1>0, <1>5, GreatestNumber
<1>7. LoadSeq(t) = Max({0} \cup S) + 1
  BY <1>1 DEF LoadSeq, Newest
<1>8. \A x \in Kept(t) : x.id \in S
  BY <1>1 DEF Ids
<1>9. t = "rule" => \A e \in Kept("ev") : e.ruleId \in S
  BY <1>1
<1>10. PICK m \in 0..given : LoadSeq(t) = m + 1 /\ \A y \in S : y <= m
  BY <1>6, <1>7
<1>11. \A y \in S : y \in Int
  BY <1>5
<1>12. \A y \in S : y < LoadSeq(t)
  BY <1>10, <1>11
<1> QED
  BY <1>0, <1>8, <1>9, <1>10, <1>12

LEMMA BootStep ==
  ASSUME LedgerInv, Boot
  PROVE  LedgerInv'
<1>0. LedgerBook /\ {"rule", "ev"} \subseteq Tables /\ given \in Nat
  BY LedgerAssumption, RowFields DEF LedgerInv
<1>1. /\ running' = TRUE /\ drawing = {} /\ firing = {}
      /\ rows' = [t \in Tables |-> Kept(t)] /\ seq' = [t \in Tables |-> LoadSeq(t)]
      /\ UNCHANGED <<now, lastFired, drawing, firing, high, given, kills>>
  BY <1>0 DEF Boot, LedgerBook, HalfDone
<1>2. /\ \A t \in Tables : rows'[t] = Kept(t) /\ Kept(t) \subseteq rows[t] /\ seq'[t] = LoadSeq(t)
      /\ DOMAIN rows' = Tables /\ rows' = [t \in Tables |-> rows'[t]]
      /\ DOMAIN seq' = Tables /\ seq' = [t \in Tables |-> seq'[t]]
  BY <1>1 DEF Kept
<1>3. LedgerTypes'
  BY <1>0, <1>1, <1>2 DEF LedgerBook, LedgerTypes
<1>4. Counted' /\ HalfDone'
  BY <1>0, <1>1, <1>2, LoadSeqAhead DEF LedgerBook, Counted, HalfDone
<1>5. NamesHold'
  <2>1. \A e \in rows'["ev"] : e.ruleId < seq'["rule"]
    BY <1>0, <1>2, LoadSeqAhead
  <2> QED
    BY <1>0, <1>1, <1>2, <2>1 DEF LedgerInv, NamesHold
<1>6. RulesRest' /\ CooldownHolds'
  BY <1>0, <1>1, <1>2 DEF LedgerInv, RulesRest, CooldownHolds
<1> QED
  BY <1>3, <1>4, <1>5, <1>6 DEF LedgerInv, LedgerBook

\* Time and retention.
LEMMA TimeStep ==
  ASSUME LedgerInv, Sweep \/ Advance \/ UNCHANGED ledgerVars
  PROVE  LedgerInv'
<1>0. LedgerBook /\ {"rule", "ev"} \subseteq Tables /\ now \in Nat
  BY LedgerAssumption, RowFields DEF LedgerInv
<1>1. ASSUME Sweep PROVE LedgerInv'
  <2>1. /\ firing = {} /\ DOMAIN rows' = Tables /\ rows' = [t \in Tables |-> rows'[t]]
        /\ \A t \in Tables : rows'[t] \subseteq rows[t]
        /\ UNCHANGED <<now, running, seq, lastFired, drawing, firing, high, given, kills>>
    BY <1>1 DEF Sweep, Serves, Kept
  <2> QED
    BY <2>1, RowsGo
<1>2. ASSUME Advance PROVE LedgerInv'
  <2>1. /\ firing = {} /\ now' = now + 1 /\ now < MaxNow
        /\ UNCHANGED <<running, seq, rows, lastFired, drawing, firing, high, given, kills>>
    BY <1>2 DEF Advance
  <2>2. LedgerTypes'
    BY <1>0, <2>1, LedgerAssumption DEF LedgerBook, LedgerTypes
  <2>3. Counted' /\ HalfDone' /\ NamesHold'
    BY <1>0, <2>1 DEF LedgerInv, LedgerBook, Counted, HalfDone, NamesHold
  <2>4. \A e \in rows["ev"] : e.at \in Nat
    BY <1>0, RowFields DEF Event
  <2>5. RulesRest' /\ CooldownHolds'
    BY <1>0, <2>1, <2>4 DEF LedgerInv, RulesRest, CooldownHolds
  <2> QED
    BY <2>2, <2>3, <2>5 DEF LedgerInv, LedgerBook
<1>3. ASSUME UNCHANGED ledgerVars PROVE LedgerInv'
  BY <1>3 DEF ledgerVars, LedgerInv, LedgerBook, LedgerTypes, Counted, HalfDone, NamesHold,
     RulesRest, CooldownHolds
<1> QED
  BY <1>1, <1>2, <1>3

LEMMA LedgerInvHolds ==
  LedgerSpec => []LedgerInv
<1>1. LedgerInit => LedgerInv
  <2> SUFFICES ASSUME LedgerInit PROVE LedgerInv
    OBVIOUS
  <2>1. /\ Cooldown \in Cooldown..MaxNow /\ 0 \in 0..MaxNow /\ 0 \in 0..MaxRows /\ 0 \in 0..MaxKills
        /\ {"rule", "ev"} \subseteq Tables
    BY LedgerAssumption
  <2>2. LedgerTypes
    BY <2>1 DEF LedgerInit, LedgerTypes
  <2>3. Counted /\ HalfDone /\ NamesHold /\ RulesRest /\ CooldownHolds
    BY <2>1 DEF LedgerInit, Counted, HalfDone, NamesHold, RulesRest, CooldownHolds
  <2> QED
    BY <2>2, <2>3 DEF LedgerInv, LedgerBook
<1>2. LedgerInv /\ [LedgerNext]_ledgerVars => LedgerInv'
  BY PlainStep, RewriteStep, AddRuleStep, EventStep, KillStep, BootStep, TimeStep
     DEF LedgerNext
<1> QED
  BY <1>1, <1>2, PTL DEF LedgerSpec

\* The rows, the counters and what is half done keep their types, through
\* kills and boots (config.ts:521-541, world.ts:794-833).
THEOREM LedgerTypeCorrect ==
  LedgerSpec => []LedgerTypeOK
<1>1. LedgerInv => LedgerTypeOK
  <2> SUFFICES ASSUME LedgerInv PROVE LedgerTypeOK
    OBVIOUS
  <2>1. LedgerBook
    BY DEF LedgerInv
  <2>2. /\ given \in 0..MaxRows /\ MaxRows \in Nat
        /\ \A t \in Tables : seq[t] \in 1..(given + 1) /\ high[t] \in 0..given
    BY <2>1, LedgerAssumption DEF LedgerBook, LedgerTypes, Counted
  <2>3. \A t \in Tables : seq[t] \in 1..(MaxRows + 1) /\ high[t] \in 0..MaxRows
    BY <2>2
  <2>4. seq \in [Tables -> 1..(MaxRows + 1)] /\ high \in [Tables -> 0..MaxRows]
    BY <2>1, <2>3 DEF LedgerBook, LedgerTypes
  <2> QED
    BY <2>1, <2>4, RowFields DEF LedgerBook, LedgerTypes, LedgerTypeOK, RowsOf
<1> QED
  BY <1>1, LedgerInvHolds, PTL

\* The events on record are those the rules gave rise to: an event names the
\* rule that caused it, the next identity is that of no row that is there, and
\* no rule alarms twice within its rest (config.ts:521-541,
\* world.ts:794-833).
THEOREM EventsKeepTrue ==
  LedgerSpec => []EventsStayTrue
<1>1. LedgerInv => EventsStayTrue
  BY DEF LedgerInv, LedgerBook, Counted, NamesHold, EventsStayTrue, NamesStayTrue
<1> QED
  BY <1>1, LedgerInvHolds, PTL

-----------------------------------------------------------------------------
(* SitePoints: tables, page and adapter.                                   *)

PointType ==
  /\ row \in Points \cup {NoPoint} /\ stored \in Drawn /\ world \in Bodies
  /\ page \in [points : Drawn, dock : Points \cup {NoPoint}, dirty : BOOLEAN]
  /\ save \in [state : {"none", "sent", "ok", "refused", "lost"}, body : Bodies]
  /\ copy \in Drawn \cup {<<>>} /\ moved \subseteq Points
  /\ trip.state \in {"none", "running", "failed", "done"}

\* What is in force differs from what is stored in its dock at most, and in
\* nothing while the platform is up.
TablesAgree == world.points = stored /\ InForceIsStored

\* A save is of an edited page; unless something got between, it is of what the
\* page shows, and once it was taken it is what is stored.
SaveIsOfPage ==
  /\ save.state # "none" => page.dirty
  /\ ~mixed =>
       /\ save.state \in {"sent", "ok"} =>
            page.points = save.body.points /\ page.dock = save.body.dock
       /\ save.state = "ok" => page.points = stored /\ page.dock = row
       /\ save.state = "none" /\ ~page.dirty => page.points = stored /\ page.dock = row

\* The adapter's points are the stored ones but for those that were changed,
\* and a run has still to go to the points of its route that are on the map and
\* where it did not stop.
TripIsOnMap ==
  /\ Started => \A p \in Points \ moved : copy[p] = stored[p]
  /\ trip.state # "none" => Started
  /\ trip.state \in {"running", "done"} =>
       /\ trip.left \in Seq(Points) /\ ToSet(trip.steps) \subseteq Points
       /\ \A p \in ToSet(trip.steps) :
            Knows(p) => p \in ToSet(trip.left) \/ StopAt(p) \in trip.stops
  /\ trip.state = "done" => trip.left = <<>>
TripFields == trip = [state |-> trip.state, steps |-> trip.steps, left |-> trip.left,
                      stops |-> trip.stops]

PointInv == PointType /\ TablesAgree /\ SaveIsOfPage /\ TripFields /\ TripIsOnMap

LEMMA HeadOrTail ==
  ASSUME NEW S, NEW s \in Seq(S), s # <<>>
  PROVE  /\ Tail(s) \in Seq(S) /\ Head(s) \in S
         /\ \A p \in ToSet(s) : p = Head(s) \/ p \in ToSet(Tail(s))
<1>1. Tail(s) \in Seq(S) /\ Head(s) \in S
  OBVIOUS
<1>2. ASSUME NEW i \in 1..Len(s), i # 1 PROVE s[i] \in ToSet(Tail(s))
  <2>1. i - 1 \in 1..Len(Tail(s)) /\ Tail(s)[i - 1] = s[i]
    BY <1>2
  <2>2. DOMAIN Tail(s) = 1..Len(Tail(s))
    BY <1>1
  <2> QED
    BY <2>1, <2>2 DEF ToSet
<1>3. s[1] = Head(s) /\ DOMAIN s = 1..Len(s)
  OBVIOUS
<1> QED
  BY <1>1, <1>2, <1>3 DEF ToSet

LEMMA EmptySet ==
  ToSet(<<>>) = {}
BY DEF ToSet

\* A body that is written, by the page or by somebody else.
LEMMA BodyApplied ==
  ASSUME PointInv, up, NEW body \in Bodies, DockFits(body), Applied(body),
         UNCHANGED <<copy, trip>>
  PROVE  /\ row' \in Points \cup {NoPoint} /\ stored' \in Drawn /\ world' \in Bodies
         /\ moved' \subseteq Points /\ TablesAgree' /\ TripIsOnMap'
         /\ stored' = body.points /\ row' = body.dock
<1>1. /\ body.points \in Drawn /\ body.dock \in Points \cup {NoPoint}
      /\ body = [points |-> body.points, dock |-> body.dock]
  BY DEF Bodies
<1>2. /\ row' = body.dock /\ stored' = body.points /\ world' = body /\ torn' = FALSE /\ up' = up
      /\ moved' = moved \cup {p \in Points : body.points[p] # world.points[p]}
  BY DEF Applied, RowOf
<1>3. TablesAgree'
  BY <1>1, <1>2 DEF TablesAgree, InForceIsStored, DockFits
<1>4. \A p \in Points \ moved' : p \notin moved /\ stored'[p] = stored[p]
  BY <1>2 DEF PointInv, TablesAgree
<1>5. TripIsOnMap'
  BY <1>4 DEF PointInv, TripIsOnMap, Started, Knows, StopAt
<1> QED
  BY <1>1, <1>2, <1>3, <1>5 DEF PointInv, PointType

LEMMA SiteStep ==
  ASSUME PointInv, SiteSteps
  PROVE  PointInv'
<1>1. ASSUME NEW points \in Drawn, NEW dock \in {world.dock} \cup Points, PutByOthers(points, dock)
      PROVE  PointInv'
  <2> DEFINE body == [points |-> points, dock |-> dock]
  <2>1. body \in Bodies
    BY DEF Bodies, PointInv, PointType
  <2>2. /\ up /\ DockFits(body) /\ Applied(body) /\ mixed' = TRUE
        /\ UNCHANGED <<page, save, copy, trip>>
    BY <1>1 DEF PutByOthers
  <2> HIDE DEF body
  <2>3. /\ row' \in Points \cup {NoPoint} /\ stored' \in Drawn /\ world' \in Bodies
        /\ moved' \subseteq Points /\ TablesAgree' /\ TripIsOnMap'
    BY <2>1, <2>2, BodyApplied
  <2>4. PointType' /\ TripFields'
    BY <2>2, <2>3 DEF PointInv, PointType, TripFields
  <2>5. SaveIsOfPage'
    BY <2>2 DEF PointInv, SaveIsOfPage
  <2> QED
    BY <2>3, <2>4, <2>5 DEF PointInv
<1>2. ASSUME Killed PROVE PointInv'
  <2>1. /\ up' = FALSE /\ UNCHANGED <<row, stored, world, torn, page, mixed, copy, trip, moved>>
        /\ save' = IF save.state = "sent" THEN [save EXCEPT !.state = "lost"] ELSE save
    BY <1>2 DEF Killed, Down, tripVars
  <2>2. /\ save' \in [state : {"none", "sent", "ok", "refused", "lost"}, body : Bodies]
        /\ save'.state = save.state \/ (save'.state = "lost" /\ save.state = "sent")
        /\ save'.body = save.body
    BY <2>1 DEF PointInv, PointType
  <2>3. PointType' /\ TripFields'
    BY <2>1, <2>2 DEF PointInv, PointType, TripFields
  <2>4. TablesAgree' /\ TripIsOnMap'
    BY <2>1 DEF PointInv, TablesAgree, InForceIsStored, TripIsOnMap, Started, Knows, StopAt
  <2>5. SaveIsOfPage'
    BY <2>1, <2>2 DEF PointInv, SaveIsOfPage
  <2> QED
    BY <2>3, <2>4, <2>5 DEF PointInv
<1>3. ASSUME BootRuntime PROVE PointInv'
  <2>1. /\ up' = TRUE /\ world' = [points |-> stored, dock |-> row]
        /\ UNCHANGED <<row, stored, torn, page, save, mixed, copy, trip, moved>>
    BY <1>3 DEF BootRuntime, pageVars, tripVars
  <2>2. PointType' /\ TripFields'
    BY <2>1 DEF PointInv, PointType, TripFields, Bodies
  <2>3. TablesAgree' /\ TripIsOnMap' /\ SaveIsOfPage'
    BY <2>1 DEF PointInv, TablesAgree, InForceIsStored, TripIsOnMap, Started, Knows, StopAt,
       SaveIsOfPage
  <2> QED
    BY <2>2, <2>3 DEF PointInv
<1> QED
  BY <1>1, <1>2, <1>3 DEF SiteSteps

LEMMA PageStep ==
  ASSUME PointInv, PageSteps
  PROVE  PointInv'
<1> DEFINE SaveType == [state : {"none", "sent", "ok", "refused", "lost"}, body : Bodies]
           PageType == [points : Drawn, dock : Points \cup {NoPoint}, dirty : BOOLEAN]
<1>0. /\ save \in SaveType /\ page \in PageType
  BY DEF PointInv, PointType
<1>1. ASSUME SaveArrives PROVE PointInv'
  <2>1. /\ up /\ save.state = "sent" /\ UNCHANGED <<page, mixed, copy, trip>> /\ save.body \in Bodies
    BY <1>0, <1>1 DEF SaveArrives
  <2>2. CASE DockFits(save.body)
    <3>1. Applied(save.body) /\ save' = [save EXCEPT !.state = "ok"]
      BY <1>1, <2>2 DEF SaveArrives
    <3>2. /\ row' \in Points \cup {NoPoint} /\ stored' \in Drawn /\ world' \in Bodies
          /\ moved' \subseteq Points /\ TablesAgree' /\ TripIsOnMap'
          /\ stored' = save.body.points /\ row' = save.body.dock
      BY <2>1, <2>2, <3>1, BodyApplied
    <3>3. save' \in SaveType /\ save'.state = "ok" /\ save'.body = save.body
      BY <1>0, <3>1
    <3>4. PointType' /\ TripFields'
      BY <2>1, <3>2, <3>3 DEF PointInv, PointType, TripFields
    <3>5. SaveIsOfPage'
      BY <2>1, <3>2, <3>3 DEF PointInv, SaveIsOfPage
    <3> QED
      BY <3>2, <3>4, <3>5 DEF PointInv
  <2>3. CASE ~DockFits(save.body)
    <3>1. save' = [save EXCEPT !.state = "refused"] /\ UNCHANGED <<row, stored, world, up, torn, moved>>
      BY <1>1, <2>3 DEF SaveArrives, platVars
    <3>2. save' \in SaveType /\ save'.state = "refused"
      BY <1>0, <3>1
    <3>3. PointType' /\ TripFields'
      BY <2>1, <3>1, <3>2 DEF PointInv, PointType, TripFields
    <3>4. TablesAgree' /\ TripIsOnMap'
      BY <2>1, <3>1 DEF PointInv, TablesAgree, InForceIsStored, TripIsOnMap, Started, Knows, StopAt
    <3>5. SaveIsOfPage'
      BY <2>1, <3>2 DEF PointInv, SaveIsOfPage
    <3> QED
      BY <3>3, <3>4, <3>5 DEF PointInv
  <2> QED
    BY <2>2, <2>3
<1>2. ASSUME TornPut PROVE PointInv'
  <2>1. /\ save.state = "sent" /\ up' = FALSE /\ row' = save.body.dock
        /\ save' = [save EXCEPT !.state = "lost"]
        /\ torn' = (row' # NoPoint /\ stored[row'] = Nowhere)
        /\ UNCHANGED <<stored, world, page, mixed, copy, trip, moved>>
    BY <1>2 DEF TornPut, RowOf, Down, tripVars
  <2>2. save' \in SaveType /\ save'.state = "lost" /\ save.body.dock \in Points \cup {NoPoint}
    BY <1>0, <2>1 DEF Bodies
  <2>3. PointType' /\ TripFields'
    BY <2>1, <2>2 DEF PointInv, PointType, TripFields
  <2>4. TablesAgree' /\ TripIsOnMap'
    BY <2>1 DEF PointInv, TablesAgree, InForceIsStored, TripIsOnMap, Started, Knows, StopAt
  <2>5. SaveIsOfPage'
    BY <2>1, <2>2 DEF PointInv, SaveIsOfPage
  <2> QED
    BY <2>3, <2>4, <2>5 DEF PointInv
<1>3. ASSUME UNCHANGED <<row, stored, world, up, torn, copy, trip, moved>>,
             page' \in PageType, save' \in SaveType, SaveIsOfPage'
      PROVE  PointInv'
  BY <1>3 DEF PointInv, PointType, TripFields, TablesAgree, InForceIsStored, TripIsOnMap, Started,
     Knows, StopAt
<1>4. ASSUME OpenPage PROVE PointInv'
  <2>1. /\ page' = [points |-> world.points, dock |-> world.dock, dirty |-> FALSE]
        /\ save' = NoSave /\ mixed' = FALSE
        /\ UNCHANGED <<row, stored, world, up, torn, copy, trip, moved>>
        /\ world = [points |-> stored, dock |-> row]
    BY <1>4 DEF OpenPage, platVars, tripVars, PointInv, TablesAgree, InForceIsStored
  <2>2. page' \in PageType
    BY <2>1 DEF PointInv, PointType
  <2>3. save' \in SaveType /\ save'.state = "none"
    <3>1. NoBody \in Bodies
      BY DEF NoBody, Bodies, Drawn
    <3> QED
      BY <2>1, <3>1 DEF NoSave
  <2>4. SaveIsOfPage'
    BY <2>1, <2>3 DEF SaveIsOfPage
  <2> QED
    BY <1>3, <2>1, <2>2, <2>3, <2>4
<1>5. ASSUME NEW p \in Points, NEW place \in Places \cup {Nowhere}, NEW dock \in Points \cup {NoPoint},
             Draw(p, place, dock)
      PROVE  PointInv'
  <2>1. PICK points : points = [page.points EXCEPT ![p] = place]
    OBVIOUS
  <2>2. /\ page' = [points |-> points, dock |-> dock, dirty |-> TRUE]
        /\ mixed' = (mixed \/ save.state # "none") /\ save' = save
        /\ UNCHANGED <<row, stored, world, up, torn, copy, trip, moved>>
    BY <1>5, <2>1 DEF Draw, platVars, tripVars
  <2>3. points \in Drawn
    BY <1>0, <2>1 DEF Drawn
  <2>4. page' \in PageType /\ page'.dirty
    BY <2>2, <2>3
  <2>5. SaveIsOfPage'
    <3>1. ~mixed' => save.state = "none"
      BY <2>2
    <3> QED
      BY <2>2, <2>4, <3>1 DEF SaveIsOfPage
  <2> QED
    BY <1>0, <1>3, <2>2, <2>4, <2>5
<1>6. ASSUME Edits PROVE PointInv'
  <2>1. PICK p \in Points :
          \/ \E place \in Places : Draw(p, place, page.dock)
          \/ Draw(p, Nowhere, IF page.dock = p THEN NoPoint ELSE page.dock)
          \/ page.points[p] # Nowhere /\ Draw(p, page.points[p], p)
    BY <1>6 DEF Edits
  <2>2. /\ page.dock \in Points \cup {NoPoint}
        /\ (IF page.dock = p THEN NoPoint ELSE page.dock) \in Points \cup {NoPoint}
        /\ page.points[p] \in Places \cup {Nowhere}
    BY <1>0 DEF Drawn
  <2> QED
    BY <1>5, <2>1, <2>2
<1>7. ASSUME PressSave PROVE PointInv'
  <2>1. /\ page.dirty /\ mixed' = FALSE /\ page' = page
        /\ save' = [state |-> "sent", body |-> [points |-> page.points, dock |-> page.dock]]
        /\ UNCHANGED <<row, stored, world, up, torn, copy, trip, moved>>
    BY <1>7 DEF PressSave, platVars, tripVars
  <2>2. save' \in SaveType
    BY <1>0, <2>1 DEF Bodies
  <2>3. SaveIsOfPage'
    BY <2>1 DEF SaveIsOfPage
  <2> QED
    BY <1>0, <1>3, <2>1, <2>2, <2>3
<1>8. ASSUME Answered PROVE PointInv'
  <2>1. /\ save.state \in {"ok", "refused"} /\ save' = NoSave /\ mixed' = mixed
        /\ page' = IF save.state = "ok" THEN [page EXCEPT !.dirty = FALSE] ELSE page
        /\ UNCHANGED <<row, stored, world, up, torn, copy, trip, moved>>
    BY <1>8 DEF Answered, Saved, platVars, tripVars
  <2>2. save' \in SaveType /\ save'.state = "none"
    <3>1. NoBody \in Bodies
      BY DEF NoBody, Bodies, Drawn
    <3> QED
      BY <2>1, <3>1 DEF NoSave
  <2>3. page' \in PageType /\ page'.points = page.points /\ page'.dock = page.dock
    BY <1>0, <2>1
  <2>4. SaveIsOfPage'
    BY <1>0, <2>1, <2>2, <2>3 DEF PointInv, SaveIsOfPage
  <2> QED
    BY <1>3, <2>1, <2>2, <2>3, <2>4
<1> QED
  BY <1>1, <1>2, <1>4, <1>6, <1>7, <1>8 DEF PageSteps

LEMMA RobotStep ==
  ASSUME PointInv, RobotSteps
  PROVE  PointInv'
<1>a. /\ trip = [state |-> trip.state, steps |-> trip.steps, left |-> trip.left, stops |-> trip.stops]
      /\ trip.state \in {"none", "running", "failed", "done"}
  BY DEF PointInv, PointType, TripFields
<1>1. ASSUME UNCHANGED <<platVars, pageVars>>, copy' \in Drawn \cup {<<>>}, moved' \subseteq Points,
             trip'.state \in {"none", "running", "failed", "done"}, TripFields', TripIsOnMap'
      PROVE  PointInv'
  BY <1>1 DEF platVars, pageVars, PointInv, PointType, TablesAgree, InForceIsStored, SaveIsOfPage
<1>2. ASSUME AdapterStarts PROVE PointInv'
  <2>1. /\ UNCHANGED <<platVars, pageVars, trip>> /\ ~Started /\ copy' = world.points /\ moved' = {}
    BY <1>2 DEF AdapterStarts
  <2>2. trip.state = "none" /\ world.points = stored /\ world.points \in Drawn
    BY <2>1 DEF PointInv, PointType, TablesAgree, TripIsOnMap
  <2>3. TripIsOnMap' /\ TripFields'
    BY <1>a, <2>1, <2>2 DEF platVars, TripIsOnMap, TripFields
  <2> QED
    BY <1>1, <2>1, <2>2, <2>3
<1>3. ASSUME AdapterDies PROVE PointInv'
  <2>1. UNCHANGED <<platVars, pageVars, moved>> /\ copy' = <<>> /\ trip' = NoTrip
    BY <1>3 DEF AdapterDies
  <2>2. TripIsOnMap' /\ TripFields' /\ trip'.state = "none"
    BY <2>1 DEF TripIsOnMap, TripFields, NoTrip, Started
  <2> QED
    BY <1>1, <2>1, <2>2 DEF PointInv, PointType
<1>4. ASSUME UNCHANGED <<platVars, pageVars, copy, moved>>,
             trip'.state \in {"none", "running", "failed", "done"}, TripFields', TripIsOnMap'
      PROVE  PointInv'
  BY <1>1, <1>4 DEF PointInv, PointType
<1>5. ASSUME NEW steps \in Routes, OrderArrives(steps) PROVE PointInv'
  <2>1. /\ UNCHANGED <<platVars, pageVars, copy, moved>> /\ Started
        /\ trip' = [state |-> "running", steps |-> steps, left |-> steps, stops |-> {}]
    BY <1>5 DEF OrderArrives
  <2>2. steps \in Seq(Points)
    <3>1. CASE \E p \in Points : steps = <<p>>
      BY <3>1
    <3>2. CASE \E p, q \in Points : steps = <<p, q>>
      BY <3>2
    <3> QED
      BY <3>1, <3>2 DEF Routes
  <2>3. ToSet(steps) \subseteq Points
    BY <2>2 DEF ToSet
  <2>4. TripIsOnMap'
    BY <2>1, <2>2, <2>3 DEF platVars, PointInv, TripIsOnMap, Started
  <2>5. TripFields'
    BY <2>1 DEF TripFields
  <2> QED
    BY <1>4, <2>1, <2>4, <2>5
<1>6. ASSUME NextStop PROVE PointInv'
  <2>1. /\ UNCHANGED <<platVars, pageVars, copy, moved>> /\ trip.state = "running" /\ trip.left # <<>>
        /\ LET p == Head(trip.left)
               on == [trip EXCEPT !.left = Tail(@)]
           IN \/ ~Knows(p) /\ trip' = on
              \/ Knows(p) /\ trip' = [on EXCEPT !.stops = @ \cup {StopAt(p)}]
              \/ Knows(p) /\ trip' = [trip EXCEPT !.state = "failed"]
    BY <1>6 DEF NextStop, Unreached
  <2>2. PICK p : p = Head(trip.left)
    OBVIOUS
  <2>3. /\ trip.left \in Seq(Points) /\ ToSet(trip.steps) \subseteq Points /\ Started
        /\ \A q \in ToSet(trip.steps) :
             Knows(q) => q \in ToSet(trip.left) \/ StopAt(q) \in trip.stops
        /\ \A q \in Points \ moved : copy[q] = stored[q]
    BY <2>1 DEF PointInv, TripIsOnMap
  <2>4. /\ Tail(trip.left) \in Seq(Points)
        /\ \A q \in ToSet(trip.left) : q = p \/ q \in ToSet(Tail(trip.left))
    BY <2>1, <2>2, <2>3, HeadOrTail
  <2>5. CASE trip' = [trip EXCEPT !.state = "failed"]
    <3>1. trip'.state = "failed" /\ TripFields'
      BY <1>a, <2>5 DEF TripFields
    <3>2. TripIsOnMap'
      BY <2>1, <2>3, <3>1 DEF platVars, TripIsOnMap, Started
    <3> QED
      BY <1>4, <2>1, <3>1, <3>2
  <2>6. ASSUME NEW stops, \A q \in ToSet(trip.steps) : StopAt(q) \in trip.stops => StopAt(q) \in stops,
               Knows(p) => StopAt(p) \in stops,
               trip' = [state |-> "running", steps |-> trip.steps, left |-> Tail(trip.left),
                        stops |-> stops]
        PROVE  PointInv'
    <3>1. /\ trip'.state = "running" /\ trip'.steps = trip.steps /\ trip'.left = Tail(trip.left)
          /\ trip'.stops = stops /\ TripFields'
      BY <2>6 DEF TripFields
    <3>2. \A q \in ToSet(trip.steps) :
            Knows(q) => q \in ToSet(Tail(trip.left)) \/ StopAt(q) \in stops
      BY <2>3, <2>4, <2>6
    <3>3. TripIsOnMap'
      BY <2>1, <2>3, <2>4, <3>1, <3>2 DEF platVars, TripIsOnMap, Started, Knows, StopAt
    <3> QED
      BY <1>4, <2>1, <3>1, <3>3
  <2>7. CASE ~Knows(p) /\ trip' = [trip EXCEPT !.left = Tail(@)]
    <3>1. trip' = [state |-> "running", steps |-> trip.steps, left |-> Tail(trip.left),
                   stops |-> trip.stops]
      BY <1>a, <2>1, <2>7
    <3> QED
      BY <2>6, <2>7, <3>1
  <2>8. CASE Knows(p) /\ trip' = [[trip EXCEPT !.left = Tail(@)] EXCEPT !.stops = @ \cup {StopAt(p)}]
    <3>1. trip' = [state |-> "running", steps |-> trip.steps, left |-> Tail(trip.left),
                   stops |-> trip.stops \cup {StopAt(p)}]
      BY <1>a, <2>1, <2>8
    <3> QED
      BY <2>6, <2>8, <3>1
  <2> QED
    BY <2>1, <2>2, <2>5, <2>7, <2>8
<1>7. ASSUME OneTask PROVE PointInv'
  <2>1. /\ UNCHANGED <<platVars, pageVars, copy, moved>> /\ trip.state = "running"
        /\ LET there == {p \in ToSet(trip.steps) : Knows(p)}
           IN \/ there # {} /\ trip' = [trip EXCEPT !.left = <<>>, !.stops = {StopAt(p) : p \in there}]
              \/ trip' = [trip EXCEPT !.state = "failed"]
    BY <1>7 DEF OneTask
  <2>2. PICK there : there = {p \in ToSet(trip.steps) : Knows(p)}
    OBVIOUS
  <2>3. /\ ToSet(trip.steps) \subseteq Points /\ Started
        /\ \A q \in Points \ moved : copy[q] = stored[q]
    BY <2>1 DEF PointInv, TripIsOnMap
  <2>4. CASE trip' = [trip EXCEPT !.state = "failed"]
    <3>1. trip'.state = "failed" /\ TripFields'
      BY <1>a, <2>4 DEF TripFields
    <3>2. TripIsOnMap'
      BY <2>1, <2>3, <3>1 DEF platVars, TripIsOnMap, Started
    <3> QED
      BY <1>4, <2>1, <3>1, <3>2
  <2>5. CASE trip' = [trip EXCEPT !.left = <<>>, !.stops = {StopAt(p) : p \in there}]
    <3>1. trip' = [state |-> "running", steps |-> trip.steps, left |-> <<>>,
                   stops |-> {StopAt(p) : p \in there}]
      BY <1>a, <2>1, <2>5
    <3>2. /\ trip'.state = "running" /\ trip'.steps = trip.steps /\ trip'.left = <<>>
          /\ trip'.stops = {StopAt(p) : p \in there} /\ TripFields'
      BY <3>1 DEF TripFields
    <3>3. \A q \in ToSet(trip.steps) : Knows(q) => StopAt(q) \in {StopAt(p) : p \in there}
      BY <2>2
    <3>4. TripIsOnMap'
      BY <2>1, <2>3, <3>2, <3>3 DEF platVars, TripIsOnMap, Started, Knows, StopAt
    <3> QED
      BY <1>4, <2>1, <3>2, <3>4
  <2> QED
    BY <2>1, <2>2, <2>4, <2>5
<1>8. ASSUME TripDone PROVE PointInv'
  <2>1. /\ UNCHANGED <<platVars, pageVars, copy, moved>> /\ trip.state = "running"
        /\ trip.left = <<>> /\ trip' = [trip EXCEPT !.state = "done"]
    BY <1>8 DEF TripDone
  <2>2. /\ trip'.state = "done" /\ trip'.steps = trip.steps /\ trip'.left = trip.left
        /\ trip'.stops = trip.stops /\ TripFields'
    BY <1>a, <2>1 DEF TripFields
  <2>3. TripIsOnMap'
    BY <2>1, <2>2 DEF platVars, PointInv, TripIsOnMap, Started, Knows, StopAt
  <2> QED
    BY <1>4, <2>1, <2>2, <2>3
<1> QED
  BY <1>2, <1>3, <1>5, <1>6, <1>7, <1>8 DEF RobotSteps

LEMMA PointInvHolds ==
  PointSpec => []PointInv
<1>1. PointInit => PointInv
  <2> SUFFICES ASSUME PointInit PROVE PointInv
    OBVIOUS
  <2>1. /\ stored \in Drawn /\ row \in Points \cup {NoPoint} /\ NoBody \in Bodies
        /\ torn = (row # NoPoint /\ stored[row] = Nowhere)
        /\ world = [points |-> stored, dock |-> row] /\ up = TRUE
        /\ page = [points |-> stored, dock |-> row, dirty |-> FALSE]
        /\ save = NoSave /\ mixed = FALSE /\ copy = <<>> /\ trip = NoTrip /\ moved = {}
    BY DEF PointInit, Drawn, NoBody, Bodies
  <2>2. PointType
    BY <2>1 DEF PointType, Bodies, NoSave, NoTrip
  <2>3. TablesAgree /\ SaveIsOfPage
    BY <2>1 DEF TablesAgree, InForceIsStored, SaveIsOfPage, NoSave
  <2>4. TripFields /\ TripIsOnMap
    BY <2>1 DEF TripFields, TripIsOnMap, NoTrip, Started
  <2> QED
    BY <2>2, <2>3, <2>4 DEF PointInv
<1>2. PointInv /\ [PointNext]_pointVars => PointInv'
  <2>1. ASSUME PointInv, UNCHANGED pointVars PROVE PointInv'
    BY <2>1 DEF pointVars, platVars, pageVars, tripVars, PointInv, PointType, TablesAgree,
       InForceIsStored, SaveIsOfPage, TripFields, TripIsOnMap, Started, Knows, StopAt
  <2> QED
    BY <2>1, SiteStep, PageStep, RobotStep DEF PointNext
<1> QED
  BY <1>1, <1>2, PTL DEF PointSpec

\* What is in force is what is stored, a page that shows nothing unsaved shows
\* what is in force, and a run that is done went to every point of its route
\* that is on the map, whatever saves, kills and restarts come between
\* (index.ts:435-455, SiteBuilder.tsx:572-583, sdk index.ts:388-423).
THEOREM PointsHoldAlways ==
  PointSpec => []PointsHold
<1>1. PointInv => PointsHold
  <2> SUFFICES ASSUME PointInv PROVE PointsHold
    OBVIOUS
  <2>1. InForceIsStored /\ SavedIsInForce
    BY DEF PointInv, TablesAgree, SaveIsOfPage, SavedIsInForce
  <2>2. DoneWentThere
    <3> SUFFICES ASSUME trip.state = "done", NEW p \in ToSet(trip.steps) \ moved, stored[p] # Nowhere
                 PROVE  <<p, stored[p]>> \in trip.stops
      BY DEF DoneWentThere
    <3>1. /\ p \in Points /\ copy[p] = stored[p] /\ p \notin ToSet(trip.left)
      BY EmptySet DEF PointInv, TripIsOnMap
    <3> QED
      BY <3>1 DEF PointInv, TripIsOnMap, Knows, StopAt
  <2> QED
    BY <2>1, <2>2 DEF PointsHold
<1> QED
  BY <1>1, PointInvHolds, PTL

-----------------------------------------------------------------------------
(* Registry: the way up in the organization.                               *)

\* Above is the end of a climb: of the units met so far, and of their parents.
Met(f, S) == S \cup {f[v].parent : v \in S \ {None}}
Climbs(g, f, x, n) == g = [m \in 0..n |-> IF m = 0 THEN {x} ELSE Met(f, g[m-1])]
Climb(f, x, n) == CHOOSE g : Climbs(g, f, x, n)
Upward(f, x) == Climb(f, x, Cardinality(Units))[Cardinality(Units)] \ {None}

LEMMA AboveIsUpward == \A x : Above(x) = Upward(units, x)
BY DEF Above, Upward, Climb, Climbs, Met

LEMMA AboveParentIsUpward ==
  \A x : Above(units[x].parent)' = Upward(units', units'[x].parent)
BY DEF Above, Upward, Climb, Climbs, Met

\* There is such a climb, of any length.
LEMMA ClimbExists ==
  ASSUME NEW f, NEW x, NEW n \in Nat
  PROVE  Climbs(Climb(f, x, n), f, x, n)
<1> DEFINE T == {k \in Nat : ~\E g : Climbs(g, f, x, k)}
<1>1. T = {}
  <2>1. SUFFICES ASSUME T # {} PROVE FALSE
    OBVIOUS
  <2>2. PICK k \in T : \A j \in T : k <= j
    BY <2>1, LeastNumber
  <2>3. k # 0
    <3>1. Climbs([m \in 0..0 |-> {x}], f, x, 0)
      BY DEF Climbs
    <3> QED
      BY <3>1
  <2>4. k \in Nat /\ k - 1 \in Nat /\ k - 1 \notin T
    <3>1. k \in Nat /\ k - 1 \in Nat /\ ~(k <= k - 1)
      BY <2>3
    <3> QED
      BY <3>1, <2>2
  <2>5. PICK g : Climbs(g, f, x, k - 1)
    BY <2>4
  <2>6. PICK h : h = [m \in 0..k |-> IF m = k THEN Met(f, g[k-1]) ELSE g[m]]
    OBVIOUS
  <2>7. \A m \in 0..k : h[m] = IF m = 0 THEN {x} ELSE Met(f, h[m-1])
    <3>1. ASSUME NEW m \in 0..k PROVE h[m] = IF m = 0 THEN {x} ELSE Met(f, h[m-1])
      <4>1. CASE m = k
        <5>1. h[m] = Met(f, g[k-1]) /\ h[m-1] = g[k-1] /\ m # 0
          BY <4>1, <2>3, <2>4, <2>6
        <5> QED
          BY <5>1, <4>1
      <4>2. CASE m # k
        <5>1. m \in 0..(k-1) /\ h[m] = g[m]
          BY <4>2, <2>4, <2>6
        <5>2. g[m] = IF m = 0 THEN {x} ELSE Met(f, g[m-1])
          BY <5>1, <2>5 DEF Climbs
        <5>3. m # 0 => h[m-1] = g[m-1]
          BY <5>1, <2>4, <2>6
        <5> QED
          BY <5>1, <5>2, <5>3
      <4> QED
        BY <4>1, <4>2
    <3> QED
      BY <3>1
  <2>8. Climbs(h, f, x, k)
    <3>1. h = [m \in 0..k |-> h[m]]
      BY <2>6
    <3> QED
      BY <3>1, <2>7 DEF Climbs
  <2> QED
    BY <2>8, <2>2
<1>2. \E g : Climbs(g, f, x, n)
  BY <1>1
<1> QED
  BY <1>2 DEF Climb

LEMMA ClimbSteps ==
  ASSUME NEW f, NEW x, NEW n \in Nat
  PROVE  /\ Climb(f, x, n)[0] = {x}
         /\ \A m \in 1..n : Climb(f, x, n)[m] = Met(f, Climb(f, x, n)[m-1])
<1>1. PICK g : g = Climb(f, x, n)
  OBVIOUS
<1>2. g = [m \in 0..n |-> IF m = 0 THEN {x} ELSE Met(f, g[m-1])]
  BY <1>1, ClimbExists DEF Climbs
<1>3. \A m \in 0..n : g[m] = IF m = 0 THEN {x} ELSE Met(f, g[m-1])
  BY <1>2
<1>4. 0 \in 0..n /\ \A m \in 1..n : m \in 0..n /\ m # 0
  OBVIOUS
<1> QED
  BY <1>1, <1>3, <1>4

\* Units that have their parents among themselves.
Shut(f, S) == S \subseteq Units /\ \A v \in S : f[v].parent \in S \cup {None}

LEMMA ClimbStaysWithin ==
  ASSUME NEW f, NEW n \in Nat, NEW S, Shut(f, S), NEW x \in S
  PROVE  \A m \in 0..n : Climb(f, x, n)[m] \ {None} \subseteq S
<1>1. PICK g : g = Climb(f, x, n)
  OBVIOUS
<1>2. g[0] = {x} /\ \A m \in 1..n : g[m] = Met(f, g[m-1])
  BY <1>1, ClimbSteps
<1> DEFINE T == {m \in 0..n : ~(g[m] \ {None} \subseteq S)}
<1>3. SUFFICES T = {}
  BY <1>1
<1>4. SUFFICES ASSUME T # {} PROVE FALSE
  OBVIOUS
<1>5. T \in SUBSET Nat
  OBVIOUS
<1>6. PICK k \in T : \A j \in T : k <= j
  BY <1>4, <1>5, LeastNumber
<1>7. k # 0
  BY <1>2
<1>8. k \in 1..n /\ k - 1 \in 0..n /\ k - 1 \notin T
  <2>1. k \in 1..n /\ k - 1 \in 0..n /\ ~(k <= k - 1)
    BY <1>7
  <2> QED
    BY <2>1, <1>6
<1>9. g[k-1] \ {None} \subseteq S
  BY <1>8
<1>10. Met(f, g[k-1]) \ {None} \subseteq S
  BY <1>9 DEF Met, Shut
<1> QED
  BY <1>2, <1>8, <1>10

LEMMA ClimbGrows ==
  ASSUME NEW f, NEW x, NEW n \in Nat, NEW i \in 0..n
  PROVE  \A m \in i..n : Climb(f, x, n)[i] \subseteq Climb(f, x, n)[m]
<1>1. PICK g : g = Climb(f, x, n)
  OBVIOUS
<1>2. \A m \in 1..n : g[m] = Met(f, g[m-1])
  BY <1>1, ClimbSteps
<1> DEFINE T == {m \in i..n : ~(g[i] \subseteq g[m])}
<1>3. SUFFICES T = {}
  BY <1>1
<1>4. SUFFICES ASSUME T # {} PROVE FALSE
  OBVIOUS
<1>5. T \in SUBSET Nat
  OBVIOUS
<1>6. PICK k \in T : \A j \in T : k <= j
  BY <1>4, <1>5, LeastNumber
<1>7. k # i
  OBVIOUS
<1>8. k \in 1..n /\ k - 1 \in i..n /\ k - 1 \notin T
  <2>1. k \in 1..n /\ k - 1 \in i..n /\ ~(k <= k - 1)
    BY <1>7
  <2> QED
    BY <2>1, <1>6
<1>9. g[i] \subseteq g[k-1] /\ g[k-1] \subseteq g[k]
  BY <1>2, <1>8 DEF Met
<1> QED
  BY <1>9

\* The climb ends where no parent is missing: every step before that meets a
\* unit that is new, and there are not more than Cardinality(Units) of them.
LEMMA UpwardIsShut ==
  ASSUME NEW f, \A v \in Units : f[v].parent \in Units \cup {None}, NEW x \in Units
  PROVE  x \in Upward(f, x) /\ Shut(f, Upward(f, x))
<1>1. PICK N : N = Cardinality(Units)
  OBVIOUS
<1>2. IsFiniteSet(Units) /\ N \in Nat /\ None \notin Units
  BY <1>1, RegistryAssumption, FS_CardinalityType
<1>3. PICK g : g = Climb(f, x, N)
  OBVIOUS
<1>4. g[0] = {x} /\ \A m \in 1..N : g[m] = Met(f, g[m-1])
  BY <1>2, <1>3, ClimbSteps
<1>5. \A i \in 0..N : \A m \in i..N : g[i] \subseteq g[m]
  BY <1>2, <1>3, ClimbGrows
<1>6. \A m \in 0..N : g[m] \ {None} \subseteq Units
  <2>1. Shut(f, Units)
    BY DEF Shut
  <2> QED
    BY <2>1, <1>2, <1>3, ClimbStaysWithin
<1>7. \A m \in 0..N : x \in g[m] \ {None} /\ IsFiniteSet(g[m] \ {None})
                      /\ Cardinality(g[m] \ {None}) \in 0..N
  <2>1. ASSUME NEW m \in 0..N
        PROVE  x \in g[m] \ {None} /\ IsFiniteSet(g[m] \ {None})
               /\ Cardinality(g[m] \ {None}) \in 0..N
    <3>1. x \in g[m] \ {None}
      BY <1>2, <1>4, <1>5
    <3>2. IsFiniteSet(g[m] \ {None}) /\ Cardinality(g[m] \ {None}) <= N
      BY <1>1, <1>2, <1>6, FS_Subset
    <3>3. Cardinality(g[m] \ {None}) \in Nat
      BY <3>2, FS_CardinalityType
    <3> QED
      BY <1>2, <3>1, <3>2, <3>3
  <2> QED
    BY <2>1
<1>8. \E m \in 1..N : g[m] \ {None} = g[m-1] \ {None}
  <2>1. SUFFICES ASSUME \A m \in 1..N : g[m] \ {None} # g[m-1] \ {None} PROVE FALSE
    OBVIOUS
  <2> DEFINE T == {m \in 0..N : Cardinality(g[m] \ {None}) <= m}
  <2>2. N \in T
    BY <1>2, <1>7
  <2>3. T \in SUBSET Nat
    BY <1>2
  <2>4. PICK k \in T : \A j \in T : k <= j
    BY <2>2, <2>3, LeastNumber
  <2>5. k # 0
    <3>1. g[0] \ {None} = {x}
      BY <1>2, <1>4
    <3>2. Cardinality(g[0] \ {None}) = 1
      BY <3>1, FS_Singleton
    <3> QED
      BY <3>2
  <2>6. k \in 1..N /\ k - 1 \in 0..N /\ k - 1 \notin T
    <3>1. k \in 1..N /\ k - 1 \in 0..N /\ ~(k <= k - 1)
      BY <2>5, <1>2
    <3> QED
      BY <3>1, <2>4
  <2>7. g[k-1] \ {None} \in SUBSET (g[k] \ {None}) /\ g[k-1] \ {None} # g[k] \ {None}
    <3>1. k \in (k-1)..N
      BY <2>6, <1>2
    <3> QED
      BY <3>1, <2>1, <2>6, <1>5
  <2>8. Cardinality(g[k-1] \ {None}) <= Cardinality(g[k] \ {None})
        /\ Cardinality(g[k-1] \ {None}) # Cardinality(g[k] \ {None})
    BY <2>6, <2>7, <1>7, FS_Subset
  <2>9. PICK a, b : a = Cardinality(g[k-1] \ {None}) /\ b = Cardinality(g[k] \ {None})
    OBVIOUS
  <2>10. a \in Nat /\ b \in Nat /\ a <= b /\ a # b /\ ~(a <= k - 1) /\ b <= k
    <3>1. k \in 0..N /\ k - 1 \in 0..N
      BY <2>6, <1>2
    <3>2. a \in Nat /\ b \in Nat
      BY <3>1, <2>9, <1>2, <1>7
    <3>3. a <= b /\ a # b
      BY <2>8, <2>9
    <3>4. ~(a <= k - 1)
      BY <2>6, <2>9
    <3>5. b <= k
      BY <2>4, <2>9
    <3> QED
      BY <3>2, <3>3, <3>4, <3>5
  <2> QED
    BY <2>10, <2>6, <1>2
<1>9. PICK m \in 1..N : g[m] \ {None} = g[m-1] \ {None}
  BY <1>8
<1>10. m \in 0..N /\ m - 1 \in 0..N /\ N \in 0..N /\ N \in (m-1)..N
  BY <1>2
<1>11. Shut(f, g[m-1] \ {None})
  <2>1. g[m] = Met(f, g[m-1])
    BY <1>4
  <2> QED
    BY <2>1, <1>6, <1>9, <1>10 DEF Met, Shut
<1>12. g[N] \ {None} \subseteq g[m-1] \ {None}
  <2>1. x \in g[m-1] \ {None}
    BY <1>7, <1>10
  <2>2. PICK S : S = g[m-1] \ {None}
    OBVIOUS
  <2>3. Shut(f, S) /\ x \in S
    BY <2>1, <2>2, <1>11
  <2>4. \A j \in 0..N : Climb(f, x, N)[j] \ {None} \subseteq S
    BY <2>3, <1>2, ClimbStaysWithin
  <2> QED
    BY <2>2, <2>4, <1>3, <1>10
<1>13. g[m-1] \subseteq g[N]
  BY <1>5, <1>10
<1>14. Upward(f, x) = g[m-1] \ {None}
  BY <1>1, <1>3, <1>12, <1>13 DEF Upward
<1> QED
  BY <1>7, <1>10, <1>11, <1>14

LEMMA UpwardIsWithin ==
  ASSUME NEW f, NEW S, Shut(f, S), NEW x \in S
  PROVE  Upward(f, x) \subseteq S
<1>1. Cardinality(Units) \in Nat
  BY RegistryAssumption, FS_CardinalityType
<1>2. Cardinality(Units) \in 0..Cardinality(Units)
  BY <1>1
<1> QED
  BY <1>1, <1>2, ClimbStaysWithin DEF Upward

-----------------------------------------------------------------------------
(* Registry: the forest, and references.                                   *)

\* Nobody is above himself: what is above his parent is shut without him.
Rooted ==
  \A x \in Units : units[x].parent # None =>
    \E S : Shut(units, S) /\ units[x].parent \in S /\ x \notin S
Kinded ==
  \A x \in Units : units[x].parent # None =>
    /\ units[x].kind \in {"department", "position"}
    /\ units[units[x].parent].kind \in {"factory", "department"}
RegInv == RegTypeOK /\ Kinded /\ Rooted /\ Placed /\ Retained

LEMMA RootedIsForest ==
  ASSUME Kinded, Rooted
  PROVE  Forest
<1>1. ASSUME NEW x \in Units, units[x].parent # None
      PROVE  x \notin Above(units[x].parent)
  <2>1. PICK S : Shut(units, S) /\ units[x].parent \in S /\ x \notin S
    BY <1>1 DEF Rooted
  <2>2. Upward(units, units[x].parent) \subseteq S
    BY <2>1, UpwardIsWithin
  <2> QED
    BY <2>1, <2>2, AboveIsUpward
<1> QED
  BY <1>1 DEF Kinded, Forest

LEMMA RegInvInit ==
  ASSUME RegInit
  PROVE  RegInv
<1>1. RegTypeOK
  BY DEF RegInit, RegTypeOK, Roles, Kinds, NoUnit, NoMember, NoDefect, NoWatch
<1>2. Kinded /\ Rooted
  BY DEF RegInit, Kinded, Rooted, NoUnit
<1>3. Placed
  BY DEF RegInit, Placed, NoMember, IsKind
<1>4. Retained
  BY DEF RegInit, Retained, NoDefect, NoWatch
<1> QED
  BY <1>1, <1>2, <1>3, <1>4 DEF RegInv

\* A unit gets a parent whose way up does not lead to it: no way up does that
\* led elsewhere.
LEMMA SaveKeepsRooted ==
  ASSUME RegInv, NEW x \in Units, NEW k \in Kinds, NEW p \in Units \cup {None},
         SaveUnit(x, k, p)
  PROVE  Rooted'
<1>1. units' = [units EXCEPT ![x] = [kind |-> k, parent |-> p]]
  BY DEF SaveUnit
<1>2. \A v \in Units : units[v].parent \in Units \cup {None}
  BY DEF RegInv, RegTypeOK
<1>3. /\ units'[x].parent = p
      /\ \A v \in Units \ {x} : units'[v].parent = units[v].parent
  BY <1>1 DEF RegInv, RegTypeOK
<1>4. \A S : Shut(units, S) /\ x \notin S => Shut(units', S)
  BY <1>3 DEF Shut
<1>5. CASE p = None
  <2>1. \A S : Shut(units, S) => Shut(units', S)
    BY <1>3, <1>5 DEF Shut
  <2> QED
    BY <2>1, <1>3, <1>5 DEF RegInv, Rooted
<1>6. CASE p # None
  <2>1. PICK A : A = Upward(units, p)
    OBVIOUS
  <2>2. p \in A /\ Shut(units, A)
    BY <2>1, <1>2, <1>6, UpwardIsShut
  <2>3. x \notin A
    BY <2>1, <1>6, AboveIsUpward DEF SaveUnit, ParentFits
  <2>4. ASSUME NEW y \in Units, units'[y].parent # None
        PROVE  \E S : Shut(units', S) /\ units'[y].parent \in S /\ y \notin S
    <3>1. CASE y = x
      BY <3>1, <2>2, <2>3, <1>3, <1>4
    <3>2. CASE y # x
      <4>1. PICK S : Shut(units, S) /\ units[y].parent \in S /\ y \notin S
        BY <3>2, <2>4, <1>3 DEF RegInv, Rooted
      <4>2. CASE y \in A
        <5>1. Shut(units, S \cap A) /\ units[y].parent \in S \cap A
          BY <4>1, <4>2, <2>2, <2>4, <1>3, <3>2 DEF Shut
        <5>2. Shut(units', S \cap A)
          BY <5>1, <2>3, <1>4
        <5> QED
          BY <5>1, <5>2, <4>1, <3>2, <1>3
      <4>3. CASE y \notin A
        <5>1. Shut(units', S \cup A)
          BY <4>1, <2>2, <1>3 DEF Shut
        <5> QED
          BY <5>1, <4>1, <4>3, <3>2, <1>3
      <4> QED
        BY <4>2, <4>3
    <3> QED
      BY <3>1, <3>2
  <2> QED
    BY <2>4 DEF Rooted
<1> QED
  BY <1>5, <1>6

LEMMA SaveKeepsAgreement ==
  ASSUME RegInv, NEW x \in Units, NEW k \in Kinds, NEW p \in Units \cup {None},
         SaveUnit(x, k, p)
  PROVE  RegInv'
<1>1. /\ units' = [units EXCEPT ![x] = [kind |-> k, parent |-> p]]
      /\ UNCHANGED <<roles, members, assets, tags, defects, watches>>
      /\ units[x].kind \notin {"none", k} => ~InUse(x)
      /\ p # None => ParentFits(x, k, p)
  BY DEF SaveUnit, siteVars
<1>2. /\ units'[x].kind = k /\ units'[x].parent = p
      /\ \A v \in Units \ {x} : units'[v] = units[v]
  BY <1>1 DEF RegInv, RegTypeOK
<1>3. RegTypeOK'
  BY <1>1 DEF RegInv, RegTypeOK
<1>4. None \notin Units
  BY RegistryAssumption
<1>5. p # None => p # x
  <2>1. p \in Units => p \in Above(p)
    BY UpwardIsShut, AboveIsUpward DEF RegInv, RegTypeOK
  <2> QED
    BY <2>1, <1>1 DEF ParentFits
<1>6. \A v \in Units : units[v].parent = x => k = units[x].kind /\ v # x
  <2>1. \A v \in Units : units[v].parent = x => units[x].kind \in {k, "none"}
    BY <1>1 DEF InUse
  <2>2. \A v \in Units : units[v].parent = x => units[x].kind # "none" /\ v # x
    BY <1>4 DEF RegInv, Kinded, Rooted
  <2> QED
    BY <2>1, <2>2
<1>7. Kinded'
  <2>1. ASSUME NEW y \in Units, units'[y].parent # None
        PROVE  /\ units'[y].kind \in {"department", "position"}
               /\ units'[units'[y].parent].kind \in {"factory", "department"}
    <3>1. CASE y = x
      BY <3>1, <2>1, <1>1, <1>2, <1>5 DEF ParentFits, Kinds
    <3>2. CASE y # x
      <4>1. /\ units'[y] = units[y] /\ units[y].parent \in Units
            /\ units[y].kind \in {"department", "position"}
            /\ units[units[y].parent].kind \in {"factory", "department"}
        BY <3>2, <2>1, <1>2 DEF RegInv, RegTypeOK, Kinded
      <4>2. units'[units[y].parent].kind = units[units[y].parent].kind
        BY <4>1, <1>2, <1>6
      <4> QED
        BY <4>1, <4>2
    <3> QED
      BY <3>1, <3>2
  <2> QED
    BY <2>1 DEF Kinded
<1>8. Placed'
  <2>1. \A u \in Users : x \in {members[u].department, members[u].position} =>
                           units'[x].kind = units[x].kind
    <3>1. \A u \in Users : x \in {members[u].department, members[u].position} =>
            InUse(x) /\ units[x].kind # "none"
      BY <1>4 DEF InUse, RegInv, Placed, IsKind
    <3> QED
      BY <3>1, <1>1, <1>2
  <2>2. ASSUME NEW u \in Users, NEW d \in Units \cup {None},
               d \in {members[u].department, members[u].position}
        PROVE  d # None => units'[d].kind = units[d].kind
    BY <2>1, <2>2, <1>2
  <2>3. \A u \in Users : members[u].department \in Units \cup {None}
                         /\ members[u].position \in Units \cup {None}
    BY DEF RegInv, RegTypeOK
  <2> QED
    BY <2>2, <2>3, <1>1 DEF RegInv, Placed, IsKind, NoMember
<1>9. Retained'
  BY <1>1 DEF RegInv, Retained
<1> QED
  BY <1>3, <1>7, <1>8, <1>9, SaveKeepsRooted DEF RegInv

LEMMA DeleteKeepsAgreement ==
  ASSUME RegInv, NEW x \in Units, DeleteUnit(x)
  PROVE  RegInv'
<1>1. /\ units' = [units EXCEPT ![x] = NoUnit] /\ ~InUse(x)
      /\ UNCHANGED <<roles, members, assets, tags, defects, watches>>
  BY DEF DeleteUnit, siteVars
<1>2. /\ units'[x].kind = "none" /\ units'[x].parent = None
      /\ \A v \in Units \ {x} : units'[v] = units[v]
  BY <1>1 DEF RegInv, RegTypeOK, NoUnit
<1>3. \A v \in Units : units[v].parent # x
  BY <1>1 DEF InUse
<1>4. \A u \in Users : members[u].department # x /\ members[u].position # x
  BY <1>1 DEF InUse
<1>5. RegTypeOK'
  BY <1>1 DEF RegInv, RegTypeOK, NoUnit
<1>6. Kinded'
  BY <1>2, <1>3 DEF RegInv, RegTypeOK, Kinded
<1>7. Rooted'
  <2>1. \A S : Shut(units, S) => Shut(units', S)
    BY <1>2 DEF Shut
  <2> QED
    BY <2>1, <1>2 DEF RegInv, Rooted
<1>8. Placed'
  <2>1. \A u \in Users : members[u].department \in (Units \ {x}) \cup {None}
                         /\ members[u].position \in (Units \ {x}) \cup {None}
    BY <1>4 DEF RegInv, RegTypeOK
  <2> QED
    BY <2>1, <1>1, <1>2 DEF RegInv, Placed, IsKind, NoMember
<1>9. Retained'
  BY <1>1 DEF RegInv, Retained
<1> QED
  BY <1>5, <1>6, <1>7, <1>8, <1>9 DEF RegInv

\* What leaves the organization alone leaves it a forest.
LEMMA ForestStays ==
  ASSUME RegInv, UNCHANGED units
  PROVE  Kinded' /\ Rooted'
BY DEF RegInv, Kinded, Rooted, Shut

LEMMA AccountKeepsAgreement ==
  ASSUME RegInv, Accounts \/ (\E u \in Users, d, p \in Units \cup {None} : PutMember(u, d, p))
  PROVE  RegInv'
<1>1. UNCHANGED <<units, assets, tags, defects, watches>>
  BY DEF Accounts, DeleteUser, CreateUser, UpdateUser, PutMember, orgVars, siteVars
<1>2. Kinded' /\ Rooted' /\ Retained'
  BY <1>1, ForestStays DEF RegInv, Retained
<1>3. ASSUME NEW u \in Users, NEW r \in Roles \ {"none"}, CreateUser(u, r) \/ UpdateUser(u, r)
      PROVE  RegTypeOK' /\ Placed'
  <2>1. roles' = [roles EXCEPT ![u] = r] /\ members' = members
    BY <1>3 DEF CreateUser, UpdateUser, orgVars
  <2>2. RegTypeOK'
    BY <2>1, <1>1 DEF RegInv, RegTypeOK
  <2>3. Placed'
    BY <2>1, <1>1 DEF RegInv, RegTypeOK, Placed, IsKind, NoMember
  <2> QED
    BY <2>2, <2>3
<1>4. ASSUME NEW u \in Users, DeleteUser(u)
      PROVE  RegTypeOK' /\ Placed'
  <2>1. roles' = [roles EXCEPT ![u] = "none"] /\ members' = [members EXCEPT ![u] = NoMember]
    BY <1>4 DEF DeleteUser
  <2>2. RegTypeOK'
    BY <2>1, <1>1 DEF RegInv, RegTypeOK, Roles, NoMember
  <2>3. Placed'
    BY <2>1, <1>1 DEF RegInv, RegTypeOK, Placed, IsKind, NoMember
  <2> QED
    BY <2>2, <2>3
<1>5. ASSUME NEW u \in Users, NEW d \in Units \cup {None}, NEW p \in Units \cup {None},
             PutMember(u, d, p)
      PROVE  RegTypeOK' /\ Placed'
  <2>1. /\ members' = [members EXCEPT ![u] = [department |-> d, position |-> p]]
        /\ roles' = roles /\ roles[u] # "none"
        /\ IsKind(d, "department") /\ IsKind(p, "position")
    BY <1>5 DEF PutMember
  <2>2. RegTypeOK'
    BY <2>1, <1>1 DEF RegInv, RegTypeOK
  <2>3. Placed'
    BY <2>1, <1>1 DEF RegInv, RegTypeOK, Placed, IsKind, NoMember
  <2> QED
    BY <2>2, <2>3
<1> QED
  BY <1>2, <1>3, <1>4, <1>5 DEF RegInv, Accounts

\* Records of the site: assets, tags, defects and what cameras watch.
LEMMA RecordsKeepAgreement ==
  ASSUME RegInv, Records
  PROVE  RegInv'
<1>a. None \notin Assets /\ None \notin Tags /\ None \notin Users
  BY RegistryAssumption
<1>1. UNCHANGED <<roles, units, members>>
  BY DEF Records, CreateAsset, DeleteAsset, SaveTag, DeleteTag, CreateDefect, PatchDefect,
         UpdateDefect, SaveWatch, DeleteWatch, orgVars
<1>2. Kinded' /\ Rooted' /\ Placed'
  BY <1>1, ForestStays DEF RegInv, Placed, IsKind
<1>3. SUFFICES RegTypeOK' /\ Retained'
  BY <1>2 DEF RegInv
<1>4. ASSUME NEW a \in Assets, CreateAsset(a) \/ DeleteAsset(a)
      PROVE  RegTypeOK' /\ Retained'
  <2>1. UNCHANGED <<tags, defects, watches>>
    BY <1>4 DEF CreateAsset, DeleteAsset
  <2>2. assets' = assets \cup {a} \/ (assets' = assets \ {a} /\ Unreferenced(a))
    BY <1>4 DEF CreateAsset, DeleteAsset
  <2>3. RegTypeOK'
    BY <2>1, <2>2, <1>1 DEF RegInv, RegTypeOK
  <2>4. Retained'
    BY <2>1, <2>2, <1>a DEF RegInv, Retained, Unreferenced
  <2> QED
    BY <2>3, <2>4
<1>5. ASSUME NEW t \in Tags, NEW a \in Assets \cup {None},
             /\ tags' = [tags EXCEPT ![t] = a] /\ a \in assets \cup {None}
             /\ tags[t] = a \/ ~HasDefects(t)
             /\ UNCHANGED <<assets, defects, watches>>
      PROVE  RegTypeOK' /\ Retained'
  <2>1. RegTypeOK'
    BY <1>5, <1>1 DEF RegInv, RegTypeOK
  <2>2. \A s \in Tags : tags'[s] = IF s = t THEN a ELSE tags[s]
    BY <1>5 DEF RegInv, RegTypeOK
  <2>3. \A d \in Defects : defects[d].tag \in Tags \cup {None}
    BY DEF RegInv, RegTypeOK
  <2>4. \A d \in Defects : defects[d].tag # None => tags'[defects[d].tag] = tags[defects[d].tag]
    BY <1>5, <2>2, <2>3 DEF HasDefects
  <2> QED
    BY <2>1, <2>2, <2>4, <1>5 DEF RegInv, Retained
<1>6. ASSUME NEW t \in Tags, NEW a \in Assets, SaveTag(t, a)
      PROVE  RegTypeOK' /\ Retained'
  <2>1. CASE tags[t] = a \/ ~HasDefects(t)
    BY <2>1, <1>6, <1>5 DEF SaveTag
  <2>2. CASE tags[t] = None /\ HasDefects(t)
    BY <2>2, <1>a DEF RegInv, Retained, HasDefects
  <2> QED
    BY <2>1, <2>2, <1>6 DEF SaveTag
<1>7. ASSUME NEW t \in Tags, DeleteTag(t)
      PROVE  RegTypeOK' /\ Retained'
  <2>1. /\ tags' = [tags EXCEPT ![t] = None] /\ ~HasDefects(t)
        /\ UNCHANGED <<assets, defects, watches>>
    BY <1>7 DEF DeleteTag
  <2>2. None \in Assets \cup {None} /\ None \in assets \cup {None}
    OBVIOUS
  <2> QED
    BY <2>1, <2>2, <1>5
<1>8. ASSUME NEW d \in Defects, NEW status \in {"open", "in_progress"},
             NEW a \in Assets \cup {None}, NEW t \in Tags \cup {None}, NEW u \in Users \cup {None},
             Valid(a, t, u), Changed(d, status, a, t, u),
             UNCHANGED <<assets, tags, watches>>
      PROVE  RegTypeOK' /\ Retained'
  <2>1. PICK b : b = IF t # None THEN tags[t] ELSE a
    OBVIOUS
  <2>2. b \in Assets \cup {None} /\ b \in assets \cup {None}
        /\ (t # None => tags[t] = b /\ b # None)
    BY <2>1, <1>8 DEF Valid, RegInv, RegTypeOK, Retained
  <2>3. defects' = [defects EXCEPT ![d] =
                      [status |-> status, asset |-> b, tag |-> t, assignedTo |-> u]]
    BY <2>1, <1>8 DEF Changed
  <2>4. RegTypeOK'
    BY <2>2, <2>3, <1>8, <1>1 DEF RegInv, RegTypeOK
  <2>5. Retained'
    BY <2>2, <2>3, <1>8 DEF RegInv, RegTypeOK, Retained
  <2> QED
    BY <2>4, <2>5
<1>9. ASSUME NEW d \in Defects, NEW a \in Assets \cup {None}, NEW t \in Tags \cup {None},
             NEW u \in Users \cup {None}, CreateDefect(d, a, t, u) \/ PatchDefect(d, a, t, u)
      PROVE  RegTypeOK' /\ Retained'
  <2>1. CASE CreateDefect(d, a, t, u)
    BY <2>1, <1>8 DEF CreateDefect
  <2>2. CASE PatchDefect(d, a, t, u)
    BY <2>2, <1>8 DEF PatchDefect
  <2> QED
    BY <2>1, <2>2, <1>9
<1>10. ASSUME NEW d \in Defects, NEW status \in {"open", "in_progress", "closed"},
              UpdateDefect(d, status)
       PROVE  RegTypeOK' /\ Retained'
  <2>1. defects' = [defects EXCEPT ![d].status = status] /\ UNCHANGED <<assets, tags, watches>>
    BY <1>10 DEF UpdateDefect
  <2>2. RegTypeOK'
    BY <2>1, <1>1 DEF RegInv, RegTypeOK
  <2>3. \A e \in Defects : defects'[e].asset = defects[e].asset /\ defects'[e].tag = defects[e].tag
    BY <2>1 DEF RegInv, RegTypeOK
  <2> QED
    BY <2>1, <2>2, <2>3 DEF RegInv, Retained
<1>11. ASSUME NEW c \in Configs,
              DeleteWatch(c) \/ (\E a \in Assets \cup {None} : SaveWatch(c, a))
       PROVE  RegTypeOK' /\ Retained'
  <2>1. PICK e \in BOOLEAN, a \in Assets \cup {None} :
          /\ a \in assets \cup {None} /\ watches' = [watches EXCEPT ![c] = [exists |-> e, asset |-> a]]
    BY <1>11 DEF SaveWatch, DeleteWatch, NoWatch
  <2>2. UNCHANGED <<assets, tags, defects>>
    BY <1>11 DEF SaveWatch, DeleteWatch
  <2> QED
    BY <2>1, <2>2, <1>1 DEF RegInv, RegTypeOK, Retained
<1> QED
  BY <1>4, <1>6, <1>7, <1>9, <1>10, <1>11 DEF Records

LEMMA RegInvHolds == RegSpec => []RegInv
<1>1. RegInv /\ [RegNext]_regVars => RegInv'
  <2>1. ASSUME RegInv, RegNext PROVE RegInv'
    <3>1. CASE Accounts
      BY <2>1, <3>1, AccountKeepsAgreement
    <3>2. CASE Organization
      BY <2>1, <3>2, AccountKeepsAgreement, SaveKeepsAgreement, DeleteKeepsAgreement
         DEF Organization
    <3>3. CASE Records
      BY <2>1, <3>3, RecordsKeepAgreement
    <3> QED
      BY <2>1, <3>1, <3>2, <3>3 DEF RegNext
  <2>2. ASSUME RegInv, UNCHANGED regVars PROVE RegInv'
    <3>1. RegTypeOK' /\ Placed' /\ Retained'
      BY <2>2 DEF regVars, orgVars, siteVars, RegInv, RegTypeOK, Placed, IsKind, Retained
    <3> QED
      BY <2>2, <3>1, ForestStays DEF regVars, orgVars, RegInv
  <2> QED
    BY <2>1, <2>2
<1> QED
  BY <1>1, RegInvInit, PTL DEF RegSpec

\* The registry keeps the shape of its tables (operations.ts,
\* inspection-assets.ts, config.ts).
THEOREM RegistryTypeCorrect == RegSpec => []RegTypeOK
<1>1. RegInv => RegTypeOK
  BY DEF RegInv
<1> QED
  BY <1>1, RegInvHolds, PTL

\* Whatever the handlers are asked, and in whatever order, the organization is a
\* forest, its members have accounts and places of the right kind, and what
\* inspections refer to stays on record (operations.ts:408-470,
\* inspection-assets.ts:161-287, config.ts:80-90).
THEOREM RegistryAgrees == RegSpec => []RecordsAgree
<1>1. RegInv => RecordsAgree
  BY RootedIsForest DEF RegInv, RecordsAgree
<1> QED
  BY <1>1, RegInvHolds, PTL

-----------------------------------------------------------------------------
(* Previews: rows, files and the sweep.                                    *)

Row == [id : Shots, raised : BOOLEAN, picture : BOOLEAN]
Single(these) == \A r, q \in these : r.id = q.id => r = q
Blanked(these, D) == (these \ D) \cup {Blank(r) : r \in D}

\* A picture whose file is gone is one the boot's sweep will take off its row.
Doomed ==
  \A r \in records : r.picture /\ r.id \notin files => r \in Old \/ r \in TooMany(records)

PrevInv ==
  /\ PrevTypeOK /\ Single(records) /\ EvidenceHolds
  /\ ~serves => Doomed
  /\ accepted = {} \/ \E a \in Shots : accepted = {a}

LEMMA BlankIs ==
  ASSUME NEW r \in Row
  PROVE  /\ Blank(r) \in Row /\ Blank(r).id = r.id /\ Blank(r).raised = r.raised
         /\ Blank(r).picture = FALSE
BY DEF Blank, Row

\* Rows that lose their picture stay rows, each identity once.
LEMMA BlankedIs ==
  ASSUME NEW these \in SUBSET Row, Single(these), NEW D \in SUBSET these
  PROVE  /\ Blanked(these, D) \subseteq Row /\ Single(Blanked(these, D))
         /\ \A q \in Blanked(these, D) : \E r \in these : q.id = r.id /\ q.raised = r.raised
         /\ \A r \in these : \E q \in Blanked(these, D) : q.id = r.id /\ q.raised = r.raised
         /\ \A q \in Blanked(these, D) : q.picture => q \in these \ D
<1>1. \A q \in Blanked(these, D) :
        \/ q \in these \ D
        \/ \E r \in D : q = Blank(r) /\ q \in Row /\ q.id = r.id /\ q.raised = r.raised
                        /\ q.picture = FALSE
  <2>1. \A r \in D : r \in Row
    OBVIOUS
  <2>2. \A r \in D : /\ Blank(r) \in Row /\ Blank(r).id = r.id
                     /\ Blank(r).raised = r.raised /\ Blank(r).picture = FALSE
    BY <2>1, BlankIs
  <2> QED
    BY <2>2 DEF Blanked
<1>2. Blanked(these, D) \subseteq Row
  BY <1>1
<1>3. Single(Blanked(these, D))
  BY <1>1 DEF Single
<1>4. \A r \in these : \E q \in Blanked(these, D) : q.id = r.id /\ q.raised = r.raised
  BY BlankIs DEF Blanked
<1> QED
  BY <1>1, <1>2, <1>3, <1>4

\* What a week leaves.
Reasons == {r \in Old : r.raised /\ r.id \in events}

LEMMA WeekLeaves ==
  ASSUME records \subseteq Row, Single(records)
  PROVE  /\ AfterWeek \subseteq Row /\ Single(AfterWeek)
         /\ \A q \in AfterWeek : q.picture => q \in records \ Old
         /\ records \ Old \subseteq AfterWeek
         /\ \A q \in AfterWeek : \E r \in records : q.id = r.id /\ q.raised = r.raised
         /\ \A r \in records : r \notin Old \/ (r.raised /\ r.id \in events) =>
              \E q \in AfterWeek : q.id = r.id /\ q.raised = r.raised
<1>1. PICK these : these = (records \ Old) \cup Reasons
  OBVIOUS
<1>2. /\ these \in SUBSET Row /\ Single(these) /\ Reasons \in SUBSET these
      /\ these \ Reasons = records \ Old /\ these \subseteq records
  BY <1>1 DEF Reasons, Old, Single
<1>3. AfterWeek = Blanked(these, Reasons)
  BY <1>2 DEF AfterWeek, Blanked, Reasons
<1>4. /\ AfterWeek \subseteq Row /\ Single(AfterWeek)
      /\ \A q \in AfterWeek : \E r \in these : q.id = r.id /\ q.raised = r.raised
      /\ \A r \in these : \E q \in AfterWeek : q.id = r.id /\ q.raised = r.raised
      /\ \A q \in AfterWeek : q.picture => q \in these \ Reasons
  BY <1>2, <1>3, BlankedIs
<1>5. \A r \in records : r \notin Old \/ (r.raised /\ r.id \in events) => r \in these
  BY <1>1 DEF Reasons
<1>6. records \ Old \subseteq AfterWeek
  BY DEF AfterWeek
<1> QED
  BY <1>2, <1>4, <1>5, <1>6

\* A picture that the boot finds without its file is in neither of the sweep's
\* remains.
LEMMA RestIsThere ==
  ASSUME records \subseteq Row, Single(records), Doomed, past \in Nat,
         NEW q \in AfterWeek, q.picture, q \notin TooMany(AfterWeek)
  PROVE  q.id \in Unlinked(Old \cup TooMany(AfterWeek))
<1>1. /\ AfterWeek \subseteq Row /\ Single(AfterWeek) /\ q \in records \ Old
      /\ records \ Old \subseteq AfterWeek
      /\ \A r \in AfterWeek : r.picture => r \in records \ Old
  BY WeekLeaves
<1>2. q.id \in Nat /\ \A r \in records : r.id \in Nat
  BY <1>1, PreviewsAssumption DEF Row, Shots
<1>3. {r \in AfterWeek : r.picture /\ r.id >= q.id} = {r \in records : r.picture /\ r.id >= q.id}
  <2>1. q.id > past
    BY <1>1, <1>2 DEF Old
  <2>3. ASSUME NEW r \in records, r.id >= q.id PROVE r \notin Old
    BY <1>2, <2>1, <2>3 DEF Old
  <2> QED
    BY <1>1, <2>3
<1>4. q \notin TooMany(records)
  BY <1>1, <1>3 DEF TooMany
<1>5. q.id \in files
  BY <1>1, <1>4 DEF Doomed
<1>6. \A r \in Old : r.id # q.id
  BY <1>1 DEF Old, Single
<1>7. \A r \in TooMany(AfterWeek) : r.id # q.id
  BY <1>1 DEF TooMany, Single
<1> QED
  BY <1>5, <1>6, <1>7 DEF Unlinked

\* The sweep of a platform that serves, or of a boot.
LEMMA SweepKeeps ==
  ASSUME PrevInv, SweepAll, UNCHANGED events
  PROVE  /\ records' \subseteq Row /\ Single(records)' /\ files' \subseteq Shots
         /\ files' = Pictures(records') /\ EventsKeepTheirReason'
<1>1. /\ records \subseteq Row /\ Single(records) /\ past \in Nat /\ files \subseteq Shots
  <2>1. past \in 0..shots /\ shots \in 0..MaxShots
    BY DEF PrevInv, PrevTypeOK
  <2> QED
    BY <2>1, PreviewsAssumption DEF PrevInv, PrevTypeOK, Row
<1>2. Doomed
  <2>1. CASE serves
    BY <2>1 DEF PrevInv, EvidenceHolds, PicturesAreThere, Doomed, Pictures
  <2> QED
    BY <2>1 DEF PrevInv
<1>3. /\ AfterWeek \subseteq Row /\ Single(AfterWeek)
      /\ \A r \in records : r \notin Old \/ (r.raised /\ r.id \in events) =>
           \E q \in AfterWeek : q.id = r.id /\ q.raised = r.raised
  BY <1>1, WeekLeaves
<1>4. PICK D : D = TooMany(AfterWeek)
  OBVIOUS
<1>5. D \in SUBSET AfterWeek
  BY <1>4 DEF TooMany
<1>6. records' = Blanked(AfterWeek, D)
  BY <1>4 DEF SweepAll, WithinRoom, Blanked
<1>7. PICK W : W = AfterWeek
  OBVIOUS
<1>8. /\ records' \subseteq Row /\ Single(records')
      /\ \A r \in W : \E q \in records' : q.id = r.id /\ q.raised = r.raised
      /\ \A q \in records' : q.picture => q \in W \ D
  <2>1. W \in SUBSET Row /\ Single(W) /\ D \in SUBSET W /\ records' = Blanked(W, D)
    BY <1>3, <1>5, <1>6, <1>7
  <2> QED
    BY <2>1, BlankedIs
<1>9. Single(records)'
  BY <1>8 DEF Single
<1>10. files' = Pictures(records')
  <2>1. PICK U : U = Unlinked(Old \cup D)
    OBVIOUS
  <2>2. \A q \in records' : q.picture => q.id \in U
    BY <1>1, <1>2, <1>4, <1>7, <1>8, <2>1, RestIsThere
  <2>3. files' = U \cap Pictures(records')
    BY <1>4, <2>1 DEF SweepAll
  <2> QED
    BY <2>2, <2>3 DEF Pictures
<1>11. files' \subseteq Shots
  BY <1>8, <1>10 DEF Pictures, Row
<1>12. EventsKeepTheirReason'
  <2>1. ASSUME NEW e \in events PROVE \E q \in records' : q.id = e /\ q.raised
    <3>1. PICK r \in records : r.id = e /\ r.raised
      BY <2>1 DEF PrevInv, EvidenceHolds, EventsKeepTheirReason
    <3>2. PICK w \in W : w.id = e /\ w.raised = r.raised
      BY <1>3, <1>7, <2>1, <3>1
    <3>3. PICK q \in records' : q.id = w.id /\ q.raised = w.raised
      BY <1>8
    <3> QED
      BY <3>1, <3>2, <3>3
  <2> QED
    BY <2>1 DEF EventsKeepTheirReason
<1> QED
  BY <1>8, <1>9, <1>10, <1>11, <1>12

\* A step that touches neither rows nor files, events only to take some away,
\* and lets weeks pass at most.
LEMMA RowsStay ==
  ASSUME PrevInv, PrevTypeOK', UNCHANGED <<records, files, accepted>>,
         events' \subseteq events, past' >= past,
         (serves' = serves) \/ (serves /\ ~serves'),
         (job'.status = "done") <=> (job.status = "done")
  PROVE  PrevInv'
<1>1. Single(records)'
  BY DEF PrevInv
<1>2. EventsKeepTheirReason'
  BY DEF PrevInv, EvidenceHolds, EventsKeepTheirReason
<1>3. OnePreview'
  BY DEF PrevInv, EvidenceHolds, OnePreview
<1>4. PicturesAreThere' /\ (~serves' => Doomed')
  <2>1. Pictures(records)' = Pictures(records) /\ TooMany(records)' = TooMany(records)
    BY DEF Pictures, TooMany
  <2>2. CASE serves
    <3>1. PicturesAreThere' /\ Doomed'
      BY <2>1, <2>2 DEF PrevInv, EvidenceHolds, PicturesAreThere, Pictures, Doomed
    <3> QED
      BY <3>1
  <2>3. CASE ~serves
    <3>1. past \in Nat /\ past' \in Nat /\ \A r \in records : r.id \in Nat
      <4>1. /\ past \in 0..shots /\ past' \in 0..shots' /\ shots \in 0..MaxShots
            /\ shots' \in 0..MaxShots /\ records \subseteq Row
        BY DEF PrevInv, PrevTypeOK, Row
      <4> QED
        BY <4>1, PreviewsAssumption DEF Row, Shots
    <3>2. \A r \in Old : r \in Old'
      BY <3>1 DEF Old
    <3>3. Doomed'
      BY <2>1, <2>3, <3>2 DEF PrevInv, Doomed
    <3> QED
      BY <2>3, <3>3 DEF PicturesAreThere
  <2> QED
    BY <2>2, <2>3
<1> QED
  BY <1>1, <1>2, <1>3, <1>4 DEF PrevInv, EvidenceHolds

LEMMA PrevTyped ==
  ASSUME PrevTypeOK
  PROVE  /\ records \subseteq Row /\ past \in Nat /\ shots \in Nat /\ past <= shots
         /\ outbox # <<>> => /\ Head(outbox) \in [id : Shots, forJob : BOOLEAN]
                             /\ Tail(outbox) \in Seq([id : Shots, forJob : BOOLEAN])
         /\ (Mishap => mishaps' \in 0..MaxMishaps)
<1>1. records \subseteq Row
  BY DEF PrevTypeOK, Row
<1>2. past \in Nat /\ shots \in Nat /\ past <= shots
  BY PreviewsAssumption DEF PrevTypeOK
<1>3. outbox # <<>> => /\ Head(outbox) \in [id : Shots, forJob : BOOLEAN]
                       /\ Tail(outbox) \in Seq([id : Shots, forJob : BOOLEAN])
  <2>1. PICK Entry : Entry = [id : Shots, forJob : BOOLEAN]
    OBVIOUS
  <2>2. outbox \in Seq(Entry)
    BY <2>1 DEF PrevTypeOK
  <2>3. outbox # <<>> => Head(outbox) \in Entry /\ Tail(outbox) \in Seq(Entry)
    BY <2>2
  <2> QED
    BY <2>1, <2>3
<1>4. Mishap => mishaps' \in 0..MaxMishaps
  BY PreviewsAssumption DEF PrevTypeOK, Mishap
<1> QED
  BY <1>1, <1>2, <1>3, <1>4

\* The job, the worker, kills outside the sweep, and what time takes.
LEMMA AroundKeeps ==
  ASSUME PrevInv,
         \/ AskForPreview \/ MinuteIsOver \/ ToldOfJobs \/ WorkerAnew
         \/ (\E forJob \in BOOLEAN : Observe(forJob))
         \/ PlatformKilled \/ WeekPasses \/ EventSwept \/ UNCHANGED prevVars
  PROVE  PrevInv'
<1> USE DEF jobVars
<1>1. PrevTypeOK
  BY DEF PrevInv
<1>2. /\ job \in [status : {"none", "queued", "done"}, over : BOOLEAN]
      /\ told \in BOOLEAN /\ did \in BOOLEAN /\ past \in Nat /\ shots \in 0..MaxShots
  BY <1>1, PrevTyped DEF PrevTypeOK
<1>3. CASE AskForPreview
  <2>1. job' = [status |-> "queued", over |-> FALSE] /\ job.status = "none"
    BY <1>3 DEF AskForPreview
  <2>2. job' \in [status : {"none", "queued", "done"}, over : BOOLEAN] /\ job'.status = "queued"
    BY <2>1
  <2> QED
    BY <1>1, <1>2, <1>3, <2>1, <2>2, RowsStay DEF AskForPreview, PrevTypeOK
<1>4. CASE MinuteIsOver
  <2>1. job' \in [status : {"none", "queued", "done"}, over : BOOLEAN] /\ job'.status = job.status
    BY <1>2, <1>4 DEF MinuteIsOver
  <2> QED
    BY <1>1, <1>2, <1>4, <2>1, RowsStay DEF MinuteIsOver, PrevTypeOK
<1>5. CASE ToldOfJobs
  <2>1. told' \in BOOLEAN /\ did' \in BOOLEAN
    BY <1>2, <1>5 DEF ToldOfJobs, JobOpen
  <2>2. UNCHANGED <<job, outbox, records, events, past, files, serves, accepted, shots, mishaps>>
    BY <1>5 DEF ToldOfJobs
  <2>3. PrevTypeOK'
    BY <1>1, <2>1, <2>2 DEF PrevTypeOK
  <2> QED
    BY <1>2, <2>2, <2>3, RowsStay
<1>6. CASE WorkerAnew
  <2>1. mishaps' \in 0..MaxMishaps
    BY <1>1, <1>6, PrevTyped DEF WorkerAnew
  <2>2. PrevTypeOK'
    BY <1>1, <1>6, <2>1 DEF WorkerAnew, PrevTypeOK
  <2>3. UNCHANGED <<job, records, events, past, files, serves, accepted>> /\ past' >= past
    BY <1>2, <1>6 DEF WorkerAnew
  <2> QED
    BY <2>2, <2>3, RowsStay
<1>7. ASSUME NEW forJob \in BOOLEAN, Observe(forJob) PROVE PrevInv'
  <2>1. PICK o : o = [id |-> shots + 1, forJob |-> forJob]
    OBVIOUS
  <2>2. shots' \in 0..MaxShots /\ shots + 1 \in Shots /\ past \in 0..shots'
    BY <1>1, <1>2, <1>7, PrevTyped, PreviewsAssumption DEF Observe, Shots
  <2>3. o \in [id : Shots, forJob : BOOLEAN]
    BY <2>1, <2>2
  <2>4. outbox' \in Seq([id : Shots, forJob : BOOLEAN])
    BY <1>1, <1>7, <2>1, <2>3 DEF Observe, PrevTypeOK
  <2>5. did' \in BOOLEAN
    BY <1>2, <1>7 DEF Observe
  <2>6. PrevTypeOK'
    BY <1>1, <1>7, <2>2, <2>4, <2>5 DEF Observe, PrevTypeOK
  <2>7. UNCHANGED <<job, records, events, past, files, serves, accepted>> /\ past' >= past
    BY <1>2, <1>7 DEF Observe
  <2> QED
    BY <2>6, <2>7, RowsStay
<1>8. CASE PlatformKilled
  <2>1. mishaps' \in 0..MaxMishaps
    BY <1>1, <1>8, PrevTyped DEF PlatformKilled
  <2>2. PrevTypeOK'
    BY <1>1, <1>8, <2>1 DEF PlatformKilled, PrevTypeOK
  <2>3. UNCHANGED <<job, records, events, past, files, accepted>> /\ past' >= past
    BY <1>2, <1>8 DEF PlatformKilled
  <2>4. serves /\ ~serves'
    BY <1>8 DEF PlatformKilled
  <2> QED
    BY <2>2, <2>3, <2>4, RowsStay
<1>9. CASE WeekPasses
  <2>1. past' \in 0..shots' /\ past' >= past
    BY <1>1, <1>2, <1>9, PreviewsAssumption DEF WeekPasses
  <2> QED
    BY <1>1, <1>2, <1>9, <2>1, RowsStay DEF WeekPasses, PrevTypeOK
<1>10. CASE EventSwept
  BY <1>1, <1>2, <1>10, RowsStay DEF EventSwept, PrevTypeOK
<1>11. CASE UNCHANGED prevVars
  <2>1. PrevTypeOK'
    BY <1>1, <1>11 DEF prevVars, PrevTypeOK
  <2> QED
    BY <1>2, <1>11, <2>1, RowsStay DEF prevVars
<1> QED
  BY <1>3, <1>4, <1>5, <1>6, <1>7, <1>8, <1>9, <1>10, <1>11

LEMMA FlushKeeps ==
  ASSUME PrevInv, FlushFirst
  PROVE  PrevInv'
<1>1. PrevTypeOK
  BY DEF PrevInv
<1>2. PICK o : o = Head(outbox)
  OBVIOUS
<1>3. o \in [id : Shots, forJob : BOOLEAN] /\ serves
  BY <1>1, <1>2, PrevTyped DEF FlushFirst
<1>4. outbox' \in Seq([id : Shots, forJob : BOOLEAN]) /\ mishaps' \in 0..MaxMishaps
      /\ UNCHANGED <<told, did, past, serves, shots>>
  BY <1>1, PrevTyped DEF FlushFirst, PrevTypeOK
<1>5. CASE UNCHANGED <<files, records, events, job, accepted>>
  <2>1. PrevTypeOK'
    BY <1>1, <1>4, <1>5 DEF PrevTypeOK
  <2> QED
    BY <1>1, <1>4, <1>5, <2>1, RowsStay, PrevTyped
<1>6. CASE ~Known(o) /\ OpenFor(o) /\ Accept(o)
  <2>1. PICK picture \in BOOLEAN, raised \in BOOLEAN :
    /\ o.forJob => ~raised
    /\ files' = IF picture THEN files \cup {o.id} ELSE files
    /\ records' = records \cup {[id |-> o.id, raised |-> raised, picture |-> picture]}
    /\ events' = IF raised THEN events \cup {o.id} ELSE events
    /\ job' = IF o.forJob THEN [job EXCEPT !.status = "done"] ELSE job
    /\ accepted' = IF o.forJob THEN accepted \cup {o.id} ELSE accepted
    BY <1>6 DEF Accept
  <2>2. PICK n : n = [id |-> o.id, raised |-> raised, picture |-> picture]
    OBVIOUS
  <2>3. n \in Row /\ n.id = o.id /\ n.raised = raised /\ n.picture = picture /\ o.id \in Shots
    BY <1>3, <2>2 DEF Row
  <2>4. records' = records \cup {n}
    BY <2>1, <2>2
  <2>5. \A r \in records : r.id # n.id
    BY <1>6, <2>3 DEF Known
  <2>6. Single(records)'
    BY <2>4, <2>5 DEF PrevInv, Single
  <2>7. PicturesAreThere'
    <3>1. files = Pictures(records)
      BY <1>3 DEF PrevInv, EvidenceHolds, PicturesAreThere
    <3>2. Pictures(records') = IF picture THEN Pictures(records) \cup {o.id} ELSE Pictures(records)
      BY <2>3, <2>4 DEF Pictures
    <3>3. Pictures(records)' = Pictures(records')
      BY DEF Pictures
    <3> QED
      BY <2>1, <3>1, <3>2, <3>3 DEF PicturesAreThere
  <2>8. EventsKeepTheirReason'
    <3>1. \A e \in events' : e \in events \/ (raised /\ e = o.id)
      BY <2>1
    <3> QED
      BY <2>3, <2>4, <3>1 DEF PrevInv, EvidenceHolds, EventsKeepTheirReason
  <2>9. /\ job' \in [status : {"none", "queued", "done"}, over : BOOLEAN]
        /\ o.forJob => job.status # "done" /\ job'.status = "done" /\ accepted' = {o.id}
        /\ ~o.forJob => job' = job /\ accepted' = accepted
    <3>1. o.forJob => job.status # "done"
      BY <1>6 DEF OpenFor
    <3>2. o.forJob => accepted = {}
      BY <3>1 DEF PrevInv, EvidenceHolds, OnePreview
    <3>3. job \in [status : {"none", "queued", "done"}, over : BOOLEAN]
      BY <1>1 DEF PrevTypeOK
    <3> QED
      BY <2>1, <3>1, <3>2, <3>3
  <2>10. PrevTypeOK'
    <3>1. /\ files' \subseteq Shots /\ records' \subseteq Row /\ events' \subseteq Shots
          /\ accepted' \subseteq Shots
      BY <1>1, <2>1, <2>3, <2>4 DEF PrevTypeOK, Row
    <3> QED
      BY <1>1, <1>4, <2>9, <3>1 DEF PrevTypeOK, Row
  <2>11. accepted' = {} \/ \E a \in Shots : accepted' = {a}
    BY <2>3, <2>9 DEF PrevInv
  <2>12. OnePreview'
    <3>1. job'.status = "done" <=> accepted' # {}
      BY <2>9 DEF PrevInv, EvidenceHolds, OnePreview
    <3>2. Cardinality(accepted') <= 1
      <4>1. Cardinality(accepted) <= 1
        BY DEF PrevInv, EvidenceHolds, OnePreview
      <4>2. Cardinality({o.id}) = 1
        BY FS_Singleton
      <4>3. CASE o.forJob
        BY <2>9, <4>2, <4>3
      <4>4. CASE ~o.forJob
        BY <2>9, <4>1, <4>4
      <4> QED
        BY <4>3, <4>4
    <3> QED
      BY <3>1, <3>2 DEF OnePreview
  <2>13. serves'
    BY <1>3, <1>4
  <2> QED
    BY <2>6, <2>7, <2>8, <2>10, <2>11, <2>12, <2>13 DEF PrevInv, EvidenceHolds
<1> QED
  BY <1>2, <1>5, <1>6 DEF FlushFirst

LEMMA FlushFailsKeeps ==
  ASSUME PrevInv, FlushFails
  PROVE  PrevInv'
<1>1. PrevTypeOK /\ serves /\ files = Pictures(records)
  BY DEF PrevInv, EvidenceHolds, PicturesAreThere, FlushFails
<1>2. PICK o : o = Head(outbox)
  OBVIOUS
<1>3. o \in [id : Shots, forJob : BOOLEAN] /\ mishaps' \in 0..MaxMishaps
  BY <1>1, <1>2, PrevTyped DEF FlushFails
<1>4. /\ UNCHANGED <<job, told, did, outbox, records, events, past, accepted, shots>>
      /\ \/ files' = files /\ serves' = serves
         \/ files' = files \cup {o.id} /\ serves' = FALSE
  BY <1>2 DEF FlushFails, PictureUndone, jobVars
<1>5. PrevTypeOK'
  BY <1>1, <1>3, <1>4 DEF PrevTypeOK
<1>6. PicturesAreThere' /\ (~serves' => Doomed')
  BY <1>1, <1>4 DEF PicturesAreThere, Doomed, Pictures
<1> QED
  BY <1>4, <1>5, <1>6
  DEF PrevInv, EvidenceHolds, OnePreview, EventsKeepTheirReason, Single

\* What a step of the sweep leaves alone.
LEMMA SweptKeeps ==
  ASSUME PrevInv, records' \subseteq Row, Single(records)', files' \subseteq Shots,
         EventsKeepTheirReason', PicturesAreThere', ~serves' => Doomed',
         serves' \in BOOLEAN, mishaps' \in 0..MaxMishaps,
         UNCHANGED <<job, told, did, outbox, events, past, accepted, shots>>
  PROVE  PrevInv'
<1>1. PrevTypeOK'
  BY DEF PrevInv, PrevTypeOK, Row
<1>2. OnePreview'
  BY DEF PrevInv, EvidenceHolds, OnePreview
<1> QED
  BY <1>1, <1>2 DEF PrevInv, EvidenceHolds

LEMMA SweepsKeep ==
  ASSUME PrevInv, VisionSweep \/ Boots
  PROVE  PrevInv'
<1>1. /\ SweepAll /\ serves' = TRUE
      /\ UNCHANGED <<job, told, did, outbox, events, past, accepted, shots, mishaps>>
  BY DEF VisionSweep, Boots, jobVars, PrevInv, PrevTypeOK
<1>2. /\ records' \subseteq Row /\ Single(records)' /\ files' \subseteq Shots
      /\ files' = Pictures(records') /\ EventsKeepTheirReason'
  BY <1>1, SweepKeeps
<1>3. PicturesAreThere'
  BY <1>2 DEF PicturesAreThere, Pictures
<1>4. mishaps' \in 0..MaxMishaps
  BY <1>1 DEF PrevInv, PrevTypeOK
<1> QED
  BY <1>1, <1>2, <1>3, <1>4, SweptKeeps

\* Killed among the rows that are a week old.
LEMMA KilledAmongOld ==
  ASSUME PrevInv, serves, ~serves', UNCHANGED <<events, past>>,
         NEW gone \in SUBSET Old, files' = Unlinked(gone),
         NEW updated \in SUBSET {r \in gone : r.raised},
         records' = (records \ updated) \cup {Blank(r) : r \in updated}
  PROVE  /\ records' \subseteq Row /\ Single(records)' /\ files' \subseteq Shots
         /\ EventsKeepTheirReason' /\ Doomed'
<1>1. /\ records \in SUBSET Row /\ Single(records) /\ files = Pictures(records)
      /\ updated \in SUBSET records /\ files \subseteq Shots
  BY DEF PrevInv, PrevTypeOK, EvidenceHolds, PicturesAreThere, Row, Old
<1>2. records' = Blanked(records, updated)
  BY DEF Blanked
<1>3. /\ records' \subseteq Row /\ Single(records')
      /\ \A r \in records : \E q \in records' : q.id = r.id /\ q.raised = r.raised
      /\ \A q \in records' : q.picture => q \in records \ updated
  <2>1. PICK R : R = records'
    OBVIOUS
  <2>2. R = Blanked(records, updated)
    BY <1>2, <2>1
  <2>3. /\ R \subseteq Row /\ Single(R)
        /\ \A r \in records : \E q \in R : q.id = r.id /\ q.raised = r.raised
        /\ \A q \in R : q.picture => q \in records \ updated
    BY <1>1, <2>2, BlankedIs
  <2> QED
    BY <2>1, <2>3
<1>4. Single(records)'
  BY <1>3 DEF Single
<1>5. EventsKeepTheirReason'
  BY <1>3 DEF PrevInv, EvidenceHolds, EventsKeepTheirReason
<1>6. Doomed'
  <2>1. ASSUME NEW q \in records', q.picture, q.id \notin files' PROVE q \in Old'
    <3>1. q \in records
      BY <1>3, <2>1
    <3>2. q.id \in files
      BY <1>1, <2>1, <3>1 DEF Pictures
    <3>3. PICK r \in gone : r.id = q.id
      BY <2>1, <3>2 DEF Unlinked
    <3>4. r = q
      BY <1>1, <3>1, <3>3 DEF Single, Old
    <3> QED
      BY <2>1, <3>3, <3>4 DEF Old
  <2> QED
    BY <2>1 DEF Doomed
<1>7. files' \subseteq Shots
  BY <1>1 DEF Unlinked
<1> QED
  BY <1>3, <1>4, <1>5, <1>6, <1>7

\* Killed while room is made: what was unlinked last is still too much.
LEMMA KilledMakingRoom ==
  ASSUME PrevInv, serves, ~serves', UNCHANGED <<events, past>>,
         NEW gone \in SUBSET TooMany(AfterWeek),
         \A r \in gone, q \in TooMany(AfterWeek) : q.id < r.id => q \in gone,
         files' = Unlinked(Old \cup gone),
         NEW last \in {{}} \cup {{r} : r \in gone},
         \A r \in last, q \in gone : q.id <= r.id,
         records' = (AfterWeek \ (gone \ last)) \cup {Blank(r) : r \in gone \ last}
  PROVE  /\ records' \subseteq Row /\ Single(records)' /\ files' \subseteq Shots
         /\ EventsKeepTheirReason' /\ Doomed'
<1>1. /\ records \subseteq Row /\ Single(records) /\ files = Pictures(records)
      /\ files \subseteq Shots
  BY DEF PrevInv, PrevTypeOK, EvidenceHolds, PicturesAreThere, Row
<1>2. PICK W : W = AfterWeek
  OBVIOUS
<1>3. /\ W \in SUBSET Row /\ Single(W)
      /\ \A q \in W : q.picture => q \in records \ Old
      /\ \A r \in records : r \notin Old \/ (r.raised /\ r.id \in events) =>
           \E q \in W : q.id = r.id /\ q.raised = r.raised
  BY <1>1, <1>2, WeekLeaves
<1>4. PICK D : D = gone \ last
  OBVIOUS
<1>5. D \in SUBSET W /\ gone \subseteq W
  BY <1>2, <1>4 DEF TooMany
<1>6. records' = Blanked(W, D)
  BY <1>2, <1>4 DEF Blanked
<1>7. /\ records' \subseteq Row /\ Single(records')
      /\ \A r \in W : \E q \in records' : q.id = r.id /\ q.raised = r.raised
      /\ \A q \in records' : q.picture => q \in W \ D
  <2>1. PICK R : R = records'
    OBVIOUS
  <2>2. R = Blanked(W, D)
    BY <1>6, <2>1
  <2>3. /\ R \subseteq Row /\ Single(R)
        /\ \A r \in W : \E q \in R : q.id = r.id /\ q.raised = r.raised
        /\ \A q \in R : q.picture => q \in W \ D
    BY <1>3, <1>5, <2>2, BlankedIs
  <2> QED
    BY <2>1, <2>3
<1>8. Single(records)'
  BY <1>7 DEF Single
<1>9. EventsKeepTheirReason'
  <2>1. ASSUME NEW e \in events PROVE \E q \in records' : q.id = e /\ q.raised
    <3>1. PICK r \in records : r.id = e /\ r.raised
      BY <2>1 DEF PrevInv, EvidenceHolds, EventsKeepTheirReason
    <3>2. PICK w \in W : w.id = e /\ w.raised = r.raised
      BY <1>3, <2>1, <3>1
    <3>3. PICK q \in records' : q.id = w.id /\ q.raised = w.raised
      BY <1>7
    <3> QED
      BY <3>1, <3>2, <3>3
  <2> QED
    BY <2>1 DEF EventsKeepTheirReason
<1>10. Doomed'
  <2>1. ASSUME NEW q \in records', q.picture, q.id \notin files'
        PROVE  q \in TooMany(records')
    <3>1. q \in W \ D /\ q \in records \ Old
      BY <1>3, <1>7, <2>1
    <3>2. q.id \in files
      BY <1>1, <2>1, <3>1 DEF Pictures
    <3>3. PICK r \in Old \cup gone : r.id = q.id
      BY <2>1, <3>2 DEF Unlinked
    <3>4. r \in gone
      BY <1>1, <3>1, <3>3 DEF Single, Old
    <3>5. q \in gone /\ q \in last
      BY <1>3, <1>4, <1>5, <3>1, <3>3, <3>4 DEF Single
    <3>6. last = {q} /\ \A g \in gone : g.id <= q.id
      BY <3>5
    <3>7. {w \in W : w.picture /\ w.id >= q.id} \subseteq {w \in records' : w.picture /\ w.id >= q.id}
      <4>1. ASSUME NEW w \in W, w.picture, w.id >= q.id PROVE w \in records'
        <5>1. w.id \in Nat /\ q.id \in Nat
          BY <1>3, <3>1, PreviewsAssumption DEF Row, Shots
        <5>2. w \notin D
          <6>1. SUFFICES ASSUME w \in gone PROVE w \in last
            BY <1>4
          <6>2. w.id = q.id
            BY <3>6, <4>1, <5>1, <6>1
          <6> QED
            BY <1>3, <3>1, <3>5, <6>2 DEF Single
        <5> QED
          BY <1>6, <5>2 DEF Blanked
      <4> QED
        BY <4>1
    <3>8. {w \in records' : w.picture /\ w.id >= q.id} \subseteq {w \in W : w.picture /\ w.id >= q.id}
      BY <1>7
    <3>9. {w \in W : w.picture /\ w.id >= q.id} = {w \in records' : w.picture /\ w.id >= q.id}
      BY <3>7, <3>8
    <3>10. Cardinality({w \in W : w.picture /\ w.id >= q.id}) > PictureRoom
      BY <1>2, <3>5 DEF TooMany
    <3>11. Cardinality({w \in records' : w.picture /\ w.id >= q.id}) > PictureRoom
      BY <3>9, <3>10
    <3> QED
      BY <2>1, <3>11 DEF TooMany
  <2>2. PICK R : R = records'
    OBVIOUS
  <2>3. TooMany(records)' = TooMany(R)
    BY <2>2 DEF TooMany
  <2> QED
    BY <2>1, <2>2, <2>3 DEF Doomed
<1>11. files' \subseteq Shots
  BY <1>1 DEF Unlinked
<1> QED
  BY <1>7, <1>8, <1>9, <1>10, <1>11

LEMMA KilledSweepingKeeps ==
  ASSUME PrevInv, KilledInSweep
  PROVE  PrevInv'
<1>1. /\ serves /\ serves' = FALSE /\ mishaps' \in 0..MaxMishaps
      /\ UNCHANGED <<job, told, did, outbox, events, past, accepted, shots>>
  BY PrevTyped DEF KilledInSweep, jobVars, PrevInv
<1>2. /\ records' \subseteq Row /\ Single(records)' /\ files' \subseteq Shots
      /\ EventsKeepTheirReason' /\ Doomed'
  <2>1. CASE \E gone \in SUBSET Old :
               /\ files' = Unlinked(gone)
               /\ \E updated \in SUBSET {r \in gone : r.raised} :
                    records' = (records \ updated) \cup {Blank(r) : r \in updated}
    BY <1>1, <2>1, KilledAmongOld
  <2>2. CASE \E gone \in SUBSET TooMany(AfterWeek) :
               /\ \A r \in gone, q \in TooMany(AfterWeek) : q.id < r.id => q \in gone
               /\ files' = Unlinked(Old \cup gone)
               /\ \E last \in {{}} \cup {{r} : r \in gone} :
                    /\ \A r \in last, q \in gone : q.id <= r.id
                    /\ records' =
                         (AfterWeek \ (gone \ last)) \cup {Blank(r) : r \in gone \ last}
    BY <1>1, <2>2, KilledMakingRoom
  <2> QED
    BY <2>1, <2>2 DEF KilledInSweep
<1>3. PicturesAreThere'
  BY <1>1 DEF PicturesAreThere
<1> QED
  BY <1>1, <1>2, <1>3, SweptKeeps

LEMMA PrevStarts ==
  ASSUME PrevInit PROVE PrevInv
<1>1. PrevTypeOK
  <2>1. job \in [status : {"none", "queued", "done"}, over : BOOLEAN] /\ job.status = "none"
    BY DEF PrevInit
  <2>2. outbox \in Seq([id : Shots, forJob : BOOLEAN])
    BY DEF PrevInit
  <2>3. /\ shots \in 0..MaxShots /\ past \in 0..shots /\ mishaps \in 0..MaxMishaps
    BY PreviewsAssumption DEF PrevInit
  <2> QED
    BY <2>1, <2>2, <2>3 DEF PrevInit, PrevTypeOK
<1>2. OnePreview
  BY FS_EmptySet DEF PrevInit, OnePreview
<1> QED
  BY <1>1, <1>2 DEF PrevInit, PrevInv, Single, EvidenceHolds, PicturesAreThere, Pictures,
                    EventsKeepTheirReason, Doomed

LEMMA PrevSteps ==
  ASSUME PrevInv, [PrevNext]_prevVars PROVE PrevInv'
BY AroundKeeps, FlushKeeps, FlushFailsKeeps, SweepsKeep, KilledSweepingKeeps DEF PrevNext

\* A preview has one result, each picture that is offered is there and no other
\* is kept, and what raised an event stays on record, whatever is killed.
THEOREM EvidenceStays == PrevSpec => []EvidenceHolds
<1>1. PrevInit => PrevInv
  BY PrevStarts
<1>2. PrevInv /\ [PrevNext]_prevVars => PrevInv'
  BY PrevSteps
<1>3. PrevInv => EvidenceHolds
  BY DEF PrevInv
<1> QED
  BY <1>1, <1>2, <1>3, PTL DEF PrevSpec

-----------------------------------------------------------------------------
(* Watching: the hours of an analysis.                                     *)

\* Division by a positive number is what it should be, and the only one.
LEMMA Divided ==
  ASSUME NEW a \in Int, NEW d \in Nat \ {0}
  PROVE  /\ a \div d \in Int /\ a % d \in 0..(d - 1) /\ a = d * (a \div d) + (a % d)
         /\ \A k \in Int, r \in 0..(d - 1) : a = d * k + r => k = a \div d /\ r = a % d
<1>1. a \div d \in Int /\ a % d \in 0..(d - 1) /\ a = d * (a \div d) + (a % d)
  BY Z3
<1>2. ASSUME NEW k \in Int, NEW r \in 0..(d - 1), a = d * k + r
      PROVE  k = a \div d /\ r = a % d
  <2>1. PICK q \in Int : q = a \div d
    BY <1>1
  <2>2. PICK m \in 0..(d - 1) : m = a % d
    BY <1>1
  <2>3. d * q + m = d * k + r
    BY <1>1, <1>2, <2>1, <2>2
  <2>4. \A u, v \in Int : u >= v + 1 => d * u >= d * v + d
    OBVIOUS
  <2>5. q = k
    BY <2>3, <2>4
  <2> QED
    BY <2>1, <2>2, <2>3, <2>5
<1> QED
  BY <1>1, <1>2

LEMMA Residue ==
  ASSUME NEW a \in Int, NEW d \in Nat \ {0}, NEW k \in Int, NEW r \in 0..(d - 1),
         a = d * k + r
  PROVE  a % d = r
BY Divided

\* The day before is the same whether it is counted from the week or not.
LEMMA DayBefore ==
  ASSUME NEW q \in Nat, NEW w \in Nat \ {0}
  PROVE  ((q % w) - 1) % w = (q - 1) % w
<1>1. PICK k \in Int : k = q \div w
  BY Divided
<1>2. PICK m \in 0..(w - 1) : m = q % w
  BY Divided
<1>3. q = w * k + m
  BY <1>1, <1>2, Divided
<1>4. CASE m >= 1
  <2>1. PICK a \in Int, b \in 0..(w - 1) : a = q - 1 /\ b = m - 1
    BY <1>4
  <2>2. a = w * k + b /\ b = w * 0 + b
    BY <1>3, <2>1
  <2>3. a % w = b /\ b % w = b
    BY <2>2, Residue
  <2> QED
    BY <1>2, <2>1, <2>3
<1>5. CASE m = 0
  <2>1. PICK a \in Int, b \in Int, c \in 0..(w - 1), l \in Int, n \in Int :
          a = q - 1 /\ b = m - 1 /\ c = w - 1 /\ l = k - 1 /\ n = -1
    <3>1. q - 1 \in Int /\ m - 1 \in Int /\ w - 1 \in 0..(w - 1) /\ k - 1 \in Int /\ -1 \in Int
      OBVIOUS
    <3> QED
      BY <3>1
  <2>2. a = w * l + c /\ b = w * n + c
    BY <1>3, <1>5, <2>1
  <2>3. a % w = c /\ b % w = c
    BY <2>2, Residue
  <2> QED
    BY <1>2, <2>1, <2>3
<1> QED
  BY <1>4, <1>5

\* worker.active agrees with hours that begin on a day of theirs and last.
LEMMA HoursAgree ==
  ASSUME NEW w \in Schedules, NEW t \in Nat
  PROVE  Active(w, t) <=> WithinHours(w, t)
<1>1. {w.start, w.end} \subseteq 0..(DayLength - 1)
  BY WatchingAssumption
<1>2. PICK D \in Nat \ {0} : D = DayLength
  BY WatchingAssumption
<1>3. PICK s \in 0..(D - 1) : s = w.start
  BY <1>1, <1>2, WatchingAssumption
<1>4. PICK e \in 0..(D - 1) : e = w.end
  BY <1>1, <1>2, WatchingAssumption
<1>5. PICK q \in Int : q = t \div D
  BY Divided
<1>6. PICK m \in 0..(D - 1) : m = t % D
  BY Divided
<1>7. t = D * q + m
  BY <1>5, <1>6, Divided
<1>8. \A u, v \in Int : u >= v + 1 => D * u >= D * v + D
  OBVIOUS
<1>9. q \in Nat
  <2>1. q <= -1 => D * q <= -D
    OBVIOUS
  <2> QED
    BY <1>7, <2>1
<1>10. PICK on : on = {day \in -1..q : day % WeekLength \in w.days}
  OBVIOUS
<1>11. Active(w, t) <=>
         CASE s = e -> q \in on
           [] s < e -> q \in on /\ s <= m /\ m < e
           [] OTHER -> (q \in on /\ m >= s) \/ (q - 1 \in on /\ m < e)
  <2>1. q % WeekLength \in w.days <=> q \in on
    BY <1>9, <1>10
  <2>2. ((q % WeekLength) - 1) % WeekLength \in w.days <=> q - 1 \in on
    <3>1. ((q % WeekLength) - 1) % WeekLength = (q - 1) % WeekLength
      BY <1>9, DayBefore, WatchingAssumption
    <3> QED
      BY <1>9, <1>10, <3>1
  <2> QED
    BY <1>1, <1>2, <1>3, <1>4, <1>5, <1>6, <2>1, <2>2 DEF Active
<1> DEFINE length == IF s = e THEN D ELSE (e - s) % D
           begin(day) == day * D + IF s = e THEN 0 ELSE s
<1>12. WithinHours(w, t) <=>
         \E day \in -1..q : day \in on /\ begin(day) <= t /\ t < begin(day) + length
  BY <1>1, <1>2, <1>3, <1>4, <1>5, <1>10 DEF WithinHours
<1>13. length = IF s = e THEN D ELSE IF s < e THEN e - s ELSE e - s + D
  <2>1. PICK a \in Int : a = e - s
    OBVIOUS
  <2>2. CASE s < e
    <3>1. a \in 0..(D - 1) /\ a = D * 0 + a
      BY <2>1, <2>2
    <3>2. a % D = a
      BY <3>1, Residue
    <3> QED
      BY <2>1, <2>2, <3>2
  <2>3. CASE s > e
    <3>1. PICK b \in 0..(D - 1), n \in Int : b = e - s + D /\ n = -1
      BY <2>3
    <3>2. a = D * n + b
      BY <2>1, <3>1
    <3>3. a % D = b
      BY <3>2, Residue
    <3> QED
      BY <2>1, <2>3, <3>1, <3>3
  <2> QED
    BY <2>2, <2>3
<1>14. \A day \in -1..q : day * D \in Int /\ (day <= q - 1 => day * D <= q * D - D)
                          /\ (day <= q - 2 => day * D <= q * D - 2 * D)
  <2>1. \A day \in -1..q : day * D = D * day /\ day * D \in Int
    OBVIOUS
  <2>2. \A day \in -1..q : day <= q - 1 => D * q >= D * day + D
    BY <1>8
  <2>3. \A day \in -1..q : day <= q - 2 => D * q >= D * day + 2 * D
    <3>1. SUFFICES ASSUME NEW day \in -1..q, day <= q - 2 PROVE D * q >= D * day + 2 * D
      OBVIOUS
    <3>2. D * q >= D * (q - 1) + D /\ D * (q - 1) >= D * day + D
      BY <1>8, <3>1
    <3> QED
      BY <3>2
  <2> QED
    BY <2>1, <2>2, <2>3
<1>15. PICK p \in Int : p = q * D
  OBVIOUS
<1>16. (q - 1) * D = p - D /\ t = p + m
  BY <1>7, <1>15
<1>17. CASE s = e
  <2>1. \A day \in -1..q : begin(day) <= t /\ t < begin(day) + length <=> day = q
    BY <1>13, <1>14, <1>15, <1>16, <1>17
  <2> QED
    BY <1>9, <1>11, <1>12, <1>17, <2>1
<1>18. CASE s < e
  <2>1. \A day \in -1..q :
          begin(day) <= t /\ t < begin(day) + length <=> day = q /\ s <= m /\ m < e
    BY <1>13, <1>14, <1>15, <1>16, <1>18
  <2> QED
    BY <1>9, <1>11, <1>12, <1>18, <2>1
<1>19. CASE s > e
  <2>1. \A day \in -1..q :
          begin(day) <= t /\ t < begin(day) + length <=>
            (day = q /\ s <= m) \/ (day = q - 1 /\ m < e)
    BY <1>13, <1>14, <1>15, <1>16, <1>19
  <2> QED
    BY <1>9, <1>11, <1>12, <1>19, <2>1
<1> QED
  BY <1>17, <1>18, <1>19

-----------------------------------------------------------------------------
(* Watching: how long a condition was seen.                                *)

Observations ==
  [at : Nat, epoch : Nat, revision : Nat, who : Visitors \cup {NoPerson},
   still : BOOLEAN, judgement : Judgements]

Good(o) == o.still /\ WithinHours(schedule, o.at) /\ Fulfils(o.who)

\* The second observation goes on where the first was.
Linked(a, b) ==
  /\ b.epoch = a.epoch /\ b.revision = a.revision /\ b.at - a.at <= Gap
  /\ kind = "dwell" => b.who = a.who

LastOne == judged[Len(judged)]

\* The rule knows since when the condition was observed without a break.
SinceFits ==
  IF Good(LastOne)
    THEN /\ state.rule.who = LastOne.who /\ state.rule.last = LastOne.at
         /\ \E i \in 1..Len(judged) : Unbroken(i, Len(judged)) /\ judged[i].at = state.rule.since
         /\ \A i \in 1..Len(judged) : Unbroken(i, Len(judged)) => state.rule.since <= judged[i].at
    ELSE state.rule.since = Unset

\* The last observation and the view it was judged in.
SightFits ==
  /\ judged = <<>> => sight = NoSight /\ state = NoState
  /\ judged # <<>> =>
       /\ sight.last = LastOne.at /\ sight.epoch = LastOne.epoch
       /\ \A i \in 1..Len(judged) : judged[i].at <= sight.last
  /\ sight.epoch = epoch => latest.at # Unset
  /\ latest.at # Unset => sight.last <= latest.at

\* A rule is dropped only when the next frame comes after a gap.
DroppedLate ==
  state.revision = Unset /\ sight.epoch = epoch /\ judged # <<>> /\ Good(LastOne) =>
    instant - sight.last > Gap /\ (IsFresh => latest.at - sight.last > Gap)

WatchInv ==
  /\ WatchTypeOK /\ judged \in Seq(Observations) /\ AlertsAreEarned
  /\ SightFits /\ DroppedLate /\ epoch + revision <= upsets
  /\ state.revision # Unset =>
       judged # <<>> /\ LastOne.revision = state.revision /\ SinceFits

\* Observations before the last are what they were.
LEMMA UnbrokenStays ==
  ASSUME UNCHANGED <<kind, schedule>>, NEW n \in Nat, \A k \in 1..n : judged'[k] = judged[k],
         NEW j \in 1..n, NEW i \in 1..j
  PROVE  Unbroken(i, j)' <=> Unbroken(i, j)
<1>1. \A k \in i..j : judged'[k] = judged[k]
  OBVIOUS
<1>2. \A k \in i..(j - 1) : judged'[k] = judged[k] /\ judged'[k + 1] = judged[k + 1]
  OBVIOUS
<1> QED
  BY <1>1, <1>2 DEF Unbroken, Fulfils

Adds(o) == judged' = IF o.still /\ Fulfils(o.who) THEN Append(judged, o) ELSE <<o>>

\* An observation is appended, or the first one of what follows.
LEMMA Extended ==
  ASSUME UNCHANGED <<kind, schedule>>, judged \in Seq(Observations), NEW o \in Observations,
         Adds(o)
  PROVE  /\ judged' \in Seq(Observations) /\ Len(judged') \in Nat \ {0}
         /\ judged'[Len(judged')] = o
         /\ \A k \in 1..(Len(judged') - 1) : k \in 1..Len(judged) /\ judged'[k] = judged[k]
         /\ Good(o) => Len(judged') = Len(judged) + 1
         /\ \A m \in Nat : m = Len(judged') =>
             \A i \in 1..m :
               (Unbroken(i, m)' <=>
                  Good(o) /\ (i < m =>
                                Unbroken(i, Len(judged)) /\ Linked(judged[Len(judged)], o)))
<1>1. PICK n \in Nat : n = Len(judged)
  OBVIOUS
<1>2. CASE o.still /\ Fulfils(o.who)
  <2>1. /\ judged' \in Seq(Observations) /\ Len(judged') = n + 1 /\ judged'[n + 1] = o
        /\ \A k \in 1..n : judged'[k] = judged[k]
    BY <1>1, <1>2 DEF Adds
  <2>2. ASSUME NEW i \in 1..(n + 1), i < n + 1
        PROVE  Unbroken(i, n + 1)' <=> Good(o) /\ Unbroken(i, n) /\ Linked(judged[n], o)
    <3>1. \A k \in i..(n + 1) : k = n + 1 \/ k \in i..n
      OBVIOUS
    <3>2. \A k \in i..n : k = n \/ k \in i..(n - 1)
      OBVIOUS
    <3>3. n \in i..n /\ i..n \subseteq i..(n + 1) /\ n + 1 \in i..(n + 1)
          /\ i..(n - 1) \subseteq i..n /\ (n + 1) - 1 = n
      BY <2>2
    <3>4. \A k \in i..n : judged'[k] = judged[k]
      BY <2>1
    <3>5. \A k \in i..(n - 1) : judged'[k + 1] = judged[k + 1]
      BY <2>1
    <3>6. ASSUME Unbroken(i, n + 1)' PROVE Good(o) /\ Unbroken(i, n) /\ Linked(judged[n], o)
      <4>1. /\ \A k \in i..(n + 1) :
                 /\ judged'[k].still /\ WithinHours(schedule, judged'[k].at)
                 /\ Fulfils(judged'[k].who)
                 /\ judged'[k].epoch = judged'[i].epoch
                 /\ judged'[k].revision = judged'[i].revision
                 /\ kind = "dwell" => judged'[k].who = judged'[i].who
            /\ \A k \in i..n : judged'[k + 1].at - judged'[k].at <= Gap
        BY <3>3, <3>6 DEF Unbroken, Fulfils
      <4>2. \A k \in i..(n - 1) : judged[k + 1].at - judged[k].at <= Gap
        BY <3>3, <3>4, <3>5, <4>1
      <4>3. i \in i..n
        BY <2>2
      <4>4. Unbroken(i, n)
        <5>1. judged'[i] = judged[i]
          BY <3>4, <4>3
        <5>2. ASSUME NEW k \in i..n
              PROVE  /\ judged[k].still /\ WithinHours(schedule, judged[k].at)
                     /\ Fulfils(judged[k].who)
                     /\ judged[k].epoch = judged[i].epoch
                     /\ judged[k].revision = judged[i].revision
                     /\ kind = "dwell" => judged[k].who = judged[i].who
          <6>1. k \in i..(n + 1) /\ judged'[k] = judged[k]
            BY <3>3, <3>4, <5>2
          <6> QED
            BY <4>1, <5>1, <6>1
        <5> QED
          BY <4>2, <5>2 DEF Unbroken
      <4>5. Good(o) /\ Linked(judged[n], o)
        BY <2>1, <3>3, <3>4, <4>1, <4>3 DEF Good, Linked
      <4> QED
        BY <4>4, <4>5
    <3>7. ASSUME Good(o), Unbroken(i, n), Linked(judged[n], o) PROVE Unbroken(i, n + 1)'
      <4>1. i \in i..n
        BY <2>2
      <4>2. \A k \in i..(n + 1) :
                 /\ judged'[k].still /\ WithinHours(schedule, judged'[k].at)
                 /\ Fulfils(judged'[k].who)
                 /\ judged'[k].epoch = judged'[i].epoch
                 /\ judged'[k].revision = judged'[i].revision
                 /\ kind = "dwell" => judged'[k].who = judged'[i].who
        BY <2>1, <3>1, <3>3, <3>4, <3>7, <4>1 DEF Unbroken, Good, Linked
      <4>3. \A k \in i..n : judged'[k + 1].at - judged'[k].at <= Gap
        BY <2>1, <3>2, <3>3, <3>4, <3>5, <3>7, <4>1 DEF Unbroken, Linked
      <4> QED
        BY <3>3, <4>2, <4>3 DEF Unbroken, Fulfils
    <3> QED
      BY <3>6, <3>7
  <2>3. Unbroken(n + 1, n + 1)' <=> Good(o)
    BY <2>1 DEF Unbroken, Good, Fulfils
  <2>4. \A k \in 1..((n + 1) - 1) : k \in 1..n
    OBVIOUS
  <2>5. \A i \in 1..(n + 1) :
          Unbroken(i, n + 1)' <=> Good(o) /\ (i < n + 1 => Unbroken(i, n) /\ Linked(judged[n], o))
    BY <2>2, <2>3
  <2> QED
    BY <1>1, <2>1, <2>4, <2>5
<1>3. CASE ~(o.still /\ Fulfils(o.who))
  <2>1. judged' \in Seq(Observations) /\ Len(judged') = 1 /\ judged'[1] = o
    BY <1>3 DEF Adds
  <2>2. ~Good(o)
    BY <1>3 DEF Good
  <2>3. ~Unbroken(1, 1)'
    BY <1>3, <2>1 DEF Unbroken, Fulfils
  <2> QED
    BY <2>1, <2>2, <2>3
<1> QED
  BY <1>2, <1>3

Resumes(o) == judged # <<>> /\ Good(LastOne) /\ Linked(LastOne, o)

\* What a rule must know after an observation.
RuleFits(r, o) ==
  IF Good(o)
    THEN /\ r.who = o.who /\ r.last = o.at
         /\ r.since = IF Resumes(o) THEN state.rule.since ELSE o.at
         /\ Resumes(o) => state.revision # Unset
    ELSE r.since = Unset

LEMMA Noticed ==
  ASSUME WatchInv, WatchTypeOK', epoch' + revision' <= upsets', UNCHANGED <<kind, schedule, revision, instant, latest, epoch>>,
         NEW o \in Observations, latest.at # Unset, latest.at > LookedAt.last,
         o.at = latest.at, o.epoch = epoch, o.revision = revision,
         Adds(o), sight'.last = latest.at, sight'.epoch = epoch,
         \/ /\ state'.revision = revision /\ RuleFits(state'.rule, o)
            /\ o.judgement = "alert" <=> /\ state'.rule.since # Unset
                                         /\ o.at - state'.rule.since >= Lasting
         \/ state'.revision = Unset /\ ~o.still /\ o.judgement # "alert"
  PROVE  WatchInv'
<1>1. /\ instant \in Nat /\ latest.at \in 0..instant /\ epoch \in Nat /\ revision \in Nat
      /\ judged \in Seq(Observations) /\ sight.last \in Unset..instant
  <2>1. WatchTypeOK /\ judged \in Seq(Observations)
    BY DEF WatchInv
  <2> QED
    BY <2>1, WatchingAssumption DEF WatchTypeOK, Unset
<1> PICK moment \in Nat : moment = latest.at
  BY <1>1
<1>2. PICK n \in Nat \ {0} : n = Len(judged')
  BY <1>1, Extended
<1>3. /\ judged' \in Seq(Observations) /\ judged'[n] = o
      /\ \A k \in 1..(n - 1) : k \in 1..Len(judged) /\ judged'[k] = judged[k]
      /\ Good(o) => n = Len(judged) + 1
      /\ \A i \in 1..n :
           Unbroken(i, n)' <=>
             Good(o) /\ (i < n => Unbroken(i, Len(judged)) /\ Linked(judged[Len(judged)], o))
  BY <1>1, <1>2, Extended
<1>4. \A k \in 1..Len(judged) : judged[k] \in Observations /\ judged[k].at <= sight.last
  <2>1. \A k \in 1..Len(judged) : judged[k] \in Observations /\ judged # <<>>
    BY <1>1
  <2> QED
    BY <2>1 DEF WatchInv, SightFits
<1>5. sight.last <= latest.at
  BY DEF WatchInv, SightFits
<1>6. judged' # <<>> /\ LastOne' = o
  BY <1>2, <1>3 DEF LastOne
<1>7. ~o.still => ~Good(o)
  BY DEF Good
<1>8. \A p \in Observations : Good(p)' <=> Good(p)
  BY DEF Good, Fulfils
<1>9. \A i \in 1..n : judged'[i].at \in Nat /\ judged'[i].at <= latest.at
  <2>1. SUFFICES ASSUME NEW i \in 1..n PROVE judged'[i].at \in Nat /\ judged'[i].at <= latest.at
    OBVIOUS
  <2>2. CASE i = n
    <3>1. judged'[i].at = latest.at
      BY <1>3, <2>2
    <3> QED
      BY <3>1
  <2>3. CASE i < n
    <3>1. i \in 1..Len(judged) /\ judged'[i] = judged[i]
      BY <1>3, <2>3
    <3>2. judged[i].at \in Nat /\ judged[i].at <= sight.last
      BY <1>4, <3>1 DEF Observations
    <3>3. sight.last \in Int
      BY <1>1 DEF Unset
    <3> QED
      BY <1>1, <1>5, <3>1, <3>2, <3>3
  <2> QED
    BY <2>2, <2>3
<1>10. SightFits'
  BY <1>1, <1>2, <1>6, <1>9 DEF SightFits
<1>11. ASSUME state'.revision = revision, RuleFits(state'.rule, o)
       PROVE  SinceFits'
  <2>1. PICK r : r = state'.rule
    OBVIOUS
  <2>2. RuleFits(r, o)
    BY <1>11, <2>1
  <2>3. CASE ~Good(o)
    BY <1>6, <1>8, <2>1, <2>2, <2>3 DEF SinceFits, RuleFits
  <2>4. CASE Good(o) /\ ~Resumes(o)
    <3>1. r.who = o.who /\ r.last = o.at /\ r.since = o.at
      BY <2>2, <2>4 DEF RuleFits
    <3>2. \A i \in 1..n : Unbroken(i, n)' <=> i = n
      <4>1. ASSUME NEW i \in 1..n, i < n, Unbroken(i, n)' PROVE FALSE
        <5>1. Unbroken(i, Len(judged)) /\ Linked(LastOne, o) /\ i \in 1..Len(judged)
          BY <1>3, <4>1 DEF LastOne
        <5>2. Good(LastOne) /\ judged # <<>>
          BY <1>1, <5>1 DEF Unbroken, Good, LastOne
        <5> QED
          BY <2>4, <5>1, <5>2 DEF Resumes
      <4>2. Unbroken(n, n)'
        BY <1>3, <2>4
      <4> QED
        BY <4>1, <4>2
    <3>3. n \in 1..n /\ o.at <= o.at
      BY <1>1
    <3> QED
      BY <1>2, <1>3, <1>6, <1>8, <2>1, <2>4, <3>1, <3>2, <3>3 DEF SinceFits
  <2>5. CASE Good(o) /\ Resumes(o)
    <3>1. /\ r.who = o.who /\ r.last = o.at /\ r.since = state.rule.since
          /\ state.revision # Unset
      BY <2>2, <2>5 DEF RuleFits
    <3>2. SinceFits /\ Good(LastOne) /\ Linked(LastOne, o)
      BY <2>5, <3>1 DEF WatchInv, Resumes
    <3>3. PICK i0 \in 1..Len(judged) :
            Unbroken(i0, Len(judged)) /\ judged[i0].at = state.rule.since
      BY <3>2 DEF SinceFits
    <3>4. \A i \in 1..Len(judged) : Unbroken(i, Len(judged)) => state.rule.since <= judged[i].at
      BY <3>2 DEF SinceFits
    <3>5. n = Len(judged) + 1 /\ i0 \in 1..(n - 1) /\ i0 < n /\ i0 \in 1..n
      BY <1>3, <2>5
    <3>6. Unbroken(i0, n)' /\ judged'[i0].at = r.since
      BY <1>3, <2>5, <3>1, <3>2, <3>3, <3>5 DEF LastOne
    <3>7. ASSUME NEW i \in 1..n, Unbroken(i, n)' PROVE r.since <= judged'[i].at
      <4>1. CASE i = n
        <5>1. judged'[n].at = latest.at
          BY <1>3
        <5>2. judged'[i0].at <= latest.at
          BY <1>9, <3>5
        <5>3. judged'[i].at = judged'[n].at
          BY <4>1
        <5> QED
          BY <3>6, <5>1, <5>2, <5>3
      <4>2. CASE i < n
        <5>1. Unbroken(i, Len(judged)) /\ i \in 1..Len(judged) /\ judged'[i] = judged[i]
          BY <1>3, <3>5, <3>7, <4>2
        <5> QED
          BY <3>1, <3>4, <5>1
      <4> QED
        BY <4>1, <4>2
    <3> QED
      BY <1>2, <1>3, <1>6, <1>8, <2>1, <2>5, <3>1, <3>5, <3>6, <3>7 DEF SinceFits
  <2> QED
    BY <2>3, <2>4, <2>5
<1>12. o.judgement = "alert" <=> \E i \in 1..n : Unbroken(i, n)' /\ o.at - judged'[i].at >= Lasting
  <2>1. CASE ~Good(o)
    <3>1. \A i \in 1..n : ~Unbroken(i, n)'
      BY <1>3, <2>1
    <3>2. o.judgement # "alert"
      BY <2>1 DEF RuleFits
    <3> QED
      BY <3>1, <3>2
  <2>2. CASE Good(o)
    <3>1. state'.revision = revision /\ RuleFits(state'.rule, o)
      BY <1>7, <2>2
    <3>2. PICK s : s = state'.rule.since
      OBVIOUS
    <3>3. /\ \E i \in 1..n : Unbroken(i, n)' /\ judged'[i].at = s
          /\ \A i \in 1..n : Unbroken(i, n)' => s <= judged'[i].at
      BY <1>2, <1>6, <1>8, <1>11, <2>2, <3>1, <3>2 DEF SinceFits
    <3>4. s \in Nat /\ s # Unset
      <4>1. PICK i \in 1..n : judged'[i].at = s
        BY <3>3
      <4> QED
        BY <1>9, <4>1 DEF Unset
    <3>5. o.judgement = "alert" <=> o.at - s >= Lasting
      BY <1>7, <2>2, <3>2, <3>4
    <3>6. Lasting \in Nat /\ o.at \in Nat
      BY <1>1, WatchingAssumption
    <3>7. ASSUME o.at - s >= Lasting
          PROVE  \E i \in 1..n : Unbroken(i, n)' /\ o.at - judged'[i].at >= Lasting
      <4>1. PICK i \in 1..n : Unbroken(i, n)' /\ judged'[i].at = s
        BY <3>3
      <4>2. o.at - judged'[i].at >= Lasting
        BY <3>7, <4>1
      <4> QED
        BY <4>1, <4>2
    <3>8. ASSUME NEW i \in 1..n, Unbroken(i, n)', o.at - judged'[i].at >= Lasting
          PROVE  o.at - s >= Lasting
      <4>1. s <= judged'[i].at /\ judged'[i].at \in Nat
        BY <1>9, <3>3, <3>8
      <4> QED
        BY <3>4, <3>6, <3>8, <4>1
    <3> QED
      BY <3>5, <3>7, <3>8
  <2> QED
    BY <2>1, <2>2
<1>13. AlertsAreEarned'
  <2>1. ASSUME NEW j \in 1..n
        PROVE  judged'[j].judgement = "alert" <=>
                 \E i \in 1..j : Unbroken(i, j)' /\ judged'[j].at - judged'[i].at >= Lasting
    <3>1. CASE j = n
      BY <1>3, <1>12, <3>1
    <3>2. CASE j < n
      <4>1. PICK l \in Nat : l = n - 1
        OBVIOUS
      <4>2. j \in 1..l /\ l <= Len(judged) /\ j \in 1..Len(judged)
            /\ \A k \in 1..l : judged'[k] = judged[k]
        BY <1>1, <1>3, <3>2, <4>1
      <4>3. \A i \in 1..j : Unbroken(i, j)' <=> Unbroken(i, j)
        BY <4>1, <4>2, UnbrokenStays
      <4>4. \A i \in 1..j : i \in 1..l
        BY <4>2
      <4>5. judged[j].judgement = "alert" <=>
              \E i \in 1..j : Unbroken(i, j) /\ judged[j].at - judged[i].at >= Lasting
        BY <4>2 DEF WatchInv, AlertsAreEarned
      <4>6. \A i \in 1..j : judged'[i] = judged[i]
        BY <4>2, <4>4
      <4>7. judged'[j] = judged[j]
        BY <4>2
      <4>8. (\E i \in 1..j : Unbroken(i, j)' /\ judged'[j].at - judged'[i].at >= Lasting) <=>
              \E i \in 1..j : Unbroken(i, j) /\ judged[j].at - judged[i].at >= Lasting
        BY <4>3, <4>6, <4>7
      <4> QED
        BY <4>5, <4>7, <4>8
    <3> QED
      BY <3>1, <3>2
  <2> QED
    BY <1>2, <2>1 DEF AlertsAreEarned
<1>14. DroppedLate'
  <2>1. state'.revision = Unset => ~Good(o)
    BY <1>1, <1>7 DEF Unset
  <2> QED
    BY <1>6, <1>8, <2>1 DEF DroppedLate
<1>15. state'.revision # Unset =>
         judged' # <<>> /\ LastOne'.revision = state'.revision /\ SinceFits'
  BY <1>6, <1>11
<1> QED
  BY <1>3, <1>10, <1>13, <1>14, <1>15 DEF WatchInv

LEMMA WatchTyped ==
  ASSUME WatchTypeOK
  PROVE  /\ instant \in Nat /\ epoch \in Nat /\ revision \in Nat /\ upsets \in Nat
         /\ latest.at \in -1..instant /\ latest.image \in {"still", "moved", "dark"}
         /\ latest.who \in Visitors \cup {NoPerson}
         /\ sight.epoch \in -1..epoch /\ sight.last \in -1..instant /\ sight.stable \in -1..instant
         /\ state.revision \in -1..revision /\ state.rule.last \in -1..instant
         /\ state.rule.since \in -1..instant /\ state.rule.who \in Visitors \cup {NoPerson}
         /\ Gap \in Nat /\ Steady \in Nat /\ Lasting \in Nat
<1>1. latest \in [at : -1..instant, image : {"still", "moved", "dark"},
                  who : Visitors \cup {NoPerson}]
  BY DEF WatchTypeOK, Unset
<1>2. sight \in [epoch : -1..epoch, last : -1..instant, stable : -1..instant]
  BY DEF WatchTypeOK, Unset
<1>3. PICK R : R = [last : -1..instant, since : -1..instant, who : Visitors \cup {NoPerson}]
  OBVIOUS
<1>4. state \in [revision : -1..revision, rule : R]
  BY <1>3 DEF WatchTypeOK, Unset
<1>5. state.revision \in -1..revision /\ state.rule \in R
  BY <1>4
<1>6. /\ state.rule.last \in -1..instant /\ state.rule.since \in -1..instant
      /\ state.rule.who \in Visitors \cup {NoPerson}
  BY <1>3, <1>5
<1>7. instant \in Nat /\ epoch \in Nat /\ revision \in Nat /\ upsets \in Nat
  BY WatchingAssumption DEF WatchTypeOK
<1> QED
  BY <1>1, <1>2, <1>5, <1>6, <1>7, WatchingAssumption

\* The view a frame is judged in.
LEMMA ViewIs ==
  ASSUME WatchTypeOK, NEW view, view = LookedAt
  PROVE  /\ view = [epoch |-> view.epoch, last |-> view.last, stable |-> view.stable]
         /\ view.epoch = epoch /\ view.last \in -1..instant /\ view.stable \in -1..instant
         /\ \/ sight.epoch = epoch /\ latest.at - sight.last <= Gap /\ view = sight
            \/ (sight.epoch # epoch \/ latest.at - sight.last > Gap) /\ view.last = Unset
<1>1. /\ latest.at \in Int /\ sight.last \in Int /\ Gap \in Int /\ instant \in Nat
      /\ sight.last \in -1..instant /\ sight.stable \in -1..instant
  BY WatchTyped
<1>2. sight = [epoch |-> sight.epoch, last |-> sight.last, stable |-> sight.stable]
  BY DEF WatchTypeOK
<1>3. PICK fresh : fresh = [NoSight EXCEPT !.epoch = epoch]
  OBVIOUS
<1>4. fresh = [epoch |-> epoch, last |-> -1, stable |-> -1]
  BY <1>3 DEF NoSight, Unset
<1>5. /\ fresh.epoch = epoch /\ fresh.last = -1 /\ fresh.stable = -1
      /\ fresh = [epoch |-> fresh.epoch, last |-> fresh.last, stable |-> fresh.stable]
  BY <1>4
<1>6. CASE sight.epoch # epoch \/ latest.at - sight.last > Gap
  <2>1. view = fresh
    BY <1>3, <1>6 DEF LookedAt
  <2> QED
    BY <1>1, <1>5, <1>6, <2>1 DEF Unset
<1>7. CASE ~(sight.epoch # epoch \/ latest.at - sight.last > Gap)
  <2>1. view = sight
    BY <1>7 DEF LookedAt
  <2> QED
    BY <1>1, <1>2, <1>7, <2>1
<1> QED
  BY <1>6, <1>7

\* Where the sight and what is noted go, whatever is made of the frame.
LEMMA FrameIsSeen ==
  ASSUME WatchInv, IsFresh, latest.at > LookedAt.last, NEW view, view = LookedAt,
         sight' = [view EXCEPT !.last = latest.at, !.stable = StableSince(view)],
         NEW still \in BOOLEAN, NEW judgement \in Judgements, Noted(still, judgement)
  PROVE  /\ sight' \in [epoch : Unset..epoch, last : Unset..instant, stable : Unset..instant]
         /\ sight'.last = latest.at /\ sight'.epoch = epoch
         /\ \E o \in Observations :
              /\ o.at = latest.at /\ o.epoch = epoch /\ o.revision = revision
              /\ o.who = latest.who /\ o.still = still /\ o.judgement = judgement /\ Adds(o)
<1>1. WatchTypeOK /\ latest.at # Unset
  BY DEF WatchInv, IsFresh
<1>2. /\ instant \in Nat /\ latest.at \in 0..instant /\ epoch \in Nat /\ revision \in Nat
      /\ latest.who \in Visitors \cup {NoPerson}
  BY <1>1, WatchTyped DEF Unset
<1>3. PICK stable : stable = StableSince(view)
  OBVIOUS
<1>4. stable \in -1..instant
  BY <1>1, <1>2, <1>3, ViewIs DEF StableSince, Unset
<1>5. view = [epoch |-> view.epoch, last |-> view.last, stable |-> view.stable]
      /\ view.epoch = epoch
  BY <1>1, ViewIs
<1>6. sight' = [epoch |-> epoch, last |-> latest.at, stable |-> stable]
  BY <1>3, <1>5
<1>7. /\ sight' \in [epoch : Unset..epoch, last : Unset..instant, stable : Unset..instant]
      /\ sight'.last = latest.at /\ sight'.epoch = epoch
  <2>1. PICK s : s = [epoch |-> epoch, last |-> latest.at, stable |-> stable]
    OBVIOUS
  <2>2. s \in [epoch : -1..epoch, last : -1..instant, stable : -1..instant]
    BY <1>2, <1>4, <2>1
  <2>3. s.last = latest.at /\ s.epoch = epoch
    BY <2>1
  <2> QED
    BY <1>6, <2>1, <2>2, <2>3 DEF Unset
<1>8. PICK o : o = [at |-> latest.at, epoch |-> epoch, revision |-> revision, who |-> latest.who,
                    still |-> still, judgement |-> judgement]
  OBVIOUS
<1>9. /\ o \in Observations
      /\ o.at = latest.at /\ o.epoch = epoch /\ o.revision = revision
      /\ o.who = latest.who /\ o.still = still /\ o.judgement = judgement
  BY <1>2, <1>8 DEF Observations
<1>10. Adds(o)
  BY <1>8, <1>9 DEF Noted, Adds
<1> QED
  BY <1>7, <1>9, <1>10

\* No observation of another kind is ever noted.
LEMMA Judgeable ==
  ASSUME judged \in Seq(Observations)
  PROVE  \A i \in 1..Len(judged) : judged[i].judgement \in Judgements
<1>1. \A i \in 1..Len(judged) : judged[i] \in Observations
  OBVIOUS
<1> QED
  BY <1>1 DEF Observations

LEMMA JudgesKeeps ==
  ASSUME WatchInv, Judges PROVE WatchInv'
<1>1. /\ WatchTypeOK /\ judged \in Seq(Observations) /\ latest.at # Unset
      /\ IsFresh /\ latest.at > LookedAt.last
      /\ UNCHANGED <<kind, schedule, revision, instant, latest, epoch, upsets>>
  BY DEF WatchInv, Judges, IsFresh
<1>2. /\ instant \in Nat /\ latest.at \in 0..instant /\ epoch \in Nat /\ revision \in Nat
      /\ latest.who \in Visitors \cup {NoPerson} /\ Gap \in Nat /\ Lasting \in Nat
      /\ state.rule.since \in -1..instant /\ sight.last \in -1..instant
      /\ state.rule.last \in -1..instant
  BY <1>1, WatchTyped DEF Unset
<1>3. PICK view : view = LookedAt
  OBVIOUS
<1>4. /\ view.last \in -1..instant
      /\ \/ sight.epoch = epoch /\ latest.at - sight.last <= Gap /\ view = sight
         \/ (sight.epoch # epoch \/ latest.at - sight.last > Gap) /\ view.last = Unset
  BY <1>1, <1>3, ViewIs
<1>5. PICK old : old = IF view.last = Unset \/ state.revision # revision THEN Forgotten
                       ELSE state.rule
  OBVIOUS
<1>6. PICK still \in BOOLEAN : still = Still(view)
  BY DEF Still
<1>7. PICK fit \in BOOLEAN : fit = (Still(view) /\ Active(schedule, latest.at))
  OBVIOUS
<1>8. PICK cleared : cleared = Continued(old, fit)
  OBVIOUS
<1>9. PICK rule : rule = IF fit THEN Evaluated(cleared) ELSE cleared
  OBVIOUS
<1>10. PICK judgement : judgement = Judgement(rule, fit)
  OBVIOUS
<1>11. /\ sight' = [view EXCEPT !.last = latest.at, !.stable = StableSince(view)]
       /\ state' = [revision |-> revision, rule |-> rule] /\ Noted(still, judgement)
  BY <1>3, <1>5, <1>6, <1>7, <1>8, <1>9, <1>10 DEF Judges
<1>12. judgement \in Judgements
  BY <1>10 DEF Judgement, Judgements
<1>13. /\ sight' \in [epoch : Unset..epoch, last : Unset..instant, stable : Unset..instant]
       /\ sight'.last = latest.at /\ sight'.epoch = epoch
       /\ \E o \in Observations :
            /\ o.at = latest.at /\ o.epoch = epoch /\ o.revision = revision
            /\ o.who = latest.who /\ o.still = still /\ o.judgement = judgement /\ Adds(o)
  BY <1>1, <1>3, <1>11, <1>12, FrameIsSeen
<1>14. PICK o \in Observations :
         /\ o.at = latest.at /\ o.epoch = epoch /\ o.revision = revision
         /\ o.who = latest.who /\ o.still = still /\ o.judgement = judgement /\ Adds(o)
  BY <1>13
<1>15. Good(o) <=> fit /\ Fulfils(latest.who)
  <2>1. PICK t \in Nat : t = latest.at
    BY <1>2
  <2>2. schedule \in Schedules
    BY <1>1 DEF WatchTypeOK
  <2>3. Active(schedule, t) <=> WithinHours(schedule, t)
    BY <2>1, <2>2, HoursAgree
  <2>4. Good(o) <=> Still(view) /\ WithinHours(schedule, t) /\ Fulfils(latest.who)
    BY <1>6, <1>14, <2>1 DEF Good
  <2> QED
    BY <1>7, <2>1, <2>3, <2>4
<1>16. /\ cleared = Forgotten \/ (fit /\ cleared = old)
       /\ old.last # Unset /\ latest.at - old.last > Gap => cleared = Forgotten
       /\ fit /\ ~(old.last # Unset /\ latest.at - old.last > Gap) => cleared = old
       /\ ~fit => cleared = Forgotten
  BY <1>8 DEF Continued
<1>17. old = Forgotten \/ old = state.rule
  BY <1>5
<1>18. Forgotten.last = -1 /\ Forgotten.since = -1 /\ Forgotten.who = NoPerson
  BY DEF Forgotten, Unset
<1>19. fit => rule.last = latest.at /\ rule.since = Begun(cleared) /\ rule.who = latest.who
  BY <1>9 DEF Evaluated
<1>20. RuleFits(rule, o)
  <2>1. CASE ~Good(o)
    <3>1. CASE ~fit
      BY <1>9, <1>16, <1>18, <2>1, <3>1 DEF RuleFits, Unset
    <3>2. CASE fit
      <4>1. ~Fulfils(latest.who)
        BY <1>15, <2>1, <3>2
      <4> QED
        BY <1>19, <2>1, <3>2, <4>1 DEF RuleFits, Begun
    <3> QED
      BY <3>1, <3>2
  <2>2. CASE Good(o) /\ Resumes(o)
    <3>1. /\ fit /\ judged # <<>> /\ Good(LastOne) /\ Linked(LastOne, o)
          /\ Fulfils(latest.who)
      BY <1>15, <2>2 DEF Resumes
    <3>2. sight.last = LastOne.at /\ sight.epoch = LastOne.epoch
      BY <3>1 DEF WatchInv, SightFits
    <3>3. LastOne.epoch = epoch /\ LastOne.revision = revision /\ latest.at - sight.last <= Gap
          /\ (kind = "dwell" => latest.who = LastOne.who)
      BY <1>14, <3>1, <3>2 DEF Linked
    <3>4. view = sight
      BY <1>2, <1>4, <3>2, <3>3
    <3>5. state.revision # Unset
      BY <1>1, <1>2, <3>1, <3>2, <3>3 DEF WatchInv, DroppedLate
    <3>6. /\ state.revision = revision
          /\ state.rule.who = LastOne.who /\ state.rule.last = LastOne.at
          /\ \E i \in 1..Len(judged) : judged[i].at = state.rule.since
      BY <3>1, <3>3, <3>5 DEF WatchInv, SinceFits
    <3>7. state.rule.since # Unset /\ sight.last # Unset
      <4>1. PICK i \in 1..Len(judged) : judged[i].at = state.rule.since
        BY <3>6
      <4>2. judged[i] \in Observations /\ LastOne \in Observations
        BY <1>1, <3>1, <4>1 DEF LastOne
      <4>3. judged[i].at \in Nat /\ LastOne.at \in Nat
        BY <4>2 DEF Observations
      <4> QED
        BY <3>2, <4>1, <4>3 DEF Unset
    <3>8. old = state.rule
      BY <1>5, <3>4, <3>6, <3>7
    <3>9. cleared = old
      BY <1>2, <1>16, <3>1, <3>2, <3>3, <3>6, <3>8
    <3>10. Begun(cleared) = state.rule.since
      BY <3>1, <3>3, <3>6, <3>7, <3>8, <3>9 DEF Begun
    <3> QED
      BY <1>14, <1>19, <2>2, <3>1, <3>5, <3>10 DEF RuleFits
  <2>3. CASE Good(o) /\ ~Resumes(o)
    <3>1. fit /\ Fulfils(latest.who)
      BY <1>15, <2>3
    <3>2. \/ cleared.since = Unset
          \/ kind = "dwell" /\ cleared.who # latest.who
      <4>1. CASE old = Forgotten
        BY <1>16, <1>18, <4>1 DEF Unset
      <4>2. CASE old # Forgotten
        <5>1. /\ view.last # Unset /\ state.revision = revision /\ old = state.rule
              /\ state.revision # Unset
          BY <1>2, <1>5, <4>2 DEF Unset
        <5>2. sight.epoch = epoch /\ latest.at - sight.last <= Gap
          BY <1>4, <5>1
        <5>3. judged # <<>> /\ LastOne.revision = revision /\ SinceFits
          BY <5>1 DEF WatchInv
        <5>4. sight.last = LastOne.at /\ sight.epoch = LastOne.epoch
          BY <5>3 DEF WatchInv, SightFits
        <5>5. CASE ~Good(LastOne)
          <6>1. old.since = Unset
            BY <5>1, <5>3, <5>5 DEF SinceFits
          <6> QED
            BY <1>16, <1>18, <6>1 DEF Unset
        <5>6. CASE Good(LastOne)
          <6>1. ~Linked(LastOne, o)
            BY <2>3, <5>3, <5>6 DEF Resumes
          <6>2. kind = "dwell" /\ latest.who # LastOne.who
            BY <1>14, <5>2, <5>3, <5>4, <6>1 DEF Linked
          <6>3. old.who = LastOne.who
            BY <5>1, <5>3, <5>6 DEF SinceFits
          <6> QED
            BY <1>16, <1>18, <6>2, <6>3 DEF Unset
        <5> QED
          BY <5>5, <5>6
      <4> QED
        BY <4>1, <4>2
    <3>3. Begun(cleared) = latest.at
      BY <3>1, <3>2 DEF Begun
    <3> QED
      BY <1>14, <1>19, <2>3, <3>1, <3>3 DEF RuleFits
  <2> QED
    BY <2>1, <2>2, <2>3
<1>21. o.judgement = "alert" <=> rule.since # Unset /\ o.at - rule.since >= Lasting
  <2>1. ~fit => rule.since = Unset
    BY <1>9, <1>16, <1>18 DEF Unset
  <2>2. o.judgement = Judgement(rule, fit)
    BY <1>10, <1>14
  <2> QED
    BY <1>14, <2>1, <2>2 DEF Judgement
<1>22. rule \in [last : Unset..instant, since : Unset..instant, who : Visitors \cup {NoPerson}]
  <2>1. PICK R : R = [last : -1..instant, since : -1..instant, who : Visitors \cup {NoPerson}]
    OBVIOUS
  <2>2. Forgotten \in R
    BY <1>2, <2>1 DEF Forgotten, Unset
  <2>3. state.rule \in R
    BY <1>1, <2>1 DEF WatchTypeOK, Unset
  <2>4. cleared \in R
    BY <1>16, <1>17, <2>2, <2>3
  <2>5. Begun(cleared) \in -1..instant
    BY <1>2, <2>1, <2>4 DEF Begun, Unset
  <2>6. Evaluated(cleared) \in R
    BY <1>2, <2>1, <2>5 DEF Evaluated
  <2> QED
    BY <1>9, <2>1, <2>4, <2>6 DEF Unset
<1>23. PICK after : after = state'
  OBVIOUS
<1>24. after = [revision |-> revision, rule |-> rule]
  BY <1>11, <1>23
<1>25. after.revision = revision /\ after.rule = rule
  BY <1>24
<1>26. WatchTypeOK' /\ epoch' + revision' <= upsets'
  <2>1. judged' \in Seq(Observations)
    BY <1>1, <1>14, Extended
  <2>2. PICK J : J = judged'
    OBVIOUS
  <2>3. \A i \in 1..Len(J) : J[i].judgement \in Judgements
    <3>1. \A i \in 1..Len(J) : J[i] \in Observations
      BY <2>1, <2>2
    <3> QED
      BY <3>1 DEF Observations
  <2>4. PICK R : R = [last : Unset..instant, since : Unset..instant, who : Visitors \cup {NoPerson}]
    OBVIOUS
  <2>5. revision \in Unset..revision
    BY <1>2 DEF Unset
  <2>6. after \in [revision : Unset..revision, rule : R]
    BY <1>22, <1>24, <2>4, <2>5
  <2> QED
    BY <1>1, <1>13, <1>23, <2>2, <2>3, <2>4, <2>6 DEF WatchTypeOK, WatchInv
<1> QED
  BY <1>1, <1>13, <1>14, <1>20, <1>21, <1>23, <1>25, <1>26, Noticed

LEMMA FailedKeeps ==
  ASSUME WatchInv, InferenceFails PROVE WatchInv'
<1>1. /\ WatchTypeOK /\ judged \in Seq(Observations) /\ latest.at # Unset
      /\ IsFresh /\ latest.at > LookedAt.last /\ state' = NoState
      /\ UNCHANGED <<kind, schedule, revision, instant, latest, epoch>>
  BY DEF WatchInv, InferenceFails, IsFresh
<1>2. /\ instant \in Nat /\ revision \in Nat /\ upsets' \in 0..MaxUpsets
      /\ epoch' + revision' <= upsets'
  <2>1. upsets \in 0..MaxUpsets /\ upsets < MaxUpsets /\ upsets' = upsets + 1
        /\ epoch + revision <= upsets
    BY <1>1 DEF WatchTypeOK, InferenceFails, Upset, WatchInv
  <2> QED
    BY <1>1, <2>1, WatchTyped, WatchingAssumption
<1>3. PICK view : view = LookedAt
  OBVIOUS
<1>4. /\ sight' = [view EXCEPT !.last = latest.at, !.stable = StableSince(view)]
      /\ Noted(FALSE, "failed")
  BY <1>3 DEF InferenceFails
<1>5. "failed" \in Judgements
  BY DEF Judgements
<1>6. /\ sight' \in [epoch : Unset..epoch, last : Unset..instant, stable : Unset..instant]
      /\ sight'.last = latest.at /\ sight'.epoch = epoch
      /\ \E o \in Observations :
           /\ o.at = latest.at /\ o.epoch = epoch /\ o.revision = revision
           /\ o.who = latest.who /\ o.still = FALSE /\ o.judgement = "failed" /\ Adds(o)
  BY <1>1, <1>3, <1>4, <1>5, FrameIsSeen
<1>7. PICK o \in Observations :
         /\ o.at = latest.at /\ o.epoch = epoch /\ o.revision = revision
         /\ o.who = latest.who /\ o.still = FALSE /\ o.judgement = "failed" /\ Adds(o)
  BY <1>6
<1>8. PICK after : after = state'
  OBVIOUS
<1>9. after = [revision |-> -1, rule |-> [last |-> -1, since |-> -1, who |-> NoPerson]]
  BY <1>1, <1>8 DEF NoState, Forgotten, Unset
<1>10. after.revision = Unset
  BY <1>9 DEF Unset
<1>11. WatchTypeOK'
  <2>1. judged' \in Seq(Observations)
    BY <1>1, <1>7, Extended
  <2>2. PICK J : J = judged'
    OBVIOUS
  <2>3. \A i \in 1..Len(J) : J[i].judgement \in Judgements
    <3>1. \A i \in 1..Len(J) : J[i] \in Observations
      BY <2>1, <2>2
    <3> QED
      BY <3>1 DEF Observations
  <2>4. PICK r : r = [last |-> -1, since |-> -1, who |-> NoPerson]
    OBVIOUS
  <2>5. PICK R : R = [last : Unset..instant, since : Unset..instant, who : Visitors \cup {NoPerson}]
    OBVIOUS
  <2>6. r \in R /\ -1 \in Unset..revision
    BY <1>2, <2>4, <2>5 DEF Unset
  <2>7. after \in [revision : Unset..revision, rule : R]
    BY <1>9, <2>4, <2>6
  <2> QED
    BY <1>1, <1>2, <1>6, <1>8, <2>2, <2>3, <2>5, <2>7 DEF WatchTypeOK
<1> QED
  BY <1>1, <1>2, <1>6, <1>7, <1>8, <1>10, <1>11, Noticed

\* What does not look at a frame leaves what was judged as it was.
LEMMA JudgedStays ==
  ASSUME WatchInv, WatchTypeOK', epoch' + revision' <= upsets', UNCHANGED <<kind, schedule, sight, judged>>,
         epoch' = epoch \/ epoch' = epoch + 1,
         (epoch' = epoch /\ latest.at # Unset) => latest'.at # Unset,
         latest'.at # Unset => sight.last <= latest'.at,
         state' = state \/ state' = NoState,
         state'.revision = Unset /\ sight.epoch = epoch' /\ judged # <<>> /\ Good(LastOne) =>
           instant' - sight.last > Gap /\ (IsFresh' => latest'.at - sight.last > Gap)
  PROVE  WatchInv'
<1>1. /\ epoch \in Nat /\ sight.epoch \in -1..epoch
  BY WatchTyped DEF WatchInv
<1>2. NoState.revision = Unset
  BY DEF NoState
<1>3. LastOne' = LastOne /\ \A o : Good(o)' <=> Good(o)
  BY DEF LastOne, Good, Fulfils
<1>4. judged \in Seq(Observations) /\ Len(judged) \in Nat
  BY DEF WatchInv
<1>5. \A j \in 1..Len(judged) : \A i \in 1..j : Unbroken(i, j)' <=> Unbroken(i, j)
  <2>1. PICK n \in Nat : n = Len(judged)
    BY <1>4
  <2>2. \A k \in 1..n : judged'[k] = judged[k]
    OBVIOUS
  <2>3. \A j \in 1..n : \A i \in 1..j : Unbroken(i, j)' <=> Unbroken(i, j)
    BY <2>2, UnbrokenStays
  <2> QED
    BY <2>1, <2>3
<1>6. AlertsAreEarned'
  BY <1>5 DEF WatchInv, AlertsAreEarned
<1>7. SightFits'
  <2>1. sight.epoch = epoch' => latest'.at # Unset
    BY <1>1 DEF WatchInv, SightFits
  <2> QED
    BY <1>3, <2>1 DEF WatchInv, SightFits
<1>8. DroppedLate'
  BY <1>3 DEF DroppedLate
<1>9. state'.revision # Unset =>
        judged' # <<>> /\ LastOne'.revision = state'.revision /\ SinceFits'
  <2>1. SUFFICES ASSUME state'.revision # Unset
                 PROVE  judged' # <<>> /\ LastOne'.revision = state'.revision /\ SinceFits'
    OBVIOUS
  <2>2. state' = state /\ judged # <<>> /\ LastOne.revision = state.revision /\ SinceFits
    BY <1>2, <2>1 DEF WatchInv
  <2>3. PICK n \in Nat \ {0} : n = Len(judged)
    BY <1>4, <2>2
  <2>4. \A i \in 1..n : Unbroken(i, n)' <=> Unbroken(i, n)
    BY <1>5, <2>3
  <2>5. SinceFits'
    BY <1>3, <2>2, <2>3, <2>4 DEF SinceFits
  <2> QED
    BY <1>3, <2>2, <2>5
<1> QED
  BY <1>4, <1>6, <1>7, <1>8, <1>9 DEF WatchInv

LEMMA WatchedOnKeeps ==
  ASSUME WatchInv,
         InstantPasses \/ Captures \/ Reconnects \/ Revised \/ FindsNoFrame \/ UNCHANGED watchVars
  PROVE  WatchInv'
<1>1. /\ WatchTypeOK /\ judged \in Seq(Observations)
      /\ upsets \in 0..MaxUpsets /\ instant \in 0..MaxInstant
      /\ revision \in 0..MaxUpsets /\ epoch \in 0..MaxUpsets /\ epoch + revision <= upsets
  BY DEF WatchInv, WatchTypeOK
<1>2. /\ instant \in Nat /\ epoch \in Nat /\ revision \in Nat /\ upsets \in Nat
      /\ latest.at \in -1..instant /\ sight.last \in -1..instant /\ sight.epoch \in -1..epoch
      /\ Gap \in Nat
  BY <1>1, WatchTyped
<1>3. /\ sight.epoch = epoch => latest.at # Unset
      /\ latest.at # Unset => sight.last <= latest.at
      /\ state.revision = Unset /\ sight.epoch = epoch /\ judged # <<>> /\ Good(LastOne) =>
           instant - sight.last > Gap /\ (IsFresh => latest.at - sight.last > Gap)
  BY DEF WatchInv, SightFits, DroppedLate
<1> DEFINE Sights(e, t) == [epoch : Unset..e, last : Unset..t, stable : Unset..t]
           Rules(t) == [last : Unset..t, since : Unset..t, who : Visitors \cup {NoPerson}]
           States(r, t) == [revision : Unset..r, rule : Rules(t)]
<1>4. /\ sight \in Sights(epoch, instant) /\ state \in States(revision, instant)
      /\ latest \in [at : Unset..instant, image : {"still", "moved", "dark"},
                      who : Visitors \cup {NoPerson}]
  BY <1>1 DEF WatchTypeOK
<1>5. \A a, b \in Nat : a <= b => Unset..a \subseteq Unset..b
  BY DEF Unset
<1>6. \A e, f, t, u \in Nat : e <= f /\ t <= u => Sights(e, t) \subseteq Sights(f, u)
  BY <1>5
<1>7. \A t, u \in Nat : t <= u => Rules(t) \subseteq Rules(u)
  BY <1>5
<1>8. \A q, r, t, u \in Nat : q <= r /\ t <= u => States(q, t) \subseteq States(r, u)
  <2> HIDE DEF Rules
  <2> QED
    BY <1>5, <1>7
<1>9. CASE InstantPasses
  <2>1. /\ instant' = instant + 1 /\ instant' \in 0..MaxInstant
        /\ UNCHANGED <<kind, schedule, revision, latest, epoch, sight, state, judged, upsets>>
    BY <1>1, <1>9, WatchingAssumption DEF InstantPasses
  <2>2. latest \in [at : Unset..instant', image : {"still", "moved", "dark"},
                    who : Visitors \cup {NoPerson}]
    BY <1>2, <1>4, <2>1 DEF Unset
  <2>3. sight \in Sights(epoch, instant') /\ state \in States(revision, instant')
    <3> HIDE DEF Sights, States
    <3> QED
      BY <1>2, <1>4, <1>6, <1>8, <2>1
  <2>4. WatchTypeOK'
    BY <1>1, <2>1, <2>2, <2>3 DEF WatchTypeOK
  <2>5. state'.revision = Unset /\ sight.epoch = epoch' /\ judged # <<>> /\ Good(LastOne) =>
           instant' - sight.last > Gap /\ (IsFresh' => latest'.at - sight.last > Gap)
    <3>1. IsFresh' => IsFresh
      BY <1>2, <2>1 DEF IsFresh
    <3> QED
      BY <1>2, <1>3, <2>1, <3>1
  <2> QED
    BY <1>1, <1>3, <2>1, <2>4, <2>5, JudgedStays
<1>10. CASE Captures
  <2>1. UNCHANGED <<kind, schedule, revision, instant, epoch, sight, state, judged, upsets>>
    BY <1>10 DEF Captures
  <2>2. PICK image \in {"still", "moved", "dark"}, who \in Visitors \cup {NoPerson} :
          latest' = [at |-> instant, image |-> image, who |-> who]
    BY <1>10 DEF Captures
  <2>3. /\ latest' \in [at : Unset..instant, image : {"still", "moved", "dark"},
                         who : Visitors \cup {NoPerson}]
        /\ latest'.at = instant
    BY <1>2, <2>2 DEF Unset
  <2>4. WatchTypeOK'
    BY <1>1, <2>1, <2>3 DEF WatchTypeOK
  <2>5. instant # Unset /\ sight.last <= instant
    BY <1>2 DEF Unset
  <2> QED
    BY <1>1, <1>3, <2>1, <2>3, <2>4, <2>5, JudgedStays
<1>11. CASE Reconnects
  <2>1. /\ UNCHANGED <<kind, schedule, revision, instant, sight, state, judged>>
        /\ latest' = NoFrame /\ epoch' = epoch + 1
    BY <1>11 DEF Reconnects
  <2>2. upsets' \in 0..MaxUpsets
    BY <1>1, <1>11, WatchingAssumption DEF Reconnects, Upset
  <2>3. NoFrame.at = Unset /\ NoFrame \in [at : Unset..instant, image : {"still", "moved", "dark"},
                                           who : Visitors \cup {NoPerson}]
    BY <1>2 DEF NoFrame, Unset
  <2>4. sight \in Sights(epoch', instant)
    <3> HIDE DEF Sights
    <3> QED
      BY <1>2, <1>4, <1>6, <2>1
  <2>5. epoch' \in 0..MaxUpsets /\ epoch' + revision' <= upsets'
    BY <1>1, <1>2, <1>11, <2>1, <2>2, WatchingAssumption DEF Reconnects, Upset
  <2>6. WatchTypeOK'
    BY <1>1, <2>1, <2>2, <2>3, <2>4, <2>5 DEF WatchTypeOK
  <2>7. sight.epoch # epoch' /\ epoch' # epoch
    BY <1>2, <2>1
  <2> QED
    BY <2>1, <2>3, <2>5, <2>6, <2>7, JudgedStays
<1>12. CASE Revised
  <2>1. /\ UNCHANGED <<kind, schedule, instant, latest, epoch, sight, state, judged>>
        /\ revision' = revision + 1
    BY <1>12 DEF Revised
  <2>2. /\ upsets' \in 0..MaxUpsets /\ revision' \in 0..MaxUpsets
        /\ epoch' + revision' <= upsets'
    BY <1>1, <1>2, <1>12, <2>1, WatchingAssumption DEF Revised, Upset
  <2>3. state \in States(revision', instant)
    <3> HIDE DEF States
    <3> QED
      BY <1>2, <1>4, <1>8, <2>1
  <2>4. WatchTypeOK'
    BY <1>1, <2>1, <2>2, <2>3 DEF WatchTypeOK
  <2>5. IsFresh' <=> IsFresh
    BY <2>1 DEF IsFresh
  <2> QED
    BY <1>3, <2>1, <2>2, <2>4, <2>5, JudgedStays
<1>13. CASE FindsNoFrame
  <2>1. /\ UNCHANGED <<kind, schedule, revision, instant, latest, epoch, sight, judged, upsets>>
        /\ state' = NoState /\ ~IsFresh
    BY <1>13 DEF FindsNoFrame
  <2>2. NoState \in States(revision, instant)
    <3>1. Forgotten \in Rules(instant)
      BY <1>2 DEF Forgotten, Unset
    <3>2. Unset \in Unset..revision
      BY <1>2 DEF Unset
    <3> HIDE DEF Rules
    <3> QED
      BY <3>1, <3>2 DEF NoState
  <2>3. WatchTypeOK'
    BY <1>1, <2>1, <2>2 DEF WatchTypeOK
  <2>4. ~IsFresh'
    BY <2>1 DEF IsFresh
  <2>5. sight.epoch = epoch => instant - sight.last > Gap
    BY <1>2, <1>3, <2>1 DEF IsFresh
  <2> QED
    BY <1>1, <1>3, <2>1, <2>3, <2>4, <2>5, JudgedStays
<1>14. CASE UNCHANGED watchVars
  <2>1. UNCHANGED <<kind, schedule, revision, instant, latest, epoch, sight, state, judged, upsets>>
    BY <1>14 DEF watchVars
  <2>2. WatchTypeOK'
    BY <1>1, <2>1 DEF WatchTypeOK
  <2>3. IsFresh' <=> IsFresh
    BY <2>1 DEF IsFresh
  <2> QED
    BY <1>1, <1>3, <2>1, <2>2, <2>3, JudgedStays
<1> QED
  BY <1>9, <1>10, <1>11, <1>12, <1>13, <1>14

LEMMA WatchStarts ==
  ASSUME WatchInit PROVE WatchInv
<1>1. /\ kind \in RuleKinds /\ schedule \in Schedules /\ revision = 0 /\ instant = 0
      /\ latest = NoFrame /\ epoch = 0 /\ sight = NoSight /\ state = NoState
      /\ judged = <<>> /\ upsets = 0
  BY DEF WatchInit
<1>2. 0 \in 0..MaxInstant /\ 0 \in 0..MaxUpsets /\ -1 \in -1..0
  BY WatchingAssumption
<1>3. NoFrame \in [at : -1..0, image : {"still", "moved", "dark"}, who : Visitors \cup {NoPerson}]
  BY <1>2 DEF NoFrame, Unset
<1>4. NoSight \in [epoch : -1..0, last : -1..0, stable : -1..0] /\ NoSight.epoch = -1
  BY <1>2 DEF NoSight, Unset
<1>5. NoState \in [revision : -1..0, rule : [last : -1..0, since : -1..0,
                                             who : Visitors \cup {NoPerson}]]
  <2>1. PICK R : R = [last : -1..0, since : -1..0, who : Visitors \cup {NoPerson}]
    OBVIOUS
  <2>2. Forgotten \in R
    BY <1>2, <2>1 DEF Forgotten, Unset
  <2>3. NoState \in [revision : -1..0, rule : R]
    BY <1>2, <2>2 DEF NoState, Unset
  <2> QED
    BY <2>1, <2>3
<1>6. WatchTypeOK
  BY <1>1, <1>2, <1>3, <1>4, <1>5 DEF WatchTypeOK, Unset
<1>7. SightFits
  BY <1>1, <1>4 DEF SightFits, NoFrame
<1>8. AlertsAreEarned /\ DroppedLate /\ judged \in Seq(Observations)
  BY <1>1 DEF AlertsAreEarned, DroppedLate
<1>9. state.revision = Unset
  BY <1>1 DEF NoState
<1> QED
  BY <1>1, <1>6, <1>7, <1>8, <1>9 DEF WatchInv

LEMMA WatchSteps ==
  ASSUME WatchInv, [WatchNext]_watchVars PROVE WatchInv'
BY WatchedOnKeeps, JudgesKeeps, FailedKeeps DEF WatchNext

\* Frames, views, rules and judgements keep their types (worker.py:172-232).
THEOREM WatchTypeCorrect == WatchSpec => []WatchTypeOK
<1>1. WatchInit => WatchInv
  BY WatchStarts
<1>2. WatchInv /\ [WatchNext]_watchVars => WatchInv'
  BY WatchSteps
<1>3. WatchInv => WatchTypeOK
  BY DEF WatchInv
<1> QED
  BY <1>1, <1>2, <1>3, PTL DEF WatchSpec

\* An observation is an alert if and only if its condition was seen for the whole
\* duration, within the hours, without a gap, another connection, another
\* revision or a view that moved (worker.py:172-232, rules.py).
THEOREM AlertsStayEarned == WatchSpec => []AlertsAreEarned
<1>1. WatchInit => WatchInv
  BY WatchStarts
<1>2. WatchInv /\ [WatchNext]_watchVars => WatchInv'
  BY WatchSteps
<1>3. WatchInv => AlertsAreEarned
  BY DEF WatchInv
<1> QED
  BY <1>1, <1>2, <1>3, PTL DEF WatchSpec

-----------------------------------------------------------------------------
(* Cadence: days and hours.                                                *)

ShiftType == shift.day \in 0..LastDay /\ shift.by \in -1..1

LEMMA Times ==
  ASSUME NEW a \in Nat, NEW b \in Nat, NEW d \in Nat
  PROVE  /\ a * d \in Nat /\ (a + b) * d = a * d + b * d /\ (a + 1) * d = a * d + d
         /\ (a >= 1 => a * d >= d) /\ (a <= b => a * d <= b * d)
<1>1. a * d \in Nat /\ (a + 1) * d = a * d + d /\ (a + b) * d = a * d + b * d
  OBVIOUS
<1>2. a >= 1 => a * d >= d
  OBVIOUS
<1>3. a <= b => a * d <= b * d
  OBVIOUS
<1> QED
  BY <1>1, <1>2, <1>3

\* A midnight is a number; a day is as long as others but for the one of the change.
LEMMA MidnightIs ==
  ASSUME ShiftType, NEW l \in BOOLEAN, NEW day \in Nat
  PROVE  /\ Midnight(l, day) \in Nat
         /\ Midnight(l, day) <= day * DayHours + 1
         /\ Midnight(l, day + 1) = Midnight(l, day) + DayHours
                                     + (IF l /\ day = shift.day THEN shift.by ELSE 0)
<1>1. PICK s \in 0..LastDay, by \in -1..1 : s = shift.day /\ by = shift.by
  BY DEF ShiftType
<1>2. DayHours \in Nat \ {0} /\ LastDay \in Nat
  BY CadenceAssumption
<1>3. PICK m \in Nat : m = day * DayHours /\ (day >= 1 => m >= DayHours)
  BY <1>2, Times
<1>4. (day + 1) * DayHours = m + DayHours
  BY <1>2, <1>3, Times
<1>5. /\ Midnight(l, day) = m + (IF l /\ day > s THEN by ELSE 0)
      /\ Midnight(l, day + 1) = m + DayHours + (IF l /\ day + 1 > s THEN by ELSE 0)
  BY <1>1, <1>3, <1>4 DEF Midnight
<1>6. Midnight(l, day) \in Nat
  BY <1>1, <1>2, <1>3, <1>5
<1> QED
  BY <1>1, <1>2, <1>3, <1>5, <1>6

LEMMA NextMidnight ==
  ASSUME ShiftType, NEW l \in BOOLEAN, NEW day \in Nat
  PROVE  Midnight(l, day + 1) \in Nat
<1>1. PICK e \in Nat : e = day + 1
  OBVIOUS
<1> QED
  BY <1>1, MidnightIs

LEMMA MidnightsAscend ==
  ASSUME ShiftType, NEW l \in BOOLEAN, NEW day \in Nat, NEW e \in Nat, day <= e
  PROVE  Midnight(l, day) <= Midnight(l, e)
<1>1. PICK s \in 0..LastDay, by \in -1..1 : s = shift.day /\ by = shift.by
  BY DEF ShiftType
<1>2. DayHours \in Nat \ {0} /\ LastDay \in Nat
  BY CadenceAssumption
<1>3. PICK m \in Nat, n \in Nat : m = day * DayHours /\ n = e * DayHours
  BY <1>2, Times
<1>4. day < e => m + DayHours <= n
  <2>1. day < e => (day + 1) * DayHours <= e * DayHours
    BY <1>2, Times
  <2> QED
    BY <2>1, <1>2, <1>3, Times
<1>5. /\ Midnight(l, day) = m + (IF l /\ day > s THEN by ELSE 0)
      /\ Midnight(l, e) = n + (IF l /\ e > s THEN by ELSE 0)
  BY <1>1, <1>3 DEF Midnight
<1>6. CASE day = e
  BY <1>3, <1>5, <1>6, <1>1
<1>7. CASE day < e
  BY <1>1, <1>2, <1>3, <1>4, <1>5, <1>7
<1> QED
  BY <1>6, <1>7

\* The date of a moment: it is between the midnights of its day.
LEMMA DateIs ==
  ASSUME ShiftType, NEW l \in BOOLEAN, NEW k \in 0..WeekDays,
         NEW t \in 0..((LastDay + k) * DayHours)
  PROVE  /\ DateOf(l, t) \in 0..(LastDay + k + 1)
         /\ Midnight(l, DateOf(l, t)) <= t /\ t < Midnight(l, DateOf(l, t) + 1)
<1> DEFINE In(day) == Midnight(l, day) <= t /\ t < Midnight(l, day + 1)
<1>1. PICK s \in 0..LastDay, by \in -1..1 : s = shift.day /\ by = shift.by
  BY DEF ShiftType
<1>2. DayHours \in Nat \ {0} /\ LastDay \in Nat /\ WeekDays \in Nat
  BY CadenceAssumption
<1>3. t \in Nat
  BY <1>2, Times
<1>4. PICK q \in Int, r \in 0..(DayHours - 1) : t = DayHours * q + r
  <2>1. PICK q \in Int : q = t \div DayHours
    BY <1>2, <1>3, Divided
  <2>2. PICK r \in 0..(DayHours - 1) : r = t % DayHours
    BY <1>2, <1>3, Divided
  <2>3. t = DayHours * q + r
    BY <1>2, <1>3, <2>1, <2>2, Divided
  <2> QED
    BY <2>3
<1>5. q \in Nat
  <2>1. ASSUME q <= -1 PROVE FALSE
    <3>1. DayHours * q <= -DayHours
      BY <1>2, <2>1
    <3> QED
      BY <1>2, <1>3, <1>4, <3>1
  <2> QED
    BY <2>1
<1>6. q <= LastDay + k
  <2>1. ASSUME q >= LastDay + k + 1 PROVE FALSE
    <3>1. (LastDay + k + 1) * DayHours <= q * DayHours
      BY <1>2, <1>5, <2>1, Times
    <3>2. (LastDay + k + 1) * DayHours = (LastDay + k) * DayHours + DayHours
      BY <1>2, Times
    <3>3. q * DayHours = DayHours * q /\ (LastDay + k) * DayHours \in Nat
      BY <1>2, <1>5, Times
    <3> QED
      BY <1>2, <1>4, <3>1, <3>2, <3>3
  <2> QED
    BY <1>2, <1>5, <2>1
<1>7. PICK m \in Nat : m = q * DayHours /\ t = m + r
  BY <1>2, <1>4, <1>5, Times
<1>8. /\ (q + 1) * DayHours = m + DayHours /\ (q + 2) * DayHours = m + DayHours + DayHours
      /\ q >= 1 => (q - 1) * DayHours = m - DayHours
  BY <1>2, <1>5, <1>7
<1>9. /\ Midnight(l, q) = m + (IF l /\ q > s THEN by ELSE 0)
      /\ Midnight(l, q + 1) = m + DayHours + (IF l /\ q + 1 > s THEN by ELSE 0)
      /\ Midnight(l, q + 2) = m + DayHours + DayHours + (IF l /\ q + 2 > s THEN by ELSE 0)
      /\ q >= 1 => Midnight(l, q - 1) = m - DayHours + (IF l /\ q - 1 > s THEN by ELSE 0)
  BY <1>1, <1>5, <1>7, <1>8 DEF Midnight
<1>10. In(q) \/ In(q + 1) \/ (q >= 1 /\ In(q - 1))
  BY <1>1, <1>2, <1>5, <1>7, <1>9
<1>11. PICK d \in 0..(LastDay + k + 1) : In(d)
  BY <1>2, <1>5, <1>6, <1>10
<1>12. \A d1, d2 \in Nat : In(d1) /\ In(d2) => d1 = d2
  <2>1. ASSUME NEW d1 \in Nat, NEW d2 \in Nat, In(d1), In(d2), d1 < d2 PROVE FALSE
    <3>1. Midnight(l, d1 + 1) <= Midnight(l, d2)
      BY <2>1, MidnightsAscend
    <3>2. Midnight(l, d1 + 1) \in Nat /\ Midnight(l, d2) \in Nat
      BY MidnightIs
    <3> QED
      BY <1>3, <2>1, <3>1, <3>2
  <2> QED
    BY <2>1
<1>13. d \in Dates /\ Dates \subseteq Nat
  BY <1>2, <1>11 DEF Dates
<1>14. DateOf(l, t) = CHOOSE day \in Dates : In(day)
  BY DEF DateOf
<1>15. DateOf(l, t) \in Dates /\ In(DateOf(l, t))
  BY <1>11, <1>13, <1>14
<1> HIDE DEF In
<1>16. DateOf(l, t) = d
  BY <1>11, <1>12, <1>13, <1>15
<1> QED
  BY <1>11, <1>15, <1>16 DEF In

\* It is the only day of which that is so.
LEMMA DateIsThis ==
  ASSUME ShiftType, NEW l \in BOOLEAN, NEW k \in 0..WeekDays,
         NEW t \in 0..((LastDay + k) * DayHours), NEW day \in Nat,
         Midnight(l, day) <= t, t < Midnight(l, day + 1)
  PROVE  DateOf(l, t) = day
<1>1. PICK d \in Nat : /\ d = DateOf(l, t)
                       /\ Midnight(l, d) <= t /\ t < Midnight(l, d + 1)
  <2>1. /\ DateOf(l, t) \in 0..(LastDay + k + 1)
        /\ Midnight(l, DateOf(l, t)) <= t /\ t < Midnight(l, DateOf(l, t) + 1)
    BY DateIs
  <2>2. DateOf(l, t) \in Nat
    BY <2>1, CadenceAssumption
  <2> QED
    BY <2>1, <2>2
<1>2. /\ t \in Int
      /\ Midnight(l, d) \in Nat /\ Midnight(l, d + 1) \in Nat
      /\ Midnight(l, day) \in Nat /\ Midnight(l, day + 1) \in Nat
  <2>1. (LastDay + k) * DayHours \in Int
    BY CadenceAssumption
  <2> QED
    BY <2>1, MidnightIs
<1>3. ~(d < day) /\ ~(day < d)
  <2>1. d < day => Midnight(l, d + 1) <= Midnight(l, day)
    BY MidnightsAscend
  <2>2. day < d => Midnight(l, day + 1) <= Midnight(l, d)
    BY MidnightsAscend
  <2> QED
    BY <1>1, <1>2, <2>1, <2>2
<1> QED
  BY <1>1, <1>3

\* An hour of a day is between its midnights, at the latest the next.
LEMMA HourOfDay ==
  ASSUME ShiftType, NEW l \in BOOLEAN, NEW day \in Nat, NEW hh \in 0..(DayHours - 1)
  PROVE  /\ At(l, day, hh) \in Nat
         /\ Midnight(l, day) <= At(l, day, hh) /\ At(l, day, hh) <= Midnight(l, day + 1)
         /\ At(l, day, hh) <= Midnight(l, day) + DayHours
<1>1. PICK s \in 0..LastDay, by \in -1..1 : s = shift.day /\ by = shift.by
  BY DEF ShiftType
<1>2. DayHours \in Nat \ {0} /\ LastDay \in Nat /\ ShiftHour \in 0..(DayHours - 1)
  BY CadenceAssumption
<1>3. PICK m \in Nat : m = Midnight(l, day)
  BY MidnightIs
<1>4. Midnight(l, day + 1) = m + DayHours + (IF l /\ day = s THEN by ELSE 0)
  BY <1>1, <1>3, MidnightIs
<1>5. At(l, day, hh) = m + hh + (IF l /\ day = s /\ hh > ShiftHour THEN by ELSE 0)
  BY <1>1, <1>3 DEF At
<1> QED
  BY <1>1, <1>2, <1>3, <1>4, <1>5

LEMMA HoursAscend ==
  ASSUME ShiftType, NEW l \in BOOLEAN, NEW day \in Nat, NEW e \in Nat, day <= e,
         NEW hh \in 0..(DayHours - 1)
  PROVE  At(l, day, hh) <= At(l, e, hh)
<1>1. CASE day = e
  BY <1>1, HourOfDay
<1>2. CASE day < e
  <2>1. Midnight(l, day + 1) <= Midnight(l, e)
    BY <1>2, MidnightsAscend
  <2>2. /\ At(l, day, hh) \in Nat /\ At(l, day, hh) <= Midnight(l, day + 1)
        /\ At(l, e, hh) \in Nat /\ Midnight(l, e) <= At(l, e, hh)
    BY HourOfDay
  <2>3. Midnight(l, day + 1) \in Nat /\ Midnight(l, e) \in Nat
    BY MidnightIs
  <2> QED
    BY <2>1, <2>2, <2>3
<1> QED
  BY <1>1, <1>2

\* Within a week there is every weekday.
LEMMA WeekHasAll ==
  ASSUME NEW a \in Nat, NEW w \in Nat \ {0}, NEW x \in 0..(w - 1)
  PROVE  \E d \in 1..w : (a + d) % w = x
<1>1. PICK k \in Int, r \in 0..(w - 1) : a = w * k + r
  <2>1. PICK k \in Int : k = a \div w
    BY Divided
  <2>2. PICK r \in 0..(w - 1) : r = a % w
    BY Divided
  <2>3. a = w * k + r
    BY <2>1, <2>2, Divided
  <2> QED
    BY <2>3
<1>2. CASE x > r
  <2>1. PICK d \in 1..w : d = x - r
    BY <1>2
  <2>2. PICK v \in Int : v = a + d
    OBVIOUS
  <2>3. v % w = x
    BY <1>1, <2>1, <2>2, Residue
  <2> QED
    BY <2>2, <2>3
<1>3. CASE x <= r
  <2>1. PICK d \in 1..w, n \in Int : d = w + x - r /\ n = k + 1
    BY <1>3
  <2>2. PICK v \in Int : v = a + d
    OBVIOUS
  <2>3. v = w * n + x
    <3>1. w * n = w * k + w
      BY <2>1
    <3> QED
      BY <1>1, <2>1, <2>2, <3>1
  <2>4. v % w = x
    BY <2>3, Residue
  <2> QED
    BY <2>2, <2>4
<1> QED
  BY <1>2, <1>3

LEMMA DaysOn ==
  ASSUME ShiftType, NEW l \in BOOLEAN, NEW D \in Nat, NEW d \in Nat
  PROVE  Midnight(l, D + d) = Midnight(l, D) + d * DayHours
           + (IF l /\ D <= shift.day /\ shift.day < D + d THEN shift.by ELSE 0)
<1>1. PICK s \in 0..LastDay, by \in -1..1 : s = shift.day /\ by = shift.by
  BY DEF ShiftType
<1>2. DayHours \in Nat /\ LastDay \in Nat
  BY CadenceAssumption
<1>3. PICK m \in Nat, n \in Nat : m = D * DayHours /\ n = d * DayHours
  BY <1>2, Times
<1>4. (D + d) * DayHours = m + n
  BY <1>2, <1>3, Times
<1>5. /\ Midnight(l, D + d) = m + n + (IF l /\ D + d > s THEN by ELSE 0)
      /\ Midnight(l, D) = m + (IF l /\ D > s THEN by ELSE 0)
  BY <1>1, <1>3, <1>4 DEF Midnight
<1> QED
  BY <1>1, <1>2, <1>3, <1>5

\* Unless the change of the clocks is in the way, 24 hours on is the next date.
Smooth(l, time) ==
  LET day == DateOf(l, time)
      into == time - Midnight(l, day)
  IN l /\ shift.day \in day..(day + WeekDays) =>
       ~(shift.by = 1 /\ into = 0) /\ ~(shift.by = -1 /\ shift.day # day /\ into = DayHours - 1)

LEMMA StepByStep ==
  ASSUME ShiftType, NEW l \in BOOLEAN, NEW from \in 0..Horizon, Smooth(l, from), NEW d \in Week
  PROVE  DateOf(l, from + d * DayHours) = DateOf(l, from) + d
<1>1. PICK s \in 0..LastDay, by \in -1..1 : s = shift.day /\ by = shift.by
  BY DEF ShiftType
<1>2. DayHours \in Nat \ {0} /\ LastDay \in Nat /\ WeekDays \in Nat /\ d \in 0..WeekDays
  BY CadenceAssumption DEF Week
<1>3. PICK D \in Nat : D = DateOf(l, from) /\ Midnight(l, D) <= from /\ from < Midnight(l, D + 1)
  <2>1. from \in 0..((LastDay + 0) * DayHours) /\ 0 \in 0..WeekDays
    BY <1>2 DEF Horizon
  <2> QED
    BY <1>2, <2>1, DateIs
<1>4. PICK m \in Nat, x \in Int, h \in Nat :
        m = Midnight(l, D) /\ x = from - m /\ h = d * DayHours
  <2>1. Midnight(l, D) \in Nat /\ d * DayHours \in Nat
    BY <1>2, MidnightIs, Times
  <2>2. from \in Int
    BY <1>2 DEF Horizon
  <2> QED
    BY <2>1, <2>2
<1>5. from \in Nat /\ from <= LastDay * DayHours /\ LastDay * DayHours \in Nat
  BY <1>2, Times DEF Horizon
<1>6. l /\ s \in D..(D + WeekDays) =>
        ~(by = 1 /\ x = 0) /\ ~(by = -1 /\ s # D /\ x = DayHours - 1)
  BY <1>1, <1>3, <1>4 DEF Smooth
<1>7. PICK z \in Nat : z = Midnight(l, D + 1) /\ z = m + DayHours + (IF l /\ s = D THEN by ELSE 0)
  <2>1. Midnight(l, D + 1) \in Nat
    BY <1>3, NextMidnight
  <2>2. Midnight(l, D + 1) = m + DayHours + (IF l /\ s = D THEN by ELSE 0)
    BY <1>1, <1>3, <1>4, MidnightIs
  <2> QED
    BY <2>1, <2>2
<1>8. x >= 0 /\ x < DayHours + (IF l /\ s = D THEN by ELSE 0)
  BY <1>1, <1>2, <1>3, <1>4, <1>5, <1>7
<1>9. PICK e \in Nat : e = D + d
  BY <1>2, <1>3
<1>10. PICK y \in Nat :
         y = Midnight(l, e) /\ y = m + h + (IF l /\ D <= s /\ s < e THEN by ELSE 0)
  <2>1. Midnight(l, e) \in Nat
    BY <1>9, MidnightIs
  <2>2. Midnight(l, D + d) = m + h + (IF l /\ D <= s /\ s < D + d THEN by ELSE 0)
    BY <1>1, <1>2, <1>3, <1>4, DaysOn
  <2> QED
    BY <1>9, <2>1, <2>2
<1>11. PICK w \in Nat :
         w = Midnight(l, e + 1) /\ w = y + DayHours + (IF l /\ s = e THEN by ELSE 0)
  BY <1>1, <1>2, <1>9, <1>10, MidnightIs
<1>12. PICK t \in Nat : t = from + h
  BY <1>4, <1>5
<1>13. y <= t /\ t < w
  <2>1. D <= e /\ e <= D + WeekDays /\ t = m + x + h
    BY <1>2, <1>4, <1>5, <1>9, <1>12
  <2> QED
    BY <1>1, <1>2, <1>6, <1>8, <1>10, <1>11, <2>1
<1>14. t \in 0..((LastDay + d) * DayHours)
  <2>1. (LastDay + d) * DayHours = LastDay * DayHours + h
    BY <1>2, <1>4, Times
  <2> QED
    BY <1>4, <1>5, <1>12, <2>1
<1>15. DateOf(l, t) = e
  BY <1>2, <1>9, <1>10, <1>11, <1>13, <1>14, DateIsThis
<1> QED
  BY <1>3, <1>4, <1>9, <1>12, <1>15

LEMMA SmoothUnless ==
  ASSUME NEW time
  PROVE  (~Stumbles(time) => Smooth(TRUE, time)) /\ Smooth(FALSE, time)
BY DEF Stumbles, Smooth

-----------------------------------------------------------------------------
(* Cadence: the first of a week.                                           *)

OccurrencesOf(l, c) == {At(l, day, c.at) : day \in {d \in Dates : OnDay(c, d)}}

LEMMA WeeklyFields ==
  ASSUME NEW c \in Cadences, c.kind = "weekly"
  PROVE  /\ c.at \in 0..(DayHours - 1)
         /\ c.days \subseteq 0..(WeekDays - 1) /\ c.days # {}
BY DEF Cadences

\* Of some numbers the least is where CHOOSE finds it.
LEMMA ChooseLeast ==
  ASSUME NEW T \in SUBSET Nat, T # {}
  PROVE  LET x == CHOOSE d \in T : \A e \in T : d <= e
         IN x \in T /\ \A e \in T : x <= e
BY LeastNumber

\* The first of a week's dates that fits is the next occurrence.
LEMMA FirstIsNext ==
  ASSUME ShiftType, NEW l \in BOOLEAN, NEW c \in Cadences, c.kind = "weekly",
         NEW from \in Nat, NEW D \in 0..(LastDay + 1),
         Midnight(l, D) <= from, from < Midnight(l, D + 1),
         NEW dates, dates = [d \in Week |-> D + d]
  PROVE  LET f == FirstOf(l, c, from, dates)
         IN /\ f \in OccurrencesOf(l, c) /\ f > from
            /\ \A o \in OccurrencesOf(l, c) : o > from => f <= o
<1> DEFINE fits == {d \in DOMAIN dates : At(l, dates[d], c.at) > from /\ OnDay(c, dates[d])}
           f == FirstOf(l, c, from, dates)
<1>1. /\ WeekDays \in Nat \ {0} /\ LastDay \in Nat /\ DayHours \in Nat \ {0}
      /\ c.at \in 0..(DayHours - 1) /\ c.days \subseteq 0..(WeekDays - 1) /\ c.days # {}
      /\ D \in Nat /\ Week = 0..WeekDays /\ Dates = 0..(LastDay + WeekDays + 2)
  BY CadenceAssumption, WeeklyFields DEF Week, Dates
<1>2. \A d \in Week : dates[d] = D + d /\ dates[d] \in Dates
  BY <1>1
<1>3. \A d \in 1..WeekDays : At(l, D + d, c.at) > from
  <2>1. SUFFICES ASSUME NEW d \in 1..WeekDays PROVE At(l, D + d, c.at) > from
    OBVIOUS
  <2>2. PICK e \in Nat : e = D + d
    BY <1>1
  <2>3. Midnight(l, D + 1) <= Midnight(l, e)
    BY <1>1, <2>2, MidnightsAscend
  <2>4. Midnight(l, e) <= At(l, e, c.at) /\ At(l, e, c.at) \in Nat
    BY <1>1, HourOfDay
  <2>5. PICK y \in Nat, z \in Nat : y = Midnight(l, e) /\ z = Midnight(l, D + 1)
    BY <1>1, NextMidnight, MidnightIs
  <2> QED
    BY <2>2, <2>3, <2>4, <2>5
<1>4. \A d \in 1..WeekDays : (D + d) % WeekDays \in c.days => d \in fits
  <2>1. SUFFICES ASSUME NEW d \in 1..WeekDays, (D + d) % WeekDays \in c.days
                 PROVE  d \in fits
    OBVIOUS
  <2>2. d \in Week /\ d \in DOMAIN dates /\ dates[d] = D + d
    BY <1>1, <1>2
  <2>3. At(l, dates[d], c.at) > from
    BY <1>3, <2>2
  <2>4. OnDay(c, dates[d])
    BY <2>1, <2>2 DEF OnDay
  <2> QED
    BY <2>2, <2>3, <2>4
<1>5. \A x \in c.days : \E d \in fits : d \in 1..WeekDays /\ (D + d) % WeekDays = x
  <2>1. SUFFICES ASSUME NEW x \in c.days
                 PROVE  \E d \in fits : d \in 1..WeekDays /\ (D + d) % WeekDays = x
    OBVIOUS
  <2>2. PICK d \in 1..WeekDays : (D + d) % WeekDays = x
    BY <1>1, WeekHasAll
  <2> QED
    BY <1>4, <2>2
<1>6. fits # {} /\ fits \subseteq Week /\ fits \in SUBSET Nat
  <2>1. fits # {}
    BY <1>1, <1>5
  <2>2. fits \subseteq Week
    OBVIOUS
  <2> QED
    BY <1>1, <2>1, <2>2
<1>7. PICK g \in fits : f = At(l, dates[g], c.at) /\ \A e \in fits : g <= e
  <2>1. PICK g : g = CHOOSE d \in fits : \A e \in fits : d <= e
    OBVIOUS
  <2>2. g \in fits /\ \A e \in fits : g <= e
    <3> HIDE DEF fits
    <3> QED
      BY <1>6, <2>1, ChooseLeast
  <2>3. f = At(l, dates[g], c.at)
    BY <1>6, <2>1 DEF FirstOf
  <2> QED
    BY <2>2, <2>3
<1>8. g \in Week /\ f = At(l, D + g, c.at) /\ f > from /\ D + g \in Dates /\ OnDay(c, D + g)
  BY <1>2, <1>6, <1>7
<1>9. f \in OccurrencesOf(l, c)
  BY <1>8 DEF OccurrencesOf
<1>10. \A e \in fits, day \in Nat : D + e <= day => f <= At(l, day, c.at)
  <2>1. SUFFICES ASSUME NEW e \in fits, NEW day \in Nat, D + e <= day
                 PROVE  At(l, D + g, c.at) <= At(l, day, c.at)
    BY <1>8
  <2>2. PICK b \in Nat : b = D + g
    BY <1>1, <1>8
  <2>3. g <= e /\ g \in Nat /\ e \in Nat
    BY <1>6, <1>7
  <2>4. b <= day
    BY <1>1, <2>1, <2>2, <2>3
  <2> QED
    BY <1>1, <2>2, <2>4, HoursAscend
<1>11. ASSUME NEW day \in Dates, OnDay(c, day), At(l, day, c.at) > from
       PROVE  f <= At(l, day, c.at)
  <2>1. day \in Nat /\ day % WeekDays \in c.days
    BY <1>1, <1>11 DEF OnDay
  <2>2. CASE day < D
    <3>1. At(l, day, c.at) <= Midnight(l, day + 1) /\ At(l, day, c.at) \in Nat
      BY <1>1, <2>1, HourOfDay
    <3>2. Midnight(l, day + 1) <= Midnight(l, D)
      BY <1>1, <2>1, <2>2, MidnightsAscend
    <3>3. Midnight(l, day + 1) \in Nat /\ Midnight(l, D) \in Nat
      BY <1>1, <2>1, NextMidnight, MidnightIs
    <3> QED
      BY <1>11, <3>1, <3>2, <3>3
  <2>3. CASE day \in D..(D + WeekDays)
    <3>1. PICK e \in Week : day = D + e
      <4>1. day - D \in Week /\ day = D + (day - D)
        BY <1>1, <2>3
      <4> QED
        BY <4>1
    <3>2. e \in fits
      BY <1>2, <1>11, <3>1
    <3> QED
      BY <1>10, <2>1, <3>1, <3>2
  <2>4. CASE day > D + WeekDays
    <3>1. PICK e \in fits : e \in 1..WeekDays
      BY <1>5, <2>1
    <3>2. D + e <= day
      BY <1>1, <2>1, <2>4, <3>1
    <3> QED
      BY <1>10, <2>1, <3>1, <3>2
  <2> QED
    BY <1>1, <2>1, <2>2, <2>3, <2>4
<1>12. \A o \in OccurrencesOf(l, c) : o > from => f <= o
  BY <1>11 DEF OccurrencesOf
<1> QED
  BY <1>8, <1>9, <1>12

\* The first of some dates, if there is one, is later, but before the end of time.
LEMMA FirstIsBounded ==
  ASSUME ShiftType, NEW l \in BOOLEAN, NEW c \in Cadences, c.kind = "weekly", NEW from,
         NEW dates, DOMAIN dates = Week,
         \A d \in Week : dates[d] \in Nat
                           /\ Midnight(l, dates[d]) <= Horizon + WeekDays * DayHours
  PROVE  /\ FirstOf(l, c, from, dates) \in 0..Latest
         /\ FirstOf(l, c, from, dates) = Never \/ FirstOf(l, c, from, dates) > from
<1> DEFINE fits == {d \in DOMAIN dates : At(l, dates[d], c.at) > from /\ OnDay(c, dates[d])}
<1>1. /\ WeekDays \in Nat \ {0} /\ LastDay \in Nat /\ DayHours \in Nat \ {0}
      /\ c.at \in 0..(DayHours - 1) /\ Week = 0..WeekDays
  BY CadenceAssumption, WeeklyFields DEF Week
<1>2. PICK h \in Nat, w \in Nat :
        h = Horizon /\ w = WeekDays * DayHours /\ Latest = h + w + DayHours
  <2>1. Horizon \in Nat /\ WeekDays * DayHours \in Nat
        /\ (WeekDays + 1) * DayHours = WeekDays * DayHours + DayHours
    BY <1>1, Times DEF Horizon
  <2> QED
    BY <2>1, <1>1 DEF Latest
<1>3. CASE fits = {}
  BY <1>1, <1>2, <1>3 DEF FirstOf, Never
<1>4. CASE fits # {}
  <2>1. fits \in SUBSET Nat /\ fits \subseteq Week
    BY <1>1
  <2>2. PICK g : g = CHOOSE d \in fits : \A e \in fits : d <= e
    OBVIOUS
  <2>3. g \in fits /\ g \in Week
    <3>1. g \in fits
      <4> HIDE DEF fits
      <4> QED
        BY <1>4, <2>1, <2>2, ChooseLeast
    <3> QED
      BY <2>1, <3>1
  <2>4. FirstOf(l, c, from, dates) = At(l, dates[g], c.at)
    BY <1>4, <2>2 DEF FirstOf
  <2>5. PICK day \in Nat : day = dates[g] /\ Midnight(l, day) <= h + w
    BY <1>2, <2>3
  <2>6. At(l, day, c.at) \in Nat /\ At(l, day, c.at) <= Midnight(l, day) + DayHours
        /\ Midnight(l, day) \in Nat
    BY <1>1, HourOfDay, MidnightIs
  <2>7. At(l, dates[g], c.at) > from
    BY <2>3
  <2> QED
    BY <1>1, <1>2, <2>4, <2>5, <2>6, <2>7
<1> QED
  BY <1>3, <1>4

-----------------------------------------------------------------------------
(* Cadence: what is due is what was scheduled.                             *)

CadTypes ==
  /\ ShiftType
  /\ hour \in 0..Horizon /\ base \in 0..hour /\ nextRunAt \in 0..Latest
  /\ plan \in [what : {"mission", "patrol"}, cadence : Cadences, enabled : BOOLEAN]
  /\ busy \in BOOLEAN /\ serving \in BOOLEAN /\ edits \in 0..MaxEdits

\* It is due at the next of its days and hours, or at the next look.
IsNext ==
  /\ nextRunAt \in Occurrences /\ base < nextRunAt
  /\ \A o \in Occurrences : o > base => nextRunAt <= o
IsPutOff == Passed # {} /\ nextRunAt \in 1..(hour + 1)

\* A patrol that is switched off has no next run; a mission keeps its own.
Follows ==
  plan.cadence.kind = "weekly" /\ (Local \/ plan.enabled) /\ Smooth(Local, base) =>
    IsNext \/ IsPutOff

CadInv == CadTypes /\ Follows

LEMMA Bounds ==
  /\ DayHours \in Nat \ {0, 1} /\ DayHours \in Nat \ {0} /\ WeekDays \in Nat \ {0} /\ LastDay \in Nat
  /\ Horizon \in Nat /\ Latest \in Nat
  /\ WeekDays * DayHours \in Nat /\ WeekDays * DayHours >= DayHours
  /\ Latest = Horizon + WeekDays * DayHours + DayHours
<1>1. DayHours \in Nat \ {0, 1} /\ WeekDays \in Nat \ {0} /\ LastDay \in Nat /\ 1 \in Nat
  BY CadenceAssumption
<1>2. Horizon \in Nat /\ WeekDays * DayHours \in Nat /\ WeekDays * DayHours >= DayHours
  BY <1>1, Times DEF Horizon
<1>3. (WeekDays + 1) * DayHours = WeekDays * DayHours + DayHours
  BY <1>1, Times
<1> QED
  BY <1>1, <1>2, <1>3 DEF Latest

\* The date of a moment up to the horizon, and the dates from there on.
LEMMA DateNow ==
  ASSUME ShiftType, NEW l \in BOOLEAN, NEW from \in 0..Horizon
  PROVE  /\ DateOf(l, from) \in 0..(LastDay + 1)
         /\ Midnight(l, DateOf(l, from)) <= from /\ from < Midnight(l, DateOf(l, from) + 1)
<1>1. from \in 0..((LastDay + 0) * DayHours) /\ 0 \in 0..WeekDays
  BY Bounds DEF Horizon
<1>2. DateOf(l, from) \in 0..(LastDay + 0 + 1)
  BY <1>1, DateIs
<1>3. Midnight(l, DateOf(l, from)) <= from /\ from < Midnight(l, DateOf(l, from) + 1)
  BY <1>1, DateIs
<1> QED
  BY <1>2, <1>3, Bounds

\* The dates each of the three looks at.
DatesFrom(l, from) == IF l THEN Steps24h(from) ELSE NextUtcDays(from)

LEMMA DatesAreBounded ==
  ASSUME ShiftType, NEW l \in BOOLEAN, NEW from \in 0..Horizon
  PROVE  /\ DOMAIN DatesFrom(l, from) = Week
         /\ \A d \in Week : /\ DatesFrom(l, from)[d] \in Nat
                            /\ Midnight(l, DatesFrom(l, from)[d]) <= Horizon + WeekDays * DayHours
<1>1. PICK h \in Nat, w \in Nat : h = Horizon /\ w = WeekDays * DayHours
  BY Bounds
<1>2. Week = 0..WeekDays /\ LastDay \in Nat /\ DayHours \in Nat /\ WeekDays \in Nat
      /\ LastDay * DayHours = h
  BY Bounds, <1>1 DEF Week, Horizon
<1>3. ASSUME NEW d \in Week
      PROVE  d * DayHours \in Nat /\ d * DayHours <= w /\ (LastDay + d) * DayHours = h + d * DayHours
  BY <1>1, <1>2, Times
<1>4. CASE l = TRUE
  <2>1. DatesFrom(l, from) = [d \in Week |-> DateOf(TRUE, from + d * DayHours)]
    BY <1>4 DEF DatesFrom, Steps24h
  <2>2. ASSUME NEW d \in Week
        PROVE  DateOf(l, from + d * DayHours) \in Nat
               /\ Midnight(l, DateOf(l, from + d * DayHours)) <= h + w
    <3>1. PICK t \in Nat : t = from + d * DayHours
      BY <1>1, <1>3
    <3>2. t \in 0..((LastDay + d) * DayHours) /\ d \in 0..WeekDays /\ t <= h + w
      BY <1>1, <1>2, <1>3, <3>1
    <3>3. PICK e \in Nat : e = DateOf(l, t) /\ Midnight(l, e) <= t
      <4>1. DateOf(l, t) \in 0..(LastDay + d + 1) /\ Midnight(l, DateOf(l, t)) <= t
        BY <3>2, DateIs
      <4> QED
        BY <1>2, <4>1
    <3>4. Midnight(l, e) \in Nat
      BY MidnightIs
    <3> QED
      BY <3>1, <3>2, <3>3, <3>4
  <2>3. \A d \in Week : DatesFrom(l, from)[d] = DateOf(l, from + d * DayHours)
    BY <1>4, <2>1, Zenon
  <2> QED
    BY <1>1, <2>1, <2>2, <2>3
<1>5. CASE l = FALSE
  <2>1. DatesFrom(l, from) = [d \in Week |-> DateOf(FALSE, from) + d]
    BY <1>5 DEF DatesFrom, NextUtcDays
  <2>2. PICK D \in Nat : D = DateOf(l, from) /\ Midnight(l, D) <= from
    BY DateNow, Bounds
  <2>3. \A d \in Week : DatesFrom(l, from)[d] = D + d
    <3>1. D = DateOf(FALSE, from)
      BY <1>5, <2>2, Zenon
    <3> QED
      BY <2>1, <3>1
  <2>4. ASSUME NEW d \in Week PROVE D + d \in Nat /\ Midnight(l, D + d) <= h + w
    <3>1. Midnight(l, D + d) = Midnight(l, D) + d * DayHours
      <4>1. Midnight(l, D) \in Nat
        BY MidnightIs
      <4> QED
        BY <1>2, <1>3, <1>5, <2>2, <4>1, DaysOn
    <3>2. Midnight(l, D) \in Nat
      BY MidnightIs
    <3> QED
      BY <1>1, <1>2, <1>3, <2>2, <3>1, <3>2
  <2> QED
    BY <1>1, <2>1, <2>3, <2>4
<1> QED
  BY <1>4, <1>5

LEMMA DatesAreNext ==
  ASSUME ShiftType, NEW l \in BOOLEAN, NEW from \in 0..Horizon, Smooth(l, from)
  PROVE  DatesFrom(l, from) = [d \in Week |-> DateOf(l, from) + d]
<1>1. CASE l = TRUE
  <2>1. DatesFrom(l, from) = [d \in Week |-> DateOf(l, from + d * DayHours)]
    BY <1>1, Zenon DEF DatesFrom, Steps24h
  <2>2. \A d \in Week : DateOf(l, from + d * DayHours) = DateOf(l, from) + d
    BY StepByStep
  <2> QED
    BY <2>1, <2>2
<1>2. CASE l = FALSE
  BY <1>2, Zenon DEF DatesFrom, NextUtcDays
<1> QED
  BY <1>1, <1>2

\* What comes next, of any kind, is before the end; of a weekly schedule it is
\* the first of the dates.
LEMMA DueIs ==
  ASSUME ShiftType, hour \in 0..Horizon, NEW c \in Cadences
  PROVE  /\ NextDue(c) \in 0..Latest
         /\ c.kind = "weekly" => NextDue(c) = FirstOf(Local, c, hour, DatesFrom(Local, hour))
<1>1. Local \in BOOLEAN
  BY DEF Local
<1>2. CASE c.kind = "weekly"
  <2>1. NextDue(c) = FirstOf(Local, c, hour, DatesFrom(Local, hour))
    <3>1. CASE Local = TRUE
      <4>1. NextDue(c) = FirstOf(TRUE, c, hour, Steps24h(hour))
        BY <1>2, <3>1 DEF NextDue, NextRun
      <4> QED
        BY <3>1, <4>1, Zenon DEF DatesFrom
    <3>2. CASE Local = FALSE
      <4>1. NextDue(c) = FirstOf(FALSE, c, hour, NextUtcDays(hour))
        BY <1>2, <3>2 DEF NextDue, NextPtzRun
      <4> QED
        BY <3>2, <4>1, Zenon DEF DatesFrom
    <3> QED
      BY <1>1, <3>1, <3>2
  <2>2. FirstOf(Local, c, hour, DatesFrom(Local, hour)) \in 0..Latest
    BY <1>1, <1>2, FirstIsBounded, DatesAreBounded
  <2> QED
    BY <1>2, <2>1, <2>2
<1>3. CASE c.kind # "weekly"
  <2>1. NextDue(c) = NextRun(c, hour)
    BY <1>3 DEF NextDue, NextPtzRun
  <2>2. \/ (c.kind = "once" /\ c.at = 2 * DayHours)
        \/ (c.kind = "interval" /\ c.every = DayHours - 1)
    BY <1>3 DEF Cadences
  <2>3. c.kind = "once" => NextRun(c, hour) \in {c.at, 0}
    BY DEF NextRun, Never
  <2>4. c.kind = "interval" => NextRun(c, hour) = hour + c.every
    BY DEF NextRun
  <2> QED
    BY <1>1, <1>3, <2>1, <2>2, <2>3, <2>4, Bounds
<1> QED
  BY <1>2, <1>3

LEMMA DueIsNext ==
  ASSUME ShiftType, hour \in 0..Horizon, NEW c \in Cadences, c.kind = "weekly", Smooth(Local, hour)
  PROVE  /\ NextDue(c) \in OccurrencesOf(Local, c) /\ hour < NextDue(c)
         /\ \A o \in OccurrencesOf(Local, c) : o > hour => NextDue(c) <= o
<1>1. Local \in BOOLEAN /\ hour \in Nat
  BY Bounds DEF Local
<1>2. PICK D \in 0..(LastDay + 1) : D = DateOf(Local, hour)
  BY <1>1, DateNow
<1>3. Midnight(Local, D) <= hour /\ hour < Midnight(Local, D + 1)
  BY <1>1, <1>2, DateNow
<1>4. PICK dates : dates = DatesFrom(Local, hour)
  OBVIOUS
<1>5. dates = [d \in Week |-> D + d]
  BY <1>1, <1>2, <1>4, DatesAreNext
<1>6. NextDue(c) = FirstOf(Local, c, hour, dates)
  BY <1>4, DueIs
<1>7. LET f == FirstOf(Local, c, hour, dates)
      IN /\ f \in OccurrencesOf(Local, c) /\ f > hour
         /\ \A o \in OccurrencesOf(Local, c) : o > hour => f <= o
  BY <1>1, <1>3, <1>5, FirstIsNext
<1>8. FirstOf(Local, c, hour, dates) \in Int
  <2>1. NextDue(c) \in 0..Latest
    BY DueIs
  <2> QED
    BY <1>6, <2>1
<1> QED
  BY <1>1, <1>6, <1>7, <1>8

\* Times of a schedule are numbers.
LEMMA OccurrencesAreTimes ==
  ASSUME ShiftType, NEW l \in BOOLEAN, NEW c \in Cadences, c.kind = "weekly"
  PROVE  OccurrencesOf(l, c) \subseteq Nat
<1>1. Dates \subseteq Nat
  BY Bounds DEF Dates
<1> QED
  BY <1>1, HourOfDay, WeeklyFields DEF OccurrencesOf

\* A schedule set anew, or fired, at this hour.
LEMMA SetAnew ==
  ASSUME CadTypes, CadTypes', NEW c \in Cadences,
         plan'.cadence = c, plan'.what = plan.what, UNCHANGED <<shift, hour>>,
         nextRunAt' = NextDue(c), base' = hour
  PROVE  Follows'
<1>1. SUFFICES ASSUME c.kind = "weekly", Smooth(Local, base)' PROVE IsNext'
  BY DEF Follows
<1>2. Local' = Local
  BY DEF Local
<1>3. Smooth(Local, hour)
  <2>1. Smooth(Local, base)' = Smooth(Local, hour)
    BY <1>2 DEF Smooth, DateOf, Midnight
  <2> QED
    BY <1>1, <2>1
<1>4. Occurrences' = OccurrencesOf(Local, c)
  BY <1>2 DEF Occurrences, OccurrencesOf, At, Midnight, OnDay
<1> QED
  BY <1>1, <1>3, <1>4, DueIsNext DEF IsNext, CadTypes

\* Nothing of what it follows from has changed.
LEMMA LeftAlone ==
  ASSUME CadInv, CadTypes',
         plan'.cadence = plan.cadence, plan'.what = plan.what, UNCHANGED <<shift, base, nextRunAt>>,
         hour' >= hour, Local' \/ plan'.enabled => Local \/ plan.enabled
  PROVE  Follows'
<1>1. Local' = Local /\ Occurrences' = Occurrences /\ Smooth(Local, base)' = Smooth(Local, base)
  BY DEF Local, Occurrences, At, OnDay, Smooth, DateOf, Midnight
<1>2. SUFFICES ASSUME plan.cadence.kind = "weekly", Local' \/ plan'.enabled, Smooth(Local, base)'
               PROVE  IsNext' \/ IsPutOff'
  BY DEF Follows
<1>3. IsNext \/ IsPutOff
  BY <1>1, <1>2 DEF CadInv, Follows
<1>4. IsNext => IsNext'
  BY <1>1 DEF IsNext
<1>5. Occurrences \subseteq Nat
  <2>1. Occurrences = OccurrencesOf(Local, plan.cadence)
    BY DEF Occurrences, OccurrencesOf
  <2>2. Local \in BOOLEAN /\ ShiftType /\ plan.cadence \in Cadences
    BY DEF CadInv, CadTypes, Local
  <2> QED
    BY <1>2, <2>1, <2>2, OccurrencesAreTimes
<1>6. hour \in Nat /\ hour' \in Nat
  BY Bounds DEF CadInv, CadTypes
<1>7. IsPutOff => IsPutOff'
  <2>1. PICK m \in Nat, n \in Nat : m = hour /\ n = hour' /\ m <= n
    BY <1>6
  <2>2. nextRunAt \in 1..(m + 1) => nextRunAt \in 1..(n + 1)
    <3>1. m <= n
      BY <2>1, Zenon
    <3>2. ASSUME NEW x \in 1..(m + 1) PROVE x \in 1..(n + 1)
      <4>1. x \in Nat /\ 1 <= x /\ x <= m + 1
        OBVIOUS
      <4>2. x <= n + 1
        BY <3>1, <4>1
      <4> QED
        BY <4>1, <4>2
    <3> QED
      BY <3>2
  <2>3. ASSUME NEW o \in Passed PROVE o \in Passed'
    <3>1. o \in Occurrences /\ o \in Nat /\ base < o /\ o <= m
      BY <1>5, <2>1 DEF Passed
    <3>2. base' = base /\ o <= n
      BY <2>1, <3>1
    <3> QED
      BY <1>1, <2>1, <3>1, <3>2 DEF Passed
  <2> QED
    BY <2>1, <2>2, <2>3 DEF IsPutOff
<1> QED
  BY <1>3, <1>4, <1>7

LEMMA CadStarts == CadInit => CadInv
<1> SUFFICES ASSUME CadInit PROVE CadInv
  OBVIOUS
<1>1. /\ shift \in {[day |-> 0, by |-> 0]} \cup [day : 0..LastDay, by : {-1, 1}]
      /\ hour \in 0..(DayHours - 1) /\ base = hour
      /\ plan \in [what : {"mission", "patrol"}, cadence : Cadences, enabled : {TRUE}]
      /\ nextRunAt = IF plan.cadence.kind = "once" THEN plan.cadence.at
                     ELSE NextDue(plan.cadence)
      /\ busy = FALSE /\ serving = TRUE /\ edits = 0
  BY DEF CadInit
<1>2. ShiftType
  BY <1>1, Bounds DEF ShiftType
<1>3. hour \in 0..Horizon /\ base \in 0..hour
  <2>1. 1 * DayHours <= LastDay * DayHours /\ 1 * DayHours = DayHours
    BY Bounds, Times, CadenceAssumption
  <2> QED
    BY <1>1, <2>1, Bounds DEF Horizon
<1>4. plan.cadence \in Cadences /\ plan.cadence.kind = "once" => plan.cadence.at = 2 * DayHours
  BY DEF Cadences
<1>5. plan.cadence \in Cadences /\ 2 * DayHours \in 0..Latest
  BY <1>1, Bounds
<1>6. nextRunAt \in 0..Latest
  BY <1>1, <1>2, <1>3, <1>4, <1>5, DueIs
<1>7. CadTypes
  <2>1. plan \in [what : {"mission", "patrol"}, cadence : Cadences, enabled : BOOLEAN]
    BY <1>1
  <2>2. busy \in BOOLEAN /\ serving \in BOOLEAN
    BY <1>1, Zenon
  <2>3. edits \in 0..MaxEdits
    BY <1>1, CadenceAssumption
  <2> QED
    BY <1>2, <1>3, <1>6, <2>1, <2>2, <2>3 DEF CadTypes
<1>8. Follows
  <2>1. SUFFICES ASSUME plan.cadence.kind = "weekly", Smooth(Local, hour) PROVE IsNext
    BY <1>1 DEF Follows
  <2>2. Occurrences = OccurrencesOf(Local, plan.cadence)
    BY DEF Occurrences, OccurrencesOf
  <2> QED
    BY <1>1, <1>2, <1>3, <1>5, <2>1, <2>2, DueIsNext DEF IsNext
<1> QED
  BY <1>7, <1>8 DEF CadInv

PlanType == [what : {"mission", "patrol"}, cadence : Cadences, enabled : BOOLEAN]

LEMMA TypesStep ==
  ASSUME CadTypes, CadNext
  PROVE  CadTypes'
<1>1. \A c \in Cadences : NextDue(c) \in 0..Latest
  BY DueIs DEF CadTypes
<1>2. /\ hour + 1 \in 0..Latest /\ 0 \in 0..Latest /\ hour \in Nat /\ hour \in 0..hour
      /\ plan.cadence \in Cadences /\ Never = 0
  BY Bounds DEF CadTypes, Never
<1>3. /\ ShiftType /\ hour \in 0..Horizon /\ base \in 0..hour /\ nextRunAt \in 0..Latest
      /\ plan \in PlanType
      /\ busy \in BOOLEAN /\ serving \in BOOLEAN /\ edits \in 0..MaxEdits
  BY DEF CadTypes, PlanType
<1>4. \A c \in Cadences, on \in BOOLEAN :
        /\ [plan EXCEPT !.cadence = c, !.enabled = on] \in PlanType
        /\ [plan EXCEPT !.enabled = on] \in PlanType
  BY <1>3 DEF PlanType
<1>5. ASSUME /\ UNCHANGED shift /\ hour' \in 0..Horizon
             /\ base' \in 0..hour' /\ nextRunAt' \in 0..Latest
             /\ plan' \in PlanType
             /\ busy' \in BOOLEAN /\ serving' \in BOOLEAN /\ edits' \in 0..MaxEdits
      PROVE  CadTypes'
  BY <1>3, <1>5 DEF CadTypes, ShiftType, PlanType
<1>6. ASSUME NEW c \in Cadences, NEW on \in BOOLEAN, PatchSchedule(c, on) \/ SavePtzPlan(c, on)
      PROVE  CadTypes'
  <2>1. plan' = [plan EXCEPT !.cadence = c, !.enabled = on]
    BY <1>6, Zenon DEF PatchSchedule, SavePtzPlan
  <2>2. edits' \in 0..MaxEdits
    BY <1>3, <1>6, CadenceAssumption DEF PatchSchedule, SavePtzPlan, Edit
  <2>3. base' \in 0..hour /\ nextRunAt' \in 0..Latest /\ UNCHANGED <<shift, hour, busy, serving>>
    BY <1>1, <1>2, <1>3, <1>6 DEF PatchSchedule, SavePtzPlan
  <2> QED
    BY <1>3, <1>4, <1>5, <2>1, <2>2, <2>3
<1>7. CASE TickSchedules
  <2>1. base' \in 0..hour /\ nextRunAt' \in 0..Latest
    BY <1>1, <1>2, <1>3, <1>7 DEF TickSchedules
  <2>2. busy' \in BOOLEAN /\ UNCHANGED <<shift, hour, plan, serving, edits>>
    BY <1>3, <1>7 DEF TickSchedules
  <2> QED
    BY <1>3, <1>5, <2>1, <2>2
<1>8. CASE TickPlans
  <2>1. /\ base' = hour /\ nextRunAt' \in 0..Latest /\ busy' \in BOOLEAN
        /\ UNCHANGED <<shift, hour, serving, edits>>
    BY <1>1, <1>2, <1>8 DEF TickPlans
  <2>2. plan' \in PlanType
    <3>1. PICK on \in BOOLEAN : on = (plan.cadence.kind # "once")
      OBVIOUS
    <3>2. plan' = [plan EXCEPT !.enabled = on]
      BY <1>8, <3>1, Zenon DEF TickPlans
    <3> QED
      BY <1>2, <1>4, <3>2
  <2> QED
    BY <1>2, <1>3, <1>5, <2>1, <2>2
<1>9. CASE Busyness
  BY <1>3, <1>5, <1>9 DEF Busyness, RunIsOver, CameraTaken
<1>10. CASE UpOrDown
  BY <1>3, <1>5, <1>10 DEF UpOrDown
<1>11. CASE HourPasses
  <2>1. hour' \in 0..Horizon /\ base' \in 0..hour'
    BY <1>3, <1>11, Bounds DEF HourPasses, Horizon
  <2> QED
    BY <1>3, <1>5, <1>11, <2>1 DEF HourPasses
<1> QED
  BY <1>6, <1>7, <1>8, <1>9, <1>10, <1>11 DEF CadNext

\* It is due, so one of its times has passed.
LEMMA DueHasPassed ==
  ASSUME CadInv, Due, plan.cadence.kind = "weekly", Smooth(Local, base)
  PROVE  Passed # {}
<1>1. IsNext \/ IsPutOff
  BY DEF CadInv, Follows, Due
<1>2. IsNext => nextRunAt \in Passed
  BY DEF IsNext, Passed, Due
<1> QED
  BY <1>1, <1>2 DEF IsPutOff

LEMMA FollowsStep ==
  ASSUME CadInv, CadNext
  PROVE  Follows'
<1>1. CadTypes /\ CadTypes' /\ hour \in Nat /\ hour' \in Nat /\ plan.cadence \in Cadences
      /\ plan \in [what : {"mission", "patrol"}, cadence : Cadences, enabled : BOOLEAN]
  BY TypesStep, Bounds DEF CadInv, CadTypes
<1>2. ASSUME NEW c \in Cadences, NEW on \in BOOLEAN, PatchSchedule(c, on) PROVE Follows'
  <2>1. /\ plan'.cadence = c /\ plan'.what = plan.what /\ UNCHANGED <<shift, hour>> /\ Local
        /\ Local' = Local
    BY <1>1, <1>2 DEF PatchSchedule, Local
  <2>2. CASE c = plan.cadence /\ UNCHANGED <<nextRunAt, base>>
    BY <1>1, <2>1, <2>2, LeftAlone
  <2>3. CASE nextRunAt' = NextDue(c) /\ base' = hour
    BY <1>1, <2>1, <2>3, SetAnew
  <2> QED
    BY <1>2, <2>2, <2>3 DEF PatchSchedule
<1>3. ASSUME NEW c \in Cadences, NEW on \in BOOLEAN, SavePtzPlan(c, on) PROVE Follows'
  <2>1. /\ plan'.cadence = c /\ plan'.what = plan.what /\ UNCHANGED <<shift, hour>> /\ ~Local
        /\ Local' = Local /\ plan'.enabled = on /\ base' = hour
        /\ nextRunAt' = IF on THEN NextDue(c) ELSE Never
    BY <1>1, <1>3 DEF SavePtzPlan, Local
  <2>2. CASE on = TRUE
    BY <1>1, <2>1, <2>2, SetAnew
  <2>3. CASE on = FALSE
    BY <2>1, <2>3 DEF Follows
  <2> QED
    BY <2>2, <2>3
<1>4. CASE TickSchedules
  <2>1. UNCHANGED <<shift, hour, plan>> /\ Local' = Local
    BY <1>4 DEF TickSchedules, Local
  <2>2. CASE busy
    <3>1. nextRunAt' = hour + 1 /\ base' = base /\ Due
      BY <1>4, <2>2 DEF TickSchedules
    <3>2. SUFFICES ASSUME plan.cadence.kind = "weekly", Smooth(Local, base)' PROVE IsPutOff'
      BY <2>1 DEF Follows
    <3>3. Smooth(Local, base) /\ Passed' = Passed
      BY <2>1, <3>1, <3>2 DEF Smooth, DateOf, Midnight, Passed, Occurrences, At, OnDay
    <3>4. Passed # {}
      BY <3>1, <3>2, <3>3, DueHasPassed
    <3> QED
      BY <1>1, <2>1, <3>1, <3>3, <3>4 DEF IsPutOff
  <2>3. CASE ~busy /\ plan.cadence.kind # "once"
    BY <1>1, <1>4, <2>1, <2>3, SetAnew DEF TickSchedules
  <2>4. CASE plan.cadence.kind = "once"
    BY <2>1, <2>4 DEF Follows
  <2> QED
    BY <2>2, <2>3, <2>4
<1>5. CASE TickPlans
  BY <1>1, <1>5, SetAnew DEF TickPlans
<1>6. CASE Busyness \/ UpOrDown
  BY <1>1, <1>6, LeftAlone DEF Busyness, UpOrDown, Local
<1>7. CASE HourPasses
  BY <1>1, <1>7, LeftAlone DEF HourPasses, Local
<1> QED
  BY <1>2, <1>3, <1>4, <1>5, <1>6, <1>7 DEF CadNext

LEMMA CadSteps == CadInv /\ [CadNext]_cadVars => CadInv'
<1>1. ASSUME CadInv, UNCHANGED cadVars PROVE CadInv'
  <2>1. CadTypes'
    BY <1>1 DEF CadInv, CadTypes, ShiftType, cadVars
  <2>2. Follows'
    BY <1>1, <2>1, LeftAlone, Bounds DEF CadInv, CadTypes, cadVars, Local
  <2> QED
    BY <2>1, <2>2 DEF CadInv
<1> QED
  BY <1>1, TypesStep, FollowsStep DEF CadInv

\* The row of a schedule keeps its types; no time it names is further than a
\* week and a day beyond the horizon (world.ts:1140-1151, ptz.ts:127-137).
THEOREM SchedulesTypeCorrect == CadSpec => []CadTypeOK
<1>1. CadInv => CadTypeOK
  BY DEF CadInv, CadTypes, ShiftType, CadTypeOK
<1> QED
  BY <1>1, CadStarts, CadSteps, PTL DEF CadSpec

\* The next run of a weekly schedule is the next of its days and hours, or made
\* up at the next tick, once, and none is forgotten, whatever was edited, put
\* off or missed (world.ts:1143-1150, 1201-1225, ptz.ts:127-137, 454-483).
THEOREM RunsAreRemembered == CadSpec => []NoRunIsForgotten
<1>1. ASSUME CadInv PROVE NoRunIsForgotten
  <2>1. SUFFICES ASSUME plan.cadence.kind = "weekly", plan.enabled, ~(Local /\ Stumbles(base))
        PROVE  IF Passed # {} THEN nextRunAt # Never /\ nextRunAt <= hour + 1
               ELSE \A o \in Occurrences : o > base => /\ nextRunAt \in Occurrences
                                                       /\ base < nextRunAt /\ nextRunAt <= o
    BY DEF NoRunIsForgotten
  <2>2. Smooth(Local, base)
    <3>1. CASE Local = TRUE
      BY <2>1, <3>1, SmoothUnless DEF Smooth
    <3>2. CASE Local = FALSE
      BY <3>2 DEF Smooth
    <3> QED
      BY <3>1, <3>2 DEF Local
  <2>3. IsNext \/ IsPutOff
    BY <1>1, <2>1, <2>2 DEF CadInv, Follows
  <2>4. hour \in Nat /\ base \in Nat /\ nextRunAt \in Nat
    BY <1>1, Bounds DEF CadInv, CadTypes
  <2>5. CASE IsPutOff
    BY <2>4, <2>5 DEF IsPutOff, Never
  <2>6. CASE IsNext
    <3>1. Occurrences \subseteq Nat
      <4>1. Local \in BOOLEAN /\ ShiftType /\ plan.cadence \in Cadences
        BY <1>1 DEF CadInv, CadTypes, Local
      <4> QED
        BY <2>1, <4>1, OccurrencesAreTimes DEF Occurrences, OccurrencesOf
    <3>2. nextRunAt # Never /\ base < nextRunAt /\ nextRunAt \in Occurrences
          /\ \A o \in Occurrences : o > base => nextRunAt <= o
      BY <2>4, <2>6 DEF IsNext, Never
    <3>3. ASSUME NEW o \in Passed PROVE nextRunAt <= hour + 1
      <4>1. o \in Occurrences /\ o > base /\ o <= hour /\ o \in Nat
        BY <2>4, <3>1 DEF Passed
      <4> QED
        BY <2>4, <3>2, <4>1
    <3> QED
      BY <3>2, <3>3
  <2> QED
    BY <2>3, <2>5, <2>6
<1> QED
  BY <1>1, CadStarts, CadSteps, PTL DEF CadSpec

-----------------------------------------------------------------------------
(* Cadence: the calendar that is shown.                                    *)

\* What comes after a moment, as the calendar and as the scheduler reckon it.
NextDatesOf(l, a) == [d \in Week |-> DateOf(l, a) + d]
Following(c, a) == IF c.kind = "once" THEN Never ELSE NextRun(c, a)

LEMMA FirstsOf ==
  ASSUME ShiftType, NEW l \in BOOLEAN, NEW c \in Cadences, c.kind = "weekly",
         NEW a \in 0..(Horizon - 1)
  PROVE  LET f == FirstOf(l, c, a, DatesFrom(l, a))
             g == FirstOf(l, c, a, NextDatesOf(l, a))
         IN /\ f \in 0..Latest /\ (f = Never \/ f > a)
            /\ g \in 0..Latest /\ (g = Never \/ g > a)
            /\ Smooth(l, a) => f = g
<1>1. a \in 0..Horizon /\ a \in Nat /\ a <= Horizon - 1
  BY Bounds
<1>2. FirstOf(l, c, a, DatesFrom(l, a)) \in 0..Latest
      /\ (FirstOf(l, c, a, DatesFrom(l, a)) = Never \/ FirstOf(l, c, a, DatesFrom(l, a)) > a)
  BY <1>1, DatesAreBounded, FirstIsBounded
<1>3. PICK D \in Nat : D = DateOf(l, a) /\ Midnight(l, D) <= a
  <2>1. DateOf(l, a) \in 0..(LastDay + 1) /\ Midnight(l, DateOf(l, a)) <= a
    BY <1>1, DateNow
  <2> QED
    BY <2>1, Bounds
<1>4. PICK dates : dates = NextDatesOf(l, a)
  OBVIOUS
<1>5. DOMAIN dates = Week /\ \A d \in Week : dates[d] = D + d
  BY <1>3, <1>4 DEF NextDatesOf
<1>6. ASSUME NEW d \in Week
      PROVE  D + d \in Nat /\ Midnight(l, D + d) <= Horizon + WeekDays * DayHours
  <2>1. d \in Nat /\ d <= WeekDays
    BY Bounds DEF Week
  <2>2. PICK h \in Nat, w \in Nat : h = d * DayHours /\ w = WeekDays * DayHours /\ h <= w
    BY <2>1, Bounds, Times
  <2>3. PICK m \in Nat : m = Midnight(l, D)
    BY MidnightIs
  <2>4. PICK s \in 0..LastDay, by \in -1..1 : s = shift.day /\ by = shift.by
    BY DEF ShiftType
  <2>5. Midnight(l, D + d) = m + h + (IF l /\ D <= s /\ s < D + d THEN by ELSE 0)
    BY <2>1, <2>2, <2>3, <2>4, DaysOn
  <2> QED
    BY <1>1, <1>3, <2>1, <2>2, <2>3, <2>4, <2>5, Bounds
<1>7. FirstOf(l, c, a, dates) \in 0..Latest
      /\ (FirstOf(l, c, a, dates) = Never \/ FirstOf(l, c, a, dates) > a)
  <2>1. \A d \in Week : dates[d] \in Nat
                          /\ Midnight(l, dates[d]) <= Horizon + WeekDays * DayHours
    BY <1>5, <1>6
  <2> QED
    BY <1>5, <2>1, FirstIsBounded
<1>8. Smooth(l, a) => DatesFrom(l, a) = NextDatesOf(l, a)
  BY <1>1, DatesAreNext DEF NextDatesOf
<1> QED
  BY <1>2, <1>4, <1>7, <1>8

LEMMA EntryIs ==
  ASSUME ShiftType, NEW c \in Cadences, NEW a \in 0..(Horizon - 1)
  PROVE  /\ FollowingEntry(c, a) \in 0..Latest
         /\ FollowingEntry(c, a) = Never \/ FollowingEntry(c, a) > a
         /\ Following(c, a) \in 0..Latest
         /\ Following(c, a) = Never \/ Following(c, a) > a
         /\ ~(c.kind = "weekly" /\ Stumbles(a)) => FollowingEntry(c, a) = Following(c, a)
<1>1. CASE c.kind = "weekly"
  <2>1. FollowingEntry(c, a) = FirstOf(TRUE, c, a, NextDatesOf(TRUE, a))
    BY <1>1 DEF FollowingEntry, NextDates, NextDatesOf
  <2>2. Following(c, a) = FirstOf(TRUE, c, a, DatesFrom(TRUE, a))
    BY <1>1 DEF Following, NextRun, DatesFrom
  <2>3. \A l \in BOOLEAN :
          LET f == FirstOf(l, c, a, DatesFrom(l, a))
              g == FirstOf(l, c, a, NextDatesOf(l, a))
          IN /\ f \in 0..Latest /\ (f = Never \/ f > a)
             /\ g \in 0..Latest /\ (g = Never \/ g > a)
             /\ Smooth(l, a) => f = g
    BY <1>1, FirstsOf
  <2>4. ~Stumbles(a) => Smooth(TRUE, a)
    BY SmoothUnless
  <2> QED
    BY <1>1, <2>1, <2>2, <2>3, <2>4, Zenon
<1>2. CASE c.kind = "interval"
  <2>1. c.every = DayHours - 1
    BY <1>2 DEF Cadences
  <2>2. FollowingEntry(c, a) = a + c.every /\ Following(c, a) = a + c.every
    BY <1>2 DEF FollowingEntry, Following, NextRun
  <2> QED
    BY <1>2, <2>1, <2>2, Bounds
<1>3. CASE c.kind = "once"
  <2>1. FollowingEntry(c, a) = Never /\ Following(c, a) = Never
    BY <1>3 DEF FollowingEntry, Following
  <2> QED
    BY <1>3, <2>1, Bounds DEF Never
<1> QED
  BY <1>1, <1>2, <1>3 DEF Cadences

\* A walk that goes on or ends at every moment is one.
Walk(w, next, B, n) ==
  w = [a \in 0..Latest |-> IF a = 0 \/ a >= Horizon \/ a < n THEN {} ELSE B[a] \cup w[next[a]]]

LEMMA WalkExists ==
  ASSUME NEW next \in [0..Latest -> 0..Latest], NEW B,
         \A a \in 1..(Horizon - 1) : next[a] = 0 \/ next[a] > a
  PROVE  \E w : Walk(w, next, B, 0)
<1> DEFINE T == {n \in 0..Horizon : \E w : Walk(w, next, B, n)}
<1>1. Horizon \in Nat /\ Latest \in Nat /\ Horizon <= Latest
  BY Bounds
<1>2. Horizon \in T
  <2>1. PICK w : w = [a \in 0..Latest |-> {}]
    OBVIOUS
  <2>2. \A a \in 0..Latest : a = 0 \/ a >= Horizon \/ a < Horizon
    BY <1>1
  <2>3. Walk(w, next, B, Horizon)
    BY <2>1, <2>2 DEF Walk
  <2> QED
    BY <1>1, <2>3
<1>3. PICK n \in T : \A k \in T : n <= k
  <2>1. T \in SUBSET Nat
    BY <1>1
  <2> QED
    BY <1>2, <2>1, LeastNumber
<1>4. ASSUME n # 0 PROVE FALSE
  <2>1. PICK m \in 0..(Horizon - 1) : n = m + 1
    <3>1. n - 1 \in 0..(Horizon - 1) /\ n = (n - 1) + 1
      BY <1>1, <1>4
    <3> QED
      BY <3>1
  <2>2. PICK w : Walk(w, next, B, n)
    OBVIOUS
  <2>3. m \in 0..Latest /\ m \in Nat
    BY <1>1
  <2>4. PICK h : h = [a \in 0..Latest |-> IF a # m \/ m = 0 THEN w[a] ELSE B[m] \cup w[next[m]]]
    OBVIOUS
  <2>5. w[0] = {} /\ h[0] = {}
    BY <1>1, <2>2, <2>4 DEF Walk
  <2>6. ASSUME NEW a \in 0..Latest
        PROVE  h[a] = IF a = 0 \/ a >= Horizon \/ a < m THEN {} ELSE B[a] \cup h[next[a]]
    <3>1. w[a] = IF a = 0 \/ a >= Horizon \/ a < n THEN {} ELSE B[a] \cup w[next[a]]
      BY <2>2 DEF Walk
    <3>2. CASE a = 0 \/ a >= Horizon \/ a < m
      <4>1. a # m \/ m = 0
        BY <1>1, <2>3, <3>2
      <4>2. a = 0 \/ a >= Horizon \/ a < n
        BY <2>1, <2>3, <3>2
      <4> QED
        BY <2>4, <3>1, <3>2, <4>1, <4>2
    <3>3. CASE ~(a = 0 \/ a >= Horizon \/ a < m)
      <4>1. a \in 1..(Horizon - 1) /\ a >= m /\ next[a] \in 0..Latest
        BY <1>1, <2>3, <3>3
      <4>2. next[a] # m \/ m = 0
        BY <2>3, <4>1
      <4>3. h[next[a]] = w[next[a]]
        BY <2>4, <4>1, <4>2
      <4>4. CASE a = m
        BY <2>4, <3>3, <4>3, <4>4
      <4>5. CASE a # m
        <5>1. ~(a < n)
          BY <2>1, <2>3, <4>1, <4>5
        <5> QED
          BY <2>4, <3>1, <3>3, <4>3, <4>5, <5>1
      <4> QED
        BY <4>4, <4>5
    <3> QED
      BY <3>2, <3>3
  <2>7. Walk(h, next, B, m)
    <3>1. h = [a \in 0..Latest |-> h[a]]
      BY <2>4
    <3> QED
      BY <2>6, <3>1 DEF Walk
  <2>8. m \in T
    BY <1>1, <2>7
  <2> QED
    BY <1>3, <2>1, <2>3, <2>8
<1> QED
  BY <1>3, <1>4

\* The walks of the calendar and of the scheduler.
Entries(c, minimum) ==
  CHOOSE w : w = [at \in 0..Latest |->
    IF at = Never \/ at >= Horizon THEN {}
    ELSE (IF at >= minimum THEN {at} ELSE {}) \cup w[FollowingEntry(c, at)]]
Moments(c) ==
  CHOOSE w : w = [at \in 0..Latest |->
    IF at = Never \/ at >= Horizon THEN {} ELSE {at} \cup w[Following(c, at)]]

LEMMA CalendarIs ==
  /\ \A m : PlannedCalendar(m) =
              IF plan.enabled /\ nextRunAt # Never
              THEN Entries(plan.cadence, m)[FirstEntry(plan.cadence, m)] ELSE {}
  /\ DueMoments = Moments(plan.cadence)[nextRunAt]
BY DEF PlannedCalendar, DueMoments, Entries, Moments, Following

LEMMA EntriesWalk ==
  ASSUME ShiftType, NEW c \in Cadences, NEW m, NEW a \in 0..Latest
  PROVE  Entries(c, m)[a] =
           IF a = 0 \/ a >= Horizon THEN {}
           ELSE (IF a >= m THEN {a} ELSE {}) \cup Entries(c, m)[FollowingEntry(c, a)]
<1> DEFINE next == [at \in 0..Latest |-> IF at = 0 \/ at >= Horizon THEN 0 ELSE FollowingEntry(c, at)]
           B == [at \in 0..Latest |-> IF at >= m THEN {at} ELSE {}]
           Fits(w) == w = [at \in 0..Latest |->
             IF at = Never \/ at >= Horizon THEN {}
             ELSE (IF at >= m THEN {at} ELSE {}) \cup w[FollowingEntry(c, at)]]
<1>1. next \in [0..Latest -> 0..Latest]
      /\ \A at \in 1..(Horizon - 1) : next[at] = 0 \/ next[at] > at
  <2>1. \A at \in 0..Latest : ~(at = 0 \/ at >= Horizon) => at \in 0..(Horizon - 1)
    BY Bounds
  <2>2. \A at \in 0..(Horizon - 1) : /\ FollowingEntry(c, at) \in 0..Latest
                                     /\ FollowingEntry(c, at) = 0 \/ FollowingEntry(c, at) > at
    BY EntryIs DEF Never
  <2>3. \A at \in 1..(Horizon - 1) : at \in 0..Latest /\ at \in 0..(Horizon - 1)
    BY Bounds
  <2> QED
    BY <2>1, <2>2, <2>3, Bounds
<1>2. PICK w : Walk(w, next, B, 0)
  <2> HIDE DEF next, B
  <2> QED
    BY <1>1, WalkExists
<1>3. Fits(w)
  <2>1. \A at \in 0..Latest : (at = 0 \/ at >= Horizon \/ at < 0) <=> (at = Never \/ at >= Horizon)
    BY DEF Never
  <2>2. \A at \in 0..Latest : ~(at = Never \/ at >= Horizon) =>
           next[at] = FollowingEntry(c, at) /\ B[at] = IF at >= m THEN {at} ELSE {}
    BY DEF Never
  <2>3. w = [at \in 0..Latest |-> IF at = 0 \/ at >= Horizon \/ at < 0 THEN {}
                                  ELSE B[at] \cup w[next[at]]]
    BY <1>2 DEF Walk
  <2> HIDE DEF next, B
  <2> QED
    BY <2>1, <2>2, <2>3
<1>4. Fits(Entries(c, m))
  BY <1>3 DEF Entries
<1> QED
  BY <1>4 DEF Never

LEMMA MomentsWalk ==
  ASSUME ShiftType, NEW c \in Cadences, NEW a \in 0..Latest
  PROVE  Moments(c)[a] = IF a = 0 \/ a >= Horizon THEN {} ELSE {a} \cup Moments(c)[Following(c, a)]
<1> DEFINE next == [at \in 0..Latest |-> IF at = 0 \/ at >= Horizon THEN 0 ELSE Following(c, at)]
           B == [at \in 0..Latest |-> {at}]
           Fits(w) == w = [at \in 0..Latest |->
             IF at = Never \/ at >= Horizon THEN {} ELSE {at} \cup w[Following(c, at)]]
<1>1. next \in [0..Latest -> 0..Latest]
      /\ \A at \in 1..(Horizon - 1) : next[at] = 0 \/ next[at] > at
  <2>1. \A at \in 0..Latest : ~(at = 0 \/ at >= Horizon) => at \in 0..(Horizon - 1)
    BY Bounds
  <2>2. \A at \in 0..(Horizon - 1) : /\ Following(c, at) \in 0..Latest
                                     /\ Following(c, at) = 0 \/ Following(c, at) > at
    BY EntryIs DEF Never
  <2>3. \A at \in 1..(Horizon - 1) : at \in 0..Latest /\ at \in 0..(Horizon - 1)
    BY Bounds
  <2> QED
    BY <2>1, <2>2, <2>3, Bounds
<1>2. PICK w : Walk(w, next, B, 0)
  <2> HIDE DEF next, B
  <2> QED
    BY <1>1, WalkExists
<1>3. Fits(w)
  <2>1. \A at \in 0..Latest : (at = 0 \/ at >= Horizon \/ at < 0) <=> (at = Never \/ at >= Horizon)
    BY DEF Never
  <2>2. \A at \in 0..Latest : ~(at = Never \/ at >= Horizon) =>
           next[at] = Following(c, at) /\ B[at] = {at}
    BY DEF Never
  <2>3. w = [at \in 0..Latest |-> IF at = 0 \/ at >= Horizon \/ at < 0 THEN {}
                                  ELSE B[at] \cup w[next[at]]]
    BY <1>2 DEF Walk
  <2> HIDE DEF next, B
  <2> QED
    BY <2>1, <2>2, <2>3
<1>4. Fits(Moments(c))
  BY <1>3 DEF Moments
<1> QED
  BY <1>4 DEF Never

\* From any moment the two walks meet the same moments, as long as the scheduler
\* does not stumble.
LEMMA WalksAgree ==
  ASSUME ShiftType, NEW c \in Cadences, NEW m \in Nat, NEW a \in 0..Latest,
         c.kind = "weekly" => \A f \in Moments(c)[a] : ~Stumbles(f)
  PROVE  Entries(c, m)[a] = {f \in Moments(c)[a] : f >= m}
<1> DEFINE Agree(b) ==
             (c.kind = "weekly" => \A f \in Moments(c)[b] : ~Stumbles(f)) =>
                Entries(c, m)[b] = {f \in Moments(c)[b] : f >= m}
           T == {k \in 0..Latest : ~Agree(Latest - k)}
<1>1. T = {}
  <2>1. SUFFICES ASSUME T # {} PROVE FALSE
    OBVIOUS
  <2>2. PICK k \in T : \A j \in T : k <= j
    <3>1. T \in SUBSET Nat
      BY Bounds
    <3> QED
      BY <2>1, <3>1, LeastNumber
  <2>3. PICK b \in 0..Latest : b = Latest - k /\ ~Agree(b)
    BY <2>2, Bounds
  <2>4. ~(b = 0 \/ b >= Horizon)
    <3>1. ASSUME b = 0 \/ b >= Horizon PROVE Agree(b)
      <4>1. Entries(c, m)[b] = {} /\ Moments(c)[b] = {}
        BY <3>1, EntriesWalk, MomentsWalk
      <4> QED
        BY <4>1
    <3> QED
      BY <2>3, <3>1
  <2>5. b \in 0..(Horizon - 1)
    BY <2>4, Bounds
  <2>6. /\ Entries(c, m)[b] = (IF b >= m THEN {b} ELSE {}) \cup Entries(c, m)[FollowingEntry(c, b)]
        /\ Moments(c)[b] = {b} \cup Moments(c)[Following(c, b)]
    <3> HIDE DEF Agree, T
    <3>1. Entries(c, m)[b] =
            (IF b >= m THEN {b} ELSE {}) \cup Entries(c, m)[FollowingEntry(c, b)]
      BY <2>4, EntriesWalk
    <3>2. Moments(c)[b] = {b} \cup Moments(c)[Following(c, b)]
      BY <2>4, MomentsWalk
    <3> QED
      BY <3>1, <3>2
  <2>7. PICK n \in 0..Latest : n = Following(c, b) /\ (n = 0 \/ n > b)
    BY <2>5, EntryIs DEF Never
  <2>8. Agree(n)
    <3>1. CASE n = 0
      <4>1. Entries(c, m)[n] = {} /\ Moments(c)[n] = {}
        BY <3>1, EntriesWalk, MomentsWalk
      <4> QED
        BY <4>1
    <3>2. CASE n > b
      <4>1. PICK j \in 0..Latest : j = Latest - n /\ j < k /\ n = Latest - j
        BY <2>2, <2>3, <2>7, <3>2, Bounds
      <4>2. j \notin T
        BY <2>2, <4>1, Bounds
      <4> QED
        BY <4>1, <4>2
    <3> QED
      BY <2>7, <3>1, <3>2
  <2>9. ASSUME c.kind = "weekly" => \A f \in Moments(c)[b] : ~Stumbles(f)
        PROVE  Entries(c, m)[b] = {f \in Moments(c)[b] : f >= m}
    <3>1. c.kind = "weekly" => ~Stumbles(b)
      BY <2>6, <2>9
    <3>2. FollowingEntry(c, b) = n
      BY <2>5, <2>7, <3>1, EntryIs
    <3>3. Entries(c, m)[n] = {f \in Moments(c)[n] : f >= m}
      BY <2>6, <2>7, <2>8, <2>9
    <3> QED
      BY <2>6, <2>7, <3>2, <3>3
  <2> QED
    BY <2>3, <2>9
<1>2. PICK k \in 0..Latest : a = Latest - k
  <2>1. Latest - a \in 0..Latest /\ a = Latest - (Latest - a)
    BY Bounds
  <2> QED
    BY <2>1
<1>3. Agree(a)
  BY <1>1, <1>2
<1> QED
  BY <1>3

\* Intervals before the time asked for are left out whole: no moment is lost.
LEMMA LeftOutWhole ==
  ASSUME ShiftType, NEW c \in Cadences, c.kind = "interval", NEW m \in 0..Horizon,
         nextRunAt \in 1..Latest
  PROVE  /\ FirstEntry(c, m) \in 0..Latest
         /\ {f \in Moments(c)[nextRunAt] : f >= m} = {f \in Moments(c)[FirstEntry(c, m)] : f >= m}
<1>1. CASE nextRunAt >= m
  <2>1. FirstEntry(c, m) = nextRunAt
    BY <1>1, Bounds DEF FirstEntry
  <2> QED
    BY <2>1, Bounds
<1>2. CASE nextRunAt < m
  <2>1. PICK e \in Nat \ {0}, first \in Nat :
          e = c.every /\ e = DayHours - 1 /\ first = nextRunAt /\ first >= 1 /\ first < m
    <3>1. c.every = DayHours - 1
      BY DEF Cadences
    <3> QED
      BY <1>2, <3>1, Bounds
  <2>2. PICK x \in Nat : x = m - first + e - 1
    BY <2>1, Bounds
  <2>3. x \in Int /\ e \in Nat \ {0}
    BY <2>1, <2>2
  <2>4. PICK K \in Int : K = x \div e
    BY <2>3, Divided
  <2>5. PICK r \in 0..(e - 1) : x = e * K + r
    <3>1. PICK r \in 0..(e - 1) : r = x % e
      BY <2>3, Divided
    <3>2. x = e * K + r
      BY <2>3, <2>4, <3>1, Divided
    <3> QED
      BY <3>2
  <2>6. K >= 1 /\ K \in Nat
    <3>1. ASSUME K <= 0 PROVE FALSE
      <4>1. e * K <= 0
        BY <2>1, <3>1
      <4> QED
        BY <2>1, <2>2, <2>5, <4>1, Bounds
    <3> QED
      BY <3>1
  <2>7. FirstEntry(c, m) = first + K * e
    <3>1. Skipped(c, m) = K
      BY <2>1, <2>2, <2>4 DEF Skipped, Ceil
    <3> QED
      BY <1>2, <2>1, <3>1 DEF FirstEntry
  <2>8. PICK y \in Nat : y = K * e /\ y = m - first + e - 1 - r
    BY <2>1, <2>2, <2>5, <2>6, Bounds
  <2>9. first + y \in 0..Latest
    BY <2>1, <2>5, <2>8, Bounds
  <2> DEFINE Same(k) == {f \in Moments(c)[first] : f >= m} = {f \in Moments(c)[first + k * e] : f >= m}
             T == {k \in 0..K : ~Same(k)}
  <2>10. T = {}
    <3>1. SUFFICES ASSUME T # {} PROVE FALSE
      OBVIOUS
    <3>2. PICK k \in T : \A j \in T : k <= j
      <4>1. T \in SUBSET Nat
        BY <2>6
      <4> QED
        BY <3>1, <4>1, LeastNumber
    <3>3. k # 0
      <4>1. first + 0 * e = first
        BY <2>1
      <4> QED
        BY <3>2, <4>1
    <3>4. PICK j \in 0..K : k = j + 1 /\ Same(j)
      <4>1. k - 1 \in 0..K /\ k = (k - 1) + 1 /\ ~(k <= k - 1)
        BY <2>6, <3>2, <3>3
      <4>2. k - 1 \notin T
        BY <3>2, <4>1
      <4> QED
        BY <4>1, <4>2
    <3>5. PICK u \in Nat, v \in Nat : u = j * e /\ v = k * e /\ v = u + e
      BY <2>1, <2>6, <3>2, <3>4, Times
    <3>6. v <= y
      <4>1. k \in Nat /\ k <= K
        BY <2>6, <3>2
      <4> QED
        BY <2>1, <2>6, <2>8, <3>5, <4>1, Times
    <3>7. first + u < m /\ first + u \in 1..(Horizon - 1) /\ first + u \in 0..Latest
      BY <2>1, <2>5, <2>8, <3>5, <3>6, Bounds
    <3>8. PICK a \in 1..(Horizon - 1) : a = first + u /\ a < m /\ a \in 0..Latest
      BY <3>7
    <3>9. Moments(c)[a] = {a} \cup Moments(c)[Following(c, a)]
      <4>1. ~(a = 0 \/ a >= Horizon)
        BY Bounds
      <4> QED
        BY <3>8, <4>1, MomentsWalk
    <3>10. Following(c, a) = first + v
      BY <2>1, <3>5, <3>8 DEF Following, NextRun
    <3>11. {f \in Moments(c)[a] : f >= m} = {f \in Moments(c)[first + v] : f >= m}
      <4>1. ~(a >= m)
        BY <3>8, Bounds
      <4> QED
        BY <3>9, <3>10, <4>1
    <3>12. Same(k)
      BY <3>4, <3>5, <3>8, <3>11
    <3> QED
      BY <3>2, <3>12
  <2>11. Same(K)
    <3>1. K \in 0..K
      BY <2>6
    <3>2. ~Same(K) => K \in T
      BY <3>1
    <3> QED
      BY <2>10, <3>2
  <2> QED
    BY <2>1, <2>7, <2>8, <2>9, <2>11
<1> QED
  BY <1>1, <1>2, Bounds

\* The calendar shows, of any time to come, the moments at which the scheduler
\* will fire and no other, in any state of its row.
LEMMA CalendarAgrees ==
  ASSUME CadTypes
  PROVE  CalendarIsTrue
<1>1. SUFFICES ASSUME Local, plan.enabled, nextRunAt >= hour,
                      plan.cadence.kind = "weekly" => ~\E f \in DueMoments : Stumbles(f),
                      NEW m \in hour..Horizon
               PROVE  PlannedCalendar(m) = {f \in DueMoments : f >= m}
  BY DEF CalendarIsTrue
<1>2. PICK c \in Cadences : c = plan.cadence
  BY DEF CadTypes
<1>3. ShiftType /\ m \in 0..Horizon /\ m \in Nat /\ nextRunAt \in 0..Latest
  BY Bounds DEF CadTypes
<1>4. DueMoments = Moments(c)[nextRunAt]
  BY <1>2, CalendarIs
<1>5. CASE nextRunAt = 0
  <2>1. Moments(c)[nextRunAt] = {}
    BY <1>3, <1>5, MomentsWalk
  <2>2. PlannedCalendar(m) = {}
    BY <1>5, CalendarIs DEF Never
  <2> QED
    BY <1>4, <2>1, <2>2
<1>6. CASE nextRunAt # 0
  <2>1. PlannedCalendar(m) = Entries(c, m)[FirstEntry(c, m)]
    BY <1>1, <1>2, <1>6, CalendarIs DEF Never
  <2>2. CASE c.kind = "interval"
    <3>1. nextRunAt \in 1..Latest
      BY <1>3, <1>6, Bounds
    <3>2. /\ FirstEntry(c, m) \in 0..Latest
          /\ {f \in Moments(c)[nextRunAt] : f >= m} = {f \in Moments(c)[FirstEntry(c, m)] : f >= m}
      BY <1>3, <2>2, <3>1, LeftOutWhole
    <3>3. Entries(c, m)[FirstEntry(c, m)] = {f \in Moments(c)[FirstEntry(c, m)] : f >= m}
      BY <1>3, <2>2, <3>2, WalksAgree
    <3> QED
      BY <1>4, <2>1, <3>2, <3>3
  <2>3. CASE c.kind # "interval"
    <3>1. FirstEntry(c, m) = nextRunAt
      BY <2>3 DEF FirstEntry
    <3>2. c.kind = "weekly" => \A f \in Moments(c)[nextRunAt] : ~Stumbles(f)
      BY <1>1, <1>2, <1>4
    <3>3. Entries(c, m)[nextRunAt] = {f \in Moments(c)[nextRunAt] : f >= m}
      BY <1>3, <3>2, WalksAgree
    <3> QED
      BY <1>4, <2>1, <3>1, <3>3
  <2> QED
    BY <2>2, <2>3
<1> QED
  BY <1>5, <1>6

\* What is due is what was scheduled and what is shown (world.ts:1140-1225,
\* ptz.ts:127-137, operations.ts:238-287).
THEOREM SchedulesAreKept == CadSpec => []SchedulesKeepTime
<1>1. CadInv => CalendarIsTrue
  BY CalendarAgrees DEF CadInv
<1> QED
  BY <1>1, RunsAreRemembered, CadStarts, CadSteps, PTL DEF CadSpec, SchedulesKeepTime

-----------------------------------------------------------------------------
(* What is on record, together.                                            *)

\* A step of the graph they share is one of each part, or leaves it as it was.
LEMMA OnePartSteps ==
  ASSUME [RecordsNext]_recordVars
  PROVE  /\ [Next]_vars /\ [LedgerNext]_ledgerVars /\ [RegNext]_regVars /\ [CadNext]_cadVars
         /\ [PrevNext]_prevVars /\ [PointNext]_pointVars /\ [WatchNext]_watchVars
<1>1. CASE UNCHANGED recordVars
  BY <1>1 DEF recordVars
<1>2. CASE RecordsNext
  BY <1>2 DEF RecordsNext, RegNext, PointNext
<1> QED
  BY <1>1, <1>2

\* In the graph the parts share each of them behaves as it does alone, so what is
\* proved of one of them holds there.
THEOREM RecordsAreThemselves ==
  RecordsSpec =>
    /\ Spec /\ LedgerSpec /\ RegSpec /\ CadSpec
    /\ PrevSpec /\ PointSpec /\ WatchSpec
<1>1. RecordsInit => /\ Init /\ LedgerInit /\ RegInit /\ CadInit
                     /\ PrevInit /\ PointInit /\ WatchInit
  BY DEF RecordsInit
<1> QED
  BY <1>1, OnePartSteps, PTL
     DEF RecordsSpec, Spec, LedgerSpec, RegSpec, CadSpec, PrevSpec, PointSpec, WatchSpec

\* Every table, file, page and rule of the seven parts keeps its type.
THEOREM RecordsTypesHold == RecordsSpec => []RecordsTypeOK
<1>1. PrevInv => PrevTypeOK
  BY DEF PrevInv
<1>2. PointInv => PointTypeOK
  BY DEF PointInv, PointType, PointTypeOK
<1>3. PrevSpec => []PrevTypeOK
  BY <1>1, PrevStarts, PrevSteps, PTL DEF PrevSpec
<1>4. PointSpec => []PointTypeOK
  BY <1>2, PointInvHolds, PTL
<1>5. TypeOK /\ LedgerTypeOK /\ RegTypeOK /\ CadTypeOK /\ PrevTypeOK /\ PointTypeOK /\ WatchTypeOK
        => RecordsTypeOK
  BY DEF RecordsTypeOK
<1> QED
  BY <1>3, <1>4, <1>5, RecordsAreThemselves, PtzTypes, LedgerTypeCorrect, RegistryTypeCorrect,
     SchedulesTypeCorrect, WatchTypeCorrect, PTL

\* And what each of them promises of itself holds of all of them at once: the
\* reservations of cameras, events and their rules, references, times, points,
\* results and alerts.
THEOREM RecordsHold ==
  RecordsSpec => [](/\ LockIsTheHolder /\ EventsStayTrue /\ RecordsAgree
                    /\ SchedulesKeepTime /\ AnalysisHolds /\ PointsHold)
<1>1. EvidenceHolds /\ AlertsAreEarned => AnalysisHolds
  BY DEF AnalysisHolds
<1> QED
  BY <1>1, RecordsAreThemselves, LockNamesTheHolder, EventsKeepTrue, RegistryAgrees,
     SchedulesAreKept, EvidenceStays, AlertsStayEarned, PointsHoldAlways, PTL

\* Of video analysis by itself: what is judged, and what becomes of results and
\* pictures (rules.py:40-122, vision.ts:541-673).
THEOREM AnalysisAlwaysHolds == RecordsSpec => []AnalysisHolds
BY RecordsHold, PTL
=============================================================================
