--------------------------- MODULE ServicesProofs ---------------------------
(***************************************************************************)
(* What TLAPS proves of the services of the platform beside the patrols    *)
(* (PtzProofs), and of all of them together, for every value of their      *)
(* constants.                                                              *)
(*                                                                         *)
(* Vision: one alarm for an episode, of results that come late, twice or   *)
(* in any order, and none forgotten.                                       *)
(* Recordings: a clip on offer is there, and a completed one is not lost.  *)
(* Console: a browser shows its site as the platform has it, once the      *)
(* frames under way are handled.                                           *)
(***************************************************************************)
EXTENDS MCServices, PtzProofs, FiniteSetTheorems, WellFoundedInduction, TLAPS

-----------------------------------------------------------------------------
(* The least number.                                                       *)

LEMMA LeastNumber ==
  ASSUME NEW T \in SUBSET Nat, T # {}
  PROVE  \E x \in T : \A y \in T : x <= y
<1>1. PICK R : R = OpToRel(<, Nat)
  OBVIOUS
<1>2. IsWellFoundedOn(R, Nat)
  BY <1>1, NatLessThanWellFounded
<1>3. PICK x \in T : \A y \in T : ~(<<y, x>> \in R)
  BY <1>2, WFMin
<1>4. \A y, z \in Nat : y < z => <<y, z>> \in R
  BY <1>1 DEF OpToRel
<1>5. \A y \in T : ~(y < x)
  BY <1>3, <1>4
<1> QED
  BY <1>5

-----------------------------------------------------------------------------
(* Vision: the outbox.                                                     *)

\* A record leaves a sequence, the others stay.
LEMMA RemoveFirstKeeps ==
  ASSUME NEW X, NEW s \in Seq(X), NEW e
  PROVE  /\ RemoveFirst(s, e) \in Seq(X) /\ Len(RemoveFirst(s, e)) <= Len(s)
         /\ ToSet(s) \ ToSet(RemoveFirst(s, e)) \subseteq {e}
<1>1. CASE \E i \in 1..Len(s) : s[i] = e
  <2>1. PICK j : j = SelectInSeq(s, LAMBDA v : v = e)
    OBVIOUS
  <2>2. j \in 1..Len(s) /\ s[j] = e
    <3> DEFINE I == {i \in 1..Len(s) : s[i] = e}
    <3>1. I # {} /\ j = CHOOSE i \in I : \A k \in I : i <= k
      BY <1>1, <2>1 DEF SelectInSeq, Min
    <3>2. I \in SUBSET Nat
      OBVIOUS
    <3>3. \E i \in I : \A k \in I : i <= k
      BY <3>1, <3>2, LeastNumber
    <3> QED
      BY <3>1, <3>3
  <2>3. PICK n : n = Len(s)
    OBVIOUS
  <2>4. n \in Nat /\ j \in 1..n
    BY <2>2, <2>3
  <2>5. PICK u, w : u = SubSeq(s, 1, j - 1) /\ w = SubSeq(s, j + 1, n)
    OBVIOUS
  <2>6. /\ u \in Seq(X) /\ Len(u) = j - 1
        /\ \A i \in 1..(j - 1) : u[i] = s[i]
    BY <2>3, <2>4, <2>5
  <2>7. /\ w \in Seq(X) /\ Len(w) = n - j
        /\ \A i \in 1..(n - j) : w[i] = s[i + j]
    BY <2>3, <2>4, <2>5
  <2>8. RemoveFirst(s, e) = u \o w
    BY <1>1, <2>1, <2>3, <2>5 DEF RemoveFirst, RemoveAt
  <2>9. PICK r : r = u \o w
    OBVIOUS
  <2>10. /\ r \in Seq(X) /\ Len(r) = n - 1
         /\ \A i \in 1..(j - 1) : r[i] = s[i]
         /\ \A i \in 1..(n - j) : r[j - 1 + i] = s[i + j]
    <3>1. r \in Seq(X) /\ Len(r) = n - 1
      <4>1. r \in Seq(X)
        BY <2>6, <2>7, <2>9
      <4>2. Len(r) = Len(u) + Len(w)
        <5>1. \A a, b \in Seq(X) : Len(a \o b) = Len(a) + Len(b)
          OBVIOUS
        <5>2. u \in Seq(X) /\ w \in Seq(X)
          BY <2>6, <2>7
        <5> QED
          BY <5>1, <5>2, <2>9
      <4>3. (j - 1) + (n - j) = n - 1
        BY <2>4
      <4> QED
        BY <4>1, <4>2, <4>3, <2>6, <2>7
    <3>2. \A i \in 1..(n - 1) : r[i] = IF i <= j - 1 THEN u[i] ELSE w[i - (j - 1)]
      BY <2>4, <2>6, <2>7, <2>9
    <3>3. \A i \in 1..(j - 1) : r[i] = s[i]
      BY <3>2, <2>4, <2>6
    <3>4. ASSUME NEW i \in 1..(n - j) PROVE r[j - 1 + i] = s[i + j]
      <4>1. /\ j - 1 + i \in 1..(n - 1) /\ ~(j - 1 + i <= j - 1)
            /\ (j - 1 + i) - (j - 1) = i
        BY <2>4
      <4> QED
        BY <4>1, <3>2, <2>7
    <3> QED
      BY <3>1, <3>3, <3>4
  <2>11. \A i \in 1..n : i # j => s[i] \in ToSet(r)
    <3>1. ASSUME NEW i \in 1..n, i # j PROVE s[i] \in ToSet(r)
      <4>1. CASE i < j
        <5>1. i \in 1..(j - 1) /\ i \in 1..Len(r)
          BY <4>1, <2>4, <2>10
        <5> QED
          BY <5>1, <2>10 DEF ToSet
      <4>2. CASE i > j
        <5>1. i - j \in 1..(n - j) /\ j - 1 + (i - j) = i - 1 /\ (i - j) + j = i
          BY <4>2, <2>4
        <5>2. r[j - 1 + (i - j)] = s[(i - j) + j]
          BY <5>1, <2>10
        <5>3. r[i - 1] = s[i]
          BY <5>1, <5>2
        <5>4. i - 1 \in 1..Len(r)
          BY <4>2, <2>4, <2>10
        <5> QED
          BY <5>3, <5>4 DEF ToSet
      <4> QED
        BY <3>1, <2>4, <4>1, <4>2
    <3> QED
      BY <3>1
  <2>12. ToSet(s) \ ToSet(r) \subseteq {e}
    BY <2>2, <2>3, <2>11 DEF ToSet
  <2> QED
    BY <2>3, <2>4, <2>8, <2>9, <2>10, <2>12
<1>2. CASE ~\E i \in 1..Len(s) : s[i] = e
  BY <1>2 DEF RemoveFirst
<1> QED
  BY <1>1, <1>2

\* A record joins an outbox that has or makes room for it.
LEMMA AppendKeeps ==
  ASSUME NEW X, NEW s \in Seq(X), NEW x \in X, NEW n \in Nat \ {0}, Len(s) <= n,
         NEW t, t = Append(IF Len(s) = n THEN Tail(s) ELSE s, x)
  PROVE  t \in Seq(X) /\ Len(t) <= n /\ (Len(s) # n => ToSet(s) \subseteq ToSet(t))
<1>1. CASE Len(s) = n
  BY <1>1
<1>2. CASE Len(s) # n
  <2>1. t = Append(s, x)
    BY <1>2
  <2>2. \A i \in 1..Len(s) : t[i] = s[i] /\ i \in 1..Len(t)
    BY <2>1
  <2> QED
    BY <1>2, <2>1, <2>2 DEF ToSet
<1> QED
  BY <1>1, <1>2

-----------------------------------------------------------------------------
(* Vision: results, episodes and alarms.                                   *)

Result == [at : Moments, of : Watches, rev : Revisions,
           status : {"normal", "alert", "unknown"}, counted : BOOLEAN, raised : BOOLEAN]

\* The results a configuration's episode is made of.
CountsFor(r, k, v) == r.of = k /\ r.rev = v /\ r.counted
Ends(n, k, v) == CountsFor(n, k, v) /\ n.status = "normal"

\* One result per moment, of a revision there was.
ResultsAreTold ==
  /\ taken \subseteq Result
  /\ \A r, q \in taken : r.at = q.at => r = q
  /\ \A r \in taken : watch[r.of].rev # Absent => r.rev <= watch[r.of].rev
  /\ \A r \in taken : r.raised => r.counted /\ r.status = "alert"

\* The episode is what the results that count make of it.
EpisodeStands ==
  \A k \in Watches : watch[k].rev # Absent =>
    LET v == watch[k].rev IN
    /\ \A r \in taken : CountsFor(r, k, v) => r.at <= episode[k].at
    /\ episode[k].status = "alert" =>
         \E a \in taken : /\ CountsFor(a, k, v) /\ a.status = "alert"
                          /\ \A n \in taken : Ends(n, k, v) => n.at < a.at
    /\ episode[k].status # "alert" =>
         \A a \in taken : CountsFor(a, k, v) /\ a.status = "alert" =>
           \E n \in taken : Ends(n, k, v) /\ a.at < n.at

\* r is the alarm of the stretch that a belongs to.
AlarmOf(r, a) ==
  /\ CountsFor(r, a.of, a.rev) /\ r.raised /\ r.at <= a.at
  /\ ~\E n \in taken : Ends(n, a.of, a.rev) /\ r.at < n.at /\ n.at < a.at
AlarmsHold ==
  \A a \in taken : a.counted /\ a.status = "alert" =>
    \E r \in taken : AlarmOf(r, a) /\ \A q \in taken : AlarmOf(q, a) => q = r

VisionInv == VisTypeOK /\ ResultsAreTold /\ EpisodeStands /\ AlarmsHold

\* What is on record of a stretch, as a set and one by one.
LEMMA AlarmsAre ==
  ASSUME NEW a, NEW q
  PROVE  q \in AlarmsOf(a) <=> q \in taken /\ AlarmOf(q, a)
BY DEF AlarmsOf, AlarmOf, CountsFor, Ends

LEMMA AlarmsAreOne ==
  ASSUME AlarmsHold
  PROVE  OneOnRecord
<1>1. ASSUME NEW a \in taken, a.counted /\ a.status = "alert"
      PROVE  Cardinality(AlarmsOf(a)) = 1
  <2>1. PICK r \in taken : AlarmOf(r, a) /\ \A q \in taken : AlarmOf(q, a) => q = r
    BY <1>1 DEF AlarmsHold
  <2>2. AlarmsOf(a) = {r}
    BY <2>1, AlarmsAre
  <2> QED
    BY <2>2, FS_Singleton
<1> QED
  BY <1>1 DEF OneOnRecord

\* A transaction raises an alarm when the episode is over: every alarm on record
\* has a normal observation after it, older than the one that raises.
LEMMA UndoneIsFresh ==
  ASSUME VisionInv, NEW o \in Observations, NEW good, Verdict(o, good) = "accepted",
         Undone(o)
  PROVE  \A s \in unrecorded' \ unrecorded : AlarmsOf(s) = {}
<1>1. CASE UNCHANGED unrecorded
  BY <1>1
<1>2. CASE /\ Counts(o) /\ o.status = "alert" /\ episode[o.of].status # "alert"
           /\ unrecorded' = unrecorded \cup
                {[at |-> o.at, of |-> o.of, rev |-> o.rev, nth |-> troubles]}
  <2>1. PICK s : s = [at |-> o.at, of |-> o.of, rev |-> o.rev, nth |-> troubles]
    OBVIOUS
  <2>2. s.at = o.at /\ s.of = o.of /\ s.rev = o.rev /\ unrecorded' = unrecorded \cup {s}
    BY <1>2, <2>1
  <2>3. /\ o.of \in Watches /\ watch[o.of].rev # Absent /\ o.rev = watch[o.of].rev
        /\ o.at \in Nat /\ episode[o.of].at \in Nat /\ episode[o.of].at < o.at
    BY <1>2, VisionAssumption DEF Verdict, Counts, Observations, Moments, VisionInv, VisTypeOK
  <2>4. \A r \in taken : r.at \in Nat
    BY VisionAssumption DEF VisionInv, ResultsAreTold, Result, Moments
  <2>5. /\ \A r \in taken : CountsFor(r, o.of, o.rev) => r.at <= episode[o.of].at
        /\ \A a \in taken : CountsFor(a, o.of, o.rev) /\ a.status = "alert" =>
             \E n \in taken : Ends(n, o.of, o.rev) /\ a.at < n.at
    BY <1>2, <2>3 DEF VisionInv, EpisodeStands
  <2>6. ASSUME NEW q \in taken, AlarmOf(q, s) PROVE FALSE
    <3>1. CountsFor(q, o.of, o.rev) /\ q.status = "alert"
      BY <2>2, <2>6 DEF AlarmOf, VisionInv, ResultsAreTold
    <3>2. PICK n \in taken : Ends(n, o.of, o.rev) /\ q.at < n.at
      BY <2>5, <3>1
    <3>3. n.at < s.at
      BY <2>2, <2>3, <2>4, <2>5, <3>2 DEF Ends
    <3> QED
      BY <2>2, <2>6, <3>2, <3>3 DEF AlarmOf
  <2>7. AlarmsOf(s) = {}
    BY <2>6, AlarmsAre
  <2> QED
    BY <2>2, <2>7
<1> QED
  BY <1>1, <1>2 DEF Undone

\* A result that is late or older than what counted changes nothing; the others
\* are newer than all that counted, and so than every end of an episode.
LEMMA TakenKeepsAlarms ==
  ASSUME VisionInv, UNCHANGED watch, NEW o \in Observations,
         o.rev = watch[o.of].rev, \A r \in taken : r.at # o.at, Taken(o)
  PROVE  ResultsAreTold' /\ EpisodeStands' /\ AlarmsHold'
         /\ episode' \in [Watches -> [at : 0..MaxMoments, status : {"normal", "alert", "unknown"}]]
         /\ \E x : taken' = taken \cup {x} /\ x.at = o.at
<1>1. PICK late \in BOOLEAN :
        LET e == episode[o.of]
            counts == ~late /\ Counts(o)
            raised == counts /\ o.status = "alert" /\ e.status # "alert"
        IN /\ taken' = taken \cup {[at |-> o.at, of |-> o.of, rev |-> o.rev,
                                    status |-> o.status, counted |-> counts,
                                    raised |-> raised]}
           /\ episode' = IF ~counts THEN episode
                         ELSE [episode EXCEPT ![o.of] =
                                [at |-> o.at, status |-> IF o.status = "unknown" THEN e.status
                                                         ELSE o.status]]
  BY DEF Taken
<1>2. PICK k, v, e : k = o.of /\ v = o.rev /\ e = episode[k]
  OBVIOUS
<1>3. PICK counts \in BOOLEAN : counts <=> ~late /\ Counts(o)
  OBVIOUS
<1>4. PICK raised \in BOOLEAN : raised <=> counts /\ o.status = "alert" /\ e.status # "alert"
  OBVIOUS
<1>5. PICK x : x = [at |-> o.at, of |-> k, rev |-> v, status |-> o.status,
                    counted |-> counts, raised |-> raised]
  OBVIOUS
<1>6. PICK s : s = IF o.status = "unknown" THEN e.status ELSE o.status
  OBVIOUS
<1>7. taken' = taken \cup {x}
  <2>1. counts = (~late /\ Counts(o))
    BY <1>3
  <2>2. raised = (counts /\ o.status = "alert" /\ e.status # "alert")
    BY <1>4
  <2> QED
    BY <1>1, <1>2, <1>5, <2>1, <2>2
<1>8. episode' = IF ~counts THEN episode ELSE [episode EXCEPT ![k] = [at |-> o.at, status |-> s]]
  BY <1>1, <1>2, <1>3, <1>6
<1>9. /\ k \in Watches /\ v \in Revisions /\ o.at \in Moments /\ v = watch[k].rev /\ v # Absent
      /\ o.status \in {"normal", "alert", "unknown"}
  BY <1>2 DEF Observations, Revisions, Absent
<1>10. /\ e.at \in Nat /\ e.status \in {"normal", "alert", "unknown"}
       /\ \A j \in Watches : episode[j].at \in Nat
       /\ MaxMoments \in Nat
  BY <1>2, <1>9, VisionAssumption DEF VisionInv, VisTypeOK
<1>11. /\ x.at = o.at /\ x.of = k /\ x.rev = v /\ x.status = o.status
       /\ x.counted = counts /\ x.raised = raised
  BY <1>5
<1>12. x \in Result
  BY <1>5, <1>9 DEF Result
<1>13. /\ taken \subseteq Result
       /\ \A r \in taken : /\ r.at \in Nat /\ r.of \in Watches /\ r.rev \in Nat
                           /\ r.counted \in BOOLEAN /\ r.raised \in BOOLEAN
       /\ o.at \in Nat
  BY <1>9, <1>10, VisionAssumption DEF VisionInv, ResultsAreTold, Result, Moments, Revisions
<1>14. ResultsAreTold'
  <2>1. taken' \subseteq Result
    BY <1>7, <1>12, <1>13
  <2>2. \A r, q \in taken' : r.at = q.at => r = q
    BY <1>7, <1>11 DEF VisionInv, ResultsAreTold
  <2>3. \A r \in taken' : watch'[r.of].rev # Absent => r.rev <= watch'[r.of].rev
    <3>1. v <= v
      BY <1>9, VisionAssumption DEF Revisions
    <3> QED
      BY <3>1, <1>7, <1>9, <1>11 DEF VisionInv, ResultsAreTold
  <2>4. \A r \in taken' : r.raised => r.counted /\ r.status = "alert"
    BY <1>4, <1>7, <1>11 DEF VisionInv, ResultsAreTold
  <2> QED
    BY <2>1, <2>2, <2>3, <2>4 DEF ResultsAreTold
<1>15. episode' \in [Watches -> [at : 0..MaxMoments, status : {"normal", "alert", "unknown"}]]
  <2>1. o.at \in 0..MaxMoments /\ s \in {"normal", "alert", "unknown"}
    BY <1>6, <1>9, <1>10 DEF Moments
  <2> QED
    BY <2>1, <1>8 DEF VisionInv, VisTypeOK
<1>16. \A j \in Watches : episode'[j] = IF counts /\ j = k THEN [at |-> o.at, status |-> s]
                                        ELSE episode[j]
  BY <1>8 DEF VisionInv, VisTypeOK
<1>17. /\ \A r \in taken : CountsFor(r, k, v) => r.at <= e.at
       /\ e.status = "alert" =>
            \E a \in taken : /\ CountsFor(a, k, v) /\ a.status = "alert"
                             /\ \A n \in taken : Ends(n, k, v) => n.at < a.at
       /\ e.status # "alert" =>
            \A a \in taken : CountsFor(a, k, v) /\ a.status = "alert" =>
              \E n \in taken : Ends(n, k, v) /\ a.at < n.at
  BY <1>2, <1>9 DEF VisionInv, EpisodeStands
<1>18. counts => \A r \in taken : CountsFor(r, k, v) => r.at < o.at
  <2>1. counts => e.at < o.at
    BY <1>2, <1>3, <1>10, <1>13 DEF Counts
  <2> QED
    BY <2>1, <1>10, <1>13, <1>17
<1>19. ~counts \/ x.status # "normal" => \A j, u : ~Ends(x, j, u)
  BY <1>11 DEF Ends, CountsFor
<1>20. EpisodeStands'
  <2>1. ASSUME NEW j \in Watches, watch[j].rev # Absent, ~counts \/ j # k
        PROVE  /\ \A r \in taken' : CountsFor(r, j, watch[j].rev) => r.at <= episode'[j].at
               /\ episode'[j].status = "alert" =>
                    \E a \in taken' : /\ CountsFor(a, j, watch[j].rev) /\ a.status = "alert"
                                      /\ \A n \in taken' : Ends(n, j, watch[j].rev) => n.at < a.at
               /\ episode'[j].status # "alert" =>
                    \A a \in taken' : CountsFor(a, j, watch[j].rev) /\ a.status = "alert" =>
                      \E n \in taken' : Ends(n, j, watch[j].rev) /\ a.at < n.at
    <3>1. episode'[j] = episode[j]
      BY <2>1, <1>16
    <3>2. ~CountsFor(x, j, watch[j].rev) /\ ~Ends(x, j, watch[j].rev)
      BY <2>1, <1>11 DEF CountsFor, Ends
    <3>3. /\ \A r \in taken : CountsFor(r, j, watch[j].rev) => r.at <= episode[j].at
          /\ episode[j].status = "alert" =>
               \E a \in taken : /\ CountsFor(a, j, watch[j].rev) /\ a.status = "alert"
                                /\ \A n \in taken : Ends(n, j, watch[j].rev) => n.at < a.at
          /\ episode[j].status # "alert" =>
               \A a \in taken : CountsFor(a, j, watch[j].rev) /\ a.status = "alert" =>
                 \E n \in taken : Ends(n, j, watch[j].rev) /\ a.at < n.at
      BY <2>1 DEF VisionInv, EpisodeStands
    <3> QED
      BY <3>1, <3>2, <3>3, <1>7
  <2>2. ASSUME counts
        PROVE  /\ \A r \in taken' : CountsFor(r, k, v) => r.at <= episode'[k].at
               /\ episode'[k].status = "alert" =>
                    \E a \in taken' : /\ CountsFor(a, k, v) /\ a.status = "alert"
                                      /\ \A n \in taken' : Ends(n, k, v) => n.at < a.at
               /\ episode'[k].status # "alert" =>
                    \A a \in taken' : CountsFor(a, k, v) /\ a.status = "alert" =>
                      \E n \in taken' : Ends(n, k, v) /\ a.at < n.at
    <3>1. episode'[k].at = o.at /\ episode'[k].status = s /\ CountsFor(x, k, v)
      BY <2>2, <1>9, <1>11, <1>16 DEF CountsFor
    <3>2. \A r \in taken' : CountsFor(r, k, v) => r.at <= episode'[k].at
      BY <2>2, <3>1, <1>7, <1>11, <1>13, <1>18
    <3>3. CASE o.status = "alert"
      <4>1. s = "alert" /\ ~Ends(x, k, v)
        BY <3>3, <1>6, <1>11 DEF Ends
      <4>2. \A n \in taken' : Ends(n, k, v) => n.at < x.at
        BY <4>1, <2>2, <1>7, <1>11, <1>18 DEF Ends
      <4> QED
        BY <3>1, <3>2, <3>3, <4>1, <4>2, <1>7, <1>11
    <3>4. CASE o.status = "normal"
      <4>1. s = "normal" /\ Ends(x, k, v) /\ x.status # "alert"
        BY <3>1, <3>4, <1>6, <1>11 DEF Ends
      <4>2. \A a \in taken' : CountsFor(a, k, v) /\ a.status = "alert" => a.at < x.at
        BY <4>1, <2>2, <1>7, <1>11, <1>18
      <4> QED
        BY <3>1, <3>2, <4>1, <4>2, <1>7
    <3>5. CASE o.status = "unknown"
      <4>1. s = e.status /\ ~Ends(x, k, v) /\ x.status # "alert"
        BY <3>5, <1>6, <1>11 DEF Ends
      <4> QED
        BY <3>1, <3>2, <4>1, <1>7, <1>17
    <3> QED
      BY <3>3, <3>4, <3>5, <1>9
  <2> QED
    BY <2>1, <2>2, <1>9 DEF EpisodeStands
<1>21. AlarmsHold'
  <2>1. ASSUME NEW a \in taken, a.counted, a.status = "alert"
        PROVE  \A r \in taken' : AlarmOf(r, a)' <=> r \in taken /\ AlarmOf(r, a)
    <3>1. CountsFor(x, a.of, a.rev) => a.at < x.at
      <4>1. CountsFor(x, a.of, a.rev) => counts /\ CountsFor(a, k, v)
        BY <2>1, <1>11 DEF CountsFor
      <4> QED
        BY <4>1, <1>11, <1>18
    <3>2. a.at \in Nat /\ x.at \in Nat
      BY <1>11, <1>13
    <3>3. ~AlarmOf(x, a)'
      BY <3>1, <3>2 DEF AlarmOf
    <3>4. ~(Ends(x, a.of, a.rev) /\ x.at < a.at)
      BY <3>1, <3>2 DEF Ends
    <3> QED
      BY <3>3, <3>4, <1>7 DEF AlarmOf
  <2>2. ASSUME NEW a \in taken, a.counted /\ a.status = "alert"
        PROVE  \E r \in taken' : AlarmOf(r, a)' /\ \A q \in taken' : AlarmOf(q, a)' => q = r
    <3>1. PICK r \in taken : AlarmOf(r, a) /\ \A q \in taken : AlarmOf(q, a) => q = r
      BY <2>2 DEF VisionInv, AlarmsHold
    <3> QED
      BY <3>1, <2>1, <2>2, <1>7
  <2>3. ASSUME counts, o.status = "alert"
        PROVE  \E r \in taken' : AlarmOf(r, x)' /\ \A q \in taken' : AlarmOf(q, x)' => q = r
    <3>1. /\ CountsFor(x, k, v) /\ ~Ends(x, k, v)
          /\ \A r \in taken : CountsFor(r, k, v) => r.at < x.at
          /\ x.at \in Nat
      BY <2>3, <1>11, <1>13, <1>18 DEF CountsFor, Ends
    <3>2. \A r : AlarmOf(r, x)' <=>
            /\ CountsFor(r, k, v) /\ r.raised /\ r.at <= x.at
            /\ ~\E n \in taken : Ends(n, k, v) /\ r.at < n.at /\ n.at < x.at
      BY <3>1, <1>7, <1>11 DEF AlarmOf
    <3>3. CASE e.status # "alert"
      <4>1. x.raised
        BY <2>3, <3>3, <1>4, <1>11
      <4>2. AlarmOf(x, x)'
        <5>1. x.at <= x.at /\ \A n \in taken : ~(x.at < n.at /\ n.at < x.at)
          BY <3>1, <1>13
        <5> QED
          BY <4>1, <5>1, <3>1, <3>2
      <4>3. ASSUME NEW q \in taken PROVE ~AlarmOf(q, x)'
        <5>1. SUFFICES ASSUME AlarmOf(q, x)' PROVE FALSE
          OBVIOUS
        <5>2. CountsFor(q, k, v) /\ q.status = "alert"
          BY <5>1, <3>2 DEF VisionInv, ResultsAreTold
        <5>3. PICK n \in taken : Ends(n, k, v) /\ q.at < n.at
          BY <5>2, <3>3, <1>17
        <5> QED
          BY <5>1, <5>3, <3>1, <3>2 DEF Ends
      <4> QED
        BY <4>2, <4>3, <1>7
    <3>4. CASE e.status = "alert"
      <4>1. PICK a \in taken : /\ CountsFor(a, k, v) /\ a.status = "alert"
                               /\ \A n \in taken : Ends(n, k, v) => n.at < a.at
        BY <3>4, <1>17
      <4>2. a.of = k /\ a.rev = v /\ a.counted /\ a.at < x.at /\ a.at \in Nat
        BY <4>1, <3>1, <1>13 DEF CountsFor
      <4>3. PICK r \in taken : AlarmOf(r, a) /\ \A q \in taken : AlarmOf(q, a) => q = r
        BY <4>1, <4>2 DEF VisionInv, AlarmsHold
      <4>4. r.at \in Nat /\ r.at <= a.at
        BY <4>3, <1>13 DEF AlarmOf
      <4>5. \A n \in taken : Ends(n, k, v) => ~(r.at < n.at)
        BY <4>1, <4>2, <4>3 DEF AlarmOf
      <4>6. AlarmOf(r, x)'
        BY <3>2, <4>2, <4>3, <4>4, <4>5, <3>1 DEF AlarmOf
      <4>7. ~x.raised
        BY <3>4, <1>4, <1>11
      <4>8. ASSUME NEW q \in taken, AlarmOf(q, x)' PROVE q = r
        <5>1. CountsFor(q, k, v) /\ q.raised /\ q.at \in Nat
              /\ \A n \in taken : Ends(n, k, v) => ~(q.at < n.at /\ n.at < x.at)
          BY <4>8, <3>2, <1>13
        <5>2. CASE q.at <= a.at
          <6>1. \A n \in taken : Ends(n, k, v) => ~(q.at < n.at)
            BY <5>1, <3>1 DEF Ends
          <6> QED
            BY <5>1, <5>2, <6>1, <4>2, <4>3 DEF AlarmOf
        <5>3. CASE a.at < q.at
          <6>1. q.counted /\ q.status = "alert" /\ q.of = k /\ q.rev = v
            BY <5>1 DEF VisionInv, ResultsAreTold, CountsFor
          <6>2. PICK p \in taken : AlarmOf(p, q) /\ \A z \in taken : AlarmOf(z, q) => z = p
            BY <6>1 DEF VisionInv, AlarmsHold
          <6>3. AlarmOf(q, q)
            <7>1. q.at <= q.at /\ \A n \in taken : ~(q.at < n.at /\ n.at < q.at)
              BY <5>1, <1>13
            <7> QED
              BY <5>1, <6>1, <7>1 DEF AlarmOf
          <6>4. AlarmOf(r, q)
            BY <4>2, <4>3, <4>4, <4>5, <5>1, <5>3, <6>1 DEF AlarmOf
          <6> QED
            BY <6>2, <6>3, <6>4
        <5> QED
          BY <5>1, <5>2, <5>3, <4>2
      <4>9. ~AlarmOf(x, x)'
        BY <4>7, <3>2
      <4> QED
        BY <4>6, <4>8, <4>9, <1>7
    <3> QED
      BY <3>3, <3>4
  <2> QED
    BY <2>2, <2>3, <1>7, <1>11 DEF AlarmsHold
<1> QED
  BY <1>14, <1>15, <1>20, <1>21, <1>7, <1>11

Post == [obs : Observations, good : BOOLEAN, awaited : BOOLEAN]

\* What does not touch the platform's tables.
LEMMA TablesStay ==
  ASSUME VisionInv, UNCHANGED <<watch, store>>
  PROVE  ResultsAreTold' /\ EpisodeStands' /\ AlarmsHold'
BY DEF VisionInv, store, ResultsAreTold, EpisodeStands, AlarmsHold, AlarmOf, CountsFor, Ends

LEMMA VisionInvInit ==
  ASSUME VisInit
  PROVE  VisionInv
<1>1. 1 \in 0..MaxRevision
  BY VisionAssumption
<1>2. VisTypeOK
  <2>1. watch \in [Watches -> [rev : 0..MaxRevision, on : BOOLEAN, ours : BOOLEAN]]
    BY <1>1, VisionAssumption DEF VisInit
  <2> QED
    BY <2>1, VisionAssumption DEF VisInit, VisTypeOK, NoEpisode
<1> QED
  BY <1>2 DEF VisInit, VisionInv, ResultsAreTold, EpisodeStands, AlarmsHold, NoEpisode

\* A configuration gets a revision that no result is of.
LEMMA WatchKeepsVision ==
  ASSUME VisionInv, NEW k \in Watches, PutWatch(k) \/ RemoveWatch(k)
  PROVE  VisionInv'
<1>1. /\ UNCHANGED <<taken, holder, renewed, known, token, outbox, elsewhere, posts,
                     unrecorded, clock, aged, skewed, troubles>>
      /\ watch[k].rev # Absent
  BY DEF PutWatch, RemoveWatch, lease, worker, store, times, Absent
<1>2. CASE PutWatch(k)
  <2>1. PICK on, ours \in BOOLEAN :
          watch' = [watch EXCEPT ![k] = [rev |-> watch[k].rev + 1, on |-> on, ours |-> ours]]
    BY <1>2 DEF PutWatch
  <2>2. episode' = [episode EXCEPT ![k] = NoEpisode] /\ watch[k].rev \in 1..(MaxRevision - 1)
    BY <1>2 DEF PutWatch
  <2>3. PICK v : v = watch[k].rev
    OBVIOUS
  <2>4. v \in Nat /\ v + 1 \in 1..MaxRevision /\ v # 0
    BY <2>2, <2>3, VisionAssumption
  <2>5. VisTypeOK'
    <3>1. watch' \in [Watches -> [rev : 0..MaxRevision, on : BOOLEAN, ours : BOOLEAN]]
      <4>1. v + 1 \in 0..MaxRevision
        BY <2>4, VisionAssumption
      <4> QED
        BY <2>1, <2>3, <4>1 DEF VisionInv, VisTypeOK
    <3>2. episode' \in [Watches -> [at : 0..MaxMoments, status : {"normal", "alert", "unknown"}]]
      BY <2>2, VisionAssumption DEF VisionInv, VisTypeOK, NoEpisode
    <3> QED
      BY <1>1, <3>1, <3>2 DEF VisionInv, VisTypeOK
  <2>6. /\ watch'[k].rev = v + 1 /\ episode'[k] = NoEpisode
        /\ \A j \in Watches \ {k} : watch'[j] = watch[j] /\ episode'[j] = episode[j]
    BY <2>1, <2>2, <2>3 DEF VisionInv, VisTypeOK
  <2>7. \A r \in taken : /\ r.of \in Watches /\ r.rev \in Nat
                         /\ r.of = k => r.rev <= v
    BY <2>3, <2>4, VisionAssumption
       DEF VisionInv, ResultsAreTold, Result, Revisions, Absent
  <2>8. ResultsAreTold'
    BY <1>1, <2>4, <2>6, <2>7 DEF VisionInv, ResultsAreTold
  <2>9. EpisodeStands'
    <3>1. \A r \in taken : ~CountsFor(r, k, v + 1)
      BY <2>4, <2>7 DEF CountsFor
    <3>2. ASSUME NEW j \in Watches, watch'[j].rev # Absent
          PROVE  /\ \A r \in taken' : CountsFor(r, j, watch'[j].rev) => r.at <= episode'[j].at
                 /\ episode'[j].status = "alert" =>
                      \E a \in taken' : /\ CountsFor(a, j, watch'[j].rev) /\ a.status = "alert"
                                        /\ \A n \in taken' : Ends(n, j, watch'[j].rev) => n.at < a.at
                 /\ episode'[j].status # "alert" =>
                      \A a \in taken' : CountsFor(a, j, watch'[j].rev) /\ a.status = "alert" =>
                        \E n \in taken' : Ends(n, j, watch'[j].rev) /\ a.at < n.at
      <4>1. CASE j = k
        BY <4>1, <3>1, <1>1, <2>6 DEF NoEpisode
      <4>2. CASE j # k
        BY <4>2, <3>2, <1>1, <2>6 DEF VisionInv, EpisodeStands
      <4> QED
        BY <4>1, <4>2
    <3> QED
      BY <3>2 DEF EpisodeStands
  <2>10. AlarmsHold'
    BY <1>1 DEF VisionInv, AlarmsHold, AlarmOf, CountsFor, Ends
  <2> QED
    BY <2>5, <2>8, <2>9, <2>10 DEF VisionInv
<1>3. CASE RemoveWatch(k)
  <2>1. watch' = [watch EXCEPT ![k].rev = Absent] /\ UNCHANGED episode
    BY <1>3 DEF RemoveWatch, store
  <2>2. VisTypeOK'
    <3>1. 0 \in 0..MaxRevision
      BY VisionAssumption
    <3>2. watch' \in [Watches -> [rev : 0..MaxRevision, on : BOOLEAN, ours : BOOLEAN]]
      BY <2>1, <3>1 DEF VisionInv, VisTypeOK, Absent
    <3> QED
      BY <1>1, <2>1, <3>2 DEF VisionInv, VisTypeOK
  <2>3. /\ watch'[k].rev = Absent
        /\ \A j \in Watches \ {k} : watch'[j] = watch[j]
    BY <2>1 DEF VisionInv, VisTypeOK
  <2>4. ResultsAreTold'
    BY <1>1, <2>3 DEF VisionInv, ResultsAreTold, Result
  <2>5. EpisodeStands'
    BY <1>1, <2>1, <2>3 DEF VisionInv, EpisodeStands
  <2>6. AlarmsHold'
    BY <1>1 DEF VisionInv, AlarmsHold, AlarmOf, CountsFor, Ends
  <2> QED
    BY <2>2, <2>4, <2>5, <2>6 DEF VisionInv
<1> QED
  BY <1>2, <1>3

\* The lease: posts lose their lease or their sender.
LEMMA LeaseKeepsVision ==
  ASSUME VisionInv,
         \/ Heartbeat \/ HeartbeatLost \/ OtherTakesOver \/ LeaseExpires
         \/ PlatformRestarts \/ WorkerRestarts \/ FlushTimesOut
  PROVE  VisionInv'
<1>1. /\ UNCHANGED <<watch, store, outbox, elsewhere, clock, aged, skewed>>
      /\ unrecorded' \in {unrecorded, {}}
  BY DEF Heartbeat, HeartbeatLost, OtherTakesOver, LeaseExpires, PlatformRestarts,
         WorkerRestarts, FlushTimesOut, worker, times
<1>2. posts \subseteq Post
  BY DEF VisionInv, VisTypeOK, Post
<1>3. posts' \subseteq Post
  <2>1. {[p EXCEPT !.good = FALSE] : p \in posts} \subseteq Post
    BY <1>2 DEF Post
  <2>2. {[p EXCEPT !.awaited = FALSE, !.good = FALSE] : p \in posts} \subseteq Post
    BY <1>2 DEF Post
  <2>3. \A p \in posts : [p EXCEPT !.awaited = FALSE] \in Post
    BY <1>2 DEF Post
  <2>4. \/ UNCHANGED posts \/ posts' = {}
        \/ posts' = {[p EXCEPT !.good = FALSE] : p \in posts}
        \/ posts' = {[p EXCEPT !.awaited = FALSE, !.good = FALSE] : p \in posts}
        \/ \E p \in posts : posts' = (posts \ {p}) \cup {[p EXCEPT !.awaited = FALSE]}
    BY DEF Heartbeat, HeartbeatLost, OtherTakesOver, LeaseExpires, PlatformRestarts,
           WorkerRestarts, FlushTimesOut, NewLease, worker
  <2> QED
    BY <1>2, <2>1, <2>2, <2>3, <2>4
<1>4. holder' \in {"none", "mine", "other"} /\ renewed' \in BOOLEAN
  BY DEF Heartbeat, HeartbeatLost, OtherTakesOver, LeaseExpires, PlatformRestarts,
         WorkerRestarts, FlushTimesOut, lease, VisionInv, VisTypeOK
<1>5. token' \in {"none", "good", "old"}
  BY DEF Heartbeat, HeartbeatLost, OtherTakesOver, LeaseExpires, PlatformRestarts,
         WorkerRestarts, FlushTimesOut, worker, NewLease, VisionInv, VisTypeOK
<1>6. known' \in [Watches -> 0..MaxRevision]
  <2>1. Told \in [Watches -> 0..MaxRevision]
    BY VisionAssumption DEF Told, Absent, VisionInv, VisTypeOK
  <2>2. [k \in Watches |-> Absent] \in [Watches -> 0..MaxRevision]
    BY VisionAssumption DEF Absent
  <2>3. known' = known \/ known' = Told \/ known' = [k \in Watches |-> Absent]
    BY DEF Heartbeat, HeartbeatLost, OtherTakesOver, LeaseExpires, PlatformRestarts,
           WorkerRestarts, FlushTimesOut, worker
  <2> QED
    BY <2>1, <2>2, <2>3 DEF VisionInv, VisTypeOK
<1>7. troubles' \in 0..MaxTroubles
  <2>1. troubles' = troubles \/ Trouble
    BY DEF Heartbeat, HeartbeatLost, OtherTakesOver, LeaseExpires, PlatformRestarts,
           WorkerRestarts, FlushTimesOut
  <2> QED
    BY <2>1, VisionAssumption DEF Trouble, VisionInv, VisTypeOK
<1>8. VisTypeOK'
  <2>1. /\ watch' = watch /\ outbox' = outbox /\ elsewhere' = elsewhere /\ clock' = clock
        /\ taken' = taken /\ episode' = episode /\ aged' = aged /\ skewed' = skewed
        /\ unrecorded' = unrecorded \/ unrecorded' = {}
    BY <1>1 DEF store
  <2>2. VisTypeOK
    BY DEF VisionInv
  <2> QED
    BY <1>3, <1>4, <1>5, <1>6, <1>7, <2>1, <2>2 DEF VisTypeOK, Post
<1> QED
  BY <1>1, <1>8, TablesStay DEF VisionInv

LEMMA ObservingKeepsVision ==
  ASSUME VisionInv,
         \/ \E k \in Watches, status \in {"normal", "alert", "unknown"} :
              Emit(k, status) \/ OtherEmits(k, status)
         \/ Flush
  PROVE  VisionInv'
<1>1. /\ UNCHANGED <<watch, holder, renewed, known, token, store, unrecorded, aged>>
      /\ troubles' \in 0..MaxTroubles
  <2>1. UNCHANGED <<watch, holder, renewed, known, token, store, unrecorded, aged>>
    BY DEF Emit, OtherEmits, Flush, lease, worker, times
  <2>2. UNCHANGED troubles \/ Trouble
    BY DEF Emit, OtherEmits, Flush
  <2>3. troubles' \in 0..MaxTroubles
    BY <2>2, VisionAssumption DEF Trouble, VisionInv, VisTypeOK
  <2> QED
    BY <2>1, <2>3
<1>2. \A k \in Watches, v \in Revisions, status \in {"normal", "alert", "unknown"} :
        clock < MaxMoments =>
          /\ [at |-> clock + 1, of |-> k, rev |-> v, status |-> status] \in Observations
          /\ clock + 1 \in 0..MaxMoments /\ clock + 1 \in Moments
  <2>1. clock < MaxMoments => clock + 1 \in Moments /\ clock + 1 \in 0..MaxMoments
    BY VisionAssumption DEF Moments, VisionInv, VisTypeOK
  <2> QED
    BY <2>1 DEF Observations
<1>3. \A v \in 0..MaxRevision : v # Absent => v \in Revisions
  BY VisionAssumption DEF Absent, Revisions
<1>4. ASSUME NEW k \in Watches, NEW status \in {"normal", "alert", "unknown"}, Emit(k, status)
      PROVE  VisTypeOK'
  <2>1. PICK o : o = [at |-> clock + 1, of |-> k, rev |-> known[k], status |-> status]
    OBVIOUS
  <2>2. /\ outbox' = Append(IF Len(outbox) = OutboxCap THEN Tail(outbox) ELSE outbox, o)
        /\ clock' = clock + 1 /\ clock < MaxMoments /\ known[k] # Absent
        /\ UNCHANGED <<elsewhere, posts>> /\ skewed' \in {skewed, skewed \cup {clock + 1}}
    BY <1>4, <2>1 DEF Emit
  <2>3. known[k] \in Revisions
    BY <1>3, <2>2 DEF VisionInv, VisTypeOK
  <2>4. o \in Observations /\ clock' \in 0..MaxMoments /\ skewed' \subseteq Moments
    BY <1>2, <2>1, <2>2, <2>3 DEF VisionInv, VisTypeOK
  <2>5. outbox \in Seq(Observations) /\ Len(outbox) <= OutboxCap
    BY DEF VisionInv, VisTypeOK
  <2>6. outbox' \in Seq(Observations) /\ Len(outbox') <= OutboxCap
    BY <2>2, <2>4, <2>5, AppendKeeps, VisionAssumption
  <2> QED
    BY <1>1, <2>2, <2>4, <2>6 DEF VisionInv, VisTypeOK, store
<1>5. ASSUME NEW k \in Watches, NEW status \in {"normal", "alert", "unknown"},
             OtherEmits(k, status)
      PROVE  VisTypeOK'
  <2>1. PICK o : o = [at |-> clock + 1, of |-> k, rev |-> watch[k].rev, status |-> status]
    OBVIOUS
  <2>2. /\ elsewhere' = {o} /\ clock' = clock + 1 /\ clock < MaxMoments /\ Told[k] # Absent
        /\ UNCHANGED <<outbox, posts, skewed>>
    BY <1>5, <2>1 DEF OtherEmits, worker
  <2>3. watch[k].rev \in Revisions
    BY <1>3, <2>2 DEF Told, VisionInv, VisTypeOK
  <2>4. o \in Observations /\ clock' \in 0..MaxMoments
    BY <1>2, <2>1, <2>2, <2>3
  <2> QED
    BY <1>1, <2>2, <2>4 DEF VisionInv, VisTypeOK, store
<1>6. ASSUME Flush PROVE VisTypeOK'
  <2>1. /\ posts' = posts \cup {[obs |-> Head(outbox), good |-> token = "good", awaited |-> TRUE]}
        /\ outbox # <<>> /\ UNCHANGED <<outbox, elsewhere, clock, skewed>>
    BY <1>6 DEF Flush, worker, times
  <2>2. Head(outbox) \in Observations
    BY <2>1 DEF VisionInv, VisTypeOK
  <2>3. [obs |-> Head(outbox), good |-> token = "good", awaited |-> TRUE] \in Post
    <3>1. (token = "good") \in BOOLEAN
      OBVIOUS
    <3> QED
      BY <2>2, <3>1 DEF Post
  <2> QED
    BY <1>1, <2>1, <2>3 DEF VisionInv, VisTypeOK, store, Post
<1> QED
  BY <1>1, <1>4, <1>5, <1>6, TablesStay DEF VisionInv

\* What the platform does with a result, of either instance.
LEMMA AcceptedKeepsAlarms ==
  ASSUME VisionInv, UNCHANGED watch, NEW o \in Observations, NEW good,
         IF Verdict(o, good) = "accepted" THEN Taken(o) ELSE UNCHANGED store
  PROVE  ResultsAreTold' /\ EpisodeStands' /\ AlarmsHold'
         /\ episode' \in [Watches -> [at : 0..MaxMoments, status : {"normal", "alert", "unknown"}]]
<1>1. CASE Verdict(o, good) = "accepted"
  <2>1. (\A r \in taken : r.at # o.at) /\ o.rev = watch[o.of].rev
    BY <1>1 DEF Verdict
  <2> QED
    BY <1>1, <2>1, TakenKeepsAlarms
<1>2. CASE Verdict(o, good) # "accepted"
  BY <1>2, TablesStay DEF store, VisionInv, VisTypeOK
<1> QED
  BY <1>1, <1>2

Unrecorded == [at : Moments, of : Watches, rev : Revisions, nth : Nat]

LEMMA UndoneKeepsType ==
  ASSUME VisTypeOK, NEW o \in Observations, Undone(o)
  PROVE  troubles' \in 0..MaxTroubles /\ unrecorded' \subseteq Unrecorded
<1>1. troubles \in Nat /\ troubles' \in 0..MaxTroubles
  BY VisionAssumption DEF Undone, Trouble, VisTypeOK
<1>2. [at |-> o.at, of |-> o.of, rev |-> o.rev, nth |-> troubles] \in Unrecorded
  BY <1>1 DEF Observations, Unrecorded
<1> QED
  BY <1>1, <1>2 DEF Undone, VisTypeOK, Unrecorded

LEMMA ReceivingKeepsVision ==
  ASSUME VisionInv, (\E p \in posts : Receive(p)) \/ OtherReports
  PROVE  VisionInv'
<1>1. UNCHANGED <<watch, holder, renewed, known, token, clock, aged, skewed>>
  BY DEF Receive, OtherReports, lease, worker, times
<1>2. ASSUME NEW p \in posts, Receive(p) PROVE VisionInv'
  <2>1. p.obs \in Observations
    BY DEF VisionInv, VisTypeOK
  <2>2. posts' \subseteq posts /\ UNCHANGED elsewhere
        /\ ((UNCHANGED <<unrecorded, troubles>>) \/ Undone(p.obs))
    BY <1>2 DEF Receive
  <2>3. outbox' = outbox \/ outbox' = RemoveFirst(outbox, p.obs)
    BY <1>2 DEF Receive
  <2>4. outbox' \in Seq(Observations) /\ Len(outbox') <= OutboxCap
    <3>1. outbox \in Seq(Observations) /\ Len(outbox) <= OutboxCap
      BY DEF VisionInv, VisTypeOK
    <3>2. RemoveFirst(outbox, p.obs) \in Seq(Observations)
          /\ Len(RemoveFirst(outbox, p.obs)) <= Len(outbox)
      BY <3>1, RemoveFirstKeeps
    <3>3. Len(outbox) \in Nat /\ Len(RemoveFirst(outbox, p.obs)) \in Nat /\ OutboxCap \in Nat
      BY <3>1, <3>2, VisionAssumption
    <3>4. Len(RemoveFirst(outbox, p.obs)) <= OutboxCap
      BY <3>1, <3>2, <3>3
    <3> QED
      BY <2>3, <3>1, <3>2, <3>4
  <2>5. ResultsAreTold' /\ EpisodeStands' /\ AlarmsHold'
        /\ episode' \in [Watches -> [at : 0..MaxMoments, status : {"normal", "alert", "unknown"}]]
    <3>1. CASE UNCHANGED store
      BY <3>1, <1>1, TablesStay DEF store, VisionInv, VisTypeOK
    <3>2. CASE Verdict(p.obs, p.good) = "accepted" /\ Taken(p.obs)
      BY <3>2, <1>1, <2>1, AcceptedKeepsAlarms
    <3> QED
      BY <3>1, <3>2, <1>2 DEF Receive, Undone
  <2>6. troubles' \in 0..MaxTroubles /\ unrecorded' \subseteq Unrecorded
    BY <2>1, <2>2, UndoneKeepsType DEF Unrecorded, VisionInv, VisTypeOK
  <2>7. VisTypeOK'
    BY <1>1, <2>2, <2>4, <2>5, <2>6 DEF VisionInv, VisTypeOK, ResultsAreTold, Unrecorded
  <2> QED
    BY <2>5, <2>7 DEF VisionInv
<1>3. ASSUME OtherReports PROVE VisionInv'
  <2>1. PICK o \in elsewhere :
          \/ /\ IF Verdict(o, TRUE) = "accepted" THEN Taken(o) ELSE UNCHANGED store
             /\ elsewhere' = {} /\ UNCHANGED <<unrecorded, troubles>>
          \/ Undone(o) /\ UNCHANGED elsewhere
    BY <1>3 DEF OtherReports
  <2>2. o \in Observations /\ elsewhere' \subseteq elsewhere /\ UNCHANGED <<outbox, posts>>
    BY <1>3, <2>1 DEF OtherReports, worker, VisionInv, VisTypeOK
  <2>3. ResultsAreTold' /\ EpisodeStands' /\ AlarmsHold'
        /\ episode' \in [Watches -> [at : 0..MaxMoments, status : {"normal", "alert", "unknown"}]]
    <3>1. CASE UNCHANGED store
      BY <3>1, <1>1, TablesStay DEF store, VisionInv, VisTypeOK
    <3> QED
      BY <3>1, <1>1, <2>1, <2>2, AcceptedKeepsAlarms DEF Undone
  <2>4. troubles' \in 0..MaxTroubles /\ unrecorded' \subseteq Unrecorded
    BY <2>1, <2>2, UndoneKeepsType DEF Unrecorded, VisionInv, VisTypeOK
  <2>5. VisTypeOK'
    BY <1>1, <2>2, <2>3, <2>4 DEF VisionInv, VisTypeOK, ResultsAreTold, Unrecorded
  <2> QED
    BY <2>3, <2>5 DEF VisionInv
<1> QED
  BY <1>2, <1>3

\* Time goes on.
LEMMA TimeKeepsVision ==
  ASSUME VisionInv, ClockAgrees \/ WeekPasses
  PROVE  VisionInv'
<1>1. UNCHANGED <<watch, lease, worker, elsewhere, posts, store, unrecorded, clock>>
  BY DEF ClockAgrees, WeekPasses
<1>2. aged' \in 0..MaxMoments /\ skewed' \subseteq Moments
  BY DEF ClockAgrees, WeekPasses, VisionInv, VisTypeOK
<1>3. troubles' \in 0..MaxTroubles
  BY VisionAssumption DEF ClockAgrees, WeekPasses, Trouble, VisionInv, VisTypeOK
<1>4. VisTypeOK'
  BY <1>1, <1>2, <1>3 DEF lease, worker, store, VisionInv, VisTypeOK
<1> QED
  BY <1>1, <1>4, TablesStay DEF VisionInv

LEMMA VisionInvHolds == VisFairSpec => []VisionInv
<1>1. VisionInv /\ [VisNext]_visVars => VisionInv'
  <2>1. ASSUME VisionInv, VisNext PROVE VisionInv'
    BY <2>1, WatchKeepsVision, LeaseKeepsVision, ObservingKeepsVision, ReceivingKeepsVision,
       TimeKeepsVision DEF VisNext
  <2>2. ASSUME VisionInv, UNCHANGED visVars PROVE VisionInv'
    <3>1. UNCHANGED <<watch, store>> /\ VisTypeOK'
      BY <2>2 DEF visVars, lease, worker, store, times, VisionInv, VisTypeOK
    <3> QED
      BY <2>2, <3>1, TablesStay DEF VisionInv
  <2> QED
    BY <2>1, <2>2
<1> QED
  BY <1>1, VisionInvInit, PTL DEF VisFairSpec

\* The worker and the platform keep their types: the outbox its bound, and an
\* alarm only what counts (worker.py:86-96, vision.ts).
THEOREM VisionTypeCorrect == VisFairSpec => []VisTypeOK
<1>1. VisionInv => VisTypeOK
  BY DEF VisionInv
<1> QED
  BY <1>1, VisionInvHolds, PTL

\* Whatever is repeated, delayed, reordered or undone, a stretch of abnormal
\* observations that count has exactly one alarm on record; and what a transaction
\* that is undone raised and showed is raised while there is none on record, for
\* any number of transactions undone (docs/vision.md:81, vision.ts:556-616).
THEOREM AlarmsAreSingle == VisFairSpec => OneAlarmPerEpisode
<1>1. VisionInv => OneOnRecord
  BY AlarmsAreOne DEF VisionInv
<1>2. ASSUME VisionInv, [VisNext]_visVars PROVE [NoneBesideRecord]_visVars
  <2>1. ASSUME NEW o \in Observations, NEW good, Verdict(o, good) = "accepted", Undone(o)
        PROVE  NoneBesideRecord
    BY <1>2, <2>1, UndoneIsFresh DEF NoneBesideRecord
  <2>2. CASE UNCHANGED unrecorded \/ unrecorded' = {}
    BY <2>2 DEF NoneBesideRecord
  <2>3. CASE \E p \in posts : Receive(p)
    <3>1. PICK p \in posts : Receive(p)
      BY <2>3
    <3>2. p.obs \in Observations
      BY <1>2 DEF VisionInv, VisTypeOK
    <3> QED
      BY <3>1, <3>2, <2>1, <2>2 DEF Receive
  <2>4. CASE OtherReports
    <3>1. elsewhere \subseteq Observations
      BY <1>2 DEF VisionInv, VisTypeOK
    <3> QED
      BY <2>4, <3>1, <2>1, <2>2 DEF OtherReports
  <2>5. \/ UNCHANGED visVars \/ UNCHANGED unrecorded \/ unrecorded' = {}
        \/ (\E p \in posts : Receive(p)) \/ OtherReports
    BY <1>2 DEF VisNext, PutWatch, RemoveWatch, Emit, OtherEmits, Heartbeat, HeartbeatLost,
                OtherTakesOver, LeaseExpires, Flush, FlushTimesOut, PlatformRestarts,
                WorkerRestarts, ClockAgrees, WeekPasses
  <2> QED
    BY <2>2, <2>3, <2>4, <2>5
<1>3. VisionInv' => OneOnRecord'
  BY <1>1, PTL
<1>4. VisionInv /\ VisionInv' /\ [VisNext]_visVars
        => [OneOnRecord' /\ NoneBesideRecord]_visVars
  BY <1>2, <1>3
<1> QED
  BY <1>4, VisionInvHolds, PTL DEF VisFairSpec, OneAlarmPerEpisode

\* The outbox gives up an observation only when the platform has it, when it
\* is of no use any more, when its time is not accepted, or when it is full
\* (docs/vision.md:82, vision.ts:501).
THEOREM NothingForgotten == VisFairSpec => NothingIsForgotten
<1> DEFINE Given == \A o \in ToSet(outbox) \ ToSet(outbox') :
                      \/ \E r \in taken' : r.at = o.at
                      \/ watch[o.of].rev # o.rev \/ ~watch[o.of].on
                      \/ Untimely(o)
                      \/ Len(outbox) = OutboxCap
<1>1. ASSUME VisionInv, VisNext PROVE Given
  <2>1. CASE UNCHANGED outbox
    BY <2>1
  <2>2. ASSUME NEW k \in Watches, NEW status \in {"normal", "alert", "unknown"}, Emit(k, status)
        PROVE  Given
    <3>1. PICK o : o = [at |-> clock + 1, of |-> k, rev |-> known[k], status |-> status]
      OBVIOUS
    <3>2. outbox' = Append(IF Len(outbox) = OutboxCap THEN Tail(outbox) ELSE outbox, o)
      BY <2>2, <3>1 DEF Emit
    <3>3. outbox \in Seq(Observations \cup {o}) /\ Len(outbox) <= OutboxCap
      BY <1>1 DEF VisionInv, VisTypeOK
    <3>4. Len(outbox) # OutboxCap => ToSet(outbox) \subseteq ToSet(outbox')
      <4>1. PICK X : X = Observations \cup {o}
        OBVIOUS
      <4>2. o \in X /\ outbox \in Seq(X) /\ OutboxCap \in Nat \ {0}
        BY <3>3, <4>1, VisionAssumption
      <4> QED
        BY <3>2, <3>3, <4>2, AppendKeeps
    <3> QED
      BY <3>4
  <2>3. ASSUME NEW p \in posts, Receive(p), ~UNCHANGED outbox
        PROVE  Given
    <3>1. PICK verdict : verdict = Verdict(p.obs, p.good)
      OBVIOUS
    <3>2. /\ verdict \in Settling /\ outbox' = RemoveFirst(outbox, p.obs)
          /\ IF verdict = "accepted" THEN Taken(p.obs) ELSE UNCHANGED store
      BY <2>3, <3>1 DEF Receive
    <3>3. ToSet(outbox) \ ToSet(outbox') \subseteq {p.obs}
      BY <1>1, <3>2, RemoveFirstKeeps DEF VisionInv, VisTypeOK
    <3>4. p.obs \in Observations
      BY <1>1 DEF VisionInv, VisTypeOK
    <3>5. CASE verdict = "accepted"
      <4>1. \E r \in taken' : r.at = p.obs.at
        <5>1. (\A r \in taken : r.at # p.obs.at) /\ p.obs.rev = watch[p.obs.of].rev
          BY <3>1, <3>5 DEF Verdict
        <5>2. UNCHANGED watch
          BY <2>3 DEF Receive
        <5>3. PICK x : taken' = taken \cup {x} /\ x.at = p.obs.at
          BY <1>1, <3>2, <3>4, <3>5, <5>1, <5>2, TakenKeepsAlarms
        <5> QED
          BY <5>3
      <4> QED
        BY <3>3, <4>1
    <3>6. CASE verdict = "duplicate"
      <4>1. taken' = taken
        BY <3>2, <3>6 DEF store
      <4>2. \E r \in taken : r.at = p.obs.at
        BY <3>1, <3>6 DEF Verdict
      <4> QED
        BY <3>3, <4>1, <4>2
    <3>7. CASE verdict \in {"removed", "superseded"}
      <4>1. watch[p.obs.of].rev = Absent \/ watch[p.obs.of].rev # p.obs.rev \/ ~watch[p.obs.of].on
        BY <3>1, <3>7 DEF Verdict
      <4>2. p.obs.rev # Absent
        BY <3>4, VisionAssumption DEF Observations, Revisions, Absent
      <4> QED
        BY <3>3, <4>1, <4>2
    <3>8. CASE verdict = "untimely"
      <4>1. Untimely(p.obs)
        BY <3>1, <3>8 DEF Verdict
      <4> QED
        BY <3>3, <4>1
    <3> QED
      BY <3>2, <3>5, <3>6, <3>7, <3>8 DEF Settling
  <2>4. \/ UNCHANGED outbox
        \/ \E k \in Watches, status \in {"normal", "alert", "unknown"} : Emit(k, status)
        \/ \E p \in posts : Receive(p)
    BY <1>1 DEF VisNext, PutWatch, RemoveWatch, OtherEmits, Heartbeat, HeartbeatLost,
                OtherTakesOver, LeaseExpires, Flush, FlushTimesOut, OtherReports,
                PlatformRestarts, WorkerRestarts, ClockAgrees, WeekPasses, worker
  <2> QED
    BY <2>1, <2>2, <2>3, <2>4
<1>2. ASSUME VisionInv, UNCHANGED visVars PROVE Given
  BY <1>2 DEF visVars, worker
<1>3. VisionInv /\ [VisNext]_visVars => [Given]_visVars
  BY <1>1, <1>2
<1> QED
  BY <1>3, VisionInvHolds, PTL DEF VisFairSpec, NothingIsForgotten

-----------------------------------------------------------------------------
(* Recordings: rows, files and manifests.                                  *)

\* A manifest names clips of its session, and what it or a row names is
\* complete.
ClipsComplete ==
  /\ \A s \in Sessions : \A clip \in ToSet(manifest[s]) : clip[1] = s /\ clip \notin unfinished
  /\ listed \cap unfinished = {}

\* A process numbers its clips upwards: the next one is new.
NumbersRise ==
  \A s \in Sessions :
    /\ ffmpeg[s] # "runs" => part[s] = 0
    /\ ffmpeg[s] = "runs" =>
         \A clip \in ClipsOf(s) \cap (listed \cup disk \cup ToSet(manifest[s])) :
           clip[2] <= part[s]

\* While the platform serves, each session on record is of a camera.
SessionsServed == archive # "down" => sessions \subseteq InUse(recorder)

RecInv == RecTypeOK /\ ClipsComplete /\ NumbersRise /\ SessionsServed /\ AdvertisedIsThere

LEMMA InitRec == RecInit => RecInv
<1> SUFFICES ASSUME RecInit PROVE RecInv
  OBVIOUS
<1>1. RecTypeOK
  <2>1. <<>> \in Seq(Clips) /\ 0 \in 0..MaxClips /\ 0 \in 0..MaxCrashes
    BY RecordingsAssumption
  <2> QED
    BY <2>1 DEF RecInit, RecTypeOK, NoSession
<1>2. \A s \in Sessions : ToSet(manifest[s]) = {}
  BY DEF RecInit, ToSet
<1> QED
  BY <1>1, <1>2 DEF RecInit, RecInv, ClipsComplete, NumbersRise, SessionsServed, AdvertisedIsThere

LEMMA DiskIsFinite ==
  ASSUME RecTypeOK
  PROVE  /\ IsFiniteSet(disk)
         /\ \A T \in SUBSET disk : /\ IsFiniteSet(T)
                                   /\ Cardinality(T) \in Nat /\ Cardinality(disk) \in Nat
                                   /\ Cardinality(T) <= Cardinality(disk)
<1>1. IsFiniteSet(1..SessionCount) /\ IsFiniteSet(1..MaxClips)
  BY RecordingsAssumption, FS_Interval
<1>2. IsFiniteSet(Clips)
  BY <1>1, FS_Product DEF Clips, Sessions
<1>3. IsFiniteSet(disk)
  BY <1>2, FS_Subset DEF RecTypeOK
<1> QED
  BY <1>3, FS_Subset, FS_CardinalityType

\* A sweep only takes away; what it lists has its file, and what was not on
\* record before goes only past its retention, or when the files exceed the budget.
SweptTo(rows, files, rec, rest, stop) ==
  /\ listed' \subseteq rows /\ listed' \subseteq disk' /\ disk' \subseteq files
  /\ unfinished' = unfinished \cap disk' /\ lapsed' \subseteq rows
  /\ ending' \in {stop, stop \cup InUse(rec)}
  /\ resting' \in {rest, rest \cup {c \in Cameras : rec[c] # NoSession}}
  /\ \A clip \in files :
       \/ clip \in disk' \cup listed \cup lapsed' \/ Cardinality(disk) > Budget
       \/ clip \notin rows /\ clip[1] \notin InUse(rec)

LEMMA SweepsAre ==
  ASSUME RecTypeOK, NEW rows, NEW files \in SUBSET disk, NEW rec, NEW rest, NEW stop,
         Sweeps(rows, files, rec, rest, stop)
  PROVE  SweptTo(rows, files, rec, rest, stop)
<1>1. PICK expired \in SUBSET rows :
        LET current == (rows \cap files) \ expired
            excess  == Cardinality(files \ expired)
            surplus == IF excess > Budget THEN excess - Budget ELSE 0
        IN \E evicted \in SUBSET current :
             LET kept == current \ evicted
                 left == {f \in files : f \in kept
                            \/ (f \notin rows /\ ~Stray(f, rows, rec))}
             IN /\ Cardinality(evicted) = Min({surplus, Cardinality(current)})
                /\ lapsed' = expired \ listed
                /\ listed' = kept /\ disk' = left /\ unfinished' = unfinished \cap left
                /\ ending' \in {stop, stop \cup InUse(rec)}
                /\ resting' \in {rest, rest \cup {c \in Cameras : rec[c] # NoSession}}
  BY DEF Sweeps
<1> DEFINE current == (rows \cap files) \ expired
           excess  == Cardinality(files \ expired)
           surplus == IF excess > Budget THEN excess - Budget ELSE 0
<1>2. PICK evicted \in SUBSET current :
             LET kept == current \ evicted
                 left == {f \in files : f \in kept
                            \/ (f \notin rows /\ ~Stray(f, rows, rec))}
             IN /\ Cardinality(evicted) = Min({surplus, Cardinality(current)})
                /\ lapsed' = expired \ listed
                /\ listed' = kept /\ disk' = left /\ unfinished' = unfinished \cap left
                /\ ending' \in {stop, stop \cup InUse(rec)}
                /\ resting' \in {rest, rest \cup {c \in Cameras : rec[c] # NoSession}}
  BY <1>1
<1>3. evicted # {} => Cardinality(disk) > Budget
  <2> SUFFICES ASSUME ~(Cardinality(disk) > Budget) PROVE evicted = {}
    OBVIOUS
  <2>1. /\ Cardinality(files \ expired) \in Nat
        /\ Cardinality(files \ expired) <= Cardinality(disk)
        /\ Cardinality(current) \in Nat /\ Cardinality(disk) \in Nat
    BY DiskIsFinite
  <2>2. surplus = 0
    BY <2>1, RecordingsAssumption
  <2>3. PICK n \in Nat : n = Cardinality(current)
    BY <2>1
  <2>4. Min({0, n}) = 0
    <3>1. \E x \in {0, n} : \A y \in {0, n} : x <= y
      OBVIOUS
    <3>2. Min({0, n}) \in {0, n} /\ \A y \in {0, n} : Min({0, n}) <= y
      BY <3>1 DEF Min
    <3> QED
      BY <3>2
  <2>5. Cardinality(evicted) = 0
    BY <1>2, <2>2, <2>3, <2>4
  <2>6. IsFiniteSet(evicted)
    BY <1>2, DiskIsFinite
  <2> QED
    BY <2>5, <2>6, FS_EmptySet
<1>4. listed' = current \ evicted /\ disk' = {f \in files : f \in listed'
                            \/ (f \notin rows /\ ~Stray(f, rows, rec))}
  BY <1>2
<1>5. listed' \subseteq rows /\ listed' \subseteq disk' /\ disk' \subseteq files
  BY <1>4
<1>6. unfinished' = unfinished \cap disk' /\ lapsed' = expired \ listed
  BY <1>2
<1>7. \A clip \in files : 
              \/ clip \in disk' \cup listed \cup lapsed' \/ Cardinality(disk) > Budget
              \/ clip \notin rows /\ clip[1] \notin InUse(rec)
  BY <1>3, <1>4, <1>6 DEF Stray
<1> QED
  BY <1>2, <1>5, <1>6, <1>7 DEF SweptTo

\* Recorders that begin have sessions without a trace.
LEMMA BeginsAre ==
  ASSUME RecTypeOK, NEW start \in SUBSET (Cameras \ Tracked), Begins(start)
  PROVE  \E new \in SUBSET Unused :
           /\ sessions' = sessions \cup new
           /\ recorder' \in [Cameras -> Sessions \cup {NoSession}]
           /\ InUse(recorder') = InUse(recorder) \cup new
           /\ \A c \in Tracked : recorder'[c] = recorder[c]
           /\ ffmpeg' = [s \in Sessions |-> IF s \in new THEN "runs" ELSE ffmpeg[s]]
<1>1. PICK fresh \in [start -> Unused] :
        LET new == {fresh[c] : c \in start} IN
          /\ sessions' = sessions \cup new
          /\ recorder' = [c \in Cameras |-> IF c \in start THEN fresh[c] ELSE recorder[c]]
          /\ ffmpeg' = [s \in Sessions |-> IF s \in new THEN "runs" ELSE ffmpeg[s]]
  BY DEF Begins
<1> DEFINE new == {fresh[c] : c \in start}
<1>2. Unused \subseteq Sessions /\ NoSession \notin Sessions
  BY RecordingsAssumption DEF Unused, Sessions, NoSession
<1>3. \A c \in Cameras : recorder'[c] = IF c \in start THEN fresh[c] ELSE recorder[c]
  BY <1>1
<1>4. InUse(recorder') = InUse(recorder) \cup new
  <2>1. \A c \in start : recorder[c] = NoSession /\ c \in Cameras /\ fresh[c] # NoSession
    BY <1>2 DEF Tracked
  <2>2. ASSUME NEW x \in InUse(recorder') PROVE x \in InUse(recorder) \cup new
    BY <2>2, <1>3 DEF InUse
  <2>3. ASSUME NEW x \in InUse(recorder) PROVE x \in InUse(recorder')
    BY <2>1, <2>3, <1>3 DEF InUse
  <2>4. ASSUME NEW x \in new PROVE x \in InUse(recorder')
    BY <2>1, <2>4, <1>3 DEF InUse
  <2> QED
    BY <2>2, <2>3, <2>4
<1>5. recorder' \in [Cameras -> Sessions \cup {NoSession}]
  BY <1>1, <1>2 DEF RecTypeOK
<1>6. \A c \in Tracked : recorder'[c] = recorder[c]
  BY <1>3 DEF Tracked
<1>7. new \in SUBSET Unused
  OBVIOUS
<1>8. /\ sessions' = sessions \cup new
      /\ ffmpeg' = [s \in Sessions |-> IF s \in new THEN "runs" ELSE ffmpeg[s]]
  BY <1>1
<1> HIDE DEF new
<1> QED
  BY <1>4, <1>5, <1>6, <1>7, <1>8

\* The clips of a session without a trace are of none that is known.
LEMMA UnusedIsBlank ==
  ASSUME RecTypeOK, NEW s \in Unused
  PROVE  /\ s \in Sessions /\ s \notin sessions /\ ffmpeg[s] = "none"
         /\ ToSet(manifest[s]) = {} /\ ClipsOf(s) \cap (listed \cup disk) = {}
BY DEF Unused, ToSet

LEMMA TickKeeps ==
  ASSUME RecInv, archive = "up", NEW want \in SUBSET Cameras, NEW rest \in SUBSET Cameras,
         TickFrom(want, rest)
  PROVE  /\ RecInv'
         /\ \A s \in sessions : \A clip \in ToSet(manifest[s]) \cap disk :
              clip \in disk' \cup listed \cup lapsed' \/ Cardinality(disk) > Budget
<1> DEFINE on == IF siteThere THEN want ELSE {}
           heard == {c \in Tracked \cap on : video[c] = "camera"}
           news(c) == Ingested(recorder[c]) \ listed
           removed == {c \in on : video[c] = "gone"}
           due == {c \in on \ (Tracked \cup removed) : c \notin rest}
           able == {c \in due : video[c] = "camera"}
           rows == listed \cup UNION {news(c) : c \in heard}
<1>1. PICK stalled \in SUBSET {c \in heard : news(c) = {}},
           start \in SUBSET able, refused \in SUBSET (due \ able) :
       /\ enabled' = want \ removed
       /\ Begins(start)
       /\ Sweeps(rows, disk, recorder',
                 ((rest \cup stalled \cup refused) \ removed) \ start,
                 ending \cup {recorder[c] : c \in (Tracked \ heard) \cup stalled})
  BY DEF TickFrom
<1> DEFINE stop == ending \cup {recorder[c] : c \in (Tracked \ heard) \cup stalled}
           waits == ((rest \cup stalled \cup refused) \ removed) \ start
<1>2. UNCHANGED <<video, siteThere, manifest, part, archive, crashes>>
  BY DEF TickFrom
<1>3. start \in SUBSET (Cameras \ Tracked)
  OBVIOUS
<1>4. PICK new \in SUBSET Unused :
           /\ sessions' = sessions \cup new
           /\ recorder' \in [Cameras -> Sessions \cup {NoSession}]
           /\ InUse(recorder') = InUse(recorder) \cup new
           /\ \A c \in Tracked : recorder'[c] = recorder[c]
           /\ ffmpeg' = [s \in Sessions |-> IF s \in new THEN "runs" ELSE ffmpeg[s]]
  BY <1>1, <1>3, BeginsAre DEF RecInv
<1>5. PICK rec : rec = recorder'
  OBVIOUS
<1>6. /\ listed' \subseteq rows /\ listed' \subseteq disk' /\ disk' \subseteq disk
      /\ unfinished' = unfinished \cap disk' /\ lapsed' \subseteq rows
      /\ ending' \in {stop, stop \cup InUse(rec)}
      /\ resting' \in {waits, waits \cup {c \in Cameras : rec[c] # NoSession}}
      /\ \A clip \in disk : 
           \/ clip \in disk' \cup listed \cup lapsed' \/ Cardinality(disk) > Budget
           \/ clip \notin rows /\ clip[1] \notin InUse(rec)
  <2>1. RecTypeOK /\ Sweeps(rows, disk, rec, waits, stop)
    BY <1>1, <1>5 DEF RecInv
  <2> HIDE DEF rows, waits, stop
  <2> HIDE DEF RecInv
  <2>2. SweptTo(rows, disk, rec, waits, stop)
    BY <2>1, SweepsAre
  <2> QED
    BY <2>2 DEF SweptTo
<1>7. \A clip \in rows : clip \in listed \/ \E s \in Sessions : clip \in ToSet(manifest[s]) /\ clip \in disk /\ s \in InUse(recorder)
  BY DEF Ingested, InUse, Tracked, RecInv, RecTypeOK
<1>8. \A c \in Tracked : recorder[c] \in Sessions
  BY DEF RecInv, RecTypeOK, Tracked
<1>9. RecTypeOK'
  <2>1. stop \subseteq Sessions
    BY <1>8 DEF RecInv, RecTypeOK
  <2>2. InUse(rec) \subseteq Sessions
    BY <1>4, <1>5 DEF InUse
  <2>3. waits \subseteq Cameras
    BY DEF Tracked
  <2>4. rows \subseteq Clips
    BY <1>7 DEF RecInv, RecTypeOK
  <2>5. new \subseteq Sessions
    BY DEF Unused
  <2>6. ffmpeg' \in [Sessions -> {"none", "runs", "ended"}]
    BY <1>4 DEF RecInv, RecTypeOK
  <2>7. enabled' \subseteq Cameras
    BY <1>1
  <2> HIDE DEF rows, waits, stop
  <2> QED
    BY <1>2, <1>4, <1>6, <2>1, <2>2, <2>3, <2>4, <2>5, <2>6, <2>7 DEF RecInv, RecTypeOK
<1>10. ClipsComplete'
  BY <1>2, <1>6, <1>7 DEF RecInv, ClipsComplete
<1>11. NumbersRise'
  <2>1. ASSUME NEW s \in Sessions
        PROVE  /\ (ffmpeg[s] # "runs" => part[s] = 0)'
               /\ (ffmpeg[s] = "runs" => \A clip \in ClipsOf(s) \cap (listed \cup disk \cup ToSet(manifest[s])) : clip[2] <= part[s])'
    <3>1. \A clip \in ClipsOf(s) : clip \in listed' => clip \in listed \cup disk \cup ToSet(manifest[s])
      BY <1>6, <1>7 DEF RecInv, ClipsComplete, ClipsOf
    <3>2. CASE s \in new
      BY <1>2, <1>4, <1>6, <3>1, <3>2, UnusedIsBlank DEF RecInv, NumbersRise, ClipsOf
    <3>3. CASE s \notin new
      BY <1>2, <1>4, <1>6, <3>1, <3>3 DEF RecInv, NumbersRise, ClipsOf
    <3> QED
      BY <3>2, <3>3
  <2> QED
    BY <2>1 DEF NumbersRise
<1>12. SessionsServed' /\ AdvertisedIsThere'
  <2>1. listed' \cap unfinished' = {}
    BY <1>10 DEF ClipsComplete
  <2> QED
    BY <1>2, <1>4, <1>6, <2>1 DEF RecInv, SessionsServed, AdvertisedIsThere
<1>13. \A s \in sessions : \A clip \in ToSet(manifest[s]) \cap disk :
              clip \in disk' \cup listed \cup lapsed' \/ Cardinality(disk) > Budget
  <2>1. ASSUME NEW s \in sessions, NEW clip \in ToSet(manifest[s]) \cap disk
        PROVE  clip[1] \in InUse(rec)
    BY <1>4, <1>5 DEF RecInv, SessionsServed, ClipsComplete, RecTypeOK
  <2> QED
    BY <1>6, <2>1
<1> QED
  BY <1>9, <1>10, <1>11, <1>12, <1>13 DEF RecInv

\* What the step of a recorder or a request does to clips that a manifest names.
ManifestsKept ==
  \A s \in sessions : \A clip \in ToSet(manifest[s]) \cap disk :
    \/ clip \in disk' \cup listed \cup lapsed'
    \/ ~siteThere' \/ Cardinality(disk) > Budget

LEMMA PolicyKeeps ==
  ASSUME RecInv, NEW c \in Cameras, NEW b \in BOOLEAN, RecTick \/ PutPolicy(c, b)
  PROVE  RecInv' /\ ManifestsKept
<1>1. CASE RecTick
  <2>1. archive = "up" /\ TickFrom(enabled, resting)
    BY <1>1 DEF RecTick
  <2>2. enabled \in SUBSET Cameras /\ resting \in SUBSET Cameras
    BY DEF RecInv, RecTypeOK
  <2> HIDE DEF RecInv
  <2> QED
    BY <2>1, <2>2, TickKeeps DEF ManifestsKept
<1>2. CASE PutPolicy(c, b)
  <2>1. PICK want, rest : want = (IF b THEN enabled \cup {c} ELSE enabled \ {c}) /\ rest = resting \ {c}
    OBVIOUS
  <2>2. archive = "up" /\ TickFrom(want, rest)
    BY <1>2, <2>1 DEF PutPolicy
  <2>3. want \in SUBSET Cameras /\ rest \in SUBSET Cameras
    BY <2>1 DEF RecInv, RecTypeOK
  <2> HIDE DEF RecInv
  <2> QED
    BY <2>2, <2>3, TickKeeps DEF ManifestsKept
<1> QED
  BY <1>1, <1>2

LEMMA RequestKeeps ==
  ASSUME RecInv,
         \/ DeleteSite \/ CloseArchive \/ ArchiveClosed \/ ArchiveKilled
         \/ \E clip \in Clips : DeleteClip(clip)
         \/ \E c \in Cameras : ChannelChanges(c) \/ Rested(c)
  PROVE  RecInv' /\ ManifestsKept
<1> USE DEF RecInv, RecTypeOK, ClipsComplete, NumbersRise, SessionsServed, AdvertisedIsThere, ManifestsKept
<1>1. CASE DeleteSite
  BY <1>1 DEF DeleteSite, recTables, process, workers
<1>2. CASE CloseArchive
  <2>1. InUse(recorder) \subseteq Sessions
    BY DEF InUse
  <2> QED
    BY <1>2, <2>1 DEF CloseArchive, recTables, process
<1>3. ASSUME Forgotten PROVE recorder' \in [Cameras -> Sessions \cup {NoSession}]
  BY <1>3 DEF Forgotten
<1>4. ASSUME Forgotten
      PROVE  /\ ffmpeg' \in [Sessions -> {"none", "runs", "ended"}]
             /\ \A s \in Sessions : ffmpeg'[s] = "runs" <=> ffmpeg[s] = "runs"
  BY <1>4 DEF Forgotten
<1>5. CASE ArchiveClosed
  BY <1>3, <1>4, <1>5 DEF ArchiveClosed, Forgotten, recTables
<1>6. CASE ArchiveKilled
  <2>1. \E clip : disk' = disk \/ (clip \in listed /\ disk' = disk \ {clip})
    BY <1>6 DEF ArchiveKilled
  <2>2. disk' \subseteq disk /\ disk \subseteq disk' \cup listed /\ unfinished \subseteq disk'
    BY <2>1
  <2>3. crashes' \in 0..MaxCrashes
    BY <1>6, RecordingsAssumption DEF ArchiveKilled
  <2>4. archive' = "down" /\ ending' = {} /\ resting' = {}
        /\ UNCHANGED <<enabled, sessions, listed, video, siteThere, unfinished, manifest, part>>
    BY <1>6 DEF ArchiveKilled, Forgotten, recTables
  <2> QED
    BY <1>3, <1>4, <1>6, <2>2, <2>3, <2>4 DEF ArchiveKilled
<1>7. CASE \E clip \in Clips : DeleteClip(clip)
  BY <1>7 DEF DeleteClip, process, workers
<1>8. CASE \E c \in Cameras : ChannelChanges(c)
  BY <1>8 DEF ChannelChanges, recTables, process, workers
<1>9. CASE \E c \in Cameras : Rested(c)
  BY <1>9 DEF Rested, recTables, process
<1> QED
  BY <1>1, <1>2, <1>5, <1>6, <1>7, <1>8, <1>9

LEMMA BootKeeps ==
  ASSUME RecInv, ArchiveBoots
  PROVE  RecInv' /\ ManifestsKept
<1> DEFINE rows == listed \cup UNION {Recovered(s) : s \in sessions}
<1>1. Sweeps(rows, disk \cap rows, recorder, {}, {})
  BY DEF ArchiveBoots
<1>2. \A clip \in rows : \/ clip \in listed
                         \/ \E s \in sessions : clip \in ToSet(manifest[s]) \cap disk
  BY DEF Recovered, Ingested
<1>3. \A s \in sessions : ToSet(manifest[s]) \cap disk \subseteq rows
  BY DEF Recovered, Ingested
<1> HIDE DEF rows
<1>4. SweptTo(rows, disk \cap rows, recorder, {}, {})
  BY <1>1, SweepsAre DEF RecInv
<1>5. /\ archive' = "up" /\ sessions' = {}
      /\ manifest' = [s \in Sessions |-> <<>>]
      /\ UNCHANGED <<enabled, video, siteThere, ffmpeg, part, recorder, crashes>>
  BY DEF ArchiveBoots, process
<1>6. \A s \in Sessions : ToSet(manifest'[s]) = {} /\ manifest'[s] = <<>>
  BY <1>5 DEF ToSet
<1>7. RecTypeOK'
  <2>1. InUse(recorder) \subseteq Sessions
    BY DEF RecInv, RecTypeOK, InUse
  <2>2. rows \subseteq Clips
    BY <1>2 DEF RecInv, RecTypeOK
  <2>3. ending' \subseteq Sessions /\ resting' \subseteq Cameras
    BY <1>4, <2>1 DEF SweptTo
  <2>4. /\ listed' \subseteq Clips /\ disk' \subseteq Clips /\ unfinished' \subseteq disk'
        /\ lapsed' \subseteq Clips
    BY <1>4, <2>2 DEF SweptTo
  <2>5. <<>> \in Seq(Clips)
    OBVIOUS
  <2> QED
    BY <1>5, <2>3, <2>4, <2>5 DEF RecInv, RecTypeOK
<1>8. ClipsComplete'
  BY <1>2, <1>4, <1>6 DEF RecInv, ClipsComplete, SweptTo, RecTypeOK
<1>9. NumbersRise'
  <2>1. listed' \subseteq rows /\ disk' \subseteq disk
    BY <1>4 DEF SweptTo
  <2>2. ASSUME NEW s \in Sessions, ffmpeg[s] = "runs", NEW clip \in ClipsOf(s), clip \in rows
        PROVE  clip[2] <= part[s]
    BY <1>2, <2>2 DEF RecInv, NumbersRise
  <2> QED
    BY <1>5, <1>6, <2>1, <2>2 DEF RecInv, NumbersRise, ClipsOf
<1>10. SessionsServed' /\ AdvertisedIsThere'
  BY <1>4, <1>5, <1>8 DEF SweptTo, SessionsServed, AdvertisedIsThere, ClipsComplete
<1>11. ManifestsKept
  BY <1>3, <1>4 DEF ManifestsKept, SweptTo
<1> QED
  BY <1>7, <1>8, <1>9, <1>10, <1>11 DEF RecInv

\* A manifest that is entered names the clip that was just completed, and of
\* those before it all but the oldest.
LEMMA EnteredIs ==
  ASSUME RecTypeOK, NEW s \in Sessions, part[s] > 0, Entered(s)
  PROVE  /\ manifest' \in [Sessions -> Seq(Clips)]
         /\ \A q \in Sessions \ {s} : manifest'[q] = manifest[q]
         /\ ToSet(manifest'[s]) \subseteq ToSet(manifest[s]) \cup {<<s, part[s]>>}
<1>1. PICK clip : clip = <<s, part[s]>>
  OBVIOUS
<1>2. clip \in Clips
  BY <1>1 DEF RecTypeOK, Clips
<1>3. PICK names : names = Append(manifest[s], clip)
  OBVIOUS
<1>4. /\ names \in Seq(Clips) /\ Len(names) = Len(manifest[s]) + 1
      /\ \A i \in 1..Len(names) : names[i] = clip \/ \E j \in 1..Len(manifest[s]) : names[i] = manifest[s][j]
  <2>1. manifest[s] \in Seq(Clips)
    BY DEF RecTypeOK
  <2> QED
    BY <1>2, <1>3, <2>1
<1>5. /\ Tail(names) \in Seq(Clips) /\ Len(Tail(names)) = Len(names) - 1
      /\ \A i \in 1..Len(Tail(names)) : Tail(names)[i] = names[i + 1]
  <2>1. manifest[s] \in Seq(Clips)
    BY DEF RecTypeOK
  <2>2. names # <<>>
    BY <1>4, <2>1
  <2> QED
    BY <1>4, <2>2
<1>6. PICK new : new = (IF s \notin sessions THEN <<>>
                                      ELSE IF Len(names) > ListSize THEN Tail(names)
                                      ELSE names)
  OBVIOUS
<1>7. manifest' = [manifest EXCEPT ![s] = new]
  BY <1>1, <1>3, <1>6 DEF Entered
<1>8. new \in Seq(Clips)
  BY <1>4, <1>5, <1>6
<1>9. ToSet(new) \subseteq ToSet(manifest[s]) \cup {clip}
  <2>1. ASSUME NEW i \in 1..Len(names) PROVE names[i] \in ToSet(manifest[s]) \cup {clip}
    BY <1>4 DEF ToSet
  <2>2. CASE new = <<>>
    BY <2>2 DEF ToSet
  <2>3. CASE new = names
    BY <2>1, <2>3 DEF ToSet
  <2>4. CASE new = Tail(names)
    <3>1. \A i \in 1..Len(new) : i + 1 \in 1..Len(names)
      BY <1>4, <1>5, <2>4
    <3> QED
      BY <1>5, <2>1, <2>4, <3>1 DEF ToSet
  <2> QED
    BY <1>6, <2>2, <2>3, <2>4
<1> QED
  BY <1>1, <1>7, <1>8, <1>9 DEF RecTypeOK

LEMMA CutsKeep ==
  ASSUME RecInv, NEW s \in Sessions, Cuts(s)
  PROVE  RecInv' /\ ManifestsKept
<1>1. PICK clip : clip = <<s, part[s] + 1>>
  OBVIOUS
<1>2. /\ clip[1] = s /\ clip[2] = part[s] + 1 /\ clip \in ClipsOf(s) /\ clip \in Clips
      /\ part[s] + 1 \in 0..MaxClips /\ part[s] \in Nat
  BY <1>1, RecordingsAssumption DEF Cuts, RecInv, RecTypeOK, Clips, ClipsOf
<1>3. /\ ffmpeg[s] = "runs" /\ part' = [part EXCEPT ![s] = part[s] + 1]
      /\ disk' = disk \cup {clip}
      /\ unfinished' = (unfinished \ ClipsOf(s)) \cup {clip}
      /\ UNCHANGED <<enabled, sessions, listed, video, siteThere, ffmpeg, recorder, ending, resting, archive, lapsed, crashes>>
  BY <1>1 DEF Cuts, recTables, workers
<1>4. clip \notin listed \cup disk \cup ToSet(manifest[s])
  BY <1>2, <1>3 DEF RecInv, NumbersRise
<1>5. /\ manifest' \in [Sessions -> Seq(Clips)]
      /\ \A q \in Sessions \ {s} : manifest'[q] = manifest[q]
      /\ ToSet(manifest'[s]) \subseteq ToSet(manifest[s]) \cup {<<s, part[s]>>}
  <2>1. CASE part[s] = 0
    BY <2>1 DEF Cuts, RecInv, RecTypeOK
  <2>2. CASE part[s] # 0
    <3>1. part[s] > 0 /\ Entered(s)
      BY <1>2, <2>2 DEF Cuts
    <3> QED
      BY <3>1, EnteredIs DEF RecInv
  <2> QED
    BY <2>1, <2>2
<1>6. RecTypeOK'
  BY <1>2, <1>3, <1>5 DEF RecInv, RecTypeOK
<1>7. \A q \in Sessions : \A x \in ToSet(manifest'[q]) : x[1] = q /\ x # clip
                            /\ (x \in ToSet(manifest[q]) \/ (q = s /\ x[2] = part[s]))
  BY <1>2, <1>4, <1>5 DEF RecInv, ClipsComplete
<1>8. ClipsComplete'
  <2>1. ASSUME NEW q \in Sessions, NEW x \in ToSet(manifest'[q])
        PROVE  x[1] = q /\ x \notin unfinished'
    <3>1. x[1] = q /\ x # clip
      BY <1>7
    <3>2. CASE q = s
      <4>1. x \notin unfinished \/ x \in ClipsOf(s)
        BY <3>1, <3>2 DEF ClipsOf, RecInv, RecTypeOK
      <4> QED
        BY <1>3, <3>1, <4>1
    <3>3. CASE q # s
      BY <1>3, <1>5, <3>1, <3>3 DEF RecInv, ClipsComplete
    <3> QED
      BY <3>1, <3>2, <3>3
  <2>2. listed' \cap unfinished' = {}
    BY <1>3, <1>4 DEF RecInv, ClipsComplete
  <2> QED
    BY <2>1, <2>2 DEF ClipsComplete
<1>9. NumbersRise'
  <2>1. ASSUME NEW q \in Sessions, ffmpeg[q] = "runs",
               NEW x \in ClipsOf(q) \cap (listed' \cup disk' \cup ToSet(manifest'[q]))
        PROVE  x[2] <= part'[q]
    <3>1. q # s => part'[q] = part[q] /\ x \in listed \cup disk \cup ToSet(manifest[q])
      BY <1>2, <1>3, <1>5 DEF ClipsOf, RecInv, RecTypeOK
    <3>2. q = s => part'[q] = part[s] + 1 /\ (x = clip \/ x \in listed \cup disk \cup ToSet(manifest[s]) \/ x[2] = part[s])
      BY <1>3, <1>7 DEF RecInv, RecTypeOK
    <3>3. x \in listed \cup disk \cup ToSet(manifest[q]) => x[2] <= part[q]
      BY <2>1 DEF RecInv, NumbersRise
    <3>4. x[2] \in Nat /\ part[q] \in Nat
      BY DEF ClipsOf, Clips, RecInv, RecTypeOK
    <3> QED
      BY <1>2, <3>1, <3>2, <3>3, <3>4
  <2>2. \A q \in Sessions : ffmpeg[q] # "runs" => part'[q] = 0
    BY <1>3 DEF RecInv, RecTypeOK, NumbersRise
  <2>3. \A q \in Sessions : ClipsOf(q)' = ClipsOf(q)
    BY DEF ClipsOf
  <2> QED
    BY <1>3, <2>1, <2>2, <2>3 DEF NumbersRise
<1>10. SessionsServed' /\ AdvertisedIsThere' /\ ManifestsKept
  BY <1>3, <1>4 DEF RecInv, SessionsServed, AdvertisedIsThere, ManifestsKept, InUse
<1> QED
  BY <1>6, <1>8, <1>9, <1>10 DEF RecInv

LEMMA EndKeeps ==
  ASSUME RecInv, NEW s \in Sessions, RecorderEnds(s)
  PROVE  RecInv' /\ ManifestsKept
<1>1. /\ ffmpeg[s] = "runs" /\ part' = [part EXCEPT ![s] = 0]
      /\ ffmpeg' = [ffmpeg EXCEPT ![s] = IF s \in InUse(recorder) THEN "ended" ELSE "none"]
      /\ UNCHANGED <<enabled, sessions, listed, video, siteThere, disk, recorder, ending, resting, archive, lapsed, crashes>>
  BY DEF RecorderEnds, recTables, workers
<1>2. /\ manifest' \in [Sessions -> Seq(Clips)]
      /\ \A q \in Sessions \ {s} : manifest'[q] = manifest[q]
      /\ \/ unfinished' = unfinished \ ClipsOf(s)
            /\ ToSet(manifest'[s]) \subseteq ToSet(manifest[s]) \cup {<<s, part[s]>>}
         \/ UNCHANGED <<unfinished, manifest>>
  <2>1. CASE UNCHANGED <<unfinished, manifest>>
    BY <2>1 DEF RecInv, RecTypeOK
  <2>2. CASE part[s] > 0 /\ Entered(s) /\ unfinished' = unfinished \ ClipsOf(s)
    BY <2>2, EnteredIs DEF RecInv
  <2> QED
    BY <2>1, <2>2 DEF RecorderEnds
<1>3. RecTypeOK'
  <2>1. 0 \in 0..MaxClips
    BY RecordingsAssumption
  <2> QED
    BY <1>1, <1>2, <2>1 DEF RecInv, RecTypeOK
<1>4. ClipsComplete'
  <2>1. ASSUME NEW q \in Sessions, NEW x \in ToSet(manifest'[q])
        PROVE  x[1] = q /\ x \notin unfinished'
    <3>1. CASE q = s /\ unfinished' = unfinished \ ClipsOf(s)
            /\ ToSet(manifest'[s]) \subseteq ToSet(manifest[s]) \cup {<<s, part[s]>>}
      BY <3>1 DEF RecInv, ClipsComplete, ClipsOf, RecTypeOK
    <3>2. CASE q # s \/ UNCHANGED <<unfinished, manifest>>
      BY <1>2, <3>2 DEF RecInv, ClipsComplete
    <3> QED
      BY <1>2, <3>1, <3>2
  <2>2. listed' \cap unfinished' = {}
    BY <1>1, <1>2 DEF RecInv, ClipsComplete
  <2> QED
    BY <2>1, <2>2 DEF ClipsComplete
<1>5. NumbersRise'
  <2>1. ffmpeg'[s] # "runs" /\ part'[s] = 0
    BY <1>1 DEF RecInv, RecTypeOK
  <2>2. \A q \in Sessions \ {s} : /\ ffmpeg'[q] = ffmpeg[q] /\ part'[q] = part[q]
                                  /\ manifest'[q] = manifest[q]
    BY <1>1, <1>2 DEF RecInv, RecTypeOK
  <2>3. \A q \in Sessions : ClipsOf(q)' = ClipsOf(q)
    BY DEF ClipsOf
  <2> QED
    BY <1>1, <2>1, <2>2, <2>3 DEF RecInv, NumbersRise
<1>6. SessionsServed' /\ AdvertisedIsThere' /\ ManifestsKept
  BY <1>1, <1>4 DEF RecInv, SessionsServed, AdvertisedIsThere, ManifestsKept, ClipsComplete, InUse
<1> QED
  BY <1>3, <1>4, <1>5, <1>6 DEF RecInv

LEMMA CloseKeeps ==
  ASSUME RecInv, NEW s \in Sessions, RecorderClosed(s)
  PROVE  RecInv' /\ ManifestsKept
<1>1. /\ ffmpeg[s] = "ended" /\ archive # "down"
      /\ ffmpeg' = [ffmpeg EXCEPT ![s] = "none"]
      /\ manifest' = [manifest EXCEPT ![s] = <<>>]
      /\ disk' = {f \in disk : f[1] = s => f \in listed'}
      /\ unfinished' = unfinished \cap disk' /\ sessions' = sessions \ {s}
      /\ ending' = ending \ {s}
      /\ UNCHANGED <<enabled, video, siteThere, part, archive, lapsed, crashes>>
  BY DEF RecorderClosed
<1>2. /\ listed' = listed \/ listed' = listed \cup (ToSet(manifest[s]) \cap disk)
      /\ siteThere => listed' = listed \cup (ToSet(manifest[s]) \cap disk)
  BY DEF RecorderClosed, Recovered, Ingested
<1>3. /\ \A c \in Cameras : recorder'[c] = IF recorder[c] = s THEN NoSession ELSE recorder[c]
      /\ recorder' \in [Cameras -> Sessions \cup {NoSession}]
      /\ resting' \subseteq Cameras
  BY DEF RecorderClosed, RecInv, RecTypeOK
<1>4. ToSet(manifest'[s]) = {} /\ \A q \in Sessions \ {s} : manifest'[q] = manifest[q]
  BY <1>1 DEF ToSet, RecInv, RecTypeOK
<1>5. listed' \subseteq Clips
  BY <1>2 DEF RecInv, RecTypeOK
<1>6. RecTypeOK'
  <2>1. manifest' \in [Sessions -> Seq(Clips)]
    <3>1. <<>> \in Seq(Clips)
      OBVIOUS
    <3> QED
      BY <1>1, <3>1 DEF RecInv, RecTypeOK
  <2> QED
    BY <1>1, <1>3, <1>5, <2>1 DEF RecInv, RecTypeOK
<1>7. ClipsComplete'
  BY <1>1, <1>2, <1>4 DEF RecInv, ClipsComplete
<1>8. NumbersRise'
  <2>1. ffmpeg'[s] # "runs" /\ part'[s] = 0
    BY <1>1 DEF RecInv, RecTypeOK, NumbersRise
  <2>2. \A q \in Sessions \ {s} : ffmpeg'[q] = ffmpeg[q] /\ part'[q] = part[q]
    BY <1>1 DEF RecInv, RecTypeOK
  <2>3. \A q \in Sessions \ {s} : ClipsOf(q) \cap listed' \subseteq listed
    BY <1>2 DEF RecInv, ClipsComplete, ClipsOf
  <2>4. \A q \in Sessions : ClipsOf(q)' = ClipsOf(q)
    BY DEF ClipsOf
  <2> QED
    BY <1>1, <1>4, <2>1, <2>2, <2>3, <2>4 DEF RecInv, NumbersRise
<1>9. AdvertisedIsThere'
  <2>1. listed' \subseteq disk'
    BY <1>1, <1>2 DEF RecInv, AdvertisedIsThere
  <2> QED
    BY <1>7, <2>1 DEF AdvertisedIsThere, ClipsComplete
<1>10. SessionsServed'
  BY <1>1, <1>3 DEF RecInv, SessionsServed, InUse
<1>11. ManifestsKept
  <2>1. ASSUME NEW q \in sessions, NEW clip \in ToSet(manifest[q]) \cap disk, siteThere
        PROVE  clip \in disk'
    <3>1. q \in Sessions /\ clip[1] = q
      BY DEF RecInv, RecTypeOK, ClipsComplete
    <3> QED
      BY <1>1, <1>2, <2>1, <3>1
  <2> QED
    BY <1>1, <2>1 DEF ManifestsKept
<1> QED
  BY <1>6, <1>7, <1>8, <1>9, <1>10, <1>11 DEF RecInv

LEMMA RecStep == RecInv /\ [RecNext]_recVars => RecInv' /\ [ManifestsKept]_recVars
<1> SUFFICES ASSUME RecInv, [RecNext]_recVars PROVE RecInv' /\ [ManifestsKept]_recVars
  OBVIOUS
<1>1. CASE UNCHANGED recVars
  <2>1. UNCHANGED <<enabled, sessions, listed, video, siteThere, disk, unfinished, manifest,
                    ffmpeg, part, recorder, ending, resting, archive, lapsed, crashes>>
    BY <1>1 DEF recVars, recTables, process, workers
  <2>2. /\ \A s : ClipsOf(s)' = ClipsOf(s)
        /\ InUse(recorder)' = InUse(recorder)
    BY <2>1 DEF ClipsOf, InUse
  <2> QED
    BY <1>1, <2>1, <2>2 DEF RecInv, RecTypeOK, ClipsComplete, NumbersRise, SessionsServed, AdvertisedIsThere
<1>2. CASE RecTick \/ \E c \in Cameras, b \in BOOLEAN : PutPolicy(c, b)
  <2> HIDE DEF RecInv
  <2>1. ASSUME RecTick PROVE RecInv' /\ ManifestsKept
    <3>1. archive = "up" /\ TickFrom(enabled, resting)
      BY <2>1 DEF RecTick
    <3>2. enabled \in SUBSET Cameras /\ resting \in SUBSET Cameras
      BY DEF RecInv, RecTypeOK
    <3> QED
      BY <3>1, <3>2, TickKeeps DEF ManifestsKept
  <2> QED
    BY <1>2, <2>1, PolicyKeeps
<1>3. CASE \/ DeleteSite \/ CloseArchive \/ ArchiveClosed \/ ArchiveKilled
           \/ \E clip \in Clips : DeleteClip(clip)
           \/ \E c \in Cameras : ChannelChanges(c) \/ Rested(c)
  BY <1>3, RequestKeeps
<1>4. CASE \E s \in Sessions : Cuts(s) \/ RecorderEnds(s) \/ RecorderClosed(s)
  BY <1>4, CutsKeep, EndKeeps, CloseKeeps
<1>5. CASE ArchiveBoots
  BY <1>5, BootKeeps
<1> QED
  BY <1>1, <1>2, <1>3, <1>4, <1>5 DEF RecNext

\* What the archive advertises is there, complete, in every state in which it
\* answers, and a clip its session's manifest names goes only after it was on
\* record, with its site, past its retention or for the budget: for any number of cameras, sessions,
\* clips, kills and sizes of the budget and the manifest.
THEOREM ClipsStay == RecInit /\ [][RecNext]_recVars => ClipsAreKept
<1>1. RecInv /\ [RecNext]_recVars => RecInv' /\ [ManifestsKept]_recVars
  BY RecStep
<1>2. RecInv => AdvertisedIsThere
  BY DEF RecInv
<1>3. [ManifestsKept]_recVars =>
        [\A s \in sessions : \A clip \in ToSet(manifest[s]) \cap disk :
           \/ clip \in disk' \cup listed \cup lapsed'
           \/ ~siteThere' \/ Cardinality(disk) > Budget]_recVars
  BY DEF ManifestsKept
<1> QED
  BY <1>1, <1>2, <1>3, InitRec, PTL DEF ClipsAreKept, CompletedIsKept

\* The tables, files and processes of the archive keep their types.
THEOREM RecordingsTypeCorrect == RecInit /\ [][RecNext]_recVars => []RecTypeOK
<1>1. RecInv => RecTypeOK
  BY DEF RecInv
<1> QED
  BY <1>1, InitRec, RecStep, PTL

-----------------------------------------------------------------------------
(* Console: what a browser shows of its site.                              *)

Views  == [Topics -> [site : Sites \cup {""}, changes : SUBSET (1..MaxChanges)]]
Tolds  == {<<>>} \cup UNION {[T -> SUBSET (1..MaxChanges)] : T \in SUBSET Topics}
Frames == [bye : BOOLEAN, site : Sites \cup {""}, told : Tolds, adds : BOOLEAN]

ConTypes == ConTypeOK /\ shown \in Views /\ feed \in Seq(Frames)

\* A socket that is open or on its way, the frames it carries and what is shown
\* are of the site that is selected.
InRoom ==
  /\ ws.state \in {"open", "connecting"} => ws.site = siteId /\ ws.generation = generation
  /\ ws.state # "open" => feed = <<>>
  /\ \A i \in 1..Len(feed) : ~feed[i].bye => feed[i].site = siteId
  /\ \A t \in Topics : shown[t] # Blank => shown[t].site = siteId

\* The views the browser passes through while it handles what is under way; the
\* last of them is what the platform knows.
Matches(view) == \A t \in Prompt : view[t] = [site |-> siteId, changes |-> truth[siteId][t]]
Leads(v) ==
  /\ v \in [0..Len(feed) -> Views] /\ v[0] = shown
  /\ \A i \in 1..Len(feed) : v[i] = Shows(v[i - 1], feed[i])
  /\ Matches(v[Len(feed)])
CatchesUp ==
  ws.state = "open" /\ (\A i \in 1..Len(feed) : ~feed[i].bye) =>
    siteId \in worlds /\ \E v : Leads(v)

ConInv == ConTypes /\ InRoom /\ CatchesUp

LEMMA EmptyFeed == <<>> \in Seq(Frames) /\ Len(<<>>) = 0
OBVIOUS

LEMMA ShowsIsView ==
  ASSUME NEW view \in Views, NEW frame \in Frames, frame.site \in Sites
  PROVE  /\ Shows(view, frame) \in Views
         /\ \A t \in Topics : t \notin DOMAIN frame.told => Shows(view, frame)[t] = view[t]
         /\ \A t \in Topics : t \in DOMAIN frame.told =>
              Shows(view, frame)[t] =
                [site |-> frame.site,
                 changes |-> IF frame.adds THEN view[t].changes \cup frame.told[t]
                                           ELSE frame.told[t]]
<1>1. \A t \in DOMAIN frame.told : frame.told[t] \in SUBSET (1..MaxChanges)
  <2>1. DOMAIN <<>> = {}
    OBVIOUS
  <2>2. frame.told \in Tolds
    BY DEF Frames
  <2> QED
    BY <2>1, <2>2 DEF Tolds
<1>2. \A t \in Topics : view[t].changes \in SUBSET (1..MaxChanges)
  BY DEF Views
<1>3. \A t \in Topics :
        (IF frame.adds THEN view[t].changes \cup frame.told[t] ELSE frame.told[t])
          \in SUBSET (1..MaxChanges) \/ t \notin DOMAIN frame.told
  BY <1>1, <1>2
<1> QED
  BY <1>3 DEF Shows, Views

LEMMA InitCon == ConInit => ConInv
<1> SUFFICES ASSUME ConInit PROVE ConInv
  OBVIOUS
<1>1. 0 \in 0..MaxChanges /\ 0 \in 0..MaxBreaks /\ 0 \in 0..MaxGenerations
  BY ConsoleAssumption
<1>2. shown \in Views /\ \A t \in Topics : shown[t] = Blank
  BY DEF ConInit, NoView, Blank, Views
<1>3. ws \in [state : {"none", "connecting"}, generation : {0}, site : {siteId, ""}]
      /\ (ws.state = "connecting" => ws.site = siteId)
  BY DEF ConInit, Connected, NoSocket
<1>4. ConTypeOK
  <2>1. truth \in [Sites -> [Topics -> SUBSET (1..MaxChanges)]]
    BY DEF ConInit
  <2>2. {publicView, cookie, me, connected} \subseteq BOOLEAN
    BY DEF ConInit
  <2>3. ws \in [state : States, generation : 0..MaxGenerations, site : Sites \cup {""}]
    BY <1>1, <1>3 DEF States, ConInit
  <2>4. \A t \in Topics : shown[t].site \in Sites \cup {""} /\ shown[t].changes \subseteq 1..MaxChanges
    BY <1>2 DEF Views
  <2>5. worlds = Sites /\ changes = 0 /\ breaks = 0 /\ siteId \in Sites /\ generation = 0 /\ timers = {}
    BY DEF ConInit
  <2> QED
    BY <1>1, <2>1, <2>2, <2>3, <2>4, <2>5 DEF ConTypeOK
<1>5. feed = <<>> /\ generation = 0
  BY DEF ConInit
<1>6. feed \in Seq(Frames) /\ Len(feed) = 0
  BY <1>5, EmptyFeed
<1>7. ws.state # "open" /\ (ws.state = "connecting" => ws.site = siteId /\ ws.generation = generation)
  BY <1>3, <1>5
<1>8. InRoom
  BY <1>2, <1>5, <1>6, <1>7 DEF InRoom
<1> QED
  BY <1>2, <1>4, <1>6, <1>7, <1>8 DEF ConInv, ConTypes, CatchesUp

\* The browser turns to a site: its socket is closed and perhaps a new one tried.
LEMMA GoesSomewhere ==
  ASSUME ConInv, NEW s \in Sites, NEW signed \in BOOLEAN, NEW view,
         view = NoView \/ (view = shown /\ s = siteId), GoesTo(s, signed, view),
         changes' \in 0..MaxChanges, worlds' \subseteq Sites,
         truth' \in [Sites -> [Topics -> SUBSET (1..MaxChanges)]],
         {publicView, cookie, me, connected}' \subseteq BOOLEAN,
         UNCHANGED <<timers, breaks>>
  PROVE  ConInv'
<1>1. NoView \in Views /\ \A t \in Topics : NoView[t] = Blank
  BY DEF NoView, Blank, Views
<1>2. shown' \in Views /\ \A t \in Topics : shown'[t] # Blank => shown'[t].site = s
  BY <1>1 DEF GoesTo, ConInv, ConTypes, InRoom
<1>3. generation' \in 0..MaxGenerations /\ generation' = generation + 1 /\ siteId' = s
  <2>1. generation < MaxGenerations /\ generation' = generation + 1 /\ siteId' = s
    BY DEF GoesTo
  <2>2. generation \in 0..MaxGenerations
    BY DEF ConInv, ConTypes, ConTypeOK
  <2> QED
    BY <2>1, <2>2, ConsoleAssumption
<1>4. /\ Closed(ws) \in [state : States, generation : 0..MaxGenerations, site : Sites \cup {""}]
      /\ Closed(ws).state \in {"none", "closed"}
  BY DEF Closed, States, ConInv, ConTypes, ConTypeOK
<1>5. /\ ws' \in [state : States, generation : 0..MaxGenerations, site : Sites \cup {""}]
      /\ ws'.state # "open"
      /\ ws'.state = "connecting" => ws'.site = s /\ ws'.generation = generation'
  BY <1>3, <1>4 DEF GoesTo, Connected, States
<1>6. feed' = <<>>
  BY <1>5 DEF GoesTo
<1>7. ConTypes'
  BY <1>2, <1>3, <1>5, <1>6, EmptyFeed DEF ConInv, ConTypes, ConTypeOK, Views
<1>8. InRoom'
  <2>1. Len(feed') = 0
    BY <1>6, EmptyFeed
  <2>2. \A i \in 1..Len(feed') : FALSE
    BY <2>1
  <2>3. \A t \in Topics : shown'[t] # Blank => shown'[t].site = siteId'
    BY <1>2, <1>3
  <2>4. Topics' = Topics /\ Blank' = Blank
    BY DEF Topics, Blank
  <2>5. ws'.state \in {"open", "connecting"} => ws'.site = siteId' /\ ws'.generation = generation'
    BY <1>3, <1>5
  <2> QED
    BY <1>6, <2>2, <2>3, <2>5 DEF InRoom
<1>9. CatchesUp'
  BY <1>5 DEF CatchesUp
<1> QED
  BY <1>7, <1>8, <1>9 DEF ConInv

LEMMA FramesJoined ==
  ASSUME NEW p \in Seq(Frames), NEW q \in Seq(Frames)
  PROVE  /\ Len(p \o q) = Len(p) + Len(q)
         /\ \A i \in 1..Len(q) : (p \o q)[Len(p) + i] = q[i]
OBVIOUS

\* Frames are sent into the room of a site.
LEMMA TellsTypes ==
  ASSUME ConInv, NEW s \in Sites, NEW frames \in Seq(Frames), Tells(s, frames),
         \A i \in 1..Len(frames) : ~frames[i].bye => frames[i].site = s,
         UNCHANGED <<siteId, generation, ws, shown>>
  PROVE  feed' \in Seq(Frames) /\ InRoom'
<1>1. CASE feed' = feed
  BY <1>1 DEF ConInv, ConTypes, InRoom
<1>2. CASE ws.state = "open" /\ ws.site = s /\ feed' = feed \o frames
  <2>1. siteId = s /\ feed \in Seq(Frames)
    BY <1>2 DEF ConInv, ConTypes, InRoom
  <2>2. /\ feed' \in Seq(Frames) /\ Len(feed) \in Nat /\ Len(frames) \in Nat
        /\ Len(feed') = Len(feed) + Len(frames)
        /\ \A i \in 1..Len(feed) : feed'[i] = feed[i]
        /\ \A i \in 1..Len(feed') : i > Len(feed) =>
              i - Len(feed) \in 1..Len(frames) /\ feed'[i] = frames[i - Len(feed)]
    BY <1>2, <2>1
  <2>3. \A i \in 1..Len(feed') : ~feed'[i].bye => feed'[i].site = siteId
    <3>1. ASSUME NEW i \in 1..Len(feed'), ~feed'[i].bye PROVE feed'[i].site = siteId
      <4>1. CASE i \in 1..Len(feed)
        BY <2>2, <3>1, <4>1 DEF ConInv, InRoom
      <4>2. CASE i \notin 1..Len(feed)
        <5>1. i > Len(feed)
          BY <2>2, <4>2
        <5> QED
          BY <2>1, <2>2, <3>1, <5>1
      <4> QED
        BY <4>1, <4>2
    <3> QED
      BY <3>1
  <2> QED
    BY <1>2, <2>2, <2>3 DEF ConInv, InRoom
<1> QED
  BY <1>1, <1>2 DEF Tells

\* The browser's way is continued by the frames that are added.
LEMMA LeadsFarther ==
  ASSUME feed \in Seq(Frames), NEW v, Leads(v), NEW frames \in Seq(Frames),
         NEW w \in [0..Len(frames) -> Views], w[0] = v[Len(feed)],
         \A i \in 1..Len(frames) : w[i] = Shows(w[i - 1], frames[i]),
         feed' = feed \o frames, shown' = shown,
         \A t \in Prompt : w[Len(frames)][t] = [site |-> siteId', changes |-> truth'[siteId'][t]]
  PROVE  (\E u : Leads(u))'
<1>1. PICK n \in Nat, m \in Nat : n = Len(feed) /\ m = Len(frames)
  OBVIOUS
<1>2. /\ Len(feed') = n + m
      /\ \A i \in 1..n : feed'[i] = feed[i]
      /\ \A i \in 1..m : feed'[n + i] = frames[i]
  BY <1>1
<1>3. PICK u : u = [i \in 0..(n + m) |-> IF i <= n THEN v[i] ELSE w[i - n]]
  OBVIOUS
<1>4. v \in [0..n -> Views] /\ v[0] = shown /\ v[n] = w[0]
      /\ \A i \in 1..n : v[i] = Shows(v[i - 1], feed[i])
  BY <1>1 DEF Leads
<1>5. w \in [0..m -> Views] /\ \A i \in 1..m : w[i] = Shows(w[i - 1], frames[i])
  BY <1>1
<1>6. u \in [0..(n + m) -> Views]
  <2>1. \A i \in 0..(n + m) : (i <= n => i \in 0..n) /\ (~(i <= n) => i - n \in 0..m)
    BY <1>1
  <2> QED
    BY <1>3, <1>4, <1>5, <2>1
<1>7. ASSUME NEW i \in 1..(n + m)
      PROVE  u[i] = Shows(u[i - 1], feed'[i])
  <2>1. CASE i <= n
    <3>1. i \in 1..n /\ i - 1 \in 0..(n + m) /\ i - 1 <= n /\ i \in 0..(n + m)
      BY <1>1, <2>1
    <3>2. u[i] = v[i] /\ u[i - 1] = v[i - 1] /\ feed'[i] = feed[i]
      BY <1>2, <1>3, <2>1, <3>1
    <3> QED
      BY <1>4, <3>1, <3>2
  <2>2. CASE ~(i <= n)
    <3>1. PICK j \in 1..m : i = n + j
      <4>1. i - n \in 1..m /\ i = n + (i - n)
        BY <1>1, <2>2
      <4> QED
        BY <4>1
    <3>2. u[i] = w[j]
      <4>1. i \in 0..(n + m) /\ i - n = j
        BY <1>1, <3>1
      <4> QED
        BY <1>3, <2>2, <4>1
    <3>3. u[i - 1] = w[j - 1]
      <4>1. i - 1 \in 0..(n + m)
        BY <1>1
      <4>2. CASE j = 1
        <5>1. i - 1 = n /\ j - 1 = 0
          BY <1>1, <3>1, <4>2
        <5> QED
          BY <1>1, <1>3, <1>4, <4>1, <5>1
      <4>3. CASE j # 1
        <5>1. ~(i - 1 <= n) /\ (i - 1) - n = j - 1
          BY <1>1, <3>1, <4>3
        <5> QED
          BY <1>3, <4>1, <5>1
      <4> QED
        BY <4>2, <4>3
    <3>4. feed'[i] = frames[j]
      BY <1>2, <3>1
    <3> QED
      BY <1>5, <3>2, <3>3, <3>4
  <2> QED
    BY <2>1, <2>2
<1>8. u[0] = shown
  <2>1. 0 \in 0..(n + m) /\ 0 <= n
    BY <1>1
  <2> QED
    BY <1>3, <1>4, <2>1
<1>9. u[n + m] = w[m]
  <2>1. n + m \in 0..(n + m) /\ (n + m) - n = m
    BY <1>1
  <2>2. CASE m = 0
    <3>1. n + m = n
      BY <1>1, <2>2
    <3> QED
      BY <1>1, <1>3, <1>4, <2>1, <2>2, <3>1
  <2>3. CASE m # 0
    <3>1. ~(n + m <= n)
      BY <1>1, <2>3
    <3> QED
      BY <1>3, <2>1, <3>1
  <2> QED
    BY <2>2, <2>3
<1>10. Matches(u[Len(feed)])'
  BY <1>1, <1>2, <1>9 DEF Matches
<1>11. Leads(u)'
  <2>1. Views' = Views
    BY DEF Views, Topics
  <2>2. \A x, y : Shows(x, y)' = Shows(x, y)
    BY DEF Shows
  <2> QED
    BY <1>2, <1>6, <1>7, <1>8, <1>10, <2>1 DEF Leads
<1> QED
  BY <1>11

\* Where nothing of the site changes, the way stays what it was.
LEMMA LeadsStay ==
  ASSUME UNCHANGED <<feed, shown, siteId>>, truth'[siteId'] = truth[siteId],
         NEW v, Leads(v)
  PROVE  Leads(v)'
<1>1. Views' = Views
  BY DEF Views, Topics
<1>2. Matches(v[Len(feed)])'
  BY DEF Leads, Matches
<1> QED
  BY <1>1, <1>2 DEF Leads

\* A change is told as promptly as it must be: each prompt topic that changed in
\* some frame, and an event in a frame of its own.
Announces(changed, sent) ==
  /\ changed \subseteq Topics /\ sent \in Seq(SUBSET Topics)
  /\ \A t \in Prompt \cap changed : \E i \in 1..Len(sent) : t \in sent[i]
  /\ \A i \in 1..Len(sent) : "events" \in sent[i] => sent[i] = {"events"} /\ "events" \in changed

LEMMA FrameIsFrame ==
  ASSUME NEW s \in Sites, NEW T \in SUBSET Topics, NEW told \in [T -> SUBSET (1..MaxChanges)],
         NEW adds \in BOOLEAN
  PROVE  Frame(s, told, adds) \in Frames
<1>1. told \in Tolds
  BY DEF Tolds
<1> QED
  BY <1>1 DEF Frame, Frames

LEMMA SameView ==
  ASSUME NEW x \in Views, NEW y \in Views, \A t \in Topics : x[t] = y[t]
  PROVE  x = y
<1>1. x = [t \in Topics |-> x[t]] /\ y = [t \in Topics |-> y[t]]
  BY DEF Views
<1> QED
  BY <1>1

LEMMA ChangesFollow ==
  ASSUME ConInv, NEW s \in Sites, NEW changed, NEW sent, Announces(changed, sent),
         Changes(s, changed, sent)
  PROVE  ConInv'
<1> DEFINE next == [t \in Topics |-> IF t \in changed THEN truth[s][t] \cup {changes + 1}
                                     ELSE truth[s][t]]
           Of(i) == Frame(s, IF sent[i] = {"events"} THEN [t \in {"events"} |-> {changes + 1}]
                             ELSE Restricted(next, sent[i]),
                          sent[i] = {"events"})
           frames == [i \in DOMAIN sent |-> Of(i)]
<1>1. /\ s \in worlds /\ changes < MaxChanges
      /\ changes' = changes + 1 /\ truth' = [truth EXCEPT ![s] = next]
      /\ Tells(s, frames)
      /\ UNCHANGED <<worlds, publicView, cookie, me, siteId, generation, ws, timers,
                     shown, connected, breaks>>
  BY DEF Changes, signVars
<1>2. /\ changes + 1 \in 1..MaxChanges /\ changes' \in 0..MaxChanges
      /\ truth[s] \in [Topics -> SUBSET (1..MaxChanges)]
  <2>1. changes \in 0..MaxChanges /\ truth \in [Sites -> [Topics -> SUBSET (1..MaxChanges)]]
    BY DEF ConInv, ConTypes, ConTypeOK
  <2> QED
    BY <1>1, <2>1, ConsoleAssumption
<1>3. next \in [Topics -> SUBSET (1..MaxChanges)]
  BY <1>2
<1>4. truth' \in [Sites -> [Topics -> SUBSET (1..MaxChanges)]] /\ truth'[s] = next
      /\ \A q \in Sites \ {s} : truth'[q] = truth[q]
  BY <1>1, <1>3 DEF ConInv, ConTypes, ConTypeOK
<1>5. sent \in Seq(SUBSET Topics) /\ DOMAIN sent = 1..Len(sent)
  BY DEF Announces
<1>6. \A t \in Topics : next[t] = IF t \in changed THEN truth[s][t] \cup {changes + 1} ELSE truth[s][t]
  OBVIOUS
<1> HIDE DEF next
<1>7. ASSUME NEW i \in 1..Len(sent)
      PROVE  /\ Of(i) \in Frames /\ ~Of(i).bye /\ Of(i).site = s
             /\ DOMAIN (Of(i).told) = sent[i]
             /\ sent[i] = {"events"} => Of(i).adds /\ Of(i).told["events"] = {changes + 1}
             /\ sent[i] # {"events"} => ~Of(i).adds /\ \A t \in sent[i] : Of(i).told[t] = next[t]
  <2>1. sent[i] \in SUBSET Topics
    BY <1>5
  <2>2. CASE sent[i] = {"events"}
    <3>1. PICK told : told = [t \in {"events"} |-> {changes + 1}]
      OBVIOUS
    <3>2. told \in [sent[i] -> SUBSET (1..MaxChanges)] /\ told["events"] = {changes + 1}
      BY <1>2, <2>2, <3>1
    <3>3. Of(i) = Frame(s, told, TRUE)
      BY <2>2, <3>1
    <3> HIDE DEF Of
    <3>4. Of(i) \in Frames
      BY <2>1, <3>2, <3>3, FrameIsFrame
    <3>5. ~Of(i).bye /\ Of(i).site = s /\ Of(i).told = told /\ Of(i).adds = TRUE
      BY <3>3 DEF Frame
    <3>6. DOMAIN told = sent[i]
      BY <3>2
    <3> QED
      BY <2>2, <3>2, <3>4, <3>5, <3>6
  <2>3. CASE sent[i] # {"events"}
    <3>1. PICK told : told = Restricted(next, sent[i])
      OBVIOUS
    <3>2. told \in [sent[i] -> SUBSET (1..MaxChanges)] /\ \A t \in sent[i] : told[t] = next[t]
      BY <1>3, <2>1, <3>1 DEF Restricted
    <3>3. Of(i) = Frame(s, told, FALSE)
      BY <2>3, <3>1
    <3> HIDE DEF Of
    <3>4. Of(i) \in Frames
      BY <2>1, <3>2, <3>3, FrameIsFrame
    <3>5. ~Of(i).bye /\ Of(i).site = s /\ Of(i).told = told /\ Of(i).adds = FALSE
      BY <3>3 DEF Frame
    <3>6. DOMAIN told = sent[i]
      BY <3>2
    <3> QED
      BY <2>3, <3>2, <3>4, <3>5, <3>6
  <2> QED
    BY <2>2, <2>3
<1> HIDE DEF Of
<1>8. /\ frames \in Seq(Frames) /\ Len(frames) = Len(sent)
      /\ \A i \in 1..Len(sent) : frames[i] = Of(i)
  BY <1>5, <1>7
<1> HIDE DEF frames
<1>9. \A i \in 1..Len(frames) : frames[i].site = s /\ ~frames[i].bye
  BY <1>7, <1>8
<1>10. feed' \in Seq(Frames) /\ InRoom'
  BY <1>1, <1>8, <1>9, TellsTypes
<1>11. ConTypes'
  BY <1>1, <1>2, <1>4, <1>10 DEF ConInv, ConTypes, ConTypeOK, Views
<1>12. CatchesUp'
  <2>1. SUFFICES ASSUME ws'.state = "open", \A i \in 1..Len(feed') : ~feed'[i].bye
                 PROVE  siteId' \in worlds' /\ (\E v : Leads(v))'
    BY DEF CatchesUp
  <2>2. ws.state = "open" /\ ws.site = siteId
    BY <1>1, <2>1 DEF ConInv, InRoom
  <2>3. feed \in Seq(Frames)
    BY DEF ConInv, ConTypes
  <2>4. \A i \in 1..Len(feed) : ~feed[i].bye
    <3>1. CASE feed' = feed
      BY <2>1, <3>1
    <3>2. CASE feed' = feed \o frames
      <4>1. \A i \in 1..Len(feed) : i \in 1..Len(feed') /\ feed'[i] = feed[i]
        BY <1>8, <2>3, <3>2
      <4> QED
        BY <2>1, <4>1
    <3> QED
      BY <1>1, <3>1, <3>2 DEF Tells
  <2>5. siteId \in worlds /\ \E v : Leads(v)
    BY <2>2, <2>4 DEF ConInv, CatchesUp
  <2>6. PICK v : Leads(v)
    BY <2>5
  <2>7. CASE s # siteId
    <3>1. feed' = feed /\ truth'[siteId'] = truth[siteId] /\ shown' = shown /\ siteId' = siteId
      BY <1>1, <1>4, <2>2, <2>7 DEF Tells, ConInv, ConTypes, ConTypeOK
    <3>2. Leads(v)'
      BY <2>6, <3>1, LeadsStay
    <3> QED
      BY <1>1, <2>5, <3>2
  <2>8. CASE s = siteId
    <3>1. feed' = feed \o frames
      BY <1>1, <2>2, <2>8 DEF Tells
    <3>2. PICK m \in Nat : m = Len(sent)
      <4>1. Len(sent) \in Nat
        BY <1>5
      <4> QED
        BY <4>1
    <3>3. PICK last : last = v[Len(feed)]
      OBVIOUS
    <3>4. last \in Views /\ \A t \in Prompt : last[t] = [site |-> s, changes |-> truth[s][t]]
      BY <2>3, <2>6, <2>8, <3>3 DEF Leads, Matches
    <3>5. PICK w : w = [k \in 0..m |-> [t \in Topics |->
                          IF \E i \in 1..k : t \in sent[i] THEN [site |-> s, changes |-> next[t]]
                          ELSE last[t]]]
      OBVIOUS
    <3>6. \A k \in 0..m : \A t \in Topics :
            w[k][t] = IF \E i \in 1..k : t \in sent[i] THEN [site |-> s, changes |-> next[t]] ELSE last[t]
      BY <3>5
    <3>7. \A t \in Topics : [site |-> s, changes |-> next[t]] \in [site : Sites \cup {""}, changes : SUBSET (1..MaxChanges)]
      BY <1>3
    <3>8. w \in [0..m -> Views]
      BY <3>4, <3>5, <3>7 DEF Views
    <3>9. w[0] = last
      <4>1. 0 \in 0..m /\ \A i \in 1..0 : FALSE
        BY <3>2
      <4>2. \A t \in Topics : w[0][t] = last[t]
        BY <3>6, <4>1
      <4>3. w[0] \in Views
        BY <3>8, <4>1
      <4> QED
        BY <3>4, <4>2, <4>3, SameView
    <3>10. ASSUME NEW i \in 1..m PROVE w[i] = Shows(w[i - 1], frames[i])
      <4>1. i - 1 \in 0..m /\ i \in 0..m /\ 1..i = 1..(i - 1) \cup {i}
        BY <3>2
      <4>2. w[i - 1] \in Views /\ w[i] \in Views
        BY <3>8, <4>1
      <4>3. /\ frames[i] \in Frames /\ frames[i].site = s /\ DOMAIN frames[i].told = sent[i]
            /\ sent[i] = {"events"} => frames[i].adds /\ frames[i].told["events"] = {changes + 1}
            /\ sent[i] # {"events"} => ~frames[i].adds /\ \A t \in sent[i] : frames[i].told[t] = next[t]
        BY <1>7, <1>8, <3>2
      <4>4. PICK x : x = Shows(w[i - 1], frames[i])
        OBVIOUS
      <4>5. /\ x \in Views
            /\ \A t \in Topics : t \notin sent[i] => x[t] = w[i - 1][t]
            /\ \A t \in Topics : t \in sent[i] =>
                 x[t] = [site |-> s,
                         changes |-> IF frames[i].adds THEN w[i - 1][t].changes \cup frames[i].told[t]
                                                       ELSE frames[i].told[t]]
        BY <4>2, <4>3, <4>4, ShowsIsView
      <4>6. ASSUME NEW t \in Topics PROVE x[t] = w[i][t]
        <5>1. CASE t \notin sent[i]
          BY <3>6, <4>1, <4>5, <5>1
        <5>2. CASE t \in sent[i] /\ sent[i] # {"events"}
          <6>1. w[i][t] = [site |-> s, changes |-> next[t]]
            BY <3>6, <4>1, <5>2
          <6>2. x[t] = [site |-> s, changes |-> frames[i].told[t]]
            BY <4>3, <4>5, <5>2
          <6> QED
            BY <4>3, <5>2, <6>1, <6>2
        <5>3. CASE t \in sent[i] /\ sent[i] = {"events"}
          <6>1. w[i][t] = [site |-> s, changes |-> next[t]]
            BY <3>6, <4>1, <5>3
          <6>2. x[t] = [site |-> s, changes |-> w[i - 1][t].changes \cup {changes + 1}]
            BY <4>3, <4>5, <5>3
          <6>3. t = "events" /\ t \in changed /\ t \in Prompt
            BY <3>2, <5>3 DEF Announces, Prompt
          <6>4. next[t] = truth[s][t] \cup {changes + 1}
            BY <1>6, <6>3
          <6>5. w[i - 1][t].changes \in {next[t], truth[s][t]}
            <7>1. \/ w[i - 1][t] = [site |-> s, changes |-> next[t]]
                  \/ w[i - 1][t] = [site |-> s, changes |-> truth[s][t]]
              BY <3>4, <3>6, <4>1, <6>3
            <7> QED
              BY <7>1
          <6> QED
            BY <6>1, <6>2, <6>4, <6>5
        <5> QED
          BY <5>1, <5>2, <5>3
      <4> QED
        BY <4>2, <4>4, <4>5, <4>6, SameView
    <3>11. \A t \in Prompt : w[m][t] = [site |-> siteId', changes |-> truth'[siteId'][t]]
      <4>1. ASSUME NEW t \in Prompt PROVE w[m][t] = [site |-> s, changes |-> next[t]]
        <5>1. t \in Topics /\ m \in 0..m
          BY <3>2 DEF Prompt, Topics
        <5>2. CASE t \in changed
          BY <3>2, <3>6, <5>1, <5>2 DEF Announces
        <5>3. CASE t \notin changed
          BY <1>6, <3>4, <3>6, <5>1, <5>3
        <5> QED
          BY <5>2, <5>3
      <4> QED
        BY <1>1, <1>4, <2>8, <4>1
    <3>12. (\E u : Leads(u))'
      <4>1. Len(frames) = m /\ w[0] = v[Len(feed)] /\ shown' = shown
        BY <1>1, <1>8, <3>2, <3>3, <3>9
      <4>2. w \in [0..Len(frames) -> Views]
        BY <3>8, <4>1
      <4>3. \A i \in 1..Len(frames) : w[i] = Shows(w[i - 1], frames[i])
        BY <3>10, <4>1
      <4>4. \A t \in Prompt : w[Len(frames)][t] = [site |-> siteId', changes |-> truth'[siteId'][t]]
        BY <3>11, <4>1
      <4> HIDE DEF ConInv
      <4> QED
        BY <1>8, <2>3, <2>6, <3>1, <4>1, <4>2, <4>3, <4>4, LeadsFarther
    <3> QED
      BY <1>1, <2>5, <3>12
  <2> QED
    BY <2>7, <2>8
<1> QED
  BY <1>10, <1>11, <1>12 DEF ConInv

\* Sequences of one and of two frames.
LEMMA AnnouncesFew ==
  ASSUME NEW changed \in SUBSET Topics
  PROVE  /\ Prompt \cap changed = {} => Announces(changed, <<>>)
         /\ \A A \in SUBSET Topics :
              /\ Prompt \cap changed \subseteq A
              /\ "events" \in A => A = {"events"} /\ "events" \in changed
              => Announces(changed, <<A>>)
         /\ \A A, B \in SUBSET Topics :
              /\ Prompt \cap changed \subseteq A \cup B
              /\ "events" \notin A \cup B
              => Announces(changed, <<A, B>>)
<1>1. Prompt \cap changed = {} => Announces(changed, <<>>)
  <2>1. <<>> \in Seq(SUBSET Topics) /\ \A i \in 1..Len(<<>>) : FALSE
    OBVIOUS
  <2> QED
    BY <2>1 DEF Announces
<1>2. ASSUME NEW A \in SUBSET Topics, Prompt \cap changed \subseteq A,
             "events" \in A => A = {"events"} /\ "events" \in changed
      PROVE  Announces(changed, <<A>>)
  <2>1. PICK q : q = <<A>>
    OBVIOUS
  <2>2. q \in Seq(SUBSET Topics) /\ Len(q) = 1 /\ q[1] = A /\ 1 \in 1..Len(q)
    BY <2>1
  <2>3. \A i \in 1..Len(q) : q[i] = A
    BY <2>2
  <2> QED
    BY <1>2, <2>1, <2>2, <2>3 DEF Announces
<1>3. ASSUME NEW A \in SUBSET Topics, NEW B \in SUBSET Topics,
             Prompt \cap changed \subseteq A \cup B, "events" \notin A \cup B
      PROVE  Announces(changed, <<A, B>>)
  <2>1. PICK q : q = <<A, B>>
    OBVIOUS
  <2>2. /\ q \in Seq(SUBSET Topics) /\ Len(q) = 2 /\ q[1] = A /\ q[2] = B
        /\ 1 \in 1..Len(q) /\ 2 \in 1..Len(q)
    BY <2>1
  <2>3. \A i \in 1..Len(q) : q[i] = A \/ q[i] = B
    BY <2>2
  <2> QED
    BY <1>3, <2>1, <2>2, <2>3 DEF Announces
<1> QED
  BY <1>1, <1>2, <1>3

LEMMA RoutesFollow ==
  ASSUME ConInv, NEW s \in Sites, RouteChanges(s)
  PROVE  ConInv'
<1>1. ASSUME NEW changed \in SUBSET Topics, NEW A \in SUBSET Topics,
             Prompt \cap changed \subseteq A,
             "events" \in A => A = {"events"} /\ "events" \in changed,
             Changes(s, changed, <<A>>)
      PROVE  ConInv'
  BY <1>1, AnnouncesFew, ChangesFollow
<1>2. ASSUME NEW changed \in SUBSET Topics, NEW A \in SUBSET Topics, NEW B \in SUBSET Topics,
             Prompt \cap changed \subseteq A \cup B, "events" \notin A \cup B,
             Changes(s, changed, <<A, B>>)
      PROVE  ConInv'
  BY <1>2, AnnouncesFew, ChangesFollow
<1>3. ASSUME NEW changed \in SUBSET Topics, Prompt \cap changed = {},
             Changes(s, changed, <<>>)
      PROVE  ConInv'
  BY <1>3, AnnouncesFew, ChangesFollow
<1> HIDE DEF ConInv
<1> USE DEF Prompt, Topics
<1>4. CASE PatchMeta(s) \/ ApplyGeometry(s) \/ UploadOccupancy(s)
  <2>1. CASE PatchMeta(s)
    BY <1>1, <2>1 DEF PatchMeta
  <2>2. CASE ApplyGeometry(s)
    BY <1>1, <2>2 DEF ApplyGeometry
  <2>3. CASE UploadOccupancy(s)
    BY <1>1, <2>3 DEF UploadOccupancy
  <2> QED
    BY <1>4, <2>1, <2>2, <2>3
<1>5. CASE SaveTransform(s) \/ DeleteTransform(s)
  BY <1>1, <1>5 DEF SaveTransform, DeleteTransform
<1>6. CASE RegisterRobot(s) \/ RemoveExternal(s)
  <2>1. CASE RegisterRobot(s)
    BY <1>2, <2>1 DEF RegisterRobot
  <2>2. CASE RemoveExternal(s)
    BY <1>1, <2>2 DEF RemoveExternal
  <2> QED
    BY <1>6, <2>1, <2>2
<1>7. CASE PostEvent(s) \/ SetLifecycle(s) \/ ThresholdFires(s)
  BY <1>1, <1>7 DEF PostEvent, SetLifecycle, ThresholdFires
<1>8. ASSUME NEW new \in BOOLEAN, EpisodeOpens(s, new) PROVE ConInv'
  BY <1>1, <1>8 DEF EpisodeOpens
<1>9. ASSUME NEW new \in BOOLEAN, CreateRule(s, new) PROVE ConInv'
  BY <1>1, <1>9 DEF CreateRule
<1>10. CASE PatchRule(s) \/ DeleteRule(s) \/ AddEventType(s) \/ DeleteEventType(s)
  BY <1>1, <1>10 DEF PatchRule, DeleteRule, AddEventType, DeleteEventType
<1>11. CASE CreateTemplate(s)
  BY <1>1, <1>11 DEF CreateTemplate
<1>12. CASE DeleteTemplate(s)
  BY <1>2, <1>12 DEF DeleteTemplate
<1>13. CASE CreateSchedule(s) \/ PatchSchedule(s) \/ DeleteSchedule(s)
  BY <1>1, <1>13 DEF CreateSchedule, PatchSchedule, DeleteSchedule
<1>14. CASE CreateMission(s) \/ PauseMission(s) \/ AbortMission(s) \/ OrderStatus(s)
  BY <1>1, <1>14 DEF CreateMission, PauseMission, AbortMission, OrderStatus
<1>15. ASSUME NEW T \in {{"missions"}, {"schedules"}, {"missions", "schedules"}}, TickChanges(s, T)
       PROVE  ConInv'
  BY <1>3, <1>15 DEF TickChanges
<1> QED
  BY <1>4, <1>5, <1>6, <1>7, <1>8, <1>9, <1>10, <1>11, <1>12, <1>13, <1>14, <1>15
     DEF RouteChanges

\* The interval tells what is not prompt, and leaves the rest as it was.
LEMMA SyncFollows ==
  ASSUME ConInv, NEW s \in Sites, Sync(s)
  PROVE  ConInv'
<1> DEFINE T == {"missions", "schedules"}
<1>1. PICK frame : frame = Frame(s, Restricted(truth[s], T), FALSE)
  OBVIOUS
<1>2. PICK told : told = Restricted(truth[s], T)
  OBVIOUS
<1>3. T \in SUBSET Topics /\ Prompt \cap T = {}
  BY DEF Prompt, Topics
<1>4. told \in [T -> SUBSET (1..MaxChanges)]
  <2>1. truth[s] \in [Topics -> SUBSET (1..MaxChanges)]
    BY DEF ConInv, ConTypes, ConTypeOK
  <2>2. \A t \in T : truth[s][t] \in SUBSET (1..MaxChanges)
    BY <1>3, <2>1
  <2> QED
    BY <1>2, <2>2 DEF Restricted
<1>5. frame \in Frames /\ ~frame.bye /\ frame.site = s /\ frame.told = told
  <2>1. frame \in Frames
    BY <1>1, <1>2, <1>3, <1>4, FrameIsFrame
  <2> QED
    BY <1>1, <1>2, <2>1 DEF Frame
<1>6. PICK frames : frames = <<frame>>
  OBVIOUS
<1>7. frames \in Seq(Frames) /\ Len(frames) = 1 /\ frames[1] = frame
  BY <1>5, <1>6
<1>8. /\ s \in worlds /\ ws.state = "open" /\ ws.site = s
      /\ Tells(s, frames)
      /\ UNCHANGED <<worlds, truth, changes, publicView, cookie, me, siteId, generation,
                     ws, timers, shown, connected, breaks>>
  BY <1>1, <1>6 DEF Sync, roomVars, signVars
<1>9. feed' \in Seq(Frames) /\ InRoom'
  <2>1. \A i \in 1..Len(frames) : ~frames[i].bye => frames[i].site = s
    BY <1>5, <1>7
  <2> QED
    BY <1>7, <1>8, <2>1, TellsTypes
<1>10. ConTypes'
  BY <1>8, <1>9 DEF ConInv, ConTypes, ConTypeOK, Views
<1>11. CatchesUp'
  <2>1. SUFFICES ASSUME ws'.state = "open", \A i \in 1..Len(feed') : ~feed'[i].bye
                 PROVE  siteId' \in worlds' /\ (\E v : Leads(v))'
    BY DEF CatchesUp
  <2>2. siteId = s /\ feed \in Seq(Frames) /\ feed' = feed \o frames
    BY <1>8 DEF ConInv, ConTypes, InRoom, Tells
  <2>3. \A i \in 1..Len(feed) : ~feed[i].bye
    <3>1. \A i \in 1..Len(feed) : i \in 1..Len(feed') /\ feed'[i] = feed[i]
      BY <1>7, <2>2
    <3> QED
      BY <2>1, <3>1
  <2>4. PICK v : Leads(v)
    BY <1>8, <2>3 DEF ConInv, CatchesUp
  <2>5. PICK n \in Nat : n = Len(feed)
    BY <2>2
  <2>6. v[n] \in Views /\ Matches(v[n])
    BY <2>4, <2>5 DEF Leads
  <2>7. PICK x : x = Shows(v[n], frame)
    OBVIOUS
  <2>8. /\ x \in Views
        /\ \A t \in Topics : t \notin T => x[t] = v[n][t]
    <3>1. DOMAIN frame.told = T
      BY <1>4, <1>5
    <3> QED
      BY <1>5, <2>6, <2>7, <3>1, ShowsIsView
  <2>9. PICK w : w = [k \in 0..1 |-> IF k = 0 THEN v[n] ELSE x]
    OBVIOUS
  <2>10. w \in [0..Len(frames) -> Views] /\ w[0] = v[Len(feed)] /\ w[1] = x
    BY <1>7, <2>5, <2>6, <2>8, <2>9
  <2>11. \A i \in 1..Len(frames) : w[i] = Shows(w[i - 1], frames[i])
    <3>1. ASSUME NEW i \in 1..Len(frames) PROVE w[i] = Shows(w[i - 1], frames[i])
      <4>1. i = 1 /\ i - 1 = 0
        BY <1>7
      <4> QED
        BY <1>7, <2>5, <2>7, <2>10, <4>1
    <3> QED
      BY <3>1
  <2>12. \A t \in Prompt : w[Len(frames)][t] = [site |-> siteId', changes |-> truth'[siteId'][t]]
    <3>1. Prompt \subseteq Topics
      BY DEF Prompt, Topics
    <3> QED
      BY <1>3, <1>7, <1>8, <2>6, <2>8, <2>10, <3>1 DEF Matches
  <2>13. (\E u : Leads(u))'
    <3>1. shown' = shown
      BY <1>8
    <3> HIDE DEF ConInv
    <3> QED
      BY <1>7, <2>2, <2>4, <2>10, <2>11, <2>12, <3>1, LeadsFarther
  <2> QED
    BY <1>8, <2>2, <2>13
<1> QED
  BY <1>9, <1>10, <1>11 DEF ConInv

\* Who is turned out is owed nothing more, and elsewhere nothing changes.
LEMMA RemoveFollows ==
  ASSUME ConInv, NEW s \in Sites, RemoveSite(s)
  PROVE  ConInv'
<1>1. PICK frames : frames = <<Bye>>
  OBVIOUS
<1>2. Bye \in Frames /\ Bye.bye
  BY DEF Bye, Frames, Tolds
<1>3. frames \in Seq(Frames) /\ Len(frames) = 1 /\ frames[1] = Bye
  BY <1>1, <1>2
<1>4. /\ worlds' = worlds \ {s} /\ Tells(s, frames)
      /\ UNCHANGED <<truth, changes, publicView, cookie, me, siteId, generation, ws,
                     timers, shown, connected, breaks>>
  BY <1>1 DEF RemoveSite, signVars
<1>5. feed' \in Seq(Frames) /\ InRoom'
  <2>1. \A i \in 1..Len(frames) : ~frames[i].bye => frames[i].site = s
    BY <1>2, <1>3
  <2> QED
    BY <1>3, <1>4, <2>1, TellsTypes
<1>6. ConTypes'
  BY <1>4, <1>5 DEF ConInv, ConTypes, ConTypeOK, Views
<1>7. CatchesUp'
  <2>1. SUFFICES ASSUME ws'.state = "open", \A i \in 1..Len(feed') : ~feed'[i].bye
                 PROVE  siteId' \in worlds' /\ (\E v : Leads(v))'
    BY DEF CatchesUp
  <2>2. ws.state = "open" /\ ws.site = siteId /\ feed \in Seq(Frames)
    BY <1>4, <2>1 DEF ConInv, ConTypes, InRoom
  <2>3. CASE s = siteId
    <3>1. feed' = feed \o frames
      BY <1>4, <2>2, <2>3 DEF Tells
    <3>2. Len(feed) + 1 \in 1..Len(feed') /\ feed'[Len(feed) + 1] = Bye
      <4>1. PICK n \in Nat : n = Len(feed)
        BY <2>2
      <4>2. PICK m \in Nat : m = Len(frames)
        BY <1>3
      <4>3. Len(feed') = n + m /\ \A i \in 1..m : feed'[n + i] = frames[i]
        BY <1>3, <2>2, <3>1, <4>1, <4>2, FramesJoined
      <4> QED
        BY <1>3, <4>1, <4>2, <4>3
    <3> QED
      BY <1>2, <2>1, <3>2
  <2>4. CASE s # siteId
    <3>1. feed' = feed
      BY <1>4, <2>2, <2>4 DEF Tells
    <3>2. siteId \in worlds /\ \E v : Leads(v)
      BY <2>1, <2>2, <3>1 DEF ConInv, CatchesUp
    <3> QED
      BY <1>4, <2>4, <3>1, <3>2, LeadsStay
  <2> QED
    BY <2>3, <2>4
<1> QED
  BY <1>5, <1>6, <1>7 DEF ConInv

\* The operator turns to another site, makes one, signs in or out.
LEMMA OperatorFollows ==
  ASSUME ConInv,
         \/ SignIn \/ SignOut \/ SessionExpires
         \/ \E s \in Sites : SelectSite(s) \/ \E here \in BOOLEAN : CreateSite(s, here)
  PROVE  ConInv'
<1>1. /\ siteId \in Sites /\ changes \in 0..MaxChanges /\ worlds \subseteq Sites
      /\ truth \in [Sites -> [Topics -> SUBSET (1..MaxChanges)]]
      /\ {publicView, cookie, me, connected} \subseteq BOOLEAN
  BY DEF ConInv, ConTypes, ConTypeOK
<1>2. CASE SignIn
  <2>1. PICK s \in Sites : /\ GoesTo(s, TRUE, IF s = siteId THEN shown ELSE NoView)
                           /\ connected' = (s = siteId /\ connected)
    BY <1>2 DEF SignIn
  <2>2. PICK view : view = IF s = siteId THEN shown ELSE NoView
    OBVIOUS
  <2>3. view = NoView \/ (view = shown /\ s = siteId)
    BY <2>2
  <2>4. GoesTo(s, TRUE, view)
    BY <2>1, <2>2
  <2>5. connected' \in BOOLEAN /\ me' = TRUE /\ cookie' = TRUE
        /\ UNCHANGED <<worlds, truth, changes, publicView, timers, breaks>>
    BY <1>2, <2>1 DEF SignIn, roomVars
  <2> QED
    BY <1>1, <2>2, <2>3, <2>4, <2>5, GoesSomewhere
<1>3. CASE SignOut
  <2>1. GoesTo(siteId, FALSE, shown)
        /\ UNCHANGED <<worlds, truth, changes, publicView, timers, connected, breaks>>
        /\ me' = FALSE /\ cookie' = FALSE
    BY <1>3 DEF SignOut, roomVars
  <2> QED
    BY <1>1, <2>1, GoesSomewhere
<1>4. CASE SessionExpires
  <2>1. cookie' \in BOOLEAN
        /\ UNCHANGED <<worlds, truth, changes, publicView, me, siteId, generation, ws, feed, timers, shown,
                       connected, breaks>>
    BY <1>4 DEF SessionExpires, roomVars
  <2>2. ConTypes' /\ InRoom'
    BY <2>1 DEF ConInv, ConTypes, ConTypeOK, InRoom, Views
  <2>3. CatchesUp'
    BY <2>1, LeadsStay DEF ConInv, CatchesUp
  <2> QED
    BY <2>2, <2>3 DEF ConInv
<1>5. ASSUME NEW s \in Sites, SelectSite(s) PROVE ConInv'
  <2>1. /\ GoesTo(s, me, NoView) /\ connected' = FALSE /\ me \in BOOLEAN
        /\ UNCHANGED <<worlds, truth, changes, publicView, me, cookie, timers, breaks>>
    BY <1>1, <1>5 DEF SelectSite, roomVars, signVars
  <2> QED
    BY <1>1, <2>1, GoesSomewhere
<1>6. ASSUME NEW s \in Sites, NEW here \in BOOLEAN, CreateSite(s, here) PROVE ConInv'
  <2>1. /\ s \notin worlds /\ changes < MaxChanges
        /\ worlds' = worlds \cup {s} /\ changes' = changes + 1
        /\ truth' = [truth EXCEPT ![s] = [t \in Topics |-> {changes + 1}]]
        /\ UNCHANGED <<publicView, me, cookie, timers, breaks>>
    BY <1>6 DEF CreateSite, signVars
  <2>2. /\ changes' \in 0..MaxChanges /\ worlds' \subseteq Sites
        /\ truth' \in [Sites -> [Topics -> SUBSET (1..MaxChanges)]]
    <3>1. changes + 1 \in 1..MaxChanges
      BY <1>1, <2>1, ConsoleAssumption
    <3>2. [t \in Topics |-> {changes + 1}] \in [Topics -> SUBSET (1..MaxChanges)]
      BY <3>1
    <3> QED
      BY <1>1, <2>1, <3>1, <3>2
  <2>3. CASE here
    <3>1. /\ GoesTo(s, me, IF s = siteId THEN shown ELSE NoView)
          /\ connected' = (s = siteId /\ connected)
      BY <1>6, <2>3 DEF CreateSite
    <3>2. PICK view : view = IF s = siteId THEN shown ELSE NoView
      OBVIOUS
    <3>3. (view = NoView \/ (view = shown /\ s = siteId)) /\ GoesTo(s, me, view) /\ connected' \in BOOLEAN /\ me \in BOOLEAN
      BY <1>1, <3>1, <3>2
    <3> QED
      BY <1>1, <2>1, <2>2, <3>2, <3>3, GoesSomewhere
  <2>4. CASE ~here
    <3>1. UNCHANGED <<siteId, generation, ws, feed, shown, connected>>
      BY <1>6, <2>4 DEF CreateSite
    <3>2. ConTypes' /\ InRoom'
      BY <2>1, <2>2, <3>1 DEF ConInv, ConTypes, ConTypeOK, InRoom, Views
    <3>3. CatchesUp'
      <4>1. SUFFICES ASSUME ws.state = "open", \A i \in 1..Len(feed) : ~feed[i].bye
                     PROVE  siteId \in worlds' /\ (\E v : Leads(v))'
        BY <3>1 DEF CatchesUp
      <4>2. siteId \in worlds /\ \E v : Leads(v)
        BY <4>1 DEF ConInv, CatchesUp
      <4>3. truth'[siteId'] = truth[siteId]
        BY <1>1, <2>1, <3>1, <4>2
      <4> QED
        BY <2>1, <3>1, <4>2, <4>3, LeadsStay
    <3> QED
      BY <3>2, <3>3 DEF ConInv
  <2> QED
    BY <2>3, <2>4
<1> QED
  BY <1>2, <1>3, <1>4, <1>5, <1>6

\* The socket closes: nothing is on its way any more.
LEMMA ClosesQuietly ==
  ASSUME ConInv, SocketCloses, breaks' \in 0..MaxBreaks
  PROVE  ConInv'
<1>1. /\ ws' = Closed(ws) /\ feed' = <<>>
      /\ connected' \in BOOLEAN /\ timers' \subseteq 0..MaxGenerations
      /\ UNCHANGED <<worlds, truth, changes, publicView, cookie, me, siteId, generation, shown>>
  BY DEF SocketCloses, roomVars, signVars, ConInv, ConTypes, ConTypeOK
<1>2. /\ ws' \in [state : States, generation : 0..MaxGenerations, site : Sites \cup {""}]
      /\ ws'.state \in {"none", "closed"}
  BY <1>1 DEF Closed, States, ConInv, ConTypes, ConTypeOK
<1>3. ConTypes'
  BY <1>1, <1>2, EmptyFeed DEF ConInv, ConTypes, ConTypeOK, Views
<1>4. InRoom'
  <2>1. \A i \in 1..Len(feed') : FALSE
    BY <1>1, EmptyFeed
  <2> QED
    BY <1>1, <1>2, <2>1 DEF ConInv, InRoom
<1>5. CatchesUp'
  BY <1>2 DEF CatchesUp
<1> QED
  BY <1>3, <1>4, <1>5 DEF ConInv

\* Who joins a room is told everything.
LEMMA JoinFollows ==
  ASSUME ConInv, Joins
  PROVE  ConInv'
<1>1. /\ ws.state = "connecting" /\ ws.site \in worlds
      /\ ws' = [ws EXCEPT !.state = "open"]
      /\ feed' = <<Hello(ws.site)>> /\ connected' = TRUE
      /\ UNCHANGED <<worlds, truth, changes, publicView, cookie, me, siteId, generation,
                     timers, shown, breaks>>
  BY DEF Joins, Welcome, roomVars, signVars
<1>2. ws.site = siteId /\ ws.generation = generation /\ siteId \in Sites
  BY <1>1 DEF ConInv, ConTypes, ConTypeOK, InRoom
<1>3. /\ ws' \in [state : States, generation : 0..MaxGenerations, site : Sites \cup {""}]
      /\ ws'.state = "open" /\ ws'.site = ws.site /\ ws'.generation = ws.generation
  BY <1>1 DEF States, ConInv, ConTypes, ConTypeOK
<1>4. truth[siteId] \in [Topics -> SUBSET (1..MaxChanges)]
  BY <1>2 DEF ConInv, ConTypes, ConTypeOK
<1>5. PICK frame : frame = Hello(siteId)
  OBVIOUS
<1>6. /\ frame \in Frames /\ ~frame.bye /\ frame.site = siteId /\ frame.told = truth[siteId]
      /\ ~frame.adds
  <2>1. frame \in Frames
    BY <1>2, <1>4, <1>5, FrameIsFrame DEF Hello
  <2> QED
    BY <1>5, <2>1 DEF Hello, Frame
<1>7. feed' \in Seq(Frames) /\ Len(feed') = 1 /\ feed'[1] = frame
  BY <1>1, <1>2, <1>5, <1>6
<1>8. ConTypes'
  BY <1>1, <1>3, <1>7 DEF ConInv, ConTypes, ConTypeOK, Views
<1>9. InRoom'
  <2>1. \A i \in 1..Len(feed') : feed'[i].site = siteId
    <3>1. \A i \in 1..Len(feed') : feed'[i] = frame
      BY <1>7
    <3> QED
      BY <1>6, <3>1
  <2> QED
    BY <1>1, <1>2, <1>3, <2>1 DEF ConInv, InRoom
<1>10. CatchesUp'
  <2>1. PICK x : x = Shows(shown, frame)
    OBVIOUS
  <2>2. DOMAIN frame.told = Topics
    BY <1>4, <1>6
  <2>3. shown \in Views
    BY DEF ConInv, ConTypes
  <2>4. x \in Views /\ \A t \in Topics : x[t] = [site |-> siteId, changes |-> truth[siteId][t]]
    BY <1>2, <1>6, <2>1, <2>2, <2>3, ShowsIsView
  <2>5. PICK v : v = [k \in 0..1 |-> IF k = 0 THEN shown ELSE x]
    OBVIOUS
  <2>6. v \in [0..1 -> Views] /\ v[0] = shown /\ v[1] = x
    BY <2>3, <2>4, <2>5
  <2>7. \A i \in 1..Len(feed') : v[i] = Shows(v[i - 1], feed'[i])
    <3>1. \A i \in 1..Len(feed') : i = 1 /\ i - 1 = 0
      BY <1>7
    <3> QED
      BY <1>7, <2>1, <2>6, <3>1
  <2>8. Matches(v[Len(feed)])'
    <3>1. Prompt \subseteq Topics
      BY DEF Prompt, Topics
    <3> QED
      BY <1>1, <1>7, <2>4, <2>6, <3>1 DEF Matches
  <2>9. Leads(v)'
    <3>1. Views' = Views
      BY DEF Views, Topics
    <3> QED
      BY <1>1, <1>7, <2>6, <2>7, <2>8, <3>1 DEF Leads
  <2> QED
    BY <1>1, <1>2, <2>9 DEF CatchesUp
<1> QED
  BY <1>8, <1>9, <1>10 DEF ConInv

\* A frame is handled: the first step of the way.
LEMMA HandlesFollow ==
  ASSUME ConInv, Handles
  PROVE  ConInv'
<1>1. ws.state = "open" /\ feed # <<>> /\ feed \in Seq(Frames)
  BY DEF Handles, ConInv, ConTypes
<1>2. PICK n \in Nat : n = Len(feed) /\ n # 0
  <2>1. Len(feed) # 0 /\ Len(feed) \in Nat
    BY <1>1
  <2> QED
    BY <2>1
<1>3. /\ Head(feed) = feed[1] /\ 1 \in 1..n /\ feed[1] \in Frames
      /\ Tail(feed) \in Seq(Frames) /\ Len(Tail(feed)) = n - 1
      /\ \A i \in 1..(n - 1) : Tail(feed)[i] = feed[i + 1] /\ i + 1 \in 1..n
  BY <1>1, <1>2
<1>4. CASE feed[1].bye
  BY <1>3, <1>4, ClosesQuietly DEF Handles, ConInv, ConTypes, ConTypeOK
<1>5. CASE ~feed[1].bye
  <2>1. /\ shown' = Shows(shown, feed[1]) /\ feed' = Tail(feed)
        /\ UNCHANGED <<worlds, truth, changes, publicView, cookie, me, siteId, generation, ws,
                       timers, connected, breaks>>
    BY <1>3, <1>5 DEF Handles, roomVars, signVars
  <2>2. feed[1].site = siteId /\ siteId \in Sites /\ shown \in Views
    BY <1>2, <1>3, <1>5 DEF ConInv, ConTypes, ConTypeOK, InRoom
  <2>3. PICK x, frame : frame = feed[1] /\ x = Shows(shown, frame)
    OBVIOUS
  <2>4. /\ x \in Views
        /\ \A t \in Topics : x[t] = shown[t] \/ x[t].site = siteId
    <3>1. frame \in Frames /\ frame.site = siteId
      BY <1>3, <2>2, <2>3
    <3>2. /\ x \in Views
          /\ \A t \in Topics : t \notin DOMAIN frame.told => x[t] = shown[t]
          /\ \A t \in Topics : t \in DOMAIN frame.told =>
               x[t] = [site |-> frame.site,
                       changes |-> IF frame.adds THEN shown[t].changes \cup frame.told[t]
                                                 ELSE frame.told[t]]
      BY <2>2, <2>3, <3>1, ShowsIsView
    <3>3. ASSUME NEW t \in Topics PROVE x[t] = shown[t] \/ x[t].site = siteId
      <4>1. CASE t \notin DOMAIN frame.told
        BY <3>2, <4>1
      <4>2. CASE t \in DOMAIN frame.told
        <5>1. PICK c, s : c = x[t].changes /\ s = frame.site /\ x[t] = [site |-> s, changes |-> c]
          <6>1. PICK c, s : /\ c = IF frame.adds THEN shown[t].changes \cup frame.told[t]
                                                 ELSE frame.told[t]
                           /\ s = frame.site
            OBVIOUS
          <6>2. x[t] = [site |-> s, changes |-> c]
            BY <3>2, <4>2, <6>1
          <6>3. x[t].changes = c
            BY <6>2
          <6> QED
            BY <6>1, <6>2, <6>3
        <5>2. x[t].site = s
          BY <5>1
        <5> QED
          BY <3>1, <5>1, <5>2
      <4> QED
        BY <4>1, <4>2
    <3> QED
      BY <3>2, <3>3
  <2>5. shown' = x
    BY <2>1, <2>3
  <2>6. ConTypes'
    BY <1>3, <2>1, <2>4, <2>5 DEF ConInv, ConTypes, ConTypeOK, Views
  <2>7. InRoom'
    <3>1. \A i \in 1..Len(feed') : ~feed'[i].bye => feed'[i].site = siteId
      BY <1>2, <1>3, <2>1 DEF ConInv, InRoom
    <3>2. \A t \in Topics : shown'[t] # Blank => shown'[t].site = siteId
      BY <2>4, <2>5 DEF ConInv, InRoom
    <3> QED
      BY <1>1, <2>1, <3>1, <3>2 DEF ConInv, InRoom
  <2>8. CatchesUp'
    <3>1. SUFFICES ASSUME \A i \in 1..Len(feed') : ~feed'[i].bye
                   PROVE  siteId' \in worlds' /\ (\E v : Leads(v))'
      BY DEF CatchesUp
    <3>2. \A i \in 1..n : ~feed[i].bye
      <4>1. ASSUME NEW i \in 1..n, i # 1 PROVE ~feed[i].bye
        <5>1. i - 1 \in 1..(n - 1) /\ (i - 1) + 1 = i
          BY <1>2, <4>1
        <5> QED
          BY <1>3, <2>1, <3>1, <5>1
      <4> QED
        BY <1>5, <4>1
    <3>3. siteId \in worlds /\ \E v : Leads(v)
      BY <1>1, <1>2, <3>2 DEF ConInv, CatchesUp
    <3>4. PICK v : Leads(v)
      BY <3>3
    <3>5. v \in [0..n -> Views] /\ v[0] = shown /\ \A i \in 1..n : v[i] = Shows(v[i - 1], feed[i])
      BY <1>2, <3>4 DEF Leads
    <3>6. PICK u : u = [i \in 0..(n - 1) |-> v[i + 1]]
      OBVIOUS
    <3>7. u \in [0..(n - 1) -> Views]
      BY <1>2, <3>5, <3>6
    <3>8. u[0] = x
      <4>1. 0 \in 0..(n - 1) /\ 1 - 1 = 0
        BY <1>2
      <4> QED
        BY <1>3, <2>3, <3>5, <3>6, <4>1
    <3>9. ASSUME NEW i \in 1..(n - 1) PROVE u[i] = Shows(u[i - 1], feed'[i])
      <4>1. i \in 0..(n - 1) /\ i - 1 \in 0..(n - 1) /\ (i - 1) + 1 = i /\ i + 1 \in 1..n /\ (i + 1) - 1 = i
        BY <1>2
      <4>2. u[i] = v[i + 1] /\ u[i - 1] = v[i] /\ feed'[i] = feed[i + 1]
        BY <1>3, <2>1, <3>6, <4>1
      <4> QED
        BY <3>5, <4>1, <4>2
    <3>10. Matches(u[Len(feed)])'
      <4>1. n - 1 \in 0..(n - 1) /\ (n - 1) + 1 = n
        BY <1>2
      <4>2. u[n - 1] = v[n]
        BY <3>6, <4>1
      <4>3. Len(feed') = n - 1
        BY <1>3, <2>1
      <4> QED
        BY <1>2, <2>1, <3>4, <4>2, <4>3 DEF Leads, Matches
    <3>11. Leads(u)'
      <4>1. Views' = Views
        BY DEF Views, Topics
      <4>2. Len(feed') = n - 1
        BY <1>3, <2>1
      <4> QED
        BY <2>5, <3>7, <3>8, <3>9, <3>10, <4>1, <4>2 DEF Leads
    <3> QED
      BY <2>1, <3>3, <3>11
  <2> QED
    BY <2>6, <2>7, <2>8 DEF ConInv
<1> QED
  BY <1>4, <1>5

LEMMA TimerFollows ==
  ASSUME ConInv, NEW g \in 0..MaxGenerations, TimerFires(g)
  PROVE  ConInv'
<1>1. /\ timers' = timers \ {g}
      /\ ws' = IF g = generation THEN Connected(ws, siteId, generation, me) ELSE ws
      /\ UNCHANGED <<worlds, truth, changes, publicView, cookie, me, siteId, generation, feed,
                     shown, connected, breaks>>
  BY DEF TimerFires, roomVars, signVars
<1>2. /\ ws' \in [state : States, generation : 0..MaxGenerations, site : Sites \cup {""}]
      /\ \/ ws' = ws
         \/ /\ ws.state # "open" /\ ws'.state = "connecting"
            /\ ws'.site = siteId /\ ws'.generation = generation
  BY <1>1 DEF Connected, States, ConInv, ConTypes, ConTypeOK
<1>3. ConTypes'
  BY <1>1, <1>2 DEF ConInv, ConTypes, ConTypeOK, Views
<1>4. InRoom'
  BY <1>1, <1>2 DEF ConInv, InRoom
<1>5. CatchesUp'
  <2>1. CASE ws' = ws
    BY <1>1, <2>1, LeadsStay DEF ConInv, CatchesUp
  <2>2. CASE ws'.state = "connecting"
    BY <2>2 DEF CatchesUp
  <2> QED
    BY <1>2, <2>1, <2>2
<1> QED
  BY <1>3, <1>4, <1>5 DEF ConInv

LEMMA ConStep == ConInv /\ [ConNext]_conVars => ConInv'
<1> SUFFICES ASSUME ConInv, [ConNext]_conVars PROVE ConInv'
  OBVIOUS
<1>1. CASE UNCHANGED conVars
  <2>1. UNCHANGED <<worlds, truth, changes, publicView, cookie, me, siteId, generation, ws,
                    feed, timers, shown, connected, breaks>>
    BY <1>1 DEF conVars, roomVars, signVars
  <2>2. ConTypes' /\ InRoom'
    BY <2>1 DEF ConInv, ConTypes, ConTypeOK, InRoom, Views
  <2>3. CatchesUp'
    BY <2>1, LeadsStay DEF ConInv, CatchesUp
  <2> QED
    BY <2>2, <2>3 DEF ConInv
<1>2. CASE TurnedAway \/ Disconnects
  <2>1. breaks' \in 0..MaxBreaks
    <3>1. MaxBreaks \in Nat /\ breaks \in 0..MaxBreaks
      BY ConsoleAssumption DEF ConInv, ConTypes, ConTypeOK
    <3>2. CASE TurnedAway
      BY <3>1, <3>2 DEF TurnedAway
    <3>3. CASE Disconnects
      <4>1. breaks < MaxBreaks /\ breaks' = breaks + 1
        BY <3>3 DEF Disconnects
      <4> QED
        BY <3>1, <4>1
    <3> QED
      BY <1>2, <3>2, <3>3
  <2> QED
    BY <1>2, <2>1, ClosesQuietly DEF TurnedAway, Disconnects
<1> HIDE DEF ConInv
<1>3. CASE \E s \in Sites : RouteChanges(s) \/ Sync(s) \/ RemoveSite(s)
  BY <1>3, RoutesFollow, SyncFollows, RemoveFollows
<1>4. CASE \/ SignIn \/ SignOut \/ SessionExpires
           \/ \E s \in Sites : SelectSite(s) \/ \E here \in BOOLEAN : CreateSite(s, here)
  BY <1>4, OperatorFollows
<1>5. CASE Joins \/ Handles \/ \E g \in 0..MaxGenerations : TimerFires(g)
  BY <1>5, JoinFollows, HandlesFollow, TimerFollows
<1> QED
  BY <1>1, <1>2, <1>3, <1>4, <1>5 DEF ConNext

LEMMA InvShowsSite == ConInv => ConTypeOK /\ ViewFollows
<1> SUFFICES ASSUME ConInv PROVE ViewFollows
  BY DEF ConInv, ConTypes
<1>1. \A t \in Topics : shown[t] # Blank => shown[t].site = siteId
  BY DEF ConInv, InRoom
<1>2. ASSUME ws.state = "open", feed = <<>>
      PROVE  \A t \in Prompt : shown[t] = [site |-> siteId, changes |-> truth[siteId][t]]
  <2>1. Len(feed) = 0 /\ \A i \in 1..Len(feed) : FALSE
    BY <1>2, EmptyFeed
  <2>2. PICK v : Leads(v)
    BY <1>2, <2>1 DEF ConInv, CatchesUp
  <2> QED
    BY <2>1, <2>2 DEF Leads, Matches
<1> QED
  BY <1>1, <1>2 DEF ViewFollows

\* The browser shows its site and nothing else, and when no frame is under way
\* what it shows is what the platform knows, of every topic that is told at once:
\* for any number of sites, changes, switches, sign-ins and lost connections.
THEOREM BrowserFollows == ConInit /\ [][ConNext]_conVars => []ViewFollows
BY InitCon, ConStep, InvShowsSite, PTL

\* Rooms, sockets, frames and what is shown keep their types.
THEOREM ConsoleTypeCorrect == ConInit /\ [][ConNext]_conVars => []ConTypeOK
BY InitCon, ConStep, InvShowsSite, PTL

-----------------------------------------------------------------------------
(* The services together.                                                  *)

LEMMA OneServiceSteps ==
  ASSUME [ServicesNext]_serviceVars
  PROVE  [Next]_vars /\ [RecNext]_recVars /\ [VisNext]_visVars /\ [ConNext]_conVars
<1>1. CASE UNCHANGED serviceVars
  BY <1>1 DEF serviceVars
<1>2. CASE ServicesNext
  BY <1>2 DEF ServicesNext
<1> QED
  BY <1>1, <1>2

\* In the graph the four share each of them behaves as it does alone, so what is
\* proved of one of them holds there.
THEOREM ServicesAreThemselves ==
  ServicesSpec =>
    Spec /\ (RecInit /\ [][RecNext]_recVars) /\ VisFairSpec /\ ConSpec
<1>1. ServicesInit => Init /\ RecInit /\ VisInit /\ ConInit
  BY DEF ServicesInit
<1> QED
  BY <1>1, OneServiceSteps, PTL DEF ServicesSpec, Spec, VisFairSpec, ConSpec

\* The rows, files, outboxes and sockets of all four keep their types, and a plan
\* names presets of its own camera (ptz.ts:204-268).
THEOREM ServicesTypesHold == ServicesSpec => []ServicesTypeOK
<1>1. TypeOK /\ PlanPresetsExist /\ RecTypeOK /\ VisTypeOK /\ ConTypeOK => ServicesTypeOK
  BY DEF ServicesTypeOK
<1> QED
  BY <1>1, ServicesAreThemselves, PtzTypes, PlansNameTheirPresets, RecordingsTypeCorrect,
     VisionTypeCorrect, ConsoleTypeCorrect, PTL DEF ConSpec

\* And what each of them promises of itself holds of all at once: no patrol runs
\* while an operator has its robot, nor is done before it was at every stop; an
\* episode has one alarm on record; no observation is forgotten but for cause; a clip
\* that is offered is there; the browser follows.
THEOREM ServicesHold ==
  ServicesSpec =>
    /\ [](/\ SessionExcludesPatrol /\ DoneMeansArrived /\ ViewFollows)
    /\ OneAlarmPerEpisode /\ NothingIsForgotten /\ ClipsAreKept
BY ServicesAreThemselves, SessionsExcludePatrols, DoneRunsArrived, AlarmsAreSingle,
   NothingForgotten, BrowserFollows, ClipsStay, PTL DEF ConSpec
=============================================================================
