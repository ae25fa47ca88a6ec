------------------------------ MODULE Previews ------------------------------
(***************************************************************************)
(* Previews of a monitoring rule, and the pictures that prove what was     *)
(* seen (server/src/vision.ts, integrations/vision/worker.py).             *)
(*                                                                         *)
(* An operator asks for a preview, a job that the worker is told of with   *)
(* its heartbeats and does once, as far as it remembers; its result and    *)
(* those of the rule itself wait in an outbox on disk.  The platform       *)
(* writes the picture first and the rows after it; a sweep takes away what *)
(* is too old or too much.  Leases, revisions and episodes are in Vision;  *)
(* here the rule does not change, and whether an observation raises an     *)
(* event is left open.  A picture has the size of one.                     *)
(***************************************************************************)
EXTENDS Naturals, FiniteSets, Sequences, SequencesExt

CONSTANTS
  MaxShots,     \* bound: observations, of the rule and for the preview
  PictureRoom,  \* PB_VISION_MAX_MB, in pictures
  MaxMishaps    \* bound: kills, restarts, lost answers, failed transactions

ASSUME PreviewsAssumption ==
  /\ MaxShots \in Nat /\ PictureRoom \in Nat /\ MaxMishaps \in Nat

Shots == 1..MaxShots   \* observations, in the order they were captured

VARIABLES
  job,      \* vision_jobs: status, and whether its minute is over
  told,     \* the worker has the job in Worker.jobs
  did,      \* it is in Worker.completed_jobs
  outbox,   \* the worker's outbox
  records,  \* vision_results, with what is left of a picture
  events,   \* events raised by a result, not yet swept themselves
  past,     \* observations up to this one are older than a week
  files,    \* pictures in the directory of the platform
  serves,  \* the platform serves
  accepted, \* history: results of the job that were accepted
  shots, mishaps

jobVars == <<job, told, did>>
prevVars ==
  <<jobVars, outbox, records, events, past, files, serves, accepted, shots, mishaps>>

PrevInit ==
  /\ job = [status |-> "none", over |-> FALSE] /\ told = FALSE /\ did = FALSE
  /\ outbox = <<>> /\ records = {} /\ events = {} /\ past = 0 /\ files = {}
  /\ serves = TRUE /\ accepted = {} /\ shots = 0 /\ mishaps = 0

Mishap == mishaps < MaxMishaps /\ mishaps' = mishaps + 1

-----------------------------------------------------------------------------
(* The job and the worker.                                                 *)

AskForPreview ==
  /\ serves /\ job.status = "none"
  /\ job' = [status |-> "queued", over |-> FALSE]
  /\ UNCHANGED <<told, did, outbox, records, events, past, files, serves, accepted,
                 shots, mishaps>>

MinuteIsOver ==
  /\ job.status # "none" /\ ~job.over /\ job' = [job EXCEPT !.over = TRUE]
  /\ UNCHANGED <<told, did, outbox, records, events, past, files, serves, accepted,
                 shots, mishaps>>

JobOpen == job.status = "queued" /\ ~job.over

\* heartbeat: the jobs that are open; what is not listed any more is forgotten
\* in the next turn of the loop.
ToldOfJobs ==
  /\ serves /\ told' = JobOpen /\ did' = (did /\ JobOpen)
  /\ UNCHANGED <<job, outbox, records, events, past, files, serves, accepted, shots, mishaps>>

\* emit: for the rule, or for a job that is not done yet.
Observe(forJob) ==
  /\ shots < MaxShots /\ shots' = shots + 1
  /\ forJob => told /\ ~did /\ ~job.over
  /\ did' = (did \/ forJob)
  /\ outbox' = Append(outbox, [id |-> shots + 1, forJob |-> forJob])
  /\ UNCHANGED <<job, told, records, events, past, files, serves, accepted, mishaps>>

WorkerAnew ==
  /\ Mishap /\ told' = FALSE /\ did' = FALSE
  /\ UNCHANGED <<job, outbox, records, events, past, files, serves, accepted, shots>>

-----------------------------------------------------------------------------
(* POST results.                                                           *)

\* Variant: a preview that was done is not told from one that was not.
OpenForAll(o) == o.id > past /\ (o.forJob => ~job.over)
OpenFor(o) == o.id > past /\ (o.forJob => ~job.over /\ job.status # "done")

Known(o) == \E r \in records : r.id = o.id

\* The picture, if there is one, is written, then the rows, in one transaction.
Accept(o) ==
  \E picture, raised \in BOOLEAN :
    /\ o.forJob => ~raised
    /\ files' = IF picture THEN files \cup {o.id} ELSE files
    /\ records' = records \cup {[id |-> o.id, raised |-> raised, picture |-> picture]}
    /\ events' = IF raised THEN events \cup {o.id} ELSE events
    /\ job' = IF o.forJob THEN [job EXCEPT !.status = "done"] ELSE job
    /\ accepted' = IF o.forJob THEN accepted \cup {o.id} ELSE accepted

\* Outbox.flush: whatever the answer, accepted, known, or too late, the record
\* is settled, unless the answer is lost.
FlushFirst ==
  /\ serves /\ outbox # <<>>
  /\ LET o == Head(outbox) IN
       IF Known(o) \/ ~OpenFor(o) THEN UNCHANGED <<files, records, events, job, accepted>>
       ELSE Accept(o)
  /\ \/ outbox' = Tail(outbox) /\ UNCHANGED mishaps
     \/ Mishap /\ UNCHANGED outbox
  /\ UNCHANGED <<told, did, past, serves, shots>>

\* Variant: a transaction that fails leaves the picture.
PictureStays(o) == files \cup {o.id}
PictureUndone(o) == files

\* The transaction fails: the picture is unlinked; or the platform is killed
\* after it wrote the picture.
FlushFails ==
  /\ Mishap /\ serves /\ outbox # <<>>
  /\ LET o == Head(outbox) IN
       /\ ~Known(o) /\ OpenFor(o)
       /\ \/ files' = PictureUndone(o) /\ UNCHANGED serves
          \/ files' = files \cup {o.id} /\ serves' = FALSE
  /\ UNCHANGED <<jobVars, outbox, records, events, past, accepted, shots>>

-----------------------------------------------------------------------------
(* The sweep, every minute and at the boot.                                *)

Pictures(rows) == {r.id : r \in {r \in rows : r.picture}}
Blank(r) == [r EXCEPT !.picture = FALSE]

Old == {r \in records : r.id <= past}

\* Results older than a week go, but for those of an event that is still there,
\* which lose their picture.
AfterWeek ==
  (records \ Old) \cup {Blank(r) : r \in {r \in Old : r.raised /\ r.id \in events}}

\* Of the rest the oldest pictures go until there is room.  Variant: their rows
\* are not told.
TooMany(rows) ==
  {r \in rows : /\ r.picture
                /\ Cardinality({q \in rows : q.picture /\ q.id >= r.id}) > PictureRoom}
WithinRoomUntold(rows) == rows
WithinRoom(rows) == (rows \ TooMany(rows)) \cup {Blank(r) : r \in TooMany(rows)}

Unlinked(rows) == files \ {r.id : r \in rows}

\* Then the files that no row names.
SweepAll ==
  /\ records' = WithinRoom(AfterWeek)
  /\ files' = Unlinked(Old \cup TooMany(AfterWeek)) \cap Pictures(records')

VisionSweep ==
  /\ serves /\ SweepAll
  /\ UNCHANGED <<jobVars, outbox, events, past, serves, accepted, shots, mishaps>>

\* Killed while the old rows are gone through, one after the other, or while room
\* is made: the last picture was unlinked, its row not yet written.
KilledInSweep ==
  /\ Mishap /\ serves /\ serves' = FALSE
  /\ \/ \E gone \in SUBSET Old :
          /\ files' = Unlinked(gone)
          /\ \E updated \in SUBSET {r \in gone : r.raised} :
               /\ Cardinality({r \in gone : r.raised} \ updated) <= 1
               /\ records' = (records \ updated) \cup {Blank(r) : r \in updated}
     \/ \E gone \in SUBSET TooMany(AfterWeek) :
          /\ \A r \in gone, q \in TooMany(AfterWeek) : q.id < r.id => q \in gone
          /\ files' = Unlinked(Old \cup gone)
          /\ \E last \in {{}} \cup {{r} : r \in gone} :
               /\ \A r \in last, q \in gone : q.id <= r.id
               /\ records' = (AfterWeek \ (gone \ last)) \cup {Blank(r) : r \in gone \ last}
  /\ UNCHANGED <<jobVars, outbox, events, past, accepted, shots>>

PlatformKilled ==
  /\ Mishap /\ serves /\ serves' = FALSE
  /\ UNCHANGED <<jobVars, outbox, records, events, past, files, accepted, shots>>

Boots ==
  /\ ~serves /\ serves' = TRUE /\ SweepAll
  /\ UNCHANGED <<jobVars, outbox, events, past, accepted, shots, mishaps>>

\* A week passes over the oldest observation; the platform's own retention
\* takes an event.
WeekPasses ==
  /\ past < shots /\ past' = past + 1 /\ (job.status = "none" \/ job.over)
  /\ UNCHANGED <<jobVars, outbox, records, events, files, serves, accepted, shots, mishaps>>

EventSwept ==
  /\ \E e \in events : events' = events \ {e}
  /\ UNCHANGED <<jobVars, outbox, records, past, files, serves, accepted, shots, mishaps>>

PrevNext ==
  \/ AskForPreview \/ MinuteIsOver \/ ToldOfJobs \/ WorkerAnew
  \/ (\E forJob \in BOOLEAN : Observe(forJob))
  \/ FlushFirst \/ FlushFails \/ VisionSweep \/ KilledInSweep \/ PlatformKilled \/ Boots
  \/ WeekPasses \/ EventSwept

PrevSpec == PrevInit /\ [][PrevNext]_prevVars

-----------------------------------------------------------------------------
PrevTypeOK ==
  /\ job \in [status : {"none", "queued", "done"}, over : BOOLEAN]
  /\ told \in BOOLEAN /\ did \in BOOLEAN /\ serves \in BOOLEAN
  /\ outbox \in Seq([id : Shots, forJob : BOOLEAN])
  /\ records \subseteq [id : Shots, raised : BOOLEAN, picture : BOOLEAN]
  /\ events \subseteq Shots /\ files \subseteq Shots /\ accepted \subseteq Shots
  /\ shots \in 0..MaxShots /\ past \in 0..shots /\ mishaps \in 0..MaxMishaps

\* vision.ts:498, 601: a preview has one result, however often the worker
\* did it, sent it or was started anew; and is done with it and not before.
OnePreview ==
  /\ Cardinality(accepted) <= 1
  /\ job.status = "done" <=> accepted # {}

\* vision.ts:547, 612, 620-679: a row that offers a picture has it and no
\* picture is kept that no row offers, wherever the platform was killed.
PicturesAreThere == serves => files = Pictures(records)

\* vision.ts:634-640: what raised an event is on record as long as the event.
EventsKeepTheirReason == \A e \in events : \E r \in records : r.id = e /\ r.raised

EvidenceHolds == OnePreview /\ PicturesAreThere /\ EventsKeepTheirReason
=============================================================================
