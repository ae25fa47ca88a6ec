----------------------------- MODULE Recordings -----------------------------
(***************************************************************************)
(* The video archive (server/src/recordings.ts): policies per camera, one  *)
(* FFmpeg process per recorded camera, the clips it completes, and the     *)
(* housekeeping of rows and files in step with each other.                 *)
(*                                                                         *)
(* The platform's handlers and its tick are atomic, as nothing in them     *)
(* waits; FFmpeg runs beside them, its end is seen in a later callback,    *)
(* and it survives a platform that is killed.  One site is modelled, a     *)
(* clip has the size of one, and unlinking a file does not fail.           *)
(***************************************************************************)
EXTENDS Naturals, Sequences, FiniteSets, FiniteSetsExt, SequencesExt

CONSTANTS
  Cameras,       \* channels of the site
  MaxRecorders,  \* MAX_WORKERS
  SessionCount,  \* bound: recorder sessions with a trace at a time
  MaxClips,      \* bound: clips of a session
  Budget,        \* files the storage budget holds
  ListSize,      \* -segment_list_size: clips the manifest names
  MaxCrashes     \* bound: kills of the platform

Sessions == 1..SessionCount
NoSession == 0
Clips == Sessions \X (1..MaxClips)

ASSUME RecordingsAssumption ==
  /\ IsFiniteSet(Cameras) /\ MaxRecorders \in Nat \ {0}
  /\ SessionCount \in Nat /\ MaxClips \in Nat /\ Budget \in Nat
  /\ ListSize \in Nat \ {0} /\ MaxCrashes \in Nat

VARIABLES
  enabled,   \* cameras with recording_policies.enabled
  video,     \* source of the channel: "camera", another one, or "gone"
  siteThere, \* the site exists
  sessions,  \* recording_sessions
  listed,    \* recordings: the clips that are advertised
  disk,      \* clips with a file
  unfinished,\* those of them FFmpeg has not completed
  manifest,  \* the session's csv file: clips completed last
  ffmpeg,    \* the session's process: "none", "runs", or "ended" unnoticed
  part,      \* number of the clip it writes, or 0
  recorder,  \* workers: session recording the camera, or NoSession
  ending,    \* sessions with worker.stopping
  resting,   \* cameras whose health says to wait before the next try
  archive,   \* the platform: "up", "closing" or "down"
  lapsed,    \* clips the last sweep took in and let go at once, for their age
  crashes    \* how often it was killed

recTables == <<enabled, sessions, listed>>
process == <<ffmpeg, part>>
workers == <<recorder, ending, resting>>
recVars == <<recTables, video, siteThere, disk, unfinished, manifest, process,
             workers, archive, lapsed, crashes>>

RecInit ==
  /\ enabled = {}
  /\ video = [c \in Cameras |-> "camera"] /\ siteThere = TRUE
  /\ sessions = {} /\ listed = {} /\ disk = {} /\ unfinished = {}
  /\ manifest = [s \in Sessions |-> <<>>]
  /\ ffmpeg = [s \in Sessions |-> "none"]
  /\ part = [s \in Sessions |-> 0]
  /\ recorder = [c \in Cameras |-> NoSession]
  /\ ending = {} /\ resting = {} /\ archive = "up" /\ lapsed = {} /\ crashes = 0

-----------------------------------------------------------------------------
Tracked == {c \in Cameras : recorder[c] # NoSession}
ClipsOf(s) == {clip \in Clips : clip[1] = s}
InUse(rec) == {rec[c] : c \in Cameras} \ {NoSession}

\* A session without a trace; its number stands for a new identifier.
Unused == {s \in Sessions :
             /\ s \notin sessions /\ ffmpeg[s] = "none" /\ manifest[s] = <<>>
             /\ ClipsOf(s) \cap (listed \cup disk) = {}}

\* Variant: a clip of the manifest is listed although its file is gone.
IngestedUnseen(s) == ToSet(manifest[s])
Ingested(s) == ToSet(manifest[s]) \cap disk

Stray(clip, rows, rec) == clip \notin rows /\ clip[1] \notin InUse(rec)

\* What the next sweep owes: files of no row and of no recorder.
Strays == {clip \in disk : clip \notin listed /\ clip[1] \notin InUse(recorder)}

\* sweep, from the rows, files, workers and waits before it: rows past their
\* retention or without a file go, then the oldest until the budget is met,
\* then files of no row and no worker; over budget still, all recorders stop.
Sweeps(rows, files, rec, rest, stop) ==
  \E expired \in SUBSET rows :
    LET current == (rows \cap files) \ expired
        excess  == Cardinality(files \ expired)
        surplus == IF excess > Budget THEN excess - Budget ELSE 0
    IN \E evicted \in SUBSET current :
         LET kept == current \ evicted
             left == {f \in files : f \in kept
                        \/ (f \notin rows /\ ~Stray(f, rows, rec))}
         IN /\ Cardinality(evicted) = Min({surplus, Cardinality(current)})
            /\ \A old \in current, clip \in evicted :       \* oldest first
                 old[1] = clip[1] /\ old[2] < clip[2] => old \in evicted
            /\ lapsed' = expired \ listed
            /\ listed' = kept /\ disk' = left /\ unfinished' = unfinished \cap left
            /\ IF Cardinality(left) > Budget
                 THEN /\ ending' = stop \cup InUse(rec)
                      /\ resting' = rest \cup {c \in Cameras : rec[c] # NoSession}
                 ELSE ending' = stop /\ resting' = rest

\* start, for each camera of a set: a row and a process.
Begins(start) ==
  \E fresh \in {f \in [start -> Unused] :
                  \A s \in Unused : (\E c \in start : f[c] >= s)
                                      => \E c \in start : f[c] = s} :
    LET new == {fresh[c] : c \in start} IN
    /\ Cardinality(new) = Cardinality(start)
    /\ sessions' = sessions \cup new
    /\ recorder' = [c \in Cameras |-> IF c \in start THEN fresh[c] ELSE recorder[c]]
    /\ ffmpeg' = [s \in Sessions |-> IF s \in new THEN "runs" ELSE ffmpeg[s]]

\* Variant: one recorder less than the limit.
RoomShort == MaxRecorders - 1 - Cardinality(Tracked)
Room == MaxRecorders - Cardinality(Tracked)

\* tick, from the policies and waits before it.
TickFrom(want, rest) ==
  LET on == IF siteThere THEN want ELSE {}
      heard == {c \in Tracked \cap on : video[c] = "camera"}
      news(c) == Ingested(recorder[c]) \ listed
      removed == {c \in on : video[c] = "gone"}
      due == {c \in on \ (Tracked \cup removed) : c \notin rest}
      able == {c \in due : video[c] = "camera"}
  IN \E stalled \in SUBSET {c \in heard : news(c) = {}},
        start \in SUBSET able, refused \in SUBSET (due \ able) :
       /\ Cardinality(start) = Min({Room, Cardinality(able)})
       /\ Cardinality(start) < Room => refused = due \ able
       /\ enabled' = want \ removed
       /\ Begins(start)
       /\ Sweeps(listed \cup UNION {news(c) : c \in heard}, disk, recorder',
                 ((rest \cup stalled \cup refused) \ removed) \ start,
                 ending \cup {recorder[c] : c \in (Tracked \ heard) \cup stalled})
  /\ UNCHANGED <<video, siteThere, manifest, part, archive, crashes>>

RecTick == archive = "up" /\ TickFrom(enabled, resting)

-----------------------------------------------------------------------------
(* Requests.                                                               *)

\* PUT recording-policies: stores the policy, forgets the wait, and ticks.
PutPolicy(c, on) ==
  /\ archive = "up" /\ siteThere
  /\ on => video[c] = "camera" /\ Cardinality(enabled \ {c}) < MaxRecorders
  /\ TickFrom(IF on THEN enabled \cup {c} ELSE enabled \ {c}, resting \ {c})

DeleteClip(clip) ==
  /\ archive = "up" /\ clip \in listed
  /\ disk' = disk \ {clip} /\ listed' = listed \ {clip}
  /\ UNCHANGED <<enabled, sessions, video, siteThere, unfinished, manifest,
                 process, workers, archive, lapsed, crashes>>

\* The channel list follows the site's geometry and its robots.
ChannelChanges(c) ==
  /\ archive = "up" /\ siteThere
  /\ \E source \in {"camera", "other", "gone"} \ {video[c]} :
       video' = [video EXCEPT ![c] = source]
  /\ UNCHANGED <<recTables, siteThere, disk, unfinished, manifest, process, workers,
                 archive, lapsed, crashes>>

\* Deleting the site deletes its rows; it has no channels any more.
DeleteSite ==
  /\ archive = "up" /\ siteThere /\ siteThere' = FALSE
  /\ enabled' = {} /\ sessions' = {} /\ listed' = {}
  /\ video' = [c \in Cameras |-> "gone"]
  /\ UNCHANGED <<disk, unfinished, manifest, process, workers, archive, lapsed, crashes>>

Rested(c) ==
  /\ c \in resting /\ resting' = resting \ {c}
  /\ UNCHANGED <<recTables, video, siteThere, disk, unfinished, manifest, process,
                 recorder, ending, archive, lapsed, crashes>>

-----------------------------------------------------------------------------
(* The recorder process and its end.                                       *)

\* The manifest of a session without a row is not read any more.
Entered(s) ==
  LET names == Append(manifest[s], <<s, part[s]>>) IN
  manifest' = [manifest EXCEPT ![s] = IF s \notin sessions THEN <<>>
                                      ELSE IF Len(names) > ListSize THEN Tail(names)
                                      ELSE names]

\* The next clip is begun; the one before it, if any, is complete.
Cuts(s) ==
  /\ ffmpeg[s] = "runs" /\ part[s] < MaxClips
  /\ part' = [part EXCEPT ![s] = @ + 1]
  /\ disk' = disk \cup {<<s, part[s] + 1>>}
  /\ unfinished' = (unfinished \ ClipsOf(s)) \cup {<<s, part[s] + 1>>}
  /\ IF part[s] = 0 THEN UNCHANGED manifest ELSE Entered(s)
  /\ UNCHANGED <<recTables, video, siteThere, ffmpeg, workers, archive, lapsed, crashes>>

\* It ends in order and completes the last clip, or it is killed, fails or
\* could not be started.
RecorderEnds(s) ==
  /\ ffmpeg[s] = "runs"
  /\ \/ part[s] > 0 /\ Entered(s) /\ unfinished' = unfinished \ ClipsOf(s)
     \/ UNCHANGED <<unfinished, manifest>>
  /\ part' = [part EXCEPT ![s] = 0]
  /\ ffmpeg' = [ffmpeg EXCEPT ![s] = IF s \in InUse(recorder) THEN "ended" ELSE "none"]
  /\ UNCHANGED <<recTables, video, siteThere, disk, workers, archive, lapsed, crashes>>

\* cleanupSession, after ingest: what is not listed is removed.
\* Variant: the clips completed last are not looked at before.
RecoveredNothing(s) == {}
Recovered(s) == Ingested(s)

\* The close callback.  A site that is gone gets no rows.
RecorderClosed(s) ==
  /\ ffmpeg[s] = "ended" /\ archive # "down"
  /\ ffmpeg' = [ffmpeg EXCEPT ![s] = "none"]
  /\ listed' = IF siteThere THEN listed \cup Recovered(s) ELSE listed
  /\ disk' = {f \in disk : f[1] = s => f \in listed'}
  /\ unfinished' = unfinished \cap disk'
  /\ manifest' = [manifest EXCEPT ![s] = <<>>]
  /\ sessions' = sessions \ {s}
  /\ LET camera == {c \in Cameras : recorder[c] = s} IN
     /\ recorder' = [c \in Cameras |-> IF c \in camera THEN NoSession ELSE recorder[c]]
     /\ resting' = IF s \in ending THEN resting ELSE resting \cup camera
  /\ ending' = ending \ {s}
  /\ UNCHANGED <<enabled, video, siteThere, part, archive, lapsed, crashes>>

-----------------------------------------------------------------------------
(* The platform stops, is killed, and starts.                              *)

CloseArchive ==
  /\ archive = "up" /\ archive' = "closing"
  /\ ending' = ending \cup InUse(recorder)
  /\ UNCHANGED <<recTables, video, siteThere, disk, unfinished, manifest, process,
                 recorder, resting, lapsed, crashes>>

Forgotten ==
  /\ archive' = "down" /\ recorder' = [c \in Cameras |-> NoSession]
  /\ ending' = {} /\ resting' = {}
  /\ ffmpeg' = [s \in Sessions |-> IF ffmpeg[s] = "ended" THEN "none" ELSE ffmpeg[s]]

ArchiveClosed ==
  /\ archive = "closing" /\ Tracked = {} /\ Forgotten
  /\ UNCHANGED <<recTables, video, siteThere, disk, unfinished, manifest, part, lapsed, crashes>>

\* A kill may fall between the file and the row of a clip being deleted.
ArchiveKilled ==
  /\ archive # "down" /\ crashes < MaxCrashes /\ crashes' = crashes + 1
  /\ Forgotten
  /\ disk' \in {disk} \cup {disk \ {clip} : clip \in listed}
  /\ UNCHANGED <<recTables, video, siteThere, unfinished, manifest, part, lapsed>>

\* Sessions left behind are looked at and cleaned up; then the first sweep.
ArchiveBoots ==
  /\ archive = "down" /\ archive' = "up"
  /\ LET rows == listed \cup UNION {Recovered(s) : s \in sessions} IN
     Sweeps(rows, disk \cap rows, recorder, {}, {})
  /\ manifest' = [s \in Sessions |-> <<>>] /\ sessions' = {}
  /\ UNCHANGED <<enabled, video, siteThere, process, recorder, crashes>>

-----------------------------------------------------------------------------
RecNext ==
  \/ RecTick \/ DeleteSite
  \/ \E c \in Cameras : (\E on \in BOOLEAN : PutPolicy(c, on))
                        \/ ChannelChanges(c) \/ Rested(c)
  \/ \E clip \in Clips : DeleteClip(clip)
  \/ \E s \in Sessions : Cuts(s) \/ RecorderEnds(s) \/ RecorderClosed(s)
  \/ CloseArchive \/ ArchiveClosed \/ ArchiveKilled \/ ArchiveBoots

\* The tick runs every second (asked where it has work), waits end, and a
\* recorder told to stop ends, by SIGTERM or by SIGKILL 2.5 s later
\* (recordings.ts:127-133).
RecFairness ==
  /\ WF_recVars(Strays # {} /\ RecTick)
  /\ WF_recVars(enabled \ (Tracked \cup resting) # {} /\ RecTick)
  /\ \A c \in Cameras : WF_recVars(Rested(c))
  /\ WF_recVars(\E s \in ending : RecorderEnds(s))
  /\ WF_recVars(\E s \in Sessions : RecorderClosed(s))

RecFairSpec == RecInit /\ [][RecNext]_recVars /\ RecFairness

-----------------------------------------------------------------------------
RecTypeOK ==
  /\ enabled \subseteq Cameras
  /\ video \in [Cameras -> {"camera", "other", "gone"}] /\ siteThere \in BOOLEAN
  /\ sessions \subseteq Sessions /\ ending \subseteq Sessions
  /\ listed \subseteq Clips /\ disk \subseteq Clips /\ unfinished \subseteq disk
  /\ manifest \in [Sessions -> Seq(Clips)]
  /\ ffmpeg \in [Sessions -> {"none", "runs", "ended"}]
  /\ part \in [Sessions -> 0..MaxClips]
  /\ recorder \in [Cameras -> Sessions \cup {NoSession}]
  /\ resting \subseteq Cameras
  /\ lapsed \subseteq Clips
  /\ archive \in {"up", "closing", "down"} /\ crashes \in 0..MaxCrashes

\* recordings.ts:1-2, inspection-operations.md:9: an advertised recording is a
\* completed clip whose file is there, whatever was deleted, swept, taken in
\* again from a manifest, or interrupted by a kill before.
AdvertisedIsThere == archive # "down" => listed \subseteq disk \ unfinished

\* recordings.ts:116-125, 198-205: a clip its session's manifest names is not
\* lost: its file goes only after it was listed, with its site, because the files
\* exceed the budget, or because it is past its retention when it is taken in.
CompletedIsKept ==
  [][\A s \in sessions : \A clip \in ToSet(manifest[s]) \cap disk :
       \/ clip \in disk' \cup listed \cup lapsed'
       \/ ~siteThere' \/ Cardinality(disk) > Budget]_recVars

\* Both: rows never promise more than the disk holds, and never forget it.
ClipsAreKept == []AdvertisedIsThere /\ CompletedIsKept

\* recordings.ts:258-301: a camera with recording switched on is recorded
\* before long, whatever happened to the recorders before.
EnabledIsRecorded ==
  \A c \in Cameras :
    []<>(archive = "up" /\ c \in enabled /\ video[c] = "camera" =>
           recorder[c] # NoSession /\ recorder[c] \notin ending)

\* recordings.ts:240-246: no file stays for good that is neither listed nor
\* being written for a recorder the platform knows.
StraysGo == []<>(archive = "up" => Strays = {})

\* tick and sweep catch up: recorders are started and files cleared away.
ArchiveCatchesUp == EnabledIsRecorded /\ StraysGo

\* The archive keeps what it has and does what it was asked for.
ArchiveHolds == ClipsAreKept /\ ArchiveCatchesUp
=============================================================================
