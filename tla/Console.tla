------------------------------ MODULE Console ------------------------------
(***************************************************************************)
(* What an operator's browser shows of a site, and how it gets there: the  *)
(* routes that change a site and the frames they broadcast into its room   *)
(* (server/src/index.ts), and the browser's one socket with its retries,   *)
(* site switches and sign-ins (web/src/lib/store.ts).                      *)
(*                                                                         *)
(* The content of a topic is the set of the changes made to it.  A frame   *)
(* replaces the topics it tells of, an event frame adds to the list.       *)
(* Telemetry and readings, which age by themselves, are left out; so is a  *)
(* lifecycle the browser shows before the platform has answered.           *)
(***************************************************************************)
EXTENDS Naturals, Sequences, SequencesExt

CONSTANTS
  Sites,           \* identities of sites
  MaxChanges,      \* bound: changes to the sites, all together
  MaxGenerations,  \* bound: site switches, sign-ins and the like
  MaxBreaks        \* bound: connections lost

ASSUME ConsoleAssumption ==
  /\ MaxChanges \in Nat /\ MaxGenerations \in Nat /\ MaxBreaks \in Nat

VARIABLES
  worlds,      \* sites that exist
  truth,       \* site -> topic -> its content on the platform
  changes,     \* changes made so far
  publicView,  \* PB_PUBLIC_VIEW: browsing without a session
  cookie,      \* the browser holds a valid session cookie
  me,          \* the browser believes it is signed in
  siteId,      \* the site it has selected
  generation,  \* of its connections
  ws,          \* the socket: readyState, generation it was made in, room
  feed,        \* frames sent to the socket and not yet handled
  timers,      \* generations with a pending retry
  shown,       \* topic -> what the browser shows, Blank before the first frame
  connected,   \* what it says of the connection
  breaks       \* connections lost so far

roomVars == <<worlds, truth, changes, publicView>>
signVars == <<cookie, me>>
conVars == <<roomVars, signVars, siteId, generation, ws, feed, timers, shown,
             connected, breaks>>

-----------------------------------------------------------------------------
Topics == {"site", "geometry", "channels", "maps", "robots", "missions",
           "schedules", "templates", "rules", "eventTypes", "events"}
Blank == [site |-> "", changes |-> {}]
NoView == [t \in Topics |-> Blank]

States == {"none", "connecting", "open", "closed"}
NoSocket == [state |-> "none", generation |-> 0, site |-> ""]
Bye == [bye |-> TRUE, site |-> "", told |-> <<>>, adds |-> FALSE]
Frame(s, told, adds) == [bye |-> FALSE, site |-> s, told |-> told, adds |-> adds]

Restricted(content, T) == [t \in T |-> content[t]]

\* helloFrame: everything a browser shows of a site.
Hello(s) == Frame(s, truth[s], FALSE)

Closed(socket) == IF socket.state = "none" THEN socket
                  ELSE [socket EXCEPT !.state = "closed"]

\* connect: nothing before the sign-in of a gated deployment, and never a
\* second socket beside one that is open or on its way.
Connected(socket, s, g, signed) ==
  IF (publicView \/ signed) /\ socket.state \notin {"open", "connecting"}
    THEN [state |-> "connecting", generation |-> g, site |-> s]
    ELSE socket

\* setState of one frame.
Shows(view, frame) ==
  [t \in Topics |->
     IF t \notin DOMAIN frame.told THEN view[t]
     ELSE [site |-> frame.site,
           changes |-> IF frame.adds THEN view[t].changes \cup frame.told[t]
                                     ELSE frame.told[t]]]

ConInit ==
  /\ worlds = Sites /\ changes = 0 /\ breaks = 0
  /\ truth = [s \in Sites |-> [t \in Topics |-> {}]]
  /\ publicView \in BOOLEAN /\ me \in BOOLEAN /\ cookie = me
  /\ siteId \in Sites /\ generation = 0
  /\ ws = Connected(NoSocket, siteId, 0, me)
  /\ feed = <<>> /\ timers = {} /\ shown = NoView /\ connected = FALSE

-----------------------------------------------------------------------------
(* Changes on the platform.                                                *)

Tells(s, frames) ==
  feed' = IF ws.state = "open" /\ ws.site = s THEN feed \o frames ELSE feed

\* A handler that changes topics of a site and broadcasts frames, each with
\* the topics of one set.
Changes(s, changed, sent) ==
  LET next == [t \in Topics |-> IF t \in changed THEN truth[s][t] \cup {changes + 1}
                                ELSE truth[s][t]]
  IN /\ s \in worlds /\ changes < MaxChanges
     /\ changes' = changes + 1 /\ truth' = [truth EXCEPT ![s] = next]
     /\ Tells(s, [i \in DOMAIN sent |->
                    Frame(s, IF sent[i] = {"events"} THEN [t \in {"events"} |-> {changes + 1}]
                             ELSE Restricted(next, sent[i]),
                          sent[i] = {"events"})])
     /\ UNCHANGED <<worlds, publicView, signVars, siteId, generation, ws, timers,
                    shown, connected, breaks>>

PatchMeta(s) == Changes(s, {"site"}, <<{"site"}>>)

\* Variant: a saved geometry is only seen by browsers that join later.
GeometrySilent(s) == Changes(s, {"site", "geometry", "channels"}, <<>>)
ApplyGeometry(s) == Changes(s, {"site", "geometry", "channels"},
                            <<{"site", "geometry", "channels"}>>)

\* An uploaded map is part of the site and the source of maps().
UploadOccupancy(s) == Changes(s, {"site", "maps"}, <<{"site"}>>)
SaveTransform(s) == Changes(s, {"maps"}, <<{"maps"}>>)
DeleteTransform(s) == Changes(s, {"maps"}, <<{"maps"}>>)

\* A robot brings channels with it, and takes them along.
RegisterRobot(s) == Changes(s, {"robots", "channels"}, <<{"robots"}, {"channels"}>>)
RemoveExternal(s) == Changes(s, {"robots", "channels"}, <<{"robots"}>>)

PostEvent(s) == Changes(s, {"events"}, <<{"events"}>>)
SetLifecycle(s) == Changes(s, {"events"}, <<{"events"}>>)

\* Firing counts on the rule, which is not told; its event is.
ThresholdFires(s) == Changes(s, {"events", "rules"}, <<{"events"}>>)
EpisodeOpens(s, newType) ==
  Changes(s, {"events"} \cup (IF newType THEN {"eventTypes"} ELSE {}), <<{"events"}>>)

CreateRule(s, newType) ==
  Changes(s, {"rules"} \cup (IF newType THEN {"eventTypes"} ELSE {}), <<{"rules"}>>)
PatchRule(s) == Changes(s, {"rules"}, <<{"rules"}>>)
DeleteRule(s) == Changes(s, {"rules"}, <<{"rules"}>>)
AddEventType(s) == Changes(s, {"eventTypes"}, <<{"eventTypes"}>>)
DeleteEventType(s) == Changes(s, {"eventTypes"}, <<{"eventTypes"}>>)

CreateTemplate(s) == Changes(s, {"templates"}, <<{"templates"}>>)
DeleteTemplate(s) == Changes(s, {"templates", "schedules"},
                             <<{"templates"}, {"schedules"}>>)
CreateSchedule(s) == Changes(s, {"schedules"}, <<{"schedules"}>>)
PatchSchedule(s) == Changes(s, {"schedules"}, <<{"schedules"}>>)
DeleteSchedule(s) == Changes(s, {"schedules"}, <<{"schedules"}>>)

\* Requests about runs broadcast the runs; the tick and an operator who takes
\* a robot over change them silently.
CreateMission(s) == Changes(s, {"missions"}, <<{"missions"}>>)
PauseMission(s) == Changes(s, {"missions"}, <<{"missions"}>>)
AbortMission(s) == Changes(s, {"missions"}, <<{"missions"}>>)
OrderStatus(s) == Changes(s, {"missions"}, <<{"missions"}>>)
TickChanges(s, changed) == Changes(s, changed, <<>>)

RouteChanges(s) ==
  \/ PatchMeta(s) \/ ApplyGeometry(s) \/ UploadOccupancy(s)
  \/ SaveTransform(s) \/ DeleteTransform(s)
  \/ RegisterRobot(s) \/ RemoveExternal(s)
  \/ PostEvent(s) \/ SetLifecycle(s) \/ ThresholdFires(s)
  \/ \E new \in BOOLEAN : EpisodeOpens(s, new) \/ CreateRule(s, new)
  \/ PatchRule(s) \/ DeleteRule(s) \/ AddEventType(s) \/ DeleteEventType(s)
  \/ CreateTemplate(s) \/ DeleteTemplate(s)
  \/ CreateSchedule(s) \/ PatchSchedule(s) \/ DeleteSchedule(s)
  \/ CreateMission(s) \/ PauseMission(s) \/ AbortMission(s) \/ OrderStatus(s)
  \/ \E T \in {{"missions"}, {"schedules"}, {"missions", "schedules"}} :
       TickChanges(s, T)

\* Once a second the room is told of runs and schedules.  A frame that says
\* what the last one said is left out.
Sync(s) ==
  LET last == FoldLeft(Shows, shown, feed)
      T == {"missions", "schedules"}
  IN /\ s \in worlds /\ ws.state = "open" /\ ws.site = s
     /\ \E t \in T : last[t].changes # truth[s][t]
     /\ Tells(s, <<Frame(s, Restricted(truth[s], T), FALSE)>>)
     /\ UNCHANGED <<roomVars, signVars, siteId, generation, ws, timers, shown,
                    connected, breaks>>

\* A deleted site turns everybody out of its room.
RemoveSite(s) ==
  /\ s \in worlds /\ worlds' = worlds \ {s}
  /\ Tells(s, <<Bye>>)
  /\ UNCHANGED <<truth, changes, publicView, signVars, siteId, generation, ws,
                 timers, shown, connected, breaks>>

-----------------------------------------------------------------------------
(* The browser goes elsewhere: a new generation, a new socket.             *)

GoesTo(s, signed, view) ==
  /\ generation < MaxGenerations /\ generation' = generation + 1
  /\ siteId' = s /\ shown' = view
  /\ ws' = Connected(Closed(ws), s, generation + 1, signed)
  /\ feed' = IF ws'.state = "open" THEN feed ELSE <<>>

\* setSite, with a subscriber that drops the old room's state.
SelectSite(s) ==
  /\ s # siteId /\ GoesTo(s, me, NoView) /\ connected' = FALSE
  /\ UNCHANGED <<roomVars, signVars, timers, breaks>>

\* Who creates a site opens it, and rejoins its room if it is open already.
CreateSite(s, here) ==
  /\ s \notin worlds /\ changes < MaxChanges
  /\ worlds' = worlds \cup {s} /\ changes' = changes + 1
  /\ truth' = [truth EXCEPT ![s] = [t \in Topics |-> {changes + 1}]]
  /\ IF here THEN /\ GoesTo(s, me, IF s = siteId THEN shown ELSE NoView)
                  /\ connected' = (s = siteId /\ connected)
             ELSE UNCHANGED <<siteId, generation, ws, feed, shown, connected>>
  /\ UNCHANGED <<publicView, signVars, timers, breaks>>

\* login and logout.  After a login the list of sites is loaded, and a site
\* that is not on it is left.
SignIn ==
  /\ ~me /\ me' = TRUE /\ cookie' = TRUE
  /\ \E s \in Sites :
       /\ IF siteId \in worlds \/ worlds = {} THEN s = siteId ELSE s \in worlds
       /\ GoesTo(s, TRUE, IF s = siteId THEN shown ELSE NoView)
       /\ connected' = (s = siteId /\ connected)
  /\ UNCHANGED <<roomVars, timers, breaks>>

SignOut ==
  /\ me /\ me' = FALSE /\ cookie' = FALSE
  /\ GoesTo(siteId, FALSE, shown)
  /\ UNCHANGED <<roomVars, timers, connected, breaks>>

\* The session ends on the platform; the browser is not told.
SessionExpires ==
  /\ cookie /\ cookie' = FALSE
  /\ UNCHANGED <<roomVars, me, siteId, generation, ws, feed, timers, shown,
                 connected, breaks>>

-----------------------------------------------------------------------------
(* The socket.                                                             *)

\* Variant: the retry is left to the generation before.
RetriesLate(socket) == socket.generation < generation
\* onclose: a socket of an older generation was given up on purpose.
Retries(socket) == socket.generation = generation

SocketCloses ==
  /\ ws' = Closed(ws) /\ feed' = <<>>
  /\ IF Retries(ws) THEN connected' = FALSE /\ timers' = timers \cup {ws.generation}
                    ELSE UNCHANGED <<connected, timers>>
  /\ UNCHANGED <<roomVars, signVars, siteId, generation, shown>>

\* The upgrade asks for the cookie, and the room for its site.
Welcome == (publicView \/ cookie) /\ ws.site \in worlds

Joins ==
  /\ ws.state = "connecting" /\ Welcome
  /\ ws' = [ws EXCEPT !.state = "open"]
  /\ feed' = <<Hello(ws.site)>> /\ connected' = TRUE
  /\ UNCHANGED <<roomVars, signVars, siteId, generation, timers, shown, breaks>>

TurnedAway == ws.state = "connecting" /\ ~Welcome /\ SocketCloses /\ UNCHANGED breaks

Disconnects ==
  /\ ws.state \in {"connecting", "open"} /\ breaks < MaxBreaks
  /\ breaks' = breaks + 1 /\ SocketCloses

\* onmessage; the close of the platform arrives after its frames.
Handles ==
  /\ ws.state = "open" /\ feed # <<>>
  /\ IF Head(feed).bye THEN SocketCloses /\ UNCHANGED breaks
     ELSE /\ shown' = Shows(shown, Head(feed)) /\ feed' = Tail(feed)
          /\ UNCHANGED <<roomVars, signVars, siteId, generation, ws, timers,
                         connected, breaks>>

\* The retry, after 0.5 to 8 seconds.
TimerFires(g) ==
  /\ g \in timers /\ timers' = timers \ {g}
  /\ ws' = IF g = generation THEN Connected(ws, siteId, generation, me) ELSE ws
  /\ UNCHANGED <<roomVars, signVars, siteId, generation, feed, shown, connected,
                 breaks>>

-----------------------------------------------------------------------------
ConNext ==
  \/ \E s \in Sites : \/ RouteChanges(s) \/ Sync(s) \/ RemoveSite(s)
                      \/ SelectSite(s) \/ \E here \in BOOLEAN : CreateSite(s, here)
  \/ SignIn \/ SignOut \/ SessionExpires
  \/ Joins \/ TurnedAway \/ Disconnects \/ Handles
  \/ \E g \in 0..MaxGenerations : TimerFires(g)

\* The platform's interval, and the browser's events: a connection attempt is
\* answered, a frame that arrived is handled, a timer fires.
ConFairness ==
  /\ \A s \in Sites : WF_conVars(Sync(s))
  /\ WF_conVars(Joins) /\ WF_conVars(TurnedAway) /\ WF_conVars(Handles)
  /\ \A g \in 0..MaxGenerations : WF_conVars(TimerFires(g))

ConSpec == ConInit /\ [][ConNext]_conVars /\ ConFairness

-----------------------------------------------------------------------------
ConTypeOK ==
  /\ worlds \subseteq Sites /\ changes \in 0..MaxChanges /\ breaks \in 0..MaxBreaks
  /\ truth \in [Sites -> [Topics -> SUBSET (1..MaxChanges)]]
  /\ {publicView, cookie, me, connected} \subseteq BOOLEAN
  /\ siteId \in Sites /\ generation \in 0..MaxGenerations
  /\ ws \in [state : States, generation : 0..MaxGenerations, site : Sites \cup {""}]
  /\ timers \subseteq 0..MaxGenerations
  /\ \A t \in Topics : shown[t].site \in Sites \cup {""}
                       /\ shown[t].changes \subseteq 1..MaxChanges

\* What a browser in the room shows when no frame is under way is what the
\* platform knows, for the topics whose every change is broadcast at once; and
\* whatever it shows, at any time, is of the site the operator has selected
\* (store.ts:376-405, 428-516, index.ts:181-217).
Prompt == {"site", "geometry", "robots", "templates", "events"}
ViewFollows ==
  /\ \A t \in Topics : shown[t] # Blank => shown[t].site = siteId
  /\ ws.state = "open" /\ feed = <<>> =>
       \A t \in Prompt : shown[t] = [site |-> siteId, changes |-> truth[siteId][t]]

\* Once sites, sign-ins and connections are left alone, a browser that may see
\* its site is connected and up to date, runs and schedules included
\* (store.ts:518-526, index.ts:1365-1369).
UpToDate ==
  /\ connected
  /\ \A t \in Prompt \cup {"missions", "schedules"} :
       shown[t] = [site |-> siteId, changes |-> truth[siteId][t]]
ConsoleCatchesUp ==
  <>[](siteId \in worlds /\ (publicView \/ (cookie /\ me)) => UpToDate)

\* Both: the browser shows its site and never falls behind for good.
ConsoleKeepsUp == []ViewFollows /\ ConsoleCatchesUp
=============================================================================
