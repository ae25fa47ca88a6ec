----------------------------- MODULE SitePoints -----------------------------
(***************************************************************************)
(* The points of a site: stored and in force on the platform               *)
(* (server/src/config.ts, index.ts, world.ts), drawn in the Site Builder   *)
(* (web/src/pages/SiteBuilder.tsx), copied once by an adapter and driven   *)
(* to by its runs (sdk/adapter-sdk-ts/src/index.ts, integrations).         *)
(*                                                                         *)
(* A point is a name and a place.  Zones, cameras and bounds are saved     *)
(* together with the points and left out, and so are edits of a camera,    *)
(* which save the points in force again.  Pauses, aborts and the queue of  *)
(* orders are in OrderPump.                                                *)
(***************************************************************************)
EXTENDS Naturals, Sequences, FiniteSets, SequencesExt

CONSTANTS
  Points, Places,
  Nowhere,     \* the place of a point there is not
  NoPoint,     \* no docking point
  MaxChanges,  \* bound: edits of the page, requests of others
  MaxFalls     \* bound: kills of the platform, restarts of the adapter

ASSUME SitePointsAssumption ==
  /\ Nowhere \notin Places /\ NoPoint \notin Points
  /\ MaxChanges \in Nat /\ MaxFalls \in Nat

VARIABLES
  row,      \* sites.dock_wp
  stored,   \* the waypoints table: point -> place
  world,    \* World.waypoints and dockWp
  up,
  page,     \* the Site Builder: points, dock, dirty
  save,     \* its save under way: the body, sent, answered or lost
  copy,     \* the adapter's waypoints
  trip,     \* the run: steps left, stops made, how it ended
  moved,    \* history: points changed since the adapter copied them
  mixed,    \* history: others saved, or the page was edited while it saved
  torn,     \* history: a kill left the dock of a save without its points
  changes, falls

platVars == <<row, stored, world, up, torn>>
pageVars == <<page, save, mixed>>
tripVars == <<copy, trip, moved>>
pointVars == <<platVars, pageVars, tripVars, changes, falls>>

Drawn == [Points -> Places \cup {Nowhere}]
NoBody == [points |-> [p \in Points |-> Nowhere], dock |-> NoPoint]
NoSave == [state |-> "none", body |-> NoBody]
NoTrip == [state |-> "none", steps |-> <<>>, left |-> <<>>, stops |-> {}]

-----------------------------------------------------------------------------
(* PUT geometry and what shares its tail.                                  *)

Change == changes < MaxChanges /\ changes' = changes + 1
Fall == falls < MaxFalls /\ falls' = falls + 1

\* A dock that is not in the list is refused.  Variant: only its name is looked at.
DockNamed(body) == body.dock \in Points \cup {NoPoint}
DockFits(body) == body.dock # NoPoint => body.points[body.dock] # Nowhere

\* The row keeps what a patch does not name; the empty dock is a name.  Variant:
\* it is none.
RowIfAny(body) == IF body.dock = NoPoint THEN row ELSE body.dock
RowOf(body) == body.dock

\* patchSiteRow, then applyGeometry: row, tables and world.
Applied(body) ==
  /\ row' = RowOf(body) /\ stored' = body.points /\ world' = body
  /\ torn' = FALSE /\ UNCHANGED up
  /\ moved' = moved \cup {p \in Points : body.points[p] # world.points[p]}

\* A client that sends waypoints alone keeps the dock.
PutByOthers(points, dock) ==
  LET body == [points |-> points, dock |-> dock] IN
  /\ up /\ Change /\ body # world /\ DockFits(body)
  /\ Applied(body) /\ mixed' = TRUE
  /\ UNCHANGED <<page, save, copy, trip, falls>>

\* The save of the page arrives.
SaveArrives ==
  /\ up /\ save.state = "sent"
  /\ IF DockFits(save.body) THEN Applied(save.body) /\ save' = [save EXCEPT !.state = "ok"]
     ELSE /\ save' = [save EXCEPT !.state = "refused"]
          /\ UNCHANGED <<platVars, moved>>
  /\ UNCHANGED <<page, mixed, copy, trip, changes, falls>>

\* save() waits for an answer that is an error now, and never says it is over.
Down ==
  /\ up' = FALSE
  /\ save' = IF save.state = "sent" THEN [save EXCEPT !.state = "lost"] ELSE save

\* Killed between the row of the site and its geometry.
TornPut ==
  /\ up /\ Fall /\ save.state = "sent" /\ DockFits(save.body)
  /\ row' = RowOf(save.body) /\ Down
  /\ torn' = (row' # NoPoint /\ stored[row'] = Nowhere)
  /\ UNCHANGED <<stored, world, page, mixed, tripVars, changes>>

Killed ==
  /\ up /\ Fall /\ Down
  /\ UNCHANGED <<row, stored, world, torn, page, mixed, tripVars, changes>>

\* buildRuntime.
BootRuntime ==
  /\ ~up /\ up' = TRUE /\ world' = [points |-> stored, dock |-> row]
  /\ UNCHANGED <<row, stored, torn, pageVars, tripVars, changes, falls>>

\* A save may have been torn before.
PointInit ==
  /\ \E place \in Places : stored \in [Points -> {place, Nowhere}]
  /\ row \in Points \cup {NoPoint} /\ torn = (row # NoPoint /\ stored[row] = Nowhere)
  /\ world = [points |-> stored, dock |-> row] /\ up = TRUE
  /\ page = [points |-> stored, dock |-> row, dirty |-> FALSE]
  /\ save = NoSave /\ mixed = FALSE
  /\ copy = <<>> /\ trip = NoTrip /\ moved = {}
  /\ changes = 0 /\ falls = 0

-----------------------------------------------------------------------------
(* The Site Builder.                                                       *)

\* load, when the page is opened.
OpenPage ==
  /\ up /\ page' = [points |-> world.points, dock |-> world.dock, dirty |-> FALSE]
  /\ save' = NoSave /\ mixed' = FALSE
  /\ UNCHANGED <<platVars, tripVars, changes, falls>>

\* Placing, moving and removing a point, and choosing the dock.
Draw(p, place, dock) ==
  LET points == [page.points EXCEPT ![p] = place] IN
  /\ Change /\ (points[p] # page.points[p] \/ dock # page.dock)
  /\ page' = [points |-> points, dock |-> dock, dirty |-> TRUE]
  /\ mixed' = (mixed \/ save.state # "none")
  /\ UNCHANGED <<platVars, save, tripVars, falls>>

Edits ==
  \E p \in Points :
    \/ \E place \in Places : Draw(p, place, page.dock)
    \/ Draw(p, Nowhere, IF page.dock = p THEN NoPoint ELSE page.dock)
    \/ page.points[p] # Nowhere /\ Draw(p, page.points[p], p)

\* save: the button waits for an edit and for the save before.
PressSave ==
  /\ page.dirty /\ save.state = "none"
  /\ save' = [state |-> "sent", body |-> [points |-> page.points, dock |-> page.dock]]
  /\ mixed' = FALSE
  /\ UNCHANGED <<platVars, page, tripVars, changes, falls>>

\* Variant: a refusal, too, is taken for a save.
SavedAnyway(answer) == answer \in {"ok", "refused"}
Saved(answer) == answer = "ok"

Answered ==
  /\ save.state \in {"ok", "refused"} /\ save' = NoSave
  /\ page' = IF Saved(save.state) THEN [page EXCEPT !.dirty = FALSE] ELSE page
  /\ UNCHANGED <<platVars, mixed, tripVars, changes, falls>>

-----------------------------------------------------------------------------
(* The adapter: waitForSite at its start, and a run of some points.        *)

Started == copy # <<>>
Knows(p) == copy[p] # Nowhere

AdapterStarts ==
  /\ up /\ ~Started /\ copy' = world.points /\ moved' = {}
  /\ UNCHANGED <<platVars, pageVars, trip, changes, falls>>

AdapterDies ==
  /\ Started /\ Fall /\ copy' = <<>> /\ trip' = NoTrip
  /\ UNCHANGED <<platVars, pageVars, moved, changes>>

\* A route names any points, those that were removed since included.
OrderArrives(steps) ==
  /\ Started /\ trip.state = "none"
  /\ trip' = [state |-> "running", steps |-> steps, left |-> steps, stops |-> {}]
  /\ UNCHANGED <<platVars, pageVars, copy, moved, changes, falls>>

StopAt(p) == <<p, copy[p]>>

\* Navigation failed.  Variant: the run goes on to its next point.
UnreachedPassed == [trip EXCEPT !.left = Tail(@)]
Unreached == [trip EXCEPT !.state = "failed"]

\* runWaypointMission: a point that is not known is passed over, one that cannot
\* be reached ends the run.
NextStop ==
  /\ trip.state = "running" /\ trip.left # <<>>
  /\ LET p == Head(trip.left)
         on == [trip EXCEPT !.left = Tail(@)]
     IN \/ ~Knows(p) /\ trip' = on
        \/ Knows(p) /\ trip' = [on EXCEPT !.stops = @ \cup {StopAt(p)}]
        \/ Knows(p) /\ trip' = Unreached
  /\ UNCHANGED <<platVars, pageVars, copy, moved, changes, falls>>

\* DeepRobotics: the points that are known are one task, none are an error.
OneTask ==
  LET known == {p \in ToSet(trip.steps) : Knows(p)} IN
  /\ trip.state = "running" /\ trip.left = trip.steps
  /\ \/ known # {} /\ trip' = [trip EXCEPT !.left = <<>>, !.stops = {StopAt(p) : p \in known}]
     \/ trip' = [trip EXCEPT !.state = "failed"]
  /\ UNCHANGED <<platVars, pageVars, copy, moved, changes, falls>>

TripDone ==
  /\ trip.state = "running" /\ trip.left = <<>> /\ trip' = [trip EXCEPT !.state = "done"]
  /\ UNCHANGED <<platVars, pageVars, copy, moved, changes, falls>>

Routes == {<<p>> : p \in Points} \cup {<<p, q>> : p \in Points, q \in Points}

SiteSteps ==
  \/ \E points \in Drawn, dock \in {world.dock} \cup Points : PutByOthers(points, dock)
  \/ Killed \/ BootRuntime

PageSteps == SaveArrives \/ TornPut \/ OpenPage \/ Edits \/ PressSave \/ Answered

RobotSteps ==
  \/ AdapterStarts \/ AdapterDies \/ (\E steps \in Routes : OrderArrives(steps))
  \/ NextStop \/ OneTask \/ TripDone

PointNext == SiteSteps \/ PageSteps \/ RobotSteps

PointSpec == PointInit /\ [][PointNext]_pointVars

-----------------------------------------------------------------------------
Bodies == [points : Drawn, dock : Points \cup {NoPoint}]
PointTypeOK ==
  /\ row \in Points \cup {NoPoint} /\ stored \in Drawn /\ world \in Bodies
  /\ page.points \in Drawn /\ page.dock \in Points \cup {NoPoint} /\ page.dirty \in BOOLEAN
  /\ save.state \in {"none", "sent", "ok", "refused", "lost"} /\ save.body \in Bodies
  /\ copy \in Drawn \cup {<<>>} /\ moved \subseteq Points
  /\ trip.state \in {"none", "running", "failed", "done"}

\* index.ts:435-455: what is in force is what the next boot will read, and the
\* robots' dock is one of the points, unless a kill cut a save in two.
InForceIsStored ==
  /\ up => world = [points |-> stored, dock |-> row]
  /\ ~torn /\ row # NoPoint => stored[row] # Nowhere

\* SiteBuilder.tsx:3-4, 572-583: a page that shows nothing unsaved shows what is
\* in force, unless somebody else saved or it was edited during its save.
SavedIsInForce ==
  ~page.dirty /\ save.state = "none" /\ ~mixed =>
    page.points = stored /\ page.dock = row

\* sdk index.ts:388-423: a run that is reported as done went to every point of
\* its route that is on the map, where the map has it, unless that point was
\* drawn, moved or removed since the adapter started.
DoneWentThere ==
  trip.state = "done" =>
    \A p \in ToSet(trip.steps) \ moved : stored[p] # Nowhere => <<p, stored[p]>> \in trip.stops

PointsHold == InForceIsStored /\ SavedIsInForce /\ DoneWentThere
=============================================================================
