# PlantBot: formal models, checks and proofs

PlantBot is a platform for inspection robots. One Node.js server keeps sites,
robots, runs, schedules, cameras and events; vendor adapters, each a process of
its own, register robots over HTTP, report state, pull orders and confirm them;
operators work in a browser. The safety-relevant promises are few and hard to
test: a robot carries one run at a time, an aborted run is not executed, an
operator who drives a robot by hand is alone with it and the robot stops when he
falls silent, a camera that may still be moving is not given to somebody else,
and one adapter process, not two, drives a robot, an alarm is raised once and a
recording that is shown is there, and the browser shows the site it says it shows.
This directory holds TLA+
models of the code that is to keep these promises, TLC configurations that check
them on small instances, and TLAPS proofs for every instance.

How to run, inside this directory:

    tlc -workers 2 -config DispatchCrash.cfg MCDispatch.tla
    tlapm DispatchProofs.tla

`PROJECT.json` lists runs, mutants, findings, hazards and theorems, and maps each
definition to the source lines it stands for.

## 1. Inventory

### Components

| Component | State | Operations | Talks to | Module |
|---|---|---|---|---|
| Runs, orders, dispatch (`server/src/world.ts`) | missions and orders (memory + SQLite rows), `nav.missionId` (memory only), registry of robots | create, pause, abort, teleop, robot commands, 250 ms tick (schedules, assignment), pull and receipt, hydrate, stale-run watchdog | adapters (HTTP), operators, control locks | `Dispatch` |
| Inspection schedules (`world.ts`) and the calendar of them (`operations.ts`) | schedule rows, next time, last run | create, patch, fire, put off, removal with the template, reckoning the next time | runs | `Dispatch`, `Cadence` |
| Events, rules, identities (`world.ts`, `config.ts`, `db.ts`) | events, rules, counters, when a rule last fired | thresholds, synthetic events, retention, restart | runs, console | `Ledger`, `Console` |
| Manual control (`server/src/control.ts`) | sessions (memory) and their rows, inputs, `controlLocks` | acquire, input, release, receipts, expiry, restart, shutdown | adapter pump, runs, cameras | `ManualSession`, `ManualDispatch` |
| Control pump (`sdk/adapter-sdk-ts/src/control.ts`) | the loop's locals, watchdog, calls in flight | poll, start, apply, stop, report | platform, vendor driver | `ControlPump` |
| Operator's panel (`web/src/components/ManualControl.tsx`) | session, key pressed, client sequence, request in flight | acquire, heartbeat, poll, key up, let go | sessions | `OperatorPanel` |
| Order pump and waypoint runner (`sdk/adapter-sdk-ts/src/index.ts`) | ring of identities, motion queue, order in flight, flags of the run | pull, dedupe, queue, preempt, intervene, run | platform, vendor driver | `OrderPump` |
| Spot session (`integrations/spot/adapter/main.ts`) | lease, keep-alive timers, readiness, dances under way | dance, retain, check in, tear down | robot | `SpotSession` |
| DeepRobotics line (`integrations/deeprobotics`) | numbered requests, half a frame, task waited for | request, task, answer, time-out, reconnect | robot | `RobotServer` |
| Camera patrols (`server/src/ptz.ts`) | presets, plans, runs (rows), `ptzLocks` (memory), camera orders | CRUD, run, tick, cancel, release, restart | adapters, control sessions | `PtzPatrol`, `Cadence` |
| Managed connectors (`server/src/connectors.ts`) | connector rows, child processes, timers, internal key | create, patch, start, stop, restart, delete, exit, respawn, shutdown, boot | processes of the operating system | `Connectors` |
| Recordings (`server/src/recordings.ts`) | policies, recorder processes, manifests, clip rows, files | tick, ingest, sweep, delete, shutdown, kill, boot | FFmpeg, disk | `Recordings` |
| Video analysis (`server/src/vision.ts`, `integrations/vision/worker.py`, `rules.py`) | configurations, leases, results, episodes, preview jobs, pictures; outbox, views and rules of the worker | save, remove, heartbeat, capture, post, raise, preview, sweep, judge | worker, events | `Vision`, `Previews`, `Watching` |
| Console (`web/src/lib/store.ts`, routes of `index.ts`) | socket, selected site, topics shown; topics of a site | every route that changes a site, its frames, connect, retry, switch site, sign in and out | browser | `Console` |
| Panels of the web UI | list shown, requests under way, selection | poll, select, refresh, save | routes | `Panels` |
| Accounts, organization, assets (`config.ts`, `operations.ts`, `inspection-assets.ts`) | users, units, members, assets, tags, defects | CRUD of all of them | each other, `vision.ts` | `Registry` |
| Geometry of a site (`config.ts`, `index.ts`, `web/src/pages/SiteBuilder.tsx`, the adapters' copy) | row of the site, tables of points, `World`; the draft of a page; an adapter's copy | save, boot, draw, copy, drive a route | browser, adapters | `SitePoints` |
| Media, sign-on, vendor catalog, Node-RED nodes, charts and maps of the web UI, tooling | - | - | - | not modelled |

`PROJECT.json` "components" gives what is left out of each part and why.

### Interactions and what is hard about them

* **One server process.** Handlers run to completion, so each handler is one
  action; handlers interleave with each other, with adapters, timers and crashes.
* **Write-through persistence** (`config.ts`, `makePersist`). Every row is written
  by itself; a crash between two writes of a handler leaves rows that disagree.
  Memory-only state (`nav.missionId`, raised sequence numbers, `ptzLocks`, keys,
  timers, counters) is lost or counted anew from the rows that are left.
* **Pull and confirm.** An adapter pulls an order (it becomes acked), executes it
  and reports. The reply or the report may be lost, late or repeated; the run may
  have been aborted or timed out in the meantime; a restart queues acked orders
  again.
* **Manual control** crosses five parties (panel, platform, adapter loop, vendor
  driver, robot) with as many clocks (heartbeat, lease, input age, watchdog,
  receipt time-out).
* **Reservations** of robots (`controlLocks`) and cameras (`ptzLocks`) are shared
  by runs, patrols, commands and sessions.
* **Processes that outlive the platform**: an adapter left behind by a killed
  server drives the same robot as the one the next boot starts; FFmpeg goes on
  writing files nobody knows.
* **Answers that overtake each other**: observations of a worker, frames of the
  socket, answers of a TCP line that was reconnected, calls of a robot session that
  was torn down, answers to a panel that has moved on.
* **Rows that name each other** across tables without foreign keys, and names that
  are given out a second time.

The hazards, each at its line, are in `PROJECT.json` "hazards".

### What makes each component correct

* Dispatch: one active run per robot; the pin names an active run; an active run
  stays one that its robot can settle, but for two named causes; ends are final; one
  open run per schedule; no overtaking; every run ends; a pinned run leaves the queue.
* Sessions: one holder per robot; the rows bring back exactly the holders; nobody
  else moves a robot that is held; the robot stands when it is handed over; no
  input outlives 400 ms nor the key that caused it; motion is always watched;
  every reservation ends.
* Orders: motion is serial and at most once per process; no order waits for ever
  but behind a paused run.
* Links to robots: a session is up with all its keep-alives or a dance will bring
  it up; done means that the robot said so of that very task; no run waits for ever.
* Patrols: one holder per camera; a moving camera is reserved; nothing is
  replayed; done means arrived; a session excludes patrols; every run ends.
* Connectors: one accepted process per connector; a deleted connector stays down;
  an enabled one comes up again.
* Recordings: an advertised clip is there, a completed one is kept, an enabled
  camera is recorded, stray files go. Analysis: one alarm on record per episode, no
  report forgotten without a cause, the outbox drains.
* Records: identities keep their meaning, a rule rests between alarms, references
  are to rows that exist. Console and panels: what is shown is of the selected
  site and view, and catches up.

## 2. Modules

`EXTENDS` order; an MC module adds model values, symmetry and the choice of what an
instance does.

    Dispatch                    <- MCDispatch, DispatchProofs
    Dispatch <- ManualDispatch  <- MCManualDispatch, ManualDispatchProofs
                                   (S == INSTANCE ManualSession)
    ManualSession               <- ManualSessionProofs
    ManualSession <- ControlPump                       <- MCPumpLive
    ManualSession <- ControlPump, OperatorPanel        <- MCManualControl
    MCManualControl, ManualSessionProofs               <- ManualControlProofs
    Connectors, OrderPump, SpotSession, RobotServer, Panels <- MCAdapters <- AdaptersProofs
    PtzPatrol                                          <- PtzProofs
    PtzPatrol, Recordings, Vision, Console             <- MCServices
    MCServices, PtzProofs                              <- ServicesProofs
    PtzPatrol, Ledger, Registry, Cadence, Previews, SitePoints, Watching <- MCRecords
    MCRecords, PtzProofs                               <- RecordsProofs
    Reservation, SerialMotion   abstract; ControlPump and OrderPump implement them

**Sums.** `MCAdapters`, `MCServices`, `MCRecords` and `MCManualControl` put modules
that share no state into one state graph: a constant variable says which part takes
all steps of a behaviour, the others stay in their initial states. A safety property
of a part holds in the sum exactly if it holds alone; a liveness property does as
well, because no fair action of a resting part is enabled there (where the initial
state of a part has one, the MC module lets a resting part begin before it: no dance
is scheduled, no panel has been opened, no browser is there). For safety this is proved
(`RecordsAreThemselves`, `ServicesAreThemselves`, `ControlHolds`, `AdaptersTypesHold`).

### Dispatch (`server/src/world.ts`)

`missions`, `orders`, `schedules` are the tables, in memory and on disk alike
(the Torn actions say where a crash makes the two differ); `pin` is
`nav.missionId`, `level`/`online`/`battery` what the dispatcher knows of a robot,
`dropped` the open orders whose robot was deregistered, `served` the orders an
adapter has seen. An order's identity is its purpose: a run has one mission order
and at most one abort order, every other order (goto, pause, resume, abort of a
command) is an "extra". `Tick` is the whole 250 ms handler: due schedules fire, in
order, then queued runs are assigned by priority and age. `SetOrderStatus` is the
whole receipt, the settling of the run and the release of the pin included.
`Hydrate`/`Restart` is the boot. `TornDispatch`, `TornSettle`, `TornAbort`,
`TornFiring` are the handlers cut by a crash after their first write, followed by
the recovery. `SteadySpec` is `Spec` without restarts and deregistrations,
`CleanSpec` with them but without torn writes. `controlLocks` is read here and
written by `ManualDispatch`. Distances are abstracted to a choice among eligible
robots, the arithmetic of the cadence, which is in `Cadence`, to "comes due". A life of
`DispatchCrash` has all runs, or one fewer and an extra order (`CrashSpec` of `MCDispatch`).

### ManualSession, ControlPump, Reservation, ManualDispatch, OperatorPanel

`ManualSession` is `control.ts`: a session reserves its robot (`controlLocks`) from
`Acquire` until a receipt "stopped" with the session's current sequence number.
`saved` are the rows, which lag behind because inputs raise the sequence number in
memory only; `RestartSessions` reads them back. `ControlPump` adds the adapter:
`pc` says at which await the loop of `pumpControl` stands, so platform, watchdog
and vendor move between any two awaits. The vendor driver is the contract of
`ManualController` (its comments): start aborts older motion, stop resolves only on
a measured stop, a call takes effect at any time before its promise settles.
A receipt carries the time it was waited for (350 ms, then 80 ms of sleep), since
what makes late receipts harmless is partly that an input has expired by then.
`Reservation` is the abstract promise: one holder, motion for the holder only,
hand-over standing still. `ControlPump!KeepsReservation` is the refinement, with
the holder mapped to the lock, the mover to the session whose command the robot
executes.

`ManualDispatch` composes `Dispatch` and `ManualSession` over one `controlLocks`:
taking a robot aborts its runs, fails what is pending and orders an abort of what
was begun (`control.ts:95-125`); the frame is withheld from the adapter while a
motion order of the robot is open (`control.ts:159-171`); the boot restores the
sessions before the runs; the handlers have torn forms. `OperatorPanel` puts the
browser in front of `ManualSession`: inputs, answers, polls and releases are on
their way independently, so each may overtake the others or be lost.

Abstractions: `reportFailure`'s awaited receipt and the stop that follows are one
step; the respawn of a crashed adapter takes 500 ms or more, so receipts of the old
process are gone; a platform restart loses the receipts in flight; a velocity is
"zero" or "move".

### OrderPump, SerialMotion (`sdk/adapter-sdk-ts/src/index.ts`, adapters)

`batch` is the set of orders of a reply still to be gone through, `ring` the identities seen, `queue` and
`inflight` the motion queue, `doing` how far each handler is, `run` the flags of
`MissionRun`, `calls` the vendor calls that have been issued, `robot` where the
robot is going. `kit` is one of the three bundled adapters: Spot and GoRobot run
point by point and look at flags between awaits, DeepRobotics hands over a whole
task. A navigation call that is given up at its deadline counts as refused, and the
robot may have set out or not; it does not set out later. `SerialMotion` is the abstract promise of `docs/integration.md:233-236`;
`KeepsSerialMotion` the refinement, with the mapped current order the one in flight.

### SpotSession (`integrations/spot/adapter/main.ts:96-260`)

`lease`, `timers`, `ready` are fields of `session`. A dance is a record of where it
waits; nothing in the code ties a dance to the session it works for, so any number
(`MaxDances`) may be under way. A keep-alive call carries the lease it was sent
with; answers come while there is contact, errors at any time after it was lost.
The calls that only read the robot before the lease are one step, the two check-ins
are one step. A lease is "good" exactly until the robot issues another.

### RobotServer (`integrations/deeprobotics/adapter/main.ts:69-256`, `protocol.ts`)

`waits` is `pending` and `navWaiters`, `leg` how far `ensureIdle`/`runNav` is,
`toRobot`/`toAdapter` the two directions of the connection, `torn` whether the
parser holds the head of a frame of an earlier connection. The robot (external)
serves in order, refuses a task while it has one (41793), ends a task of its own
accord or when it is cancelled, and may have a schedule of its own. The 16-bit wrap
of the numbers is out of the bounds.

### PtzPatrol (`server/src/ptz.ts`, `control.ts`, `integrations/spot`)

Rows of presets, plans and runs; one order per stop of a run, order 0 is its stop
order. `Tick` starts due plans and advances runs in one transaction. `Cancel` is
several writes and has a torn form. The adapter half carries an order from the
reply (`wire`) through its handler (`tasks`) to the camera (`motion`). Poses, names
and times are left out; "due" says that the time-out or the dwell has passed; the
number of stops of a run is fixed when it starts. `Release` assumes that the
operator tells the truth when he confirms that the camera stands (`Verified`).

### Connectors (`server/src/connectors.ts`)

`rows` are the table, `wantUp`/`child`/`timer` the fields of `Proc`; `strays` are
respawns that are pending but no longer named by `Proc.timer` (a connector can exit
twice within one backoff). `process` is the operating system's table and survives
`Crash`; `valid` says whether the platform accepts the key the process was given.
`managedKey` issues the key at the first launch of a boot and deletes the one
before it (`Rekeyed`). `Shutdown` waits for the adapters while requests are still
served. Abstracted: one site, a row's identity is used once, strays with the same
configuration are one, SIGKILL after 2 s is an exit like any other, backoff times
are "some time". A crash or boot needs a free process per row (a bound on the model,
not on the code).

### Recordings (`server/src/recordings.ts`)

`recorder` is the table of workers, `sessions` the FFmpeg processes that exist,
whether or not the platform knows them, `manifest` what each has completed, `listed`
the clip rows, `disk` the files. A tick starts, ingests and sweeps; a process ends in
a callback of its own; a kill leaves processes and manifests behind, the boot reads
the manifests once. `lapsed` (history) is what a sweep took in and let go at once
for its age. A clip has the size of one, unlinking never fails, one site.

### Vision (`server/src/vision.ts`, `integrations/vision/worker.py`)

The worker's `outbox` (with its bound), its copy of the configurations and its
`posts` under way; the platform's `watch` (configurations with revisions), lease,
`taken` results with their verdicts and alarms. A second instance with the same name
may take the lease. Observations are named by the moment they were captured, so
"older" is a comparison; the clocks of two instances agree about the order, and none is
set back. `skewed` are observations whose time is no time for the platform (its worker's
clock is over a minute ahead, which passes, or a week behind), `aged` is how far a week
has come: both are answered with 400. `unrecorded` are alarms a transaction raised
before it was undone: they stay in the platform's memory and were shown. Images and
readings are left out; preview jobs, pictures and retention are in `Previews` (`taken`
keeps what was ever stored), how a frame comes to be an alert in `Watching`.

### Console (`server/src/index.ts`, `web/src/lib/store.ts`), Panels

`truth` is what the platform knows of a site, by topic, as the set of changes made;
every route that changes it is an action that puts a frame into the room of the site.
`feed` is the socket, `shown` the browser's store, `generation` and `timers` the
retries. `Panels` are the lists that come over HTTP instead: `flights` are requests
with their answers, `newest` is what `requestVersion`, `request.current` and the abort
signal have in common. A list is the number of its changes.

### Ledger, Registry

`Ledger`: `rows` with the identities they were given, `seq` the counters of the
running platform, which a boot takes from the rows that are left, `birth` (history)
which row an identity meant. Rules rest after they fired; the event row is written
before the rule's row. `Registry`: accounts, units, members, assets, tags, defects,
monitored assets, each handler with every table it looks at before it refuses.

### Cadence (`server/src/world.ts`, `operations.ts`, `ptz.ts`)

The three calendars of the server, as functions of a cadence and a moment: `NextRun`
walks a week in steps of 24 hours, `PlannedCalendar` in dates, `NextPtzRun` in days of
UTC. `shift` is a change of the clocks on one day, so a local day is an hour longer or
shorter once. Around them one schedule is edited, fires, finds its last run open and is
looked at again after an outage. An hour does not pass while something due could fire,
which the ticks of 250 and 500 ms justify; the minute after which an open run is looked
at again is one hour.

### Previews (`server/src/vision.ts`, `integrations/vision/worker.py`)

`job` is a preview with the minute it lives, `told` and `did` what the worker has and
remembers of it, `records` the results, `files` the pictures on disk, `past` how far the
week of retention has come. The picture is written before the transaction of its row;
`KilledInSweep` is the sweep cut anywhere, row by row. `Vision` says which observation
raises an alarm; here that is left open.

### Watching (`integrations/vision/worker.py`, `rules.py`, `inference.py`)

`latest` and `epoch` belong to the thread that captures; `sight` is the entry of
`Worker.views` with the guard's `stable_since`, `state` the entry of `Worker.states` with
the rule: when it last judged and since when its condition lasts. `judged` (history) is
what was judged since the condition last failed; `AlertsAreEarned` reckons from it, with
hours of its own (`WithinHours`), whether an alert is due, so an alert too many and one
too few both break it. An instant is a step of time, not a second; frames with at most
one person, of whom a dwell knows the identity the tracker gave.

### SitePoints (`server/src/config.ts`, `index.ts`, `SiteBuilder.tsx`, the SDK's runner)

`row` and `stored` are the two transactions of a save, `world` what is in force, `page`
and `save` the draft and the request of a browser, `copy` the points an adapter read at
its start, `trip` a run along them. A point is a name and a place; the initial states
include one left by a save that was cut in two. `NextStop` is the runner of the SDK,
`OneTask` the DeepRobotics adapter, which hands the whole route over.

## 3. Runs

Every cfg says `CHECK_DEADLOCK FALSE`: a site at rest with all identities used up
legitimately stops.

| Run | States | Instance | Shows |
|---|---|---|---|
| `DispatchCrash` | 1.5 M | 1 robot, 2 runs, 1 schedule, crashes inside and between handlers; or one run fewer and an extra order | type; the pin names an active run; one open run per schedule; ends are final; `RunsStaySettleable` |
| `DispatchSteady` | 1.3 M | 2 robots of different equipment, 2 runs, 2 priorities, 1 extra order, no crash | never double-booked; no order of an aborted run left to pull; no overtaking |
| `DispatchRebook` | - | 1 robot, 2 runs, restart between handlers | **finding**: `NeverDoubleBooked` violated |
| `DispatchReserve` | - | 1 robot, 1 run, restart between handlers | **finding**: `AbortedRunNotServed` violated |
| `ManualDispatch` | 0.8 M | 1 robot with its runs, extra orders and sessions; a life of the platform has all runs, or one fewer and a session and an extra order (`AllRuns`, `OneRunFewer`); torn handlers, restarts | `DrivesAlone`: an active session is alone with its robot; `RunsMoveOn`: every dispatched run ends, and a pinned run leaves the queue of a robot that is neither reserved nor lost |
| `ManualControl` | 4.7 M | loop: 1 session, 2 inputs, 1 adapter crash, restarts; hand-over: 2 sessions, one input, no crash, restarts up to the second stop; panel: 1 session, 2 inputs, 2 requests under way, one poll | type; `NoRunaway`; lock = the unfinished session; rows keep reservations; a key let go is not outlived; implements `Reservation` |
| `PumpLive` | 0.1 M | 1 session with two inputs, or one and an adapter crash; or two sessions, one input; restarts | every reservation ends with a confirmed stop, unless its frames are withheld again and again |
| `Adapters` | 1.1 M | processes: 2 connectors, 3 processes, shutdown, crashes, boots; orders: 3 orders to any kit, 1 lost reply, 1 fault; session: 2 dances, 1 call of a kind, 2 losses of contact or lease; line: 2 tasks, 1 poll or cancel, 2 lost connections or tasks of the robot; panels: 2 views, 2 requests under way, 1 change per view | type; one driver; follows its row; implements `SerialMotion`; the queue moves; `LinksHold`; `PanelsKeepUp` |
| `Services` | 1.0 M | patrols: 2 cameras, 1 preset, 1 plan of up to 2 stops, edits, sessions; recordings: 1 camera, 4 recorder sessions, 1 kill; analysis: 3 observations, 2 revisions, outbox of 2; console: 2 sites, 1 change in all, 2 generations, 1 break | done means arrived; sessions exclude patrols; `ArchiveHolds`; `OneAlarmPerEpisode`, `ReportsArrive`; `ConsoleKeepsUp`; every patrol ends |
| `Records` | 2.8 M | patrols: 1 camera, 2 runs, a command, a session, lost replies and receipts, crashes, a torn cancel; ledger: 5 tables of up to 3 rows, 5 units of time, 1 restart; registry: 2 users, 2 units, 2 assets, 1 tag, 1 defect, 1 configuration; schedules: days of 3 hours, weeks of 2 days, 3 days, 1 edit, any cadence and change of the clocks; previews: 3 observations, room for 1 picture, 2 faults; judgements: 6 instants, a gap and a duration of 2, 2 persons, 3 schedules over days of 4 instants, 1 upset; points: 2 points, 2 places, 2 edits or requests, 1 kill, routes of up to 2 points | lock = holder; `MovesForItsRun`; `EventsStayTrue`; `RecordsAgree`; `SchedulesKeepTime`; `AnalysisHolds`; `PointsHold` |
| `ConnectorConfig` | - | 1 connector, 2 configurations | **finding**: `RespawnIsFresh` violated |
| `IdentityReuse` | - | one table | **finding**: `IdsAreNeverReused` violated |

Properties that combine parts of one promise: `NoRunaway` is `ReleasedMeansStill`,
`MotionIsWatched` and `InputNeverOutlived`; `MovesForItsRun` is
`MovesUnderReservation` and `NothingReplayed`; `FollowsItsRow` is `DeletedStaysDown` and
`EnabledRuns`; `RunsMoveOn` is `ActiveRunEnds` and `PinnedRequestLeavesQueue`;
`ClipsAreKept` is `AdvertisedIsThere` and `CompletedIsKept`; `ArchiveCatchesUp` is
`EnabledIsRecorded` and `StraysGo`; `ReportsArrive` is `NothingIsForgotten` and
`OutboxDrains`; `OneAlarmPerEpisode` is `OneOnRecord`, after every step, and
`NoneBesideRecord`; `EventsStayTrue` is `NamesStayTrue` and `CooldownHolds`;
`RecordsAgree` is `Forest`, `Placed` and `Retained`; `LinksAreTrue` is `SessionIsTended` and
`LineTellsTheTruth`; `LinksComeBack` is `SessionComesBack` and `RunsSettle`;
`PanelsKeepUp` is `PanelsFollow` and `PanelsCatchUp`; `ArchiveHolds` is `ClipsAreKept` and
`ArchiveCatchesUp`, `LinksHold` is `LinksAreTrue` and `LinksComeBack`, `ConsoleKeepsUp` is
`ViewFollows` and `ConsoleCatchesUp`; `SchedulesKeepTime` is `NoRunIsForgotten` and
`CalendarIsTrue`; `EvidenceHolds` is `OnePreview`, `PicturesAreThere` and
`EventsKeepTheirReason`, `AnalysisHolds` adds `AlertsAreEarned` to it; `PointsHold` is `InForceIsStored`, `SavedIsInForce` and
`DoneWentThere`.

**Why the bounds are enough.** Each hazard has its smallest instance in a run: two
runs compete for a robot, two priorities for an order, one schedule for its
successor, a receipt of one sequence number for a session at the next, two sessions
for a hand-over, two exits for a stray respawn, two boots for a process left behind,
three orders for one that waits between the one in flight and the one that preempts,
two dances for one that survives its session, two connections for a torn frame, three
observations for one that comes between two, two views for an answer of the other, a week of two days for the day that comes
again after a week and the one that comes before it, three pictures for a sweep that
leaves one, six instants for a duration that begins anew, two points for a route of which one moved.
Counters that grow in the code (inputs, restarts of a session, extra orders, crashes)
are bounded by a constant named in a guard. `PumpLive` uses a state constraint; what
it cuts off (an acquisition, an input, a crash) is not fair, so no counterexample to
liveness is lost within it. `SpotSession` was also checked by itself with three dances
and with two calls of a kind.

**Fairness.** Only what the code schedules itself, and of the outside only what is
named here.

* Dispatch, ManualDispatch: the 250 ms tick and the hourly watchdog; never an
  adapter, an operator or a receipt.
* ControlPump: the loop, the watchdog and the timers are weakly fair, a vendor call
  settles and a receipt arrives or is lost; and the world is not out for good, so of
  infinitely many polls one is answered, with a frame or, where a motion order is open,
  with none, of the starts one succeeds, of the requested stops one is confirmed, of these
  confirmations one arrives (strong fairness). Nothing is asked of the orders: a robot
  whose frames are withheld again and again is excepted by `ReservationEnds` itself
  (`Withheld`). Checked without this exception the run fails.
* OrderPump: the process runs, a vendor call is answered or given up, navigation that
  does not end is given up.
* SpotSession: timers fire, a call ends by its answer or its deadline, contact comes
  back. RobotServer: timers fire; nothing is asked of the robot or the network.
* PtzPatrol: the 500 ms tick and the passing of time only, so a run ends whatever the
  adapter does. Recordings: the tick when it has something to do, the end of the
  rest after a failure, the end of a recorder that was told to end, and its callback.
  Vision: heartbeats, the flush of the outbox, the platform's answer to a request, and
  the lease of another instance that runs out.
* Connectors: respawn timers fire, a process that was told to end does (SIGTERM on a
  stop is not backed by a SIGKILL outside the shutdown: a wedged adapter is outside
  this assumption).
* Console: frames are handled, retries fire, loops broadcast; a connection that is
  tried is answered. Panels: timers fire and every request ends.

## 4. Findings

* `DispatchRebook` - busy robots are told by `nav.missionId`, which a restart or a
  deregistration forgets; the next tick books the robot twice, which the comment at
  `world.ts:1501-1505` rules out.
* `DispatchReserve` - hydration queues acked orders again, the one of an aborted run
  included: the adapter pulls and executes a run the operator aborted
  (`world.ts:1274-1275`). The adapter SDK's dedupe hides this as long as the adapter
  itself is not restarted.
* `ConnectorConfig` - the respawn uses the record of the launch, so an edited,
  running connector goes on with its old configuration; the comment at
  `connectors.ts:187` says it respawns "with fresh config".
* `IdentityReuse` - counters are taken from the newest row that is left
  (`config.ts:524`), so what was deleted or swept before a restart gives its identity
  to something new; the comment at `config.ts:521` says ids are never reused.

Disagreements met while modelling and not turned into a run:

* Runs and orders. A crash between the two writes of `setOrderStatus` with an open
  pause order leaves an active run that only the 6 h watchdog settles (`world.ts:433`,
  while the comment at 427-430 fails such a run at the boot). The removal of a robot
  drops its orders from memory (`world.ts:566`, `index.ts:1244-1252`) but not their rows,
  so the receipts of its run are receipts of unknown orders until a restart reads the rows
  again. `RunsStaySettleable` excepts these two (`CutShort`, `Deregistered`), and the proof
  shows that there is no third (section 5).
  A run pinned to a robot that is offline is dispatched to it at once
  (`world.ts:1501-1506`), while `docs/integration.md:119` has it wait. A crash inside
  `tickSchedules` (`world.ts:1213`) leaves a run of no schedule beside the one that
  fires after the boot. A paused run that is aborted leaves its waiting loop and goes
  on to its next point before it looks at the abort (`sdk/adapter-sdk-ts/src/index.ts:
  395-398`; the comment at 367-368 has the runner honour both). GoRobot's abort does
  not stop the robot (`gosuncn main.ts:325-328`); DeepRobotics' preempting cancel is
  lost while `ensureIdle` still asks (`deeprobotics main.ts:326`).
* Identities. A schedule that gets the identity of a deleted one is taken to be running
  while that one's last run is open (`world.ts:1206`); an order whose identity was
  reissued after an idle week and a restart is dropped by an adapter that still has it
  in its ring.
* Manual control. An acked order whose receipt is lost withholds the frame for ever and
  keeps the robot reserved (`control.ts:165`; `ReservationEnds` says so). A poll issued before the answer to an
  acquisition releases the fresh session (`ManualControl.tsx:89`), and so does a late
  409 of an older session (101).
* Patrols. The stop of a cancelled patrol is tried once and not again when it is
  refused, as for a robot that is offline (`ptz.ts:373`), while
  `docs/manual-control.md:9` says that cancellation sends a stop; an acked stop order
  whose receipt was lost keeps the camera busy after the operator released it
  (`ptz.ts:194`, `ptz.ts:322`).
* Spot. The header (`spot main.ts:4-5`) has three keep-alives for a session that is up,
  and the whole dance again when any link breaks. A dance survives the teardown of its
  session: it makes the session ready with no lease and one keep-alive until the next
  dance has passed (`main.ts:124-133`, `253`); and two dances that meet may take the
  lease from each other again and again, so that `SessionComesBack` is stated for the
  case that they stop meeting.
* DeepRobotics. The parser keeps half a frame over a reconnect and takes the next
  answers for its rest (`protocol.ts:51-74`); a line that drops reports the order as
  failed while the robot may go on (`main.ts:105-108`).
* Video analysis. A configuration moved to another adapter is answered with 403, at
  which the worker keeps the head of its outbox for ever (`worker.py:106`). A worker whose
  clock is more than a minute ahead, or one that comes back after a week, is answered with
  400 (`vision.ts:501`) and deletes its reports (`worker.py:108`), of which
  `docs/vision.md:82`, which names the bound of the queue as the only loss, says nothing.
  A transaction that is undone (`vision.ts:611-616`) has raised its alarm nevertheless: it
  is in memory and was shown, and is raised a second time when the report is sent again
  (`OneAlarmPerEpisode` counts the alarms on record).
* Console. The removal of a robot broadcasts the fleet without the channels
  (`index.ts:1250`, compare 1239-1240); a new event type is not broadcast from the
  rules route (`index.ts:740-749`) nor a rule's count (`world.ts:826`); an uploaded map
  is broadcast as `site`, not as `maps` (1348); a refused lifecycle stays on the screen
  (`store.ts:215-225`); a site that does not exist is retried for ever; after signing
  out of a deployment without public view `connected` stays true.
* Panels. The 5 s interval of the recordings outdates every answer that takes longer
  (`RecordingArchive.tsx:66`, `119`), so a slow list is never shown, which is what the
  comment at `Integrations.tsx:471` warns of; the camera panel's overlapping polls may
  put back an older list for a moment (`PtzInspection.tsx:147-170`), and its search is not
  tied to the camera it was started for (184-203).
* Schedules. `nextRun` adds days of 24 hours (`world.ts:1146`). When the clocks change
  within the week, a schedule of one weekday that fires in the first hour before a longer
  day finds no next time and stays dormant until it is edited; asked in the last hour
  before a shorter day, it passes over that day. `SchedulesKeepTime` excepts exactly these
  moments (`Stumbles`); the calendar, which counts dates, shows the missing runs.
* Previews. When the transaction of a result fails (`vision.ts:556-612`) its picture is
  removed, but an event raised inside it stays in memory and was broadcast, so the retry
  raises it again.
* Points. The comment at `index.ts:435` has a save of the geometry in one transaction; the
  row of the site and the geometry are two (453-454), and a kill between them may leave a
  dock that is not on the map, after which the builder's saves are refused until a dock is
  chosen. An adapter reads the points once (`main.ts:515` of the Spot and likewise in the
  others), while `SiteBuilder.tsx:3-4` has every save live at once: a point that was moved is
  driven to where it was; one that is unknown is passed over (`sdk index.ts:398`), and the run
  is reported as done. The builder saves its whole draft over what others saved, takes the
  mark of unsaved edits away from those made during a save (`SiteBuilder.tsx:572-583`), and a
  request that fails in the network leaves its button disabled until the page is opened anew.
* Records. An event's lifecycle has no guard of its transitions; the last administrator
  can be demoted, though not deleted (`config.ts:85`); a defect in progress may lose its
  assignee, by a PATCH or with the account (`openapi-platform.yaml:1932`, `2037`); assets
  whose waypoint or robot is gone can no longer be edited; a crash between an event's
  row and its rule's makes the rule fire again (`world.ts:805-826`).

## 5. Proofs

Proved with TLAPS, for all values of the constants that satisfy the assumptions named
in the modules (TLC evaluates them in the runs): numbers are numbers, the values that
stand for "none" are none of the things they are told from, and a handful of sets are
finite where the code counts or searches them (`ConnectorsAssumption`,
`RegistryAssumption`, `PtzPatrolAssumption`). `VisionAssumption` has a revision to
begin with; `CadenceAssumption` has days of two hours or more, so that the interval of an
hour is less than a day (`index.ts:287` wants a positive one), and more than one day,
since a schedule may be made at any hour of the first. Two theorems assume more, in
their statements: `PumpIsSerial` (`OrderCount <= SeenCap`)
and `AdaptersTypesHold` (the mission archive is among the panels: a panel nobody has
opened is represented by it, since it alone asks for nothing by itself).

* `DispatchProofs`
  * `TypeCorrect`; `PinnedCorrect` (the pin names an active run, in the full
    specification with crashes); `ScheduleCorrect`; `EndsCorrect` (an action property).
  * `SteadyNeverDoubleBooks` and `SteadyAbortHolds`, for `SteadySpec`. Never
    double-booked is not inductive: nothing in it stops a robot with an unpinned active
    run from being chosen. The strengthening is that every active run is pinned to its
    robot; with `PinnedRunIsActive` it makes the pin a bijection, and what breaks it is
    exactly the restart of the first finding.
  * `RunsCanEnd` (`RunsStaySettleable`): a run that its robot can settle (its order is
    open, and in memory while the platform is up) stays so while it is active. A step that
    strands it is a deregistration, or a crash after the order row of a settlement while
    another order of the run is open. The invariant (`OrderInv`) adds which run and kind an
    order has and that the open orders of a run leave memory together, since a
    deregistration takes all of a robot's orders and hydration keeps a run for any of
    them; each action then strands no run that is not excused (`Excused`).
  * `DispatchInOrder` (`NoOvertaking`), for any number of runs and robots: the assignment
    of a tick takes runs in the order of priority and creation.
* `ManualSessionProofs`: the inductive invariant is type and `LockIsTheSession` and
  `RowsKeepReservations`; lock and rows need each other, since a restart rebuilds the
  locks from the rows. Theorems `SessionTypeCorrect`, `ExclusiveControl`,
  `RestartIsSafe`.
* `ManualControlProofs`
  * ControlPump: `PumpTypeCorrect`, `NoRunawayEver`, `DrivenExclusively` and the
    refinement `ReservationKept`. `PumpInv` says what the loop knows at each await
    (`LoopOK`), and that a frame, a call or a motion under way is of a session that is
    open and that no receipt on the line can close (`SafeOK`): a receipt that is late
    enough to be dangerous has outwaited the input it could be dangerous to. The
    refinement needs no more: every step is a step of `Reservation` or a stutter.
  * OperatorPanel: `PanelTypeCorrect`, `KeyUpIsStill`. The inputs on their way, the one in
    force and the answers are ordered by the client's numbers; an input that is in force
    with a number was sent with it.
  * `ControlHolds`: types and safety invariants of both in the graph they share. While a
    panel drives, no adapter has begun and the robot stands (`ControlInv`).
* `ManualDispatchProofs`: `ManualTypeCorrect`, `OperatorDrivesAlone`. Alone is
  inductive with the invariant of the sessions, whose lemmas are used through
  `INSTANCE ManualSessionProofs`, and with what the adapter read before an await.
* `AdaptersProofs`
  * `ConnectorsTypeCorrect`, `OneDriverHolds`. A launch does not ask whether a process
    left behind by a crash still runs. The invariant is: once a boot has its key, a
    process with an accepted key is the child of its connector (which launch does ask
    about); a child is alive, is its connector's, and exists only once the key is issued;
    nobody has a child while the platform is down. So the launch that issues the key
    finds no child to revoke. `DeletedForGood`: nobody wants a deleted connector
    (`DeletedUnwanted`), hence no respawn or boot gives it a process.
  * `OrderTypeCorrect`, `OneMotionAtATime`, and the refinement `PumpIsSerial`.
    `FlightInv` ties handler, queue, runner and vendor calls to the order in flight;
    `Once` says that the ring holds what was seen, without repetitions, and that what was
    seen is not queued twice. With at most `SeenCap` orders nothing is forgotten by the
    ring; with more, `SerialMotion`'s "once" is not what the code promises.
  * SpotSession: `SessionsAreTended`. The property speaks of moments at which no dance is
    to come. The invariant names, for all others, a dance that does the work: since the
    timers were last cleared it left behind what its stage says (`Carries`). A teardown
    takes everything and schedules a dance, which carries from the start; so one carries
    whichever of two dances clears or wins.
  * RobotServer: `LinesTellTheTruth`. Every answer on its way to the adapter is true
    (`TrueReplies`), and stays so: a task that arrived has arrived, and a cancel that was
    answered ended what came before it, while every request still on the line has a
    higher number (`Past`). Why numbers do not come back is `NumbersFit`: what may still be
    sent is counted.
  * Panels: `PanelsTypeCorrect`, `PanelsShowTheirView` (the half of `PanelsKeepUp` without
    fairness: an invariant and an action property). The invariant ties each request
    that may still be shown to the view it was made for and the newest number.
  * `LinksStayTrue`, `AdaptersTypesHold`: of the graph that the run checks.
* `PtzProofs`: `PtzTypes`, `PlansNameTheirPresets`, `LockNamesTheHolder`,
  `CameraMovesForItsRun`, `SessionsExcludePatrols`, `DoneRunsArrived`, all from one
  invariant `IInv`: the orders of a run follow its step; a stop is sent after its run,
  and once pulled no move of the run is on its way, once done the adapter has nothing
  to do with one; what the adapter has to do with is for a run that holds its camera.
* `ServicesProofs`
  * Vision: `VisionTypeCorrect`, `AlarmsAreSingle`, `NothingForgotten` (the half of
    `ReportsArrive` without fairness). The alarms of an episode are counted in the order
    of capture, not of arrival: `EpisodeStands` says that the episode of a configuration
    is that of the newest counted result, so a late one cannot begin another, and that an
    alarm raised by a transaction that is undone (`UndoneIsFresh`) has every alarm on
    record behind an end of its stretch.
  * Recordings: `RecordingsTypeCorrect`, `ClipsStay` (`ClipsAreKept`, the half of
    `ArchiveHolds` without fairness). `RecInv` adds that a clip that is listed, stored or
    in a manifest has a number its process has passed, so that no clip is completed
    twice, and that a serving platform works the sessions that are on record.
  * Console: `ConsoleTypeCorrect`, `BrowserFollows` (`ViewFollows`, the half of
    `ConsoleKeepsUp` without fairness). With frames under way nothing is said of what is
    shown; the invariant is that there are views, one per frame, that lead from the one
    shown to what the platform knows (`Leads`). A change appends to them, a handled frame
    drops the first.
  * `ServicesAreThemselves`, `ServicesTypesHold`, `ServicesHold`: the four in the graph
    they share.
* `RecordsProofs`
  * Ledger: `LedgerTypeCorrect`, `EventsKeepTrue`. Identities are given anew after a
    kill; that no event refers to one of the new owner needs that the counter is above
    whatever rows and events name.
  * SitePoints: `PointsHoldAlways`. The two transactions of a save, the page and the trip.
  * Registry: `RegistryTypeCorrect`, `RegistryAgrees`. That units form a tree is a
    closure, which one step changes everywhere; the invariant says instead that there is
    a set closed upwards that has a unit's parent and not the unit (`Rooted`), which a
    move keeps by the very check the code makes.
  * Previews: `EvidenceStays`. A picture on record without its file is one that the
    sweep that was killed had removed, and that the next boot takes off its row before
    anything is served (`Doomed`).
  * Watching: `WatchTypeCorrect`, `AlertsStayEarned`. Since when a condition lasts is
    tied to the history of what was judged (`SinceFits`), and the code's hours, which
    pass midnight, to hours that begin on a day of theirs (`HoursAgree`).
  * Cadence: `SchedulesTypeCorrect`, `RunsAreRemembered`, `SchedulesAreKept`
    (`SchedulesKeepTime`). The arithmetic of a week, once: unless the change of the clocks
    is in the way (`Smooth`), a step of 24 hours is the next date (`StepByStep`), so the
    first of a week's dates that fits and is not over is the next occurrence of all. The
    invariant (`Follows`) then is that a schedule is due at the next occurrence after it
    was last reckoned (`IsNext`), or at the next look, because an occurrence has passed
    (`IsPutOff`). The calendar is a walk from run to run; that the walk exists, and that
    the moments on it are exactly the runs, is shown by a least counterexample
    (`WalkExists`), since the steps of both walks go up.
  * `RecordsAreThemselves`, `RecordsTypesHold`, `RecordsHold`, `AnalysisAlwaysHolds`: all
    seven in the graph the run `Records` checks.

That a set of numbers has a least and a greatest member (the first of a reply, the newest result,
the counter after a kill) is proved from the well-foundedness of the naturals, by a least
counterexample.

**Only model-checked.** Liveness, which is out of the prover's reach, as is ENABLED:
`ReservationEnds`, `RunsMoveOn`, `QueueMoves`, `RunEnds`, and of `FollowsItsRow`,
`LinksHold`, `ArchiveHolds`, `ReportsArrive`, `ConsoleKeepsUp` and `PanelsKeepUp` the
halves that need fairness (`EnabledRuns`, `LinksComeBack`, `ArchiveCatchesUp`,
`OutboxDrains`, `ConsoleCatchesUp`, `PanelsCatchUp`). Every safety invariant, every action
property and both refinements that a passing run checks are proved.

No module declares a RECURSIVE operator, so each of them can be proved about.

## 6. Not modelled

Poses, maps, distances and other numbers; times (they are events that come due);
texts, logs, exports, statistics; the removal of a whole site from the connectors and
recordings; backoff times; the eviction of closed runs from memory; a preset's pose
ranges; the 60 s purge of closed sessions; the clean `pump.stop()`; the lifecycle of an event beyond its broadcast;
docking and charging; the websocket of the GoRobot. Single sign-on, streams and
pictures are I/O and libraries. Most of the repository's lines are pages, charts, the
three-dimensional map and the tools of the site builder of the web interface, which render what the
platform says and keep no state that others rely on, and tests and tooling: no
behaviour of theirs is in question here. The Node-RED nodes repeat the two pumps of
the SDK in JavaScript.

## 7. Plan

Done: the modules above, the compositions of `Dispatch` with `ManualSession`, of
`ManualSession` with the pump and with the panel, both refinements, and the proofs of
section 5: of every passing run what needs no fairness.

Proofs to come, the most valuable first: what of the findings holds nevertheless, as
theorems (a robot is booked twice only after a restart or a deregistration while its run was
active; an order of an aborted run is served only if it was acked when the platform
started; an identity given twice is of a row no event names); action properties that no
run states yet (a camera order that was settled stays settled, an outbox sends in the
order of capture); and an abstract specification of the camera's reservation beside
`Reservation`, which `PtzPatrol` implements by `IInv`.

Modelling left: playback of recordings and their media tokens, the websocket of the
GoRobot, the life of a whole site, and the Node-RED flow nodes where they differ from the
SDK. They wait for room in the existing runs: one run answers one question, on the
smallest instance that can ask it.
