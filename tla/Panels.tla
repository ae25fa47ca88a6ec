------------------------------- MODULE Panels --------------------------------
(***************************************************************************)
(* The panels of the web console that read a list on their own, apart from *)
(* the frames of the socket: how each asks again, and which answers it     *)
(* takes.  Every panel is made anew for a site; the dates, channel or page *)
(* an operator selects within one are its view.                            *)
(*                                                                         *)
(*   cameras     PtzInspection.tsx:127-170, 232-245                        *)
(*   rules       MonitoringRules.tsx:32-72, VisionInspection.tsx:395-425   *)
(*   recordings  RecordingArchive.tsx:50-176                               *)
(*   connectors  Integrations.tsx:63-80, 444-492                           *)
(*   missions    MissionArchive.tsx:99-141                                 *)
(*                                                                         *)
(* A list is the number of changes made to it.                             *)
(***************************************************************************)
EXTENDS Naturals

CONSTANTS
  PanelKinds,   \* panels looked at
  Views,        \* what an operator may select
  NoView,
  MaxFlights,   \* bound: requests without an answer
  MaxEdits,     \* bound: changes of the lists
  MaxMishaps     \* bound: requests that fail

ASSUME PanelsAssumption ==
  /\ PanelKinds \subseteq {"cameras", "rules", "recordings", "connectors", "missions"}
  /\ NoView \notin Views
  /\ MaxFlights \in Nat \ {0} /\ MaxEdits \in Nat /\ MaxMishaps \in Nat

Flights == 1..MaxFlights

VARIABLES
  panel,     \* which of the panels this is
  view,      \* what is selected
  flights,   \* requests under way; "read" when the server has answered
  loading,   \* the panel says that it loads
  error,     \* the panel shows an error
  shown,     \* the list on the screen, and of which view it is
  saving,    \* view of the handler that waits for a save of the operator
  edits,     \* view -> changes made to its list
  mishaps   \* how many there were, and refreshes

panelVars == <<panel, view, flights, loading, error, shown, saving, edits, mishaps>>

-----------------------------------------------------------------------------
NoFlight == [at |-> "none", view |-> NoView, value |-> 0, newest |-> FALSE, poll |-> FALSE]
Unused == {f \in Flights : flights[f] = NoFlight}
Polling == \E f \in Flights : flights[f].poll

\* requestVersion, request.current and the AbortController: a request makes
\* those before it outdated.
Overtaken(fs) == [f \in Flights |-> [fs[f] EXCEPT !.newest = FALSE]]

Asks(v, poll) ==
  \E f \in Unused :
    /\ \A g \in Unused : f <= g
    /\ flights' = [Overtaken(flights) EXCEPT
         ![f] = [at |-> "sent", view |-> v, value |-> 0, newest |-> TRUE, poll |-> poll]]

PanelBlank ==
  /\ view \in Views
  /\ loading = TRUE /\ error = FALSE
  /\ shown = [view |-> NoView, value |-> 0]
  /\ saving = NoView /\ edits = [v \in Views |-> 0] /\ mishaps = 0

\* A panel asks as soon as it is there.
PanelInit ==
  /\ PanelBlank
  /\ panel \in PanelKinds
  /\ flights = [f \in Flights |-> IF f = 1
       THEN [at |-> "sent", view |-> view, value |-> 0, newest |-> TRUE, poll |-> TRUE]
       ELSE NoFlight]

-----------------------------------------------------------------------------
(* What makes a panel ask.                                                 *)

\* Variant: every panel that polls uses setInterval.
TickByInterval ==
  /\ panel # "missions"
  /\ Asks(view, TRUE)
  /\ UNCHANGED <<panel, view, loading, error, shown, saving, edits, mishaps>>

\* setInterval asks whether or not the last answer is there; the others wait
\* for the answer before they set the timer; the mission archive never polls.
\* A tab in the background may be quiet, which does not differ from time.
Tick ==
  /\ \/ panel \in {"cameras", "recordings"}
     \/ panel \in {"rules", "connectors"} /\ ~Polling
  /\ Asks(view, TRUE)
  /\ UNCHANGED <<panel, view, loading, error, shown, saving, edits, mishaps>>

\* Other dates, another channel or page: what was asked is aborted.
Select(v) ==
  /\ panel \in {"recordings", "missions"} /\ v # view
  /\ view' = v /\ loading' = TRUE
  /\ error' = IF panel = "missions" THEN FALSE ELSE error
  /\ Asks(v, FALSE)
  /\ UNCHANGED <<panel, shown, saving, edits, mishaps>>

\* The refresh button, a connector restarted, another number of schedules.
Refresh ==
  /\ mishaps < MaxMishaps /\ mishaps' = mishaps + 1
  /\ \/ panel \in {"rules", "connectors"} /\ UNCHANGED <<loading, error>>
     \/ panel = "missions" /\ loading' = TRUE /\ error' = FALSE
  /\ Asks(view, FALSE)
  /\ UNCHANGED <<panel, view, shown, saving, edits>>

\* The operator saves or deletes in the panel; its handler was made for the
\* view there is now.
Save ==
  /\ panel # "missions" /\ saving = NoView /\ edits[view] < MaxEdits
  /\ saving' = view
  /\ UNCHANGED <<panel, view, flights, loading, error, shown, edits, mishaps>>

Saved ==
  /\ saving # NoView /\ saving' = NoView
  /\ edits' = [edits EXCEPT ![saving] = @ + 1]
  /\ IF saving = view THEN Asks(view, FALSE) ELSE flights' = flights
  /\ UNCHANGED <<panel, view, loading, error, shown, mishaps>>

\* Somebody else changes what is listed.
Changes(v) ==
  /\ edits[v] + (IF saving = v THEN 1 ELSE 0) < MaxEdits
  /\ edits' = [edits EXCEPT ![v] = @ + 1]
  /\ UNCHANGED <<panel, view, flights, loading, error, shown, saving, mishaps>>

-----------------------------------------------------------------------------
(* Answers.                                                                *)

\* The server reads the list; the answer may still be long on its way.
Reads(f) ==
  /\ flights[f].at = "sent"
  /\ flights' = [flights EXCEPT ![f].at = "read", ![f].value = edits[flights[f].view]]
  /\ UNCHANGED <<panel, view, loading, error, shown, saving, edits, mishaps>>

\* Variant: the panel shows whatever comes.
TakesAll(f) == flights[f].at # "none"
Takes(f) ==
  \/ panel \in {"cameras", "rules"}
  \/ flights[f].newest /\ flights[f].view = view

Shows(f) ==
  /\ flights[f].at = "read"
  /\ flights' = [flights EXCEPT ![f] = NoFlight]
  /\ IF Takes(f)
       THEN /\ shown' = [view |-> flights[f].view, value |-> flights[f].value]
            /\ loading' = FALSE /\ error' = FALSE
       ELSE UNCHANGED <<shown, loading, error>>
  /\ UNCHANGED <<panel, view, saving, edits, mishaps>>

\* Refused, broken off, or out of reach.  What the cameras and the rules read
\* again after a save fails in a message of its own.
Breaks(f) ==
  /\ flights[f].at = "sent" /\ mishaps < MaxMishaps /\ mishaps' = mishaps + 1
  /\ flights' = [flights EXCEPT ![f] = NoFlight]
  /\ IF Takes(f) /\ (panel \in {"cameras", "rules"} => flights[f].poll)
       THEN loading' = FALSE /\ error' = TRUE
       ELSE UNCHANGED <<loading, error>>
  /\ UNCHANGED <<panel, view, shown, saving, edits>>

-----------------------------------------------------------------------------
PanelNext ==
  \/ Tick \/ Refresh \/ Save \/ Saved
  \/ \E v \in Views : Select(v) \/ Changes(v)
  \/ \E f \in Flights : Reads(f) \/ Shows(f) \/ Breaks(f)

PanelSpec == PanelInit /\ [][PanelNext]_panelVars

\* Timers fire and every request ends.
PanelFairness ==
  /\ WF_panelVars(Tick) /\ WF_panelVars(Saved)
  /\ \A f \in Flights : WF_panelVars(Reads(f)) /\ WF_panelVars(Shows(f))
PanelFairSpec == PanelSpec /\ PanelFairness

-----------------------------------------------------------------------------
PanelTypeOK ==
  /\ panel \in PanelKinds /\ view \in Views
  /\ flights \in [Flights -> [at : {"none", "sent", "read"}, value : 0..MaxEdits,
       view : Views \cup {NoView}, newest : BOOLEAN, poll : BOOLEAN]]
  /\ loading \in BOOLEAN /\ error \in BOOLEAN
  /\ shown \in [view : Views \cup {NoView}, value : 0..MaxEdits]
  /\ saving \in Views \cup {NoView}
  /\ edits \in [Views -> 0..MaxEdits] /\ mishaps \in 0..MaxMishaps

\* RecordingArchive.tsx:66-73, MissionArchive.tsx:105-134, Integrations.tsx:
\* 454-470: answers may overtake each other and the selection; a panel that no
\* longer loads shows what is selected, and a list that is shown is never
\* replaced by an older one of the same view.  (The cameras and the rules
\* promise neither: an overtaken poll puts an old list back for a moment.)
NeverOlder ==
  panel \in {"recordings", "connectors", "missions"} /\ shown'.view = shown.view
    => shown'.value >= shown.value
PanelsFollow ==
  /\ [](~loading /\ ~error => shown.view = view)
  /\ [][NeverOlder]_panelVars

\* Integrations.tsx:472, MonitoringRules.tsx:63, PtzInspection.tsx:158: slow
\* answers get a chance to be seen, and once the list rests it is what is
\* shown.  (Not the recordings: an answer slower than the five seconds of its
\* interval is always outdated when it comes.)
PanelsCatchUp ==
  []<>(panel \in {"cameras", "rules", "connectors"} => shown.value = edits[view])

\* Both: what is dropped is never missed, what is shown is never wrong.
PanelsKeepUp == PanelsFollow /\ PanelsCatchUp
=============================================================================
