---------------------------- MODULE SerialMotion ----------------------------
(***************************************************************************)
(* What the order pump promises of one robot (docs/integration.md:233-236):*)
(* motion orders are carried out one at a time, each at most once by one   *)
(* process, and the robot sets out only for the order being carried out.   *)
(***************************************************************************)
CONSTANTS Orders, NoOrder

VARIABLES
  current,   \* the motion order being carried out, or NoOrder
  handed,    \* motion orders this process has begun
  body       \* the order the robot moves for, or NoOrder

serialVars == <<current, handed, body>>

SerialInit == current = NoOrder /\ handed = {} /\ body = NoOrder

Take(o) == /\ o \notin handed
           /\ current' = o /\ handed' = handed \cup {o}
           /\ UNCHANGED body

\* The next order may be begun in the step that ends one.
Finish == \/ current' = NoOrder /\ UNCHANGED <<handed, body>>
          \/ \E o \in Orders : Take(o)

Begin == current = NoOrder /\ \E o \in Orders : Take(o)

Move == /\ body' \in {current, NoOrder}
        /\ UNCHANGED <<current, handed>>

\* A new process knows nothing; the robot goes on.
Forget == current' = NoOrder /\ handed' = {} /\ UNCHANGED body

SerialNext == Begin \/ (current # NoOrder /\ Finish) \/ Move \/ Forget

SerialSpec == SerialInit /\ [][SerialNext]_serialVars
=============================================================================
