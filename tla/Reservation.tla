----------------------------- MODULE Reservation -----------------------------
(***************************************************************************)
(* What manual control promises of one robot, whatever fails: it is held   *)
(* by one session at a time, moves only for the session that holds it, and *)
(* changes hands standing still.                                           *)
(***************************************************************************)
CONSTANTS Sessions, NoHolder

VARIABLES
  holder,   \* the session that reserves the robot, or NoHolder
  mover,    \* the session whose command the robot executes, or NoHolder
  spent     \* sessions that held the robot at some time

reservationVars == <<holder, mover, spent>>

ReservationInit == holder = NoHolder /\ mover = NoHolder /\ spent = {}

Reserve(s) == /\ holder = NoHolder /\ s \notin spent
              /\ holder' = s /\ spent' = spent \cup {s}
              /\ UNCHANGED mover

Drive == /\ holder # NoHolder
         /\ mover' \in {holder, NoHolder}
         /\ UNCHANGED <<holder, spent>>

Hand == /\ holder # NoHolder /\ mover = NoHolder
        /\ holder' = NoHolder
        /\ UNCHANGED <<mover, spent>>

ReservationNext == (\E s \in Sessions : Reserve(s)) \/ Drive \/ Hand

ReservationSpec == ReservationInit /\ [][ReservationNext]_reservationVars
=============================================================================
