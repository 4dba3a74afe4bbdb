---------------------------- MODULE AtomicSlots ----------------------------
(* What the locks of BookingLocks promise: every request that seats, moves  *)
(* or closes a booking, or plans an unavailability, takes effect in a       *)
(* single step whose conditions hold in that very step.                     *)

CONSTANTS Booking,  \* bookings of one day and one interval of time
          Table     \* tables

VARIABLES status,   \* "none" before the booking exists, "active", "closed"
          at,       \* the tables of a booking
          blocked   \* tables planned to be unavailable

slots == <<status, at, blocked>>

Active(b) == status[b] = "active"
Taken(T) == \E b \in Booking : Active(b) /\ at[b] \cap T /= {}

Init ==
    /\ status = [b \in Booking |-> "none"]
    /\ at = [b \in Booking |-> {}]
    /\ blocked = {}

\* A new booking takes tables that nobody has and that are not blocked.
Seat(b, T) ==
    /\ status[b] = "none"
    /\ ~Taken(T) /\ T \cap blocked = {}
    /\ status' = [status EXCEPT ![b] = "active"]
    /\ at' = [at EXCEPT ![b] = T]
    /\ UNCHANGED blocked

\* A booking moves to a table that nobody has. Only the transfer out of a
\* planned unavailability is sure to find the table unblocked.
Move(b, t) ==
    /\ Active(b) /\ ~Taken({t})
    /\ at' = [at EXCEPT ![b] = {t}]
    /\ UNCHANGED <<status, blocked>>

Close(b) ==
    /\ Active(b)
    /\ status' = [status EXCEPT ![b] = "closed"]
    /\ UNCHANGED <<at, blocked>>

\* No unavailability is planned over a booking.
Block(T) ==
    /\ ~Taken(T)
    /\ blocked' = blocked \cup T
    /\ UNCHANGED <<status, at>>

Next ==
    \/ \E b \in Booking, T \in SUBSET Table : Seat(b, T)
    \/ \E b \in Booking, t \in Table : Move(b, t)
    \/ \E b \in Booking : Close(b)
    \/ \E T \in SUBSET Table : Block(T)

Spec == Init /\ [][Next]_slots

-----------------------------------------------------------------------------
\* No table is given to two active bookings.
OneEach ==
    \A a, b \in Booking : a /= b /\ Active(a) /\ Active(b) => at[a] \cap at[b] = {}
=============================================================================
