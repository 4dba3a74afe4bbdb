---------------------------- MODULE MCSharedRows ----------------------------
(***************************************************************************)
(* Small instances of BookingLocks and RestaurantDay side by side: requests*)
(* that lock the rows they change, and requests that do not.  The two share*)
(* no state, so each behaviour is one of them, and the other is at rest.   *)
(***************************************************************************)
EXTENDS BookingLocks, RestaurantDay, TLC

VARIABLE subject \* which of the two

\* At rest the restaurant is new.
MCInit ==
    /\ Init /\ RestaurantInit
    /\ \/ subject = "bookings" /\ restaurant = NewRow
       \/ subject = "restaurant"

MCNext ==
    /\ UNCHANGED subject
    /\ \/ subject = "bookings" /\ Next /\ UNCHANGED restaurantVars
       \/ subject = "restaurant" /\ RestaurantNext /\ UNCHANGED vars

MCSpec == MCInit /\ [][MCNext]_<<vars, restaurantVars, subject>>

\* Every variable of both has its type.
MCTypeOK == TypeOK /\ RestaurantTypeOK

\* Handlers, bookings, editors and runs are named alike.
Symmetric ==
    Permutations(Handler) \cup Permutations(Booking) \cup Permutations(Editor)
        \cup Permutations(Run)
=============================================================================
