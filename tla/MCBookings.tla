---------------------------- MODULE MCBookings ----------------------------
(* Small instances of Bookings for model checking. *)
EXTENDS Bookings, TLC

\* Planned unavailability: the whole day, or its end.
MCSpans == {<<0, DayLen>>}
LateSpans == {<<2, DayLen>>}

EachTable == {{t} : t \in Table}
ZoneOnly == {Table}

TableSymmetry == Permutations(Table)
Symmetric == Permutations(Table) \cup Permutations(Booking)
===========================================================================
