--------------------------- MODULE BookingsProofs ---------------------------
(***************************************************************************)
(* Theorems about Bookings, for any number of bookings, tables and guests, *)
(* any calendar and any durations.                                         *)
(*                                                                         *)
(* Most actions leave every booking's slot, tables and guest alone and     *)
(* activate nothing ("Quiet"); the others create a booking, move one to    *)
(* another table or move one to another time.  Each of the four kinds of   *)
(* step has a lemma of its own, and each action is shown to be of one kind.*)
(***************************************************************************)
EXTENDS Bookings, TLAPS

\* Only bookings made online carry a request for another time, and those have
\* at most their own table: why the approval of such a request, which looks at
\* bookings.table_id alone, leaves no worse conflict than NoDoubleBooking says.
RequestsAreOnline ==
    \A b \in Booking : bookings[b].request /= NoRequest => bookings[b].online

IInv == /\ TypeOK
        /\ AssignmentsMatch
        /\ RequestsAreOnline
        /\ NoDoubleBooking
        /\ OneActivePerGuest

-----------------------------------------------------------------------------
(* Types *)

LEMMA RemainingType == \A t : Remaining(t)' \in TableStatuses
  BY DEF Remaining, TableStatuses

LEMMA RemainingByTableIdType ==
  \A t : RemainingByTableId(t) \in TableStatuses /\ RemainingByTableId(t)' \in TableStatuses
  BY DEF RemainingByTableId, TableStatuses

\* Whatever the tables and the released ones are, repainting keeps the type.
LEMMA RepaintType ==
  ASSUME TypeOK, NEW T, NEW R, NEW d
  PROVE  /\ Synchronized(T, R) \in [Table -> TableStatuses]
         /\ \A s \in TableStatuses : Painted(T, d, s) \in [Table -> TableStatuses]
  BY RemainingType DEF Synchronized, Painted, TypeOK

\* One booking is replaced by a record of the right type.
Replaces(b, r) == /\ r \in BookingRecord
                  /\ bookings' = [bookings EXCEPT ![b] = r]

LEMMA ReplacesType ==
  ASSUME TypeOK, NEW b \in Booking, NEW r, Replaces(b, r)
  PROVE  bookings' \in [Booking -> BookingRecord]
  BY DEF Replaces, TypeOK

LEMMA EntryType ==
  ASSUME NEW status \in BookingStatuses, NEW t \in Table, NEW T \in SUBSET Table,
         NEW day \in Nat, NEW s \in Nat, NEW len \in Nat,
         NEW g \in Guest \cup {NoGuest}, NEW online \in BOOLEAN
  PROVE  Entry(status, t, T, day, s, len, g, online) \in BookingRecord
  BY ZenonT(40) DEF Entry, Blank, BookingRecord

LEMMA InputTypes ==
  /\ Day \subseteq Nat /\ Time \subseteq Nat /\ Openings \subseteq Nat
  /\ Durations \subseteq Nat /\ Delays \subseteq Nat
  BY BookingsAssumption DEF Day, Time

LEMMA InitType == Init => TypeOK
  BY BookingsAssumption
     DEF Init, TypeOK, Blank, BookingRecord, BookingStatuses, TableStatuses, Day, Time

LEMMA CreationType ==
  ASSUME TypeOK, UNCHANGED rejections, NEW b \in Booking, Creation(b)
  PROVE  TypeOK'
<1>1. PICK day \in Day, s \in Openings, len \in Durations, t \in Table :
        \/ \E g \in Guest : Create(b, t, day, s, len, g)
        \/ \E g \in Guest \cup {NoGuest} : CreateManual(b, t, day, s, len, g)
        \/ \E T \in SUBSET Table, g \in Guest \cup {NoGuest} :
              CreateBanquet(b, t, T, day, s, len, g)
  BY DEF Creation
<1>2. day \in Nat /\ s \in Nat /\ len \in Nat
  BY InputTypes
<1>3. {"pending", "approved"} \subseteq BookingStatuses
      /\ {"pending", "reserved"} \subseteq TableStatuses
  BY DEF BookingStatuses, TableStatuses
<1>4. CASE \E g \in Guest : Create(b, t, day, s, len, g)
  <2>1. PICK g \in Guest : Create(b, t, day, s, len, g)
    BY <1>4
  <2>2. Entry("pending", t, {}, day, s, len, g, TRUE) \in BookingRecord
    BY EntryType, <1>2, <1>3
  <2>3. tableStatus' \in [Table -> TableStatuses]
    BY <2>1, <1>3, RepaintType DEF Create
  <2> QED BY <2>1, <2>2, <2>3 DEF Create, TypeOK, rejections
<1>5. CASE \E g \in Guest \cup {NoGuest} : CreateManual(b, t, day, s, len, g)
  <2>1. PICK g \in Guest \cup {NoGuest} : CreateManual(b, t, day, s, len, g)
    BY <1>5
  <2>2. Entry("approved", t, {}, day, s, len, g, FALSE) \in BookingRecord
    BY EntryType, <1>2, <1>3
  <2>3. tableStatus' \in [Table -> TableStatuses]
    BY <2>1, <1>3, RepaintType DEF CreateManual
  <2> QED BY <2>1, <2>2, <2>3 DEF CreateManual, TypeOK, rejections
<1>6. CASE \E T \in SUBSET Table, g \in Guest \cup {NoGuest} :
              CreateBanquet(b, t, T, day, s, len, g)
  <2>1. PICK T \in SUBSET Table, g \in Guest \cup {NoGuest} :
              CreateBanquet(b, t, T, day, s, len, g)
    BY <1>6
  <2>2. Entry("approved", t, T, day, s, len, g, FALSE) \in BookingRecord
    BY EntryType, <1>2, <1>3
  <2>3. tableStatus' \in [Table -> TableStatuses]
    BY <2>1, <1>3, RepaintType DEF CreateBanquet
  <2> QED BY <2>1, <2>2, <2>3 DEF CreateBanquet, TypeOK, rejections
<1> QED BY <1>1, <1>4, <1>5, <1>6

\* The handlers that change one booking's own fields; what they do to the
\* tables is a repaint, or nothing.
LEMMA DecisionType ==
  ASSUME TypeOK, UNCHANGED rejections, NEW b \in Booking,
         Decision(b) \/ GuestAction(b) \/ AutoNoShow(b)
  PROVE  TypeOK'
<1>0. bookings[b] \in BookingRecord
  BY DEF TypeOK
<1>1. /\ Painted(TablesOf(b), bookings[b].date, "reserved") \in [Table -> TableStatuses]
      /\ Painted(TablesOf(b), bookings[b].date, "occupied") \in [Table -> TableStatuses]
  BY RepaintType DEF TableStatuses
<1>2. CASE Approve(b) \/ CheckIn(b)
  <2>1. tableStatus' \in [Table -> TableStatuses]
    BY <1>2, <1>1 DEF Approve, CheckIn
  <2>2. bookings' \in [Booking -> BookingRecord]
    BY <1>2, <1>0 DEF Approve, CheckIn, BookingRecord, BookingStatuses, TypeOK
  <2> QED BY <1>2, <2>1, <2>2 DEF Approve, CheckIn, TypeOK, rejections
<1>3. CASE Reject(b) \/ Cancel(b) \/ NoShow(b) \/ Complete(b) \/ AutoNoShow(b)
  <2>1. tableStatus' \in [Table -> TableStatuses]
    BY <1>3, RepaintType DEF Reject, Cancel, NoShow, Complete, AutoNoShow, Close
  <2>2. bookings' \in [Booking -> BookingRecord]
    BY <1>3, <1>0 DEF Reject, Cancel, NoShow, Complete, AutoNoShow, Close,
                      BookingRecord, BookingStatuses, TypeOK
  <2> QED BY <1>3, <2>1, <2>2
             DEF Reject, Cancel, NoShow, Complete, AutoNoShow, Close, TypeOK,
                 rejections
<1>4. CASE RejectReschedule(b) \/ RequestTableChange(b)
  <2>0. /\ [bookings[b] EXCEPT !.tableChange = TRUE] \in BookingRecord
        /\ [bookings[b] EXCEPT !.request = NoRequest] \in BookingRecord
    BY <1>0 DEF BookingRecord
  <2>1. bookings' \in [Booking -> BookingRecord]
    BY <1>4, <2>0 DEF RejectReschedule, RequestTableChange, TypeOK
  <2> QED BY <1>4, <2>1 DEF RejectReschedule, RequestTableChange, TypeOK, rejections
<1>5. CASE ApproveReschedule(b)
  <2>1. bookings[b].request \in Slot
    BY <1>5, <1>0 DEF ApproveReschedule, BookingRecord
  <2>2. bookings' \in [Booking -> BookingRecord]
    BY <1>5, <1>0, <2>1 DEF ApproveReschedule, BookingRecord, Slot, TypeOK
  <2> QED BY <1>5, <2>2 DEF ApproveReschedule, TypeOK, rejections
<1>6. CASE GuestCancel(b)
  <2>1. tableStatus' \in [Table -> TableStatuses]
    BY <1>6, RemainingByTableIdType DEF GuestCancel, TypeOK
  <2>2. bookings' \in [Booking -> BookingRecord]
    BY <1>6, <1>0 DEF GuestCancel, BookingRecord, BookingStatuses, TypeOK
  <2> QED BY <1>6, <2>1, <2>2 DEF GuestCancel, TypeOK, rejections
<1>7. CASE \E delay \in Delays : ReportLateness(b, delay)
  <2>1. PICK delay \in Delays : ReportLateness(b, delay)
    BY <1>7
  <2>2. delay \in Nat /\ bookings[b].date \in Nat /\ bookings[b].start \in Nat
    BY <1>0, InputTypes DEF BookingRecord
  <2>3. (bookings[b].start + delay) \div DayLen \in Nat
        /\ (bookings[b].start + delay) % DayLen \in Nat
    BY <2>2, BookingsAssumption
  <2> DEFINE wanted ==
        [date  |-> bookings[b].date + (bookings[b].start + delay) \div DayLen,
         start |-> (bookings[b].start + delay) % DayLen]
  <2>4. wanted \in Slot
    BY <2>2, <2>3 DEF Slot
  <2>5. bookings' = [bookings EXCEPT ![b].lateNoted = TRUE, ![b].request = wanted]
    BY <2>1 DEF ReportLateness
  <2> HIDE DEF wanted
  <2>6. bookings' \in [Booking -> BookingRecord]
    BY <1>0, <2>4, <2>5 DEF BookingRecord, TypeOK
  <2> QED BY <2>1, <2>6 DEF ReportLateness, TypeOK, rejections
<1>8. CASE \E s \in Openings : RequestTimeChange(b, s)
  <2>1. PICK s \in Openings : RequestTimeChange(b, s)
    BY <1>8
  <2>2. s \in Nat /\ bookings[b].date \in Nat
    BY <1>0, InputTypes DEF BookingRecord
  <2>3. bookings' \in [Booking -> BookingRecord]
    BY <1>0, <2>1, <2>2 DEF RequestTimeChange, BookingRecord, Slot, TypeOK
  <2> QED BY <2>1, <2>3 DEF RequestTimeChange, TypeOK, rejections
<1> QED BY <1>2, <1>3, <1>4, <1>5, <1>6, <1>7, <1>8 DEF Decision, GuestAction

LEMMA TransferType ==
  ASSUME TypeOK, UNCHANGED rejections, NEW b \in Booking, Transfer(b)
  PROVE  TypeOK'
<1>0. bookings[b] \in BookingRecord
  BY DEF TypeOK
<1>1. PICK t \in Table :
        WaiterTransfer(b, t) \/ TransferBooking(b, t) \/ ApproveTableChange(b, t)
  BY DEF Transfer
<1>2. bookings' \in [Booking -> BookingRecord]
  <2>1. Moved(b, t) \in BookingRecord
    BY <1>0 DEF Moved, BookingRecord
  <2>2. /\ [Moved(b, t) EXCEPT !.checkedIn = FALSE] \in BookingRecord
        /\ [Moved(b, t) EXCEPT !.tableChange = FALSE] \in BookingRecord
    BY <2>1 DEF BookingRecord
  <2> QED BY <1>1, <2>1, <2>2
             DEF WaiterTransfer, TransferBooking, ApproveTableChange, TypeOK
<1>3. tableStatus' \in [Table -> TableStatuses]
  <2>1. CASE WaiterTransfer(b, t) \/ TransferBooking(b, t)
    BY <2>1, RepaintType DEF WaiterTransfer, TransferBooking
  <2>2. CASE ApproveTableChange(b, t)
    <3> DEFINE r == bookings[b]
               colour == IF r.status = "approved" THEN "reserved" ELSE "pending"
               old == Synchronized(IfToday(r.date, {r.table}), {})
               new == Painted({t}, r.date, colour)
    <3>1. tableStatus' = [old EXCEPT ![t] = new[t]]
      BY <2>2 DEF ApproveTableChange
    <3>2. colour \in TableStatuses
      BY DEF TableStatuses
    <3>3. old \in [Table -> TableStatuses]
      BY RepaintType
    <3>4. new \in [Table -> TableStatuses]
      <4> HIDE DEF colour
      <4> QED BY <3>2, RepaintType
    <3> HIDE DEF old, new
    <3> QED BY <3>1, <3>3, <3>4
  <2> QED BY <1>1, <2>1, <2>2
<1> QED BY <1>1, <1>2, <1>3
           DEF WaiterTransfer, TransferBooking, ApproveTableChange, TypeOK, rejections

LEMMA ExpireType ==
  ASSUME TypeOK, UNCHANGED rejections, Expire
  PROVE  TypeOK'
<1>1. bookings' \in [Booking -> BookingRecord]
  BY DEF Expire, TypeOK, BookingRecord, BookingStatuses
<1>2. tableStatus' \in [Table -> TableStatuses]
  BY RemainingType DEF Expire, AfterExpiry, TypeOK
<1> QED BY <1>1, <1>2 DEF Expire, TypeOK, rejections

\* Steps that touch no booking.
Surroundings == Unavailability \/ ByHand \/ Tick

LEMMA SurroundingsType ==
  ASSUME TypeOK, UNCHANGED rejections, Surroundings
  PROVE  TypeOK'
<1>1. CASE Unavailability
  <2>1. Day \subseteq Nat
    BY InputTypes
  <2> QED BY <1>1, <2>1, BookingsAssumption
             DEF Unavailability, CreateBlock, RemoveBlock, TypeOK, Block, rejections
<1>2. CASE ByHand
  <2>1. "occupied" \in TableStatuses
    BY DEF TableStatuses
  <2>2. StaffStatus \subseteq TableStatuses
    BY BookingsAssumption DEF TableStatuses
  <2> QED BY <1>2, <2>1, <2>2, RemainingByTableIdType
             DEF ByHand, SetStatus, WaiterOccupies, WaiterFrees, TypeOK, rejections
<1>3. CASE Tick
  BY <1>3, BookingsAssumption DEF Tick, TypeOK, Day, Time, rejections
<1> QED BY <1>1, <1>2, <1>3 DEF Surroundings

LEMMA ColumnsType ==
  ASSUME TypeOK, NEW b \in Booking
  PROVE  Columns(b) \in ColumnsRecord
<1>1. bookings[b] \in BookingRecord
  BY DEF TypeOK
<1> QED BY <1>1 DEF Columns, ColumnsRecord, BookingRecord

LEMMA RejectedType ==
  ASSUME TypeOK, NEW b \in Booking, NEW copy \in ColumnsRecord
  PROVE  RejectedWith(b, copy) \in BookingRecord
<1>1. bookings[b] \in BookingRecord
  BY DEF TypeOK
<1> QED BY <1>1 DEF RejectedWith, ColumnsRecord, BookingRecord

LEMMA RejectionType ==
  ASSUME TypeOK, NEW b \in Booking, Rejection(b)
  PROVE  TypeOK'
<1>1. CASE ReadForRejection(b)
  BY <1>1, ColumnsType DEF ReadForRejection, TypeOK
<1>2. CASE RejectTableChange(b)
  <2>1. rejecting[b] \in ColumnsRecord
    BY <1>2 DEF RejectTableChange, TypeOK
  <2>2. RejectedWith(b, rejecting[b]) \in BookingRecord
    BY <2>1, RejectedType
  <2> QED BY <1>2, <2>2 DEF RejectTableChange, TypeOK
<1>3. CASE RejectionFails(b)
  BY <1>3 DEF RejectionFails, TypeOK
<1> QED BY <1>1, <1>2, <1>3 DEF Rejection

LEMMA TypeInvariant ==
  ASSUME TypeOK, [Next]_vars
  PROVE  TypeOK'
<1>1. CASE UNCHANGED vars
  BY <1>1 DEF vars, rejections, TypeOK
<1>2. CASE OtherStep /\ UNCHANGED rejections
  BY <1>2, CreationType, DecisionType, TransferType, ExpireType, SurroundingsType
     DEF OtherStep, Surroundings
<1> QED BY <1>1, <1>2, RejectionType DEF Next

\* In every reachable state each variable has its type.
THEOREM TypeCorrect == Spec => []TypeOK
<1>1. Init => TypeOK
  BY InitType
<1>2. TypeOK /\ [Next]_vars => TypeOK'
  BY TypeInvariant
<1> QED BY <1>1, <1>2, PTL DEF Spec

-----------------------------------------------------------------------------
(* The four kinds of step *)

\* The invariants that speak of bookings alone.
BookInv == AssignmentsMatch /\ RequestsAreOnline /\ NoDoubleBooking /\ OneActivePerGuest

\* Slot, tables and guest of booking b stay.
SameSlot(b) ==
    /\ bookings'[b].date = bookings[b].date
    /\ bookings'[b].start = bookings[b].start
    /\ bookings'[b].duration = bookings[b].duration
    /\ bookings'[b].guest = bookings[b].guest
    /\ bookings'[b].online = bookings[b].online
SameTables(b) == /\ bookings'[b].table = bookings[b].table
                 /\ bookings'[b].assigned = bookings[b].assigned

\* Nothing is activated, unmade or moved, and a request is new only at an online
\* booking.
Quiet ==
    \A b \in Booking :
        /\ SameSlot(b) /\ SameTables(b)
        /\ Active(b)' => Active(b)
        /\ bookings'[b].status = "none" => bookings[b].status = "none"
        /\ bookings'[b].request \notin {NoRequest, bookings[b].request}
              => bookings[b].online

LEMMA QuietStep ==
  ASSUME BookInv, Quiet, overwritten' = overwritten
  PROVE  BookInv'
<1>1. AssignmentsMatch' /\ RequestsAreOnline'
  BY DEF BookInv, Quiet, SameSlot, SameTables, AssignmentsMatch, RequestsAreOnline
<1>2. \A a, b \in Booking : Clash(a, b)' => Clash(a, b)
  BY DEF Quiet, SameSlot, Clash
<1>3. \A b \in Booking : TablesOf(b)' = TablesOf(b)
  BY DEF Quiet, SameTables, TablesOf
<1>4. NoDoubleBooking'
  BY <1>2, <1>3 DEF BookInv, NoDoubleBooking, Quiet, SameSlot, SameTables
<1>5. OneActivePerGuest'
  BY DEF BookInv, OneActivePerGuest, Quiet, SameSlot
<1> QED BY <1>1, <1>4, <1>5 DEF BookInv

\* All bookings but b stay as they are.
OthersStay(b) == \A c \in Booking \ {b} : bookings'[c] = bookings[c]

LEMMA OthersKeepTheirs ==
  ASSUME NEW b \in Booking, OthersStay(b), NEW c \in Booking \ {b}
  PROVE  /\ Active(c)' <=> Active(c)
         /\ TablesOf(c)' = TablesOf(c)
  BY DEF OthersStay, Active, TablesOf

\* Overlap is symmetric.
LEMMA OverlapSymmetric ==
  ASSUME NEW s1, NEW l1, NEW s2, NEW l2
  PROVE  Overlap(s1, l1, s2, l2) <=> Overlap(s2, l2, s1, l1)
  BY DEF Overlap

\* A booking that clashes with b after the step occupies b's new slot before it.
LEMMA ClashOccupies ==
  ASSUME NEW b \in Booking, OthersStay(b), NEW c \in Booking,
         Clash(b, c)' \/ Clash(c, b)'
  PROVE  /\ c /= b
         /\ Occupies(c, bookings'[b].date, bookings'[b].start, bookings'[b].duration)
  BY OverlapSymmetric DEF Clash, Occupies, OthersStay, Active

\* One booking gets a new slot or new tables.  The step is harmless if the
\* booking is consistent in itself and clear of every booking that occupies the
\* new slot, up to the exception of NoDoubleBooking.
LEMMA OneBookingStep ==
  ASSUME BookInv, NEW b \in Booking, OthersStay(b), overwritten' = overwritten,
         b \in overwritten \/
           (bookings'[b].assigned /= {} => bookings'[b].table \in bookings'[b].assigned),
         b \in overwritten \/
           (bookings'[b].online => bookings'[b].assigned \subseteq {bookings'[b].table}),
         bookings'[b].request /= NoRequest => bookings'[b].online,
         b \in overwritten \/ \A c \in Booking \ {b} :
           Occupies(c, bookings'[b].date, bookings'[b].start, bookings'[b].duration)
             => \A t \in TablesOf(b)' \cap TablesOf(c) :
                  \/ /\ bookings'[b].online
                     /\ t = bookings'[b].table /\ t /= bookings[c].table
                  \/ /\ bookings[c].online
                     /\ t = bookings[c].table /\ t /= bookings'[b].table,
         bookings'[b].guest = NoGuest \/ GuestIsFree(b, bookings'[b].guest, bookings'[b].date)
  PROVE  BookInv'
<1>1. AssignmentsMatch' /\ RequestsAreOnline'
  BY DEF BookInv, OthersStay, AssignmentsMatch, RequestsAreOnline
<1>2. NoDoubleBooking'
  <2>1. SUFFICES ASSUME NEW a \in Booking \ overwritten,
                        NEW c \in Booking \ overwritten, Clash(a, c)',
                        NEW t \in TablesOf(a)' \cap TablesOf(c)'
                 PROVE  \/ /\ bookings'[a].online
                           /\ t = bookings'[a].table /\ t /= bookings'[c].table
                        \/ /\ bookings'[c].online
                           /\ t = bookings'[c].table /\ t /= bookings'[a].table
    BY DEF NoDoubleBooking
  <2>2. CASE a = b
    BY <2>1, <2>2, ClashOccupies, OthersKeepTheirs DEF OthersStay
  <2>3. CASE c = b
    BY <2>1, <2>3, ClashOccupies, OthersKeepTheirs DEF OthersStay
  <2>4. CASE a /= b /\ c /= b
    <3>1. Clash(a, c)
      BY <2>1, <2>4 DEF Clash, OthersStay, Active
    <3>2. t \in TablesOf(a) \cap TablesOf(c)
      BY <2>1, <2>4, OthersKeepTheirs
    <3> QED BY <2>4, <3>1, <3>2 DEF BookInv, NoDoubleBooking, OthersStay
  <2> QED BY <2>2, <2>3, <2>4
<1>3. OneActivePerGuest'
  BY DEF BookInv, OneActivePerGuest, OthersStay, GuestIsFree, Active
<1> QED BY <1>1, <1>2, <1>3 DEF BookInv

\* A new booking: every table it takes is free of conflicts.
LEMMA EntryStep ==
  ASSUME TypeOK, BookInv, overwritten' = overwritten,
         NEW b \in Booking, NEW status, NEW t \in Table,
         NEW T \in SUBSET Table, NEW day, NEW s, NEW len, NEW g, NEW online \in BOOLEAN,
         T = {} \/ (t \in T /\ ~online),
         \A u \in T \cup {t} : NoConflict(b, u, day, s, len),
         g = NoGuest \/ GuestIsFree(b, g, day),
         bookings' = [bookings EXCEPT
                        ![b] = Entry(status, t, T, day, s, len, g, online)]
  PROVE  BookInv'
<1>1. OthersStay(b)
  BY DEF OthersStay, TypeOK
<1>2. /\ bookings'[b].table = t /\ bookings'[b].assigned = T
      /\ bookings'[b].date = day /\ bookings'[b].start = s
      /\ bookings'[b].duration = len /\ bookings'[b].guest = g
      /\ bookings'[b].online = online /\ bookings'[b].request = NoRequest
  BY DEF Entry, Blank, TypeOK
<1>3. TablesOf(b)' \subseteq T \cup {t}
  BY <1>2 DEF TablesOf
<1>4. \A c \in Booking \ {b} : Occupies(c, day, s, len)
        => TablesOf(b)' \cap TablesOf(c) = {}
  BY <1>3 DEF NoConflict
<1> QED BY <1>1, <1>2, <1>4, OneBookingStep

LEMMA CreationStep ==
  ASSUME TypeOK, BookInv, overwritten' = overwritten, NEW b \in Booking, Creation(b)
  PROVE  BookInv'
<1>1. PICK day \in Day, s \in Openings, len \in Durations, t \in Table :
        \/ \E g \in Guest : Create(b, t, day, s, len, g)
        \/ \E g \in Guest \cup {NoGuest} : CreateManual(b, t, day, s, len, g)
        \/ \E T \in SUBSET Table, g \in Guest \cup {NoGuest} :
              CreateBanquet(b, t, T, day, s, len, g)
  BY DEF Creation
<1>2. ASSUME NEW g \in Guest, Create(b, t, day, s, len, g)
      PROVE  BookInv'
  <2>1. \A u \in {} \cup {t} : NoConflict(b, u, day, s, len)
    BY <1>2 DEF Create, Bookability
  <2>2. GuestIsFree(b, g, day)
    BY <1>2 DEF Create
  <2>3. bookings' = [bookings EXCEPT
                       ![b] = Entry("pending", t, {}, day, s, len, g, TRUE)]
    BY <1>2 DEF Create
  <2>4. {} \in SUBSET Table /\ TRUE \in BOOLEAN
    OBVIOUS
  <2> QED BY <2>1, <2>2, <2>3, <2>4, EntryStep
<1>3. ASSUME NEW g \in Guest \cup {NoGuest}, CreateManual(b, t, day, s, len, g)
      PROVE  BookInv'
  <2>1. \A u \in {} \cup {t} : NoConflict(b, u, day, s, len)
    BY <1>3 DEF CreateManual, Bookability
  <2>2. g = NoGuest \/ GuestIsFree(b, g, day)
    BY <1>3 DEF CreateManual
  <2>3. bookings' = [bookings EXCEPT
                       ![b] = Entry("approved", t, {}, day, s, len, g, FALSE)]
    BY <1>3 DEF CreateManual
  <2>4. {} \in SUBSET Table /\ FALSE \in BOOLEAN
    OBVIOUS
  <2> QED BY <2>1, <2>2, <2>3, <2>4, EntryStep
<1>4. ASSUME NEW T \in SUBSET Table, NEW g \in Guest \cup {NoGuest},
             CreateBanquet(b, t, T, day, s, len, g)
      PROVE  BookInv'
  <2>1. T \cup {t} = T
    BY <1>4 DEF CreateBanquet
  <2> QED BY <1>4, <2>1, EntryStep DEF CreateBanquet, Bookability
<1> QED BY <1>1, <1>2, <1>3, <1>4

\* A booking moves to another table that is clear at its slot.
LEMMA MoveStep ==
  ASSUME TypeOK, BookInv, overwritten' = overwritten,
         NEW b \in Booking, NEW t \in Table, Active(b),
         StaysClear(b, t), OthersStay(b), SameSlot(b),
         bookings'[b].table = t, bookings'[b].assigned = {t},
         bookings'[b].request = bookings[b].request
  PROVE  BookInv'
<1>1. TablesOf(b)' \subseteq {t}
  BY DEF TablesOf
<1>2. \A c \in Booking \ {b} :
        Occupies(c, bookings[b].date, bookings[b].start, bookings[b].duration)
          => TablesOf(b)' \cap TablesOf(c) = {}
  BY <1>1 DEF StaysClear, NoConflict
<1>3. bookings[b].guest = NoGuest \/ GuestIsFree(b, bookings[b].guest, bookings[b].date)
  BY DEF BookInv, OneActivePerGuest, GuestIsFree
<1>4. bookings[b].request /= NoRequest => bookings[b].online
  BY DEF BookInv, RequestsAreOnline
<1> QED BY <1>2, <1>3, <1>4, OneBookingStep DEF SameSlot

LEMMA TransferStep ==
  ASSUME TypeOK, BookInv, overwritten' = overwritten, NEW b \in Booking, Transfer(b)
  PROVE  BookInv'
<1>0. bookings[b] \in BookingRecord
  BY DEF TypeOK
<1>1. PICK t \in Table :
        WaiterTransfer(b, t) \/ TransferBooking(b, t) \/ ApproveTableChange(b, t)
  BY DEF Transfer
<1>2. Active(b) /\ StaysClear(b, t)
  BY <1>1 DEF WaiterTransfer, TransferBooking, ApproveTableChange, Active, ActiveStatuses
<1>3. OthersStay(b)
  BY <1>1 DEF WaiterTransfer, TransferBooking, ApproveTableChange, OthersStay, TypeOK
<1>4. \/ bookings'[b] = [Moved(b, t) EXCEPT !.checkedIn = FALSE]
      \/ bookings'[b] = Moved(b, t)
      \/ bookings'[b] = [Moved(b, t) EXCEPT !.tableChange = FALSE]
  BY <1>1 DEF WaiterTransfer, TransferBooking, ApproveTableChange, TypeOK
<1>5. Moved(b, t) \in BookingRecord
  BY <1>0 DEF Moved, BookingRecord
<1>6. /\ bookings'[b].date = Moved(b, t).date
      /\ bookings'[b].start = Moved(b, t).start
      /\ bookings'[b].duration = Moved(b, t).duration
      /\ bookings'[b].guest = Moved(b, t).guest
      /\ bookings'[b].online = Moved(b, t).online
      /\ bookings'[b].table = Moved(b, t).table
      /\ bookings'[b].assigned = Moved(b, t).assigned
      /\ bookings'[b].request = Moved(b, t).request
  <2>1. CASE bookings'[b] = [Moved(b, t) EXCEPT !.checkedIn = FALSE]
    BY <1>5, <2>1 DEF BookingRecord
  <2>2. CASE bookings'[b] = Moved(b, t)
    BY <2>2
  <2>3. CASE bookings'[b] = [Moved(b, t) EXCEPT !.tableChange = FALSE]
    BY <1>5, <2>3 DEF BookingRecord
  <2> QED BY <1>4, <2>1, <2>2, <2>3
<1>7. /\ Moved(b, t).date = bookings[b].date
      /\ Moved(b, t).start = bookings[b].start
      /\ Moved(b, t).duration = bookings[b].duration
      /\ Moved(b, t).guest = bookings[b].guest
      /\ Moved(b, t).online = bookings[b].online
      /\ Moved(b, t).request = bookings[b].request
      /\ Moved(b, t).table = t /\ Moved(b, t).assigned = {t}
  BY <1>0 DEF Moved, BookingRecord
<1> QED BY <1>2, <1>3, <1>6, <1>7, MoveStep DEF SameSlot

\* A booking moves to another time: only online bookings do, and they stand
\* for one table, so a conflict can only be with an assignment of the other.
LEMMA RescheduleStep ==
  ASSUME TypeOK, BookInv, overwritten' = overwritten,
         NEW b \in Booking, ApproveReschedule(b)
  PROVE  BookInv'
<1>0. bookings[b] \in BookingRecord
  BY DEF TypeOK
<1> DEFINE r == bookings[b]
           wanted == r.request
<1>1. OthersStay(b)
  BY DEF ApproveReschedule, OthersStay, TypeOK
<1>2. /\ SameTables(b)
      /\ bookings'[b].date = wanted.date /\ bookings'[b].start = wanted.start
      /\ bookings'[b].duration = r.duration /\ bookings'[b].guest = r.guest
      /\ bookings'[b].online = r.online /\ bookings'[b].request = NoRequest
  BY <1>0 DEF ApproveReschedule, SameTables, BookingRecord, TypeOK
<1>3. r.online /\ (b \in overwritten \/ r.assigned \subseteq {r.table})
  BY DEF ApproveReschedule, BookInv, RequestsAreOnline, AssignmentsMatch
<1>4. b \in overwritten \/ TablesOf(b)' \subseteq {r.table}
  BY <1>2, <1>3 DEF SameTables, TablesOf
<1>5. \A c \in Booking \ {b} : Occupies(c, wanted.date, wanted.start, r.duration)
        => bookings[c].table /= r.table
  BY DEF ApproveReschedule, NoConflictByTableId
<1>6. r.guest = NoGuest \/ GuestIsFree(b, r.guest, wanted.date)
  BY DEF ApproveReschedule
<1>7. b \in overwritten \/ (r.assigned /= {} => r.table \in r.assigned)
  BY DEF BookInv, AssignmentsMatch
<1> QED BY <1>1, <1>2, <1>3, <1>4, <1>5, <1>6, <1>7, OneBookingStep DEF SameTables

\* The steps that change a booking's status, marks or requests alone.
QuietAction(b) ==
    \/ Approve(b) \/ CheckIn(b) \/ Reject(b) \/ Cancel(b) \/ NoShow(b)
    \/ Complete(b) \/ RejectReschedule(b) \/ GuestAction(b) \/ AutoNoShow(b)

\* The record of b keeps slot and tables; see Quiet.
QuietRecord(b, r) ==
    /\ r.date = bookings[b].date /\ r.start = bookings[b].start
    /\ r.duration = bookings[b].duration /\ r.guest = bookings[b].guest
    /\ r.online = bookings[b].online
    /\ r.table = bookings[b].table /\ r.assigned = bookings[b].assigned
    /\ r.status \in ActiveStatuses => Active(b)
    /\ r.status = "none" => bookings[b].status = "none"
    /\ r.request \notin {NoRequest, bookings[b].request} => bookings[b].online

LEMMA QuietReplacement ==
  ASSUME TypeOK, NEW b \in Booking, NEW r, QuietRecord(b, r),
         bookings' = [bookings EXCEPT ![b] = r]
  PROVE  Quiet
<1>1. SUFFICES ASSUME NEW c \in Booking
               PROVE  /\ SameSlot(c) /\ SameTables(c)
                      /\ Active(c)' => Active(c)
                      /\ bookings'[c].status = "none" => bookings[c].status = "none"
                      /\ bookings'[c].request \notin {NoRequest, bookings[c].request}
                            => bookings[c].online
  BY DEF Quiet
<1>2. CASE c = b
  <2>1. bookings'[c] = r
    BY <1>2 DEF TypeOK
  <2> QED BY <1>2, <2>1 DEF QuietRecord, SameSlot, SameTables, Active
<1>3. CASE c /= b
  <2>1. bookings'[c] = bookings[c]
    BY <1>3 DEF TypeOK
  <2> QED BY <2>1 DEF SameSlot, SameTables, Active
<1> QED BY <1>2, <1>3

LEMMA QuietActions ==
  ASSUME TypeOK, NEW b \in Booking, QuietAction(b)
  PROVE  Quiet
<1>0. bookings[b] \in BookingRecord
  BY DEF TypeOK
<1>1. CASE Approve(b)
  <2>1. QuietRecord(b, [bookings[b] EXCEPT !.status = "approved"])
    BY <1>0, <1>1 DEF Approve, QuietRecord, BookingRecord, Active, ActiveStatuses
  <2> QED BY <1>1, <2>1, QuietReplacement DEF Approve
<1>2. CASE CheckIn(b)
  <2>1. QuietRecord(b, [bookings[b] EXCEPT !.status = "approved", !.checkedIn = TRUE])
    BY <1>0, <1>2 DEF CheckIn, QuietRecord, BookingRecord
  <2> QED BY <1>2, <2>1, QuietReplacement DEF CheckIn
<1>3. CASE Reject(b) \/ Cancel(b) \/ NoShow(b) \/ Complete(b) \/ AutoNoShow(b) \/ GuestCancel(b)
  <2>1. PICK status \in ClosedStatuses :
          bookings' = [bookings EXCEPT ![b] = [bookings[b] EXCEPT !.status = status]]
    BY <1>3 DEF Reject, Cancel, NoShow, Complete, Close, AutoNoShow, GuestCancel,
                ClosedStatuses
  <2>2. QuietRecord(b, [bookings[b] EXCEPT !.status = status])
    BY <1>0 DEF QuietRecord, BookingRecord, ClosedStatuses, ActiveStatuses
  <2> QED BY <2>1, <2>2, QuietReplacement
<1>4. CASE RequestTableChange(b)
  <2>1. QuietRecord(b, [bookings[b] EXCEPT !.tableChange = TRUE])
    BY <1>0 DEF QuietRecord, BookingRecord, Active
  <2> QED BY <1>4, <2>1, QuietReplacement DEF RequestTableChange
<1>5. CASE RejectReschedule(b)
  <2>1. QuietRecord(b, [bookings[b] EXCEPT !.request = NoRequest])
    BY <1>0, <1>5 DEF QuietRecord, BookingRecord, Active
  <2> QED BY <1>5, <2>1, QuietReplacement DEF RejectReschedule
<1>6. ASSUME NEW delay \in Delays, ReportLateness(b, delay)
      PROVE  Quiet
  <2> DEFINE arrival == bookings[b].start + delay
             wanted == [date  |-> bookings[b].date + arrival \div DayLen,
                        start |-> arrival % DayLen]
             r == [bookings[b] EXCEPT !.lateNoted = TRUE, !.request = wanted]
  <2>1. bookings[b].online /\ bookings' = [bookings EXCEPT ![b] = r]
    BY <1>6 DEF ReportLateness
  <2> HIDE DEF wanted
  <2>2. QuietRecord(b, r)
    BY <1>0, <2>1 DEF QuietRecord, BookingRecord, Active
  <2> QED BY <2>1, <2>2, QuietReplacement
<1>7. ASSUME NEW s \in Openings, RequestTimeChange(b, s)
      PROVE  Quiet
  <2> DEFINE wanted == [date |-> bookings[b].date, start |-> s]
             r == [bookings[b] EXCEPT !.request = wanted]
  <2>1. bookings[b].online /\ bookings' = [bookings EXCEPT ![b] = r]
    BY <1>7 DEF RequestTimeChange
  <2> HIDE DEF wanted
  <2>2. QuietRecord(b, r)
    BY <1>0, <2>1 DEF QuietRecord, BookingRecord, Active
  <2> QED BY <2>1, <2>2, QuietReplacement
<1> QED BY <1>1, <1>2, <1>3, <1>4, <1>5, <1>6, <1>7 DEF QuietAction, GuestAction

LEMMA QuietElsewhere ==
  ASSUME TypeOK, Surroundings \/ UNCHANGED vars
  PROVE  Quiet
<1>1. bookings' = bookings
  BY DEF Surroundings, Unavailability, ByHand, Tick, CreateBlock, RemoveBlock,
         SetStatus, WaiterOccupies, WaiterFrees, vars
<1> QED BY <1>1 DEF Quiet, SameSlot, SameTables, Active

LEMMA QuietExpiry ==
  ASSUME TypeOK, Expire
  PROVE  Quiet
<1>1. SUFFICES ASSUME NEW c \in Booking
               PROVE  /\ SameSlot(c) /\ SameTables(c)
                      /\ Active(c)' => Active(c)
                      /\ bookings'[c].status = "none" => bookings[c].status = "none"
                      /\ bookings'[c].request \notin {NoRequest, bookings[c].request}
                            => bookings[c].online
  BY DEF Quiet
<1>2. bookings[c] \in BookingRecord
  BY DEF TypeOK
<1>3. CASE c \in Expired
  <2>1. bookings'[c] = [bookings[c] EXCEPT !.status = "completed"]
    BY <1>3 DEF Expire
  <2> QED BY <1>2, <2>1 DEF BookingRecord, SameSlot, SameTables, Active, ActiveStatuses
<1>4. CASE c \notin Expired
  <2>1. bookings'[c] = bookings[c]
    BY <1>4 DEF Expire
  <2> QED BY <2>1 DEF SameSlot, SameTables, Active
<1> QED BY <1>3, <1>4

\* A rejection that reads or breaks off changes no booking; one that saves what
\* the row still holds is quiet.
LEMMA QuietRejection ==
  ASSUME TypeOK, NEW b \in Booking, Rejection(b), ~PutsBack(b)
  PROVE  Quiet /\ overwritten' = overwritten
<1>0. bookings[b] \in BookingRecord
  BY DEF TypeOK
<1>1. CASE ReadForRejection(b) \/ RejectionFails(b)
  <2>1. bookings' = bookings /\ overwritten' = overwritten
    BY <1>1 DEF ReadForRejection, RejectionFails
  <2> QED BY <2>1 DEF Quiet, SameSlot, SameTables, Active
<1>2. CASE RejectTableChange(b)
  <2>1. rejecting[b] = Columns(b) /\ overwritten' = overwritten
    BY <1>2 DEF RejectTableChange, PutsBack
  <2>2. bookings' = [bookings EXCEPT ![b] = RejectedWith(b, Columns(b))]
    BY <1>2, <2>1 DEF RejectTableChange
  <2>3. QuietRecord(b, RejectedWith(b, Columns(b)))
    BY <1>0 DEF QuietRecord, RejectedWith, Columns, BookingRecord, Active
  <2> QED BY <2>1, <2>2, <2>3, QuietReplacement
<1> QED BY <1>1, <1>2 DEF Rejection

\* A rejection that puts the booking back makes it one of the overwritten; its
\* guest keeps one booking of the date, by the unique indexes.
LEMMA PutBackStep ==
  ASSUME TypeOK, BookInv, NEW b \in Booking, PutsBack(b)
  PROVE  BookInv'
<1>0. bookings[b] \in BookingRecord
  BY DEF TypeOK
<1> DEFINE copy == rejecting[b]
<1>1. /\ overwritten' = overwritten \cup {b} /\ OthersStay(b)
      /\ bookings'[b] = RejectedWith(b, copy)
      /\ copy.status \in ActiveStatuses => GuestIsFree(b, bookings[b].guest, copy.date)
  BY DEF PutsBack, RejectTableChange, OthersStay, TypeOK
<1>2. /\ RejectedWith(b, copy).guest = bookings[b].guest
      /\ RejectedWith(b, copy).online = bookings[b].online
      /\ RejectedWith(b, copy).request = bookings[b].request
      /\ RejectedWith(b, copy).status = copy.status
      /\ RejectedWith(b, copy).date = copy.date
  BY <1>0 DEF RejectedWith, BookingRecord
<1> HIDE DEF copy
<1>3. AssignmentsMatch' /\ RequestsAreOnline'
  BY <1>1, <1>2 DEF BookInv, OthersStay, AssignmentsMatch, RequestsAreOnline
<1>4. NoDoubleBooking'
  <2>1. SUFFICES ASSUME NEW a \in Booking \ overwritten', NEW c \in Booking \ overwritten',
                        Clash(a, c)', NEW t \in TablesOf(a)' \cap TablesOf(c)'
                 PROVE  \/ /\ bookings'[a].online
                           /\ t = bookings'[a].table /\ t /= bookings'[c].table
                        \/ /\ bookings'[c].online
                           /\ t = bookings'[c].table /\ t /= bookings'[a].table
    BY DEF NoDoubleBooking
  <2>2. a /= b /\ c /= b /\ a \notin overwritten /\ c \notin overwritten
    BY <1>1
  <2>3. bookings'[a] = bookings[a] /\ bookings'[c] = bookings[c]
    BY <1>1, <2>2 DEF OthersStay
  <2>4. Clash(a, c) /\ t \in TablesOf(a) \cap TablesOf(c)
    BY <2>1, <2>2, <2>3 DEF Clash, Active, TablesOf
  <2> QED BY <2>2, <2>3, <2>4 DEF BookInv, NoDoubleBooking
<1>5. OneActivePerGuest'
  BY <1>1, <1>2 DEF BookInv, OneActivePerGuest, OthersStay, GuestIsFree, Active
<1> QED BY <1>3, <1>4, <1>5 DEF BookInv

-----------------------------------------------------------------------------
(* The invariant, and what follows from it *)

LEMMA InvariantInit ==
  ASSUME Init
  PROVE  IInv
<1>1. \A b \in Booking : bookings[b] = Blank
  BY DEF Init
<1>2. AssignmentsMatch /\ RequestsAreOnline
  BY <1>1 DEF AssignmentsMatch, RequestsAreOnline, Blank
<1>3. \A b \in Booking : ~Active(b)
  BY <1>1 DEF Active, ActiveStatuses, Blank
<1>4. NoDoubleBooking /\ OneActivePerGuest
  BY <1>3 DEF NoDoubleBooking, Clash, OneActivePerGuest
<1> QED BY <1>2, <1>4, InitType DEF IInv

LEMMA InvariantStep ==
  ASSUME IInv, [Next]_vars
  PROVE  IInv'
<1>0. TypeOK /\ BookInv
  BY DEF IInv, BookInv
<1>1. TypeOK'
  BY <1>0, TypeInvariant
<1>2. ASSUME NEW b \in Booking, Rejection(b)
      PROVE  BookInv'
  BY <1>0, <1>2, QuietRejection, QuietStep, PutBackStep
<1>3. ASSUME OtherStep \/ UNCHANGED vars, overwritten' = overwritten
      PROVE  BookInv'
  <2>1. ASSUME Surroundings \/ UNCHANGED vars
        PROVE  BookInv'
    BY <1>0, <1>3, <2>1, QuietElsewhere, QuietStep
  <2>2. ASSUME Expire
        PROVE  BookInv'
    BY <1>0, <1>3, <2>2, QuietExpiry, QuietStep
  <2>3. ASSUME NEW b \in Booking, Creation(b)
        PROVE  BookInv'
    BY <1>0, <1>3, <2>3, CreationStep
  <2>4. ASSUME NEW b \in Booking, Transfer(b)
        PROVE  BookInv'
    BY <1>0, <1>3, <2>4, TransferStep
  <2>5. ASSUME NEW b \in Booking, ApproveReschedule(b)
        PROVE  BookInv'
    BY <1>0, <1>3, <2>5, RescheduleStep
  <2>6. ASSUME NEW b \in Booking, QuietAction(b)
        PROVE  BookInv'
    BY <1>0, <1>3, <2>6, QuietActions, QuietStep
  <2> QED BY <1>3, <2>1, <2>2, <2>3, <2>4, <2>5, <2>6
             DEF OtherStep, Surroundings, QuietAction, Decision
<1>4. BookInv'
  <2>1. CASE UNCHANGED vars
    BY <1>3, <2>1 DEF vars, rejections
  <2>2. CASE OtherStep /\ UNCHANGED rejections
    BY <1>3, <2>2 DEF rejections
  <2> QED BY <1>2, <2>1, <2>2 DEF Next
<1> QED BY <1>1, <1>4 DEF IInv, BookInv

\* The inductive invariant holds in every reachable state.
THEOREM Invariance == Spec => []IInv
<1>1. Init => IInv
  BY InvariantInit
<1>2. IInv /\ [Next]_vars => IInv'
  BY InvariantStep
<1> QED BY <1>1, <1>2, PTL DEF Spec

\* Whichever mix of creations, transfers and reschedulings happened, visits
\* that overlap share no table, up to the exception of NoDoubleBooking.
THEOREM NeverDoubleBooked == Spec => []NoDoubleBooking
<1>1. IInv => NoDoubleBooking
  BY DEF IInv
<1> QED BY <1>1, Invariance, PTL

\* No guest ever has two active bookings of one date.
THEOREM NeverTwicePerGuest == Spec => []OneActivePerGuest
<1>1. IInv => OneActivePerGuest
  BY DEF IInv
<1> QED BY <1>1, Invariance, PTL

\* The table of a booking and its assignments never disagree.
THEOREM AssignmentsAlwaysMatch == Spec => []AssignmentsMatch
<1>1. IInv => AssignmentsMatch
  BY DEF IInv
<1> QED BY <1>1, Invariance, PTL

LEMMA ClosedStep ==
  ASSUME IInv, [Next]_vars, NEW b \in Booking, bookings[b].status \in ClosedStatuses
  PROVE  \/ bookings'[b].status \in ClosedStatuses
         \/ PutsBack(b) /\ rejecting[b].status \notin ClosedStatuses
<1>0. TypeOK /\ TypeOK'
  BY TypeInvariant DEF IInv
<1>1. ~Active(b) /\ bookings[b].status /= "none"
  BY DEF Active, ActiveStatuses, ClosedStatuses
<1>2. ASSUME Quiet PROVE bookings'[b].status \in ClosedStatuses
  <2>1. bookings'[b].status \in BookingStatuses
    BY <1>0 DEF TypeOK, BookingRecord
  <2>2. bookings'[b].status \notin ActiveStatuses /\ bookings'[b].status /= "none"
    BY <1>1, <1>2 DEF Quiet, Active
  <2> QED BY <2>1, <2>2 DEF BookingStatuses, ActiveStatuses, ClosedStatuses
<1>3. ASSUME NEW c \in Booking, Creation(c) \/ Transfer(c) \/ ApproveReschedule(c)
      PROVE  bookings'[b].status \in ClosedStatuses
  <2>1. CASE Creation(c)
    <3>1. PICK day \in Day, s \in Openings, len \in Durations, t \in Table :
            \/ \E g \in Guest : Create(c, t, day, s, len, g)
            \/ \E g \in Guest \cup {NoGuest} : CreateManual(c, t, day, s, len, g)
            \/ \E T \in SUBSET Table, g \in Guest \cup {NoGuest} :
                  CreateBanquet(c, t, T, day, s, len, g)
      BY <2>1 DEF Creation
    <3>2. bookings[c].status = "none"
      BY <3>1 DEF Create, CreateManual, CreateBanquet
    <3>3. \E r : bookings' = [bookings EXCEPT ![c] = r]
      BY <3>1 DEF Create, CreateManual, CreateBanquet
    <3> QED BY <1>0, <1>1, <3>2, <3>3 DEF TypeOK
  <2>2. CASE Transfer(c)
    <3>1. PICK t \in Table :
            WaiterTransfer(c, t) \/ TransferBooking(c, t) \/ ApproveTableChange(c, t)
      BY <2>2 DEF Transfer
    <3>2. Active(c)
      BY <3>1 DEF WaiterTransfer, TransferBooking, ApproveTableChange,
                  Active, ActiveStatuses
    <3>3. \E r : bookings' = [bookings EXCEPT ![c] = r]
      BY <3>1 DEF WaiterTransfer, TransferBooking, ApproveTableChange
    <3> QED BY <1>0, <1>1, <3>2, <3>3 DEF TypeOK
  <2>3. CASE ApproveReschedule(c)
    <3>1. c /= b
      BY <1>1, <2>3 DEF ApproveReschedule
    <3>2. bookings'[b] = bookings[b]
      BY <1>0, <2>3, <3>1 DEF ApproveReschedule, TypeOK
    <3> QED BY <3>2
  <2> QED BY <1>3, <2>1, <2>2, <2>3
<1>4. ASSUME NEW c \in Booking, QuietAction(c)
      PROVE  bookings'[b].status \in ClosedStatuses
  BY <1>0, <1>2, <1>4, QuietActions
<1>5. ASSUME Surroundings \/ UNCHANGED vars \/ Expire
      PROVE  bookings'[b].status \in ClosedStatuses
  BY <1>0, <1>2, <1>5, QuietElsewhere, QuietExpiry
<1>6. ASSUME NEW c \in Booking, Rejection(c)
      PROVE  \/ bookings'[b].status \in ClosedStatuses
             \/ PutsBack(b) /\ rejecting[b].status \notin ClosedStatuses
  <2>1. CASE ~PutsBack(c)
    BY <1>0, <1>2, <1>6, <2>1, QuietRejection
  <2>2. CASE PutsBack(c) /\ c /= b
    <3>1. bookings'[b] = bookings[b]
      BY <1>0, <2>2 DEF PutsBack, RejectTableChange, TypeOK
    <3> QED BY <3>1
  <2>3. CASE PutsBack(c) /\ c = b
    <3>1. bookings[b] \in BookingRecord /\ bookings'[b] = RejectedWith(b, rejecting[b])
      BY <1>0, <2>3 DEF PutsBack, RejectTableChange, TypeOK
    <3>2. RejectedWith(b, rejecting[b]).status = rejecting[b].status
      BY <3>1 DEF RejectedWith, BookingRecord
    <3> QED BY <2>3, <3>1, <3>2
  <2> QED BY <2>1, <2>2, <2>3
<1> QED BY <1>3, <1>4, <1>5, <1>6
           DEF Next, OtherStep, Surroundings, QuietAction, Decision

\* No step, of staff, guests or the jobs, makes a closed booking active again,
\* except the save of a rejected table change that read it while it was open.
THEOREM ClosedForGood == Spec => ClosedIsFinal
<1>1. IInv /\ [Next]_vars =>
        [\A b \in Booking : bookings[b].status \in ClosedStatuses =>
            \/ bookings'[b].status \in ClosedStatuses
            \/ PutsBack(b) /\ rejecting[b].status \notin ClosedStatuses]_vars
  BY ClosedStep
<1> QED BY <1>1, Invariance, PTL DEF Spec, ClosedIsFinal

-----------------------------------------------------------------------------
(* Action properties *)

\* What the three ways to create a booking have in common.
Made(b, t, T, day, s, len) ==
    /\ bookings[b].status = "none"
    /\ \A u \in T \cup {t} : ~Blocked(u, day, s, len)
    /\ \E status, g, online : bookings' =
          [bookings EXCEPT ![b] = Entry(status, t, T, day, s, len, g, online)]
    /\ \E colour \in {"pending", "reserved"} :
          tableStatus' = Painted(T \cup {t}, day, colour)
    /\ UNCHANGED <<blocks, today, clock>>

LEMMA CreationMakes ==
  ASSUME NEW b \in Booking, Creation(b)
  PROVE  \E t, T, day, s, len : Made(b, t, T, day, s, len)
<1>1. PICK day \in Day, s \in Openings, len \in Durations, t \in Table :
        \/ \E g \in Guest : Create(b, t, day, s, len, g)
        \/ \E g \in Guest \cup {NoGuest} : CreateManual(b, t, day, s, len, g)
        \/ \E T \in SUBSET Table, g \in Guest \cup {NoGuest} :
              CreateBanquet(b, t, T, day, s, len, g)
  BY DEF Creation
<1>2. {} \cup {t} = {t}
  OBVIOUS
<1>3. ASSUME NEW g, Create(b, t, day, s, len, g)
      PROVE  Made(b, t, {}, day, s, len)
  <2>1. ~Blocked(t, day, s, len)
    BY <1>3 DEF Create, Bookability
  <2> QED BY <1>2, <1>3, <2>1 DEF Create, Made
<1>4. ASSUME NEW g, CreateManual(b, t, day, s, len, g)
      PROVE  Made(b, t, {}, day, s, len)
  <2>1. ~Blocked(t, day, s, len)
    BY <1>4 DEF CreateManual, Bookability
  <2> QED BY <1>2, <1>4, <2>1 DEF CreateManual, Made
<1>5. ASSUME NEW T, NEW g, CreateBanquet(b, t, T, day, s, len, g)
      PROVE  Made(b, t, T, day, s, len)
  <2>1. T \cup {t} = T
    BY <1>5 DEF CreateBanquet
  <2>2. \A u \in T : ~Blocked(u, day, s, len)
    BY <1>5 DEF CreateBanquet, Bookability
  <2> QED BY <1>5, <2>1, <2>2 DEF CreateBanquet, Made
<1> QED BY <1>1, <1>3, <1>4, <1>5

\* Every step of one booking leaves the others as they are.
LEMMA OneAtATime ==
  ASSUME TypeOK, NEW c \in Booking,
         Creation(c) \/ Decision(c) \/ Transfer(c) \/ GuestAction(c) \/ AutoNoShow(c)
  PROVE  OthersStay(c) /\ UNCHANGED <<blocks, today, clock>>
<1>1. (\E r : bookings' = [bookings EXCEPT ![c] = r]) /\ UNCHANGED <<blocks, today, clock>>
  <2>1. CASE Creation(c)
    BY <2>1, CreationMakes DEF Made
  <2>2. CASE Approve(c) \/ CheckIn(c) \/ RejectReschedule(c)
    BY <2>2 DEF Approve, CheckIn, RejectReschedule
  <2>3. CASE Reject(c) \/ Cancel(c) \/ NoShow(c) \/ Complete(c) \/ AutoNoShow(c)
    BY <2>3 DEF Reject, Cancel, NoShow, Complete, AutoNoShow, Close
  <2>4. CASE ApproveReschedule(c)
    BY <2>4 DEF ApproveReschedule
  <2>5. CASE Transfer(c)
    BY <2>5 DEF Transfer, WaiterTransfer, TransferBooking, ApproveTableChange
  <2>6. CASE RequestTableChange(c) \/ GuestCancel(c)
    BY <2>6 DEF RequestTableChange, GuestCancel
  <2>7. CASE \E delay \in Delays : ReportLateness(c, delay)
    BY <2>7 DEF ReportLateness
  <2>8. CASE \E s \in Openings : RequestTimeChange(c, s)
    BY <2>8 DEF RequestTimeChange
  <2> QED BY <2>1, <2>2, <2>3, <2>4, <2>5, <2>6, <2>7, <2>8 DEF Decision, GuestAction
<1> QED BY <1>1 DEF OthersStay, TypeOK

\* What the step must do to an arrived booking.
Undisturbed(b) ==
    /\ bookings'[b].date = bookings[b].date
    /\ bookings'[b].start = bookings[b].start
    /\ bookings'[b].table /= bookings[b].table
        => \E t \in Table : WaiterTransfer(b, t) \/ TransferBooking(b, t)
    /\ bookings'[b].status \notin ActiveStatuses /\ bookings[b].date >= today
        => Reject(b) \/ Cancel(b) \/ Complete(b)

\* Most handlers ask first whether the guests have arrived; the rest end the
\* visit, move it by staff's hand or touch other fields.
LEMMA ArrivedStep ==
  ASSUME IInv, [Next]_vars, NEW b \in Booking, Arrived(b), ~PutsBack(b)
  PROVE  Undisturbed(b)
<1>0. TypeOK /\ bookings[b] \in BookingRecord
  BY DEF IInv, TypeOK
<1>1. Active(b) /\ bookings[b].checkedIn /\ bookings[b].status \in ActiveStatuses
  BY DEF Arrived, Active
<1>2. ASSUME bookings'[b] = bookings[b]
      PROVE  Undisturbed(b)
  BY <1>1, <1>2 DEF Undisturbed
<1>3. CASE Surroundings \/ UNCHANGED vars
  <2>1. bookings' = bookings
    BY <1>3 DEF Surroundings, Unavailability, ByHand, Tick, CreateBlock, RemoveBlock,
                SetStatus, WaiterOccupies, WaiterFrees, vars
  <2> QED BY <2>1, <1>2
<1>4. CASE Expire
  <2>1. CASE b \in Expired
    <3>1. bookings'[b] = [bookings[b] EXCEPT !.status = "completed"]
      BY <1>4, <2>1 DEF Expire
    <3>2. bookings[b].date \in Nat /\ today \in Nat
      BY <1>0, InputTypes DEF BookingRecord, TypeOK
    <3>3. ~(bookings[b].date >= today)
      BY <2>1, <3>2 DEF Expired
    <3> QED BY <1>0, <3>1, <3>3 DEF Undisturbed, BookingRecord
  <2>2. CASE b \notin Expired
    <3>1. bookings'[b] = bookings[b]
      BY <1>4, <2>2 DEF Expire
    <3> QED BY <3>1, <1>2
  <2> QED BY <2>1, <2>2
<1>5. ASSUME NEW c \in Booking \ {b},
             Creation(c) \/ Decision(c) \/ Transfer(c) \/ GuestAction(c) \/ AutoNoShow(c)
      PROVE  Undisturbed(b)
  <2>1. bookings'[b] = bookings[b]
    BY <1>0, <1>5, OneAtATime DEF OthersStay
  <2> QED BY <2>1, <1>2
<1>6. ~Creation(b) /\ ~GuestAction(b) /\ ~AutoNoShow(b)
  <2>1. ~Creation(b)
    BY <1>1, CreationMakes DEF Made, ActiveStatuses
  <2>2. ~GuestAction(b)
    BY <1>1 DEF GuestAction, RequestTableChange, GuestCancel, ReportLateness,
                RequestTimeChange
  <2>3. ~AutoNoShow(b)
    BY <1>1 DEF AutoNoShow
  <2> QED BY <2>1, <2>2, <2>3
<1>7. CASE Decision(b)
  <2>1. ~NoShow(b) /\ ~ApproveReschedule(b)
    BY <1>1 DEF NoShow, ApproveReschedule
  <2>2. CASE Approve(b) \/ CheckIn(b)
    <3>1. \/ bookings'[b] = [bookings[b] EXCEPT !.status = "approved"]
          \/ bookings'[b] = [bookings[b] EXCEPT !.status = "approved", !.checkedIn = TRUE]
      BY <1>0, <2>2 DEF Approve, CheckIn, TypeOK
    <3> QED BY <1>0, <3>1 DEF Undisturbed, BookingRecord, ActiveStatuses
  <2>3. CASE Reject(b) \/ Cancel(b) \/ Complete(b)
    <3>1. PICK status : bookings'[b] = [bookings[b] EXCEPT !.status = status]
      BY <1>0, <2>3 DEF Reject, Cancel, Complete, Close, TypeOK
    <3> QED BY <1>0, <2>3, <3>1 DEF Undisturbed, BookingRecord
  <2>4. CASE RejectReschedule(b)
    <3>1. bookings'[b] = [bookings[b] EXCEPT !.request = NoRequest]
      BY <1>0, <2>4 DEF RejectReschedule, TypeOK
    <3> QED BY <1>0, <1>1, <3>1 DEF Undisturbed, BookingRecord
  <2> QED BY <1>7, <2>1, <2>2, <2>3, <2>4 DEF Decision
<1>8. CASE Transfer(b)
  <2>1. PICK t \in Table :
          WaiterTransfer(b, t) \/ TransferBooking(b, t) \/ ApproveTableChange(b, t)
    BY <1>8 DEF Transfer
  <2>2. WaiterTransfer(b, t) \/ TransferBooking(b, t)
    BY <1>1, <2>1 DEF ApproveTableChange
  <2>3. \/ bookings'[b] = [Moved(b, t) EXCEPT !.checkedIn = FALSE]
        \/ bookings'[b] = Moved(b, t)
    BY <1>0, <2>2 DEF WaiterTransfer, TransferBooking, TypeOK
  <2>4. Moved(b, t) \in BookingRecord
    BY <1>0 DEF Moved, BookingRecord
  <2>5. /\ bookings'[b].date = Moved(b, t).date
        /\ bookings'[b].start = Moved(b, t).start
        /\ bookings'[b].status = Moved(b, t).status
    BY <2>3, <2>4 DEF BookingRecord
  <2>6. /\ Moved(b, t).date = bookings[b].date
        /\ Moved(b, t).start = bookings[b].start
        /\ Moved(b, t).status = bookings[b].status
    BY <1>0 DEF Moved, BookingRecord
  <2> QED BY <1>1, <2>2, <2>5, <2>6 DEF Undisturbed
<1>9. CASE \E c \in Booking : Rejection(c)
  <2>1. PICK c \in Booking : Rejection(c)
    BY <1>9
  <2>2. CASE ReadForRejection(c) \/ RejectionFails(c)
    BY <1>2, <2>2 DEF ReadForRejection, RejectionFails
  <2>3. CASE RejectTableChange(c) /\ c /= b
    BY <1>0, <1>2, <2>3 DEF RejectTableChange, TypeOK
  <2>4. CASE RejectTableChange(c) /\ c = b
    <3>1. bookings'[b] = RejectedWith(b, Columns(b))
      BY <1>0, <2>4 DEF RejectTableChange, PutsBack, TypeOK
    <3>2. /\ RejectedWith(b, Columns(b)).date = bookings[b].date
          /\ RejectedWith(b, Columns(b)).start = bookings[b].start
          /\ RejectedWith(b, Columns(b)).table = bookings[b].table
          /\ RejectedWith(b, Columns(b)).status = bookings[b].status
      BY <1>0 DEF RejectedWith, Columns, BookingRecord
    <3> QED BY <1>1, <3>1, <3>2 DEF Undisturbed
  <2> QED BY <2>1, <2>2, <2>3, <2>4 DEF Rejection
<1> QED BY <1>3, <1>4, <1>5, <1>6, <1>7, <1>8, <1>9 DEF Next, OtherStep, Surroundings

\* Once guests have arrived, only staff moves or ends their visit of the day,
\* whatever they had asked for before and whenever the jobs run, save for a
\* rejected table change that puts back an older copy.
THEOREM ArrivedStayUndisturbed == Spec => ArrivedUndisturbed
<1>1. IInv /\ [Next]_vars =>
        [\A b \in Booking : Arrived(b) /\ ~PutsBack(b) =>
            /\ bookings'[b].date = bookings[b].date
            /\ bookings'[b].start = bookings[b].start
            /\ bookings'[b].table /= bookings[b].table
                => \E t \in Table : WaiterTransfer(b, t) \/ TransferBooking(b, t)
            /\ bookings'[b].status \notin ActiveStatuses /\ bookings[b].date >= today
                => Reject(b) \/ Cancel(b) \/ Complete(b)]_vars
  BY ArrivedStep DEF Undisturbed
<1> QED BY <1>1, Invariance, PTL DEF Spec, ArrivedUndisturbed

-----------------------------------------------------------------------------
(* Planned unavailability *)

\* A quiet step puts no booking inside an unavailability that was planned.
LEMMA QuietInside ==
  ASSUME Quiet, NEW b \in Booking, NEW x, Inside(b, x)'
  PROVE  Inside(b, x)
<1>1. TablesOf(b)' = TablesOf(b)
  BY DEF Quiet, SameTables, TablesOf
<1> QED BY <1>1 DEF Quiet, SameSlot, Inside

\* A slot that is clear of the blocks at every table of the booking.
LEMMA ClearOfBlocks ==
  ASSUME NEW b \in Booking, NEW x \in blocks, NEW T,
         TablesOf(b)' \subseteq T,
         \A u \in T : ~Blocked(u, bookings'[b].date, bookings'[b].start,
                                  bookings'[b].duration)
  PROVE  ~Inside(b, x)'
BY DEF Blocked, Inside

LEMMA OutsideStep ==
  ASSUME IInv, [Next]_vars, NEW b \in Booking, NEW x \in blocks',
         Inside(b, x)', ~(x \in blocks /\ Inside(b, x)), b \notin overwritten'
  PROVE  \E t \in Table : WaiterTransfer(b, t)
<1>0. TypeOK /\ bookings[b] \in BookingRecord
  BY DEF IInv, TypeOK
<1>1. CASE UNCHANGED vars \/ ByHand \/ Tick \/ (\E y \in blocks : RemoveBlock(y))
  <2>1. Quiet
    BY <1>0, <1>1, QuietElsewhere DEF Surroundings, Unavailability
  <2>2. blocks' \subseteq blocks
    BY <1>1 DEF vars, ByHand, SetStatus, WaiterOccupies, WaiterFrees, Tick, RemoveBlock
  <2> QED BY <2>1, <2>2, QuietInside
<1>2. CASE \E T \in Targets, day \in Day, span \in Spans : CreateBlock(T, day, span)
  <2>1. PICK T \in Targets, day \in Day, span \in Spans : CreateBlock(T, day, span)
    BY <1>2
  <2>2. Quiet
    BY <1>0, <1>2, QuietElsewhere DEF Surroundings, Unavailability
  <2>3. Inside(b, x)
    BY <2>2, QuietInside
  <2>4. x = [tables |-> T, date |-> day, from |-> span[1], to |-> span[2]]
    BY <2>1, <2>3 DEF CreateBlock
  <2>5. TablesOf(b) \cap T = {}
    BY <2>1, <2>3, <2>4 DEF CreateBlock, Inside
  <2> QED BY <2>3, <2>4, <2>5 DEF Inside
<1>3. CASE Expire
  BY <1>0, <1>3, QuietExpiry, QuietInside DEF Expire
<1>4. ASSUME NEW c \in Booking, QuietAction(c)
      PROVE  FALSE
  <2>1. blocks' = blocks
    BY <1>0, <1>4, OneAtATime DEF QuietAction, Decision
  <2> QED BY <1>0, <1>4, <2>1, QuietActions, QuietInside
<1>5. ASSUME NEW c \in Booking, Creation(c) \/ Transfer(c) \/ ApproveReschedule(c)
      PROVE  c = b /\ blocks' = blocks
  <2>1. OthersStay(c) /\ blocks' = blocks
    BY <1>0, <1>5, OneAtATime DEF Decision
  <2>2. ASSUME c /= b PROVE FALSE
    BY <2>1, <2>2 DEF OthersStay, Inside, Active, TablesOf
  <2> QED BY <2>1, <2>2
<1>6. ASSUME Creation(b)
      PROVE  FALSE
  <2>0. x \in blocks
    BY <1>5, <1>6
  <2>1. PICK t, T, day, s, len : Made(b, t, T, day, s, len)
    BY <1>6, CreationMakes
  <2>2. PICK status, g, online :
          /\ bookings'[b] = Entry(status, t, T, day, s, len, g, online)
          /\ \A u \in T \cup {t} : ~Blocked(u, day, s, len)
    BY <1>0, <2>1 DEF Made, TypeOK
  <2>3. /\ bookings'[b].table = t /\ bookings'[b].assigned = T
        /\ bookings'[b].date = day /\ bookings'[b].start = s
        /\ bookings'[b].duration = len
    BY <2>2 DEF Entry, Blank
  <2>4. TablesOf(b)' \subseteq T \cup {t}
    BY <2>3 DEF TablesOf
  <2> QED BY <2>0, <2>2, <2>3, <2>4, ClearOfBlocks
<1>7. ASSUME Transfer(b)
      PROVE  \E t \in Table : WaiterTransfer(b, t)
  <2>0. x \in blocks
    BY <1>5, <1>7
  <2>1. PICK t \in Table :
          WaiterTransfer(b, t) \/ TransferBooking(b, t) \/ ApproveTableChange(b, t)
    BY <1>7 DEF Transfer
  <2>2. ASSUME TransferBooking(b, t) \/ ApproveTableChange(b, t)
        PROVE  FALSE
    <3>1. ~Blocked(t, bookings[b].date, bookings[b].start, bookings[b].duration)
      BY <2>2 DEF TransferBooking, ApproveTableChange
    <3>2. \/ bookings'[b] = Moved(b, t)
          \/ bookings'[b] = [Moved(b, t) EXCEPT !.tableChange = FALSE]
      BY <1>0, <2>2 DEF TransferBooking, ApproveTableChange, TypeOK
    <3>3. Moved(b, t) \in BookingRecord
      BY <1>0 DEF Moved, BookingRecord
    <3>4. /\ bookings'[b].date = Moved(b, t).date
          /\ bookings'[b].start = Moved(b, t).start
          /\ bookings'[b].duration = Moved(b, t).duration
          /\ bookings'[b].table = Moved(b, t).table
          /\ bookings'[b].assigned = Moved(b, t).assigned
      BY <3>2, <3>3 DEF BookingRecord
    <3>5. /\ Moved(b, t).date = bookings[b].date
          /\ Moved(b, t).start = bookings[b].start
          /\ Moved(b, t).duration = bookings[b].duration
          /\ Moved(b, t).table = t /\ Moved(b, t).assigned = {t}
      BY <1>0 DEF Moved, BookingRecord
    <3>6. TablesOf(b)' \subseteq {t}
      BY <3>4, <3>5 DEF TablesOf
    <3>7. \A u \in {t} : ~Blocked(u, bookings'[b].date, bookings'[b].start,
                                     bookings'[b].duration)
      BY <3>1, <3>4, <3>5
    <3> QED BY <2>0, <3>6, <3>7, ClearOfBlocks
  <2> QED BY <2>1, <2>2
<1>8. ASSUME ApproveReschedule(b), b \notin overwritten
      PROVE  FALSE
  <2> DEFINE r == bookings[b]
             wanted == r.request
  <2>0. x \in blocks
    BY <1>5, <1>8
  <2>1. /\ bookings'[b].date = wanted.date /\ bookings'[b].start = wanted.start
        /\ bookings'[b].duration = r.duration
        /\ bookings'[b].table = r.table /\ bookings'[b].assigned = r.assigned
    BY <1>0, <1>8 DEF ApproveReschedule, BookingRecord, TypeOK
  <2>2. r.assigned \subseteq {r.table}
    BY <1>8 DEF ApproveReschedule, IInv, RequestsAreOnline, AssignmentsMatch
  <2>3. TablesOf(b)' \subseteq {r.table}
    BY <2>1, <2>2 DEF TablesOf
  <2>4. \A u \in {r.table} : ~Blocked(u, wanted.date, wanted.start, r.duration)
    BY <1>8 DEF ApproveReschedule
  <2>5. \A u \in {r.table} : ~Blocked(u, bookings'[b].date, bookings'[b].start,
                                         bookings'[b].duration)
    BY <2>1, <2>4
  <2> HIDE DEF r, wanted
  <2> QED BY <2>0, <2>3, <2>5, ClearOfBlocks
<1>9. ASSUME NEW c \in Booking, Rejection(c)
      PROVE  FALSE
  <2>0. x \in blocks
    BY <1>9 DEF Rejection, ReadForRejection, RejectTableChange, RejectionFails
  <2>1. CASE ~PutsBack(c)
    BY <1>0, <1>9, <2>0, <2>1, QuietRejection, QuietInside
  <2>2. CASE PutsBack(c) /\ c /= b
    <3>1. bookings'[b] = bookings[b]
      BY <1>0, <2>2 DEF PutsBack, RejectTableChange, TypeOK
    <3> QED BY <2>0, <3>1 DEF Inside, Active, TablesOf
  <2>3. CASE PutsBack(c) /\ c = b
    <3>1. b \in overwritten'
      BY <2>3 DEF PutsBack, RejectTableChange
    <3> QED BY <3>1
  <2> QED BY <2>1, <2>2, <2>3
<1>10. CASE OtherStep /\ UNCHANGED rejections
  <2>1. b \notin overwritten
    BY <1>10 DEF rejections
  <2> QED BY <1>1, <1>2, <1>3, <1>4, <1>5, <1>6, <1>7, <1>8, <1>10, <2>1
             DEF OtherStep, Unavailability, QuietAction, Decision
<1> QED BY <1>1, <1>9, <1>10 DEF Next

\* Whatever is created, moved or rescheduled, only a waiter puts guests inside
\* a planned unavailability, and none is planned over a booking, up to those
\* that a rejected table change has put back.
THEOREM OnlyWaitersOverlook == Spec => UnavailableStaysEmpty
<1>1. IInv /\ [Next]_vars =>
        [\A b \in Booking : \A x \in blocks' :
            Inside(b, x)' /\ ~(x \in blocks /\ Inside(b, x)) /\ b \notin overwritten'
                => \E t \in Table : WaiterTransfer(b, t)]_vars
  BY OutsideStep
<1> QED BY <1>1, Invariance, PTL DEF Spec, UnavailableStaysEmpty

-----------------------------------------------------------------------------
(* Tables that are set free *)

\* A table for which a booking of today stands after the step is not
\* recomputed to "free".
LEMMA HeldIsNotFree ==
  ASSUME NEW t \in Table, HeldToday(t)'
  PROVE  Remaining(t)' /= "free"
<1>1. (Claimed(t, "approved") \/ Claimed(t, "pending"))'
  BY DEF HeldToday, Claimed, Active, ActiveStatuses
<1> QED BY <1>1 DEF Remaining

LEMMA RepaintKeepsHeld ==
  ASSUME NEW t \in Table, HeldToday(t)', tableStatus[t] /= "free"
  PROVE  /\ \A T, R : Synchronized(T, R)[t] /= "free"
         /\ \A T, d, s : s /= "free" => Painted(T, d, s)[t] /= "free"
BY HeldIsNotFree DEF Synchronized, Painted

\* The staff's and guest's ways to free a table that look at bookings.table_id.
Overlooks(t) ==
    /\ ~\E b \in Booking :
          Active(b)' /\ bookings'[b].table = t /\ bookings'[b].date = today'
    /\ WaiterFrees(t) \/ \E b \in Booking : GuestCancel(b)

LEMMA ReleaseStep ==
  ASSUME IInv, [Next]_vars, NEW t \in Table,
         Released(t), HeldToday(t)', ~SetStatus(t, "free")
  PROVE  Overlooks(t)
<1>0. TypeOK /\ tableStatus[t] /= "free" /\ tableStatus'[t] = "free"
  BY DEF IInv, Released
<1>1. ~UNCHANGED tableStatus
  BY <1>0
<1>2. ASSUME NEW b \in Booking, Creation(b)
      PROVE  FALSE
  <2>1. PICK u, T, day, s, len : Made(b, u, T, day, s, len)
    BY <1>2, CreationMakes
  <2>2. PICK colour \in {"pending", "reserved"} : tableStatus' = Painted(T \cup {u}, day, colour)
    BY <2>1 DEF Made
  <2>3. colour /= "free"
    OBVIOUS
  <2> QED BY <1>0, <2>2, <2>3, RepaintKeepsHeld
<1>3. ASSUME NEW b \in Booking, Approve(b) \/ CheckIn(b)
      PROVE  FALSE
  <2>1. "occupied" /= "free" /\ "reserved" /= "free"
    OBVIOUS
  <2>2. CASE Approve(b)
    <3>1. tableStatus' = Painted(TablesOf(b), bookings[b].date, "reserved")
      BY <2>2 DEF Approve
    <3> QED BY <1>0, <2>1, <3>1, RepaintKeepsHeld
  <2>3. CASE CheckIn(b)
    <3>1. tableStatus' = Painted(TablesOf(b), bookings[b].date, "occupied")
      BY <2>3 DEF CheckIn
    <3> QED BY <1>0, <2>1, <3>1, RepaintKeepsHeld
  <2> QED BY <1>3, <2>2, <2>3
<1>4. \A T, R : tableStatus' /= Synchronized(T, R)
  BY <1>0, RepaintKeepsHeld
<1>5. ~\E b \in Booking : Reject(b) \/ Cancel(b) \/ NoShow(b) \/ Complete(b) \/ AutoNoShow(b)
  BY <1>4 DEF Reject, Cancel, NoShow, Complete, AutoNoShow, Close
<1>6. ~\E b \in Booking : ApproveReschedule(b) \/ RejectReschedule(b) \/ Rejection(b)
  <2>1. SUFFICES ASSUME NEW b \in Booking
                 PROVE  ~ApproveReschedule(b) /\ ~RejectReschedule(b) /\ ~Rejection(b)
    OBVIOUS
  <2>2. ~RejectReschedule(b) /\ ~Rejection(b)
    BY <1>1 DEF RejectReschedule, Rejection, ReadForRejection, RejectTableChange,
                RejectionFails
  <2>3. ~ApproveReschedule(b)
    BY <1>1 DEF ApproveReschedule
  <2> QED BY <2>2, <2>3
<1>7. ~\E b \in Booking : Transfer(b)
  <2>1. SUFFICES ASSUME NEW b \in Booking, NEW u \in Table, ApproveTableChange(b, u)
                 PROVE  FALSE
    BY <1>4 DEF Transfer, WaiterTransfer, TransferBooking
  <2> DEFINE colour == IF bookings[b].status = "approved" THEN "reserved" ELSE "pending"
             old == Synchronized(IfToday(bookings[b].date, {bookings[b].table}), {})
             new == Painted({u}, bookings[b].date, colour)
  <2>1a. tableStatus' = [old EXCEPT ![u] = new[u]]
    BY <2>1 DEF ApproveTableChange
  <2>2. old[t] /= "free" /\ t \in DOMAIN old
    BY <1>0, RepaintKeepsHeld DEF Synchronized
  <2>3. colour /= "free"
    OBVIOUS
  <2>4. new[t] /= "free"
    <3> HIDE DEF colour
    <3> QED BY <1>0, <2>3, RepaintKeepsHeld
  <2> HIDE DEF old, new
  <2> QED BY <1>0, <2>1a, <2>2, <2>4
<1>8. ASSUME NEW c \in Booking, GuestAction(c)
      PROVE  Overlooks(t)
  <2>1. GuestCancel(c)
    BY <1>1, <1>8 DEF GuestAction, RequestTableChange, ReportLateness, RequestTimeChange
  <2>2. RemainingByTableId(t)' = "free"
    BY <1>0, <2>1 DEF GuestCancel
  <2> QED BY <2>1, <2>2 DEF Overlooks, RemainingByTableId, Active, ActiveStatuses
<1>9. ~Expire
  BY <1>0, HeldIsNotFree DEF Expire, AfterExpiry
<1>10. ~Unavailability /\ ~Tick /\ ~UNCHANGED vars
  BY <1>1 DEF Unavailability, CreateBlock, RemoveBlock, Tick, vars
<1>11. ASSUME ByHand
       PROVE  Overlooks(t)
  <2>1. PICK u \in Table :
          \/ \E status \in StaffStatus : SetStatus(u, status)
          \/ WaiterOccupies(u) \/ WaiterFrees(u)
    BY <1>11 DEF ByHand
  <2>2. ~WaiterOccupies(u)
    BY <1>0 DEF WaiterOccupies, TypeOK
  <2>3. ~\E status \in StaffStatus : SetStatus(u, status)
    BY <1>0 DEF SetStatus, TypeOK
  <2>4. WaiterFrees(u)
    BY <2>1, <2>2, <2>3
  <2>5. u = t
    BY <1>0, <2>4 DEF WaiterFrees, TypeOK
  <2>6. RemainingByTableId(t) = "free" /\ bookings' = bookings /\ today' = today
    BY <1>0, <2>4, <2>5 DEF WaiterFrees, TypeOK
  <2> QED BY <2>4, <2>5, <2>6 DEF Overlooks, RemainingByTableId, Active, ActiveStatuses
<1> QED BY <1>2, <1>3, <1>5, <1>6, <1>7, <1>8, <1>9, <1>10, <1>11
           DEF Next, OtherStep, Decision

\* No handler and no job frees a table for which a booking of today stands; the
\* two that read bookings.table_id alone overlook assignments and nothing else.
THEOREM HeldTablesStay == Spec => ReleasedHeldTable
<1>1. IInv /\ [Next]_vars =>
        [\A t \in Table : Released(t) /\ HeldToday(t)' /\ ~SetStatus(t, "free") =>
            /\ ~\E b \in Booking :
                  Active(b)' /\ bookings'[b].table = t /\ bookings'[b].date = today'
            /\ WaiterFrees(t) \/ \E b \in Booking : GuestCancel(b)]_vars
  BY ReleaseStep DEF Overlooks
<1> QED BY <1>1, Invariance, PTL DEF Spec, ReleasedHeldTable
=============================================================================
