------------------------------ MODULE Bookings ------------------------------
(***************************************************************************)
(* The booking book of the restaurant: bookings, their tables and time     *)
(* slots, the guests' change requests, planned unavailability and the      *)
(* physical status of every table.                                         *)
(*                                                                         *)
(* Every handler of src/backend/src/bookings (and the two jobs that end    *)
(* bookings) runs in one database transaction that locks the booking row,  *)
(* then the rows of the tables it touches.  Here such a transaction is one *)
(* action: that the locks are enough for this is not shown here.  The one  *)
(* handler that does not lock the booking, rejectTableChange, has the step *)
(* that reads the booking and the step that saves it.                      *)
(*                                                                         *)
(* Left out, because they only restrict a handler further: the number of   *)
(* seats, the client blacklist and the switch that stops online bookings.  *)
(* A guest is one identity: the code compares a phone and a device hash.   *)
(***************************************************************************)
EXTENDS Integers, FiniteSets

CONSTANTS
    Booking,    \* identifiers of bookings ever made
    Table,      \* the restaurant's tables
    Bookable,   \* the tables that are visible and in an open, visible zone
    Guest,      \* guests, told apart by phone and device
    NoGuest,    \* a manual booking that names no phone
    NoTable,    \* no table (a booking that does not exist yet)
    NoRequest,  \* no open request to change the time
    NotRead,    \* no rejection of a table change is under way
    LastDay,    \* bound: the calendar has the days 1..LastDay
    DayLen,     \* time units of a day (the code: 1440 minutes)
    Openings,   \* the arrival times guests and staff choose from
    Durations,  \* the lengths of a visit they choose from
    Cleanup,    \* DEFAULT_CLEANUP_MINUTES / CLEANUP_MINUTES
    Grace,      \* NO_SHOW_GRACE_MINUTES
    Delays,     \* the delays a late guest reports
    Targets,    \* what a planned unavailability covers: one table or a zone
    Spans,      \* its time range <<from, to>>; a whole day is <<0, DayLen>>
    MaxBlocks,  \* bound: planned unavailabilities at one time
    StaffStatus,  \* the statuses staff set by hand
    MaxRejections \* bound: bookings of which a rejected table change has an
                  \* older copy, or has saved one

Day  == 1 .. LastDay
Time == 0 .. DayLen - 1

ASSUME BookingsAssumption ==
    /\ NoGuest \notin Guest /\ NoTable \notin Table
    /\ NoRequest \notin [date : Nat, start : Nat]
    /\ LastDay \in Nat \ {0} /\ DayLen \in Nat \ {0}
    /\ Openings \subseteq Time
    /\ Durations \subseteq Nat \ {0} /\ Delays \subseteq Nat \ {0}
    /\ Cleanup \in Nat /\ Grace \in Nat
    /\ MaxBlocks \in Nat /\ MaxRejections \in Nat
    /\ Bookable \subseteq Table
    /\ StaffStatus \subseteq
           {"free", "pending", "reserved", "occupied", "cleaning", "closed"}
    /\ Targets \subseteq SUBSET Table /\ Spans \subseteq Nat \X Nat

VARIABLES
    bookings,    \* the bookings with their requests
    tableStatus, \* tables.status
    blocks,      \* availability blocks
    today,       \* the date in Kyiv
    clock,       \* the time of day in Kyiv
    rejecting,   \* what the rejection of a table change under way has read
    overwritten  \* history: bookings that a rejection saved an older copy of

rejections == <<rejecting, overwritten>>
vars == <<bookings, tableStatus, blocks, today, clock, rejections>>

BookingStatuses ==
    {"none", "pending", "approved", "rejected", "cancelled", "completed"}
ActiveStatuses == {"pending", "approved"}
ClosedStatuses == {"rejected", "cancelled", "completed"}

TableStatuses ==
    {"free", "pending", "reserved", "occupied", "cleaning", "closed"}
PhysicalStatuses == {"occupied", "cleaning"}

\* A requested arrival; every one lies on the calendar (a bound: LastDay).
Slot == [date : Nat, start : Nat]

BookingRecord ==
    [status      : BookingStatuses,
     date        : Nat,
     start       : Nat,
     duration    : Nat,
     table       : Table \cup {NoTable},   \* bookings.table_id
     assigned    : SUBSET Table,           \* booking_table_assignments
     guest       : Guest \cup {NoGuest},
     online      : BOOLEAN,                \* holds a guest access token
     checkedIn   : BOOLEAN,                \* checkedInAt is set
     lateNoted   : BOOLEAN,                \* lateNotifiedAt is set
     request     : Slot \cup {NoRequest},  \* the pending reschedule request
     tableChange : BOOLEAN]                \* a pending table-change request

\* The columns of bookings that some handler changes after the creation.
ColumnsRecord ==
    [status : BookingStatuses, date : Nat, start : Nat,
     table : Table \cup {NoTable}, checkedIn : BOOLEAN, lateNoted : BOOLEAN]

ASSUME NotReadAssumption == NotRead \notin ColumnsRecord

Block == [tables : SUBSET Table, date : Nat, from : Nat, to : Nat]

Blank == [status |-> "none", date |-> 1, start |-> 0, duration |-> 0,
          table |-> NoTable, assigned |-> {}, guest |-> NoGuest,
          online |-> FALSE, checkedIn |-> FALSE, lateNoted |-> FALSE,
          request |-> NoRequest, tableChange |-> FALSE]

Init ==
    /\ bookings = [b \in Booking |-> Blank]
    /\ tableStatus = [t \in Table |-> "free"]
    /\ blocks = {}
    /\ today = 1
    /\ clock = 0
    /\ rejecting = [b \in Booking |-> NotRead]
    /\ overwritten = {}

-----------------------------------------------------------------------------
(* Slots, holders and conflicts *)

Active(b) == bookings[b].status \in ActiveStatuses

\* The tables a booking stands for: its own and those of its assignments.
TablesOf(b) == ({bookings[b].table} \ {NoTable}) \cup bookings[b].assigned

\* Two visits, each followed by the cleanup of the table, overlap.  Only
\* bookings of one date are ever compared.
Overlap(s1, len1, s2, len2) ==
    s1 < s2 + len2 + Cleanup /\ s2 < s1 + len1 + Cleanup

\* Booking c is active and overlaps the given slot.
Occupies(c, day, s, len) ==
    /\ Active(c)
    /\ bookings[c].date = day
    /\ Overlap(s, len, bookings[c].start, bookings[c].duration)

\* No booking other than b has t as its bookings.table_id at the slot: all that
\* the approval of another time looks at.
NoConflictByTableId(b, t, day, s, len) ==
    \A c \in Booking \ {b} : Occupies(c, day, s, len) => bookings[c].table /= t

\* No booking other than b holds table t at the slot, as its table or through
\* an assignment.
NoConflict(b, t, day, s, len) ==
    \A c \in Booking \ {b} : Occupies(c, day, s, len) => t \notin TablesOf(c)

\* The same with b's own slot.
StaysClear(b, t) ==
    NoConflict(b, t, bookings[b].date, bookings[b].start, bookings[b].duration)

\* Slip: the cleanup after the visit may run into the block.
BlockedWhileSeated(t, day, s, len) ==
    \E x \in blocks :
        x.date = day /\ t \in x.tables /\ s < x.to /\ x.from < s + len

\* A planned unavailability covers part of the visit or of its cleanup.
Blocked(t, day, s, len) ==
    \E x \in blocks :
        x.date = day /\ t \in x.tables /\ s < x.to /\ x.from < s + len + Cleanup

\* Slip: a request that is not yet approved does not count.
GuestHasNoApproved(b, g, day) ==
    \A c \in Booking \ {b} :
        bookings[c].status = "approved" /\ bookings[c].date = day
            => bookings[c].guest /= g

\* No other active booking of the guest on that date (checked by the
\* handlers, and by the unique indexes of the bookings table).
GuestIsFree(b, g, day) ==
    \A c \in Booking \ {b} :
        Active(c) /\ bookings[c].date = day => bookings[c].guest /= g

MayBeBooked(t) == t \in Bookable /\ tableStatus[t] /= "closed"

-----------------------------------------------------------------------------
(* How a handler repaints tables *)

\* Some active booking of today in the given status stands for table t.
Claimed(t, status) ==
    \E b \in Booking : /\ bookings[b].status = status
                       /\ bookings[b].date = today
                       /\ t \in TablesOf(b)

\* synchronizeTableForDate of GuestBookingsService: as Remaining, but only
\* bookings.table_id counts.
RemainingByTableId(t) ==
    LET claimed(status) ==
            \E b \in Booking : /\ bookings[b].status = status
                               /\ bookings[b].date = today
                               /\ bookings[b].table = t
    IN  IF claimed("approved") THEN "reserved"
        ELSE IF claimed("pending") THEN "pending" ELSE "free"

\* remainingBookingStatusForTable: what today's bookings leave the table at.
Remaining(t) ==
    CASE Claimed(t, "approved") -> "reserved"
      [] ~Claimed(t, "approved") /\ Claimed(t, "pending") -> "pending"
      [] OTHER -> "free"

\* The tables of T recomputed from the bookings after the step; a closed
\* table stays closed, a physically used one too unless it is in "released".
Synchronized(T, released) ==
    [t \in Table |->
        IF \/ t \notin T
           \/ tableStatus[t] = "closed"
           \/ tableStatus[t] \in PhysicalStatuses /\ t \notin released
        THEN tableStatus[t]
        ELSE Remaining(t)']

\* The tables of T painted for a booking of the given date: nothing happens
\* unless the date is today, and used or closed tables keep their status.
Painted(T, day, status) ==
    [t \in Table |->
        IF t \in T /\ day = today
           /\ tableStatus[t] \notin PhysicalStatuses \cup {"closed"}
        THEN status
        ELSE tableStatus[t]]

IfToday(day, T) == IF day = today THEN T ELSE {}

-----------------------------------------------------------------------------
(* Creating a booking *)

\* What every way to create a booking asks of one of its tables.
Bookability(b, t, day, s, len) ==
    MayBeBooked(t) /\ NoConflict(b, t, day, s, len) /\ ~Blocked(t, day, s, len)

Entry(status, t, T, day, s, len, g, online) ==
    [Blank EXCEPT !.status = status, !.table = t, !.assigned = T,
                  !.date = day, !.start = s, !.duration = len,
                  !.guest = g, !.online = online]

\* BookingsService.create: a guest books one table on the site.
Create(b, t, day, s, len, g) ==
    /\ bookings[b].status = "none"
    /\ day >= today
    /\ GuestIsFree(b, g, day)
    /\ Bookability(b, t, day, s, len)
    /\ bookings' = [bookings EXCEPT
                      ![b] = Entry("pending", t, {}, day, s, len, g, TRUE)]
    /\ tableStatus' = Painted({t}, day, "pending")
    /\ UNCHANGED <<blocks, today, clock>>

\* BookingsService.createManual: staff book one table, with or without phone.
CreateManual(b, t, day, s, len, g) ==
    /\ bookings[b].status = "none"
    /\ day >= today
    /\ g /= NoGuest => GuestIsFree(b, g, day)
    /\ Bookability(b, t, day, s, len)
    /\ bookings' = [bookings EXCEPT
                      ![b] = Entry("approved", t, {}, day, s, len, g, FALSE)]
    /\ tableStatus' = Painted({t}, day, "reserved")
    /\ UNCHANGED <<blocks, today, clock>>

\* BookingsService.createManualBanquet: staff book several tables at once;
\* each is assigned to the booking, one of them is its own table.
CreateBanquet(b, t, T, day, s, len, g) ==
    /\ bookings[b].status = "none"
    /\ Cardinality(T) >= 2 /\ t \in T
    /\ day >= today
    /\ g /= NoGuest => GuestIsFree(b, g, day)
    /\ \A u \in T : Bookability(b, u, day, s, len)
    /\ bookings' = [bookings EXCEPT
                      ![b] = Entry("approved", t, T, day, s, len, g, FALSE)]
    /\ tableStatus' = Painted(T, day, "reserved")
    /\ UNCHANGED <<blocks, today, clock>>

-----------------------------------------------------------------------------
(* The decisions of the staff *)

\* BookingsService.approve as it was before createCoordinatedBookingsService
\* replaced it (a slip today: no status is refused and nothing is checked).
RawApprove(b) ==
    /\ bookings[b].status /= "none"
    /\ bookings' = [bookings EXCEPT ![b].status = "approved"]
    /\ tableStatus' = Painted({bookings[b].table}, bookings[b].date, "reserved")
    /\ UNCHANGED <<blocks, today, clock>>

\* What approval and arrival ask of every table of the booking.
Serviceable(b, t) == MayBeBooked(t) /\ StaysClear(b, t)

\* coordinatedTransition 'approve'.
Approve(b) ==
    /\ bookings[b].status = "pending"
    /\ \A t \in TablesOf(b) : Serviceable(b, t)
    /\ bookings' = [bookings EXCEPT ![b].status = "approved"]
    /\ tableStatus' = Painted(TablesOf(b), bookings[b].date, "reserved")
    /\ UNCHANGED <<blocks, today, clock>>

\* coordinatedTransition 'checkIn': the guests arrived.
CheckIn(b) ==
    /\ Active(b)
    /\ ~(bookings[b].status = "approved" /\ bookings[b].checkedIn)
    /\ \A t \in TablesOf(b) :
        /\ Serviceable(b, t)
        /\ bookings[b].date = today => tableStatus[t] \notin PhysicalStatuses
    /\ bookings' = [bookings EXCEPT ![b].status = "approved",
                                    ![b].checkedIn = TRUE]
    /\ tableStatus' = Painted(TablesOf(b), bookings[b].date, "occupied")
    /\ UNCHANGED <<blocks, today, clock>>

\* updateBookingStatusWithLock: the booking is closed and today's tables are
\* recomputed.
Close(b, status, released) ==
    /\ bookings' = [bookings EXCEPT ![b].status = status]
    /\ UNCHANGED <<blocks, today, clock>>
    /\ tableStatus' =
        Synchronized(IfToday(bookings[b].date, TablesOf(b)), released)

\* Rejecting and cancelling ask nothing of the booking's status.
Reject(b) == bookings[b].status /= "none" /\ Close(b, "rejected", {})

Cancel(b) == bookings[b].status /= "none" /\ Close(b, "cancelled", {})

NoShow(b) ==
    /\ bookings[b].status /= "none"
    /\ ~bookings[b].checkedIn
    /\ Close(b, "cancelled", {})

\* The visit is over: used tables are released as well.
Complete(b) == Active(b) /\ Close(b, "completed", Table)

-----------------------------------------------------------------------------
(* Moving a booking to another table *)

\* syncSingleTableTransferAssignment: a banquet cannot be moved this way.
SingleTable(b) ==
    /\ bookings[b].table /= NoTable
    /\ bookings[b].assigned \subseteq {bookings[b].table}

\* Slip: the assignment to the old table is left in place.
MovedKeepingOld(b, next) ==
    [bookings[b] EXCEPT !.table = next, !.assigned = @ \cup {next}]

\* The booking and its one assignment, created if missing, at the new table.
Moved(b, next) == [bookings[b] EXCEPT !.table = next, !.assigned = {next}]

\* BookingsService.waiterTransfer: seats the guests of today elsewhere; the
\* arrival mark is dropped.  Planned unavailability is not consulted.
WaiterTransfer(b, next) ==
    LET old == bookings[b].table
        ownsOld == bookings[b].checkedIn /\ tableStatus[old] \in PhysicalStatuses
    IN  /\ bookings[b].status = "approved"
        /\ bookings[b].date = today
        /\ next /= old
        /\ next \in Bookable /\ tableStatus[next] = "free"
        /\ StaysClear(b, next)
        /\ SingleTable(b)
        /\ bookings' = [bookings EXCEPT
                          ![b] = [Moved(b, next) EXCEPT !.checkedIn = FALSE]]
        /\ UNCHANGED <<blocks, today, clock>>
        /\ tableStatus' = Synchronized({old, next}, IF ownsOld THEN {old} ELSE {})

\* AvailabilityBlocksService.transferBooking: an administrator moves a
\* booking, arrived or not, to a table that is free of bookings and blocks.
TransferBooking(b, next) ==
    LET old == bookings[b].table
        r == bookings[b]
    IN  /\ Active(b)
        /\ r.date >= today
        /\ next /= old
        /\ MayBeBooked(next)
        /\ StaysClear(b, next)
        /\ ~Blocked(next, r.date, r.start, r.duration)
        /\ SingleTable(b)
        /\ bookings' = [bookings EXCEPT ![b] = Moved(b, next)]
        /\ UNCHANGED <<blocks, today, clock>>
        /\ tableStatus' = Synchronized(IfToday(r.date, {old, next}), {})

\* AdminAttentionService.approveTableChange: the same on the guest's request;
\* the new table is painted from this booking alone.
ApproveTableChange(b, next) ==
    LET old == bookings[b].table
        r == bookings[b]
        colour == IF r.status = "approved" THEN "reserved" ELSE "pending"
    IN  /\ r.tableChange /\ rejecting[b] = NotRead
        /\ Active(b) /\ ~r.checkedIn
        /\ next /= old
        /\ MayBeBooked(next)
        /\ r.date = today => tableStatus[next] \notin PhysicalStatuses
        /\ StaysClear(b, next)
        /\ ~Blocked(next, r.date, r.start, r.duration)
        /\ SingleTable(b)
        /\ bookings' = [bookings EXCEPT
                          ![b] = [Moved(b, next) EXCEPT !.tableChange = FALSE]]
        /\ UNCHANGED <<blocks, today, clock>>
        /\ tableStatus' =
            [Synchronized(IfToday(r.date, {old}), {}) EXCEPT
                ![next] = Painted({next}, r.date, colour)[next]]

Columns(b) ==
    [status    |-> bookings[b].status,    date      |-> bookings[b].date,
     start     |-> bookings[b].start,     table     |-> bookings[b].table,
     checkedIn |-> bookings[b].checkedIn, lateNoted |-> bookings[b].lateNoted]

\* findTableChangeForUpdate for AdminAttentionService.rejectTableChange: the
\* row of the request is locked, the booking is read with it and not locked.
ReadForRejection(b) ==
    /\ bookings[b].tableChange
    /\ rejecting[b] = NotRead
    /\ Cardinality(overwritten \cup {c \in Booking : rejecting[c] /= NotRead})
          < MaxRejections
    /\ rejecting' = [rejecting EXCEPT ![b] = Columns(b)]
    /\ UNCHANGED <<bookings, tableStatus, blocks, today, clock, overwritten>>

RejectedWith(b, copy) ==
    [bookings[b] EXCEPT !.tableChange = FALSE,
                        !.status = copy.status, !.date = copy.date,
                        !.start = copy.start, !.table = copy.table,
                        !.checkedIn = copy.checkedIn,
                        !.lateNoted = copy.lateNoted]

\* The save of rejectTableChange: TypeORM writes the booking as it was read
\* over every column that differs by now; the unique indexes may refuse that.
RejectTableChange(b) ==
    LET copy == rejecting[b]
    IN  /\ copy /= NotRead
        /\ copy.status \in ActiveStatuses
            => GuestIsFree(b, bookings[b].guest, copy.date)
        /\ bookings' = [bookings EXCEPT ![b] = RejectedWith(b, copy)]
        /\ rejecting' = [rejecting EXCEPT ![b] = NotRead]
        /\ overwritten' = IF copy = Columns(b) THEN overwritten
                          ELSE overwritten \cup {b}
        /\ UNCHANGED <<tableStatus, blocks, today, clock>>

\* The rejection breaks off, and the request stays.
RejectionFails(b) ==
    /\ rejecting[b] /= NotRead
    /\ rejecting' = [rejecting EXCEPT ![b] = NotRead]
    /\ UNCHANGED <<bookings, tableStatus, blocks, today, clock, overwritten>>

-----------------------------------------------------------------------------
(* What a guest may do with a booking made online *)

\* AdminAttentionService.requestTableChange; a pending request is reused.
RequestTableChange(b) ==
    /\ bookings[b].online /\ Active(b) /\ ~bookings[b].checkedIn
    /\ ~bookings[b].tableChange
    /\ bookings' = [bookings EXCEPT ![b].tableChange = TRUE]
    /\ UNCHANGED <<tableStatus, blocks, today, clock>>

\* GuestBookingsService.reportLateness: once, after the arrival time; it asks
\* for the arrival time plus the delay, past midnight on the next date.
ReportLateness(b, delay) ==
    LET r == bookings[b]
        arrival == r.start + delay
        wanted == [date  |-> r.date + arrival \div DayLen,
                   start |-> arrival % DayLen]
    IN  /\ r.online
        /\ r.status = "approved" /\ ~r.checkedIn
        /\ r.date = today
        /\ ~r.lateNoted
        /\ r.request = NoRequest
        /\ clock > r.start
        /\ wanted.date <= LastDay
        /\ bookings' = [bookings EXCEPT ![b].lateNoted = TRUE,
                                        ![b].request = wanted]
        /\ UNCHANGED <<tableStatus, blocks, today, clock>>

\* GuestTimeChangeService.request: another time on the same date.
RequestTimeChange(b, s) ==
    LET r == bookings[b]
    IN  /\ r.online
        /\ r.status = "approved" /\ ~r.checkedIn
        /\ r.date >= today
        /\ s /= r.start
        /\ r.request = NoRequest
        /\ bookings' = [bookings EXCEPT
                          ![b].request = [date |-> r.date, start |-> s]]
        /\ UNCHANGED <<tableStatus, blocks, today, clock>>

\* Slip: the guests may have arrived since they asked.
ApproveLateReschedule(b) ==
    LET r == bookings[b]
        wanted == r.request
    IN  /\ wanted /= NoRequest
        /\ Active(b)
        /\ wanted.date >= today
        /\ MayBeBooked(r.table)
        /\ NoConflict(b, r.table, wanted.date, wanted.start, r.duration)
        /\ bookings' = [bookings EXCEPT ![b].date = wanted.date,
                                        ![b].start = wanted.start,
                                        ![b].request = NoRequest]
        /\ UNCHANGED <<tableStatus, blocks, today, clock>>

\* BookingRescheduleApprovalService.approve: candidates for a conflict are
\* read by bookings.table_id alone, so assignments are not seen.
ApproveReschedule(b) ==
    LET r == bookings[b]
        wanted == r.request
    IN  /\ wanted /= NoRequest
        /\ Active(b) /\ ~r.checkedIn
        /\ wanted.date >= today
        /\ r.table /= NoTable /\ MayBeBooked(r.table)
        /\ ~Blocked(r.table, wanted.date, wanted.start, r.duration)
        /\ NoConflictByTableId(b, r.table, wanted.date, wanted.start, r.duration)
        /\ r.guest /= NoGuest => GuestIsFree(b, r.guest, wanted.date)
        /\ bookings' = [bookings EXCEPT ![b].date = wanted.date,
                                        ![b].start = wanted.start,
                                        ![b].request = NoRequest]
        /\ UNCHANGED <<tableStatus, blocks, today, clock>>

\* BookingsService.rejectReschedule.
RejectReschedule(b) ==
    /\ bookings[b].request /= NoRequest
    /\ bookings' = [bookings EXCEPT ![b].request = NoRequest]
    /\ UNCHANGED <<tableStatus, blocks, today, clock>>

\* GuestBookingsService.cancel.
GuestCancel(b) ==
    LET r == bookings[b]
    IN  /\ r.online /\ Active(b) /\ ~r.checkedIn
        /\ bookings' = [bookings EXCEPT ![b].status = "cancelled"]
        /\ UNCHANGED <<blocks, today, clock>>
        /\ tableStatus' =
            [t \in Table |->
                IF t = r.table /\ r.date = today
                   /\ tableStatus[t] \notin PhysicalStatuses \cup {"closed"}
                THEN RemainingByTableId(t)'
                ELSE tableStatus[t]]

-----------------------------------------------------------------------------
(* The jobs that end bookings *)

\* Slip: only visits are completed; an undecided booking is forgotten.
ExpiredVisits ==
    {b \in Booking : /\ bookings[b].date < today
                     /\ bookings[b].status = "approved" /\ bookings[b].checkedIn}

\* BookingExpirationService: bookings of a past day that nobody decided, and
\* visits nobody closed, are completed together.
Expired ==
    {b \in Booking : /\ bookings[b].date < today
                     /\ \/ bookings[b].status = "pending"
                        \/ bookings[b].status = "approved" /\ bookings[b].checkedIn}

AfterExpiry(t) ==
    IF \/ tableStatus[t] \in {"closed", "cleaning"}
       \/ tableStatus[t] = "occupied" /\ Remaining(t)' /= "free"
    THEN tableStatus[t]
    ELSE Remaining(t)'

Expire ==
    /\ Expired /= {}
    /\ bookings' = [b \in Booking |->
                      IF b \in Expired
                      THEN [bookings[b] EXCEPT !.status = "completed"]
                      ELSE bookings[b]]
    /\ UNCHANGED <<blocks, today, clock>>
    /\ tableStatus' = [t \in Table |->
                         IF \E b \in Expired : t \in TablesOf(b)
                         THEN AfterExpiry(t) ELSE tableStatus[t]]

\* minutesSinceArrival: time units from the arrival time to now.
SinceArrival(b) ==
    (today - bookings[b].date) * DayLen + clock - bookings[b].start

\* AutomaticNoShowService.cancelIfDue, tried every minute for every approved
\* booking: nobody came and the guest has no open request for another time.
AutoNoShow(b) ==
    /\ bookings[b].status = "approved" /\ ~bookings[b].checkedIn
    /\ SinceArrival(b) >= Grace
    /\ bookings[b].request = NoRequest
    /\ bookings' = [bookings EXCEPT ![b].status = "cancelled"]
    /\ UNCHANGED <<blocks, today, clock>>
    /\ tableStatus' = Synchronized(TablesOf(b), {})

-----------------------------------------------------------------------------
(* Planned unavailability, table statuses set by hand, time *)

\* AvailabilityBlocksService.create.  Blocks of one target may overlap: the
\* check against that compares a missing zone or table with null and never
\* fires.  Equal blocks count as one, so a second one changes nothing here.
CreateBlock(T, day, span) ==
    /\ Cardinality(blocks) < MaxBlocks
    /\ day >= today
    /\ \A b \in Booking :
        LET r == bookings[b]
        IN  /\ Active(b) /\ r.date = day
            /\ span[1] < r.start + r.duration + Cleanup /\ r.start < span[2]
            => TablesOf(b) \cap T = {}
    /\ blocks' = blocks \cup
                    {[tables |-> T, date |-> day, from |-> span[1], to |-> span[2]]}
    /\ UNCHANGED <<bookings, tableStatus, today, clock>>

\* AvailabilityBlocksService.remove.
RemoveBlock(x) ==
    /\ blocks' = blocks \ {x}
    /\ UNCHANGED <<bookings, tableStatus, today, clock>>

\* TablesService.setStatus and what calls it (markFree, markCleaning, open, ...):
\* staff set a status by hand.
SetStatus(t, status) ==
    /\ tableStatus' = [tableStatus EXCEPT ![t] = status]
    /\ UNCHANGED <<bookings, blocks, today, clock>>

\* TablesService.setWaiterStatus 'occupied'.
WaiterOccupies(t) ==
    /\ tableStatus[t] \notin {"closed", "reserved", "pending"}
    /\ tableStatus' = [tableStatus EXCEPT ![t] = "occupied"]
    /\ UNCHANGED <<bookings, blocks, today, clock>>

\* TablesService.setWaiterStatus 'free': guests who sit there keep the table,
\* and so do today's bookings by bookings.table_id.
WaiterFrees(t) ==
    LET seated == \E b \in Booking : /\ bookings[b].status = "approved"
                                     /\ bookings[b].checkedIn
                                     /\ bookings[b].date = today
                                     /\ bookings[b].table = t
    IN  /\ tableStatus' =
            [tableStatus EXCEPT
               ![t] = IF seated THEN "occupied" ELSE RemainingByTableId(t)]
        /\ UNCHANGED <<bookings, blocks, today, clock>>

\* Time passes; the calendar ends with LastDay (a bound of the model).
Tick ==
    /\ \/ /\ clock < DayLen - 1
          /\ clock' = clock + 1
          /\ UNCHANGED today
       \/ /\ clock = DayLen - 1 /\ today < LastDay
          /\ clock' = 0
          /\ today' = today + 1
    /\ UNCHANGED <<bookings, tableStatus, blocks>>

-----------------------------------------------------------------------------
Creation(b) ==
    \E day \in Day, s \in Openings, len \in Durations, t \in Table :
        \/ \E g \in Guest : Create(b, t, day, s, len, g)
        \/ \E g \in Guest \cup {NoGuest} : CreateManual(b, t, day, s, len, g)
        \/ \E T \in SUBSET Table, g \in Guest \cup {NoGuest} :
              CreateBanquet(b, t, T, day, s, len, g)

Decision(b) ==
    \/ Approve(b) \/ CheckIn(b) \/ Reject(b) \/ Cancel(b) \/ NoShow(b)
    \/ Complete(b) \/ ApproveReschedule(b) \/ RejectReschedule(b)

Rejection(b) ==
    ReadForRejection(b) \/ RejectTableChange(b) \/ RejectionFails(b)

Transfer(b) ==
    \E t \in Table :
        WaiterTransfer(b, t) \/ TransferBooking(b, t) \/ ApproveTableChange(b, t)

GuestAction(b) ==
    \/ RequestTableChange(b) \/ GuestCancel(b)
    \/ \E delay \in Delays : ReportLateness(b, delay)
    \/ \E s \in Openings : RequestTimeChange(b, s)

Unavailability ==
    \/ \E T \in Targets, day \in Day, span \in Spans : CreateBlock(T, day, span)
    \/ \E x \in blocks : RemoveBlock(x)

ByHand ==
    \E t \in Table :
        \/ \E status \in StaffStatus : SetStatus(t, status)
        \/ WaiterOccupies(t) \/ WaiterFrees(t)

\* What leaves the rejections alone.
OtherStep ==
    \/ \E b \in Booking :
          Creation(b) \/ Decision(b) \/ Transfer(b) \/ GuestAction(b)
          \/ AutoNoShow(b)
    \/ Expire
    \/ Unavailability
    \/ ByHand
    \/ Tick

Next ==
    \/ OtherStep /\ UNCHANGED rejections
    \/ \E b \in Booking : Rejection(b)

Spec == Init /\ [][Next]_vars

\* The two jobs are started every minute for as long as the process runs, and
\* try every candidate; time passes.  Nothing makes a guest or the staff act.
Fairness ==
    /\ WF_vars(Tick /\ UNCHANGED rejections)
    /\ WF_vars(Expire /\ UNCHANGED rejections)
    /\ \A b \in Booking : WF_vars(AutoNoShow(b) /\ UNCHANGED rejections)

FairSpec == Spec /\ Fairness

-----------------------------------------------------------------------------
(* Properties *)

\* Every variable has its type (the columns of the entities).
TypeOK ==
    /\ bookings \in [Booking -> BookingRecord]
    /\ tableStatus \in [Table -> TableStatuses]
    /\ blocks \subseteq Block
    /\ today \in Day
    /\ clock \in Time
    /\ rejecting \in [Booking -> ColumnsRecord \cup {NotRead}]
    /\ overwritten \subseteq Booking

\* Two different active bookings of one date whose visits overlap.
Clash(a, b) ==
    /\ a /= b
    /\ Active(a) /\ Active(b)
    /\ bookings[a].date = bookings[b].date
    /\ Overlap(bookings[a].start, bookings[a].duration,
               bookings[b].start, bookings[b].duration)

\* Bookings whose visits overlap never share a table, whichever of the ways to
\* create, move and reschedule bookings led there, with two exceptions.  The
\* approval of another time leaves one open: a booking made online may end up
\* at a table that is assigned to, but is not the own table of, a banquet.
\* And a rejected table change may have put a booking back to where it was.
NoDoubleBooking ==
    \A a, b \in Booking \ overwritten : Clash(a, b) =>
        \A t \in TablesOf(a) \cap TablesOf(b) :
            \/ bookings[a].online /\ t = bookings[a].table /\ t /= bookings[b].table
            \/ bookings[b].online /\ t = bookings[b].table /\ t /= bookings[a].table

\* What the handlers that look at assignments promise and tests expect of all
\* of them: overlapping bookings share no table at all.  (Bookings that a
\* rejected table change has put back are another matter.)
NoSharedTable ==
    \A a, b \in Booking \ overwritten : Clash(a, b) => TablesOf(a) \cap TablesOf(b) = {}

\* A guest has one active booking per date, across creation by the guest and
\* by staff, approval, a change of date after a reported delay, and a rejected
\* table change that reopens a booking.
OneActivePerGuest ==
    \A a, b \in Booking :
        /\ a /= b /\ Active(a) /\ Active(b)
        /\ bookings[a].date = bookings[b].date
        /\ bookings[a].guest /= NoGuest
        => bookings[a].guest /= bookings[b].guest

\* bookings.table_id and booking_table_assignments never disagree, whichever
\* transfer ran last: the own table is among the assignments if there are any,
\* and only a booking made by staff has more than one.  A rejected table
\* change may put the own table alone back.
AssignmentsMatch ==
    \A b \in Booking \ overwritten :
        /\ bookings[b].assigned /= {} => bookings[b].table \in bookings[b].assigned
        /\ bookings[b].online => bookings[b].assigned \subseteq {bookings[b].table}

\* The rejection of a table change saves a copy of the booking that is older
\* than what other handlers have committed since.
PutsBack(b) == RejectTableChange(b) /\ rejecting[b] /= Columns(b)

\* A closed booking is active again only if a rejection of a table change that
\* read it before the closing saves it after.  Nothing else that was still
\* open when it was closed reopens it: requests, a decision pressed twice, the
\* two jobs.
ClosedIsFinal ==
    [][\A b \in Booking : bookings[b].status \in ClosedStatuses =>
        \/ bookings'[b].status \in ClosedStatuses
        \/ PutsBack(b) /\ rejecting[b].status \notin ClosedStatuses]_vars

\* The guests of b sit in the restaurant, or are noted as such.
Arrived(b) == Active(b) /\ bookings[b].checkedIn

\* Once the guests have arrived, nothing they asked for before can move their
\* slot any more, and only staff moves them or ends a visit of the day; save
\* that a rejected table change may put back what it read before they came.
ArrivedUndisturbed ==
    [][\A b \in Booking : Arrived(b) /\ ~PutsBack(b) =>
        /\ bookings'[b].date = bookings[b].date
        /\ bookings'[b].start = bookings[b].start
        /\ bookings'[b].table /= bookings[b].table
            => \E t \in Table : WaiterTransfer(b, t) \/ TransferBooking(b, t)
        /\ bookings'[b].status \notin ActiveStatuses /\ bookings[b].date >= today
            => Reject(b) \/ Cancel(b) \/ Complete(b)]_vars

\* Booking b lies in the range of the planned unavailability x.
Inside(b, x) ==
    /\ Active(b) /\ bookings[b].date = x.date
    /\ TablesOf(b) \cap x.tables /= {}
    /\ bookings[b].start < x.to
    /\ x.from < bookings[b].start + bookings[b].duration + Cleanup

\* Nothing but a waiter transfer puts a booking inside a planned
\* unavailability, and none is planned over a booking, unless a rejected table
\* change has put the booking back to an older slot or table.
UnavailableStaysEmpty ==
    [][\A b \in Booking : \A x \in blocks' :
        Inside(b, x)' /\ ~(x \in blocks /\ Inside(b, x)) /\ b \notin overwritten'
            => \E t \in Table : WaiterTransfer(b, t)]_vars

Released(t) == tableStatus[t] /= "free" /\ tableStatus'[t] = "free"

\* Some active booking of today stands for the table.
HeldToday(t) ==
    \E b \in Booking :
        Active(b) /\ bookings[b].date = today /\ t \in TablesOf(b)

\* Nothing but a status that staff set by hand frees a table for which a booking
\* of today stands; a waiter who frees the table and a guest's cancellation may
\* overlook a booking that only has the table through an assignment.
ReleasedHeldTable ==
    [][\A t \in Table : Released(t) /\ HeldToday(t)' /\ ~SetStatus(t, "free") =>
        /\ ~\E b \in Booking : Active(b)' /\ bookings'[b].table = t /\ bookings'[b].date = today'
        /\ WaiterFrees(t) \/ \E b \in Booking : GuestCancel(b)]_vars

\* What the other closings do and a test expects of the old table of a
\* transfer: a guest's cancellation leaves a table that is still assigned to
\* a banquet of today reserved.
GuestCancelKeepsAssigned ==
    [][\A b \in Booking, t \in Table :
        GuestCancel(b) /\ Released(t) => ~HeldToday(t)']_vars

\* No active booking of a past day stays behind: undecided ones and visits are
\* completed, absent guests are cancelled.  An open request for another time
\* stops the latter until staff decides on it.  (A rejected table change may
\* put a booking back between the jobs, again and again.)
PastBookingsEnd ==
    \A b \in Booking :
        (Active(b) /\ bookings[b].date < today /\ bookings[b].request = NoRequest)
            ~> ~Active(b) \/ b \in overwritten
=============================================================================
