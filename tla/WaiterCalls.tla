----------------------------- MODULE WaiterCalls -----------------------------
(***************************************************************************)
(* Calls of a waiter by guests who sit, and who the waiter is              *)
(* (src/backend/src/waiter-calls).                                         *)
(*                                                                         *)
(* Calls are rows of the database; the assignment of waiters to bookings   *)
(* and tables is kept in the memory of the process, and found again in the *)
(* calls and in the history of the booking when it is lost.  Of a booking  *)
(* the module keeps what calls depend on; its handlers, here the           *)
(* environment, are those of module Bookings.  All of them are of one day. *)
(*                                                                         *)
(* Every handler here is one transaction that locks the booking or the     *)
(* call it reads, and is one action.  What a waiter transfer does to calls *)
(* is not part of its transaction: it comes later, in steps of its own, and*)
(* is lost when the process stops.                                         *)
(***************************************************************************)
EXTENDS Naturals

CONSTANTS
    Booking, NoBooking,
    Table,
    Waiter, NoWaiter,
    Call,     \* identifiers of calls ever made
    MaxMoves, \* bound: waiter transfers of one booking
    MaxTime   \* bound: events that are dated

ASSUME CallsAssumption ==
    /\ NoBooking \notin Booking /\ NoWaiter \notin Waiter
    /\ MaxMoves \in Nat /\ MaxTime \in Nat

VARIABLES
    visits,    \* the bookings
    occupied,  \* the tables whose status is "occupied"
    calls,     \* waiter_calls
    memory,    \* assignments: the assignments of waiters, in memory
    due,       \* transfers whose calls are still to be closed
    detaching, \* transfers whose assignments are still to be dropped
    clock      \* the date of the latest dated event

vars == <<visits, occupied, calls, memory, due, detaching, clock>>

Visit ==
    [status     : {"pending", "approved", "closed"},
     table      : Table,
     checkedIn  : BOOLEAN,
     approvedAt : Nat,
     seatedBy   : SUBSET Waiter, \* whom the history names as the waiter, if any
     moves      : Nat]           \* history: waiter transfers so far

ActiveCallStatuses == {"new", "accepted"}

CallRecord ==
    [status  : ActiveCallStatuses \cup {"none", "closed"},
     booking : Booking \cup {NoBooking},
     waiter  : Waiter \cup {NoWaiter},
     active  : BOOLEAN, \* assignmentActive
     at      : Nat,     \* createdAt
     move    : Nat]     \* history: transfers of the booking before the call

NoCall == [status |-> "none", booking |-> NoBooking, waiter |-> NoWaiter,
           active |-> FALSE, at |-> 0, move |-> 0]

Assignment == [booking : Booking, table : Table, waiter : Waiter, at : Nat]

Init ==
    /\ visits \in [Booking ->
           {[status |-> "pending", table |-> t, checkedIn |-> FALSE,
             approvedAt |-> 0, seatedBy |-> {}, moves |-> 0] : t \in Table}]
    /\ occupied = {} /\ memory = {}
    /\ calls = [k \in Call |-> NoCall]
    /\ due = [b \in Booking |-> 0] /\ detaching = [b \in Booking |-> 0]
    /\ clock = 0

\* Something happens that is dated.
Dated == clock < MaxTime /\ clock' = clock + 1

IsActive(k) == calls[k].status \in ActiveCallStatuses

-----------------------------------------------------------------------------
(* Whose waiter? *)

\* rememberAssignment: the assignment replaces those of its booking and table.
Remembered(a) == {x \in memory : x.booking # a.booking /\ x.table # a.table} \cup {a}

\* detachBooking.
Detached(b) == {x \in memory : x.booking # b}

\* The assignments of the booking or of its table.
Candidates(b) == {a \in memory : a.booking = b \/ a.table = visits[b].table}

\* findAssignment: the latest of them.
InMemory(b) == {a \in Candidates(b) : \A x \in Candidates(b) : x.at <= a.at}

\* assignmentMatchesCurrentBookingLifecycle.
Current(b) == {a \in InMemory(b) : a.at >= visits[b].approvedAt}

\* persistedCallAssignment: the latest call of the booking that names a waiter (the
\* calls of a booking follow each other, so it is also the one accepted last).
Persisted(b) ==
    LET named == {k \in Call : /\ calls[k].booking = b /\ calls[k].active
                               /\ calls[k].waiter # NoWaiter}
    IN  {k \in named : \A j \in named : calls[j].at <= calls[k].at}

\* resolveAssignment: the waiter of the booking, or nobody.
Resolved(b) ==
    IF visits[b].status # "approved" THEN {}
    ELSE IF Current(b) # {} THEN {a.waiter : a \in Current(b)}
    ELSE IF \E k \in Persisted(b) : calls[k].at >= visits[b].approvedAt
         THEN {calls[k].waiter : k \in Persisted(b)}
    ELSE visits[b].seatedBy

\* What resolveAssignment forgets: assignments of a booking that is not approved,
\* or that was approved only later.
AfterResolving(b) ==
    IF \/ visits[b].status # "approved"
       \/ Current(b) = {} /\ \E a \in InMemory(b) : a.booking = b
    THEN Detached(b) ELSE memory

-----------------------------------------------------------------------------
(* Requests *)

\* Slip: a request that names no waiter is taken.
ForNobody(b, t, w) == [booking |-> b, table |-> t, waiter |-> NoWaiter, at |-> clock + 1]

\* The assignment that is made now.
Made(b, t, w) == [booking |-> b, table |-> t, waiter |-> w, at |-> clock + 1]

\* assign: of any booking; the table is the one the caller still sees.
Assign(b, t, w) ==
    /\ Dated
    /\ memory' = Remembered(Made(b, t, w))
    /\ UNCHANGED <<visits, occupied, calls, due, detaching>>

\* guestStatus.
GuestStatus(b) ==
    /\ memory' = AfterResolving(b)
    /\ UNCHANGED <<visits, occupied, calls, due, detaching, clock>>

\* Slip: a call that somebody accepted does not count.
NothingNew(b) == \A k \in Call : calls[k].booking = b => calls[k].status # "new"

\* There is no active call of the booking (also the unique index of the table).
NoActiveCall(b) == \A k \in Call : calls[k].booking = b => ~IsActive(k)

\* createFromGuest, when it makes a new call: addressed to the waiter of the
\* booking, or to everyone.
CreateFromGuest(b, k) ==
    /\ visits[b].status = "approved" /\ visits[b].table \in occupied
    /\ NoActiveCall(b)
    /\ calls[k].status = "none"
    /\ Dated
    /\ \E w \in IF Resolved(b) = {} THEN {NoWaiter} ELSE Resolved(b) :
           calls' = [calls EXCEPT
               ![k] = [status |-> "new", booking |-> b, waiter |-> w, active |-> TRUE,
                       at |-> clock', move |-> visits[b].moves]]
    /\ memory' = AfterResolving(b)
    /\ UNCHANGED <<visits, occupied, due, detaching>>

\* Slip: the call was read before it was locked, and may be closed since.
MayAcceptUnlocked(k, w) == calls[k].status # "none" /\ calls[k].waiter \in {NoWaiter, w}

\* What accept asks of the call.
MayAccept(k, w) == calls[k].status = "new" /\ calls[k].waiter \in {NoWaiter, w}

\* accept: by anyone, or by the waiter the call is addressed to.
Accept(k, w) ==
    /\ MayAccept(k, w)
    /\ calls' = [calls EXCEPT ![k].status = "accepted", ![k].waiter = w,
                              ![k].active = TRUE]
    /\ UNCHANGED <<visits, occupied, memory, due, detaching, clock>>

\* close: by the waiter who accepted; the assignment stays.
CloseCall(k, w) ==
    /\ calls[k].status = "accepted" /\ calls[k].waiter = w
    /\ calls' = [calls EXCEPT ![k].status = "closed"]
    /\ UNCHANGED <<visits, occupied, memory, due, detaching, clock>>

-----------------------------------------------------------------------------
(* Bookings *)

\* Slip: the assignments of calls that are closed already are forgotten.
OnlyActiveClosed(b) ==
    [k \in Call |-> IF calls[k].booking = b /\ IsActive(k)
                    THEN [calls[k] EXCEPT !.status = "closed", !.active = FALSE]
                    ELSE calls[k]]

\* The calls of the booking are closed, their assignments inactive.
WithoutCallsOf(b) ==
    [k \in Call |-> IF calls[k].booking = b /\ (IsActive(k) \/ calls[k].active)
                    THEN [calls[k] EXCEPT !.status = "closed", !.active = FALSE]
                    ELSE calls[k]]

Approve(b) ==
    /\ visits[b].status = "pending" /\ Dated
    /\ visits' = [visits EXCEPT ![b].status = "approved", ![b].approvedAt = clock']
    /\ UNCHANGED <<occupied, calls, memory, due, detaching>>

\* The guests arrived; the history names who noted it, a waiter or (here: nobody)
\* an administrator.  A booking that this also approves is approved after the
\* transaction began, by which the history is dated: whether that entry counts
\* depends on the clocks.
CheckIn(b, who) ==
    /\ visits[b].status \in {"pending", "approved"}
    /\ visits[b].status = "approved" => ~visits[b].checkedIn
    /\ visits[b].table \notin occupied
    /\ \/ /\ visits[b].status = "approved"
          /\ visits' = [visits EXCEPT ![b].checkedIn = TRUE, ![b].seatedBy = who]
          /\ UNCHANGED clock
       \/ /\ visits[b].status = "pending" /\ Dated
          /\ \E named \in {who, {}} :
                 visits' = [visits EXCEPT ![b].status = "approved", ![b].checkedIn = TRUE,
                                          ![b].approvedAt = clock', ![b].seatedBy = named]
    /\ occupied' = occupied \cup {visits[b].table}
    /\ UNCHANGED <<calls, memory, due, detaching>>

\* Rejected, cancelled, not come, completed or expired, with the trigger that
\* closes the calls; a used table is freed or not.
End(b) ==
    /\ visits[b].status # "closed"
    /\ visits' = [visits EXCEPT ![b].status = "closed"]
    /\ calls' = WithoutCallsOf(b)
    /\ occupied' \in {occupied, occupied \ {visits[b].table}}
    /\ UNCHANGED <<memory, due, detaching, clock>>

\* waiterTransfer, up to its commit.
WaiterTransfer(b, t) ==
    LET r == visits[b]
    IN  /\ r.status = "approved" /\ r.moves < MaxMoves
        /\ t # r.table /\ t \notin occupied
        /\ visits' = [visits EXCEPT ![b].table = t, ![b].checkedIn = FALSE,
                                    ![b].seatedBy = {}, ![b].moves = r.moves + 1]
        /\ occupied' = IF r.checkedIn THEN occupied \ {r.table} ELSE occupied
        /\ due' = [due EXCEPT ![b] = @ + 1]
        /\ UNCHANGED <<calls, memory, detaching, clock>>

\* The other transfers, which leave calls and used tables alone.
OtherTransfer(b, t) ==
    /\ visits[b].status # "closed"
    /\ visits' = [visits EXCEPT ![b].table = t]
    /\ UNCHANGED <<occupied, calls, memory, due, detaching, clock>>

\* Staff set the status of a table.
SetStatus(t) ==
    /\ occupied' \in {occupied \cup {t}, occupied \ {t}}
    /\ UNCHANGED <<visits, calls, memory, due, detaching, clock>>

-----------------------------------------------------------------------------
(* What a waiter transfer leaves to do *)

\* closeActiveCallsAndDetachBooking: its transaction, which nobody awaits, ...
CloseActiveCalls(b) ==
    /\ due[b] > 0
    /\ calls' = WithoutCallsOf(b)
    /\ due' = [due EXCEPT ![b] = @ - 1]
    /\ detaching' = [detaching EXCEPT ![b] = @ + 1]
    /\ UNCHANGED <<visits, occupied, memory, clock>>

\* ... and what follows it in memory.
DetachBooking(b) ==
    /\ detaching[b] > 0
    /\ memory' = Detached(b)
    /\ detaching' = [detaching EXCEPT ![b] = @ - 1]
    /\ UNCHANGED <<visits, occupied, calls, due, clock>>

\* The process stops, for example because that promise is rejected, and another
\* one starts.
Restart ==
    /\ memory' = {}
    /\ due' = [b \in Booking |-> 0] /\ detaching' = [b \in Booking |-> 0]
    /\ UNCHANGED <<visits, occupied, calls, clock>>

-----------------------------------------------------------------------------
OfBooking(b) ==
    \/ \E t \in Table, w \in Waiter : Assign(b, t, w)
    \/ GuestStatus(b) \/ \E k \in Call : CreateFromGuest(b, k)
    \/ Approve(b) \/ End(b)
    \/ \E who \in {{}} \cup {{w} : w \in Waiter} : CheckIn(b, who)
    \/ \E t \in Table : WaiterTransfer(b, t) \/ OtherTransfer(b, t)
    \/ CloseActiveCalls(b) \/ DetachBooking(b)

OfCall(k) == \E w \in Waiter : Accept(k, w) \/ CloseCall(k, w)

Next ==
    \/ \E b \in Booking : OfBooking(b)
    \/ \E k \in Call : OfCall(k)
    \/ \E t \in Table : SetStatus(t)
    \/ Restart

Spec == Init /\ [][Next]_vars

-----------------------------------------------------------------------------
(* Properties *)

\* Every variable has its type.
TypeOK ==
    /\ visits \in [Booking -> Visit]
    /\ occupied \subseteq Table
    /\ calls \in [Call -> CallRecord]
    /\ memory \subseteq Assignment
    /\ due \in [Booking -> Nat] /\ detaching \in [Booking -> Nat]
    /\ clock \in Nat

\* A booking has one active call at most, however often the guest presses the
\* button and whatever waiters and transfers do meanwhile.
OneActiveCall ==
    \A j, k \in Call :
        j # k /\ IsActive(j) /\ IsActive(k) => calls[j].booking # calls[k].booking

\* Calls and assignments end with the visit: nothing that a waiter does late makes
\* the call of a closed booking active again.
EndedWithVisit ==
    \A k \in Call : \A b \in Booking :
        calls[k].booking = b /\ visits[b].status = "closed"
            => ~IsActive(k) /\ ~calls[k].active

\* The active calls are of visits that last, and one of each at most.
OneCallPerVisit == OneActiveCall /\ EndedWithVisit

\* A call only moves on, from new to accepted to closed, and never from one waiter
\* to another; an accepted call is closed by its waiter, with the booking, or by
\* a transfer.
CallsMoveOn ==
    [][\A k \in Call :
        LET old == calls[k]
            new == calls'[k]
        IN  /\ old.status = "closed" => new.status = "closed"
            /\ old.status = "accepted" => new.status # "new"
            /\ old.waiter # NoWaiter => new.waiter = old.waiter
            /\ old.status = "accepted" /\ new.status = "closed" =>
                   \/ CloseCall(k, old.waiter)
                   \/ \E b \in {old.booking} : End(b) \/ CloseActiveCalls(b)]_vars

\* A waiter transfer carries no waiter and no call along: once the guests sit at
\* the new table, no call of before is active or names their waiter.
TransferCarriesNothing ==
    \A k \in Call : \A b \in Booking :
        /\ calls[k].booking = b /\ calls[k].active
        /\ visits[b].checkedIn
        => calls[k].move = visits[b].moves
=============================================================================
