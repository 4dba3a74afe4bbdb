----------------------------- MODULE HookahCalls -----------------------------
(***************************************************************************)
(* Calls of a hookah worker by guests who sit                              *)
(* (src/backend/src/hookah-calls).                                         *)
(*                                                                         *)
(* Making and accepting a call lock what they check and are one action.    *)
(* Completing, cancelling and expiring calls are not: such a request       *)
(* reads rows and checks them, saves its copies by reading the rows again  *)
(* and comparing, and then updates the columns that differed.  Between     *)
(* these steps other requests take theirs.  Of the three steps the last is *)
(* one transaction.  A new call begins with the same three steps for calls *)
(* of its booking that are overdue, and its transaction goes on.           *)
(*                                                                         *)
(* Who is on shift, who sits and whether calls are available is looked up  *)
(* in the moment of the commit here; the code does so a little earlier.    *)
(***************************************************************************)
EXTENDS Naturals

CONSTANTS
    HookahBooking, NoHookahBooking,
    Staff, NoStaff, \* workers of the role "hookah"
    HookahCall,     \* identifiers of calls ever made
    Request,        \* requests that are handled at the same time
    Eta,            \* promised times, in the units of the clock
    HookahMaxTime   \* bound: the clock

ASSUME HookahAssumption ==
    /\ NoHookahBooking \notin HookahBooking /\ NoStaff \notin Staff
    /\ Eta \subseteq Nat \ {0} /\ HookahMaxTime \in Nat

VARIABLES
    hookahCalls, \* hookah_calls
    requests,    \* requests between their steps
    seated,      \* bookings of today that are approved, at an occupied table
    available,   \* hookah_calls_available of the restaurant
    onShift,     \* the workers who are active and on shift
    now

hookahVars == <<hookahCalls, requests, seated, available, onShift, now>>

ActiveStatuses == {"new", "accepted"}

Row ==
    [status    : ActiveStatuses \cup {"none", "completed", "cancelled"},
     booking   : HookahBooking \cup {NoHookahBooking},
     staff     : Staff \cup {NoStaff}, \* acceptedByStaff
     due       : Nat,                  \* etaDueAt (and the rest of the promise), 0 for null
     completed : BOOLEAN,              \* completedAt is set
     cancelled : BOOLEAN]              \* cancelledAt is set

NoHookahCall == [status |-> "none", booking |-> NoHookahBooking, staff |-> NoStaff, due |-> 0,
                 completed |-> FALSE, cancelled |-> FALSE]

NewCall(b) == [NoHookahCall EXCEPT !.status = "new", !.booking = b]

\* The columns that a request may change.
Column == {"status", "staff", "due", "completed", "cancelled"}

RequestState ==
    [kind    : {"idle", "complete", "cancel", "expire", "create"},
     phase   : {"idle", "read", "compared"},
     by      : Staff \cup {NoStaff},                 \* the worker who completes
     booking : HookahBooking \cup {NoHookahBooking}, \* of a new call
     of      : SUBSET HookahCall,                    \* the rows it read and will save
     copy    : [HookahCall -> Row],                  \* what it will save
     changed : [HookahCall -> SUBSET Column]]        \* what it will update

Idle == [kind |-> "idle", phase |-> "idle", by |-> NoStaff, booking |-> NoHookahBooking,
         of |-> {}, copy |-> [k \in HookahCall |-> NoHookahCall],
         changed |-> [k \in HookahCall |-> {}]]

HookahInit ==
    /\ hookahCalls = [k \in HookahCall |-> NoHookahCall]
    /\ requests = [p \in Request |-> Idle]
    /\ seated = {} /\ available = TRUE /\ onShift = {}
    /\ now = 1

-----------------------------------------------------------------------------
(* Reading *)

\* A copy of a row, closed.
ClosedCopy(row, status) ==
    [row EXCEPT !.status = status,
                !.completed = IF status = "completed" THEN TRUE ELSE @,
                !.cancelled = IF status = "cancelled" THEN TRUE ELSE @]

\* The request read the rows K, gave its copies a status, and will save them.
Reads(p, kind, s, b, K, status) ==
    /\ requests[p].phase = "idle"
    /\ requests' = [requests EXCEPT ![p] =
           [kind |-> kind, phase |-> "read", by |-> s, booking |-> b, of |-> K,
            copy |-> [k \in HookahCall |-> IF k \in K THEN ClosedCopy(hookahCalls[k], status) ELSE NoHookahCall],
            changed |-> [k \in HookahCall |-> {}]]]
    /\ UNCHANGED <<hookahCalls, seated, available, onShift, now>>

\* Slip: the call is completed by anyone.
AnyoneCompletes(k, s) == hookahCalls[k].status = "accepted"

\* The worker who accepted the call may complete it.
MayComplete(k, s) == hookahCalls[k].status = "accepted" /\ hookahCalls[k].staff = s

\* complete, up to its check.
Complete(p, k, s) ==
    MayComplete(k, s) /\ Reads(p, "complete", s, NoHookahBooking, {k}, "completed")

\* cancel, up to its check.
Cancel(p, k) ==
    hookahCalls[k].status \in ActiveStatuses /\ Reads(p, "cancel", NoStaff, NoHookahBooking, {k}, "cancelled")

\* expireOverdueCalls: what it finds, of some bookings or of all.
Overdue(B) ==
    {k \in HookahCall : hookahCalls[k].status = "accepted" /\ hookahCalls[k].due <= now /\ hookahCalls[k].booking \in B}

\* guestStatus of a booking; listActive and listMine.
Expire(p, B) ==
    Overdue(B) # {} /\ Reads(p, "expire", NoStaff, NoHookahBooking, Overdue(B), "completed")

\* createFromGuest, while it looks for calls that are overdue.
BeginCreate(p, b) == Reads(p, "create", NoStaff, b, Overdue({b}), "completed")

-----------------------------------------------------------------------------
(* Saving *)

\* Slip: the status is forgotten when the copy is saved.
WithoutStatus(kind) == Column \ {"status"}

\* Expiry does not load the worker, and leaves that column alone.
Loaded(kind) == IF kind \in {"complete", "cancel"} THEN Column ELSE Column \ {"staff"}

\* Slip: every property of the copy is written.
EverythingLoaded(r, k) == DOMAIN r.copy[k]

\* The columns in which the copy differs from the row.
Differing(r, k) == {c \in Loaded(r.kind) : r.copy[k][c] # hookahCalls[k][c]}

\* save: the rows are read again and compared.
Compare(p) ==
    LET r == requests[p]
    IN  /\ r.phase = "read"
        /\ requests' = [requests EXCEPT
               ![p].phase = "compared",
               ![p].changed = [k \in HookahCall |-> IF k \in r.of THEN Differing(r, k) ELSE {}]]
        /\ UNCHANGED <<hookahCalls, seated, available, onShift, now>>

\* The row with the columns cs of the copy.
Updated(row, copy, cs) ==
    [status    |-> IF "status" \in cs THEN copy.status ELSE row.status,
     booking   |-> row.booking,
     staff     |-> IF "staff" \in cs THEN copy.staff ELSE row.staff,
     due       |-> IF "due" \in cs THEN copy.due ELSE row.due,
     completed |-> IF "completed" \in cs THEN copy.completed ELSE row.completed,
     cancelled |-> IF "cancelled" \in cs THEN copy.cancelled ELSE row.cancelled]

\* What the request makes of the calls.
Saved(p) == [k \in HookahCall |-> Updated(hookahCalls[k], requests[p].copy[k], requests[p].changed[k])]

Finished(p) == requests' = [requests EXCEPT ![p] = Idle]

\* save: the update.
Save(p) ==
    /\ requests[p].phase = "compared" /\ requests[p].kind # "create"
    /\ hookahCalls' = Saved(p)
    /\ Finished(p)
    /\ UNCHANGED <<seated, available, onShift, now>>

\* Slip: a call that somebody accepted does not count.
SomeNew(table, b) == \E k \in HookahCall : table[k].booking = b /\ table[k].status = "new"

\* There is an active call of the booking.
SomeActive(table, b) ==
    \E k \in HookahCall : table[k].booking = b /\ table[k].status \in ActiveStatuses

\* createFromGuest, from the update of what was overdue: under the lock of the
\* booking a new call is made, unless there is one.
Create(p) ==
    LET b == requests[p].booking
    IN  /\ requests[p].phase = "compared" /\ requests[p].kind = "create"
        /\ b \in seated /\ available /\ onShift # {}
        /\ \/ SomeActive(Saved(p), b) /\ hookahCalls' = Saved(p)
           \/ /\ ~SomeActive(Saved(p), b)
              /\ \E k \in HookahCall : /\ hookahCalls[k].status = "none"
                                       /\ hookahCalls' = [Saved(p) EXCEPT ![k] = NewCall(b)]
        /\ Finished(p)
        /\ UNCHANGED <<seated, available, onShift, now>>

\* A request is refused or fails, and its transaction is rolled back.
Fail(p) ==
    /\ requests[p].phase # "idle"
    /\ Finished(p)
    /\ UNCHANGED <<hookahCalls, seated, available, onShift, now>>

\* Slip: a call that is accepted may be accepted by another worker.
StillActive(k) == hookahCalls[k].status \in ActiveStatuses

\* What accept asks of the call, once it has locked it.
MayAcceptHookah(k) == hookahCalls[k].status = "new"

\* accept: by a worker on shift, who promises a time.
AcceptHookah(k, s, eta) ==
    /\ s \in onShift /\ MayAcceptHookah(k)
    /\ hookahCalls' = [hookahCalls EXCEPT ![k].status = "accepted", ![k].staff = s, ![k].due = now + eta]
    /\ UNCHANGED <<requests, seated, available, onShift, now>>

-----------------------------------------------------------------------------
(* Around the calls *)

\* setAvailability: by a worker on shift.
SetAvailability ==
    /\ onShift # {} /\ available' = ~available
    /\ UNCHANGED <<hookahCalls, requests, seated, onShift, now>>

\* Guests sit down or leave; workers begin or end a shift.
Seat(b) ==
    /\ seated' \in {seated \cup {b}, seated \ {b}}
    /\ UNCHANGED <<hookahCalls, requests, available, onShift, now>>

Shift(s) ==
    /\ onShift' \in {onShift \cup {s}, onShift \ {s}}
    /\ UNCHANGED <<hookahCalls, requests, seated, available, now>>

Tick ==
    /\ now < HookahMaxTime /\ now' = now + 1
    /\ UNCHANGED <<hookahCalls, requests, seated, available, onShift>>

-----------------------------------------------------------------------------
Step(p) ==
    \/ \E k \in HookahCall : Cancel(p, k) \/ \E s \in Staff : Complete(p, k, s)
    \/ \E b \in HookahBooking : Expire(p, {b}) \/ BeginCreate(p, b)
    \/ Expire(p, HookahBooking)
    \/ Compare(p) \/ Save(p) \/ Create(p) \/ Fail(p)

HookahNext ==
    \/ \E p \in Request : Step(p)
    \/ \E k \in HookahCall, s \in Staff, eta \in Eta : AcceptHookah(k, s, eta)
    \/ \E b \in HookahBooking : Seat(b)
    \/ \E s \in Staff : Shift(s)
    \/ SetAvailability \/ Tick

HookahSpec == HookahInit /\ [][HookahNext]_hookahVars

-----------------------------------------------------------------------------
(* Properties *)

\* Every variable has its type.
HookahTypeOK ==
    /\ hookahCalls \in [HookahCall -> Row]
    /\ requests \in [Request -> RequestState]
    /\ seated \subseteq HookahBooking /\ onShift \subseteq Staff
    /\ available \in BOOLEAN /\ now \in Nat

HookahActive(k) == hookahCalls[k].status \in ActiveStatuses

\* A booking has one active call at most, whatever late answers overwrite.
OneActiveHookahCall ==
    \A j, k \in HookahCall :
        j # k /\ HookahActive(j) /\ HookahActive(k) => hookahCalls[j].booking # hookahCalls[k].booking

\* An accepted call has a worker and a promised time: no answer that saw the call
\* before it was accepted takes them away and leaves the call accepted.
AcceptedIsPromised ==
    \A k \in HookahCall : hookahCalls[k].status = "accepted" => hookahCalls[k].staff # NoStaff /\ hookahCalls[k].due > 0

\* Whatever late answers overwrite, the active calls stay one for a booking, each
\* accepted one with its worker and promise.
ActiveCallsAreSound == OneActiveHookahCall /\ AcceptedIsPromised

\* A call that is closed is never active again, and an accepted call neither
\* returns to the others nor changes its worker or its promise while it is active,
\* however stale the copies are that are saved.
HookahCallsMoveOn ==
    [][\A k \in HookahCall :
        LET old == hookahCalls[k]
            new == hookahCalls'[k]
        IN  /\ old.status \in {"completed", "cancelled"} => new.status \notin ActiveStatuses
            /\ old.status = "accepted" /\ new.status \in ActiveStatuses => new = old]_hookahVars

\* A call that is waited for is completed by the worker who promised to come, or
\* because that time is over, even if the copy that completes it is stale.
CompletedForCause ==
    [][\A k \in HookahCall :
        hookahCalls[k].status \in ActiveStatuses /\ hookahCalls'[k].status = "completed" =>
            \/ hookahCalls[k].due <= now
            \/ \E p \in Request : /\ requests[p].kind = "complete" /\ k \in requests[p].of
                                  /\ requests[p].by = hookahCalls[k].staff]_hookahVars
=============================================================================
