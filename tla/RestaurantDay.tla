---------------------------- MODULE RestaurantDay ----------------------------
(***************************************************************************)
(* The restaurant's row: its settings and status, which director and       *)
(* administrators change (src/backend/src/restaurant), and the marks of    *)
(* the two daily reminders, which the job of every minute sets             *)
(* (src/backend/src/schedules/schedules.service.ts).                       *)
(*                                                                         *)
(* A change of the settings reads the whole row, changes its copy, and     *)
(* saves it without a lock: the save reads the row again, compares, and    *)
(* updates the columns that differ, whoever has changed them.  A reminder  *)
(* is claimed and released under the lock of the row, but in transactions  *)
(* of their own, before and after the messages are sent.                   *)
(***************************************************************************)
EXTENDS Integers, FiniteSets

CONSTANTS
    Editor,     \* requests that are handled at the same time
    Run,        \* runs of the job at the same time, in any process
    Forms,      \* sets of columns that a form of the director carries
    Times,      \* two minutes of the day at which a reminder may be due
    DayLen,     \* minutes of a day
    LastDay,    \* bound: days
    MaxHandled  \* bound: changes of the settings

ASSUME RestaurantAssumption ==
    /\ IsFiniteSet(Run) /\ DayLen \in Nat \ {0}
    /\ LastDay \in Nat \ {0} /\ MaxHandled \in Nat

\* A form carries neither the status nor the marks of the reminders, and each of the two
\* times may become the other.
ASSUME FormsAssumption ==
    /\ \A F \in Forms :
         F \cap {"status", "bookingCloseNotifiedAt", "restaurantCloseNotifiedAt"} = {}
    /\ Times \subseteq Nat
    /\ \E early, late \in Times : early # late /\ Times = {early, late}

VARIABLES
    restaurant, \* its row
    changes,    \* changes of the settings between their steps
    runs,       \* runs of the job
    minutes,    \* the minutes since the first day began
    started,    \* whether this minute's run has begun
    handled,    \* how many changes have begun
    reminded    \* history of each reminder of each day

restaurantVars == <<restaurant, changes, runs, minutes, started, handled, reminded>>

ReminderKind == {"booking", "restaurant"}
Day == 1 .. LastDay
None == 0

Status == {"open", "booking_closed", "closed"}
\* The columns that tell whether a reminder is due, and the day it was claimed for.
TimeOf(k) == IF k = "booking" THEN "bookingCloseTime" ELSE "closeTime"
MarkOf(k) == IF k = "booking" THEN "bookingCloseNotifiedAt" ELSE "restaurantCloseNotifiedAt"

\* Of the look of the site and its texts the module keeps which of two they are.
Row ==
    [adminCanManageOnlineBooking : BOOLEAN, adminCanManageRestaurant : BOOLEAN,
     adminCanChangeSiteMode : BOOLEAN, adminCanEditRestaurantSettings : BOOLEAN,
     hookahCallsAvailable : BOOLEAN, siteMode : BOOLEAN, texts : BOOLEAN,
     status : Status,
     bookingCloseTime : Times, bookingCloseNotifiedAt : Day \cup {None},
     closeTime : Times, restaurantCloseNotifiedAt : Day \cup {None}]

\* The row as findOrCreateRestaurant makes it.
NewRow ==
    LET late == CHOOSE t \in Times : \A u \in Times : u <= t
    IN  [adminCanManageOnlineBooking |-> FALSE, adminCanManageRestaurant |-> FALSE,
         adminCanChangeSiteMode |-> FALSE, adminCanEditRestaurantSettings |-> FALSE,
         hookahCallsAvailable |-> TRUE, siteMode |-> FALSE, texts |-> FALSE,
         status |-> "open",
         bookingCloseTime |-> late, bookingCloseNotifiedAt |-> None,
         closeTime |-> late, restaurantCloseNotifiedAt |-> None]

Column == DOMAIN NewRow

ChangeState ==
    [phase : {"idle", "read", "compared"}, copy : Row, changed : SUBSET Column]
RunState ==
    [phase : {"idle", "late", "check", "claim", "deliver", "log", "release"},
     kind : ReminderKind, day : Day, minute : Nat]

\* What happened to a reminder of a day: it was sent, its mark was undone, or there was
\* a reason to have the mark without it.
Note == [sent : Nat, undone : Nat, excused : BOOLEAN]

Idle == [phase |-> "idle", copy |-> NewRow, changed |-> {}]
Resting == [phase |-> "idle", kind |-> "booking", day |-> 1, minute |-> 0]

\* The row after the director gave the administrators every right.
AllGiven ==
    [NewRow EXCEPT !.adminCanManageOnlineBooking = TRUE, !.adminCanManageRestaurant = TRUE,
                   !.adminCanChangeSiteMode = TRUE, !.adminCanEditRestaurantSettings = TRUE]

RestaurantInit ==
    /\ restaurant \in {NewRow, AllGiven}
    /\ changes = [h \in Editor |-> Idle]
    /\ runs = [r \in Run |-> Resting]
    /\ minutes = 0 /\ started = FALSE /\ handled = 0
    /\ reminded = [k \in ReminderKind |-> [d \in Day |->
                     [sent |-> 0, undone |-> 0, excused |-> FALSE]]]

Today == minutes \div DayLen + 1
Minute == minutes % DayLen

-----------------------------------------------------------------------------
(* Changes of the settings *)

\* A handler has read the row and will save this copy.
Reads(h, copy) ==
    /\ changes[h].phase = "idle" /\ handled < MaxHandled
    /\ changes' = [changes EXCEPT ![h] = [phase |-> "read", copy |-> copy, changed |-> {}]]
    /\ handled' = handled + 1
    /\ UNCHANGED <<restaurant, runs, minutes, started, reminded>>

\* The other value of a column.
Other(c, v) ==
    IF c \in {TimeOf(k) : k \in ReminderKind} THEN CHOOSE t \in Times : t # v ELSE ~v

\* update: the director's form.
Update(h) == \E F \in Forms :
    Reads(h, [c \in Column |-> IF c \in F THEN Other(c, restaurant[c]) ELSE restaurant[c]])

\* The copies of the row with this status, and with a new message or without.
WithStatus(s) == {[restaurant EXCEPT !["status"] = s]}
WithMessage(s) ==
    {[restaurant EXCEPT !["status"] = s, !["texts"] = t] : t \in BOOLEAN}

OpenRestaurant(h) == \E c \in WithStatus("open") : Reads(h, c)  \* openBooking too
CloseBooking(h) == \E c \in WithStatus("booking_closed") : Reads(h, c)
CloseRestaurant(h) == \E c \in WithMessage("closed") : Reads(h, c)

\* updateTheme
UpdateTheme(h) == Reads(h, [restaurant EXCEPT !["siteMode"] = ~@])

\* adminOpenBooking, adminCloseBooking: not when the restaurant is closed.
AdminSwitchBooking(h) ==
    /\ restaurant["adminCanManageOnlineBooking"] /\ restaurant["status"] # "closed"
    /\ \E c \in WithStatus("open") \cup WithStatus("booking_closed") : Reads(h, c)

\* adminOpenRestaurant, adminCloseRestaurant
AdminSwitchRestaurant(h) ==
    /\ restaurant["adminCanManageRestaurant"]
    /\ \E c \in WithStatus("open") \cup WithMessage("closed") : Reads(h, c)

\* adminUpdateTheme, adminChangeSiteMode
AdminUpdateTheme(h) ==
    restaurant["adminCanChangeSiteMode"] /\ Reads(h, [restaurant EXCEPT !["siteMode"] = ~@])

\* adminUpdateSettings
AdminUpdateSettings(h) ==
    /\ restaurant["adminCanEditRestaurantSettings"]
    /\ Reads(h, [restaurant EXCEPT !["texts"] = ~@])

\* setAvailability of the hookah calls, by a worker on shift.
SetAvailability(h) == Reads(h, [restaurant EXCEPT !["hookahCallsAvailable"] = ~@])

\* save: the row is read again and compared with the copy.
CompareRow(h) ==
    /\ changes[h].phase = "read"
    /\ changes' = [changes EXCEPT ![h] =
           [@ EXCEPT !.phase = "compared",
                     !.changed = {c \in Column : changes[h].copy[c] # restaurant[c]}]]
    /\ UNCHANGED <<restaurant, runs, minutes, started, handled, reminded>>

\* The row after the columns cs of the copy are written.
Written(copy, cs) == [c \in Column |-> IF c \in cs THEN copy[c] ELSE restaurant[c]]

\* What a save does to the marks is remembered: those of a day it takes away, and
\* those it puts back.
Noted(new) ==
    [k \in ReminderKind |-> [d \in Day |->
        LET was == restaurant[MarkOf(k)] = d
            is == new[MarkOf(k)] = d
        IN  IF was /\ ~is THEN [reminded[k][d] EXCEPT !.undone = @ + 1]
            ELSE IF ~was /\ is THEN [reminded[k][d] EXCEPT !.excused = TRUE]
            ELSE reminded[k][d]]]

\* save: the update.
Save(h) ==
    LET new == Written(changes[h].copy, changes[h].changed)
    IN  /\ changes[h].phase = "compared"
        /\ restaurant' = new /\ reminded' = Noted(new)
        /\ changes' = [changes EXCEPT ![h] = Idle]
        /\ UNCHANGED <<runs, minutes, started, handled>>

\* The request fails, or its process stops.
ChangeFails(h) ==
    /\ changes[h].phase # "idle"
    /\ changes' = [changes EXCEPT ![h] = Idle]
    /\ UNCHANGED <<restaurant, runs, minutes, started, handled, reminded>>

-----------------------------------------------------------------------------
(* The job of every minute *)

\* Only the state of a run changes.
Becomes(r, s) ==
    /\ runs' = [runs EXCEPT ![r] = s]
    /\ UNCHANGED <<restaurant, changes, minutes, started, handled, reminded>>

\* After one reminder the run looks at the other, or ends.
After(r) ==
    IF runs[r].kind = "booking" THEN [runs[r] EXCEPT !.phase = "check", !.kind = "restaurant"]
                                ELSE Resting

\* The timer fires, and the run begins with the guests who are late.
Begin(r) ==
    /\ runs[r].phase = "idle" /\ ~started
    /\ started' = TRUE
    /\ runs' = [runs EXCEPT ![r] = [Resting EXCEPT !.phase = "late"]]
    /\ UNCHANGED <<restaurant, changes, minutes, handled, reminded>>

\* checkLateGuests has come to its end (what it does is part of module Bookings).
LateChecked(r) == runs[r].phase = "late" /\ Becomes(r, [runs[r] EXCEPT !.phase = "check"])

\* The reminder is due and has not been claimed for the day d.
Due(k, d, m) == m >= restaurant[TimeOf(k)] /\ restaurant[MarkOf(k)] # d

\* The clock is read, and the row, without a lock.
Check(r) ==
    /\ runs[r].phase = "check"
    /\ Becomes(r, IF Due(runs[r].kind, Today, Minute)
                  THEN [runs[r] EXCEPT !.phase = "claim", !.day = Today, !.minute = Minute]
                  ELSE After(r))

\* Slip: the lock of the row is taken, but nothing is looked at again.
DueUnlocked(k, d, m) == m >= restaurant[TimeOf(k)]

\* What claimRestaurantReminder asks once it has locked the row.
MayClaim(k, d, m) == Due(k, d, m)

\* claimRestaurantReminder
Claim(r) ==
    LET u == runs[r]
    IN  /\ u.phase = "claim"
        /\ IF MayClaim(u.kind, u.day, u.minute)
           THEN /\ restaurant' = [restaurant EXCEPT ![MarkOf(u.kind)] = u.day]
                /\ runs' = [runs EXCEPT ![r].phase = "deliver"]
           ELSE /\ runs' = [runs EXCEPT ![r] = After(r)]
                /\ UNCHANGED restaurant
        /\ UNCHANGED <<changes, minutes, started, handled, reminded>>

\* sendToRoles has an answer about every administrator: some got the message ...
Delivered(r) ==
    LET u == runs[r]
    IN  /\ u.phase = "deliver"
        /\ runs' = [runs EXCEPT ![r].phase = "log"]
        /\ reminded' = [reminded EXCEPT ![u.kind][u.day].sent = @ + 1]
        /\ UNCHANGED <<restaurant, changes, minutes, started, handled>>

\* ... there is none to send it to ...
NobodyThere(r) ==
    LET u == runs[r]
    IN  /\ u.phase = "deliver"
        /\ runs' = [runs EXCEPT ![r].phase = "log"]
        /\ reminded' = [reminded EXCEPT ![u.kind][u.day].excused = TRUE]
        /\ UNCHANGED <<restaurant, changes, minutes, started, handled>>

\* ... or nobody got it.
NotDelivered(r) ==
    runs[r].phase = "deliver" /\ Becomes(r, [runs[r] EXCEPT !.phase = "release"])

\* Slip: what could not be delivered stays claimed.
KeepsClaim(u) == restaurant

\* The row after a reminder of today is free again.
Released(u) ==
    IF restaurant[MarkOf(u.kind)] = u.day
    THEN [restaurant EXCEPT ![MarkOf(u.kind)] = None] ELSE restaurant

\* releaseRestaurantReminder; the claim it takes away may have become another's.
ReleaseClaim(r) ==
    LET u == runs[r]
    IN  /\ u.phase = "release"
        /\ restaurant' = Released(u)
        /\ reminded' = IF reminded[u.kind][u.day].undone > 0 /\ Released(u) # restaurant
                      THEN [reminded EXCEPT ![u.kind][u.day].undone = @ + 1] ELSE reminded
        /\ runs' = [runs EXCEPT ![r] = After(r)]
        /\ UNCHANGED <<changes, minutes, started, handled>>

LogReminder(r) == runs[r].phase = "log" /\ Becomes(r, After(r))

\* An exception ends the run, about one late guest, a query or the log, or the
\* process stops: what was claimed and not delivered is lost for the day.
BreakOff(r) ==
    LET u == runs[r]
    IN  /\ u.phase # "idle"
        /\ runs' = [runs EXCEPT ![r] = Resting]
        /\ reminded' = IF u.phase \in {"deliver", "release"}
                      THEN [reminded EXCEPT ![u.kind][u.day].excused = TRUE] ELSE reminded
        /\ UNCHANGED <<restaurant, changes, minutes, started, handled>>

\* A minute passes.  No run lags behind midnight: reminders are of the evening, and
\* a run takes seconds.
Tick ==
    /\ minutes + 1 < LastDay * DayLen
    /\ (minutes + 1) % DayLen = 0 => \A r \in Run : runs[r].phase \in {"idle", "late", "check"}
    /\ minutes' = minutes + 1 /\ started' = FALSE
    /\ UNCHANGED <<restaurant, changes, runs, handled, reminded>>

-----------------------------------------------------------------------------
Change(h) ==
    \/ Update(h) \/ UpdateTheme(h)
    \/ OpenRestaurant(h) \/ CloseBooking(h) \/ CloseRestaurant(h)
    \/ AdminSwitchBooking(h) \/ AdminSwitchRestaurant(h)
    \/ AdminUpdateTheme(h) \/ AdminUpdateSettings(h) \/ SetAvailability(h)

RunStep(r) ==
    \/ Begin(r) \/ LateChecked(r) \/ Check(r) \/ Claim(r)
    \/ Delivered(r) \/ NobodyThere(r) \/ NotDelivered(r)
    \/ ReleaseClaim(r) \/ LogReminder(r) \/ BreakOff(r)

RestaurantNext ==
    \/ \E h \in Editor : Change(h) \/ CompareRow(h) \/ Save(h) \/ ChangeFails(h)
    \/ \E r \in Run : RunStep(r)
    \/ Tick

RestaurantSpec == RestaurantInit /\ [][RestaurantNext]_restaurantVars

-----------------------------------------------------------------------------
(* Properties *)

\* Every variable has its type.
RestaurantTypeOK ==
    /\ restaurant \in Row
    /\ changes \in [Editor -> ChangeState] /\ handled \in 0 .. MaxHandled
    /\ runs \in [Run -> RunState] /\ started \in BOOLEAN
    /\ minutes \in 0 .. LastDay * DayLen - 1
    /\ reminded \in [ReminderKind -> [Day -> Note]]

\* A run between the claim of a reminder and the end of its delivery.
IsReminding(r, k, d) ==
    runs[r].phase \in {"deliver", "release"} /\ runs[r].kind = k /\ runs[r].day = d

\* The administrators are reminded once a day, however many runs and processes
\* there are, unless a change of the settings that had read the row before took
\* the mark away; and the mark of a day stands for a reminder that was sent or is
\* being sent, unless there was nobody to send it to, the run broke off, or a
\* late save put the mark back.
RemindersAreTrue ==
    \A k \in ReminderKind : \A d \in Day :
        /\ reminded[k][d].sent <= 1 + reminded[k][d].undone
        /\ restaurant[MarkOf(k)] = d =>
                      \/ reminded[k][d].sent > 0 \/ reminded[k][d].excused
                      \/ \E r \in Run : IsReminding(r, k, d)
=============================================================================
