----------------------------- MODULE TelegramBot -----------------------------
(***************************************************************************)
(* The bot of the staff (src/backend/src/telegram): messages with buttons  *)
(* that are pressed long after they were sent, by several people, while    *)
(* the web application changes the same rows.                              *)
(*                                                                         *)
(* A press is a request of its own: the account is looked up, some buttons *)
(* look at the state again, and only then a service of module Bookings,    *)
(* WaiterCalls or HookahCalls is called, here one action each.  Accounts   *)
(* and shifts come and go: a press by somebody who may not is refused, like*)
(* one whose service throws, and changes nothing.  A message of a menu is  *)
(* deleted when its button has worked; deleting may fail, and              *)
(* notifications stay.  A person has in front of them one message of a     *)
(* menu, which may be old, and all the notifications.  Drafts are the      *)
(* subject of TelegramDrafts, the state of the restaurant of RestaurantDay.*)
(***************************************************************************)
EXTENDS Naturals

CONSTANTS Person, Nobody

ASSUME BotAssumption == Nobody \notin Person

VARIABLES
    part,    \* the part of the bot explored: each has behaviours of its own
    role,    \* roles of the accounts
    screen,  \* buttons of the message of a menu in front of a person
    notices, \* buttons of the notifications
    presses, \* the press of a person that is being handled
    visit,   \* a booking of today with its table and the request for another time
    keeper,  \* assignments: the waiter whom the memory of the process names
    call     \* a call for the waiter or for hookah

botVars == <<part, role, screen, notices, presses, visit, keeper, call>>
rowsOfBot == <<visit, keeper, call>>

Part == {"visit", "request", "call", "hookah"}
Closed == {"rejected", "cancelled", "completed"}
Physical == {"occupied", "cleaning"}
BotVisit ==
    [status : {"none", "pending", "approved"} \cup Closed, arrived : BOOLEAN,
     table : {"free", "pending", "reserved", "closed"} \cup Physical,
     request : {"none", "pending", "resolved"}]
BotCall ==
    [status : {"none", "new", "accepted", "closed"}, of : Person \cup {Nobody},
     available : BOOLEAN]

If(c, x) == {y \in {x} : c}
Seated == visit.status = "approved" /\ visit.arrived
Active == visit.status \in {"pending", "approved"}

-----------------------------------------------------------------------------
(* Screens: what the messages of the menus offer *)

\* A waiter's screen of a booking offers the step that comes next, ...
WaiterOffers(b) ==
    /\ visit.status = "approved"
    /\ \/ /\ b = "waiter:booking_checkin"
          /\ ~visit.arrived /\ visit.table \notin Physical \cup {"closed"}
       \/ b = "waiter:booking_cleaning" /\ visit.arrived /\ visit.table = "occupied"
       \/ b = "waiter:booking_complete" /\ visit.arrived /\ visit.table = "cleaning"

\* ... an administrator's the decision that is open.
AdminOffers(b) ==
    \/ b \in {"admin:booking_approve", "admin:booking_reject"} /\ visit.status = "pending"
    \/ b = "admin:booking_checkin" /\ visit.status = "approved" /\ ~visit.arrived
    \/ b = "admin:booking_complete" /\ Seated

\* Calls are listed that nobody has or that the waiter has.
CallOffers(b, p) ==
    /\ part = "call" /\ call.of \in {Nobody, p}
    /\ \/ b = "waiter:call_accept" /\ call.status = "new"
       \/ b = "waiter:call_close" /\ call.status = "accepted"

HookahOffers(b, p) ==
    /\ part = "hookah"
    /\ \/ b = "hookah:accept" /\ call.status = "new"
       \/ b = "hookah:complete" /\ call.status = "accepted" /\ call.of = p
       \/ b = "hookah:availability_off" /\ call.available
       \/ b = "hookah:availability_on" /\ ~call.available

WaiterTable == {"waiter:table_occupied", "waiter:table_free"}
WaiterBooking == {"waiter:booking_checkin", "waiter:booking_cleaning", "waiter:booking_complete"}
AdminBooking == {"admin:booking_approve", "admin:booking_reject", "admin:booking_checkin",
                 "admin:booking_complete"}
Reschedule == {"admin:reschedule_approve", "admin:reschedule_reject"}
CallButtons == {"waiter:call_accept", "waiter:call_close"}
HookahButtons == {"hookah:accept", "hookah:complete", "hookah:availability_on",
                  "hookah:availability_off"}
Notices == {"booking:approve", "booking:reject", "booking:cancel", "reschedule:approve",
            "reschedule:reject", "waiter:call_accept", "hookah:accept"}
Button == WaiterTable \cup WaiterBooking \cup AdminBooking \cup Reschedule \cup CallButtons
              \cup HookahButtons \cup Notices

\* The screens that can be opened now, each with the buttons that do something:
\* lists and steps back are open to everybody at any time.
WaiterScreens(p) ==
    {{b \in WaiterTable : part = "visit"}, {b \in WaiterBooking : WaiterOffers(b)},
     {b \in CallButtons : CallOffers(b, p)}}
HookahScreens(p) == {{b \in HookahButtons : HookahOffers(b, p)}}
AdminScreens ==
    {{b \in AdminBooking : AdminOffers(b)}, {b \in Reschedule : visit.request = "pending"}}
Screens(p) ==
    CASE role[p] = "waiter" -> WaiterScreens(p)
      [] role[p] = "hookah" -> HookahScreens(p)
      [] role[p] = "admin" -> AdminScreens

-----------------------------------------------------------------------------
(* Services: the visits that a service may leave, none when it throws *)

\* remainingBookingStatusForTable, after the booking has ended.
Released == IF visit.table \in Physical \cup {"closed"} THEN visit.table ELSE "free"

\* coordinatedTransition 'approve' ...
Approval ==
    If(visit.status = "approved", visit)
        \cup If(visit.status = "pending" /\ visit.table /= "closed",
                [visit EXCEPT !.status = "approved",
                              !.table = IF @ \in Physical THEN @ ELSE "reserved"])

\* ... and 'checkIn': a second one changes nothing.
Arrival ==
    If(Seated, visit)
        \cup If(Active /\ ~Seated /\ visit.table \notin Physical \cup {"closed"},
                [visit EXCEPT !.status = "approved", !.arrived = TRUE, !.table = "occupied"])

\* reject and cancel: whatever became of the booking meanwhile.
Ended(status) ==
    If(visit.status /= "none", [visit EXCEPT !.status = status, !.table = Released])

Completion ==
    If(visit.status = "completed", visit)
        \cup If(Active, [visit EXCEPT !.status = "completed",
                                      !.table = IF @ = "closed" THEN @ ELSE "free"])

\* Slip: freed without a look at the bookings.
FreedAtOnce == {[visit EXCEPT !.table = "free"]}

\* setWaiterStatus 'free': active bookings keep the table.
FreedByWaiter ==
    {[visit EXCEPT !.table = CASE Seated -> "occupied"
                               [] visit.status = "approved" /\ ~visit.arrived -> "reserved"
                               [] visit.status = "pending" -> "pending"
                               [] OTHER -> "free"]}

OccupiedByWaiter ==
    If(visit.table \notin {"closed", "reserved", "pending"}, [visit EXCEPT !.table = "occupied"])

\* BookingRescheduleApprovalService.approve; the other time may be taken.
Rescheduled ==
    If(visit.request = "pending" /\ Active /\ ~visit.arrived /\ visit.table /= "closed",
       [visit EXCEPT !.request = "resolved"])
NotRescheduled == If(visit.request = "pending", [visit EXCEPT !.request = "resolved"])

VisitAfter(b) ==
    CASE b \in {"booking:approve", "admin:booking_approve"} -> Approval
      [] b \in {"booking:reject", "admin:booking_reject"} -> Ended("rejected")
      [] b = "booking:cancel" -> Ended("cancelled")
      [] b \in {"admin:booking_checkin", "waiter:booking_checkin"} -> Arrival
      [] b \in {"admin:booking_complete", "waiter:booking_complete"} -> Completion
      [] b = "waiter:booking_cleaning" -> {[visit EXCEPT !.table = "cleaning"]}
      [] b = "waiter:table_occupied" -> OccupiedByWaiter
      [] b = "waiter:table_free" -> FreedByWaiter
      [] b \in {"reschedule:approve", "admin:reschedule_approve"} -> Rescheduled
      [] b \in {"reschedule:reject", "admin:reschedule_reject"} -> NotRescheduled
      [] OTHER -> {}

\* WaiterCallsService.accept and close, HookahCallsService.accept, complete and
\* setAvailability.
CallAfter(b, p) ==
    CASE b = "waiter:call_accept" ->
            If(call.status \in {"new", "accepted"} /\ call.of \in {Nobody, p},
               [call EXCEPT !.status = "accepted", !.of = p])
      [] b \in {"waiter:call_close", "hookah:complete"} ->
            If(call.status = "accepted" /\ call.of = p, [call EXCEPT !.status = "closed"])
      [] b = "hookah:accept" ->
            If(call.status = "new", [call EXCEPT !.status = "accepted", !.of = p])
      [] b = "hookah:availability_on" -> {[call EXCEPT !.available = TRUE]}
      [] b = "hookah:availability_off" -> {[call EXCEPT !.available = FALSE]}
      [] OTHER -> {}

-----------------------------------------------------------------------------
(* Steps *)

Rechecked == WaiterBooking \cup AdminBooking
NoPress == [step |-> "idle", button |-> "waiter:booking_checkin"]
Press == [step : {"idle", "checked", "assigning"}, button : Rechecked]

BotInit ==
    /\ part \in Part
    /\ role \in [Person -> CASE part = "visit" -> {"waiter", "admin"}
                            [] part = "call" -> {"waiter"}
                            [] part = "hookah" -> {"hookah"}
                            [] part = "request" -> {"admin"}]
    /\ screen = [p \in Person |-> {}]
    /\ notices = {}
    /\ presses = [p \in Person |-> NoPress]
    /\ visit = [status |-> "none", arrived |-> FALSE, table |-> "free", request |-> "none"]
    /\ keeper = Nobody
    /\ call = [status |-> "none", of |-> Nobody, available |-> TRUE]

\* A menu, a list or a screen is sent with the buttons for the present state.
Open(p) ==
    /\ \E S \in Screens(p) : S /= {} /\ screen' = [screen EXCEPT ![p] = S]
    /\ UNCHANGED <<part, role, notices, presses, rowsOfBot>>

\* CALLBACK_ROLE_RULES: the buttons that a person of this role may press.
Within(p) ==
    screen[p] \cup
        {n \in notices : role[p] = CASE n = "waiter:call_accept" -> "waiter"
                                     [] n = "hookah:accept" -> "hookah"
                                     [] OTHER -> "admin"}

\* A message of a menu that was answered is deleted, unless deleting fails.
Answered(p, b) ==
    \/ b \in screen[p] /\ screen' = [screen EXCEPT ![p] = {}]
    \/ UNCHANGED screen

\* runBookingAction, checkInBooking, startCleaning, completeBooking: the booking
\* is read again, and the button of an outdated message does nothing.
Recheck(p, b) ==
    /\ presses[p].step = "idle"
    /\ b \in Within(p) \cap Rechecked
    /\ IF WaiterOffers(b) \/ AdminOffers(b)
       THEN /\ presses' = [presses EXCEPT ![p] = [step |-> "checked", button |-> b]]
            /\ UNCHANGED screen
       ELSE Answered(p, b) /\ UNCHANGED presses
    /\ UNCHANGED <<part, role, notices, rowsOfBot>>

\* Every other button calls its service at once.
ServeAtOnce(p, b) ==
    /\ presses[p].step = "idle"
    /\ b \in Within(p) \ Rechecked
    /\ \/ visit' \in VisitAfter(b) /\ UNCHANGED call
       \/ call' \in CallAfter(b, p) /\ UNCHANGED visit
    /\ Answered(p, b)
    /\ UNCHANGED <<part, role, notices, presses, keeper>>

\* After the booking was found as shown; who seats guests is remembered next.
ServeChecked(p) ==
    LET b == presses[p].button
    IN  /\ presses[p].step = "checked"
        /\ visit' \in VisitAfter(b)
        /\ IF b = "waiter:booking_checkin"
           THEN presses' = [presses EXCEPT ![p].step = "assigning"] /\ UNCHANGED screen
           ELSE presses' = [presses EXCEPT ![p] = NoPress] /\ Answered(p, b)
        /\ UNCHANGED <<part, role, notices, keeper, call>>

\* WaiterCallsService.assign.
AssignPresser(p) ==
    /\ presses[p].step = "assigning"
    /\ keeper' = p
    /\ presses' = [presses EXCEPT ![p] = NoPress]
    /\ Answered(p, presses[p].button)
    /\ UNCHANGED <<part, role, notices, visit, call>>

\* A service throws, or the process stops: the message is kept.
PressFails(p) ==
    /\ presses[p].step /= "idle"
    /\ presses' = [presses EXCEPT ![p] = NoPress]
    /\ UNCHANGED <<part, role, screen, notices, rowsOfBot>>

\* A guest makes the booking, asks for another time or is late: administrators
\* are told, with buttons.
GuestBooks ==
    /\ part \in {"visit", "request"} /\ visit.status = "none"
    /\ visit' = [visit EXCEPT !.status = "pending",
                              !.table = IF @ = "free" THEN "pending" ELSE @]
    /\ notices' = {n \in {"booking:approve", "booking:reject"} : part = "visit"}
    /\ UNCHANGED <<part, role, screen, presses, keeper, call>>

GuestAsks ==
    /\ part = "request" /\ Active /\ ~visit.arrived /\ visit.request = "none"
    /\ visit' = [visit EXCEPT !.request = "pending"]
    /\ notices' = notices \cup {"reschedule:approve", "reschedule:reject"}
    /\ UNCHANGED <<part, role, screen, presses, keeper, call>>

GuestIsLate ==
    /\ part = "visit" /\ visit.status = "approved" /\ ~visit.arrived
    /\ notices' = notices \cup {"booking:cancel"}
    /\ UNCHANGED <<part, role, screen, presses, rowsOfBot>>

\* The web application calls the same services, and sets the table by hand.
WebApplication ==
    /\ part \in {"visit", "request"} /\ visit.status /= "none"
    /\ \/ \E b \in Button : visit' \in VisitAfter(b)
       \/ \E t \in {"free", "closed"} : visit' = [visit EXCEPT !.table = t]
    /\ UNCHANGED <<part, role, screen, notices, presses, keeper, call>>

\* A guest calls, a waiter of theirs or any, and who may accept is told; ...
GuestCalls ==
    /\ part \in {"call", "hookah"} /\ call.status = "none"
    /\ \E p \in {Nobody} \cup {q \in Person : part = "call"} :
          call' = [call EXCEPT !.status = "new", !.of = p]
    /\ notices' = {IF part = "call" THEN "waiter:call_accept" ELSE "hookah:accept"}
    /\ UNCHANGED <<part, role, screen, presses, visit, keeper>>

\* ... the end of the visit closes the call.
CallEnds ==
    /\ call.status \in {"new", "accepted"}
    /\ call' = [call EXCEPT !.status = "closed"]
    /\ UNCHANGED <<part, role, screen, notices, presses, visit, keeper>>

BotNext ==
    \/ \E p \in Person :
          \/ Open(p) \/ ServeChecked(p) \/ AssignPresser(p) \/ PressFails(p)
          \/ \E b \in Button : Recheck(p, b) \/ ServeAtOnce(p, b)
    \/ GuestBooks \/ GuestAsks \/ GuestIsLate \/ WebApplication \/ GuestCalls \/ CallEnds

BotSpec == BotInit /\ [][BotNext]_botVars

-----------------------------------------------------------------------------
(* Properties *)

\* Every variable has its type.
BotTypeOK ==
    /\ part \in Part
    /\ role \in [Person -> {"waiter", "admin", "hookah"}]
    /\ screen \in [Person -> SUBSET Button] /\ notices \subseteq Notices
    /\ presses \in [Person -> Press]
    /\ visit \in BotVisit /\ keeper \in Person \cup {Nobody} /\ call \in BotCall

\* However old the button and whatever happened since, no press of a button
\* brings an ended booking back, takes the table from guests who sit, hands an
\* accepted call to somebody else or names a waiter of guests who never came.
PressesAreBound ==
    [][(\E p \in Person : \/ ServeChecked(p) \/ AssignPresser(p)
                          \/ \E b \in Within(p) : ServeAtOnce(p, b))
       => /\ visit.status \in Closed => visit'.status \in Closed
          /\ Seated /\ Seated' /\ visit.table \in Physical => visit'.table \in Physical
          /\ call.status = "accepted" /\ call'.status = "accepted" => call'.of = call.of
          /\ keeper' /= keeper => visit.arrived]_botVars
=============================================================================
