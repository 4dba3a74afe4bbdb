--------------------------- MODULE GuestCallsProofs ---------------------------
(***************************************************************************)
(* What guests who call a waiter or a hookah worker can rely on, and the   *)
(* staff that press the buttons of the bot: for any number of bookings,    *)
(* tables, workers, calls, concurrent requests and old buttons.            *)
(***************************************************************************)
EXTENDS MCGuestCalls, SequenceTheorems, TLAPS

-----------------------------------------------------------------------------
(***************************************************************************)
(* Calls of waiters.  The invariant is inductive as soon as calls that are *)
(* not made yet are known to name no waiter.                               *)
(***************************************************************************)

\* Calls that are not made yet name nobody.
Unmade == \A k \in Call : calls[k].status = "none" => calls[k].waiter = NoWaiter

CallsInv == TypeOK /\ OneActiveCall /\ EndedWithVisit /\ Unmade

USE CallsAssumption

-----------------------------------------------------------------------------
(* Whose waiter? *)

LEMMA ResolvedType ==
  ASSUME TypeOK, NEW b \in Booking
  PROVE  Resolved(b) \subseteq Waiter
  <1>1. \A a \in Current(b) : a.waiter \in Waiter
    BY DEF TypeOK, Current, InMemory, Candidates, Assignment
  <1>2. \A k \in Persisted(b) : calls[k].waiter \in Waiter
    BY DEF TypeOK, Persisted, CallRecord
  <1>3. visits[b].seatedBy \subseteq Waiter
    BY DEF TypeOK, Visit
  <1> QED  BY <1>1, <1>2, <1>3 DEF Resolved

LEMMA MemoryType ==
  ASSUME TypeOK, NEW b \in Booking
  PROVE  Detached(b) \subseteq Assignment /\ AfterResolving(b) \subseteq Assignment
  BY DEF TypeOK, Detached, AfterResolving

\* Closing the calls of a booking touches no other call, and only status and activity.
LEMMA Closing ==
  ASSUME TypeOK, NEW b \in Booking, NEW k \in Call
  PROVE  /\ WithoutCallsOf(b)[k].booking = calls[k].booking
         /\ WithoutCallsOf(b)[k].waiter = calls[k].waiter
         /\ WithoutCallsOf(b)[k].status \in {calls[k].status, "closed"}
         /\ WithoutCallsOf(b)[k].active \in {calls[k].active, FALSE}
         /\ calls[k].booking # b => WithoutCallsOf(b)[k] = calls[k]
         /\ calls[k].booking = b => /\ WithoutCallsOf(b)[k].status \notin ActiveCallStatuses
                                    /\ ~WithoutCallsOf(b)[k].active
  <1>1. \A j \in Call : calls[j] \in CallRecord
    BY DEF TypeOK
  <1>4. CASE calls[k].booking = b /\ (IsActive(k) \/ calls[k].active)
    <2>1. WithoutCallsOf(b)[k] = [calls[k] EXCEPT !.status = "closed", !.active = FALSE]
      BY <1>4 DEF WithoutCallsOf
    <2> QED  BY <1>1, <1>4, <2>1 DEF CallRecord, ActiveCallStatuses
  <1>5. CASE ~(calls[k].booking = b /\ (IsActive(k) \/ calls[k].active))
    <2>1. WithoutCallsOf(b)[k] = calls[k]
      BY <1>5 DEF WithoutCallsOf
    <2>2. calls[k].active \in BOOLEAN
      BY <1>1 DEF CallRecord
    <2> QED  BY <1>5, <2>1, <2>2 DEF IsActive
  <1> QED  BY <1>4, <1>5

LEMMA TypedWithoutCalls ==
  ASSUME TypeOK, NEW b \in Booking
  PROVE  WithoutCallsOf(b) \in [Call -> CallRecord]
  <1>1. \A j \in Call : [calls[j] EXCEPT !.status = "closed", !.active = FALSE] \in CallRecord
    BY ZenonT(40) DEF TypeOK, CallRecord
  <1> QED  BY <1>1, ZenonT(40) DEF TypeOK, WithoutCallsOf

-----------------------------------------------------------------------------
(* The invariant *)

THEOREM CallsInit == Init => CallsInv
  <1> SUFFICES ASSUME Init PROVE CallsInv
    OBVIOUS
  <1>1. calls = [k \in Call |-> NoCall]
    BY DEF Init
  <1>2. NoCall \in CallRecord
    BY DEF NoCall, CallRecord
  <1>3. visits \in [Booking -> Visit]
    <2> DEFINE Requested ==
          {[status |-> "pending", table |-> t, checkedIn |-> FALSE,
            approvedAt |-> 0, seatedBy |-> {}, moves |-> 0] : t \in Table}
    <2>1. Requested \subseteq Visit
      <3>1. \A t \in Table : [status |-> "pending", table |-> t, checkedIn |-> FALSE,
                              approvedAt |-> 0, seatedBy |-> {}, moves |-> 0] \in Visit
        BY DEF Visit
      <3> QED  BY <3>1
    <2>2. visits \in [Booking -> Requested]
      BY DEF Init
    <2> HIDE DEF Requested
    <2> QED  BY <2>1, <2>2
  <1>4. TypeOK
    BY <1>1, <1>2, <1>3 DEF Init, TypeOK
  <1>5. OneActiveCall /\ EndedWithVisit /\ Unmade
    BY <1>1 DEF OneActiveCall, EndedWithVisit, Unmade, IsActive, ActiveCallStatuses, NoCall
  <1> QED  BY <1>4, <1>5 DEF CallsInv

\* A step that leaves the calls alone, and closes no booking.
LEMMA CallsUntouched ==
  ASSUME CallsInv, TypeOK', UNCHANGED calls,
         \A b \in Booking : visits'[b].status = "closed" => visits[b].status = "closed"
  PROVE  CallsInv'
  BY DEF CallsInv, OneActiveCall, EndedWithVisit, Unmade, IsActive

LEMMA CreateKeeps ==
  ASSUME CallsInv, NEW b \in Booking, NEW k \in Call, CreateFromGuest(b, k)
  PROVE  CallsInv'
  <1>1. PICK w \in Waiter \cup {NoWaiter} :
           calls' = [calls EXCEPT
               ![k] = [status |-> "new", booking |-> b, waiter |-> w, active |-> TRUE,
                       at |-> clock', move |-> visits[b].moves]]
    BY ResolvedType DEF CallsInv, CreateFromGuest
  <1>2. visits[b].moves \in Nat /\ clock' \in Nat
    BY DEF CallsInv, TypeOK, Visit, CreateFromGuest, Dated
  <1>3. calls' \in [Call -> CallRecord]
    BY <1>1, <1>2 DEF CallsInv, TypeOK, CallRecord, ActiveCallStatuses
  <1>4. TypeOK'
    BY <1>2, <1>3, MemoryType DEF CallsInv, TypeOK, CreateFromGuest
  <1>5. \A j \in Call : j # k => calls'[j] = calls[j]
    BY <1>1 DEF CallsInv, TypeOK
  <1>6. calls'[k].booking = b /\ calls'[k].status = "new" /\ visits'[b].status = "approved"
    BY <1>1 DEF CallsInv, TypeOK, CreateFromGuest
  <1>7. OneActiveCall'
    BY <1>5, <1>6 DEF CallsInv, OneActiveCall, IsActive, CreateFromGuest, NoActiveCall
  <1>8. EndedWithVisit'
    BY <1>5, <1>6 DEF CallsInv, EndedWithVisit, IsActive, CreateFromGuest
  <1>9. Unmade'
    BY <1>5, <1>6 DEF CallsInv, Unmade
  <1> QED  BY <1>4, <1>7, <1>8, <1>9 DEF CallsInv

LEMMA AcceptKeeps ==
  ASSUME CallsInv, NEW k \in Call, NEW w \in Waiter, Accept(k, w)
  PROVE  CallsInv'
  <1>1. calls[k] \in CallRecord /\ calls[k].status = "new"
    BY DEF CallsInv, TypeOK, Accept, MayAccept
  <1>2. calls' = [calls EXCEPT ![k] =
                     [calls[k] EXCEPT !.status = "accepted", !.waiter = w, !.active = TRUE]]
    BY DEF Accept, CallsInv, TypeOK
  <1>3. [calls[k] EXCEPT !.status = "accepted", !.waiter = w, !.active = TRUE] \in CallRecord
    BY <1>1 DEF CallRecord, ActiveCallStatuses
  <1>4. TypeOK'
    BY <1>2, <1>3 DEF CallsInv, TypeOK, Accept
  <1>5. \A j \in Call : j # k => calls'[j] = calls[j]
    BY <1>2 DEF CallsInv, TypeOK
  <1>6. calls'[k].booking = calls[k].booking /\ calls'[k].status = "accepted"
    BY <1>1, <1>2 DEF CallsInv, TypeOK, CallRecord
  <1>7. IsActive(k)
    BY <1>1 DEF IsActive, ActiveCallStatuses
  <1>8. OneActiveCall'
    BY <1>5, <1>6, <1>7 DEF CallsInv, OneActiveCall, IsActive
  <1>9. EndedWithVisit'
    <2> SUFFICES ASSUME NEW j \in Call, NEW b \in Booking,
                        calls'[j].booking = b, visits'[b].status = "closed"
                 PROVE  calls'[j].status \notin ActiveCallStatuses /\ ~calls'[j].active
      BY DEF EndedWithVisit, IsActive
    <2>1. visits' = visits
      BY DEF Accept
    <2>2. calls[j].booking = b => ~IsActive(j) /\ ~calls[j].active
      BY <2>1 DEF CallsInv, EndedWithVisit
    <2>3. j # k
      BY <1>6, <1>7, <2>2
    <2> QED  BY <1>5, <2>2, <2>3 DEF IsActive
  <1>10. Unmade'
    BY <1>5, <1>6 DEF CallsInv, Unmade
  <1> QED  BY <1>4, <1>8, <1>9, <1>10 DEF CallsInv

LEMMA CloseKeeps ==
  ASSUME CallsInv, NEW k \in Call, NEW w \in Waiter, CloseCall(k, w)
  PROVE  CallsInv'
  <1>1. calls[k] \in CallRecord /\ calls[k].status = "accepted"
    BY DEF CallsInv, TypeOK, CloseCall
  <1>2. calls' = [calls EXCEPT ![k] = [calls[k] EXCEPT !.status = "closed"]]
    BY DEF CloseCall, CallsInv, TypeOK
  <1>3. [calls[k] EXCEPT !.status = "closed"] \in CallRecord
    BY <1>1 DEF CallRecord, ActiveCallStatuses
  <1>4. TypeOK'
    BY <1>2, <1>3 DEF CallsInv, TypeOK, CloseCall
  <1>5. \A j \in Call : j # k => calls'[j] = calls[j]
    BY <1>2 DEF CallsInv, TypeOK
  <1>6. /\ calls'[k].booking = calls[k].booking /\ calls'[k].status = "closed"
        /\ calls'[k].active = calls[k].active
    BY <1>1, <1>2 DEF CallsInv, TypeOK, CallRecord
  <1>7. OneActiveCall'
    BY <1>5, <1>6 DEF CallsInv, OneActiveCall, IsActive, ActiveCallStatuses
  <1>8. EndedWithVisit'
    BY <1>5, <1>6 DEF CallsInv, EndedWithVisit, IsActive, CloseCall, ActiveCallStatuses
  <1>9. Unmade'
    BY <1>5, <1>6 DEF CallsInv, Unmade
  <1> QED  BY <1>4, <1>7, <1>8, <1>9 DEF CallsInv

\* The calls of a booking are closed, and no other booking is.
LEMMA WithoutCallsKeeps ==
  ASSUME CallsInv, TypeOK', NEW b \in Booking, calls' = WithoutCallsOf(b),
         \A c \in Booking : visits'[c].status = "closed" => c = b \/ visits[c].status = "closed"
  PROVE  CallsInv'
  <1>1. \A k \in Call :
           /\ calls'[k].booking = calls[k].booking
           /\ calls'[k].waiter = calls[k].waiter
           /\ calls'[k].status \in {calls[k].status, "closed"}
           /\ calls'[k].active \in {calls[k].active, FALSE}
           /\ calls[k].booking = b => /\ calls'[k].status \notin ActiveCallStatuses
                                      /\ ~calls'[k].active
    BY Closing DEF CallsInv
  <1>2. OneActiveCall'
    <2> SUFFICES ASSUME NEW j \in Call, NEW k \in Call, j # k,
                        calls'[j].status \in ActiveCallStatuses,
                        calls'[k].status \in ActiveCallStatuses
                 PROVE  calls'[j].booking # calls'[k].booking
      BY DEF OneActiveCall, IsActive
    <2>1. IsActive(j) /\ IsActive(k)
      BY <1>1 DEF IsActive, ActiveCallStatuses
    <2>2. calls[j].booking # calls[k].booking
      BY <2>1 DEF CallsInv, OneActiveCall
    <2> QED  BY <1>1, <2>2
  <1>3. EndedWithVisit'
    BY <1>1, ZenonT(40) DEF CallsInv, EndedWithVisit, IsActive, ActiveCallStatuses
  <1>4. Unmade'
    BY <1>1 DEF CallsInv, Unmade
  <1> QED  BY <1>2, <1>3, <1>4 DEF CallsInv

LEMMA CheckInKeeps ==
  ASSUME CallsInv, NEW b \in Booking, NEW who \in {{}} \cup {{w} : w \in Waiter}, CheckIn(b, who)
  PROVE  CallsInv'
  <1>1. visits[b] \in Visit /\ who \subseteq Waiter
    BY DEF CallsInv, TypeOK
  <1>2. PICK a \in Nat, named \in SUBSET Waiter :
           visits' = [visits EXCEPT ![b] =
               [visits[b] EXCEPT !.status = "approved", !.checkedIn = TRUE,
                                 !.approvedAt = a, !.seatedBy = named]]
    <2>1. CASE visits[b].status = "approved"
      <3>1. visits' = [visits EXCEPT ![b].checkedIn = TRUE, ![b].seatedBy = who]
        BY <2>1 DEF CheckIn
      <3>2. [visits[b] EXCEPT !.checkedIn = TRUE, !.seatedBy = who]
               = [visits[b] EXCEPT !.status = "approved", !.checkedIn = TRUE,
                                   !.approvedAt = visits[b].approvedAt, !.seatedBy = who]
        BY <1>1, <2>1 DEF Visit
      <3>3. visits' = [visits EXCEPT ![b] =
                          [visits[b] EXCEPT !.checkedIn = TRUE, !.seatedBy = who]]
        BY <3>1 DEF CallsInv, TypeOK
      <3>4. visits[b].approvedAt \in Nat
        BY <1>1 DEF Visit
      <3> QED  BY <1>1, <3>2, <3>3, <3>4, ZenonT(40)
    <2>2. CASE visits[b].status = "pending"
      <3>1. clock' \in Nat
        BY <2>2 DEF CallsInv, TypeOK, CheckIn, Dated
      <3>2. PICK named \in {who, {}} :
               visits' = [visits EXCEPT ![b].status = "approved", ![b].checkedIn = TRUE,
                                        ![b].approvedAt = clock', ![b].seatedBy = named]
        BY <2>2 DEF CheckIn
      <3>3. visits' = [visits EXCEPT ![b] =
               [visits[b] EXCEPT !.status = "approved", !.checkedIn = TRUE,
                                 !.approvedAt = clock', !.seatedBy = named]]
        BY <3>2 DEF CallsInv, TypeOK
      <3>4. named \in SUBSET Waiter
        BY <1>1
      <3> QED  BY <3>1, <3>3, <3>4, ZenonT(40)
    <2> QED  BY <2>1, <2>2, ZenonT(40) DEF CheckIn
  <1>3. [visits[b] EXCEPT !.status = "approved", !.checkedIn = TRUE,
                          !.approvedAt = a, !.seatedBy = named] \in Visit
    BY <1>1 DEF Visit
  <1>4. visits' \in [Booking -> Visit]
    BY <1>2, <1>3 DEF CallsInv, TypeOK
  <1>5. occupied' \subseteq Table /\ clock' \in Nat
    BY <1>1 DEF CallsInv, TypeOK, CheckIn, Dated, Visit
  <1>6. TypeOK'
    BY <1>4, <1>5 DEF CallsInv, TypeOK, CheckIn
  <1>7. \A c \in Booking : visits'[c].status = "closed" => visits[c].status = "closed"
    BY <1>1, <1>2 DEF CallsInv, TypeOK, Visit
  <1> QED  BY <1>6, <1>7, CallsUntouched DEF CheckIn

LEMMA TransferKeeps ==
  ASSUME CallsInv, NEW b \in Booking, NEW t \in Table, WaiterTransfer(b, t)
  PROVE  CallsInv'
  <1> DEFINE Moved == [visits[b] EXCEPT !.table = t, !.checkedIn = FALSE,
                                        !.seatedBy = {}, !.moves = visits[b].moves + 1]
  <1>1. visits[b] \in Visit
    BY DEF CallsInv, TypeOK
  <1>2. Moved \in Visit /\ Moved.status = visits[b].status
    <2> DEFINE n == visits[b].moves + 1
    <2>1. n \in Nat
      BY <1>1 DEF Visit
    <2> HIDE DEF n
    <2>2. Moved = [visits[b] EXCEPT !.table = t, !.checkedIn = FALSE,
                                    !.seatedBy = {}, !.moves = n]
      BY DEF n
    <2> HIDE DEF Moved
    <2> QED  BY <1>1, <2>1, <2>2 DEF Visit
  <1>3. visits' = [visits EXCEPT ![b] = Moved]
    BY DEF CallsInv, TypeOK, WaiterTransfer
  <1> HIDE DEF Moved
  <1>4. due' \in [Booking -> Nat]
    BY DEF CallsInv, TypeOK, WaiterTransfer
  <1>5. occupied' \subseteq Table
    BY DEF CallsInv, TypeOK, WaiterTransfer
  <1>6. TypeOK'
    <2>1. visits' \in [Booking -> Visit]
      BY <1>2, <1>3 DEF CallsInv, TypeOK
    <2>2. UNCHANGED <<calls, memory, detaching, clock>>
      BY DEF WaiterTransfer
    <2> QED  BY <1>4, <1>5, <2>1, <2>2 DEF CallsInv, TypeOK
  <1>7. \A c \in Booking : visits'[c].status = "closed" => visits[c].status = "closed"
    BY <1>2, <1>3 DEF CallsInv, TypeOK
  <1> QED  BY <1>6, <1>7, CallsUntouched DEF WaiterTransfer

\* Every step keeps the invariant.
THEOREM CallsInvariance == Spec => []CallsInv
  <1>1. ASSUME CallsInv, [Next]_vars PROVE CallsInv'
    <2>1. CASE UNCHANGED vars
      BY <1>1, <2>1 DEF CallsInv, TypeOK, OneActiveCall, EndedWithVisit, Unmade, IsActive, vars
    <2>2. ASSUME NEW b \in Booking, OfBooking(b) PROVE CallsInv'
      <3>1. ASSUME NEW t \in Table, NEW w \in Waiter, Assign(b, t, w) PROVE CallsInv'
        <4>1. memory' \subseteq Assignment /\ clock' \in Nat
          BY <1>1, <3>1 DEF CallsInv, TypeOK, Assign, Dated, Remembered, Made, Assignment
        <4>2. TypeOK'
          BY <1>1, <3>1, <4>1 DEF CallsInv, TypeOK, Assign
        <4> QED  BY <1>1, <3>1, <4>2, CallsUntouched DEF Assign
      <3>2. CASE GuestStatus(b)
        <4>1. TypeOK'
          BY <1>1, <3>2, MemoryType DEF CallsInv, TypeOK, GuestStatus
        <4> QED  BY <1>1, <3>2, <4>1, CallsUntouched DEF GuestStatus
      <3>3. ASSUME NEW k \in Call, CreateFromGuest(b, k) PROVE CallsInv'
        BY <1>1, <3>3, CreateKeeps
      <3>4. CASE Approve(b)
        <4>1. visits[b] \in Visit /\ clock' \in Nat
          BY <1>1, <3>4 DEF CallsInv, TypeOK, Approve, Dated
        <4>2. [visits[b] EXCEPT !.status = "approved", !.approvedAt = clock'] \in Visit
          BY <4>1 DEF Visit
        <4>3. visits' = [visits EXCEPT ![b] =
                  [visits[b] EXCEPT !.status = "approved", !.approvedAt = clock']]
          BY <1>1, <3>4 DEF CallsInv, TypeOK, Approve
        <4>4. TypeOK'
          BY <1>1, <3>4, <4>1, <4>2, <4>3 DEF CallsInv, TypeOK, Approve
        <4>5. \A c \in Booking : visits'[c].status = "closed" => visits[c].status = "closed"
          BY <1>1, <4>1, <4>3 DEF CallsInv, TypeOK, Visit
        <4> QED  BY <1>1, <3>4, <4>4, <4>5, CallsUntouched DEF Approve
      <3>5. CASE End(b)
        <4>1. visits[b] \in Visit
          BY <1>1 DEF CallsInv, TypeOK
        <4>2. [visits[b] EXCEPT !.status = "closed"] \in Visit
          BY <4>1 DEF Visit
        <4>3. visits' = [visits EXCEPT ![b] = [visits[b] EXCEPT !.status = "closed"]]
          BY <1>1, <3>5 DEF CallsInv, TypeOK, End
        <4>4. calls' \in [Call -> CallRecord]
          BY <1>1, <3>5, TypedWithoutCalls DEF CallsInv, End
        <4>5. TypeOK'
          BY <1>1, <3>5, <4>2, <4>3, <4>4 DEF CallsInv, TypeOK, End
        <4>6. \A c \in Booking : visits'[c].status = "closed" => c = b \/ visits[c].status = "closed"
          BY <1>1, <4>3 DEF CallsInv, TypeOK
        <4> QED  BY <1>1, <3>5, <4>5, <4>6, WithoutCallsKeeps DEF End
      <3>6. ASSUME NEW who \in {{}} \cup {{w} : w \in Waiter}, CheckIn(b, who) PROVE CallsInv'
        BY <1>1, <3>6, CheckInKeeps
      <3>7. ASSUME NEW t \in Table, WaiterTransfer(b, t) PROVE CallsInv'
        BY <1>1, <3>7, TransferKeeps
      <3>8. ASSUME NEW t \in Table, OtherTransfer(b, t) PROVE CallsInv'
        <4>1. visits[b] \in Visit
          BY <1>1 DEF CallsInv, TypeOK
        <4>2. [visits[b] EXCEPT !.table = t] \in Visit
          BY <4>1 DEF Visit
        <4>3. visits' = [visits EXCEPT ![b] = [visits[b] EXCEPT !.table = t]]
          BY <1>1, <3>8 DEF CallsInv, TypeOK, OtherTransfer
        <4>4. TypeOK'
          BY <1>1, <3>8, <4>2, <4>3 DEF CallsInv, TypeOK, OtherTransfer
        <4>5. \A c \in Booking : visits'[c].status = "closed" => visits[c].status = "closed"
          BY <1>1, <4>1, <4>3 DEF CallsInv, TypeOK, Visit
        <4> QED  BY <1>1, <3>8, <4>4, <4>5, CallsUntouched DEF OtherTransfer
      <3>9. CASE CloseActiveCalls(b)
        <4>1. calls' \in [Call -> CallRecord]
          BY <1>1, <3>9, TypedWithoutCalls DEF CallsInv, CloseActiveCalls
        <4>2. due' \in [Booking -> Nat] /\ detaching' \in [Booking -> Nat]
          BY <1>1, <3>9 DEF CallsInv, TypeOK, CloseActiveCalls
        <4>3. TypeOK'
          BY <1>1, <3>9, <4>1, <4>2 DEF CallsInv, TypeOK, CloseActiveCalls
        <4> QED  BY <1>1, <3>9, <4>3, WithoutCallsKeeps DEF CloseActiveCalls
      <3>10. CASE DetachBooking(b)
        <4>1. detaching' \in [Booking -> Nat]
          BY <1>1, <3>10 DEF CallsInv, TypeOK, DetachBooking
        <4>2. TypeOK'
          BY <1>1, <3>10, <4>1, MemoryType DEF CallsInv, TypeOK, DetachBooking
        <4> QED  BY <1>1, <3>10, <4>2, CallsUntouched DEF DetachBooking
      <3> QED  BY <2>2, <3>1, <3>2, <3>3, <3>4, <3>5, <3>6, <3>7, <3>8, <3>9, <3>10
               DEF OfBooking
    <2>3. ASSUME NEW k \in Call, OfCall(k) PROVE CallsInv'
      BY <1>1, <2>3, AcceptKeeps, CloseKeeps DEF OfCall
    <2>4. ASSUME NEW t \in Table, SetStatus(t) PROVE CallsInv'
      <3>1. TypeOK'
        BY <1>1, <2>4 DEF CallsInv, TypeOK, SetStatus
      <3> QED  BY <1>1, <2>4, <3>1, CallsUntouched DEF SetStatus
    <2>5. CASE Restart
      <3>1. TypeOK'
        BY <1>1, <2>5 DEF CallsInv, TypeOK, Restart
      <3> QED  BY <1>1, <2>5, <3>1, CallsUntouched DEF Restart
    <2> QED  BY <1>1, <2>1, <2>2, <2>3, <2>4, <2>5 DEF Next
  <1> QED  BY <1>1, CallsInit, PTL DEF Spec

-----------------------------------------------------------------------------
(* The properties *)

\* Types.
THEOREM CallsTypeCorrect == Spec => []TypeOK
  BY CallsInvariance, PTL DEF CallsInv

\* A booking never has two active calls: the guest who presses again is shown the
\* call of before, under the lock of the booking.
THEOREM OneActiveCallHolds == Spec => []OneActiveCall
  BY CallsInvariance, PTL DEF CallsInv

\* No call and no assignment of a call is active once the booking is closed.
THEOREM EndedWithVisitHolds == Spec => []EndedWithVisit
  BY CallsInvariance, PTL DEF CallsInv

\* A guest who is here has one active call at most, and nobody else has one.
THEOREM OneCallPerVisitHolds == Spec => []OneCallPerVisit
  BY OneActiveCallHolds, EndedWithVisitHolds, PTL DEF OneCallPerVisit

\* Calls only move on, and from no waiter to another.
THEOREM CallsMoveOnHolds == Spec => CallsMoveOn
  <1> DEFINE MovesOn(k) ==
        LET old == calls[k]
            new == calls'[k]
        IN  /\ old.status = "closed" => new.status = "closed"
            /\ old.status = "accepted" => new.status # "new"
            /\ old.waiter # NoWaiter => new.waiter = old.waiter
            /\ old.status = "accepted" /\ new.status = "closed" =>
                   \/ CloseCall(k, old.waiter)
                   \/ \E b \in {old.booking} : End(b) \/ CloseActiveCalls(b)
  <1>1. ASSUME CallsInv, Next PROVE \A k \in Call : MovesOn(k)
    <2> SUFFICES ASSUME NEW k \in Call PROVE MovesOn(k)
      OBVIOUS
    <2>1. CASE calls'[k] = calls[k]
      BY <2>1
    <2>2. ASSUME NEW b \in Booking, calls' = WithoutCallsOf(b), End(b) \/ CloseActiveCalls(b)
          PROVE  MovesOn(k)
      <3>1. /\ calls'[k].waiter = calls[k].waiter
            /\ calls'[k].status \in {calls[k].status, "closed"}
            /\ calls[k].booking # b => calls'[k] = calls[k]
        BY <1>1, <2>2, Closing DEF CallsInv
      <3> QED  BY <2>2, <3>1
    <2>3. ASSUME NEW b \in Booking, NEW j \in Call, CreateFromGuest(b, j) PROVE MovesOn(k)
      <3>1. calls[j].status = "none" /\ calls[j].waiter = NoWaiter
        BY <1>1, <2>3 DEF CallsInv, Unmade, CreateFromGuest
      <3>2. k # j => calls'[k] = calls[k]
        BY <1>1, <2>3 DEF CallsInv, TypeOK, CreateFromGuest
      <3> QED  BY <2>1, <3>1, <3>2
    <2>4. ASSUME NEW j \in Call, NEW w \in Waiter, Accept(j, w) PROVE MovesOn(k)
      <3>1. calls[j] \in CallRecord /\ calls[j].status = "new" /\ calls[j].waiter \in {NoWaiter, w}
        BY <1>1, <2>4 DEF CallsInv, TypeOK, Accept, MayAccept
      <3>2. k # j => calls'[k] = calls[k]
        BY <1>1, <2>4 DEF CallsInv, TypeOK, Accept
      <3>3. calls'[j].waiter = w
        BY <1>1, <2>4, <3>1 DEF CallsInv, TypeOK, Accept, CallRecord
      <3> QED  BY <2>1, <3>1, <3>2, <3>3
    <2>5. ASSUME NEW j \in Call, NEW w \in Waiter, CloseCall(j, w) PROVE MovesOn(k)
      <3>1. calls[j] \in CallRecord /\ calls[j].status = "accepted" /\ calls[j].waiter = w
        BY <1>1, <2>5 DEF CallsInv, TypeOK, CloseCall
      <3>2. k # j => calls'[k] = calls[k]
        BY <1>1, <2>5 DEF CallsInv, TypeOK, CloseCall
      <3>3. calls'[j].waiter = w /\ calls'[j].status = "closed"
        BY <1>1, <2>5, <3>1 DEF CallsInv, TypeOK, CloseCall, CallRecord
      <3>4. CASE k = j
        BY <2>5, <3>1, <3>3, <3>4
      <3> QED  BY <2>1, <3>2, <3>4
    <2>6. \/ UNCHANGED calls
          \/ \E b \in Booking : calls' = WithoutCallsOf(b) /\ (End(b) \/ CloseActiveCalls(b))
          \/ \E b \in Booking, j \in Call : CreateFromGuest(b, j)
          \/ \E j \in Call, w \in Waiter : Accept(j, w) \/ CloseCall(j, w)
      BY <1>1, ZenonT(40) DEF Next, OfBooking, OfCall, Assign, GuestStatus, Approve, End, CheckIn,
                  WaiterTransfer, OtherTransfer, CloseActiveCalls, DetachBooking,
                  SetStatus, Restart
    <2> HIDE DEF MovesOn
    <2> QED  BY <2>1, <2>2, <2>3, <2>4, <2>5, <2>6
  <1>2. ASSUME CallsInv, [Next]_vars PROVE [\A k \in Call : MovesOn(k)]_vars
    BY <1>1, <1>2
  <1> QED  BY <1>2, CallsInvariance, PTL DEF Spec, CallsMoveOn

-----------------------------------------------------------------------------
(***************************************************************************)
(* Calls of hookah workers, however stale the copies are that are saved.   *)
(* The argument: every call moves Onward in every step, from none to new   *)
(* to accepted to closed, and what a request found out about a call stays  *)
(* true while the call is active (Sound).  In particular a request that    *)
(* compared its copy writes a closed status, or the row is closed already. *)
(***************************************************************************)

EndedStatuses == {"completed", "cancelled"}

\* A row moves from x to y, at the time t.
Onward(x, y) ==
    \/ y = x
    \/ /\ x.status = "none" /\ y.status = "new"
    \/ /\ x.status = "new" /\ y.status = "accepted" /\ y.booking = x.booking
       /\ y.staff # NoStaff /\ y.due > 0
    \/ /\ x.status # "none" /\ y.status \in EndedStatuses /\ y.booking = x.booking

\* What the request r knows of the row x of the call k, at the time t.
Knows(r, k, x, t) ==
    /\ x.status # "none"
    /\ r.copy[k].status \in EndedStatuses
    /\ r.phase = "compared" => "status" \in r.changed[k] \/ x.status \in EndedStatuses
    /\ x.status \in ActiveStatuses /\ r.copy[k].status = "completed" =>
           /\ x.status = "accepted"
           /\ x.due <= t \/ (r.kind = "complete" /\ r.by = x.staff)

Sound(r) ==
    /\ r.phase = "idle" => r.of = {}
    /\ \A k \in HookahCall \ r.of : r.changed[k] = {}
    /\ \A k \in r.of : Knows(r, k, hookahCalls[k], now)

AllSound == \A p \in Request : Sound(requests[p])

HookahInv == HookahTypeOK /\ OneActiveHookahCall /\ AcceptedIsPromised /\ AllSound

USE HookahAssumption

-----------------------------------------------------------------------------
(* Rows and requests *)

LEMMA CopyType ==
  ASSUME NEW x \in Row, NEW s \in EndedStatuses
  PROVE  ClosedCopy(x, s) \in Row /\ ClosedCopy(x, s).status = s
  BY DEF ClosedCopy, Row, EndedStatuses

LEMMA UpdatedType ==
  ASSUME NEW x \in Row, NEW y \in Row, NEW cs \in SUBSET Column
  PROVE  /\ Updated(x, y, cs) \in Row
         /\ Updated(x, y, cs).booking = x.booking
         /\ Updated(x, y, cs).status = IF "status" \in cs THEN y.status ELSE x.status
         /\ cs = {} => Updated(x, y, cs) = x
  <1>1. Updated(x, y, cs) \in Row
    BY DEF Updated, Row
  <1>2. cs = {} => Updated(x, y, cs) = x
    BY DEF Updated, Row
  <1> QED  BY <1>1, <1>2 DEF Updated

\* What a request knows stays true when the row moves on and time passes.
LEMMA KnowledgeStays ==
  ASSUME NEW r, NEW k, NEW x \in Row, NEW y \in Row, Onward(x, y),
         NEW t \in Nat, NEW u \in Nat, t <= u, Knows(r, k, x, t)
  PROVE  Knows(r, k, y, u)
  <1>1. CASE y = x
    <2>1. x.due \in Nat
      BY DEF Row
    <2> QED  BY <1>1, <2>1 DEF Knows
  <1>2. CASE x.status = "new" /\ y.status = "accepted" /\ y.booking = x.booking
    BY <1>2 DEF Knows, EndedStatuses, ActiveStatuses
  <1>3. CASE y.status \in EndedStatuses
    BY <1>3 DEF Knows, EndedStatuses, ActiveStatuses
  <1> QED  BY <1>1, <1>2, <1>3 DEF Onward, Knows

LEMMA SoundStays ==
  ASSUME HookahTypeOK, HookahTypeOK', \A k \in HookahCall : Onward(hookahCalls[k], hookahCalls'[k]), now <= now',
         NEW p \in Request, Sound(requests[p]), requests'[p] = requests[p]
  PROVE  Sound(requests[p])'
  <1> DEFINE r == requests[p]
  <1>1. r.of \subseteq HookahCall
    BY DEF HookahTypeOK, RequestState
  <1>2. ASSUME NEW k \in r.of PROVE Knows(r, k, hookahCalls'[k], now')
    <2>1. k \in HookahCall /\ hookahCalls[k] \in Row /\ hookahCalls'[k] \in Row /\ now \in Nat /\ now' \in Nat
      BY <1>1, <1>2 DEF HookahTypeOK
    <2>2. Onward(hookahCalls[k], hookahCalls'[k])
      BY <2>1
    <2>3. Knows(r, k, hookahCalls[k], now)
      BY <1>2 DEF Sound
    <2> HIDE DEF r
    <2> QED  BY <2>1, <2>2, <2>3, KnowledgeStays
  <1> QED  BY <1>2 DEF Sound

\* Rows that move on keep the properties of states.
LEMMA OnwardKeeps ==
  ASSUME HookahInv, HookahTypeOK', \A k \in HookahCall : Onward(hookahCalls[k], hookahCalls'[k]),
         \A k \in HookahCall : hookahCalls[k].status = "none" /\ hookahCalls'[k].status = "new" =>
             \A j \in HookahCall \ {k} : ~(/\ hookahCalls'[j].booking = hookahCalls'[k].booking
                                           /\ hookahCalls'[j].status \in ActiveStatuses)
  PROVE  OneActiveHookahCall' /\ AcceptedIsPromised'
  <1>1. AcceptedIsPromised'
    BY DEF HookahInv, AcceptedIsPromised, Onward, EndedStatuses
  <1>2. ASSUME NEW j \in HookahCall, NEW k \in HookahCall, j # k,
               hookahCalls'[j].status \in ActiveStatuses, hookahCalls'[k].status \in ActiveStatuses
        PROVE  hookahCalls'[j].booking # hookahCalls'[k].booking
    <2>1. CASE hookahCalls[j].status = "none" /\ hookahCalls'[j].status = "new"
      BY <1>2, <2>1
    <2>2. CASE hookahCalls[k].status = "none" /\ hookahCalls'[k].status = "new"
      BY <1>2, <2>2
    <2>3. CASE /\ ~(hookahCalls[j].status = "none" /\ hookahCalls'[j].status = "new")
               /\ ~(hookahCalls[k].status = "none" /\ hookahCalls'[k].status = "new")
      <3>1. /\ hookahCalls[j].status \in ActiveStatuses /\ hookahCalls'[j].booking = hookahCalls[j].booking
            /\ hookahCalls[k].status \in ActiveStatuses /\ hookahCalls'[k].booking = hookahCalls[k].booking
        BY <1>2, <2>3 DEF Onward, ActiveStatuses, EndedStatuses
      <3> QED  BY <1>2, <3>1 DEF HookahInv, OneActiveHookahCall, HookahActive
    <2> QED  BY <2>1, <2>2, <2>3
  <1>3. OneActiveHookahCall'
    BY <1>2 DEF OneActiveHookahCall, HookahActive
  <1> QED  BY <1>1, <1>3

\* The saved rows: untouched, or closed.
LEMMA SavedRows ==
  ASSUME HookahInv, NEW p \in Request, requests[p].phase = "compared", NEW k \in HookahCall
  PROVE  /\ Saved(p) \in [HookahCall -> Row]
         /\ Onward(hookahCalls[k], Saved(p)[k])
         /\ Saved(p)[k].booking = hookahCalls[k].booking
         /\ Saved(p)[k].status = hookahCalls[k].status \/ Saved(p)[k].status \in EndedStatuses
         /\ hookahCalls[k].status = "none" => Saved(p)[k] = hookahCalls[k]
         /\ hookahCalls[k].status \in ActiveStatuses /\ Saved(p)[k].status \in ActiveStatuses
               => Saved(p)[k] = hookahCalls[k]
         /\ hookahCalls[k].status \in ActiveStatuses /\ Saved(p)[k].status = "completed" =>
               /\ k \in requests[p].of
               /\ hookahCalls[k].due <= now
                  \/ (requests[p].kind = "complete" /\ requests[p].by = hookahCalls[k].staff)
  <1> DEFINE r == requests[p]
  <1>1. /\ r.copy \in [HookahCall -> Row] /\ r.changed \in [HookahCall -> SUBSET Column]
        /\ hookahCalls \in [HookahCall -> Row]
    BY DEF HookahInv, HookahTypeOK, RequestState
  <1>2. Sound(r) /\ r.phase = "compared"
    BY DEF HookahInv, AllSound
  <1>3. \A j \in HookahCall : Saved(p)[j] = Updated(hookahCalls[j], r.copy[j], r.changed[j])
    BY DEF Saved
  <1> HIDE DEF r
  <1>4. \A j \in HookahCall : Updated(hookahCalls[j], r.copy[j], r.changed[j]) \in Row
    BY <1>1, UpdatedType
  <1>5. Saved(p) \in [HookahCall -> Row]
    BY <1>4 DEF Saved, r
  <1> DEFINE x == hookahCalls[k]
             y == Saved(p)[k]
  <1>6. /\ y.booking = x.booking
        /\ y.status = IF "status" \in r.changed[k] THEN r.copy[k].status ELSE x.status
        /\ r.changed[k] = {} => y = x
    BY <1>1, <1>3, UpdatedType
  <1>7. CASE k \notin r.of
    <2>1. y = x
      BY <1>2, <1>6, <1>7 DEF Sound
    <2> HIDE DEF x, y
    <2>2. x.status \in ActiveStatuses => x.status # "completed"
      BY DEF ActiveStatuses
    <2> QED  BY <1>5, <2>1, <2>2 DEF Onward, x, y
  <1>8. CASE k \in r.of
    <2>1. Knows(r, k, x, now)
      BY <1>2, <1>8 DEF Sound
    <2> HIDE DEF x, y
    <2>2. x.status # "none" /\ y.status \in EndedStatuses /\ y.booking = x.booking
      BY <1>2, <1>6, <2>1 DEF Knows
    <2>3. x.status \in ActiveStatuses /\ y.status = "completed" =>
             x.due <= now \/ (r.kind = "complete" /\ r.by = x.staff)
      BY <1>2, <1>6, <2>1 DEF Knows, ActiveStatuses
    <2>4. Onward(x, y) /\ y.status \notin ActiveStatuses
      BY <2>2 DEF Onward, EndedStatuses, ActiveStatuses
    <2> QED  BY <1>5, <1>8, <2>2, <2>3, <2>4 DEF x, y, r
  <1> QED  BY <1>7, <1>8

-----------------------------------------------------------------------------
(* Steps *)

\* Onward, as a step of one request and of any call.
LEMMA StepKeeps ==
  ASSUME HookahInv, HookahTypeOK', now <= now',
         \A k \in HookahCall : Onward(hookahCalls[k], hookahCalls'[k]),
         \A k \in HookahCall : hookahCalls[k].status = "none" /\ hookahCalls'[k].status = "new" =>
             \A j \in HookahCall \ {k} : ~(/\ hookahCalls'[j].booking = hookahCalls'[k].booking
                                           /\ hookahCalls'[j].status \in ActiveStatuses),
         \A p \in Request : requests'[p] = requests[p] \/ Sound(requests[p])'
  PROVE  HookahInv'
  <1>1. OneActiveHookahCall' /\ AcceptedIsPromised'
    BY OnwardKeeps
  <1>2. ASSUME NEW p \in Request PROVE Sound(requests[p])'
    <2>1. CASE requests'[p] = requests[p]
      <3>1. HookahTypeOK /\ Sound(requests[p])
        BY DEF HookahInv, AllSound
      <3> QED  BY <2>1, <3>1, SoundStays
    <2> QED  BY <1>2, <2>1
  <1> QED  BY <1>1, <1>2 DEF HookahInv, AllSound

\* A step that leaves the calls alone.
LEMMA HookahCallsUntouched ==
  ASSUME HookahInv, HookahTypeOK', now <= now', UNCHANGED hookahCalls,
         \A p \in Request : requests'[p] = requests[p] \/ Sound(requests[p])'
  PROVE  HookahInv'
  <1>1. /\ \A k \in HookahCall : Onward(hookahCalls[k], hookahCalls'[k])
        /\ \A k \in HookahCall : hookahCalls[k].status = "none" => hookahCalls'[k].status # "new"
    BY DEF Onward
  <1> QED  BY <1>1, StepKeeps

LEMMA ReadKeeps ==
  ASSUME HookahInv, NEW p \in Request, NEW kind \in {"complete", "cancel", "expire", "create"},
         NEW s \in Staff \cup {NoStaff}, NEW b \in HookahBooking \cup {NoHookahBooking},
         NEW K \in SUBSET HookahCall, NEW status \in EndedStatuses,
         Reads(p, kind, s, b, K, status),
         \A k \in K :
             /\ hookahCalls[k].status \in ActiveStatuses
             /\ status = "completed" =>
                    /\ hookahCalls[k].status = "accepted"
                    /\ hookahCalls[k].due <= now \/ (kind = "complete" /\ s = hookahCalls[k].staff)
  PROVE  HookahInv'
  <1> DEFINE copy == [k \in HookahCall |-> IF k \in K THEN ClosedCopy(hookahCalls[k], status) ELSE NoHookahCall]
             none == [k \in HookahCall |-> {}]
             r == [kind |-> kind, phase |-> "read", by |-> s, booking |-> b, of |-> K,
                   copy |-> copy, changed |-> none]
  <1>1. /\ hookahCalls \in [HookahCall -> Row] /\ now \in Nat
        /\ requests \in [Request -> RequestState]
        /\ requests' = [requests EXCEPT ![p] = r]
        /\ UNCHANGED <<hookahCalls, seated, available, onShift, now>>
    BY DEF HookahInv, HookahTypeOK, Reads
  <1>2. \A k \in K : ClosedCopy(hookahCalls[k], status) \in Row /\ ClosedCopy(hookahCalls[k], status).status = status
    BY <1>1, CopyType
  <1>3. NoHookahCall \in Row
    BY DEF NoHookahCall, Row
  <1>4. /\ copy \in [HookahCall -> Row] /\ none \in [HookahCall -> SUBSET Column]
        /\ \A k \in K : copy[k].status = status
        /\ \A k \in HookahCall : none[k] = {}
    BY <1>2, <1>3
  <1> HIDE DEF copy, none
  <1>5. r \in RequestState
    BY <1>4 DEF RequestState
  <1>6. /\ r.kind = kind /\ r.phase = "read" /\ r.by = s /\ r.of = K
        /\ r.copy = copy /\ r.changed = none
    OBVIOUS
  <1> HIDE DEF r
  <1>7. requests'[p] = r /\ \A q \in Request : q # p => requests'[q] = requests[q]
    BY <1>1
  <1>8. HookahTypeOK'
    BY <1>1, <1>5 DEF HookahInv, HookahTypeOK
  <1>9. ASSUME NEW k \in K PROVE Knows(r, k, hookahCalls[k], now)
    BY <1>4, <1>6, <1>9 DEF Knows, ActiveStatuses
  <1>10. Sound(requests[p])'
    BY <1>1, <1>4, <1>6, <1>7, <1>9 DEF Sound
  <1> QED  BY <1>1, <1>7, <1>8, <1>10, HookahCallsUntouched

\* A request that read what is overdue.
LEMMA ReadOverdueKeeps ==
  ASSUME HookahInv, NEW p \in Request, NEW kind \in {"expire", "create"},
         NEW b \in HookahBooking \cup {NoHookahBooking}, NEW K \in SUBSET HookahCall,
         Reads(p, kind, NoStaff, b, K, "completed"),
         \A k \in K : hookahCalls[k].status = "accepted" /\ hookahCalls[k].due <= now
  PROVE  HookahInv'
  <1>1. PICK s \in Staff \cup {NoStaff}, status \in EndedStatuses, any \in {"complete", "cancel", "expire", "create"} :
           s = NoStaff /\ status = "completed" /\ any = kind
    BY DEF EndedStatuses
  <1>2. Reads(p, any, s, b, K, status)
    BY <1>1
  <1>3. \A k \in K :
           /\ hookahCalls[k].status \in ActiveStatuses
           /\ status = "completed" =>
                  /\ hookahCalls[k].status = "accepted"
                  /\ hookahCalls[k].due <= now \/ (any = "complete" /\ s = hookahCalls[k].staff)
    <2> SUFFICES ASSUME NEW k \in K
                 PROVE  hookahCalls[k].status \in ActiveStatuses /\ hookahCalls[k].due <= now
      OBVIOUS
    <2>1. hookahCalls[k].status = "accepted" /\ hookahCalls[k].due <= now
      OBVIOUS
    <2> QED  BY <2>1 DEF ActiveStatuses
  <1> QED  BY <1>2, <1>3, ReadKeeps

LEMMA CompareKeeps ==
  ASSUME HookahInv, NEW p \in Request, Compare(p)
  PROVE  HookahInv'
  <1> DEFINE old == requests[p]
             changed == [k \in HookahCall |-> IF k \in old.of THEN Differing(old, k) ELSE {}]
             r == [old EXCEPT !.phase = "compared", !.changed = changed]
  <1>1. /\ hookahCalls \in [HookahCall -> Row] /\ now \in Nat /\ old \in RequestState
        /\ requests \in [Request -> RequestState] /\ old.phase = "read"
        /\ Sound(old)
    BY DEF HookahInv, HookahTypeOK, AllSound, Compare
  <1>2. /\ requests' = [requests EXCEPT ![p] = r]
        /\ UNCHANGED <<hookahCalls, seated, available, onShift, now>>
    BY <1>1 DEF Compare
  <1>3. \A k \in HookahCall : Differing(old, k) \subseteq Column
    BY DEF Differing, Loaded, Column
  <1>4. \A k \in HookahCall : "status" \in Differing(old, k) \/ old.copy[k].status = hookahCalls[k].status
    BY DEF Differing, Loaded, Column
  <1>5. /\ changed \in [HookahCall -> SUBSET Column]
        /\ \A k \in old.of : changed[k] = Differing(old, k)
        /\ \A k \in HookahCall \ old.of : changed[k] = {}
    BY <1>1, <1>3 DEF RequestState
  <1> HIDE DEF changed
  <1>6. /\ r \in RequestState /\ r.kind = old.kind /\ r.phase = "compared" /\ r.by = old.by
        /\ r.of = old.of /\ r.copy = old.copy /\ r.changed = changed
    BY <1>1, <1>5 DEF RequestState
  <1> HIDE DEF r
  <1>7. requests'[p] = r /\ \A q \in Request : q # p => requests'[q] = requests[q]
    BY <1>1, <1>2
  <1>8. HookahTypeOK'
    BY <1>1, <1>2, <1>6 DEF HookahInv, HookahTypeOK
  <1>9. ASSUME NEW k \in old.of PROVE Knows(r, k, hookahCalls[k], now)
    <2>1. k \in HookahCall
      BY <1>1, <1>9 DEF RequestState
    <2>2. Knows(old, k, hookahCalls[k], now)
      BY <1>1, <1>9 DEF Sound
    <2>3. "status" \in r.changed[k] \/ hookahCalls[k].status \in EndedStatuses
      BY <1>4, <1>5, <1>6, <1>9, <2>1, <2>2 DEF Knows
    <2> HIDE DEF old
    <2> QED  BY <1>6, <2>2, <2>3 DEF Knows
  <1>10. Sound(requests[p])'
    BY <1>2, <1>5, <1>6, <1>7, <1>9 DEF Sound
  <1> QED  BY <1>1, <1>2, <1>7, <1>8, <1>10, HookahCallsUntouched

\* A request that has finished knows nothing.
LEMMA FinishedSound ==
  ASSUME HookahInv, NEW p \in Request, Finished(p)
  PROVE  /\ requests' \in [Request -> RequestState]
         /\ Sound(requests[p])'
         /\ \A q \in Request : q # p => requests'[q] = requests[q]
  <1>1. NoHookahCall \in Row
    BY DEF NoHookahCall, Row
  <1>2. Idle \in RequestState
    BY <1>1 DEF Idle, RequestState
  <1>3. /\ requests' = [requests EXCEPT ![p] = Idle]
        /\ requests \in [Request -> RequestState]
    BY DEF HookahInv, HookahTypeOK, Finished
  <1>4. requests'[p] = Idle
    BY <1>3
  <1>5. Idle.of = {} /\ Idle.phase = "idle" /\ \A k \in HookahCall : Idle.changed[k] = {}
    BY DEF Idle
  <1>6. Sound(requests[p])'
    BY <1>4, <1>5 DEF Sound
  <1> QED  BY <1>2, <1>3, <1>6

LEMMA SaveKeeps ==
  ASSUME HookahInv, NEW p \in Request, requests[p].phase = "compared", hookahCalls' = Saved(p),
         Finished(p), UNCHANGED <<seated, available, onShift, now>>
  PROVE  HookahInv'
  <1>1. now \in Nat
    BY DEF HookahInv, HookahTypeOK
  <1>2. \A k \in HookahCall : /\ Onward(hookahCalls[k], hookahCalls'[k])
                              /\ hookahCalls[k].status = "none" => hookahCalls'[k] = hookahCalls[k]
    BY SavedRows
  <1>3. hookahCalls' \in [HookahCall -> Row]
    <2>1. CASE HookahCall = {}
      BY <2>1 DEF Saved
    <2>2. CASE HookahCall # {}
      BY <2>2, SavedRows
    <2> QED  BY <2>1, <2>2
  <1>4. HookahTypeOK'
    BY <1>3, FinishedSound DEF HookahInv, HookahTypeOK
  <1>5. \A k \in HookahCall : ~(hookahCalls[k].status = "none" /\ hookahCalls'[k].status = "new")
    BY <1>2
  <1>6. \A q \in Request : requests'[q] = requests[q] \/ Sound(requests[q])'
    BY FinishedSound
  <1> QED  BY <1>1, <1>2, <1>4, <1>5, <1>6, StepKeeps

LEMMA NewCallKeeps ==
  ASSUME HookahInv, NEW p \in Request, requests[p].phase = "compared",
         NEW b \in HookahBooking, NEW k \in HookahCall,
         hookahCalls[k].status = "none", ~SomeActive(Saved(p), b),
         hookahCalls' = [Saved(p) EXCEPT ![k] = NewCall(b)],
         Finished(p), UNCHANGED <<seated, available, onShift, now>>
  PROVE  HookahInv'
  <1>1. now \in Nat
    BY DEF HookahInv, HookahTypeOK
  <1>2. Saved(p) \in [HookahCall -> Row]
    BY SavedRows
  <1>3. NewCall(b) \in Row /\ NewCall(b).status = "new" /\ NewCall(b).booking = b
    BY DEF NewCall, NoHookahCall, Row, ActiveStatuses
  <1>4. hookahCalls'[k] = NewCall(b) /\ \A j \in HookahCall : j # k => hookahCalls'[j] = Saved(p)[j]
    BY <1>2
  <1>5. hookahCalls' \in [HookahCall -> Row]
    BY <1>2, <1>3
  <1>6. HookahTypeOK'
    BY <1>5, FinishedSound DEF HookahInv, HookahTypeOK
  <1>7. \A j \in HookahCall : Onward(hookahCalls[j], hookahCalls'[j])
    BY <1>3, <1>4, SavedRows DEF Onward
  <1>8. \A j \in HookahCall : hookahCalls[j].status = "none" /\ hookahCalls'[j].status = "new" => j = k
    BY <1>4, SavedRows
  <1>9. \A j \in HookahCall \ {k} : ~(hookahCalls'[j].booking = b /\ hookahCalls'[j].status \in ActiveStatuses)
    BY <1>4 DEF SomeActive
  <1>10. \A i \in HookahCall : hookahCalls[i].status = "none" /\ hookahCalls'[i].status = "new" =>
            \A j \in HookahCall \ {i} : ~(/\ hookahCalls'[j].booking = hookahCalls'[i].booking
                                          /\ hookahCalls'[j].status \in ActiveStatuses)
    BY <1>3, <1>4, <1>8, <1>9
  <1>11. \A q \in Request : requests'[q] = requests[q] \/ Sound(requests[q])'
    BY FinishedSound
  <1>12. now <= now'
    BY <1>1
  <1> QED  BY <1>6, <1>7, <1>10, <1>11, <1>12, StepKeeps

LEMMA HookahAcceptKeeps ==
  ASSUME HookahInv, NEW k \in HookahCall, NEW s \in Staff, NEW eta \in Eta, AcceptHookah(k, s, eta)
  PROVE  HookahInv'
  <1> DEFINE promised == now + eta
             y == [hookahCalls[k] EXCEPT !.status = "accepted", !.staff = s, !.due = promised]
  <1>1. /\ hookahCalls \in [HookahCall -> Row] /\ hookahCalls[k].status = "new" /\ now \in Nat
        /\ requests' = requests
    BY DEF HookahInv, HookahTypeOK, AcceptHookah, MayAcceptHookah
  <1>2. hookahCalls' = [hookahCalls EXCEPT ![k] = y]
    BY <1>1 DEF AcceptHookah
  <1>3. promised \in Nat /\ promised > 0
    BY <1>1
  <1> HIDE DEF promised
  <1>4. /\ y \in Row /\ y.status = "accepted" /\ y.booking = hookahCalls[k].booking
        /\ y.staff = s /\ y.due = promised
    BY <1>1, <1>3 DEF Row, ActiveStatuses
  <1> HIDE DEF y
  <1>5. hookahCalls'[k] = y /\ \A j \in HookahCall : j # k => hookahCalls'[j] = hookahCalls[j]
    BY <1>1, <1>2
  <1>6. HookahTypeOK'
    <2>1. hookahCalls' \in [HookahCall -> Row]
      BY <1>1, <1>2, <1>4
    <2>2. UNCHANGED <<requests, seated, available, onShift, now>>
      BY DEF AcceptHookah
    <2> QED BY <2>1, <2>2 DEF HookahInv, HookahTypeOK
  <1>7. \A j \in HookahCall : Onward(hookahCalls[j], hookahCalls'[j])
    BY <1>1, <1>3, <1>4, <1>5 DEF Onward
  <1>8. \A j \in HookahCall : ~(hookahCalls[j].status = "none" /\ hookahCalls'[j].status = "new")
    BY <1>1, <1>4, <1>5
  <1>9. now <= now'
    BY <1>1 DEF AcceptHookah
  <1> QED  BY <1>1, <1>6, <1>7, <1>8, <1>9, StepKeeps

-----------------------------------------------------------------------------
(* The invariant *)

THEOREM HookahStarts == HookahInit => HookahInv
  <1> SUFFICES ASSUME HookahInit PROVE HookahInv
    OBVIOUS
  <1>1. NoHookahCall \in Row /\ NoHookahCall.status = "none"
    BY DEF NoHookahCall, Row
  <1>2. /\ Idle \in RequestState /\ Idle.of = {} /\ Idle.phase = "idle"
        /\ \A k \in HookahCall : Idle.changed[k] = {}
    BY <1>1 DEF Idle, RequestState
  <1>3. /\ hookahCalls = [k \in HookahCall |-> NoHookahCall] /\ requests = [p \in Request |-> Idle]
    BY DEF HookahInit
  <1>4. HookahTypeOK
    BY <1>1, <1>2, <1>3 DEF HookahInit, HookahTypeOK
  <1>5. OneActiveHookahCall /\ AcceptedIsPromised
    BY <1>1, <1>3 DEF OneActiveHookahCall, AcceptedIsPromised, HookahActive, ActiveStatuses
  <1>6. AllSound
    BY <1>2, <1>3 DEF AllSound, Sound
  <1> QED  BY <1>4, <1>5, <1>6 DEF HookahInv

\* Every step keeps the invariant.
THEOREM HookahInvariance == HookahSpec => []HookahInv
  <1>1. ASSUME HookahInv, [HookahNext]_hookahVars PROVE HookahInv'
    <2>0. now \in Nat
      BY <1>1 DEF HookahInv, HookahTypeOK
    <2>1. CASE UNCHANGED hookahVars
      <3>1. HookahTypeOK' /\ now <= now' /\ hookahCalls' = hookahCalls /\ requests' = requests
        BY <1>1, <2>0, <2>1 DEF HookahInv, HookahTypeOK, hookahVars
      <3> QED  BY <1>1, <3>1, HookahCallsUntouched
    <2>2. ASSUME NEW p \in Request, NEW k \in HookahCall, Cancel(p, k) PROVE HookahInv'
      <3>1. "cancelled" \in EndedStatuses /\ {k} \in SUBSET HookahCall
        BY DEF EndedStatuses
      <3> QED  BY <1>1, <2>2, <3>1, ReadKeeps DEF Cancel
    <2>3. ASSUME NEW p \in Request, NEW k \in HookahCall, NEW s \in Staff, Complete(p, k, s)
          PROVE  HookahInv'
      <3>1. "completed" \in EndedStatuses /\ {k} \in SUBSET HookahCall
        BY DEF EndedStatuses
      <3> QED  BY <1>1, <2>3, <3>1, ReadKeeps DEF Complete, MayComplete, ActiveStatuses
    <2>4. ASSUME NEW p \in Request, NEW B \in SUBSET HookahBooking, Expire(p, B) PROVE HookahInv'
      <3> DEFINE K == Overdue(B)
      <3>1. K \in SUBSET HookahCall
        BY DEF Overdue
      <3>2. \A k \in K : hookahCalls[k].status = "accepted" /\ hookahCalls[k].due <= now
        BY DEF Overdue
      <3>3. Reads(p, "expire", NoStaff, NoHookahBooking, K, "completed")
        BY <2>4 DEF Expire
      <3> HIDE DEF K
      <3> QED  BY <1>1, <3>1, <3>2, <3>3, ReadOverdueKeeps
    <2>5. ASSUME NEW p \in Request, NEW b \in HookahBooking, BeginCreate(p, b) PROVE HookahInv'
      <3> DEFINE K == Overdue({b})
      <3>1. K \in SUBSET HookahCall
        BY DEF Overdue
      <3>2. \A k \in K : hookahCalls[k].status = "accepted" /\ hookahCalls[k].due <= now
        BY DEF Overdue
      <3>3. Reads(p, "create", NoStaff, b, K, "completed")
        BY <2>5 DEF BeginCreate
      <3> HIDE DEF K
      <3> QED  BY <1>1, <3>1, <3>2, <3>3, ReadOverdueKeeps
    <2>6. ASSUME NEW p \in Request, Save(p) PROVE HookahInv'
      BY <1>1, <2>6, SaveKeeps DEF Save
    <2>7. ASSUME NEW p \in Request, Create(p) PROVE HookahInv'
      <3>1. /\ requests[p].booking \in HookahBooking /\ requests[p].phase = "compared"
            /\ Finished(p) /\ UNCHANGED <<seated, available, onShift, now>>
        BY <1>1, <2>7 DEF HookahInv, HookahTypeOK, Create
      <3>2. CASE hookahCalls' = Saved(p)
        BY <1>1, <3>1, <3>2, SaveKeeps
      <3>3. ASSUME NEW k \in HookahCall, hookahCalls[k].status = "none",
                   ~SomeActive(Saved(p), requests[p].booking),
                   hookahCalls' = [Saved(p) EXCEPT ![k] = NewCall(requests[p].booking)]
            PROVE  HookahInv'
        BY <1>1, <3>1, <3>3, NewCallKeeps
      <3> QED  BY <2>7, <3>2, <3>3 DEF Create
    <2>8. ASSUME NEW p \in Request, Fail(p) PROVE HookahInv'
      <3>1. /\ \A q \in Request : requests'[q] = requests[q] \/ Sound(requests[q])'
            /\ requests' \in [Request -> RequestState]
        BY <1>1, <2>8, FinishedSound DEF Fail
      <3>2. HookahTypeOK' /\ now <= now' /\ hookahCalls' = hookahCalls
        BY <1>1, <2>0, <2>8, <3>1 DEF HookahInv, HookahTypeOK, Fail
      <3> QED  BY <1>1, <3>1, <3>2, HookahCallsUntouched
    <2>9. ASSUME NEW k \in HookahCall, NEW s \in Staff, NEW eta \in Eta, AcceptHookah(k, s, eta)
          PROVE  HookahInv'
      BY <1>1, <2>9, HookahAcceptKeeps
    <2>10. ASSUME \/ \E b \in HookahBooking : Seat(b)
                  \/ \E s \in Staff : Shift(s)
                  \/ SetAvailability \/ Tick
           PROVE  HookahInv'
      <3>1. hookahCalls' = hookahCalls /\ requests' = requests
        BY <2>10 DEF Seat, Shift, SetAvailability, Tick
      <3>2. now <= now' /\ now' \in Nat
        BY <2>0, <2>10 DEF Seat, Shift, SetAvailability, Tick
      <3>3. seated' \subseteq HookahBooking /\ onShift' \subseteq Staff /\ available' \in BOOLEAN
        BY <1>1, <2>10 DEF HookahInv, HookahTypeOK, Seat, Shift, SetAvailability, Tick
      <3>4. HookahTypeOK'
        BY <1>1, <3>1, <3>2, <3>3 DEF HookahInv, HookahTypeOK
      <3> QED  BY <1>1, <3>1, <3>2, <3>4, HookahCallsUntouched
    <2> QED
      <3>1. ASSUME NEW p \in Request, Step(p) PROVE HookahInv'
        <4>1. \A b \in HookahBooking : {b} \in SUBSET HookahBooking
          OBVIOUS
        <4> QED  BY <1>1, <3>1, <4>1, <2>2, <2>3, <2>4, <2>5, <2>6, <2>7, <2>8, CompareKeeps
                 DEF Step
      <3> QED  BY <1>1, <2>1, <2>9, <2>10, <3>1 DEF HookahNext
  <1> QED  BY <1>1, HookahStarts, PTL DEF HookahSpec

-----------------------------------------------------------------------------
(* The properties *)

\* Types.
THEOREM HookahTypeCorrect == HookahSpec => []HookahTypeOK
  BY HookahInvariance, PTL DEF HookahInv

\* A booking never has two active calls, although completing, cancelling and
\* expiring save copies that may be stale.
THEOREM OneActiveHookahCallHolds == HookahSpec => []OneActiveHookahCall
  BY HookahInvariance, PTL DEF HookahInv

\* An accepted call keeps its worker and its promise.
THEOREM AcceptedIsPromisedHolds == HookahSpec => []AcceptedIsPromised
  BY HookahInvariance, PTL DEF HookahInv

\* What a step does to a call.
LEMMA Changes ==
  ASSUME HookahInv, HookahNext, NEW k \in HookahCall
  PROVE  \/ hookahCalls'[k] = hookahCalls[k]
         \/ hookahCalls[k].status = "none"
         \/ hookahCalls[k].status = "new" /\ hookahCalls'[k].status = "accepted"
         \/ \E p \in Request :
               /\ requests[p].phase = "compared"
               /\ hookahCalls'[k] = Saved(p)[k]
  <1>1. ASSUME NEW p \in Request, Create(p)
        PROVE  hookahCalls'[k] = Saved(p)[k] \/ hookahCalls[k].status = "none"
    <2>1. requests[p].phase = "compared"
      BY <1>1 DEF Create
    <2>2. Saved(p) \in [HookahCall -> Row]
      BY <2>1, SavedRows
    <2> QED  BY <1>1, <2>2 DEF Create
  <1>2. ASSUME NEW p \in Request, Step(p)
        PROVE  \/ hookahCalls' = hookahCalls \/ hookahCalls[k].status = "none"
               \/ requests[p].phase = "compared" /\ hookahCalls'[k] = Saved(p)[k]
    BY <1>1, <1>2 DEF Step, Cancel, Complete, Expire, BeginCreate, Reads, Compare, Save,
                      Create, Fail
  <1>3. ASSUME NEW j \in HookahCall, NEW s \in Staff, NEW eta \in Eta, AcceptHookah(j, s, eta)
        PROVE  \/ hookahCalls'[k] = hookahCalls[k]
               \/ hookahCalls[k].status = "new" /\ hookahCalls'[k].status = "accepted"
    <2>1. hookahCalls \in [HookahCall -> Row] /\ hookahCalls[j].status = "new"
      BY <1>3 DEF HookahInv, HookahTypeOK, AcceptHookah, MayAcceptHookah
    <2>2. CASE j = k
      BY <1>3, <2>1, <2>2 DEF AcceptHookah, Row
    <2>3. CASE j # k
      BY <1>3, <2>1, <2>3 DEF AcceptHookah
    <2> QED  BY <2>2, <2>3
  <1> QED  BY <1>2, <1>3 DEF HookahNext, Seat, Shift, SetAvailability, Tick

\* Both hold of the active calls, whatever is overwritten.
THEOREM ActiveCallsAreSoundHolds == HookahSpec => []ActiveCallsAreSound
  BY OneActiveHookahCallHolds, AcceptedIsPromisedHolds, PTL DEF ActiveCallsAreSound

\* A closed call stays closed, and an active one keeps worker and promise.
THEOREM HookahCallsMoveOnHolds == HookahSpec => HookahCallsMoveOn
  <1> DEFINE MovesOn(k) ==
        LET old == hookahCalls[k]
            new == hookahCalls'[k]
        IN  /\ old.status \in {"completed", "cancelled"} => new.status \notin ActiveStatuses
            /\ old.status = "accepted" /\ new.status \in ActiveStatuses => new = old
  <1>1. ASSUME HookahInv, HookahNext, NEW k \in HookahCall PROVE MovesOn(k)
    <2>1. ASSUME NEW p \in Request, requests[p].phase = "compared", hookahCalls'[k] = Saved(p)[k]
          PROVE  MovesOn(k)
      <3>1. /\ hookahCalls'[k].status = hookahCalls[k].status \/ hookahCalls'[k].status \in EndedStatuses
            /\ hookahCalls[k].status \in ActiveStatuses /\ hookahCalls'[k].status \in ActiveStatuses
                  => hookahCalls'[k] = hookahCalls[k]
        BY <1>1, <2>1, SavedRows
      <3> QED  BY <3>1 DEF EndedStatuses, ActiveStatuses
    <2>2. CASE hookahCalls'[k] = hookahCalls[k]
      BY <2>2 DEF ActiveStatuses
    <2>3. CASE hookahCalls[k].status \in {"none", "new"}
      BY <2>3
    <2> HIDE DEF MovesOn
    <2> QED  BY <1>1, <2>1, <2>2, <2>3, Changes
  <1>2. ASSUME HookahInv, [HookahNext]_hookahVars PROVE [\A k \in HookahCall : MovesOn(k)]_hookahVars
    BY <1>1, <1>2
  <1> QED  BY <1>2, HookahInvariance, PTL DEF HookahSpec, HookahCallsMoveOn

\* Who waits is not told that the call is done, unless its worker said so or the
\* promised time is over.
THEOREM CompletedForCauseHolds == HookahSpec => CompletedForCause
  <1> DEFINE ForCause(k) ==
        hookahCalls[k].status \in ActiveStatuses /\ hookahCalls'[k].status = "completed" =>
            \/ hookahCalls[k].due <= now
            \/ \E p \in Request : /\ requests[p].kind = "complete" /\ k \in requests[p].of
                                  /\ requests[p].by = hookahCalls[k].staff
  <1>1. ASSUME HookahInv, HookahNext, NEW k \in HookahCall PROVE ForCause(k)
    <2>1. ASSUME NEW p \in Request, requests[p].phase = "compared", hookahCalls'[k] = Saved(p)[k]
          PROVE  ForCause(k)
      BY <1>1, <2>1, SavedRows
    <2>2. CASE hookahCalls'[k] = hookahCalls[k]
      BY <2>2 DEF ActiveStatuses
    <2>3. CASE hookahCalls[k].status = "none" \/ hookahCalls'[k].status = "accepted"
      BY <2>3 DEF ActiveStatuses
    <2> HIDE DEF ForCause
    <2> QED  BY <1>1, <2>1, <2>2, <2>3, Changes
  <1>2. ASSUME HookahInv, [HookahNext]_hookahVars PROVE [\A k \in HookahCall : ForCause(k)]_hookahVars
    BY <1>1, <1>2
  <1> QED  BY <1>2, HookahInvariance, PTL DEF HookahSpec, CompletedForCause

-----------------------------------------------------------------------------
(* Old buttons.  Who is about to be remembered for guests has seated them, *)
(* and an accepted call is somebody's.                                     *)

BotInv ==
    /\ BotTypeOK
    /\ \A p \in Person : presses[p].step = "assigning" => visit.arrived
    /\ call.status = "accepted" => call.of # Nobody

USE BotAssumption

\* What a service may do to a visit, whoever calls it.
Bound(v) ==
    /\ v \in BotVisit
    /\ visit.arrived => v.arrived
    /\ visit.status \in Closed => v.status \in Closed
    /\ Seated /\ v.status = "approved" /\ visit.table \in Physical => v.table \in Physical

LEMMA VisitsAreBound ==
  ASSUME visit \in BotVisit, NEW b, NEW v \in VisitAfter(b)
  PROVE  Bound(v) /\ (b = "waiter:booking_checkin" => v.arrived)
<1> USE DEF If, Bound, BotVisit, Closed, Physical, Seated, Active
<1>1. ASSUME v \in Approval PROVE Bound(v)
  BY <1>1 DEF Approval
<1>2. ASSUME NEW s \in {"rejected", "cancelled"}, v \in Ended(s) PROVE Bound(v)
  BY <1>2 DEF Ended, Released
<1>3. ASSUME v \in Arrival PROVE Bound(v) /\ v.arrived
  BY <1>3 DEF Arrival
<1>4. ASSUME v \in Completion PROVE Bound(v)
  <2> DEFINE t == IF visit.table = "closed" THEN visit.table ELSE "free"
  <2>1. v = visit \/ (Active /\ v = [visit EXCEPT !.status = "completed", !.table = t])
    BY <1>4 DEF Completion
  <2>2. CASE v # visit
    <3>1. v = [status |-> "completed", arrived |-> visit.arrived, table |-> t,
               request |-> visit.request]
      BY <2>1, <2>2
    <3>2. t \in {"free", "closed"}
      OBVIOUS
    <3> HIDE DEF t
    <3> QED BY <2>1, <2>2, <3>1, <3>2
  <2>3. CASE v = visit
    BY <2>3
  <2> QED BY <2>2, <2>3
<1>5. ASSUME v = [visit EXCEPT !.table = "cleaning"] PROVE Bound(v)
  BY <1>5
<1>6. ASSUME v \in OccupiedByWaiter PROVE Bound(v)
  BY <1>6 DEF OccupiedByWaiter
<1>7. ASSUME v \in FreedByWaiter PROVE Bound(v)
  BY <1>7 DEF FreedByWaiter
<1>8. ASSUME v \in Rescheduled \cup NotRescheduled PROVE Bound(v)
  BY <1>8 DEF Rescheduled, NotRescheduled
<1> HIDE DEF If, Bound
<1> QED
  BY <1>1, <1>2, <1>3, <1>4, <1>5, <1>6, <1>7, <1>8 DEF VisitAfter

\* What a service may do to a call that p answers.
LEMMA CallsAreBound ==
  ASSUME call \in BotCall, call.status = "accepted" => call.of # Nobody,
         NEW p \in Person, NEW b, NEW c \in CallAfter(b, p)
  PROVE  /\ c \in BotCall
         /\ c.status = "accepted" => c.of # Nobody
         /\ call.status = "accepted" /\ c.status = "accepted" => c.of = call.of
  BY DEF CallAfter, If, BotCall

\* What a person may press is a button.
LEMMA PressableButtons ==
  ASSUME BotTypeOK, NEW p \in Person
  PROVE  Within(p) \subseteq Button
  BY DEF BotTypeOK, Within, Button

LEMMA ScreensAreButtons ==
  ASSUME BotTypeOK, NEW p \in Person, NEW S \in Screens(p)
  PROVE  S \subseteq Button
  BY DEF BotTypeOK, Screens, WaiterScreens, HookahScreens, AdminScreens, Button

\* The message that was answered goes or stays.
LEMMA AnsweredTypes ==
  ASSUME BotTypeOK, NEW p \in Person, NEW b, Answered(p, b)
  PROVE  screen' \in [Person -> SUBSET Button]
  BY DEF BotTypeOK, Answered

LEMMA BotBegins == BotInit => BotInv
  BY DEF BotInit, BotInv, BotTypeOK, Part, NoPress, Press, Rechecked, WaiterBooking, BotVisit,
         BotCall, Physical, Closed

LEMMA BotSteps == BotInv /\ [BotNext]_botVars => BotInv'
<1> SUFFICES ASSUME BotInv, [BotNext]_botVars PROVE BotInv'
  OBVIOUS
<1> USE DEF BotInv
<1>0. CASE UNCHANGED botVars
  BY <1>0 DEF botVars, BotTypeOK
<1>1. ASSUME NEW p \in Person, Open(p) PROVE BotInv'
  <2>1. screen' \in [Person -> SUBSET Button]
    BY <1>1, ScreensAreButtons DEF Open, BotTypeOK
  <2> QED BY <1>1, <2>1 DEF Open, rowsOfBot, BotTypeOK
<1>2. ASSUME NEW p \in Person, NEW b \in Button, Recheck(p, b) PROVE BotInv'
  <2>1. screen' \in [Person -> SUBSET Button]
    BY <1>2, AnsweredTypes DEF Recheck, BotTypeOK
  <2>2. \/ UNCHANGED presses
        \/ presses' = [presses EXCEPT ![p] = [step |-> "checked", button |-> b]]
    BY <1>2 DEF Recheck
  <2>3. presses' \in [Person -> Press]
    BY <1>2, <2>2 DEF Recheck, BotTypeOK, Press
  <2>4. \A q \in Person : presses'[q].step = "assigning" => presses[q].step = "assigning"
    BY <2>2 DEF BotTypeOK
  <2> QED BY <1>2, <2>1, <2>3, <2>4 DEF Recheck, rowsOfBot, BotTypeOK
<1>3. ASSUME NEW p \in Person, NEW b \in Button, ServeAtOnce(p, b) PROVE BotInv'
  <2>1. screen' \in [Person -> SUBSET Button]
    BY <1>3, AnsweredTypes DEF ServeAtOnce
  <2>2. visit' \in BotVisit /\ (visit.arrived => visit'.arrived)
    BY <1>3, VisitsAreBound DEF ServeAtOnce, BotTypeOK, Bound
  <2>3. call' \in BotCall /\ (call'.status = "accepted" => call'.of # Nobody)
    BY <1>3, CallsAreBound DEF ServeAtOnce, BotTypeOK
  <2> QED BY <1>3, <2>1, <2>2, <2>3 DEF ServeAtOnce, BotTypeOK
<1>4. ASSUME NEW p \in Person, ServeChecked(p) PROVE BotInv'
  <2> DEFINE b == presses[p].button
  <2>1. /\ screen' \in [Person -> SUBSET Button]
    BY <1>4, AnsweredTypes DEF ServeChecked, BotTypeOK
  <2>2. /\ visit' \in BotVisit /\ (visit.arrived => visit'.arrived)
        /\ b = "waiter:booking_checkin" => visit'.arrived
    BY <1>4, VisitsAreBound DEF ServeChecked, BotTypeOK, Bound
  <2>3. CASE b = "waiter:booking_checkin"
    <3>1. presses' = [presses EXCEPT ![p].step = "assigning"]
      BY <1>4, <2>3 DEF ServeChecked
    <3>2. presses' \in [Person -> Press]
      BY <3>1 DEF BotTypeOK, Press
    <3> QED BY <1>4, <2>1, <2>2, <2>3, <3>2 DEF ServeChecked, BotTypeOK
  <2>4. CASE b # "waiter:booking_checkin"
    <3>1. presses' = [presses EXCEPT ![p] = NoPress]
      BY <1>4, <2>4 DEF ServeChecked
    <3>2. presses' \in [Person -> Press]
          /\ \A q \in Person : presses'[q].step = "assigning" => presses[q].step = "assigning"
      BY <3>1 DEF BotTypeOK, Press, NoPress, Rechecked, WaiterBooking
    <3> QED BY <1>4, <2>1, <2>2, <3>2 DEF ServeChecked, BotTypeOK
  <2> QED BY <2>3, <2>4
<1>5. ASSUME NEW p \in Person, AssignPresser(p) \/ PressFails(p) PROVE BotInv'
  <2>1. screen' \in [Person -> SUBSET Button]
    BY <1>5, AnsweredTypes DEF AssignPresser, PressFails, BotTypeOK
  <2>2. presses' = [presses EXCEPT ![p] = NoPress]
    BY <1>5 DEF AssignPresser, PressFails
  <2>3. presses' \in [Person -> Press]
        /\ \A q \in Person : presses'[q].step = "assigning" => presses[q].step = "assigning"
    BY <2>2 DEF BotTypeOK, Press, NoPress, Rechecked, WaiterBooking
  <2>4. keeper' \in Person \cup {Nobody} /\ UNCHANGED <<part, role, notices, visit, call>>
    BY <1>5 DEF AssignPresser, PressFails, rowsOfBot, BotTypeOK
  <2> QED BY <2>1, <2>3, <2>4 DEF BotTypeOK
<1>6. ASSUME GuestBooks \/ GuestAsks \/ GuestIsLate PROVE BotInv'
  <2>1. notices' \subseteq Notices
    BY <1>6 DEF GuestBooks, GuestAsks, GuestIsLate, Notices, BotTypeOK
  <2>2. visit' \in BotVisit /\ visit'.arrived = visit.arrived
    BY <1>6 DEF GuestBooks, GuestAsks, GuestIsLate, BotTypeOK, BotVisit, rowsOfBot
  <2> QED
    BY <1>6, <2>1, <2>2 DEF GuestBooks, GuestAsks, GuestIsLate, BotTypeOK, rowsOfBot
<1>7. ASSUME WebApplication PROVE BotInv'
  <2>1. visit' \in BotVisit /\ (visit.arrived => visit'.arrived)
    <3>1. ASSUME NEW b \in Button, visit' \in VisitAfter(b)
          PROVE  visit' \in BotVisit /\ (visit.arrived => visit'.arrived)
      BY <3>1, VisitsAreBound DEF BotTypeOK, Bound
    <3>2. ASSUME NEW t \in {"free", "closed"}, visit' = [visit EXCEPT !.table = t]
          PROVE  visit' \in BotVisit /\ (visit.arrived => visit'.arrived)
      BY <3>2 DEF BotTypeOK, BotVisit
    <3> QED BY <1>7, <3>1, <3>2 DEF WebApplication
  <2> QED BY <1>7, <2>1 DEF WebApplication, BotTypeOK
<1>8. ASSUME GuestCalls PROVE BotInv'
  <2>1. PICK p \in {Nobody} \cup {q \in Person : part = "call"} :
           call' = [call EXCEPT !.status = "new", !.of = p]
    BY <1>8, Zenon DEF GuestCalls
  <2>2. call' \in BotCall /\ call'.status # "accepted"
    BY <2>1 DEF BotTypeOK, BotCall
  <2>3. notices' \subseteq Notices
    BY <1>8 DEF GuestCalls, Notices
  <2> QED BY <1>8, <2>2, <2>3 DEF GuestCalls, BotTypeOK
<1>9. ASSUME CallEnds PROVE BotInv'
  <2>1. call' \in BotCall /\ call'.status # "accepted"
    BY <1>9 DEF CallEnds, BotTypeOK, BotCall
  <2> QED BY <1>9, <2>1 DEF CallEnds, BotTypeOK
<1> QED
  BY <1>0, <1>1, <1>2, <1>3, <1>4, <1>5, <1>6, <1>7, <1>8, <1>9 DEF BotNext

LEMMA BotInvHolds == BotSpec => []BotInv
  BY BotBegins, BotSteps, PTL DEF BotSpec

\* Every variable of the bot has its type: screens and notifications have buttons
\* of the bot, and only those presses wait that look at the booking again.
THEOREM BotTypesHold == BotSpec => []BotTypeOK
<1>1. BotInv => BotTypeOK
  BY DEF BotInv
<1> QED BY <1>1, BotInvHolds, PTL

\* However old a button is, and whatever people and the web application do
\* between a press, its second look and its service: no press brings an ended
\* booking back, takes the table from guests who sit, hands an accepted call to
\* somebody else, or remembers a waiter for guests who never came.
THEOREM OldPressesAreBound == BotSpec => PressesAreBound
<1> DEFINE Pressed == \E p \in Person : \/ ServeChecked(p) \/ AssignPresser(p)
                                        \/ \E b \in Within(p) : ServeAtOnce(p, b)
           Kept == /\ visit.status \in Closed => visit'.status \in Closed
                   /\ Seated /\ Seated' /\ visit.table \in Physical => visit'.table \in Physical
                   /\ call.status = "accepted" /\ call'.status = "accepted" => call'.of = call.of
                   /\ keeper' # keeper => visit.arrived
<1>1. ASSUME BotInv, NEW p \in Person, ServeChecked(p) PROVE Kept
  BY <1>1, VisitsAreBound DEF BotInv, BotTypeOK, ServeChecked, Bound, Seated
<1>2. ASSUME BotInv, NEW p \in Person, AssignPresser(p) PROVE Kept
  BY <1>2 DEF BotInv, AssignPresser
<1>3. ASSUME BotInv, NEW p \in Person, NEW b \in Within(p), ServeAtOnce(p, b) PROVE Kept
  BY <1>3, VisitsAreBound, CallsAreBound DEF BotInv, BotTypeOK, ServeAtOnce, Bound, Seated
<1>4. BotInv => [Pressed => Kept]_botVars
  BY <1>1, <1>2, <1>3
<1> QED BY <1>4, BotInvHolds, PTL DEF PressesAreBound

-----------------------------------------------------------------------------
(* The three side by side *)

\* A behaviour of the calls and the bot side by side, as they are checked together, is
\* one of each: what is proved of waiters, hookah workers and the bot holds there.
THEOREM CallsSideBySide == MCSpec => Spec /\ HookahSpec /\ BotSpec
<1>1. MCInit => Init /\ HookahInit /\ BotInit
  BY DEF MCInit
<1>2. [MCNext]_allVars => [Next]_vars /\ [HookahNext]_hookahVars /\ [BotNext]_botVars
  BY DEF MCNext, allVars
<1> QED BY <1>1, <1>2, PTL DEF MCSpec, Spec, HookahSpec, BotSpec

\* Calls, requests and buttons keep their shape.
THEOREM CallsTyped == MCSpec => []MCTypeOK
<1>1. TypeOK /\ HookahTypeOK /\ BotTypeOK => MCTypeOK
  BY DEF MCTypeOK
<1> QED BY <1>1, CallsSideBySide, CallsTypeCorrect, HookahTypeCorrect, BotTypesHold, PTL
=============================================================================
