--------------------------- MODULE StaffPinThrottle ---------------------------
(***************************************************************************)
(* How often one member of staff, or one invitation, may be tried with a   *)
(* PIN (src/backend/src/staff/staff-pin-throttle.service.ts): every guess  *)
(* is reserved in the database before the PIN is compared, and ends there. *)
(*                                                                         *)
(* One subject is modelled; subjects share nothing but the clean-up, which *)
(* any login starts.  The transactions that reserve a guess and that count *)
(* a failure wait for an advisory lock and keep the time at which they     *)
(* began (PostgreSQL's NOW()); the deletions take no advisory lock, and may*)
(* fall between the two steps of counting a failure.                       *)
(***************************************************************************)
EXTENDS Integers, Sequences, FiniteSets

CONSTANTS
    Call,      \* concurrent calls of execute, in any process
    MaxFailed, \* PIN_MAX_FAILED_ATTEMPTS
    Window,    \* PIN_FAILED_WINDOW_MS
    LockFor,   \* PIN_LOCK_MS
    Retention, \* PIN_PENDING_RETENTION_MS
    Horizon,   \* bound: time stops here
    MaxRows    \* bound: guesses ever reserved

ASSUME ThrottleAssumption ==
    /\ MaxFailed \in Nat \ {0} /\ Window \in Nat \ {0} /\ LockFor \in Nat \ {0}
    /\ Retention \in Nat /\ Retention >= Window
    /\ Horizon \in Nat /\ MaxRows \in Nat

VARIABLES
    now,  \* the database's clock
    rows, \* staff_pin_attempts by id, with the rows deleted since
    call  \* what each call is doing

vars == <<now, rows, call>>

Never == -1

\* A row is pending or failed; the others are deleted: by the clean-up, after a
\* verified credential, or because the guess was not answered.
Statuses == {"pending", "failed", "stale", "cleared", "released"}
Forgiven == {"cleared", "released"}

Row == [status      : Statuses,
        reservedAt  : Nat,
        failedAt    : Nat \cup {Never},
        lockedUntil : Nat \cup {Never},
        admittedAt  : Nat]              \* history: when the row was inserted

Phases == {"idle", "arrived", "reserving", "checking", "failing", "counted",
           "clearing", "releasing"}

CallState == [phase : Phases,
              began : Nat,     \* NOW() of the call's transaction
              id    : Nat,     \* its reservation
              lock  : BOOLEAN] \* its failure is the one that locks

Idle == [phase |-> "idle", began |-> 0, id |-> 0, lock |-> FALSE]

Init == now = 0 /\ rows = <<>> /\ call = [c \in Call |-> Idle]

At(c, phase) == call[c].phase = phase
Becomes(c, s) == call' = [call EXCEPT ![c] = s]
Enters(c, phase) == Becomes(c, [Idle EXCEPT !.phase = phase, !.id = call[c].id])

\* The advisory lock is free: nobody is in the middle of counting a failure.
LockFree == \A c \in Call : ~At(c, "counted")

\* The rows in set I are deleted, for the reason given.
Deleted(I, reason) ==
    rows' = [i \in DOMAIN rows |->
                 IF i \in I THEN [rows[i] EXCEPT !.status = reason] ELSE rows[i]]

-----------------------------------------------------------------------------
(* Clean-up *)

\* Slip: pending rows are dropped before their window is over.
OldOrPending(i) ==
    /\ rows[i].lockedUntil <= now
    /\ \/ rows[i].status = "pending" /\ rows[i].reservedAt < now
       \/ rows[i].status = "failed" /\ rows[i].failedAt + Window <= now

\* The rows cleanupStaleAttempts deletes.
Stale(i) ==
    /\ rows[i].lockedUntil <= now
    /\ \/ rows[i].status = "pending" /\ rows[i].reservedAt + Retention <= now
       \/ rows[i].status = "failed" /\ rows[i].failedAt + Window <= now

\* A row whose failure is being counted is locked; once it is committed it is
\* no longer old.
BeingCounted(i) == \E c \in Call : At(c, "counted") /\ call[c].id = i

\* A call of execute begins with the clean-up.  (A login of another subject
\* does no more than this here: it may Abandon at once.)
Arrive(c) ==
    /\ At(c, "idle")
    /\ Deleted({i \in DOMAIN rows : Stale(i) /\ ~BeingCounted(i)}, "stale")
    /\ Enters(c, "arrived")
    /\ UNCHANGED now

-----------------------------------------------------------------------------
(* Reserving a guess *)

\* A transaction of the call begins, and waits for the advisory lock.
Begins(c, phase) == Becomes(c, [call[c] EXCEPT !.phase = phase, !.began = now])

BeginReserve(c) == At(c, "arrived") /\ Begins(c, "reserving") /\ UNCHANGED <<now, rows>>

FailedSince(t) ==
    {i \in DOMAIN rows : rows[i].status = "failed" /\ rows[i].failedAt >= t}

PendingSince(t) ==
    {i \in DOMAIN rows : rows[i].status = "pending" /\ rows[i].reservedAt >= t}

Locking(i, t) == rows[i].status = "failed" /\ rows[i].lockedUntil > t

\* Slip: the lock is forgotten once the failures are.
FewAttempts(t) ==
    Cardinality(PendingSince(t - Window) \cup FailedSince(t - Window)) < MaxFailed

\* Slip: guesses that are still being checked do not count.
FewFailures(t) ==
    /\ \A i \in DOMAIN rows : ~Locking(i, t)
    /\ Cardinality(FailedSince(t - Window)) < MaxFailed

\* A transaction of time t may reserve another guess.
Admissible(t) ==
    /\ \A i \in DOMAIN rows : ~Locking(i, t)
    /\ Cardinality(PendingSince(t - Window) \cup FailedSince(t - Window)) < MaxFailed

Reserve(c) ==
    /\ At(c, "reserving") /\ LockFree /\ Len(rows) < MaxRows
    /\ Admissible(call[c].began)
    /\ rows' = Append(rows, [status |-> "pending", reservedAt |-> call[c].began,
                             failedAt |-> Never, lockedUntil |-> Never,
                             admittedAt |-> now])
    /\ Becomes(c, [Idle EXCEPT !.phase = "checking", !.id = Len(rows) + 1])
    /\ UNCHANGED now

\* 429: locked, or too many guesses at once.
Refuse(c) ==
    /\ At(c, "reserving") /\ LockFree /\ ~Admissible(call[c].began)
    /\ Becomes(c, Idle)
    /\ UNCHANGED <<now, rows>>

-----------------------------------------------------------------------------
(* The end of a guess *)

\* The PIN was wrong: the transaction that counts the failure begins.
Wrong(c) == At(c, "checking") /\ Begins(c, "failing") /\ UNCHANGED <<now, rows>>

\* The PIN was right, even if the login is refused for another reason.
Right(c) == At(c, "checking") /\ Enters(c, "clearing") /\ UNCHANGED <<now, rows>>

\* The PIN was not compared: any other error.
Trouble(c) == At(c, "checking") /\ Enters(c, "releasing") /\ UNCHANGED <<now, rows>>

\* markCredentialFailure up to its count of the failures; its own update is not
\* visible to others yet.
Count(c) ==
    /\ At(c, "failing") /\ LockFree
    /\ rows[call[c].id].status = "pending"
    /\ LET failures == FailedSince(call[c].began - Window) \cup {call[c].id}
       IN  Becomes(c, [call[c] EXCEPT !.phase = "counted",
                                      !.lock = Cardinality(failures) >= MaxFailed])
    /\ UNCHANGED <<now, rows>>

\* The row has been cleaned up meanwhile: nothing is counted.
NothingToCount(c) ==
    /\ At(c, "failing") /\ LockFree
    /\ rows[call[c].id].status # "pending"
    /\ Becomes(c, Idle)
    /\ UNCHANGED <<now, rows>>

\* Slip: every failure locks.
LockingFailure(r, t, lock) ==
    [r EXCEPT !.status = "failed", !.failedAt = t, !.lockedUntil = t + LockFor]

\* The row of a failure counted at time t.
Failure(r, t, lock) ==
    [r EXCEPT !.status = "failed", !.failedAt = t,
              !.lockedUntil = IF lock THEN t + LockFor ELSE Never]

\* markCredentialFailure is committed, with the lock it may have set.
CommitFailure(c) ==
    /\ At(c, "counted")
    /\ rows' = [rows EXCEPT ![call[c].id] =
                    Failure(rows[call[c].id], call[c].began, call[c].lock)]
    /\ Becomes(c, Idle)
    /\ UNCHANGED now

\* Slip: everything up to the reservation is, also guesses not answered yet.
EverythingThrough(id) == {i \in DOMAIN rows : i <= id}

\* The rows a verified credential deletes: its own and the failures of earlier
\* reservations.
Through(id) == {i \in DOMAIN rows : i = id \/ (i <= id /\ rows[i].status = "failed")}

\* clearThrough.
Clear(c) ==
    /\ At(c, "clearing")
    /\ Deleted({i \in Through(call[c].id) : rows[i].status \in {"pending", "failed"}},
               "cleared")
    /\ Becomes(c, Idle)
    /\ UNCHANGED now

\* releaseReservation.
Release(c) ==
    /\ At(c, "releasing")
    /\ Deleted({i \in {call[c].id} : rows[i].status = "pending"}, "released")
    /\ Becomes(c, Idle)
    /\ UNCHANGED now

\* The process stops or the database fails: what is not committed is undone, and
\* a deletion is not tried again.
Abandon(c) ==
    /\ ~At(c, "idle")
    /\ Becomes(c, Idle)
    /\ UNCHANGED <<now, rows>>

Tick == now < Horizon /\ now' = now + 1 /\ UNCHANGED <<rows, call>>

Step(c) ==
    \/ Arrive(c) \/ BeginReserve(c) \/ Reserve(c) \/ Refuse(c)
    \/ Wrong(c) \/ Right(c) \/ Trouble(c)
    \/ Count(c) \/ NothingToCount(c) \/ CommitFailure(c)
    \/ Clear(c) \/ Release(c) \/ Abandon(c)

Next == Tick \/ \E c \in Call : Step(c)

Spec == Init /\ [][Next]_vars

-----------------------------------------------------------------------------
(* Properties *)

\* Every variable has its type; a failure is dated, after its reservation, and
\* only failures lock.
TypeOK ==
    /\ now \in Nat
    /\ call \in [Call -> CallState]
    /\ rows \in Seq(Row)
    /\ \A i \in DOMAIN rows :
           /\ rows[i].reservedAt <= rows[i].admittedAt /\ rows[i].admittedAt <= now
           /\ rows[i].status = "failed" => rows[i].failedAt >= rows[i].reservedAt
           /\ rows[i].status = "pending" => rows[i].failedAt = Never
           /\ rows[i].failedAt = Never => rows[i].lockedUntil = Never
           /\ rows[i].failedAt <= now
    /\ \A c \in Call : call[c].began <= now

\* The phases of a call that holds a reservation.
Guessing == {"checking", "failing", "counted", "clearing", "releasing"}

\* As long as a guess is under way its reservation is its own and is there, unless
\* the clean-up found it older than Retention: no other call can take it away, so
\* that its failure is not lost.
OwnReservation ==
    \A c \in Call :
        call[c].phase \in Guessing
            => /\ call[c].id \in DOMAIN rows
               /\ \/ rows[call[c].id].status = "pending"
                  \/ rows[call[c].id].status = "stale" /\ ~At(c, "counted")
               /\ \A d \in Call \ {c} : call[d].id # call[c].id

\* The guesses reserved within a window of the admission of guess j, not counting
\* those a verified credential forgave and those never answered.
RecentGuesses(j) ==
    {i \in 1 .. j : /\ rows[i].status \notin Forgiven
                    /\ rows[i].reservedAt > rows[j].admittedAt - Window}

\* No more than MaxFailed guesses within a window: a guess that is admitted is at
\* most the MaxFailed-th of the recent ones.
GuessesAreLimited ==
    \A j \in DOMAIN rows : Cardinality(RecentGuesses(j)) <= MaxFailed

\* The guesses that failed since time t, of whatever became of their rows.
FailuresSince(t) ==
    {k \in DOMAIN rows : rows[k].failedAt # Never /\ rows[k].failedAt >= t}

\* Nobody is locked out for less than MaxFailed wrong guesses within a window.
LockIsEarned ==
    \A i \in DOMAIN rows :
        rows[i].lockedUntil # Never
            => Cardinality(FailuresSince(rows[i].failedAt - Window)) >= MaxFailed

\* No guess that is compared gets lost, the throttle stops those that are too many,
\* and nobody else.
GuessesAreJudged == OwnReservation /\ GuessesAreLimited /\ LockIsEarned

\* While a lock is in force no guess is admitted, and nothing lifts it but a
\* credential verified by a guess that was reserved after the one that locked.
LockHolds ==
    [][\A i \in DOMAIN rows :
           Locking(i, now)
               => /\ Len(rows') = Len(rows)
                  /\ \/ rows'[i] = rows[i]
                     \/ /\ rows'[i].status = "cleared"
                        /\ \E c \in Call : At(c, "clearing") /\ call[c].id > i]_vars
=============================================================================
