---------------------------- MODULE BookingLocks ----------------------------
(* The locks of the booking requests, statement by statement: the advisory  *)
(* locks that BookingTableLockService holds on a connection of its own, the *)
(* transaction that does the work on a second connection, its advisory and  *)
(* row locks, the checks between them, and the deadlocks that PostgreSQL    *)
(* does and does not see. One day and one interval of time: two bookings    *)
(* of a table collide.                                                      *)
EXTENDS Integers, FiniteSets, Sequences

CONSTANTS Handler,   \* requests served at the same time
          Booking,   \* bookings of the day
          Table,     \* tables, as numbers: locks are taken in their order
          Kind,      \* the kinds of request explored
          Pool,      \* connections of the pool (10, the default of pg)
          MaxRequests,   \* bound: requests that arrive in all
          NoJob, NoOwner

ASSUME LocksAssumption ==
    /\ Table \subseteq Nat /\ IsFiniteSet(Table) /\ IsFiniteSet(Handler)
    /\ Pool \in Nat /\ MaxRequests \in Nat
    /\ Kind \subseteq {"create", "block", "waiterTransfer", "plannedTransfer",
                      "approveChange", "rejectChange", "askChange", "transition",
                      "approveTime", "close"}
    /\ NoJob \notin Booking /\ NoOwner \notin Handler \X {"runner", "tx"}

VARIABLES arrived,   \* requests that have arrived
          row,       \* bookings: status and tables, as committed
          pending,   \* bookings whose table change request is pending
          blocked,   \* tables planned to be unavailable
          job,       \* what a handler serves: kind, booking, tables asked for
          pc,        \* the next operation of the handler's plan
          seen,      \* the booking row as the handler last read it
          dirty,     \* the rejection found the row changed since it read it
          conns,     \* connections of a handler: "runner" and "tx"
          holder,    \* the session that holds a lock
          origin     \* history: how a booking was placed last

vars == <<arrived, row, pending, blocked, job, pc, seen, dirty, conns, holder, origin>>

-----------------------------------------------------------------------------
\* Locks and the sessions that hold them.
Slot(t) == <<"slot", t>>              \* advisory lock of a table and the day
TransferLock(b) == <<"transfer", b>>  \* advisory lock of a booking's transfer
RowOf(b) == <<"booking", b>>
RequestOf(b) == <<"request", b>>
TableRow(t) == <<"table", t>>

Lock == {Slot(t) : t \in Table} \cup {TableRow(t) : t \in Table}
          \cup {TransferLock(b) : b \in Booking} \cup {RowOf(b) : b \in Booking}
          \cup {RequestOf(b) : b \in Booking}

Session == {"runner", "tx"}
Owner == Handler \X Session

Active(b) == row[b].status = "active"
Taken(T) == \E b \in Booking : Active(b) /\ row[b].tables \cap T /= {}

\* The table named by the booking row; a banquet's first one here.
Primary(r) == {t \in r.tables : \A u \in r.tables : t <= u}

-----------------------------------------------------------------------------
\* Plans: the phases of a request in the order of its statements. A phase
\* that locks tables locks them one by one, in the order of their numbers.

\* Mutant: a creation that reads the blocks before it has its advisory locks.
BlocksReadFirst ==
    <<"connect", "unblocked", "slots", "begin", "tables", "check", "commit", "log">>

\* Creations of the guest, of the administrator and of a banquet: the blocks
\* are read under the advisory locks, before the transaction.
CreatePlan ==
    <<"connect", "slots", "unblocked", "begin", "tables", "check", "commit", "log">>

\* Planning an unavailability: no transaction, a check and a save.
BlockPlan == <<"connect", "slots", "check", "commit", "log">>

\* Both transfers run under the lock of the transfer and of both tables. The
\* waiter's writes its log entry within the transaction.
TransferPlan ==
    <<"connect", "transfer", "read", "slots", "begin", "row", "valid", "tables", "check",
      "oldTables", "commit", "log">>
WaiterPlan ==
    <<"connect", "transfer", "read", "slots", "begin", "row", "valid", "tables", "check",
      "oldTables", "note", "commit">>

\* A table change is approved under row locks only.
ChangePlan ==
    <<"begin", "request", "row", "valid", "tables", "check", "oldTables", "commit">>

\* Its rejection reads the booking with the request and saves both.
RejectPlan == <<"begin", "request", "read", "valid", "compare", "row", "commit">>

\* The guest asks for another table: the booking first, then its request, if any.
AskPlan == <<"begin", "row", "valid", "request", "commit">>

\* Mutant: the booking row is locked before the slots.
RowBeforeSlots ==
    <<"begin", "read", "row", "txSlots", "valid", "tables", "check", "commit">>

\* Approval of a booking and check-in: advisory locks of the transaction,
\* before the booking row.
TransitionPlan ==
    <<"begin", "read", "txSlots", "row", "valid", "tables", "check", "commit">>

\* Approval of another time: a booking that moved meanwhile has the slot of
\* its new table locked after its row.
ReschedulePlan ==
    <<"begin", "read", "txSlots", "row", "valid", "newSlots", "tables", "check", "commit">>

\* Rejection, cancellation, completion: the booking, then its tables.
ClosePlan == <<"begin", "row", "valid", "tables", "commit">>

PlanOf(k) ==
    CASE k = "create"         -> CreatePlan
      [] k = "block"          -> BlockPlan
      [] k = "plannedTransfer" -> TransferPlan
      [] k = "waiterTransfer" -> WaiterPlan
      [] k = "approveChange"  -> ChangePlan
      [] k = "rejectChange"   -> RejectPlan
      [] k = "askChange"      -> AskPlan
      [] k = "transition"     -> TransitionPlan
      [] k = "approveTime"    -> ReschedulePlan
      [] k = "close"          -> ClosePlan

Busy(p) == job[p] /= NoJob
Phase(p) == IF Busy(p) THEN PlanOf(job[p].kind)[pc[p]] ELSE "idle"

\* The tables whose slots or rows a phase locks. The row of the booking is
\* what the handler reads once it has locked it.
Tables(j, s, r, phase) ==
    CASE j.kind \in {"create", "block"} -> j.to
      [] j.kind \in {"waiterTransfer", "plannedTransfer", "approveChange"} ->
           (CASE phase = "slots" -> Primary(s) \cup j.to
              [] phase = "tables" -> j.to
              [] OTHER -> Primary(r))
      [] j.kind = "approveTime" ->
           (CASE phase = "txSlots" -> Primary(s)
              [] phase = "newSlots" -> Primary(r) \ Primary(s)
              [] OTHER -> Primary(r))
      [] OTHER -> IF phase = "txSlots" THEN s.tables ELSE r.tables

OnSlots == {"slots", "txSlots", "newSlots"}
OnRows == {"request", "row", "tables", "oldTables"}
OfSession == {"slots", "transfer"}  \* advisory locks of the connection for locks

\* The locks that a phase needs.
Needs(p, phase) ==
    LET j == job[p]
        T == Tables(j, seen[p], row[j.booking], phase)
    IN  CASE phase \in OnSlots -> {Slot(t) : t \in T}
          [] phase = "transfer" -> {TransferLock(j.booking)}
          [] phase = "row" -> {RowOf(j.booking)}
          [] phase = "request" ->
               IF j.kind = "askChange" /\ j.booking \notin pending THEN {}
               ELSE {RequestOf(j.booking)}
          [] phase \in {"tables", "oldTables"} -> {TableRow(t) : t \in T}

-----------------------------------------------------------------------------
\* Waiting: for a lock another session holds, or for one of the pool's
\* connections.
AtLock(p) == Phase(p) \in OnSlots \cup OnRows \cup {"transfer"}
SessionOf(p) == <<p, IF Phase(p) \in OfSession THEN "runner" ELSE "tx">>
Missing(p) == {l \in Needs(p, Phase(p)) : holder[l] /= SessionOf(p)}
Wanted(p) == {l \in Missing(p) : \A m \in Missing(p) \ {l} : l[2] < m[2]}
AwaitsLock(p) == AtLock(p) /\ \E l \in Wanted(p) : holder[l] /= NoOwner
Blockers(p) == {holder[l] : l \in Wanted(p)}

\* Statements outside the transaction borrow a connection.
Borrows(p) ==
    \/ Phase(p) \in {"unblocked", "note", "log"}
    \/ Phase(p) \in {"read", "check", "commit"} /\ "tx" \notin conns[p]
    \/ Phase(p) = "check" /\ job[p].kind = "waiterTransfer"
Connections == UNION {{p} \X conns[p] : p \in Handler}
PoolFree == Cardinality(Connections) < Pool
AwaitsConnection(p) == (Phase(p) \in {"connect", "begin"} \/ Borrows(p)) /\ ~PoolFree

\* PostgreSQL looks for a cycle of sessions, each waiting for the next.
PgCycle(D) ==
    /\ D /= {}
    /\ \A p \in D : AwaitsLock(p) /\ \E q \in D : SessionOf(q) \in Blockers(p)

-----------------------------------------------------------------------------
NoBooking == [status |-> "none", tables |-> {}]

Init ==
    /\ arrived = 0
    /\ row = [b \in Booking |-> NoBooking]
    /\ pending = {}
    /\ blocked = {}
    /\ job = [p \in Handler |-> NoJob]
    /\ pc = [p \in Handler |-> 1]
    /\ seen = [p \in Handler |-> NoBooking]
    /\ dirty = [p \in Handler |-> FALSE]
    /\ conns = [p \in Handler |-> {}]
    /\ holder = [l \in Lock |-> NoOwner]
    /\ origin = [b \in Booking |-> "sure"]

\* The tables a request may name: a banquet takes two, a zone is blocked
\* whole; requests about a booking that exists move it to one table or none.
Asked(k) ==
    CASE k \in {"create", "block"} -> {T \in SUBSET Table : Cardinality(T) \in 1..2}
      [] k \in {"waiterTransfer", "plannedTransfer", "approveChange"} -> {{t} : t \in Table}
      [] OTHER -> {{}}

Jobs ==
    UNION {[kind : {k}, to : Asked(k),
            booking : IF k = "block" THEN {NoJob} ELSE Booking] : k \in Kind}

ASSUME NoJobAssumption == NoJob \notin Jobs

\* A request arrives: about a booking that exists, or to create one of its own.
MayArrive(j) ==
    CASE j.kind = "block" -> TRUE
      [] j.kind = "create" ->
           /\ row[j.booking] = NoBooking
           /\ \A q \in Handler : Busy(q) => job[q].booking /= j.booking
      [] OTHER -> row[j.booking] /= NoBooking

Arrive(p) ==
    /\ ~Busy(p) /\ arrived < MaxRequests
    /\ arrived' = arrived + 1
    /\ \E j \in Jobs : MayArrive(j) /\ job' = [job EXCEPT ![p] = j]
    /\ UNCHANGED <<row, pending, blocked, pc, seen, dirty, conns, holder, origin>>

\* Mutant: a request that ends keeps the connection of its locks.
KeepsConnection(p) ==
    /\ job' = [job EXCEPT ![p] = NoJob]
    /\ pc' = [pc EXCEPT ![p] = 0]
    /\ seen' = [seen EXCEPT ![p] = NoBooking]
    /\ dirty' = [dirty EXCEPT ![p] = FALSE]
    /\ UNCHANGED <<conns, holder>>

\* The request ends, well or with an error: its transaction is over, the
\* advisory locks are released and the connections return to the pool.
Release(p) ==
    /\ job' = [job EXCEPT ![p] = NoJob]
    /\ pc' = [pc EXCEPT ![p] = 1]
    /\ seen' = [seen EXCEPT ![p] = NoBooking]
    /\ dirty' = [dirty EXCEPT ![p] = FALSE]
    /\ conns' = [conns EXCEPT ![p] = {}]
    /\ holder' = [l \in Lock |->
                    IF holder[l] \in {p} \X Session THEN NoOwner ELSE holder[l]]

Fail(p) == Release(p) /\ UNCHANGED <<row, pending, blocked, origin>>

Advance(p) ==
    /\ pc' = [pc EXCEPT ![p] = @ + 1]
    /\ UNCHANGED <<row, pending, blocked, job, origin>>

\* A connection of the pool, for the locks or for the transaction.
Connect(p) ==
    /\ Phase(p) \in {"connect", "begin"} /\ PoolFree
    /\ conns' = [conns EXCEPT ![p] = @ \cup {IF Phase(p) = "begin" THEN "tx" ELSE "runner"}]
    /\ Advance(p)
    /\ UNCHANGED <<seen, dirty, holder>>

\* pg_advisory_lock, pg_advisory_xact_lock and FOR UPDATE: granted when no
\* other session holds the lock.
Acquire(p) ==
    /\ AtLock(p)
    /\ \E l \in Wanted(p) :
        /\ holder[l] = NoOwner
        /\ holder' = [holder EXCEPT ![l] = SessionOf(p)]
        /\ pc' = IF Missing(p) = {l} THEN [pc EXCEPT ![p] = @ + 1] ELSE pc
    /\ UNCHANGED <<row, pending, blocked, job, seen, dirty, conns, origin>>

\* Nothing to lock, or nothing that the transaction has not locked before.
PassOn(p) ==
    /\ AtLock(p) /\ Missing(p) = {}
    /\ Advance(p)
    /\ UNCHANGED <<seen, dirty, conns, holder>>

\* PostgreSQL ends one of the transactions that wait for each other.
Victim(p) ==
    /\ AwaitsLock(p)
    /\ \E D \in SUBSET Handler : p \in D /\ PgCycle(D)
    /\ Fail(p)

\* The booking is read before its row is locked.
Read(p) ==
    /\ Phase(p) = "read" /\ ~AwaitsConnection(p)
    /\ seen' = [seen EXCEPT ![p] = row[job[p].booking]]
    /\ Advance(p)
    /\ UNCHANGED <<dirty, conns, holder>>

\* The conditions on the booking and its request, once their rows are locked.
IsValid(p) ==
    LET j == job[p] IN
    /\ j.kind /= "rejectChange" => Active(j.booking)
    /\ j.kind \in {"approveChange", "rejectChange"} => j.booking \in pending
    /\ j.kind = "transition" => row[j.booking].tables = seen[p].tables
    /\ j.kind \in {"waiterTransfer", "plannedTransfer", "approveChange"}
         => Primary(row[j.booking]) /= j.to

\* The conditions on the tables, once the destination's row is locked.
PassesCheck(p) ==
    LET j == job[p] IN
    /\ j.kind \in {"create", "block", "waiterTransfer", "plannedTransfer", "approveChange"}
         => ~Taken(j.to)
    /\ j.kind \in {"plannedTransfer", "approveChange"} => j.to \cap blocked = {}
    /\ j.kind \in {"waiterTransfer", "plannedTransfer", "approveChange"}
         => Cardinality(row[j.booking].tables) = 1

Holds(p) ==
    CASE Phase(p) = "valid" -> IsValid(p)
      [] Phase(p) = "check" -> PassesCheck(p)
      [] Phase(p) = "unblocked" -> job[p].to \cap blocked = {}
AtTest(p) == Phase(p) \in {"valid", "check", "unblocked"} /\ ~AwaitsConnection(p)

Verify(p) ==
    /\ AtTest(p) /\ Holds(p)
    /\ Advance(p)
    /\ UNCHANGED <<seen, dirty, conns, holder>>

Refuse(p) == AtTest(p) /\ ~Holds(p) /\ Fail(p)

\* The save of the rejection compares the booking it holds with the stored
\* row and writes every column that differs.
Compare(p) ==
    /\ Phase(p) = "compare"
    /\ dirty' = [dirty EXCEPT ![p] = row[job[p].booking] /= seen[p]]
    /\ Advance(p)
    /\ UNCHANGED <<seen, conns, holder>>
-----------------------------------------------------------------------------
\* The effect of a request when its transaction commits.
Placed(p, r) ==
    LET b == job[p].booking IN
    /\ row' = [row EXCEPT ![b] = r]
    /\ origin' = [origin EXCEPT ![b] =
                    IF job[p].kind \in {"approveChange", "rejectChange"} THEN job[p].kind
                    ELSE "sure"]

Effect(p) ==
    LET j == job[p] b == j.booking IN
    CASE j.kind \in {"create", "waiterTransfer", "plannedTransfer"} ->
           Placed(p, [status |-> "active", tables |-> j.to]) /\ UNCHANGED <<pending, blocked>>
      [] j.kind = "approveChange" ->
           /\ Placed(p, [status |-> "active", tables |-> j.to])
           /\ pending' = pending \ {b} /\ UNCHANGED blocked
      [] j.kind = "rejectChange" ->
           /\ IF dirty[p] THEN Placed(p, seen[p]) ELSE UNCHANGED <<row, origin>>
           /\ pending' = pending \ {b} /\ UNCHANGED blocked
      [] j.kind = "askChange" ->
           pending' = pending \cup {b} /\ UNCHANGED <<row, origin, blocked>>
      [] j.kind = "close" ->
           /\ row' = [row EXCEPT ![b].status = "closed"]
           /\ UNCHANGED <<pending, blocked, origin>>
      [] j.kind = "block" ->
           blocked' = blocked \cup j.to /\ UNCHANGED <<row, pending, origin>>
      [] OTHER -> UNCHANGED <<row, pending, blocked, origin>>

\* The transaction commits: its locks and its connection are free. What was
\* done under the session's locks still has its log entry to write.
Commit(p) ==
    /\ Phase(p) = "commit" /\ ~AwaitsConnection(p)
    /\ Effect(p)
    /\ IF pc[p] = Len(PlanOf(job[p].kind)) THEN Release(p)
       ELSE /\ pc' = [pc EXCEPT ![p] = @ + 1]
            /\ conns' = [conns EXCEPT ![p] = @ \ {"tx"}]
            /\ holder' = [l \in Lock |->
                            IF holder[l] = <<p, "tx">> THEN NoOwner ELSE holder[l]]
            /\ UNCHANGED <<job, seen, dirty>>

\* The log entry is written before the commit, on another connection.
LogWithin(p) ==
    /\ Phase(p) = "note" /\ ~AwaitsConnection(p)
    /\ Advance(p)
    /\ UNCHANGED <<seen, dirty, conns, holder>>

\* The log entry is written and the session's locks are released.
Log(p) ==
    /\ Phase(p) = "log" /\ ~AwaitsConnection(p)
    /\ Release(p)
    /\ UNCHANGED <<row, pending, blocked, origin>>

Step(p) ==
    \/ Connect(p) \/ Acquire(p) \/ PassOn(p) \/ Victim(p) \/ Read(p) \/ Verify(p)
    \/ Refuse(p) \/ Compare(p) \/ LogWithin(p) \/ Commit(p) \/ Log(p)

Next == \E p \in Handler : Arrive(p) \/ (Step(p) /\ UNCHANGED arrived)

Spec == Init /\ [][Next]_vars

-----------------------------------------------------------------------------
TypeOK ==
    /\ arrived \in 0..MaxRequests
    /\ row \in [Booking -> [status : {"none", "active", "closed"}, tables : SUBSET Table]]
    /\ pending \subseteq Booking
    /\ blocked \subseteq Table
    /\ job \in [Handler -> Jobs \cup {NoJob}] /\ pc \in [Handler -> Nat]
    /\ \A p \in Handler :
         IF Busy(p) THEN pc[p] \in 1..Len(PlanOf(job[p].kind)) ELSE pc[p] = 1 /\ conns[p] = {}
    /\ seen \in [Handler -> [status : {"none", "active", "closed"}, tables : SUBSET Table]]
    /\ dirty \in [Handler -> BOOLEAN]
    /\ conns \in [Handler -> SUBSET Session]
    /\ holder \in [Lock -> Owner \cup {NoOwner}]
    /\ origin \in [Booking -> {"sure", "approveChange", "rejectChange"}]
    /\ Cardinality(Connections) <= Pool

\* Two kinds of request are not atomic: the rejection of a table change may
\* save a booking as it was before somebody else changed it, and takes no
\* table lock; its approval takes no slot lock, the only one that planning an
\* unavailability takes.
StaleSave(p) == Phase(p) = "commit" /\ job[p].kind = "rejectChange" /\ dirty[p]
Crossed(p) ==
    /\ Phase(p) = "commit"
    /\ \E b \in Booking \ {job[p].booking} : Active(b) /\ row[b].tables \cap job[p].to /= {}
    /\ \A b \in Booking : Active(b) /\ row[b].tables \cap job[p].to /= {} =>
         /\ b /= job[p].booking
         /\ origin[b] \in {"rejectChange"} \cup
              (IF job[p].kind = "block" THEN {"approveChange"} ELSE {})

Slots == INSTANCE AtomicSlots WITH
           status <- [b \in Booking |-> row[b].status],
           at <- [b \in Booking |-> row[b].tables]

\* However the statements interleave, every other request takes effect as one
\* step of AtomicSlots, its conditions true at that moment: the check of a
\* table and the write are not separated by another request for the table.
PlacedAtomically ==
    Slots!Init /\ [][Slots!Next \/ \E p \in Handler : StaleSave(p) \/ Crossed(p)]_Slots!slots

\* Requests that wait for one another in a way PostgreSQL does not see: for a
\* lock of a member, or for a connection while members have them all.
Waiting == {p \in Handler : AwaitsLock(p) \/ AwaitsConnection(p)}
Awaits(p, q) ==
    \/ AwaitsLock(p) /\ \E o \in Blockers(p) : o[1] = q
    \/ AwaitsConnection(p) /\ conns[q] /= {}
Hung(H) ==
    /\ H /= {}
    /\ \A p \in H, q \in Handler : Awaits(p, q) => q \in H
    /\ \A D \in SUBSET H : ~PgCycle(D)

\* The coordinated transitions and the transfers lock a slot before the
\* booking's row, so that locks never wait for each other unseen. The approval of
\* another time has the row and asks for a slot, when somebody moved the booking
\* to another table after it was read.
SlotAfterRow(p) ==
    /\ AwaitsLock(p) /\ Phase(p) = "newSlots"
    /\ \E b \in Booking : holder[RowOf(b)] = <<p, "tx">>
MovedMeanwhile(p) ==
    /\ SlotAfterRow(p) /\ job[p].kind = "approveTime"
    /\ Primary(row[job[p].booking]) \ Primary(seen[p]) /= {}

\* Requests hang for ever only for want of connections, or because a booking
\* was moved under an approval of another time.
HangsAreKnown ==
    \A H \in SUBSET Waiting :
        Hung(H) => \E p \in H : AwaitsConnection(p) \/ MovedMeanwhile(p)

\* No table is given to two bookings, however the requests for it interleave,
\* unless the rejection of a table change has put one of them there.
GivenOnce ==
    \A a, b \in Booking :
        a /= b /\ Active(a) /\ Active(b) /\ row[a].tables \cap row[b].tables /= {} =>
            "rejectChange" \in {origin[a], origin[b]}

\* A closed booking stays closed, unless the rejection of a table change saves
\* it as it had read it before.
SavedLate(b) ==
    \E p \in Handler : StaleSave(p) /\ job[p].booking = b /\ row'[b] = seen[p]
ClosedStaysClosed ==
    [][\A b \in Booking :
          row[b].status = "closed" => row'[b].status = "closed" \/ SavedLate(b)]_vars
=============================================================================
