---------------------------- MODULE SyrveTables ----------------------------
(***************************************************************************)
(* What the bills of the cash registers (Syrve) do to the statuses of the  *)
(* linked tables: src/backend/src/syrve/syrve-state-reducer.ts, the store  *)
(* around it (syrve-state.store.ts), the worker that polls the registers   *)
(* (syrve-worker.runner.ts, probeLoadedOrderBatch of syrve-client.ts) and  *)
(* the receiver of callbacks (syrve-webhook.service.ts).                   *)
(*                                                                         *)
(* A bill is a sequence of versions; version k is what the register says   *)
(* of it at its timestamp k.  Each linked table has a ledger: the bills    *)
(* that are active there and the latest version known of every bill.  A    *)
(* poll captures all ledgers, reads the open bills of the tables, then     *)
(* single bills, and applies what it read to one table after the other; a  *)
(* callback brings one version of one bill, late, twice or never.  Either  *)
(* is void for a table that somebody else has written since its capture:   *)
(* the revision of the ledger and updated_at of the table then differ,     *)
(* which the model keeps as the set of tables that are still "fresh".      *)
(***************************************************************************)
EXTENDS Naturals, Sequences, FiniteSets

CONSTANTS
    Bill,        \* bills (orders) of the registers
    Table,       \* tables linked to a table of the registers
    Elsewhere,   \* tables of the registers without a link
    Register,    \* cash registers (terminal groups)
    RegisterOf,  \* the register of every table
    Seatings,    \* the sets of tables a bill may stand on
    Marks,       \* the statuses that staff and bookings give a table
    Delivery,    \* callbacks that are processed at the same time
    NoPrint,     \* the null fingerprint of contradicting versions
    MaxVersion   \* bound: versions of a bill

Place == Table \cup Elsewhere
Statuses == {"free", "occupied", "other"}

ASSUME SyrveAssumption ==
    /\ RegisterOf \in [Place -> Register]
    /\ Seatings \subseteq SUBSET Place
    /\ \A T \in Seatings : /\ T /= {}
                           /\ \A p, q \in T : RegisterOf[p] = RegisterOf[q]
    /\ Marks \subseteq Statuses
    /\ NoPrint \notin [state : {"open", "closed", "unknown"}, tables : SUBSET Place]
    /\ MaxVersion \in Nat

VARIABLES
    history,  \* the versions every bill has had on its register
    ledger,   \* what is stored for each linked table
    status,   \* tables.status
    poll,     \* the cycle of the worker
    receipt,  \* the topology kept from the last complete poll
    callback  \* the callbacks being processed

vars == <<history, ledger, status, poll, receipt, callback>>

-----------------------------------------------------------------------------
(* Data *)

Version == [kind : {"creating", "open", "closed"}, tables : SUBSET Place]

BillStates == {"open", "closed", "unknown"}
Observed == [id : Bill, at : Nat, state : BillStates, tables : SUBSET Place]

\* The fingerprint of an observed bill: all of it but its identity and version.
Fingerprint == [state : BillStates, tables : SUBSET Place]
PrintOf(x) == [state |-> x.state, tables |-> x.tables]

Known == [at : Nat, state : BillStates \cup {"none"},
          print : Fingerprint \cup {NoPrint}]
NeverSeen == [at |-> 0, state |-> "none", print |-> NoPrint]
Unresolved(at) == [at |-> at, state |-> "unknown", print |-> NoPrint]

Ledger == [active : SUBSET Bill, freed : SUBSET Bill,
           last : {"unknown", "open", "closed"}, versions : [Bill -> Known]]

\* createSyrveTableSyncState.
EmptyLedger == [active |-> {}, freed |-> {}, last |-> "unknown",
                versions |-> [b \in Bill |-> NeverSeen]]

Poll == [phase : {"idle", "captured", "listed", "read"}, fresh : SUBSET Table,
         asked : [Table -> SUBSET Bill], alive : SUBSET Register,
         byTable : SUBSET Observed, byId : SUBSET Observed, left : SUBSET Table]

NoPoll == [phase |-> "idle", fresh |-> {}, asked |-> [t \in Table |-> {}],
           alive |-> {}, byTable |-> {}, byId |-> {}, left |-> {}]

Receipt == [valid : BOOLEAN, live : SUBSET Register, orders : SUBSET Observed]
NoReceipt == [valid |-> FALSE, live |-> {}, orders |-> {}]

Callback == [news : SUBSET Observed, fresh : SUBSET Table, was : SUBSET Table]
NoCallback == [news |-> {}, fresh |-> {}, was |-> {}]

Init ==
    /\ history = [b \in Bill |-> <<>>]
    /\ ledger = [t \in Table |-> EmptyLedger]
    /\ status = [t \in Table |-> "free"]
    /\ poll = NoPoll /\ receipt = NoReceipt
    /\ callback = [d \in Delivery |-> NoCallback]

\* Version k of bill b as the client reads it: nothing is trusted of a bill
\* that is still being created.
Reading(b, k) ==
    LET v == history[b][k]
    IN  IF v.kind = "creating"
        THEN [id |-> b, at |-> k, state |-> "unknown", tables |-> {}]
        ELSE [id |-> b, at |-> k, state |-> v.kind, tables |-> v.tables]

Current(b) == Reading(b, Len(history[b]))

\* mergeSyrveOrders: of each bill, the latest version among those read.
Latest(S) == {x \in S : \A y \in S : y.id = x.id => y.at <= x.at}

-----------------------------------------------------------------------------
(* The registers (external) *)

Publish(b, v) ==
    /\ Len(history[b]) < MaxVersion
    /\ history' = [history EXCEPT ![b] = Append(@, v)]
    /\ UNCHANGED <<ledger, status, poll, receipt, callback>>

\* A bill is opened at some tables, at once or by a creation that takes time.
OpenBill(b, T, kind) ==
    /\ history[b] = <<>>
    /\ Publish(b, [kind |-> kind, tables |-> T])

\* A creation succeeds.
Created(b) ==
    LET v == history[b][Len(history[b])]
    IN  /\ history[b] /= <<>> /\ v.kind = "creating"
        /\ Publish(b, [v EXCEPT !.kind = "open"])

\* Another version of an open bill: printed, carried to other tables, or closed.
Amend(b, T, kind) ==
    LET v == history[b][Len(history[b])]
    IN  /\ history[b] /= <<>> /\ v.kind = "open"
        /\ kind = "closed" => T = v.tables
        /\ Publish(b, [kind |-> kind, tables |-> T])

-----------------------------------------------------------------------------
(* The reducer *)

\* Somebody wrote table t: its revision or updated_at changes, and nothing that
\* was captured before counts for it any more.
StaleFor(T, p) == [p EXCEPT !.fresh = @ \ T]
Touched(T) == [d \in Delivery |-> StaleFor(T, callback[d])]

\* Slip: the transfer of a bill is not recognised.
OutcomeHereOnly(t, x) ==
    IF t \in x.tables THEN x.state ELSE "unknown"

\* What an observed bill means for table t: a bill with other tables has left.
Outcome(t, x) ==
    IF x.state = "unknown" THEN "unknown"
    ELSE IF t \in x.tables THEN x.state ELSE "closed"

\* Pending bills, of which no table is known, concern every table.
Unplaced(x) == x.state = "unknown" /\ x.tables = {}

Concerns(t, x) ==
    t \in x.tables \/ ledger[t].versions[x.id].at > 0 \/ Unplaced(x)

\* A newer version is known at some table.
Outdated(x) == \E u \in Table : ledger[u].versions[x.id].at > x.at

\* The same version is known with another content.
Contradicts(x) ==
    \E u \in Table : /\ ledger[u].versions[x.id].at = x.at
                     /\ ledger[u].versions[x.id].print /= PrintOf(x)

\* What could not be resolved at this version stays so until a newer one.
StuckAt(t, x) ==
    /\ ledger[t].versions[x.id].state = "unknown"
    /\ ledger[t].versions[x.id].at = x.at

\* Slip: the state of the bill is stored, not what it means for the table.
VersionAsRead(t, x) == [at |-> x.at, state |-> x.state, print |-> PrintOf(x)]

VersionAt(t, x) ==
    [at |-> x.at, state |-> Outcome(t, x), print |-> PrintOf(x)]

Settled(versions) == \A b \in Bill : versions[b].state /= "unknown"

\* Slip: notes about bills that have ended are kept.
NewLedgerKeepingNotes(t, active, versions, canClose) ==
    [active   |-> active,
     freed    |-> ledger[t].freed,
     last     |-> IF active /= {} THEN "open"
                  ELSE IF ledger[t].active /= {} /\ canClose THEN "closed"
                  ELSE ledger[t].last,
     versions |-> versions]

\* The stored state after membership has been decided.
NewLedger(t, active, versions, canClose) ==
    [active   |-> active,
     freed    |-> ledger[t].freed \cap active,
     last     |-> IF active /= {} THEN "open"
                  ELSE IF ledger[t].active /= {} /\ canClose THEN "closed"
                  ELSE ledger[t].last,
     versions |-> versions]

\* Slip: the table shows the state of its bills.
StatusOfBills(t, new) == IF new = ledger[t] THEN status[t] ELSE new.last

\* syrveTableStatusEvent: a new bill occupies the table, the end of the last one
\* frees it; nothing else does anything to its status.
StatusEvent(t, new) ==
    IF ~(new.active \subseteq ledger[t].active) THEN "occupied"
    ELSE IF ledger[t].active /= {} /\ new.active = {} /\ new.last = "closed"
    THEN "free"
    ELSE status[t]

-----------------------------------------------------------------------------
(* Applying what a poll has read: reduceSyrveOrderState *)

\* getSyrveOrderIdsToObserve: the bills that are read one by one.
Asked(t) ==
    ledger[t].active
        \cup {b \in Bill : ledger[t].versions[b].state = "unknown"}

\* buildSyrveOrderObservation: nothing is believed of a bill whose register did
\* not answer.
Believed(x) ==
    IF \E p \in x.tables : RegisterOf[p] \notin poll.alive
    THEN [x EXCEPT !.state = "unknown"] ELSE x

\* What the poll knows for table t: its own share of the two readings.
Evidence(t) ==
    Latest({x \in poll.byTable : t \in x.tables \/ Unplaced(x)}
             \cup {x \in poll.byId : x.id \in Asked(t)})

\* unknownOrders: an active bill was not read, or something here is unknown.
Uncertain(t, seen) ==
    \/ \E b \in ledger[t].active : ~\E x \in seen : x.id = b /\ x.state /= "unknown"
    \/ \E x \in seen : x.state = "unknown" /\ (x.tables = {} \/ t \in x.tables)

\* First all versions are decided on, then who is active.
Polled(t) ==
    LET seen == {Believed(x) : x \in Evidence(t)}
        recent == {x \in seen : Concerns(t, x) /\ ~Outdated(x)}
        conflicting == {x \in recent : Contradicts(x)}
        accepted == {x \in recent \ conflicting : ~StuckAt(t, x)}
        versions ==
            [b \in Bill |->
                IF \E x \in conflicting : x.id = b
                THEN Unresolved((CHOOSE x \in conflicting : x.id = b).at)
                ELSE IF \E x \in accepted : x.id = b
                THEN VersionAt(t, CHOOSE x \in accepted : x.id = b)
                ELSE ledger[t].versions[b]]
        canClose == ~Uncertain(t, seen) /\ Settled(versions)
        With(outcome) == {x.id : x \in {y \in accepted : Outcome(t, y) = outcome}}
        active == (ledger[t].active \cup With("open"))
                     \ (IF canClose THEN With("closed") ELSE {})
    IN  NewLedger(t, active, versions, canClose)

-----------------------------------------------------------------------------
(* Applying a callback: reduceSyrveWebhookOrder *)

\* Slip: only bills that could not be resolved keep a table from being freed.
UnaccountedUnresolved(t, versions) ==
    \E y \in receipt.orders :
        /\ t \in y.tables \/ Unplaced(y)
        /\ y.id \notin ledger[t].active
        /\ y.state = "unknown" /\ ~Outdated(y)

\* The last complete poll read a bill at table t that its ledger does not
\* account for yet: the table must not be freed.
Unaccounted(t, versions) ==
    \E y \in receipt.orders :
        /\ t \in y.tables \/ Unplaced(y)
        /\ y.id \notin ledger[t].active
        /\ ~(versions[y.id].at > y.at /\ versions[y.id].state = "closed")
        /\ \/ y.state = "open"
           \/ /\ y.state = "unknown"
              /\ \/ ~Outdated(y)
                 \/ \E u \in Table :
                      /\ ledger[u].versions[y.id].state = "unknown"
                      /\ ~Outdated([y EXCEPT !.at = ledger[u].versions[y.id].at])

Notified(t, x) ==
    LET conflict ==
            \/ Contradicts(x)
            \/ \E y \in receipt.orders :
                 y.id = x.id /\ y.at = x.at /\ PrintOf(y) /= PrintOf(x)
        versions == [ledger[t].versions EXCEPT
                        ![x.id] = IF conflict THEN Unresolved(x.at)
                                              ELSE VersionAt(t, x)]
        canClose == Settled(versions) /\ ~Unaccounted(t, versions)
        active ==
            IF ~conflict /\ Outcome(t, x) = "open" THEN ledger[t].active \cup {x.id}
            ELSE IF ~conflict /\ Outcome(t, x) = "closed" /\ canClose
            THEN ledger[t].active \ {x.id}
            ELSE ledger[t].active
    IN  IF ~Concerns(t, x) \/ (~conflict /\ StuckAt(t, x))
        THEN ledger[t]
        ELSE NewLedger(t, active, versions, canClose)

-----------------------------------------------------------------------------
(* The worker *)

\* claim and captureBatch: one transaction per cycle.
Capture ==
    /\ poll.phase = "idle"
    /\ poll' = [NoPoll EXCEPT !.phase = "captured", !.fresh = Table,
                              !.asked = [t \in Table |-> Asked(t)]]
    /\ UNCHANGED <<history, ledger, status, receipt, callback>>

Visible(alive) == {t \in Table : RegisterOf[t] \in alive}

\* The registers in alive answer and their tables are loaded; of the bills that
\* are open or being created there, some are listed.  A register that does not
\* answer revokes the topology of the last poll.
ListBills(alive, listed) ==
    /\ poll.phase = "captured"
    /\ \A b \in listed : /\ history[b] /= <<>>
                         /\ Current(b).state /= "closed"
                         /\ history[b][Len(history[b])].tables \cap Visible(alive) /= {}
    /\ poll' = IF Visible(alive) = {} THEN NoPoll
               ELSE [poll EXCEPT !.phase = "listed", !.alive = alive,
                                 !.byTable = {Current(b) : b \in listed}]
    /\ receipt' = IF alive = Register THEN receipt ELSE NoReceipt
    /\ UNCHANGED <<history, ledger, status, callback>>

\* Bills that some table asks for and the list does not show are read by their
\* identity, if they are found; the reading is then complete.
LookUpBills(found) ==
    LET wanted == UNION {poll.asked[t] : t \in Visible(poll.alive)}
        shown == {x \in poll.byTable : x.id \in wanted /\ x.state /= "unknown"}
        byId == shown \cup {Current(b) : b \in found}
    IN  /\ poll.phase = "listed"
        /\ found \subseteq {b \in wanted : ~\E x \in shown : x.id = b}
        /\ poll' = [poll EXCEPT !.phase = "read", !.byId = byId,
                                !.asked = NoPoll.asked,
                                !.left = Visible(poll.alive)]
        /\ receipt' = [valid |-> TRUE, live |-> poll.alive,
                       orders |-> Latest(poll.byTable \cup byId)]
        /\ UNCHANGED <<history, ledger, status, callback>>

\* apply: one transaction per table, void if the table was written meanwhile.
Apply(t) ==
    LET new == IF t \in poll.fresh THEN Polled(t) ELSE ledger[t]
    IN  /\ poll.phase = "read" /\ t \in poll.left
        /\ ledger' = [ledger EXCEPT ![t] = new]
        /\ status' = [status EXCEPT ![t] = StatusEvent(t, new)]
        /\ poll' = IF poll.left = {t} THEN NoPoll
                   ELSE [poll EXCEPT !.left = @ \ {t}, !.fresh = @ \ {t}]
        /\ callback' = IF new = ledger[t] THEN callback ELSE Touched({t})
        /\ UNCHANGED <<history, receipt>>

\* A timeout, an error of Syrve, a lost lease, another configuration, a crash.
Abandon ==
    /\ poll.phase /= "idle"
    /\ poll' = NoPoll
    /\ UNCHANGED <<history, ledger, status, receipt, callback>>

-----------------------------------------------------------------------------
(* Callbacks *)

\* receive: any version may arrive, also late or again; all ledgers are captured.
Receive(d, b, k) ==
    /\ callback[d] = NoCallback
    /\ k \in 1..Len(history[b])
    /\ callback' = [callback EXCEPT
                      ![d] = [news |-> {Reading(b, k)}, fresh |-> Table,
                              was |-> {t \in Table : b \in ledger[t].active}]]
    /\ UNCHANGED <<history, ledger, status, poll, receipt>>

\* Tables whose occupancy the callback is about.
Affected(x, was) ==
    {t \in Table : t \in x.tables \/ t \in was \/ x.id \in ledger[t].active}

\* Nobody wrote these tables, and their registers are known to be alive.
Acceptable(d, x) ==
    /\ Affected(x, callback[d].was) \subseteq callback[d].fresh
    /\ receipt.valid
    /\ \A p \in x.tables \cup Affected(x, {}) : RegisterOf[p] \in receipt.live

\* Slip: a callback is compared with the last poll only.
SupersededByPoll(x) == \E y \in receipt.orders : y.id = x.id /\ y.at > x.at

Superseded(x) ==
    Outdated(x) \/ \E y \in receipt.orders : y.id = x.id /\ y.at > x.at

\* The transaction of a callback: all tables at once.
Commit(d) ==
    \E x \in callback[d].news :
        LET new == [t \in Table |-> IF Superseded(x) THEN ledger[t]
                                                     ELSE Notified(t, x)]
            written == {t \in Table : new[t] /= ledger[t]}
        IN  /\ Acceptable(d, x)
            /\ ledger' = new
            /\ status' = [t \in Table |-> StatusEvent(t, new[t])]
            /\ poll' = StaleFor(written, poll)
            /\ callback' = [Touched(written) EXCEPT ![d] = NoCallback]
            /\ UNCHANGED <<history, receipt>>

\* It is refused or fails, and nothing changes; Syrve may send it again.
Refuse(d) ==
    /\ callback[d] /= NoCallback
    /\ callback' = [callback EXCEPT ![d] = NoCallback]
    /\ UNCHANGED <<history, ledger, status, poll, receipt>>

\* The topology expires, or is lost with the process.
LoseReceipt ==
    /\ receipt.valid
    /\ receipt' = NoReceipt
    /\ UNCHANGED <<history, ledger, status, poll, callback>>

-----------------------------------------------------------------------------
(* Staff and bookings *)

\* reduceSyrveStaffAction: a status set by staff; when the table is freed by
\* hand, the bills seen so far are noted.
StaffMarks(t, s, frees) ==
    /\ s = "free" => frees
    /\ status' = [status EXCEPT ![t] = s]
    /\ ledger' = IF frees THEN [ledger EXCEPT ![t].freed = ledger[t].active]
                          ELSE ledger
    /\ poll' = StaleFor({t}, poll)
    /\ callback' = Touched({t})
    /\ UNCHANGED <<history, receipt>>

\* A booking, a transfer or a job writes the table without the ledger.
BookingPaints(t, s) ==
    /\ status' = [status EXCEPT ![t] = s]
    /\ poll' = StaleFor({t}, poll)
    /\ callback' = Touched({t})
    /\ UNCHANGED <<history, ledger, receipt>>

-----------------------------------------------------------------------------

Registers ==
    \E b \in Bill :
        \/ \E T \in Seatings : OpenBill(b, T, "creating") \/ OpenBill(b, T, "open")
        \/ Created(b)
        \/ \E T \in Seatings : Amend(b, T, "open") \/ Amend(b, T, "closed")

Worker ==
    \/ Capture
    \/ \E alive \in SUBSET Register, listed \in SUBSET Bill : ListBills(alive, listed)
    \/ \E found \in SUBSET Bill : LookUpBills(found)
    \/ \E t \in Table : Apply(t)
    \/ Abandon

Receiver ==
    \/ \E d \in Delivery, b \in Bill, k \in 1..MaxVersion : Receive(d, b, k)
    \/ \E d \in Delivery : Commit(d) \/ Refuse(d)
    \/ LoseReceipt

Restaurant ==
    \E t \in Table, s \in Marks :
        (\E frees \in BOOLEAN : StaffMarks(t, s, frees)) \/ BookingPaints(t, s)

Next == Registers \/ Worker \/ Receiver \/ Restaurant

Spec == Init /\ [][Next]_vars

-----------------------------------------------------------------------------
(* Properties *)

\* Every variable has its type.
TypeOK ==
    /\ history \in [Bill -> Seq(Version)]
    /\ ledger \in [Table -> Ledger]
    /\ status \in [Table -> Statuses]
    /\ poll \in Poll
    /\ receipt \in Receipt
    /\ callback \in [Delivery -> Callback]

\* copyState refuses a stored ledger that breaks one of these rules, and its
\* table could then never be updated again, by staff neither: every active bill
\* has a version, only active bills are noted as freed, and the summary agrees.
LedgerUsable ==
    \A t \in Table :
        /\ \A b \in ledger[t].active : ledger[t].versions[b].at > 0
        /\ ledger[t].freed \subseteq ledger[t].active
        /\ ledger[t].last = "open" <=> ledger[t].active /= {}
        /\ \A b \in Bill : ledger[t].versions[b].print = NoPrint
                             => ledger[t].versions[b].state \in {"unknown", "none"}

\* Whatever was read, missed, repeated or delivered late: a version that a ledger
\* calls open or closed at its table is what the register published, and a bill
\* is active where its latest resolved version is open.
LedgerIsTrue ==
    \A t \in Table, b \in Bill :
        LET v == ledger[t].versions[b]
        IN  /\ v.at <= Len(history[b])
            /\ v.state \in {"open", "closed"}
                 => v.at > 0 /\ v.state = Outcome(t, Reading(b, v.at))
            /\ v.state = "open" => b \in ledger[t].active

\* A ledger can be read back, and tells what the registers published.
LedgerHolds == LedgerUsable /\ LedgerIsTrue

\* A bill becomes active at a table only by the latest version that any table
\* knew: an old reading of the place a bill has left never occupies it again.
OpensFromLatest ==
    [][\A t, u \in Table, b \in Bill :
        b \in ledger'[t].active /\ b \notin ledger[t].active
            => ledger[u].versions[b].at <= ledger'[t].versions[b].at]_vars

Emptied(t) == ledger[t].active /= {} /\ ledger'[t].active = {}

\* The bills of a table end only with evidence for every one of them: each is
\* closed or carried elsewhere by its register, nothing about any bill is
\* unknown, and the last complete poll shows no other bill that a callback
\* would overlook.
FreedOnEvidence ==
    [][\A t \in Table : Emptied(t) =>
        /\ \A b \in ledger[t].active :
             Outcome(t, Reading(b, ledger'[t].versions[b].at)) = "closed"
        /\ Settled(ledger'[t].versions)
        /\ (\E d \in Delivery : Commit(d)) =>
             \A y \in receipt.orders :
                y.state = "open" /\ t \in y.tables /\ y.id \notin ledger[t].active
                    => /\ ledger'[t].versions[y.id].at > y.at
                       /\ ledger'[t].versions[y.id].state = "closed"]_vars

\* The bills that are open at table t on the registers.
OpenAt(t) ==
    {b \in Bill : /\ history[b] /= <<>> /\ Current(b).state = "open"
                  /\ t \in Current(b).tables}

\* The poll has read the current version of every bill that matters at t, from
\* registers that all answered.
UpToDate(t) ==
    /\ poll.phase = "read" /\ t \in poll.left \cap poll.fresh
    /\ poll.alive = Register
    /\ \A x \in Evidence(t) : x = Current(x.id) /\ ~Unplaced(x)
    /\ \A b \in OpenAt(t) \cup Asked(t) : Current(b) \in Evidence(t)

\* Some table failed to resolve the current version of a bill of t.
Stuck(t) ==
    \E b \in OpenAt(t) \cup Asked(t), u \in Table :
        /\ ledger[u].versions[b].state = "unknown"
        /\ ledger[u].versions[b].at = Len(history[b])

\* Such a poll leaves exactly the bills active that are open at the table,
\* unless one of them is stuck at its current version.
UpToDateSettles ==
    [][\A t \in Table :
        Apply(t) /\ UpToDate(t) /\ ~Stuck(t) => ledger'[t].active = OpenAt(t)]_vars
=============================================================================
