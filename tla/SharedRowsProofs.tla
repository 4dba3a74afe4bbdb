-------------------------- MODULE SharedRowsProofs --------------------------
(***************************************************************************)
(* What the restaurant's row and the locks of the bookings promise, for    *)
(* any number of requests, bookings, tables, connections and days.         *)
(***************************************************************************)
EXTENDS MCSharedRows, FiniteSetTheorems, SequenceTheorems, TLAPS

-----------------------------------------------------------------------------
(***************************************************************************)
(* The locks of the booking requests.  A request that is about to write    *)
(* has exclusive locks on what it checked, from the check to the commit:   *)
(* the order of its plan says which, and that slots come before rows.      *)
(***************************************************************************)

AllKinds ==
    {"create", "block", "waiterTransfer", "plannedTransfer", "approveChange",
     "rejectChange", "askChange", "transition", "approveTime", "close"}
Transfers == {"waiterTransfer", "plannedTransfer"}
SlotKinds == {"create", "block"} \cup Transfers        \* with locks of a session
RowKinds == {"create", "approveChange"} \cup Transfers \* that take table rows first
Checked == SlotKinds \cup RowKinds                     \* whose tables are checked

\* The phase x comes before the i-th of a plan.
Before(P, i, x) == \E h \in 1 .. (i - 1) : P[h] = x

\* What the order of the phases gives at each of them.
EndsWell(P, i) ==
    /\ P[i] = "log" => i = Len(P) /\ Before(P, i, "commit")
    /\ P[i] = "commit" => i = Len(P) \/ (i + 1 = Len(P) /\ P[i + 1] = "log")
    /\ i = Len(P) => P[i] \in {"commit", "log"}
    /\ Before(P, i, "commit") => P[i] = "log"

LocksFirst(k, P, i) ==
    /\ P[i] = "commit" =>
         /\ k \in Checked => Before(P, i, "check")
         /\ k \notin {"create", "block"} => Before(P, i, "row")
         /\ k \in (RowKinds \ {"create"}) \cup {"close"} => Before(P, i, "valid")
         /\ k = "create" => Before(P, i, "unblocked")
    /\ k \in Checked /\ (P[i] = "check" \/ Before(P, i, "check")) =>
         /\ k \in SlotKinds => Before(P, i, "slots")
         /\ k \in RowKinds => Before(P, i, "tables")
         /\ k \in RowKinds \ {"create"} => Before(P, i, "row")
    /\ k # "rejectChange" /\ (P[i] = "valid" \/ Before(P, i, "valid")) => Before(P, i, "row")
    /\ k = "create" /\ (P[i] = "unblocked" \/ Before(P, i, "unblocked")) => Before(P, i, "slots")
    /\ P[i] = "read" => ~Before(P, i, "slots")

SlotsFirst(k, P, i) ==
    /\ P[i] \in OfSession => k \in SlotKinds /\ ~Before(P, i, "begin")
    /\ P[i] \in {"txSlots", "newSlots"} \cup OnRows => Before(P, i, "begin")
    /\ P[i] \in {"txSlots", "newSlots"} => k \notin SlotKinds
    /\ P[i] \in OnRows \cup {"transfer", "read"} => k # "block"
    /\ P[i] = "tables" => k \in RowKinds \cup {"transition", "approveTime", "close"}
    /\ P[i] = "oldTables" => k \in RowKinds \ {"create"}
    /\ P[i] = "txSlots" => \A x \in OnRows : ~Before(P, i, x)
    /\ P[i] = "newSlots" => k = "approveTime" /\ Before(P, i, "row")
    /\ P[i] = "commit" \/ Before(P, i, "commit") => k = "block" \/ Before(P, i, "begin")

GoodPlan(k, P) ==
    \A i \in 1 .. Len(P) : EndsWell(P, i) /\ LocksFirst(k, P, i) /\ SlotsFirst(k, P, i)

\* The order of each plan, phase by phase.
LEMMA GoodCreate == GoodPlan("create", CreatePlan) /\ Len(CreatePlan) \in Nat \ {0}
<1>1. Len(CreatePlan) = 8
  BY DEF CreatePlan
<1> SUFFICES ASSUME NEW i \in 1 .. 8
             PROVE  /\ EndsWell(CreatePlan, i) /\ LocksFirst("create", CreatePlan, i)
                    /\ SlotsFirst("create", CreatePlan, i)
  BY <1>1 DEF GoodPlan
<1>2. i = 1 \/ i = 2 \/ i = 3 \/ i = 4 \/ i = 5 \/ i = 6 \/ i = 7 \/ i = 8
  OBVIOUS
<1>3. EndsWell(CreatePlan, i)
  BY <1>1, <1>2 DEF EndsWell, Before, CreatePlan
<1>4. LocksFirst("create", CreatePlan, i)
  BY <1>1, <1>2 DEF LocksFirst, Before, CreatePlan, SlotKinds, RowKinds, Checked, Transfers
<1>5. SlotsFirst("create", CreatePlan, i)
  BY <1>1, <1>2 DEF SlotsFirst, Before, CreatePlan, SlotKinds, RowKinds, OfSession, OnRows, Transfers
<1> QED BY <1>1, <1>3, <1>4, <1>5

LEMMA GoodBlock == GoodPlan("block", BlockPlan) /\ Len(BlockPlan) \in Nat \ {0}
<1>1. Len(BlockPlan) = 5
  BY DEF BlockPlan
<1> SUFFICES ASSUME NEW i \in 1 .. 5
             PROVE  /\ EndsWell(BlockPlan, i) /\ LocksFirst("block", BlockPlan, i)
                    /\ SlotsFirst("block", BlockPlan, i)
  BY <1>1 DEF GoodPlan
<1>2. i = 1 \/ i = 2 \/ i = 3 \/ i = 4 \/ i = 5
  OBVIOUS
<1>3. EndsWell(BlockPlan, i)
  BY <1>1, <1>2 DEF EndsWell, Before, BlockPlan
<1>4. LocksFirst("block", BlockPlan, i)
  BY <1>1, <1>2 DEF LocksFirst, Before, BlockPlan, SlotKinds, RowKinds, Checked, Transfers
<1>5. SlotsFirst("block", BlockPlan, i)
  BY <1>1, <1>2 DEF SlotsFirst, Before, BlockPlan, SlotKinds, RowKinds, OfSession, OnRows, Transfers
<1> QED BY <1>1, <1>3, <1>4, <1>5

LEMMA GoodTransferByWaiter == GoodPlan("waiterTransfer", WaiterPlan) /\ Len(WaiterPlan) \in Nat \ {0}
<1>1. Len(WaiterPlan) = 12
  BY DEF WaiterPlan
<1> SUFFICES ASSUME NEW i \in 1 .. 12
             PROVE  /\ EndsWell(WaiterPlan, i) /\ LocksFirst("waiterTransfer", WaiterPlan, i)
                    /\ SlotsFirst("waiterTransfer", WaiterPlan, i)
  BY <1>1 DEF GoodPlan
<1>2. i = 1 \/ i = 2 \/ i = 3 \/ i = 4 \/ i = 5 \/ i = 6
        \/ i = 7 \/ i = 8 \/ i = 9 \/ i = 10 \/ i = 11 \/ i = 12
  OBVIOUS
<1>3. EndsWell(WaiterPlan, i)
  BY <1>1, <1>2 DEF EndsWell, Before, WaiterPlan
<1>4. LocksFirst("waiterTransfer", WaiterPlan, i)
  BY <1>1, <1>2 DEF LocksFirst, Before, WaiterPlan, SlotKinds, RowKinds, Checked, Transfers
<1>5. SlotsFirst("waiterTransfer", WaiterPlan, i)
  BY <1>1, <1>2 DEF SlotsFirst, Before, WaiterPlan, SlotKinds, RowKinds, OfSession, OnRows, Transfers
<1> QED BY <1>1, <1>3, <1>4, <1>5

LEMMA GoodTransferPlanned == GoodPlan("plannedTransfer", TransferPlan) /\ Len(TransferPlan) \in Nat \ {0}
<1>1. Len(TransferPlan) = 12
  BY DEF TransferPlan
<1> SUFFICES ASSUME NEW i \in 1 .. 12
             PROVE  /\ EndsWell(TransferPlan, i) /\ LocksFirst("plannedTransfer", TransferPlan, i)
                    /\ SlotsFirst("plannedTransfer", TransferPlan, i)
  BY <1>1 DEF GoodPlan
<1>2. i = 1 \/ i = 2 \/ i = 3 \/ i = 4 \/ i = 5 \/ i = 6
        \/ i = 7 \/ i = 8 \/ i = 9 \/ i = 10 \/ i = 11 \/ i = 12
  OBVIOUS
<1>3. EndsWell(TransferPlan, i)
  BY <1>1, <1>2 DEF EndsWell, Before, TransferPlan
<1>4. LocksFirst("plannedTransfer", TransferPlan, i)
  BY <1>1, <1>2 DEF LocksFirst, Before, TransferPlan, SlotKinds, RowKinds, Checked, Transfers
<1>5. SlotsFirst("plannedTransfer", TransferPlan, i)
  BY <1>1, <1>2 DEF SlotsFirst, Before, TransferPlan, SlotKinds, RowKinds, OfSession, OnRows, Transfers
<1> QED BY <1>1, <1>3, <1>4, <1>5

LEMMA GoodChange == GoodPlan("approveChange", ChangePlan) /\ Len(ChangePlan) \in Nat \ {0}
<1>1. Len(ChangePlan) = 8
  BY DEF ChangePlan
<1> SUFFICES ASSUME NEW i \in 1 .. 8
             PROVE  /\ EndsWell(ChangePlan, i) /\ LocksFirst("approveChange", ChangePlan, i)
                    /\ SlotsFirst("approveChange", ChangePlan, i)
  BY <1>1 DEF GoodPlan
<1>2. i = 1 \/ i = 2 \/ i = 3 \/ i = 4 \/ i = 5 \/ i = 6 \/ i = 7 \/ i = 8
  OBVIOUS
<1>3. EndsWell(ChangePlan, i)
  BY <1>1, <1>2 DEF EndsWell, Before, ChangePlan
<1>4. LocksFirst("approveChange", ChangePlan, i)
  BY <1>1, <1>2 DEF LocksFirst, Before, ChangePlan, SlotKinds, RowKinds, Checked, Transfers
<1>5. SlotsFirst("approveChange", ChangePlan, i)
  BY <1>1, <1>2 DEF SlotsFirst, Before, ChangePlan, SlotKinds, RowKinds, OfSession, OnRows, Transfers
<1> QED BY <1>1, <1>3, <1>4, <1>5

LEMMA GoodReject == GoodPlan("rejectChange", RejectPlan) /\ Len(RejectPlan) \in Nat \ {0}
<1>1. Len(RejectPlan) = 7
  BY DEF RejectPlan
<1> SUFFICES ASSUME NEW i \in 1 .. 7
             PROVE  /\ EndsWell(RejectPlan, i) /\ LocksFirst("rejectChange", RejectPlan, i)
                    /\ SlotsFirst("rejectChange", RejectPlan, i)
  BY <1>1 DEF GoodPlan
<1>2. i = 1 \/ i = 2 \/ i = 3 \/ i = 4 \/ i = 5 \/ i = 6 \/ i = 7
  OBVIOUS
<1>3. EndsWell(RejectPlan, i)
  BY <1>1, <1>2 DEF EndsWell, Before, RejectPlan
<1>4. LocksFirst("rejectChange", RejectPlan, i)
  BY <1>1, <1>2 DEF LocksFirst, Before, RejectPlan, SlotKinds, RowKinds, Checked, Transfers
<1>5. SlotsFirst("rejectChange", RejectPlan, i)
  BY <1>1, <1>2 DEF SlotsFirst, Before, RejectPlan, SlotKinds, RowKinds, OfSession, OnRows, Transfers
<1> QED BY <1>1, <1>3, <1>4, <1>5

LEMMA GoodAsk == GoodPlan("askChange", AskPlan) /\ Len(AskPlan) \in Nat \ {0}
<1>1. Len(AskPlan) = 5
  BY DEF AskPlan
<1> SUFFICES ASSUME NEW i \in 1 .. 5
             PROVE  /\ EndsWell(AskPlan, i) /\ LocksFirst("askChange", AskPlan, i)
                    /\ SlotsFirst("askChange", AskPlan, i)
  BY <1>1 DEF GoodPlan
<1>2. i = 1 \/ i = 2 \/ i = 3 \/ i = 4 \/ i = 5
  OBVIOUS
<1>3. EndsWell(AskPlan, i)
  BY <1>1, <1>2 DEF EndsWell, Before, AskPlan
<1>4. LocksFirst("askChange", AskPlan, i)
  BY <1>1, <1>2 DEF LocksFirst, Before, AskPlan, SlotKinds, RowKinds, Checked, Transfers
<1>5. SlotsFirst("askChange", AskPlan, i)
  BY <1>1, <1>2 DEF SlotsFirst, Before, AskPlan, SlotKinds, RowKinds, OfSession, OnRows, Transfers
<1> QED BY <1>1, <1>3, <1>4, <1>5

LEMMA GoodTransition == GoodPlan("transition", TransitionPlan) /\ Len(TransitionPlan) \in Nat \ {0}
<1>1. Len(TransitionPlan) = 8
  BY DEF TransitionPlan
<1> SUFFICES ASSUME NEW i \in 1 .. 8
             PROVE  /\ EndsWell(TransitionPlan, i) /\ LocksFirst("transition", TransitionPlan, i)
                    /\ SlotsFirst("transition", TransitionPlan, i)
  BY <1>1 DEF GoodPlan
<1>2. i = 1 \/ i = 2 \/ i = 3 \/ i = 4 \/ i = 5 \/ i = 6 \/ i = 7 \/ i = 8
  OBVIOUS
<1>3. EndsWell(TransitionPlan, i)
  BY <1>1, <1>2 DEF EndsWell, Before, TransitionPlan
<1>4. LocksFirst("transition", TransitionPlan, i)
  BY <1>1, <1>2 DEF LocksFirst, Before, TransitionPlan, SlotKinds, RowKinds, Checked, Transfers
<1>5. SlotsFirst("transition", TransitionPlan, i)
  BY <1>1, <1>2 DEF SlotsFirst, Before, TransitionPlan, SlotKinds, RowKinds, OfSession, OnRows, Transfers
<1> QED BY <1>1, <1>3, <1>4, <1>5

LEMMA GoodReschedule == GoodPlan("approveTime", ReschedulePlan) /\ Len(ReschedulePlan) \in Nat \ {0}
<1>1. Len(ReschedulePlan) = 9
  BY DEF ReschedulePlan
<1> SUFFICES ASSUME NEW i \in 1 .. 9
             PROVE  /\ EndsWell(ReschedulePlan, i) /\ LocksFirst("approveTime", ReschedulePlan, i)
                    /\ SlotsFirst("approveTime", ReschedulePlan, i)
  BY <1>1 DEF GoodPlan
<1>2. i = 1 \/ i = 2 \/ i = 3 \/ i = 4 \/ i = 5 \/ i = 6 \/ i = 7 \/ i = 8 \/ i = 9
  OBVIOUS
<1>3. EndsWell(ReschedulePlan, i)
  BY <1>1, <1>2 DEF EndsWell, Before, ReschedulePlan
<1>4. LocksFirst("approveTime", ReschedulePlan, i)
  BY <1>1, <1>2 DEF LocksFirst, Before, ReschedulePlan, SlotKinds, RowKinds, Checked, Transfers
<1>5. SlotsFirst("approveTime", ReschedulePlan, i)
  BY <1>1, <1>2 DEF SlotsFirst, Before, ReschedulePlan, SlotKinds, RowKinds, OfSession, OnRows, Transfers
<1> QED BY <1>1, <1>3, <1>4, <1>5

LEMMA GoodClose == GoodPlan("close", ClosePlan) /\ Len(ClosePlan) \in Nat \ {0}
<1>1. Len(ClosePlan) = 5
  BY DEF ClosePlan
<1> SUFFICES ASSUME NEW i \in 1 .. 5
             PROVE  /\ EndsWell(ClosePlan, i) /\ LocksFirst("close", ClosePlan, i)
                    /\ SlotsFirst("close", ClosePlan, i)
  BY <1>1 DEF GoodPlan
<1>2. i = 1 \/ i = 2 \/ i = 3 \/ i = 4 \/ i = 5
  OBVIOUS
<1>3. EndsWell(ClosePlan, i)
  BY <1>1, <1>2 DEF EndsWell, Before, ClosePlan
<1>4. LocksFirst("close", ClosePlan, i)
  BY <1>1, <1>2 DEF LocksFirst, Before, ClosePlan, SlotKinds, RowKinds, Checked, Transfers
<1>5. SlotsFirst("close", ClosePlan, i)
  BY <1>1, <1>2 DEF SlotsFirst, Before, ClosePlan, SlotKinds, RowKinds, OfSession, OnRows, Transfers
<1> QED BY <1>1, <1>3, <1>4, <1>5

\* Every plan locks in the order that the comments of the handlers name.
LEMMA GoodPlans ==
  ASSUME NEW k \in AllKinds
  PROVE  GoodPlan(k, PlanOf(k)) /\ Len(PlanOf(k)) \in Nat \ {0}
<1>1. CASE k \in {"create", "block"}
  BY <1>1, GoodCreate, GoodBlock DEF PlanOf
<1>2. CASE k \in Transfers
  BY <1>2, GoodTransferByWaiter, GoodTransferPlanned DEF PlanOf, Transfers
<1>3. CASE k \in {"approveChange", "rejectChange", "askChange"}
  BY <1>3, GoodChange, GoodReject, GoodAsk DEF PlanOf
<1>4. CASE k \in {"transition", "approveTime", "close"}
  BY <1>4, GoodTransition, GoodReschedule, GoodClose DEF PlanOf
<1> QED BY <1>1, <1>2, <1>3, <1>4 DEF AllKinds, Transfers
-----------------------------------------------------------------------------
(* The invariant *)

Passed(p, x) == Busy(p) /\ Before(PlanOf(job[p].kind), pc[p], x)
Placing(p) == Busy(p) /\ ~Passed(p, "commit")
About(p) == job[p].booking

\* Locks are held from the phase that takes them to the commit.
HasSlots(p) ==
    Passed(p, "slots") => \A t \in job[p].to : holder[Slot(t)] = <<p, "runner">>
HasTables(p) ==
    job[p].kind \in RowKinds /\ Passed(p, "tables") =>
        \A t \in job[p].to : holder[TableRow(t)] = <<p, "tx">>
HasRow(p) == Passed(p, "row") => holder[RowOf(About(p))] = <<p, "tx">>

\* Who creates a booking is alone with it.
CreatesAlone(p) ==
    job[p].kind = "create" =>
        /\ row[About(p)] = NoBooking
        /\ \A q \in Handler \ {p} : Busy(q) => About(q) # About(p)

\* What was found valid, unblocked or clear stays so.
StaysValid(p) ==
    Passed(p, "valid") /\ job[p].kind \in (RowKinds \ {"create"}) \cup {"close"} =>
        Active(About(p))
StaysUnblocked(p) ==
    job[p].kind = "create" /\ Passed(p, "unblocked") => job[p].to \cap blocked = {}
Exempt(k) == {"rejectChange"} \cup (IF k = "block" THEN {"approveChange"} ELSE {})
Clear(p) ==
    \A b \in Booking : Active(b) /\ row[b].tables \cap job[p].to # {} =>
        b # About(p) /\ origin[b] \in Exempt(job[p].kind)
StaysClear(p) == Passed(p, "check") /\ job[p].kind \in Checked => Clear(p)

Guard(p) ==
    Placing(p) =>
        /\ HasSlots(p) /\ HasTables(p) /\ HasRow(p) /\ CreatesAlone(p)
        /\ StaysValid(p) /\ StaysUnblocked(p) /\ StaysClear(p)

Guarded == \A p \in Handler : Guard(p)

\* What a lock says of the request that holds it.
InOrder(l, p) ==
    /\ holder[l] = <<p, "runner">> =>
         /\ Busy(p) /\ job[p].kind \in SlotKinds
         /\ l[1] \in {"slot", "transfer"}
    /\ holder[l] = <<p, "tx">> =>
         /\ Placing(p) /\ Passed(p, "begin")
         /\ l[1] = "slot" => job[p].kind \notin SlotKinds
         /\ l[1] # "transfer"
         /\ l[1] # "slot" => \E x \in OnRows : Passed(p, x) \/ Phase(p) = x
HoldsInOrder == \A l \in Lock, p \in Handler : InOrder(l, p)

\* The course of a request stays within its plan.
Within(p) ==
    IF Busy(p) THEN pc[p] \in 1..Len(PlanOf(job[p].kind)) ELSE pc[p] = 1 /\ conns[p] = {}

Typed ==
    /\ arrived \in 0..MaxRequests
    /\ row \in [Booking -> [status : {"none", "active", "closed"}, tables : SUBSET Table]]
    /\ pending \subseteq Booking
    /\ blocked \subseteq Table
    /\ job \in [Handler -> Jobs \cup {NoJob}] /\ pc \in [Handler -> Nat]
    /\ \A p \in Handler : Within(p)
    /\ seen \in [Handler -> [status : {"none", "active", "closed"}, tables : SUBSET Table]]
    /\ dirty \in [Handler -> BOOLEAN]
    /\ conns \in [Handler -> SUBSET Session]
    /\ holder \in [Lock -> Owner \cup {NoOwner}]
    /\ origin \in [Booking -> {"sure", "approveChange", "rejectChange"}]

-----------------------------------------------------------------------------
(* Requests, their phases and their locks *)

\* What a request may ask for.
LEMMA KindOfJob ==
  ASSUME NEW j \in Jobs
  PROVE  /\ j.kind \in AllKinds /\ j.to \subseteq Table /\ j # NoJob
         /\ j.kind = "block" => j.booking = NoJob
         /\ j.kind # "block" => j.booking \in Booking
<1>1. PICK k \in Kind :
        j \in [kind : {k}, to : Asked(k), booking : IF k = "block" THEN {NoJob} ELSE Booking]
  BY DEF Jobs
<1>2. j.kind = k /\ j.to \in Asked(k) /\ k \in AllKinds
  BY <1>1, LocksAssumption DEF AllKinds
<1>3. Asked(k) \subseteq SUBSET Table
  BY DEF Asked
<1>4. j # NoJob
  BY NoJobAssumption
<1> QED BY <1>1, <1>2, <1>3, <1>4

\* The phase of a request in its plan, and what the plan says of it.
LEMMA Course ==
  ASSUME Typed, NEW p \in Handler, Busy(p)
  PROVE  /\ job[p] \in Jobs /\ job[p].kind \in AllKinds /\ job[p].to \subseteq Table
         /\ job[p].kind # "block" => About(p) \in Booking
         /\ job[p].kind = "block" => About(p) = NoJob
         /\ Phase(p) = PlanOf(job[p].kind)[pc[p]]
         /\ pc[p] \in 1 .. Len(PlanOf(job[p].kind)) /\ Len(PlanOf(job[p].kind)) \in Nat
         /\ \A x : Passed(p, x) <=> Before(PlanOf(job[p].kind), pc[p], x)
         /\ EndsWell(PlanOf(job[p].kind), pc[p])
         /\ LocksFirst(job[p].kind, PlanOf(job[p].kind), pc[p])
         /\ SlotsFirst(job[p].kind, PlanOf(job[p].kind), pc[p])
<1>1. job[p] \in Jobs /\ pc[p] \in 1 .. Len(PlanOf(job[p].kind))
  BY DEF Typed, Within, Busy
<1>2. job[p].kind \in AllKinds
  BY <1>1, KindOfJob
<1>3. GoodPlan(job[p].kind, PlanOf(job[p].kind)) /\ Len(PlanOf(job[p].kind)) \in Nat
  BY <1>2, GoodPlans
<1> QED BY <1>1, <1>2, <1>3, KindOfJob DEF GoodPlan, Phase, Passed, About

\* The locks that requests name exist.
LEMMA Locks ==
  /\ \A t \in Table : Slot(t) \in Lock /\ TableRow(t) \in Lock
  /\ \A b \in Booking : TransferLock(b) \in Lock /\ RowOf(b) \in Lock /\ RequestOf(b) \in Lock
BY DEF Lock

\* The locks of a phase are of the kind that the phase takes.
LEMMA Needed ==
  ASSUME Typed, NEW p \in Handler, Busy(p), AtLock(p)
  PROVE  /\ Needs(p, Phase(p)) \subseteq Lock
         /\ \A l \in Needs(p, Phase(p)) :
              /\ Phase(p) \in OnSlots => l[1] = "slot"
              /\ Phase(p) = "transfer" => l[1] = "transfer"
              /\ Phase(p) \in OnRows => l[1] \notin {"slot", "transfer"}
         /\ Phase(p) = "slots" => \A t \in job[p].to : Slot(t) \in Needs(p, Phase(p))
         /\ Phase(p) = "tables" /\ job[p].kind \in RowKinds =>
              \A t \in job[p].to : TableRow(t) \in Needs(p, Phase(p))
         /\ Phase(p) = "row" => RowOf(About(p)) \in Needs(p, Phase(p))
<1> DEFINE T == Tables(job[p], seen[p], row[job[p].booking], Phase(p))
<1>1. /\ job[p].to \subseteq Table
      /\ job[p].kind # "block" => About(p) \in Booking
      /\ Phase(p) \in OnRows \cup {"transfer", "read"} => job[p].kind # "block"
      /\ Phase(p) = "slots" => job[p].kind \in SlotKinds
      /\ job[p].kind \in AllKinds
  BY Course DEF SlotsFirst, OfSession
<1>2. seen[p].tables \subseteq Table /\ \A b \in Booking : row[b].tables \subseteq Table
  BY DEF Typed
<1>3. T \subseteq Table
  BY <1>1, <1>2 DEF Tables, Primary, About
<1>4. /\ Phase(p) = "slots" => job[p].to \subseteq T
      /\ Phase(p) = "tables" /\ job[p].kind \in RowKinds => job[p].to \subseteq T
  BY <1>1 DEF Tables, SlotKinds, RowKinds, Transfers
<1>5. CASE Phase(p) \in OnSlots
  <2>1. Needs(p, Phase(p)) = {Slot(t) : t \in T}
    BY <1>5 DEF Needs, OnSlots
  <2> QED BY <1>3, <1>4, <1>5, <2>1, Locks DEF Slot, OnSlots, OnRows
<1>6. CASE Phase(p) \in {"tables", "oldTables"}
  <2>1. Needs(p, Phase(p)) = {TableRow(t) : t \in T}
    BY <1>6 DEF Needs, OnSlots
  <2> QED BY <1>3, <1>4, <1>6, <2>1, Locks DEF TableRow, OnSlots
<1>7. CASE Phase(p) = "transfer"
  <2>1. Needs(p, Phase(p)) = {TransferLock(About(p))}
    BY <1>7 DEF Needs, OnSlots, About
  <2> QED BY <1>1, <1>7, <2>1, Locks DEF TransferLock, OnSlots, OnRows
<1>8. CASE Phase(p) = "row"
  <2>1. Needs(p, Phase(p)) = {RowOf(About(p))}
    BY <1>8 DEF Needs, OnSlots, About
  <2> QED BY <1>1, <1>8, <2>1, Locks DEF RowOf, OnSlots, OnRows
<1>9. CASE Phase(p) = "request"
  <2>1. Needs(p, Phase(p)) \subseteq {RequestOf(About(p))}
    BY <1>9 DEF Needs, OnSlots, About
  <2> QED BY <1>1, <1>9, <2>1, Locks DEF RequestOf, OnSlots, OnRows
<1> QED BY <1>5, <1>6, <1>7, <1>8, <1>9 DEF AtLock, OnRows

\* Planning an unavailability locks no row.
LEMMA BlockHasNoRow ==
  ASSUME Typed, NEW p \in Handler, Busy(p), Passed(p, "row")
  PROVE  job[p].kind # "block"
<1> SUFFICES ASSUME job[p].kind = "block" PROVE FALSE
  OBVIOUS
<1>1. PlanOf(job[p].kind) = BlockPlan /\ Len(BlockPlan) = 5
  BY DEF PlanOf, BlockPlan
<1>2. pc[p] \in 1 .. 5
  BY <1>1, Course
<1>3. PICK h \in 1 .. (pc[p] - 1) : BlockPlan[h] = "row"
  BY <1>1 DEF Passed, Before
<1>4. h = 1 \/ h = 2 \/ h = 3 \/ h = 4
  BY <1>2, <1>3
<1> QED BY <1>3, <1>4 DEF BlockPlan
-----------------------------------------------------------------------------
(* What a step leaves to the other requests, and gives to its own *)

KeepsLocks(q) ==
    \A l \in Lock, s \in Session : holder[l] = <<q, s>> => holder'[l] = <<q, s>>

\* A request that moves on has passed the phase it was at.
LEMMA PassedOn ==
  ASSUME Typed, NEW p \in Handler, Busy(p), job'[p] = job[p], pc'[p] = pc[p] + 1
  PROVE  \A x : Passed(p, x)' <=> Passed(p, x) \/ Phase(p) = x
<1> DEFINE P == PlanOf(job[p].kind)
<1>1. Phase(p) = P[pc[p]] /\ pc[p] \in 1 .. Len(P) /\ Len(P) \in Nat
  BY Course
<1> SUFFICES ASSUME NEW x PROVE Passed(p, x)' <=> Passed(p, x) \/ Phase(p) = x
  OBVIOUS
<1>2. Passed(p, x)' <=> \E h \in 1 .. pc[p] : P[h] = x
  BY <1>1 DEF Passed, Busy, Before
<1>3. Passed(p, x) <=> \E h \in 1 .. (pc[p] - 1) : P[h] = x
  BY DEF Passed, Busy, Before
<1> HIDE DEF P
<1> QED BY <1>1, <1>2, <1>3

\* A request is as safe as before a step that takes none of its locks and
\* writes nothing, if nobody else is then about the booking it creates.
LEMMA Bystander ==
  ASSUME Typed, NEW q \in Handler, Guard(q),
         job'[q] = job[q], pc'[q] = pc[q], row' = row, blocked' = blocked, origin' = origin,
         KeepsLocks(q),
         \A r \in Handler \ {q} :
            Placing(q) /\ job[q].kind = "create" /\ job'[r] # NoJob =>
              job'[r].booking # job[q].booking
  PROVE  Guard(q)'
<1> SUFFICES ASSUME Placing(q)'
             PROVE  (/\ HasSlots(q) /\ HasTables(q) /\ HasRow(q) /\ CreatesAlone(q)
                     /\ StaysValid(q) /\ StaysUnblocked(q) /\ StaysClear(q))'
  BY DEF Guard
<1>1. \A x : Passed(q, x)' <=> Passed(q, x)
  BY DEF Passed, Busy
<1>2. Placing(q) /\ Busy(q)
  BY <1>1 DEF Placing, Busy
<1>3. /\ HasSlots(q) /\ HasTables(q) /\ HasRow(q) /\ CreatesAlone(q)
      /\ StaysValid(q) /\ StaysUnblocked(q) /\ StaysClear(q)
  BY <1>2 DEF Guard
<1>4. job[q].to \subseteq Table /\ (job[q].kind # "block" => job[q].booking \in Booking)
  BY <1>2, Course DEF About
<1>5. HasSlots(q)'
  BY <1>1, <1>3, <1>4, Locks DEF HasSlots, KeepsLocks, Session
<1>6. HasTables(q)'
  BY <1>1, <1>3, <1>4, Locks DEF HasTables, KeepsLocks, Session
<1>7. HasRow(q)'
  <2> SUFFICES ASSUME Passed(q, "row") PROVE holder'[RowOf(job[q].booking)] = <<q, "tx">>
    BY <1>1 DEF HasRow, About
  <2>1. holder[RowOf(job[q].booking)] = <<q, "tx">>
    BY <1>3 DEF HasRow, About
  <2>2. job[q].kind # "block"
    BY <1>2, BlockHasNoRow
  <2> QED BY <1>4, <2>1, <2>2, Locks DEF KeepsLocks, Session
<1>8. CreatesAlone(q)'
  BY <1>2, <1>3 DEF CreatesAlone, About, Busy
<1>9. StaysValid(q)'
  BY <1>1, <1>3 DEF StaysValid, About, Active
<1>10. StaysUnblocked(q)'
  BY <1>1, <1>3 DEF StaysUnblocked
<1>11. StaysClear(q)'
  BY <1>1, <1>3 DEF StaysClear, Clear, About, Active
<1> QED BY <1>5, <1>6, <1>7, <1>8, <1>9, <1>10, <1>11

\* A request that passes a phase of its plan has what the phase gives.
LEMMA OwnStep ==
  ASSUME Typed, NEW p \in Handler, Guard(p), Busy(p), Phase(p) \notin {"commit", "log"},
         pc' = [pc EXCEPT ![p] = @ + 1],
         job' = job, row' = row, blocked' = blocked, origin' = origin, KeepsLocks(p),
         Phase(p) = "slots" => \A t \in job[p].to : holder'[Slot(t)] = <<p, "runner">>,
         Phase(p) = "tables" /\ job[p].kind \in RowKinds =>
           \A t \in job[p].to : holder'[TableRow(t)] = <<p, "tx">>,
         Phase(p) = "row" => holder'[RowOf(About(p))] = <<p, "tx">>,
         Phase(p) = "valid" => IsValid(p),
         Phase(p) = "check" => PassesCheck(p),
         Phase(p) = "unblocked" => job[p].to \cap blocked = {}
  PROVE  Guard(p)'
<1> SUFFICES ASSUME Placing(p)'
             PROVE  (/\ HasSlots(p) /\ HasTables(p) /\ HasRow(p) /\ CreatesAlone(p)
                     /\ StaysValid(p) /\ StaysUnblocked(p) /\ StaysClear(p))'
  BY DEF Guard
<1> DEFINE P == PlanOf(job[p].kind)
<1>0. /\ job[p].to \subseteq Table /\ (job[p].kind # "block" => job[p].booking \in Booking)
      /\ Phase(p) = P[pc[p]] /\ pc[p] \in 1 .. Len(P) /\ Len(P) \in Nat
      /\ EndsWell(P, pc[p])
  BY Course DEF About
<1>1. pc'[p] = pc[p] + 1 /\ pc[p] \in Nat
  BY <1>0 DEF Typed
<1>2. \A x : Passed(p, x)' <=> Passed(p, x) \/ Phase(p) = x
  BY <1>1, PassedOn
<1>3. /\ HasSlots(p) /\ HasTables(p) /\ HasRow(p) /\ CreatesAlone(p)
      /\ StaysValid(p) /\ StaysUnblocked(p) /\ StaysClear(p)
  BY <1>2 DEF Guard, Placing
<1>4. HasSlots(p)'
  BY <1>0, <1>2, <1>3, Locks DEF HasSlots, KeepsLocks, Session
<1>5. HasTables(p)'
  BY <1>0, <1>2, <1>3, Locks DEF HasTables, KeepsLocks, Session
<1>6. HasRow(p)'
  <2> SUFFICES ASSUME Passed(p, "row") PROVE holder'[RowOf(job[p].booking)] = <<p, "tx">>
    BY <1>2 DEF HasRow, About
  <2>1. holder[RowOf(job[p].booking)] = <<p, "tx">>
    BY <1>3 DEF HasRow, About
  <2>2. job[p].kind # "block"
    BY BlockHasNoRow
  <2> QED BY <1>0, <2>1, <2>2, Locks DEF KeepsLocks, Session
<1>7. CreatesAlone(p)'
  BY <1>3 DEF CreatesAlone, About, Busy
<1>8. StaysValid(p)'
  <2>1. Phase(p) = "valid" /\ job[p].kind # "rejectChange" => Active(About(p))
    BY DEF IsValid, About
  <2> QED BY <1>2, <1>3, <2>1 DEF StaysValid, About, Active, RowKinds, Transfers
<1>9. StaysUnblocked(p)'
  BY <1>2, <1>3 DEF StaysUnblocked
<1>10. StaysClear(p)'
  <2>1. Phase(p) = "check" /\ job[p].kind \in Checked => Clear(p)
    BY DEF PassesCheck, Clear, Taken, Checked, SlotKinds, RowKinds, Transfers
  <2> QED BY <1>2, <1>3, <2>1 DEF StaysClear, Clear, About, Active
<1> QED BY <1>4, <1>5, <1>6, <1>7, <1>8, <1>9, <1>10

-----------------------------------------------------------------------------
(* Types *)

\* A request whose plan goes on stays within it.
LEMMA Onward ==
  ASSUME Typed, NEW p \in Handler, Busy(p), Phase(p) \notin {"commit", "log"},
         pc' = [pc EXCEPT ![p] = @ + 1], job' = job, conns' \in [Handler -> SUBSET Session],
         \A q \in Handler \ {p} : conns'[q] = conns[q]
  PROVE  pc' \in [Handler -> Nat] /\ \A q \in Handler : Within(q)'
<1>1. /\ pc[p] \in 1 .. Len(PlanOf(job[p].kind)) /\ Len(PlanOf(job[p].kind)) \in Nat
      /\ pc[p] # Len(PlanOf(job[p].kind))
  BY Course DEF EndsWell
<1>2. pc'[p] = pc[p] + 1 /\ pc[p] + 1 \in Nat /\ pc[p] + 1 \in 1 .. Len(PlanOf(job[p].kind))
  BY <1>1 DEF Typed
<1>3. pc' \in [Handler -> Nat]
  BY <1>2 DEF Typed
<1>4. Within(p)'
  BY <1>2 DEF Within, Busy
<1>5. ASSUME NEW q \in Handler, q # p
      PROVE  Within(q)'
  BY <1>5 DEF Within, Busy, Typed
<1> QED BY <1>3, <1>4, <1>5

\* A handler whose request has ended is as it was at first.
LEMMA Ended ==
  ASSUME Typed, NEW p \in Handler, Release(p)
  PROVE  /\ job' \in [Handler -> Jobs \cup {NoJob}] /\ pc' \in [Handler -> Nat]
         /\ \A q \in Handler : Within(q)'
         /\ seen' \in [Handler -> [status : {"none", "active", "closed"}, tables : SUBSET Table]]
         /\ dirty' \in [Handler -> BOOLEAN]
         /\ conns' \in [Handler -> SUBSET Session]
         /\ holder' \in [Lock -> Owner \cup {NoOwner}]
<1> USE DEF Typed, Release
<1>1. job' \in [Handler -> Jobs \cup {NoJob}] /\ pc' \in [Handler -> Nat]
  OBVIOUS
<1>2. seen' \in [Handler -> [status : {"none", "active", "closed"}, tables : SUBSET Table]]
  BY DEF NoBooking
<1>3. dirty' \in [Handler -> BOOLEAN] /\ conns' \in [Handler -> SUBSET Session]
  OBVIOUS
<1>4. holder' \in [Lock -> Owner \cup {NoOwner}]
  OBVIOUS
<1>5. \A q \in Handler : Within(q)'
  BY DEF Within, Busy
<1> QED BY <1>1, <1>2, <1>3, <1>4, <1>5

\* The new row of a booking that a request places.
LEMMA PlacedTyped ==
  ASSUME Typed, NEW p \in Handler, Busy(p), Effect(p), Phase(p) = "commit"
  PROVE  /\ row' \in [Booking -> [status : {"none", "active", "closed"}, tables : SUBSET Table]]
         /\ pending' \subseteq Booking
         /\ blocked' \subseteq Table
         /\ origin' \in [Booking -> {"sure", "approveChange", "rejectChange"}]
<1> DEFINE k == job[p].kind
           b == job[p].booking
<1>1. k \in AllKinds /\ job[p].to \subseteq Table /\ (k # "block" => b \in Booking)
  BY Course DEF About
<1>2. seen[p] \in [status : {"none", "active", "closed"}, tables : SUBSET Table]
  BY DEF Typed
<1>3. ASSUME NEW r \in [status : {"none", "active", "closed"}, tables : SUBSET Table],
             Placed(p, r), b \in Booking
      PROVE  /\ row' \in [Booking -> [status : {"none", "active", "closed"}, tables : SUBSET Table]]
             /\ origin' \in [Booking -> {"sure", "approveChange", "rejectChange"}]
  BY <1>3 DEF Placed, Typed
<1>4. [status |-> "active", tables |-> job[p].to]
         \in [status : {"none", "active", "closed"}, tables : SUBSET Table]
  BY <1>1
<1>5. CASE k \in {"create", "waiterTransfer", "plannedTransfer"}
  <2>1. Placed(p, [status |-> "active", tables |-> job[p].to]) /\ UNCHANGED <<pending, blocked>>
    BY <1>5 DEF Effect
  <2> QED BY <1>1, <1>3, <1>4, <1>5, <2>1 DEF Typed
<1>6. CASE k = "approveChange"
  <2>1. /\ Placed(p, [status |-> "active", tables |-> job[p].to])
        /\ pending' = pending \ {b} /\ UNCHANGED blocked
    BY <1>6 DEF Effect
  <2> QED BY <1>1, <1>3, <1>4, <1>6, <2>1 DEF Typed
<1>7. CASE k = "rejectChange"
  <2>1. /\ IF dirty[p] THEN Placed(p, seen[p]) ELSE UNCHANGED <<row, origin>>
        /\ pending' = pending \ {b} /\ UNCHANGED blocked
    BY <1>7 DEF Effect
  <2>2. CASE dirty[p]
    BY <1>1, <1>2, <1>3, <1>7, <2>1, <2>2 DEF Typed
  <2>3. CASE ~dirty[p]
    BY <2>1, <2>3 DEF Typed
  <2> QED BY <2>2, <2>3
<1>8. CASE k = "close"
  <2>1. row' = [row EXCEPT ![b].status = "closed"] /\ UNCHANGED <<pending, blocked, origin>>
    BY <1>8 DEF Effect
  <2> QED BY <1>1, <1>8, <2>1 DEF Typed
<1>9. CASE k \in {"block", "askChange", "transition", "approveTime"}
  BY <1>1, <1>9 DEF Effect, Typed
<1> QED BY <1>1, <1>5, <1>6, <1>7, <1>8, <1>9 DEF AllKinds

\* Where a handler stands when it takes each of the steps.
LEMMA WhereSteps ==
  ASSUME NEW p \in Handler
  PROVE  /\ Connect(p) \/ AtLock(p) \/ Read(p) \/ AtTest(p) \/ Compare(p) \/ LogWithin(p) =>
              Busy(p) /\ Phase(p) \notin {"commit", "log"}
         /\ Commit(p) \/ Log(p) => Busy(p)
BY DEF Connect, AtLock, Read, AtTest, Compare, LogWithin, Commit, Log, Phase, OnSlots, OnRows

\* Types, at first and after every step.
LEMMA TypedStart == Init => Typed
BY LocksAssumption DEF Init, Typed, Within, NoBooking, Busy, Owner

LEMMA TypedSteps == Typed /\ [Next]_vars => Typed'
<1> SUFFICES ASSUME Typed, [Next]_vars PROVE Typed'
  OBVIOUS
<1>0. CASE UNCHANGED vars
  BY <1>0 DEF Typed, Within, vars, Busy
<1>1. ASSUME NEW p \in Handler, Arrive(p)
      PROVE  Typed'
  <2>1. PICK j \in Jobs : job' = [job EXCEPT ![p] = j]
    BY <1>1 DEF Arrive
  <2>2. arrived' \in 0 .. MaxRequests /\ job' \in [Handler -> Jobs \cup {NoJob}]
    BY <1>1, <2>1, LocksAssumption DEF Arrive, Typed
  <2>3. j.kind \in AllKinds /\ j # NoJob
    BY KindOfJob
  <2>4. 1 \in 1 .. Len(PlanOf(j.kind))
    BY <2>3, GoodPlans
  <2>5. ~Busy(p)
    BY <1>1 DEF Arrive
  <2>6. Within(p)'
    BY <1>1, <2>1, <2>3, <2>4, <2>5 DEF Arrive, Within, Busy, Typed
  <2>7. ASSUME NEW q \in Handler, q # p PROVE Within(q)'
    BY <1>1, <2>1, <2>7 DEF Arrive, Within, Busy, Typed
  <2> QED BY <1>1, <2>2, <2>6, <2>7 DEF Arrive, Typed, Within
<1>2. ASSUME NEW p \in Handler, Connect(p), UNCHANGED arrived
      PROVE  Typed'
  <2>1. /\ conns' \in [Handler -> SUBSET Session]
        /\ \A q \in Handler \ {p} : conns'[q] = conns[q]
    BY <1>2 DEF Connect, Typed, Session
  <2>2. pc' \in [Handler -> Nat] /\ \A q \in Handler : Within(q)'
    BY <1>2, <2>1, WhereSteps, Onward DEF Connect, Advance
  <2> QED BY <1>2, <2>1, <2>2 DEF Connect, Advance, Typed, Within
<1>3. ASSUME NEW p \in Handler, Acquire(p), UNCHANGED arrived
      PROVE  Typed'
  <2>1. PICK l \in Wanted(p) :
           /\ holder' = [holder EXCEPT ![l] = SessionOf(p)]
           /\ pc' = IF Missing(p) = {l} THEN [pc EXCEPT ![p] = @ + 1] ELSE pc
    BY <1>3 DEF Acquire
  <2>2. holder' \in [Lock -> Owner \cup {NoOwner}]
    BY <2>1 DEF Typed, SessionOf, Owner, Session
  <2>3. /\ job' = job /\ conns' = conns
        /\ Busy(p) /\ Phase(p) \notin {"commit", "log"}
    BY <1>3, WhereSteps DEF Acquire
  <2>4. conns \in [Handler -> SUBSET Session]
    BY DEF Typed
  <2>5. pc' \in [Handler -> Nat] /\ \A q \in Handler : Within(q)'
    <3>1. CASE Missing(p) = {l}
      BY <2>1, <2>3, <2>4, <3>1, Onward
    <3>2. CASE Missing(p) # {l}
      BY <2>1, <2>3, <3>2 DEF Typed, Within, Busy
    <3> QED BY <3>1, <3>2
  <2> QED BY <1>3, <2>2, <2>5 DEF Acquire, Typed, Within
<1>4. ASSUME NEW p \in Handler, PassOn(p) \/ Read(p) \/ Verify(p) \/ Compare(p) \/ LogWithin(p),
             UNCHANGED arrived
      PROVE  Typed'
  <2>1. Busy(p) /\ Phase(p) \notin {"commit", "log"} /\ conns' = conns /\ Advance(p)
    BY <1>4, WhereSteps DEF PassOn, Read, Verify, Compare, LogWithin
  <2>2. conns \in [Handler -> SUBSET Session]
    BY DEF Typed
  <2>3. pc' \in [Handler -> Nat] /\ \A q \in Handler : Within(q)'
    BY <2>1, <2>2, Onward DEF Advance
  <2>4. seen' \in [Handler -> [status : {"none", "active", "closed"}, tables : SUBSET Table]]
    <3>1. CASE Read(p)
      <4>1. Phase(p) = "read" /\ seen' = [seen EXCEPT ![p] = row[job[p].booking]]
        BY <3>1 DEF Read
      <4>2. job[p].booking \in Booking
        BY <2>1, <4>1, Course DEF SlotsFirst, About
      <4> QED BY <4>1, <4>2 DEF Typed
    <3>2. CASE ~Read(p)
      BY <1>4, <3>2 DEF PassOn, Verify, Compare, LogWithin, Typed
    <3> QED BY <3>1, <3>2
  <2>5. dirty' \in [Handler -> BOOLEAN]
    <3>1. CASE Compare(p)
      <4>1. dirty' = [dirty EXCEPT ![p] = row[job[p].booking] # seen[p]]
        BY <3>1 DEF Compare
      <4> QED BY <4>1 DEF Typed
    <3>2. CASE ~Compare(p)
      BY <1>4, <3>2 DEF PassOn, Verify, Read, LogWithin, Typed
    <3> QED BY <3>1, <3>2
  <2>6. holder' = holder
    BY <1>4 DEF PassOn, Read, Verify, Compare, LogWithin
  <2> QED BY <1>4, <2>1, <2>3, <2>4, <2>5, <2>6 DEF Advance, Typed, Within
<1>5. ASSUME NEW p \in Handler, Victim(p) \/ Refuse(p) \/ Log(p), UNCHANGED arrived
      PROVE  Typed'
  <2>1. Release(p) /\ UNCHANGED <<row, pending, blocked, origin>>
    BY <1>5 DEF Victim, Refuse, Log, Fail
  <2> HIDE DEF Release
  <2> QED BY <1>5, <2>1, Ended DEF Typed, Within
<1>6. ASSUME NEW p \in Handler, Commit(p), UNCHANGED arrived
      PROVE  Typed'
  <2>1. Busy(p) /\ Effect(p) /\ Phase(p) = "commit"
    BY <1>6, WhereSteps DEF Commit
  <2>2. /\ row' \in [Booking -> [status : {"none", "active", "closed"}, tables : SUBSET Table]]
        /\ pending' \subseteq Booking
        /\ blocked' \subseteq Table
        /\ origin' \in [Booking -> {"sure", "approveChange", "rejectChange"}]
    BY <2>1, PlacedTyped
  <2>3. CASE Release(p)
    BY <1>6, <2>2, <2>3, Ended DEF Typed, Within
  <2>4. CASE /\ pc' = [pc EXCEPT ![p] = @ + 1]
             /\ pc[p] # Len(PlanOf(job[p].kind))
             /\ conns' = [conns EXCEPT ![p] = @ \ {"tx"}]
             /\ holder' = [l \in Lock |->
                            IF holder[l] = <<p, "tx">> THEN NoOwner ELSE holder[l]]
             /\ UNCHANGED <<job, seen, dirty>>
    <3>1. pc[p] \in 1 .. Len(PlanOf(job[p].kind)) /\ Len(PlanOf(job[p].kind)) \in Nat
      BY <2>1, Course
    <3>2. pc'[p] = pc[p] + 1 /\ pc[p] + 1 \in Nat /\ pc[p] + 1 \in 1 .. Len(PlanOf(job[p].kind))
      BY <2>4, <3>1 DEF Typed
    <3>3. pc' \in [Handler -> Nat]
      BY <2>4, <3>2 DEF Typed
    <3>4. Within(p)'
      BY <2>1, <2>4, <3>2 DEF Within, Busy
    <3>5. ASSUME NEW q \in Handler, q # p PROVE Within(q)'
      BY <2>4, <3>5 DEF Within, Busy, Typed
    <3>6. conns' \in [Handler -> SUBSET Session] /\ holder' \in [Lock -> Owner \cup {NoOwner}]
      BY <2>4 DEF Typed
    <3> QED BY <1>6, <2>2, <2>4, <3>3, <3>4, <3>5, <3>6 DEF Typed, Within
  <2> QED BY <1>6, <2>3, <2>4 DEF Commit
<1> QED BY <1>0, <1>1, <1>2, <1>3, <1>4, <1>5, <1>6 DEF Next, Step

-----------------------------------------------------------------------------
(* Which locks a session has *)

\* A lock is as good as before for a request that does not move.
LEMMA SameOrder ==
  ASSUME Typed, NEW q \in Handler, NEW l \in Lock, InOrder(l, q),
         job'[q] = job[q], pc'[q] = pc[q],
         holder'[l] \in {<<q, "runner">>, <<q, "tx">>} => holder'[l] = holder[l]
  PROVE  InOrder(l, q)'
BY DEF InOrder, Busy, Placing, Passed, Phase

\* And for one that moves on without it.
LEMMA AdvancedOrder ==
  ASSUME Typed, NEW p \in Handler, NEW l \in Lock, InOrder(l, p), Busy(p),
         Phase(p) # "commit", job'[p] = job[p], pc'[p] = pc[p] + 1, holder'[l] = holder[l]
  PROVE  InOrder(l, p)'
<1>1. \A x : Passed(p, x)' <=> Passed(p, x) \/ Phase(p) = x
  BY PassedOn
<1>2. Busy(p)'
  BY DEF Busy
<1> QED BY <1>1, <1>2 DEF InOrder, Placing

\* The lock that a request is granted.
LEMMA GrantedOrder ==
  ASSUME Typed, NEW p \in Handler, Busy(p), AtLock(p), NEW l \in Needs(p, Phase(p)),
         job'[p] = job[p], pc'[p] \in {pc[p], pc[p] + 1}, holder'[l] = SessionOf(p)
  PROVE  InOrder(l, p)'
<1>1. /\ Phase(p) \in OnSlots => l[1] = "slot"
      /\ Phase(p) = "transfer" => l[1] = "transfer"
      /\ Phase(p) \in OnRows => l[1] \notin {"slot", "transfer"}
  BY Needed
<1>2. /\ Phase(p) \in OfSession => job[p].kind \in SlotKinds
      /\ Phase(p) \in {"txSlots", "newSlots"} \cup OnRows => Passed(p, "begin")
      /\ Phase(p) \in {"txSlots", "newSlots"} => job[p].kind \notin SlotKinds
      /\ Passed(p, "commit") => Phase(p) = "log"
  BY Course DEF SlotsFirst, EndsWell
<1>3. /\ Passed(p, "begin") => Passed(p, "begin")'
      /\ ~Passed(p, "commit") /\ Phase(p) # "commit" => ~Passed(p, "commit")'
      /\ \A x \in OnRows : Phase(p) = x => Passed(p, x)' \/ Phase(p)' = x
  <2>1. CASE pc'[p] = pc[p]
    BY <2>1 DEF Passed, Busy, Phase
  <2>2. CASE pc'[p] = pc[p] + 1
    BY <2>2, PassedOn
  <2> QED BY <2>1, <2>2
<1>4. Busy(p)'
  BY DEF Busy
<1>5. CASE Phase(p) \in OfSession
  <2>1. holder'[l] = <<p, "runner">> /\ l[1] \in {"slot", "transfer"}
    BY <1>1, <1>5 DEF SessionOf, OfSession, OnSlots
  <2> QED BY <1>2, <1>4, <1>5, <2>1 DEF InOrder
<1>6. CASE Phase(p) \in {"txSlots", "newSlots"}
  <2>1. holder'[l] = <<p, "tx">> /\ l[1] = "slot"
    BY <1>1, <1>6 DEF SessionOf, OfSession, OnSlots
  <2> QED BY <1>2, <1>3, <1>4, <1>6, <2>1 DEF InOrder, Placing
<1>7. CASE Phase(p) \in OnRows
  <2>1. holder'[l] = <<p, "tx">> /\ l[1] \notin {"slot", "transfer"}
    BY <1>1, <1>7 DEF SessionOf, OfSession, OnRows
  <2>2. Phase(p) \notin {"log", "commit"}
    BY <1>7 DEF OnRows
  <2> QED BY <1>2, <1>3, <1>4, <1>7, <2>1, <2>2 DEF InOrder, Placing
<1> QED BY <1>5, <1>6, <1>7 DEF AtLock, OnSlots, OfSession

\* Locks are held in order, at first and after every step.
LEMMA OrderStart == Init => HoldsInOrder
BY LocksAssumption DEF Init, HoldsInOrder, InOrder

LEMMA OrderSteps == Typed /\ HoldsInOrder /\ [Next]_vars => HoldsInOrder'
<1> SUFFICES ASSUME Typed, HoldsInOrder, [Next]_vars, NEW l \in Lock, NEW q \in Handler
             PROVE  InOrder(l, q)'
  BY DEF HoldsInOrder
<1>0. InOrder(l, q)
  BY DEF HoldsInOrder
<1>1. CASE UNCHANGED vars
  BY <1>0, <1>1, SameOrder DEF vars
<1>2. ASSUME NEW p \in Handler, Arrive(p)
      PROVE  InOrder(l, q)'
  <2>1. CASE q = p
    <3>1. ~Busy(q) /\ holder' = holder
      BY <1>2, <2>1 DEF Arrive
    <3> QED BY <1>0, <3>1 DEF InOrder, Placing
  <2>2. CASE q # p
    <3>1. job'[q] = job[q] /\ pc'[q] = pc[q] /\ holder' = holder
      BY <1>2, <2>2 DEF Arrive, Typed
    <3> QED BY <1>0, <3>1, SameOrder
  <2> QED BY <2>1, <2>2
<1>3. ASSUME NEW p \in Handler,
             Connect(p) \/ PassOn(p) \/ Read(p) \/ Verify(p) \/ Compare(p) \/ LogWithin(p)
      PROVE  InOrder(l, q)'
  <2>1. /\ Busy(p) /\ Phase(p) \notin {"commit", "log"} /\ Advance(p) /\ holder' = holder
    BY <1>3, WhereSteps DEF Connect, PassOn, Read, Verify, Compare, LogWithin
  <2>2. CASE q = p
    <3>1. job'[p] = job[p] /\ pc'[p] = pc[p] + 1
      BY <2>1 DEF Advance, Typed
    <3> QED BY <1>0, <2>1, <2>2, <3>1, AdvancedOrder
  <2>3. CASE q # p
    <3>1. job'[q] = job[q] /\ pc'[q] = pc[q]
      BY <2>1, <2>3 DEF Advance, Typed
    <3> QED BY <1>0, <2>1, <3>1, SameOrder
  <2> QED BY <2>2, <2>3
<1>4. ASSUME NEW p \in Handler, Acquire(p)
      PROVE  InOrder(l, q)'
  <2>1. PICK m \in Wanted(p) :
           /\ holder' = [holder EXCEPT ![m] = SessionOf(p)]
           /\ pc' = IF Missing(p) = {m} THEN [pc EXCEPT ![p] = @ + 1] ELSE pc
    BY <1>4 DEF Acquire
  <2>2. AtLock(p) /\ Busy(p) /\ Phase(p) \notin {"commit", "log"} /\ job' = job
    BY <1>4, WhereSteps DEF Acquire
  <2>3. m \in Needs(p, Phase(p)) /\ m \in Lock
    BY <2>1, <2>2, Needed DEF Wanted, Missing
  <2>4. pc'[p] \in {pc[p], pc[p] + 1}
    BY <2>1 DEF Typed
  <2>5. CASE q = p /\ l = m
    <3>1. holder'[l] = SessionOf(p)
      BY <2>1, <2>3, <2>5 DEF Typed
    <3> QED BY <2>2, <2>3, <2>4, <2>5, <3>1, GrantedOrder
  <2>6. CASE q = p /\ l # m
    <3>1. holder'[l] = holder[l]
      BY <2>1, <2>6 DEF Typed
    <3> QED BY <1>0, <2>2, <2>4, <2>6, <3>1, SameOrder, AdvancedOrder
  <2>7. CASE q # p
    <3>1. holder'[l] \in {SessionOf(p), holder[l]}
      BY <2>1 DEF Typed
    <3>2. holder'[l] \in {<<q, "runner">>, <<q, "tx">>} => holder'[l] = holder[l]
      BY <2>7, <3>1 DEF SessionOf
    <3>3. job'[q] = job[q] /\ pc'[q] = pc[q]
      BY <2>1, <2>2, <2>7 DEF Typed
    <3> QED BY <1>0, <3>2, <3>3, SameOrder
  <2> QED BY <2>5, <2>6, <2>7
<1>5. ASSUME NEW p \in Handler, Release(p)
      PROVE  InOrder(l, q)'
  <2>1. holder'[l] = IF holder[l] \in {p} \X Session THEN NoOwner ELSE holder[l]
    BY <1>5 DEF Release
  <2>2. CASE q = p
    <3>1. holder'[l] \notin {<<q, "runner">>, <<q, "tx">>}
      BY <2>1, <2>2, LocksAssumption DEF Session
    <3> QED BY <3>1 DEF InOrder
  <2>3. CASE q # p
    <3>1. holder'[l] \in {<<q, "runner">>, <<q, "tx">>} => holder'[l] = holder[l]
      BY <2>1, <2>3, LocksAssumption
    <3>2. job'[q] = job[q] /\ pc'[q] = pc[q]
      BY <1>5, <2>3 DEF Release, Typed
    <3> QED BY <1>0, <3>1, <3>2, SameOrder
  <2> QED BY <2>2, <2>3
<1>6. ASSUME NEW p \in Handler, Commit(p), ~Release(p)
      PROVE  InOrder(l, q)'
  <2>1. /\ pc' = [pc EXCEPT ![p] = @ + 1]
        /\ holder' = [k \in Lock |-> IF holder[k] = <<p, "tx">> THEN NoOwner ELSE holder[k]]
        /\ job' = job
    BY <1>6 DEF Commit
  <2>2. holder'[l] = IF holder[l] = <<p, "tx">> THEN NoOwner ELSE holder[l]
    BY <2>1
  <2>3. CASE q = p
    <3>1. Busy(p)' /\ job'[p] = job[p]
      BY <1>6, <2>1, WhereSteps DEF Busy
    <3>2. holder'[l] # <<p, "tx">>
      BY <2>2, LocksAssumption
    <3>3. holder'[l] = <<p, "runner">> => holder[l] = <<p, "runner">>
      BY <2>2, LocksAssumption
    <3> QED BY <1>0, <2>3, <3>1, <3>2, <3>3 DEF InOrder
  <2>4. CASE q # p
    <3>1. holder'[l] \in {<<q, "runner">>, <<q, "tx">>} => holder'[l] = holder[l]
      BY <2>2, LocksAssumption
    <3>2. job'[q] = job[q] /\ pc'[q] = pc[q]
      BY <2>1, <2>4 DEF Typed
    <3> QED BY <1>0, <3>1, <3>2, SameOrder
  <2> QED BY <2>3, <2>4
<1> QED BY <1>1, <1>2, <1>3, <1>4, <1>5, <1>6 DEF Next, Step, Victim, Refuse, Log, Fail

-----------------------------------------------------------------------------
(* What a request has found stays true until it commits *)

\* Nobody else's request changes but to end.
LEMMA Undisturbed ==
  ASSUME Typed, NEW q \in Handler, Guard(q),
         job'[q] = job[q], pc'[q] = pc[q], row' = row, blocked' = blocked, origin' = origin,
         KeepsLocks(q), \A r \in Handler : job'[r] \in {job[r], NoJob}
  PROVE  Guard(q)'
<1>1. ASSUME NEW r \in Handler \ {q}, Placing(q), job[q].kind = "create", job'[r] # NoJob
      PROVE  job'[r].booking # job[q].booking
  BY <1>1 DEF Guard, CreatesAlone, About, Busy
<1> QED BY <1>1, Bystander

\* Nothing is held at first, and an arrival holds nothing.
LEMMA GuardStart == Init => Guarded
BY DEF Init, Guarded, Guard, Placing, Busy

LEMMA GuardArrives ==
  ASSUME Typed, Guarded, HoldsInOrder, NEW p \in Handler, Arrive(p), NEW q \in Handler
  PROVE  Guard(q)'
<1>0. Guard(q)
  BY DEF Guarded
<1>1. PICK j \in Jobs : MayArrive(j) /\ job' = [job EXCEPT ![p] = j]
  BY DEF Arrive
<1>2. /\ UNCHANGED <<row, blocked, origin, pc, holder>> /\ ~Busy(p)
      /\ job'[p] = j /\ \A r \in Handler \ {p} : job'[r] = job[r]
  BY <1>1 DEF Arrive, Typed
<1>3. j # NoJob /\ (j.kind = "block" => j.booking = NoJob)
  BY KindOfJob
<1>4. CASE q # p
  <2>1. ASSUME Placing(q), job[q].kind = "create"
        PROVE  j.booking # job[q].booking
    <3>1. row[job[q].booking] = NoBooking /\ Busy(q) /\ job[q].booking \in Booking
      BY <1>0, <2>1, Course DEF Guard, CreatesAlone, Placing, About
    <3>2. CASE j.kind = "block"
      BY <1>3, <3>1, <3>2, LocksAssumption
    <3>3. CASE j.kind = "create"
      BY <1>1, <3>1, <3>3 DEF MayArrive
    <3>4. CASE j.kind \notin {"create", "block"}
      BY <1>1, <3>1, <3>4 DEF MayArrive
    <3> QED BY <3>2, <3>3, <3>4
  <2>2. ASSUME NEW r \in Handler \ {q}, Placing(q), job[q].kind = "create", job'[r] # NoJob
        PROVE  job'[r].booking # job[q].booking
    <3>1. CASE r = p
      BY <1>2, <2>1, <2>2, <3>1
    <3>2. CASE r # p
      BY <1>0, <1>2, <2>2, <3>2 DEF Guard, CreatesAlone, About, Busy
    <3> QED BY <3>1, <3>2
  <2>3. job'[q] = job[q] /\ pc'[q] = pc[q] /\ KeepsLocks(q)
    BY <1>2, <1>4 DEF KeepsLocks
  <2> QED BY <1>0, <1>2, <2>2, <2>3, Bystander
<1>5. CASE q = p
  <2>1. pc'[p] = 1
    BY <1>2 DEF Typed, Within
  <2>2. \A x : ~Passed(p, x)'
    BY <2>1 DEF Passed, Before
  <2>3. CreatesAlone(p)'
    <3> SUFFICES ASSUME j.kind = "create"
                 PROVE  /\ row[j.booking] = NoBooking
                        /\ \A r \in Handler \ {p} : job[r] # NoJob => job[r].booking # j.booking
      BY <1>2 DEF CreatesAlone, About, Busy
    <3> QED BY <1>1 DEF MayArrive, Busy
  <2> QED BY <1>5, <2>2, <2>3
        DEF Guard, HasSlots, HasTables, HasRow, StaysValid, StaysUnblocked, StaysClear
<1> QED BY <1>4, <1>5

\* Any step but an arrival and a commit.
LEMMA GuardSteps ==
  ASSUME Typed, Guarded, HoldsInOrder, NEW p \in Handler, NEW q \in Handler,
         \/ Connect(p) \/ Acquire(p) \/ PassOn(p) \/ Victim(p) \/ Read(p) \/ Verify(p)
         \/ Refuse(p) \/ Compare(p) \/ LogWithin(p) \/ Log(p)
  PROVE  Guard(q)'
<1>0. Guard(q) /\ Guard(p)
  BY DEF Guarded
<1>1. CASE Victim(p) \/ Refuse(p) \/ Log(p)
  <2>1. Release(p) /\ UNCHANGED <<row, pending, blocked, origin>>
    BY <1>1 DEF Victim, Refuse, Log, Fail
  <2>2. CASE q = p
    BY <2>1, <2>2 DEF Release, Guard, Placing, Busy, Typed
  <2>3. CASE q # p
    <3>1. /\ job'[q] = job[q] /\ pc'[q] = pc[q]
          /\ \A r \in Handler : job'[r] \in {job[r], NoJob}
      BY <2>1, <2>3 DEF Release, Typed
    <3>2. KeepsLocks(q)
      BY <2>1, <2>3 DEF Release, KeepsLocks
    <3> QED BY <1>0, <2>1, <3>1, <3>2, Undisturbed
  <2> QED BY <2>2, <2>3
<1>2. CASE Connect(p) \/ Read(p) \/ Verify(p) \/ Compare(p) \/ LogWithin(p) \/ PassOn(p)
  <2>1. Busy(p) /\ Phase(p) \notin {"commit", "log"} /\ Advance(p) /\ holder' = holder
    BY <1>2, WhereSteps DEF Connect, PassOn, Read, Verify, Compare, LogWithin
  <2>2. KeepsLocks(q)
    BY <2>1 DEF KeepsLocks
  <2>3. CASE q = p
    <3>1. /\ Phase(p) = "valid" => IsValid(p)
          /\ Phase(p) = "check" => PassesCheck(p)
          /\ Phase(p) = "unblocked" => job[p].to \cap blocked = {}
      BY <1>2 DEF Connect, Read, Verify, Compare, LogWithin, PassOn, AtLock, OnSlots, OnRows, Holds
    <3>2. /\ Phase(p) = "slots" => \A t \in job[p].to : holder'[Slot(t)] = <<p, "runner">>
          /\ Phase(p) = "tables" /\ job[p].kind \in RowKinds =>
               \A t \in job[p].to : holder'[TableRow(t)] = <<p, "tx">>
          /\ Phase(p) = "row" => holder'[RowOf(About(p))] = <<p, "tx">>
      <4>1. Phase(p) \in {"slots", "tables", "row"} => AtLock(p) /\ Missing(p) = {}
        BY <1>2 DEF Connect, Read, Verify, Compare, LogWithin, PassOn, AtTest
      <4>2. Phase(p) \in {"slots", "tables", "row"} =>
              \A l \in Needs(p, Phase(p)) : holder'[l] = SessionOf(p)
        BY <2>1, <4>1 DEF Missing
      <4> QED BY <2>1, <4>1, <4>2, Needed DEF SessionOf, OfSession
    <3> QED BY <1>0, <2>1, <2>2, <2>3, <3>1, <3>2, OwnStep DEF Advance
  <2>4. CASE q # p
    <3>1. /\ job'[q] = job[q] /\ pc'[q] = pc[q]
          /\ \A r \in Handler : job'[r] \in {job[r], NoJob}
      BY <2>1, <2>4 DEF Advance, Typed
    <3> QED BY <1>0, <2>1, <2>2, <3>1, Undisturbed DEF Advance
  <2> QED BY <2>3, <2>4
<1>3. CASE Acquire(p)
  <2>1. PICK m \in Wanted(p) :
           /\ holder[m] = NoOwner
           /\ holder' = [holder EXCEPT ![m] = SessionOf(p)]
           /\ pc' = IF Missing(p) = {m} THEN [pc EXCEPT ![p] = @ + 1] ELSE pc
    BY <1>3 DEF Acquire
  <2>2. /\ AtLock(p) /\ Busy(p) /\ Phase(p) \notin {"commit", "log"}
        /\ UNCHANGED <<row, blocked, job, origin>>
    BY <1>3, WhereSteps DEF Acquire
  <2>3. m \in Needs(p, Phase(p)) /\ m \in Lock
    BY <2>1, <2>2, Needed DEF Wanted, Missing
  <2>4. KeepsLocks(q)
    <3> SUFFICES ASSUME NEW l \in Lock, NEW s \in Session, holder[l] = <<q, s>>
                 PROVE  holder'[l] = holder[l]
      BY DEF KeepsLocks
    <3>1. <<q, s>> \in Handler \X {"runner", "tx"}
      BY DEF Session
    <3>2. l # m
      BY <2>1, <3>1, LocksAssumption
    <3> QED BY <2>1, <3>2 DEF Typed
  <2>5. CASE Missing(p) # {m} \/ q # p
    <3>1. job'[q] = job[q] /\ pc'[q] = pc[q] /\ \A r \in Handler : job'[r] \in {job[r], NoJob}
      BY <2>1, <2>2, <2>5 DEF Typed
    <3> QED BY <1>0, <2>2, <2>4, <3>1, Undisturbed
  <2>6. CASE Missing(p) = {m} /\ q = p
    <3>1. pc' = [pc EXCEPT ![p] = @ + 1]
      BY <2>1, <2>6
    <3>2. \A l \in Needs(p, Phase(p)) : holder'[l] = SessionOf(p)
      <4> SUFFICES ASSUME NEW l \in Needs(p, Phase(p)) PROVE holder'[l] = SessionOf(p)
        OBVIOUS
      <4>1. l \in Lock
        BY <2>2, Needed
      <4>2. l # m => holder[l] = SessionOf(p)
        BY <2>6 DEF Missing
      <4> QED BY <2>1, <4>1, <4>2 DEF Typed
    <3>3. /\ Phase(p) = "slots" => \A t \in job[p].to : holder'[Slot(t)] = <<p, "runner">>
          /\ Phase(p) = "tables" /\ job[p].kind \in RowKinds =>
               \A t \in job[p].to : holder'[TableRow(t)] = <<p, "tx">>
          /\ Phase(p) = "row" => holder'[RowOf(About(p))] = <<p, "tx">>
      BY <2>2, <3>2, Needed DEF SessionOf, OfSession
    <3>4. Phase(p) \notin {"valid", "check", "unblocked"}
      BY <2>2 DEF AtLock, OnSlots, OnRows
    <3> QED BY <1>0, <2>2, <2>4, <2>6, <3>1, <3>3, <3>4, OwnStep
  <2> QED BY <2>5, <2>6
<1> QED BY <1>1, <1>2, <1>3

-----------------------------------------------------------------------------
(* A commit leaves what the others have found *)

\* What a request holds and knows when it commits.
LEMMA AtCommit ==
  ASSUME Typed, NEW p \in Handler, Guard(p), Busy(p), Phase(p) = "commit"
  PROVE  /\ Placing(p)
         /\ job[p].kind \in Checked => Clear(p)
         /\ job[p].kind \in SlotKinds => \A t \in job[p].to : holder[Slot(t)] = <<p, "runner">>
         /\ job[p].kind \in RowKinds => \A t \in job[p].to : holder[TableRow(t)] = <<p, "tx">>
         /\ job[p].kind \notin {"create", "block"} => holder[RowOf(About(p))] = <<p, "tx">>
         /\ job[p].kind \in {"approveChange", "close"} \cup Transfers => Active(About(p))
         /\ job[p].kind = "create" =>
              /\ job[p].to \cap blocked = {} /\ row[About(p)] = NoBooking
              /\ \A q \in Handler \ {p} : Busy(q) => About(q) # About(p)
<1>1. /\ \A x : Passed(p, x) <=> Before(PlanOf(job[p].kind), pc[p], x)
      /\ EndsWell(PlanOf(job[p].kind), pc[p])
      /\ LocksFirst(job[p].kind, PlanOf(job[p].kind), pc[p])
      /\ Phase(p) = PlanOf(job[p].kind)[pc[p]]
  BY Course
<1>2. Placing(p)
  BY <1>1 DEF Placing, EndsWell
<1>3. /\ HasSlots(p) /\ HasTables(p) /\ HasRow(p) /\ CreatesAlone(p)
      /\ StaysValid(p) /\ StaysUnblocked(p) /\ StaysClear(p)
  BY <1>2 DEF Guard
<1>4. /\ job[p].kind \in Checked => Passed(p, "check")
      /\ job[p].kind \in SlotKinds => Passed(p, "slots")
      /\ job[p].kind \in RowKinds => Passed(p, "tables")
      /\ job[p].kind \notin {"create", "block"} => Passed(p, "row")
      /\ job[p].kind \in {"approveChange", "close"} \cup Transfers => Passed(p, "valid")
      /\ job[p].kind = "create" => Passed(p, "unblocked")
  BY <1>1 DEF LocksFirst, Checked, SlotKinds, RowKinds, Transfers
<1> QED BY <1>2, <1>3, <1>4
        DEF HasSlots, HasTables, HasRow, CreatesAlone, StaysValid, StaysUnblocked, StaysClear,
            RowKinds, Transfers

\* The same for a request that has passed the check of its tables.
LEMMA AtCheck ==
  ASSUME Typed, NEW q \in Handler, Guard(q), Placing(q), Passed(q, "check"), job[q].kind \in Checked
  PROVE  /\ Clear(q)
         /\ job[q].kind \in SlotKinds => \A t \in job[q].to : holder[Slot(t)] = <<q, "runner">>
         /\ job[q].kind \in RowKinds => \A t \in job[q].to : holder[TableRow(t)] = <<q, "tx">>
         /\ job[q].kind \in RowKinds \ {"create"} => holder[RowOf(About(q))] = <<q, "tx">>
<1>1. /\ \A x : Passed(q, x) <=> Before(PlanOf(job[q].kind), pc[q], x)
      /\ LocksFirst(job[q].kind, PlanOf(job[q].kind), pc[q])
  BY Course DEF Placing
<1>2. HasSlots(q) /\ HasTables(q) /\ HasRow(q) /\ StaysClear(q)
  BY DEF Guard
<1>3. /\ job[q].kind \in SlotKinds => Passed(q, "slots")
      /\ job[q].kind \in RowKinds => Passed(q, "tables")
      /\ job[q].kind \in RowKinds \ {"create"} => Passed(q, "row")
  BY <1>1 DEF LocksFirst
<1> QED BY <1>2, <1>3 DEF HasSlots, HasTables, HasRow, StaysClear

\* What the commit of a request does to the bookings.
LEMMA WrittenAtCommit ==
  ASSUME Typed, NEW p \in Handler, Busy(p), Phase(p) = "commit", Effect(p)
  PROVE  /\ \A b \in Booking : b # About(p) => row'[b] = row[b] /\ origin'[b] = origin[b]
         /\ About(p) \in Booking =>
              \/ row'[About(p)] = row[About(p)] /\ origin'[About(p)] = origin[About(p)]
              \/ /\ job[p].kind \in RowKinds
                 /\ row'[About(p)] = [status |-> "active", tables |-> job[p].to]
                 /\ job[p].kind = "approveChange" => origin'[About(p)] = "approveChange"
              \/ job[p].kind = "rejectChange" /\ origin'[About(p)] = "rejectChange"
              \/ job[p].kind = "close" /\ row'[About(p)].status = "closed"
         /\ blocked' = IF job[p].kind = "block" THEN blocked \cup job[p].to ELSE blocked
<1> DEFINE k == job[p].kind
           b == job[p].booking
<1>0. k \in AllKinds
  BY Course
<1>1. ASSUME NEW r, Placed(p, r)
      PROVE  /\ \A a \in Booking : a # b => row'[a] = row[a] /\ origin'[a] = origin[a]
             /\ b \in Booking =>
                  /\ row'[b] = r
                  /\ origin'[b] = IF k \in {"approveChange", "rejectChange"} THEN k ELSE "sure"
  BY <1>1 DEF Placed, Typed
<1>2. CASE k \in {"create", "waiterTransfer", "plannedTransfer", "approveChange"}
  <2>1. Placed(p, [status |-> "active", tables |-> job[p].to]) /\ UNCHANGED blocked
    BY <1>2 DEF Effect
  <2> QED BY <1>1, <1>2, <2>1 DEF About, RowKinds, Transfers
<1>3. CASE k = "rejectChange"
  <2>1. (IF dirty[p] THEN Placed(p, seen[p]) ELSE UNCHANGED <<row, origin>>) /\ UNCHANGED blocked
    BY <1>3 DEF Effect
  <2> QED BY <1>1, <1>3, <2>1 DEF About
<1>4. CASE k = "close"
  <2>1. row' = [row EXCEPT ![b].status = "closed"] /\ UNCHANGED <<pending, blocked, origin>>
    BY <1>4 DEF Effect
  <2> QED BY <1>4, <2>1 DEF About, Typed
<1>5. CASE k \in {"block", "askChange", "transition", "approveTime"}
  BY <1>5 DEF Effect
<1> QED BY <1>0, <1>2, <1>3, <1>4, <1>5 DEF AllKinds

\* Two requests that have locked their tables do not name the same table;
\* only an approval of a table change and a plan to block a table may.
LEMMA Disjoint ==
  ASSUME NEW p \in Handler, NEW q \in Handler, p # q,
         \/ /\ job[p].kind \in SlotKinds /\ job[q].kind \in SlotKinds
            /\ \A t \in job[p].to : holder[Slot(t)] = <<p, "runner">>
            /\ \A t \in job[q].to : holder[Slot(t)] = <<q, "runner">>
         \/ /\ job[p].kind \in RowKinds /\ job[q].kind \in RowKinds
            /\ \A t \in job[p].to : holder[TableRow(t)] = <<p, "tx">>
            /\ \A t \in job[q].to : holder[TableRow(t)] = <<q, "tx">>
  PROVE  job[p].to \cap job[q].to = {}
OBVIOUS

\* The exclusive locks part the requests that write the same rows.
LEMMA GuardCommits ==
  ASSUME Typed, Guarded, HoldsInOrder, NEW p \in Handler, Commit(p), NEW q \in Handler
  PROVE  Guard(q)'
<1>0. Guard(q) /\ Guard(p) /\ Busy(p) /\ Phase(p) = "commit" /\ Effect(p)
  BY WhereSteps DEF Guarded, Commit
<1>1. CASE q = p
  <2>1. CASE Release(p)
    BY <1>1, <2>1 DEF Release, Guard, Placing, Busy, Typed
  <2>2. CASE pc' = [pc EXCEPT ![p] = @ + 1] /\ job' = job
    <3>1. job'[p] = job[p] /\ pc'[p] = pc[p] + 1
      BY <2>2 DEF Typed
    <3>2. Passed(p, "commit")'
      BY <1>0, <3>1, PassedOn
    <3> QED BY <1>1, <3>2 DEF Guard, Placing
  <2> QED BY <2>1, <2>2 DEF Commit
<1>2. CASE q # p
  <2> SUFFICES ASSUME Placing(q)'
               PROVE  (/\ HasSlots(q) /\ HasTables(q) /\ HasRow(q) /\ CreatesAlone(q)
                       /\ StaysValid(q) /\ StaysUnblocked(q) /\ StaysClear(q))'
    BY DEF Guard
  <2>1. /\ job'[q] = job[q] /\ pc'[q] = pc[q] /\ KeepsLocks(q)
        /\ \A r \in Handler : job'[r] \in {job[r], NoJob}
    <3>1. CASE Release(p)
      BY <1>2, <3>1 DEF Release, KeepsLocks, Typed
    <3>2. CASE /\ pc' = [pc EXCEPT ![p] = @ + 1] /\ job' = job
               /\ holder' = [l \in Lock |->
                              IF holder[l] = <<p, "tx">> THEN NoOwner ELSE holder[l]]
      BY <1>2, <3>2 DEF KeepsLocks, Typed
    <3> QED BY <3>1, <3>2 DEF Commit
  <2>2. \A x : Passed(q, x)' <=> Passed(q, x)
    BY <2>1 DEF Passed, Busy
  <2>3. Placing(q) /\ Busy(q)
    BY <2>1, <2>2 DEF Placing, Busy
  <2>4. /\ HasSlots(q) /\ HasTables(q) /\ HasRow(q) /\ CreatesAlone(q)
        /\ StaysValid(q) /\ StaysUnblocked(q) /\ StaysClear(q)
    BY <1>0, <2>3 DEF Guard
  <2>5. /\ job[q].to \subseteq Table /\ job[p].to \subseteq Table
        /\ job[q].kind # "block" => About(q) \in Booking
        /\ job[q].kind = "block" => About(q) = NoJob
        /\ job[p].kind # "block" => About(p) \in Booking
        /\ job[p].kind = "block" => About(p) = NoJob
    BY <1>0, <2>3, Course
  <2>6. HasSlots(q)'
    BY <2>1, <2>2, <2>4, <2>5, Locks DEF HasSlots, KeepsLocks, Session
  <2>7. HasTables(q)'
    BY <2>1, <2>2, <2>4, <2>5, Locks DEF HasTables, KeepsLocks, Session
  <2>8. HasRow(q)'
    <3> SUFFICES ASSUME Passed(q, "row") PROVE holder'[RowOf(job[q].booking)] = <<q, "tx">>
      BY <2>1, <2>2 DEF HasRow, About
    <3>1. holder[RowOf(job[q].booking)] = <<q, "tx">>
      BY <2>4 DEF HasRow, About
    <3>2. job[q].kind # "block"
      BY <2>3, BlockHasNoRow
    <3> QED BY <2>1, <2>5, <3>1, <3>2, Locks DEF KeepsLocks, Session, About
  <2>9. /\ \A b \in Booking : b # About(p) => row'[b] = row[b] /\ origin'[b] = origin[b]
        /\ About(p) \in Booking =>
             \/ row'[About(p)] = row[About(p)] /\ origin'[About(p)] = origin[About(p)]
             \/ /\ job[p].kind \in RowKinds
                /\ row'[About(p)] = [status |-> "active", tables |-> job[p].to]
                /\ job[p].kind = "approveChange" => origin'[About(p)] = "approveChange"
             \/ job[p].kind = "rejectChange" /\ origin'[About(p)] = "rejectChange"
             \/ job[p].kind = "close" /\ row'[About(p)].status = "closed"
        /\ blocked' = IF job[p].kind = "block" THEN blocked \cup job[p].to ELSE blocked
    BY <1>0, WrittenAtCommit
  <2>10. CreatesAlone(q)'
    <3> SUFFICES ASSUME job[q].kind = "create"
                 PROVE  /\ row'[About(q)] = NoBooking
                        /\ \A r \in Handler \ {q} : job'[r] # NoJob => job'[r].booking # About(q)
      BY <2>1 DEF CreatesAlone, About, Busy
    <3>1. /\ row[About(q)] = NoBooking
          /\ \A r \in Handler \ {q} : Busy(r) => About(r) # About(q)
      BY <2>4 DEF CreatesAlone
    <3> QED BY <1>0, <1>2, <2>1, <2>5, <2>9, <3>1 DEF About, Busy
  <2>11. StaysValid(q)'
    <3> SUFFICES ASSUME Passed(q, "valid"), job[q].kind \in (RowKinds \ {"create"}) \cup {"close"}
                 PROVE  row'[About(q)].status = "active"
      BY <2>1, <2>2 DEF StaysValid, About, Active
    <3>1. row[About(q)].status = "active" /\ About(q) \in Booking
      BY <2>4, <2>5 DEF StaysValid, Active, RowKinds, Transfers
    <3>2. holder[RowOf(About(q))] = <<q, "tx">>
      <4>1. Passed(q, "row")
        BY <2>3, Course DEF LocksFirst, RowKinds, Transfers
      <4> QED BY <2>4, <4>1 DEF HasRow
    <3>3. About(q) # About(p)
      <4>1. CASE job[p].kind = "create"
        BY <1>0, <3>1, <4>1, AtCommit DEF NoBooking
      <4>2. CASE job[p].kind = "block"
        BY <2>5, <3>1, <4>2, LocksAssumption
      <4>3. CASE job[p].kind \notin {"create", "block"}
        <5>1. holder[RowOf(About(p))] = <<p, "tx">>
          BY <1>0, <4>3, AtCommit
        <5> QED BY <1>2, <3>2, <5>1
      <4> QED BY <4>1, <4>2, <4>3
    <3> QED BY <2>9, <3>1, <3>3
  <2>12. StaysUnblocked(q)'
    <3> SUFFICES ASSUME job[q].kind = "create", Passed(q, "unblocked")
                 PROVE  job[q].to \cap blocked' = {}
      BY <2>1, <2>2 DEF StaysUnblocked
    <3>1. job[q].to \cap blocked = {}
      BY <2>4 DEF StaysUnblocked
    <3>2. CASE job[p].kind # "block"
      BY <2>9, <3>1, <3>2
    <3>3. CASE job[p].kind = "block"
      <4>1. \A t \in job[p].to : holder[Slot(t)] = <<p, "runner">>
        BY <1>0, <3>3, AtCommit DEF SlotKinds
      <4>2. Passed(q, "slots")
        BY <2>3, Course DEF LocksFirst
      <4>3. \A t \in job[q].to : holder[Slot(t)] = <<q, "runner">>
        BY <2>4, <4>2 DEF HasSlots
      <4>4. job[p].to \cap job[q].to = {}
        BY <1>2, <4>1, <4>3
      <4> QED BY <2>9, <3>1, <3>3, <4>4
    <3> QED BY <3>2, <3>3
  <2>13. StaysClear(q)'
    <3> SUFFICES ASSUME Passed(q, "check"), job[q].kind \in Checked,
                        NEW b \in Booking, row'[b].status = "active",
                        row'[b].tables \cap job[q].to # {}
                 PROVE  b # About(q) /\ origin'[b] \in Exempt(job[q].kind)
      BY <2>1, <2>2 DEF StaysClear, Clear, About, Active
    <3>1. /\ Clear(q)
          /\ job[q].kind \in SlotKinds => \A t \in job[q].to : holder[Slot(t)] = <<q, "runner">>
          /\ job[q].kind \in RowKinds => \A t \in job[q].to : holder[TableRow(t)] = <<q, "tx">>
          /\ job[q].kind \in RowKinds \ {"create"} => holder[RowOf(About(q))] = <<q, "tx">>
      BY <1>0, <2>3, AtCheck
    <3>2. CASE row'[b] = row[b] /\ origin'[b] = origin[b]
      BY <3>1, <3>2 DEF Clear, Active
    <3>3. CASE ~(row'[b] = row[b] /\ origin'[b] = origin[b])
      <4>1. b = About(p)
        BY <2>9, <3>3
      <4>2. CASE /\ job[p].kind \in RowKinds
                 /\ row'[About(p)] = [status |-> "active", tables |-> job[p].to]
                 /\ job[p].kind = "approveChange" => origin'[About(p)] = "approveChange"
        <5>1. /\ job[p].kind \in SlotKinds => \A t \in job[p].to : holder[Slot(t)] = <<p, "runner">>
              /\ \A t \in job[p].to : holder[TableRow(t)] = <<p, "tx">>
          BY <1>0, <4>2, AtCommit
        <5>2. job[p].to \cap job[q].to # {}
          BY <4>1, <4>2
        <5>3. job[q].kind = "block" /\ job[p].kind = "approveChange"
          BY <1>2, <3>1, <4>2, <5>1, <5>2, Disjoint
             DEF Checked, SlotKinds, RowKinds, Transfers
        <5> QED BY <2>5, <4>1, <4>2, <5>3, LocksAssumption DEF Exempt
      <4>3. CASE job[p].kind = "rejectChange" /\ origin'[About(p)] = "rejectChange"
        <5>1. holder[RowOf(About(p))] = <<p, "tx">>
          BY <1>0, <4>3, AtCommit
        <5>2. b # About(q)
          <6>1. CASE job[q].kind = "create"
            BY <1>0, <1>2, <2>4, <4>1, <6>1 DEF CreatesAlone
          <6>2. CASE job[q].kind = "block"
            BY <2>5, <6>2, LocksAssumption
          <6>3. CASE job[q].kind \in RowKinds \ {"create"}
            BY <1>2, <3>1, <4>1, <5>1, <6>3
          <6> QED BY <6>1, <6>2, <6>3 DEF Checked, SlotKinds, RowKinds
        <5> QED BY <4>1, <4>3, <5>2 DEF Exempt
      <4> QED BY <2>9, <3>3, <4>1, <4>2, <4>3
    <3> QED BY <3>2, <3>3
  <2> QED BY <2>6, <2>7, <2>8, <2>10, <2>11, <2>12, <2>13
<1> QED BY <1>1, <1>2

-----------------------------------------------------------------------------
(* Connections *)

PoolKept == Cardinality(Connections) <= Pool /\ IsFiniteSet(Connections)

\* Connections come from the pool.
LEMMA FewerConnections ==
  ASSUME PoolKept, \A q \in Handler : conns'[q] \subseteq conns[q]
  PROVE  PoolKept'
<1>1. Connections' \subseteq Connections
  BY DEF Connections
<1>2. IsFiniteSet(Connections') /\ Cardinality(Connections') <= Cardinality(Connections)
  BY <1>1, FS_Subset DEF PoolKept
<1>3. Cardinality(Connections) \in Nat /\ Cardinality(Connections') \in Nat
  BY <1>2, FS_CardinalityType DEF PoolKept
<1> QED BY <1>2, <1>3, LocksAssumption DEF PoolKept

LEMMA PoolStart == Init => PoolKept
<1> SUFFICES ASSUME Init PROVE PoolKept
  OBVIOUS
<1>1. Connections = {}
  BY DEF Init, Connections
<1> QED BY <1>1, FS_EmptySet, LocksAssumption DEF PoolKept

LEMMA OneMore ==
  ASSUME NEW S, IsFiniteSet(S), NEW x
  PROVE  /\ IsFiniteSet(S \cup {x}) /\ Cardinality(S) \in Nat
         /\ Cardinality(S \cup {x}) \in Nat /\ Cardinality(S \cup {x}) <= Cardinality(S) + 1
<1>1. /\ IsFiniteSet(S \cup {x})
      /\ Cardinality(S \cup {x}) = Cardinality(S) \/ Cardinality(S \cup {x}) = Cardinality(S) + 1
  BY FS_AddElement
<1>2. Cardinality(S) \in Nat
  BY FS_CardinalityType
<1> QED BY <1>1, <1>2

LEMMA PoolSteps == Typed /\ PoolKept /\ [Next]_vars => PoolKept'
<1> SUFFICES ASSUME Typed, PoolKept, [Next]_vars PROVE PoolKept'
  OBVIOUS
<1>1. ASSUME NEW p \in Handler, Connect(p)
      PROVE  PoolKept'
  <2>1. PICK s : conns' = [conns EXCEPT ![p] = @ \cup {s}]
    BY <1>1 DEF Connect
  <2>2. Connections' \subseteq Connections \cup {<<p, s>>}
    BY <2>1 DEF Connections, Typed
  <2>3. /\ Cardinality(Connections) \in Nat /\ Cardinality(Connections) < Pool
        /\ IsFiniteSet(Connections)
    BY <1>1, FS_CardinalityType DEF PoolKept, Connect, PoolFree
  <2>4. /\ IsFiniteSet(Connections \cup {<<p, s>>})
        /\ Cardinality(Connections \cup {<<p, s>>}) <= Cardinality(Connections) + 1
    BY <2>3, OneMore
  <2>5. IsFiniteSet(Connections') /\ Cardinality(Connections') <= Cardinality(Connections \cup {<<p, s>>})
    BY <2>2, <2>4, FS_Subset
  <2>6. Cardinality(Connections') \in Nat /\ Cardinality(Connections \cup {<<p, s>>}) \in Nat
    BY <2>4, <2>5, FS_CardinalityType
  <2> QED BY <2>3, <2>4, <2>5, <2>6, LocksAssumption DEF PoolKept
<1>2. CASE conns' = conns
  BY <1>2, FewerConnections
<1>3. ASSUME NEW p \in Handler,
             conns' = [conns EXCEPT ![p] = {}] \/ conns' = [conns EXCEPT ![p] = @ \ {"tx"}]
      PROVE  PoolKept'
  <2>1. \A q \in Handler : conns'[q] \subseteq conns[q]
    BY <1>3 DEF Typed
  <2> QED BY <2>1, FewerConnections
<1> QED
  BY <1>1, <1>2, <1>3
     DEF vars, Next, Step, Arrive, Acquire, PassOn, Victim, Read, Verify, Refuse, Compare, LogWithin,
         Commit, Log, Fail, Release

-----------------------------------------------------------------------------
(* The theorems *)

LocksInv == Typed /\ Guarded /\ HoldsInOrder /\ PoolKept

\* Every step keeps what the requests have found.
LEMMA GuardNext == Typed /\ Guarded /\ HoldsInOrder /\ [Next]_vars => Guarded'
<1> SUFFICES ASSUME Typed, Guarded, HoldsInOrder, [Next]_vars, NEW q \in Handler
             PROVE  Guard(q)'
  BY DEF Guarded
<1>1. CASE UNCHANGED vars
  <2>1. /\ Guard(q) /\ KeepsLocks(q) /\ job'[q] = job[q] /\ pc'[q] = pc[q]
        /\ row' = row /\ blocked' = blocked /\ origin' = origin
        /\ \A r \in Handler : job'[r] \in {job[r], NoJob}
    BY <1>1 DEF Guarded, KeepsLocks, vars
  <2> QED BY <2>1, Undisturbed
<1>2. ASSUME NEW p \in Handler, Arrive(p) PROVE Guard(q)'
  BY <1>2, GuardArrives
<1>3. ASSUME NEW p \in Handler, Step(p) PROVE Guard(q)'
  BY <1>3, GuardSteps, GuardCommits DEF Step
<1> QED BY <1>1, <1>2, <1>3 DEF Next

\* The invariant of the locks.
LEMMA LocksInvHolds == Spec => []LocksInv
<1>1. Init => LocksInv
  BY TypedStart, GuardStart, OrderStart, PoolStart DEF LocksInv
<1>2. LocksInv /\ [Next]_vars => LocksInv'
  BY TypedSteps, GuardNext, OrderSteps, PoolSteps DEF LocksInv
<1> QED BY <1>1, <1>2, PTL DEF Spec

\* Every variable has its type, and the pool lends no connection it has not:
\* a handler takes one for its locks and one for its transaction (withLocks).
THEOREM LockTypesHold == Spec => []TypeOK
<1>1. LocksInv => TypeOK
  BY DEF LocksInv, Typed, Within, PoolKept, TypeOK
<1> QED BY <1>1, LocksInvHolds, PTL

\* The functions that AtomicSlots sees, changed at one booking.
LEMMA ChangedAt ==
  ASSUME NEW f, NEW g, DOMAIN f = Booking, DOMAIN g = Booking,
         f = [a \in Booking |-> f[a]], g = [a \in Booking |-> g[a]],
         NEW b \in Booking, \A a \in Booking : a # b => g[a] = f[a]
  PROVE  g = [f EXCEPT ![b] = g[b]]
OBVIOUS

\* A move is to one table.
LEMMA OneDestination ==
  ASSUME NEW j \in Jobs, j.kind \in {"approveChange"} \cup Transfers
  PROVE  \E t \in Table : j.to = {t}
<1>1. PICK k \in Kind :
        j \in [kind : {k}, to : Asked(k), booking : IF k = "block" THEN {NoJob} ELSE Booking]
  BY DEF Jobs
<1>2. j.kind = k /\ j.to \in Asked(k)
  BY <1>1
<1> QED BY <1>2 DEF Asked, Transfers

\* What AtomicSlots sees of a commit.
LEMMA CommitIsAtomic ==
  ASSUME Typed, Guarded, NEW p \in Handler, Busy(p), Phase(p) = "commit", Effect(p),
         ~StaleSave(p), ~Crossed(p)
  PROVE  [Slots!Next]_Slots!slots
<1> DEFINE k == job[p].kind
           b == job[p].booking
           T == job[p].to
           status == [a \in Booking |-> row[a].status]
           at == [a \in Booking |-> row[a].tables]
           newStatus == [a \in Booking |-> row'[a].status]
           newAt == [a \in Booking |-> row'[a].tables]
<1>1. /\ k \in AllKinds /\ job[p] \in Jobs /\ T \in SUBSET Table
      /\ k # "block" => b \in Booking
  BY Course DEF About
<1>2. /\ k \in Checked => Clear(p)
      /\ k \in {"approveChange", "close"} \cup Transfers => Active(b)
      /\ k = "create" => T \cap blocked = {} /\ row[b] = NoBooking
  BY AtCommit DEF Guarded, About
<1>3. k \in Checked => ~Taken(T)
  <2> SUFFICES ASSUME k \in Checked, Taken(T) PROVE FALSE
    OBVIOUS
  <2>1. PICK a \in Booking : Active(a) /\ row[a].tables \cap T # {}
    BY DEF Taken
  <2>2. a # b
    BY <1>2, <2>1 DEF Clear, About
  <2>3. Crossed(p)
    BY <1>2, <2>1, <2>2 DEF Crossed, Clear, About, Exempt
  <2> QED BY <2>3
<1>4. Slots!Taken(T) <=> Taken(T)
  BY DEF Slots!Taken, Slots!Active, Taken, Active
<1>5. ASSUME NEW r, Placed(p, r), b \in Booking
      PROVE  /\ row' = [row EXCEPT ![b] = r] /\ row'[b] = r
             /\ \A a \in Booking : a # b => row'[a] = row[a]
  BY <1>5 DEF Placed, Typed
<1>6. ASSUME b \in Booking, \A a \in Booking : a # b => row'[a] = row[a]
       PROVE  /\ newStatus = [status EXCEPT ![b] = row'[b].status]
              /\ newAt = [at EXCEPT ![b] = row'[b].tables]
  <2>1. /\ newStatus[b] = row'[b].status /\ newAt[b] = row'[b].tables
        /\ \A a \in Booking : a # b => newStatus[a] = status[a] /\ newAt[a] = at[a]
    BY <1>6
  <2>2. newStatus = [status EXCEPT ![b] = newStatus[b]]
    BY <1>6, <2>1, ChangedAt
  <2>3. newAt = [at EXCEPT ![b] = newAt[b]]
    BY <1>6, <2>1, ChangedAt
  <2> QED BY <2>1, <2>2, <2>3
<1>7. CASE k = "create"
  <2>1. Placed(p, [status |-> "active", tables |-> T]) /\ blocked' = blocked
    BY <1>7 DEF Effect
  <2>2. /\ row'[b] = [status |-> "active", tables |-> T]
        /\ \A a \in Booking : a # b => row'[a] = row[a]
    BY <1>1, <1>5, <1>7, <2>1
  <2>3. PICK c \in Booking, U \in SUBSET Table : c = b /\ U = T
    BY <1>1, <1>7
  <2>4. Slots!Seat(c, U)
    <3>1. status[b] = "none"
      BY <1>1, <1>2, <1>7 DEF NoBooking
    <3>2. newStatus = [status EXCEPT ![b] = "active"] /\ newAt = [at EXCEPT ![b] = T]
      BY <1>1, <1>7, <1>6, <2>2
    <3> QED BY <1>2, <1>3, <1>4, <1>7, <2>1, <2>3, <3>1, <3>2
            DEF Slots!Seat, Checked, SlotKinds
  <2> QED BY <2>4 DEF Slots!Next
<1>8. CASE k \in {"approveChange"} \cup Transfers
  <2>1. Placed(p, [status |-> "active", tables |-> T]) /\ blocked' = blocked
    BY <1>8 DEF Effect, Transfers
  <2>2. /\ row'[b] = [status |-> "active", tables |-> T] /\ b \in Booking
        /\ \A a \in Booking : a # b => row'[a] = row[a]
    BY <1>1, <1>5, <1>8, <2>1 DEF Transfers
  <2>3. PICK t \in Table : T = {t}
    BY <1>1, <1>8, OneDestination
  <2>4. Slots!Move(b, t)
    <3>1. Slots!Active(b) /\ row[b].status = "active"
      BY <1>2, <1>8, <2>2 DEF Slots!Active, Active
    <3>2. newStatus = status
      BY <2>2, <3>1
    <3>3. newAt = [at EXCEPT ![b] = {t}]
      BY <1>6, <2>2, <2>3
    <3>4. ~Slots!Taken({t})
      BY <1>3, <1>4, <1>8, <2>3 DEF Checked, SlotKinds, RowKinds
    <3> QED BY <2>1, <3>1, <3>2, <3>3, <3>4 DEF Slots!Move
  <2> QED BY <2>2, <2>4, Zenon DEF Slots!Next
<1>9. CASE k = "close"
  <2>1. row' = [row EXCEPT ![b].status = "closed"] /\ UNCHANGED <<pending, blocked, origin>>
    BY <1>9 DEF Effect
  <2>2. b \in Booking /\ row[b].status = "active"
    BY <1>1, <1>2, <1>9 DEF Active
  <2>3. PICK c \in Booking : c = b
    BY <2>2
  <2>4. Slots!Close(c)
    <3>1. /\ row'[b].status = "closed" /\ row'[b].tables = row[b].tables
          /\ \A a \in Booking : a # b => row'[a] = row[a]
      BY <2>1, <2>2 DEF Typed
    <3>2. newStatus = [status EXCEPT ![b] = "closed"]
      BY <1>6, <2>2, <3>1
    <3>3. newAt = at
      BY <2>2, <3>1
    <3> QED BY <2>1, <2>2, <2>3, <3>2, <3>3 DEF Slots!Close, Slots!Active
  <2> QED BY <2>4 DEF Slots!Next
<1>10. CASE k = "block"
  <2>1. blocked' = blocked \cup T /\ row' = row
    BY <1>10 DEF Effect
  <2>2. Slots!Block(T)
    BY <1>3, <1>4, <1>10, <2>1 DEF Slots!Block, Checked, SlotKinds
  <2> QED BY <1>1, <2>2, Zenon DEF Slots!Next
<1>11. CASE k = "rejectChange"
  <2>1. row' = row /\ blocked' = blocked
    BY <1>11 DEF Effect, StaleSave
  <2> QED BY <2>1 DEF Slots!slots
<1>12. CASE k \in {"askChange", "transition", "approveTime"}
  <2>1. row' = row /\ blocked' = blocked
    BY <1>12 DEF Effect
  <2> QED BY <2>1 DEF Slots!slots
<1> QED BY <1>1, <1>7, <1>8, <1>9, <1>10, <1>11, <1>12 DEF AllKinds, Transfers

\* Whatever the requests and the order of their statements, each takes effect
\* as one step of AtomicSlots, but for the rejection of a table change that
\* saves what it read before, and for tables that such a rejection, or an
\* approval while a block is planned, has crossed.
THEOREM RequestsAreAtomic == Spec => PlacedAtomically
<1>1. Init => Slots!Init
  BY DEF Init, Slots!Init, NoBooking
<1>2. LocksInv /\ [Next]_vars =>
        [Slots!Next \/ \E p \in Handler : StaleSave(p) \/ Crossed(p)]_Slots!slots
  <2> SUFFICES ASSUME LocksInv, [Next]_vars, ~ UNCHANGED Slots!slots
               PROVE  Slots!Next \/ \E p \in Handler : StaleSave(p) \/ Crossed(p)
    OBVIOUS
  <2>1. ~(row' = row /\ blocked' = blocked)
    BY DEF Slots!slots
  <2>2. PICK p \in Handler : Commit(p)
    BY <2>1
       DEF vars, Next, Step, Arrive, Connect, Acquire, PassOn, Victim, Read, Verify, Refuse,
           Compare, LogWithin, Log, Fail, Advance
  <2>3. Busy(p) /\ Phase(p) = "commit" /\ Effect(p)
    BY <2>2, WhereSteps DEF Commit
  <2> QED BY <2>3, CommitIsAtomic DEF LocksInv
<1> QED BY <1>1, <1>2, LocksInvHolds, PTL DEF Spec, PlacedAtomically

\* A step of AtomicSlots gives no table to two active bookings.
LEMMA AtomicKeepsOneEach == Slots!OneEach /\ [Slots!Next]_Slots!slots => Slots!OneEach'
<1> DEFINE status == [a \in Booking |-> row[a].status]
           at == [a \in Booking |-> row[a].tables]
           newStatus == [a \in Booking |-> row'[a].status]
           newAt == [a \in Booking |-> row'[a].tables]
           Gives(b, T) == /\ \A a \in Booking : status[a] = "active" => at[a] \cap T = {}
                          /\ \A a \in Booking \ {b} : newStatus[a] = status[a] /\ newAt[a] = at[a]
                          /\ newAt[b] = T
<1> SUFFICES ASSUME Slots!OneEach, [Slots!Next]_Slots!slots PROVE Slots!OneEach'
  OBVIOUS
<1> SUFFICES ASSUME NEW a \in Booking, NEW b \in Booking, a # b,
                    newStatus[a] = "active", newStatus[b] = "active"
             PROVE  newAt[a] \cap newAt[b] = {}
  BY DEF Slots!OneEach, Slots!Active
<1>1. status[a] = "active" /\ status[b] = "active" => at[a] \cap at[b] = {}
  BY DEF Slots!OneEach, Slots!Active
<1>2. ASSUME NEW c \in Booking, NEW T, Gives(c, T)
      PROVE  newAt[a] \cap newAt[b] = {}
  <2> HIDE DEF status, at, newStatus, newAt
  <2> QED BY <1>1, <1>2
<1>3. ASSUME NEW c \in Booking, NEW T \in SUBSET Table, Slots!Seat(c, T)
      PROVE  newAt[a] \cap newAt[b] = {}
  <2>1. Gives(c, T)
    BY <1>3 DEF Slots!Seat, Slots!Taken, Slots!Active
  <2> QED BY <1>2, <2>1
<1>4. ASSUME NEW c \in Booking, NEW t \in Table, Slots!Move(c, t)
      PROVE  newAt[a] \cap newAt[b] = {}
  <2>1. Gives(c, {t})
    BY <1>4 DEF Slots!Move, Slots!Taken, Slots!Active
  <2> QED BY <1>2, <2>1
<1>5. ASSUME NEW c \in Booking, Slots!Close(c)
      PROVE  newAt[a] \cap newAt[b] = {}
  <2>1. newStatus = [status EXCEPT ![c] = "closed"] /\ newAt = at
    BY <1>5 DEF Slots!Close
  <2>2. \A d \in Booking : newStatus[d] = "active" => status[d] = "active"
    BY <2>1
  <2> HIDE DEF status, at, newStatus, newAt
  <2> QED BY <1>1, <2>1, <2>2
<1>6. CASE (\E T \in SUBSET Table : Slots!Block(T)) \/ UNCHANGED Slots!slots
  <2>1. newStatus = status /\ newAt = at
    BY <1>6 DEF Slots!Block, Slots!slots
  <2> HIDE DEF status, at, newStatus, newAt
  <2> QED BY <1>1, <2>1
<1> QED BY <1>3, <1>4, <1>5, <1>6 DEF Slots!Next

\* What the atomic steps promise: no table is given to two active bookings.
THEOREM AtomicGivesOnce == Slots!Spec => []Slots!OneEach
<1>1. Slots!Init => Slots!OneEach
  BY DEF Slots!Init, Slots!OneEach, Slots!Active
<1> QED BY <1>1, AtomicKeepsOneEach, PTL DEF Slots!Spec

\* No table is given to two active bookings, whatever is asked for at the same time and
\* however it interleaves, unless the rejection of a table change has put one of them there.
THEOREM TablesAreGivenOnce == Spec => []GivenOnce
<1>1. Init => GivenOnce
  BY DEF Init, GivenOnce, Active, NoBooking
<1>2. LocksInv /\ GivenOnce /\ [Next]_vars => GivenOnce'
  <2> SUFFICES ASSUME LocksInv, GivenOnce, [Next]_vars PROVE GivenOnce'
    OBVIOUS
  <2>1. CASE row' = row /\ origin' = origin
    BY <2>1 DEF GivenOnce, Active
  <2>2. ASSUME NEW p \in Handler, Commit(p) PROVE GivenOnce'
    <3>1. Busy(p) /\ Phase(p) = "commit" /\ Effect(p) /\ Typed /\ Guard(p)
      BY <2>2, WhereSteps DEF Commit, LocksInv, Guarded
    <3>2. /\ job[p].kind \in RowKinds => Clear(p)
          /\ job[p].kind = "close" => Active(About(p))
      BY <3>1, AtCommit DEF Checked
    <3>3. \A c \in Booking : c # About(p) => row'[c] = row[c] /\ origin'[c] = origin[c]
      BY <3>1, WrittenAtCommit
    <3>4. ASSUME NEW a \in Booking, NEW b \in Booking, a # b,
                 row'[a].status = "active", row'[b].status = "active",
                 row'[a].tables \cap row'[b].tables # {}, b # About(p)
          PROVE  "rejectChange" \in {origin'[a], origin'[b]}
      <4>1. row'[b] = row[b] /\ origin'[b] = origin[b]
        BY <3>3, <3>4
      <4>2. CASE row'[a] = row[a] /\ origin'[a] = origin[a]
        BY <3>4, <4>1, <4>2 DEF GivenOnce, Active
      <4>3. CASE ~(row'[a] = row[a] /\ origin'[a] = origin[a])
        <5>1. a = About(p)
          BY <3>3, <4>3
        <5>2. \/ /\ job[p].kind \in RowKinds
                 /\ row'[a] = [status |-> "active", tables |-> job[p].to]
              \/ origin'[a] = "rejectChange"
          BY <3>1, <3>4, <4>3, <5>1, WrittenAtCommit
        <5>3. CASE job[p].kind \in RowKinds /\ row'[a].tables = job[p].to
          <6>1. Active(b) /\ row[b].tables \cap job[p].to # {}
            BY <3>4, <4>1, <5>3 DEF Active
          <6>2. origin[b] \in Exempt(job[p].kind) /\ job[p].kind # "block"
            BY <3>2, <5>3, <6>1 DEF Clear, RowKinds, Transfers
          <6> QED BY <4>1, <6>2 DEF Exempt
        <5> QED BY <5>2, <5>3
      <4> QED BY <4>2, <4>3
    <3> SUFFICES ASSUME NEW a \in Booking, NEW b \in Booking, a # b,
                        row'[a].status = "active", row'[b].status = "active",
                        row'[a].tables \cap row'[b].tables # {}
                 PROVE  "rejectChange" \in {origin'[a], origin'[b]}
      BY DEF GivenOnce, Active
    <3>5. CASE b # About(p)
      BY <3>4, <3>5
    <3>6. CASE a # About(p)
      BY <3>4, <3>6
    <3> QED BY <3>5, <3>6
  <2> QED BY <2>1, <2>2
          DEF vars, Next, Step, Arrive, Connect, Acquire, PassOn, Victim, Read, Verify, Refuse,
              Compare, LogWithin, Log, Fail, Advance
<1> QED BY <1>1, <1>2, LocksInvHolds, PTL DEF Spec

\* A closed booking is active again in one case only, among all the requests: the rejection
\* of a table change writes back the booking that it had read before.
THEOREM ClosedForGood == Spec => ClosedStaysClosed
<1>1. LocksInv /\ [Next]_vars =>
        [\A b \in Booking :
           row[b].status = "closed" => row'[b].status = "closed" \/ SavedLate(b)]_vars
  <2> SUFFICES ASSUME LocksInv, [Next]_vars, NEW b \in Booking, row[b].status = "closed"
               PROVE  row'[b].status = "closed" \/ SavedLate(b)
    OBVIOUS
  <2>1. CASE row' = row
    BY <2>1
  <2>2. ASSUME NEW p \in Handler, Commit(p)
        PROVE  row'[b].status = "closed" \/ SavedLate(b)
    <3>1. Busy(p) /\ Phase(p) = "commit" /\ Effect(p) /\ Typed /\ Guard(p)
      BY <2>2, WhereSteps DEF Commit, LocksInv, Guarded
    <3>2. CASE b = About(p) /\ job[p].kind = "rejectChange"
      <4>1. CASE dirty[p]
        <5>1. Placed(p, seen[p])
          BY <3>2, <4>1, <3>1 DEF Effect
        <5>2. row'[b] = seen[p]
          BY <3>1, <3>2, <5>1 DEF Placed, About, Typed
        <5>3. StaleSave(p) /\ job[p].booking = b
          BY <3>1, <3>2, <4>1 DEF StaleSave, About
        <5> QED BY <5>2, <5>3 DEF SavedLate
      <4>2. CASE ~dirty[p]
        <5>1. row' = row
          BY <3>1, <3>2, <4>2 DEF Effect
        <5> QED BY <5>1
      <4> QED BY <4>1, <4>2
    <3>3. CASE b = About(p) /\ job[p].kind # "rejectChange"
      <4>1. job[p].kind \notin RowKinds
        BY <3>1, <3>3, AtCommit DEF RowKinds, Transfers, Active, NoBooking
      <4> QED BY <3>1, <3>3, <4>1, WrittenAtCommit
    <3>4. CASE b # About(p)
      BY <3>1, <3>4, WrittenAtCommit
    <3> QED BY <3>2, <3>3, <3>4
  <2>3. row' = row \/ \E p \in Handler : Commit(p)
    BY DEF vars, Next, Step, Arrive, Connect, Acquire, PassOn, Victim, Read, Verify, Refuse,
           Compare, LogWithin, Log, Fail, Advance
  <2> QED BY <2>1, <2>2, <2>3
<1> QED BY <1>1, LocksInvHolds, PTL DEF Spec, ClosedStaysClosed
-----------------------------------------------------------------------------
(* Requests that wait for one another *)

\* What a request waits for, and what it has.
LEMMA AwaitedLock ==
  ASSUME Typed, HoldsInOrder, NEW p \in Handler, AwaitsLock(p)
  PROVE  /\ Busy(p) /\ AtLock(p)
         /\ \E l \in Lock, q \in Handler, s \in Session :
              /\ holder[l] = <<q, s>> /\ <<q, s>> \in Blockers(p)
              /\ Phase(p) \in OnRows <=> l[1] \notin {"slot", "transfer"}
<1>1. PICK l \in Wanted(p) : AtLock(p) /\ holder[l] # NoOwner
  BY DEF AwaitsLock
<1>2. Busy(p)
  BY <1>1, WhereSteps
<1>3. l \in Needs(p, Phase(p)) /\ l \in Lock
  BY <1>1, <1>2, Needed DEF Wanted, Missing
<1>4. Phase(p) \in OnRows <=> l[1] \notin {"slot", "transfer"}
  BY <1>1, <1>2, <1>3, Needed DEF AtLock, OnSlots, OnRows
<1>5. holder[l] \in Owner /\ holder[l] \in Blockers(p)
  BY <1>1, <1>3 DEF Typed, Blockers
<1>6. PICK q \in Handler, s \in Session : holder[l] = <<q, s>>
  BY <1>5 DEF Owner
<1> QED BY <1>1, <1>2, <1>3, <1>4, <1>5, <1>6

\* A request that waits for a lock, and has another, waits with the session
\* that has it, or has locked a booking before a slot.
LEMMA SameSession ==
  ASSUME Typed, Guarded, HoldsInOrder, NEW q \in Handler, AwaitsLock(q), ~SlotAfterRow(q),
         NEW l \in Lock, NEW s \in Session, holder[l] = <<q, s>>
  PROVE  /\ l[1] \notin {"slot", "transfer"} => Phase(q) \in OnRows /\ SessionOf(q) = <<q, s>>
         /\ Phase(q) \notin OnRows => SessionOf(q) = <<q, s>>
<1>1. AtLock(q) /\ Busy(q) /\ InOrder(l, q)
  BY AwaitedLock DEF HoldsInOrder
<1>2. /\ \A x : Passed(q, x) <=> Before(PlanOf(job[q].kind), pc[q], x)
      /\ Phase(q) \in OfSession => job[q].kind \in SlotKinds /\ ~Passed(q, "begin")
      /\ Phase(q) \in {"txSlots", "newSlots"} => job[q].kind \notin SlotKinds
      /\ Phase(q) = "txSlots" => \A x \in OnRows : ~Passed(q, x)
      /\ Phase(q) = "newSlots" => Passed(q, "row")
  BY <1>1, Course DEF SlotsFirst
<1>3. CASE s = "runner"
  <2>1. job[q].kind \in SlotKinds /\ l[1] \in {"slot", "transfer"}
    BY <1>1, <1>3 DEF InOrder
  <2>2. Phase(q) \in OfSession \cup OnRows
    BY <1>1, <1>2, <2>1 DEF AtLock, OnSlots, OfSession
  <2> QED BY <1>3, <2>1, <2>2 DEF SessionOf
<1>4. CASE s = "tx"
  <2>1. Placing(q) /\ Passed(q, "begin")
        /\ (l[1] # "slot" => \E x \in OnRows : Passed(q, x) \/ Phase(q) = x)
        /\ l[1] # "transfer"
    BY <1>1, <1>4 DEF InOrder
  <2>2. Phase(q) \in {"txSlots", "newSlots"} \cup OnRows /\ Phase(q) \notin OfSession
    BY <1>1, <1>2, <2>1 DEF AtLock, OnSlots, OfSession
  <2>3. Phase(q) # "newSlots"
    <3> SUFFICES ASSUME Phase(q) = "newSlots" PROVE FALSE
      OBVIOUS
    <3>1. holder[RowOf(About(q))] = <<q, "tx">>
      BY <1>2, <2>1 DEF Guarded, Guard, HasRow
    <3>2. About(q) \in Booking
      BY <1>1, <1>2, Course, BlockHasNoRow
    <3> QED BY <3>1, <3>2 DEF SlotAfterRow
  <2>4. l[1] # "slot" => Phase(q) \in OnRows
    BY <1>2, <2>1, <2>2, <2>3 DEF OnRows
  <2> QED BY <1>4, <2>1, <2>2, <2>4 DEF SessionOf
<1> QED BY <1>3, <1>4 DEF Session

\* The slot that is asked for after the row is one of a table the booking was moved to.
LEMMA MovedBeforeWaiting ==
  ASSUME Typed, NEW p \in Handler, SlotAfterRow(p)
  PROVE  MovedMeanwhile(p)
<1>1. Phase(p) = "newSlots" /\ AwaitsLock(p) /\ Busy(p)
  BY DEF SlotAfterRow, Phase
<1>2. job[p].kind = "approveTime"
  BY <1>1, Course DEF SlotsFirst
<1>3. PICK l \in Needs(p, "newSlots") : TRUE
  BY <1>1 DEF AwaitsLock, Wanted, Missing
<1>4. Tables(job[p], seen[p], row[job[p].booking], "newSlots")
         = Primary(row[job[p].booking]) \ Primary(seen[p])
  BY <1>2 DEF Tables
<1>5. \E t \in Tables(job[p], seen[p], row[job[p].booking], "newSlots") : l = Slot(t)
  BY <1>3 DEF Needs, OnSlots
<1>6. Primary(row[job[p].booking]) \ Primary(seen[p]) # {}
  BY <1>4, <1>5
<1> QED BY <1>2, <1>6 DEF MovedMeanwhile

\* Rows are locked last: the requests that wait for one form a cycle of their
\* own; if there is none, all wait for advisory locks with their sessions.
THEOREM RequestsHangKnowingly == Spec => []HangsAreKnown
<1>1. LocksInv => HangsAreKnown
  <2> SUFFICES ASSUME LocksInv, NEW H \in SUBSET Waiting, Hung(H),
                      \A p \in H : ~AwaitsConnection(p) /\ ~MovedMeanwhile(p)
               PROVE  FALSE
    BY DEF HangsAreKnown
  <2>1. Typed /\ Guarded /\ HoldsInOrder
    BY DEF LocksInv
  <2>2. \A p \in H : p \in Handler /\ AwaitsLock(p) /\ ~SlotAfterRow(p)
    BY <2>1, MovedBeforeWaiting DEF Waiting
  <2>3. ASSUME NEW p \in H
        PROVE  \E q \in H : /\ SessionOf(q) \in Blockers(p) \/ (Phase(p) \notin OnRows /\ Phase(q) \in OnRows)
                            /\ Phase(p) \in OnRows => Phase(q) \in OnRows
    <3>1. PICK l \in Lock, q \in Handler, s \in Session :
             /\ holder[l] = <<q, s>> /\ <<q, s>> \in Blockers(p)
             /\ Phase(p) \in OnRows <=> l[1] \notin {"slot", "transfer"}
      BY <2>1, <2>2, AwaitedLock
    <3>2. q \in H
      BY <2>2, <3>1 DEF Hung, Awaits
    <3>3. /\ l[1] \notin {"slot", "transfer"} => Phase(q) \in OnRows /\ SessionOf(q) = <<q, s>>
          /\ Phase(q) \notin OnRows => SessionOf(q) = <<q, s>>
      BY <2>1, <2>2, <3>1, <3>2, SameSession
    <3> QED BY <3>1, <3>2, <3>3
  <2> DEFINE D == {p \in H : Phase(p) \in OnRows}
  <2>4. CASE D # {}
    <3>1. \A p \in D : AwaitsLock(p) /\ \E q \in D : SessionOf(q) \in Blockers(p)
      BY <2>2, <2>3
    <3>2. PgCycle(D) /\ D \in SUBSET H
      BY <2>4, <3>1 DEF PgCycle
    <3> QED BY <3>2 DEF Hung
  <2>5. CASE D = {}
    <3>1. \A p \in H : AwaitsLock(p) /\ \E q \in H : SessionOf(q) \in Blockers(p)
      BY <2>2, <2>3, <2>5
    <3>2. PgCycle(H) /\ H \in SUBSET H
      BY <3>1 DEF PgCycle, Hung
    <3> QED BY <3>2 DEF Hung
  <2> QED BY <2>4, <2>5
<1> QED BY <1>1, LocksInvHolds, PTL
-----------------------------------------------------------------------------
(***************************************************************************)
(* The reminders.  A claim takes a reminder that is not marked, and marks  *)
(* it; a mark goes away by the run that has it, undelivered, by a late     *)
(* save, which counts as undone, and at midnight, when no run is at work.  *)
(* So there is at most one run more than was undone, and none beside what  *)
(* was undone where there is no mark.                                      *)
(***************************************************************************)
USE RestaurantAssumption

\* The runs at one of these phases with the reminder k.
At(phases, k) == {r \in Run : runs[r].phase \in phases /\ runs[r].kind = k}
Sending(k) == Cardinality(At({"deliver"}, k))
Working(k) == Cardinality(At({"deliver", "release"}, k))

\* No mark is of a day to come, neither of the row nor of a copy.
MarksArePast(today) ==
    \A k \in ReminderKind :
        /\ restaurant[MarkOf(k)] <= today
        /\ \A h \in Editor : changes[h].copy[MarkOf(k)] <= today

\* Runs have their reminder of today while they are at work.
WorkIsOfToday(today) ==
    \A r \in Run : runs[r].phase \notin {"idle", "late", "check"} => runs[r].day = today

\* What has happened to the reminder k of today: n runs send it, m are at work.
Bounded(note, marked, n, m) ==
    /\ note.sent + n <= IF marked THEN 1 + note.undone ELSE note.undone
    /\ note.undone = 0 => note.sent + m <= IF marked THEN 1 ELSE 0

CountedToday(today) ==
    \A k \in ReminderKind :
        Bounded(reminded[k][today], restaurant[MarkOf(k)] = today, Sending(k), Working(k))

\* The reminders of other days.
CountedElse(today) ==
    \A k \in ReminderKind : \A d \in Day :
        /\ d < today => reminded[k][d].sent <= 1 + reminded[k][d].undone
        /\ d > today => reminded[k][d].sent = 0 /\ reminded[k][d].undone = 0

MarksAreTrue ==
    \A k \in ReminderKind : \A d \in Day :
        restaurant[MarkOf(k)] = d =>
            \/ reminded[k][d].sent > 0 \/ reminded[k][d].excused
            \/ \E r \in Run : IsReminding(r, k, d)

RestaurantInv ==
    /\ RestaurantTypeOK /\ MarksArePast(Today) /\ WorkIsOfToday(Today)
    /\ CountedToday(Today) /\ CountedElse(Today) /\ MarksAreTrue
-----------------------------------------------------------------------------
(* Rows, days and runs *)

LEMMA Marked ==
  ASSUME NEW k \in ReminderKind
  PROVE  /\ MarkOf(k) \in Column /\ TimeOf(k) \in Column
         /\ \A x \in Row : x[MarkOf(k)] \in Day \cup {None} /\ x[TimeOf(k)] \in Times
BY DEF ReminderKind, MarkOf, TimeOf, Column, NewRow, Row

\* What has its columns from two rows is a row.
LEMMA ColumnsMakeRow ==
  ASSUME NEW x, x = [c \in Column |-> x[c]], NEW a \in Row, NEW b \in Row,
         \A c \in Column : x[c] \in {a[c], b[c]}
  PROVE  x \in Row
<1>1. x = [adminCanManageOnlineBooking |-> x["adminCanManageOnlineBooking"],
           adminCanManageRestaurant |-> x["adminCanManageRestaurant"],
           adminCanChangeSiteMode |-> x["adminCanChangeSiteMode"],
           adminCanEditRestaurantSettings |-> x["adminCanEditRestaurantSettings"],
           hookahCallsAvailable |-> x["hookahCallsAvailable"], siteMode |-> x["siteMode"],
           texts |-> x["texts"], status |-> x["status"],
           bookingCloseTime |-> x["bookingCloseTime"],
           bookingCloseNotifiedAt |-> x["bookingCloseNotifiedAt"],
           closeTime |-> x["closeTime"],
           restaurantCloseNotifiedAt |-> x["restaurantCloseNotifiedAt"]]
  BY DEF Column, NewRow
<1>2. \A c \in {"adminCanManageOnlineBooking", "adminCanManageRestaurant",
                "adminCanChangeSiteMode", "adminCanEditRestaurantSettings",
                "hookahCallsAvailable", "siteMode", "texts", "status", "bookingCloseTime",
                "bookingCloseNotifiedAt", "closeTime", "restaurantCloseNotifiedAt"} :
        x[c] \in {a[c], b[c]}
  BY DEF Column, NewRow
<1> QED BY <1>1, <1>2 DEF Row

LEMMA RowColumns ==
  ASSUME NEW x \in Row
  PROVE  x = [c \in Column |-> x[c]]
BY DEF Row, Column, NewRow

\* A mark is set or taken away.
LEMMA MarkedRow ==
  ASSUME NEW x \in Row, NEW k \in ReminderKind, NEW d \in Day \cup {None}
  PROVE  LET y == [x EXCEPT ![MarkOf(k)] = d]
         IN  /\ y \in Row /\ y[MarkOf(k)] = d
             /\ \A j \in ReminderKind \ {k} : y[MarkOf(j)] = x[MarkOf(j)]
<1>1. CASE k = "booking"
  BY <1>1 DEF Row, MarkOf, ReminderKind
<1>2. CASE k = "restaurant"
  BY <1>2 DEF Row, MarkOf, ReminderKind
<1> QED BY <1>1, <1>2 DEF ReminderKind

\* What happens to a reminder changes one part of what is known of it.
LEMMA NoteChanges ==
  ASSUME NEW note \in Note, NEW n \in Nat
  PROVE  /\ LET y == [note EXCEPT !.sent = n]
             IN  y \in Note /\ y.sent = n /\ y.undone = note.undone /\ y.excused = note.excused
         /\ LET y == [note EXCEPT !.undone = n]
             IN  y \in Note /\ y.undone = n /\ y.sent = note.sent /\ y.excused = note.excused
         /\ LET y == [note EXCEPT !.excused = TRUE]
             IN  y \in Note /\ y.sent = note.sent /\ y.undone = note.undone /\ y.excused
BY DEF Note

\* The clock.
LEMMA DayOfMinute ==
  ASSUME NEW m \in Nat, m < LastDay * DayLen
  PROVE  m \div DayLen + 1 \in Day
BY DEF Day

LEMMA NextMinute ==
  ASSUME NEW m \in Nat, m + 1 < LastDay * DayLen
  PROVE  (m + 1) \div DayLen = IF (m + 1) % DayLen = 0 THEN m \div DayLen + 1
                               ELSE m \div DayLen
OBVIOUS

\* One more run, or one less, at the phases in question.
LEMMA RunMoves ==
  ASSUME runs \in [Run -> RunState], NEW r \in Run, NEW s \in RunState,
         runs' = [runs EXCEPT ![r] = s], NEW phases, NEW k
  PROVE  LET was == runs[r].phase \in phases /\ runs[r].kind = k
             is == s.phase \in phases /\ s.kind = k
         IN  /\ Cardinality(At(phases, k)) \in Nat
             /\ Cardinality(At(phases, k))' =
                  IF was /\ ~is THEN Cardinality(At(phases, k)) - 1
                  ELSE IF is /\ ~was THEN Cardinality(At(phases, k)) + 1
                  ELSE Cardinality(At(phases, k))
             /\ was => Cardinality(At(phases, k)) > 0
<1> DEFINE was == runs[r].phase \in phases /\ runs[r].kind = k
           is == s.phase \in phases /\ s.kind = k
           before == At(phases, k)
           after == {q \in Run : runs'[q].phase \in phases /\ runs'[q].kind = k}
<1>1. IsFiniteSet(before) /\ IsFiniteSet(after)
  BY FS_Subset DEF At
<1>2. Cardinality(At(phases, k))' = Cardinality(after)
  BY DEF At
<1>3. r \in before <=> was
  BY DEF At
<1>4. after = IF is THEN before \cup {r} ELSE before \ {r}
  BY DEF At
<1>5. Cardinality(before) \in Nat
  BY <1>1, FS_CardinalityType
<1>6. was => Cardinality(before) > 0
  BY <1>1, <1>3, <1>5, FS_EmptySet
<1> HIDE DEF before, after, was, is
<1>7. /\ Cardinality(before) \in Nat
      /\ Cardinality(after) =
           IF was /\ ~is THEN Cardinality(before) - 1
           ELSE IF is /\ ~was THEN Cardinality(before) + 1
           ELSE Cardinality(before)
      /\ was => Cardinality(before) > 0
  <2>1. CASE is
    BY <1>1, <1>3, <1>4, <1>5, <1>6, <2>1, FS_AddElement
  <2>2. CASE ~is
    BY <1>1, <1>3, <1>4, <1>5, <1>6, <2>2, FS_RemoveElement
  <2> QED BY <2>1, <2>2
<1> QED BY <1>2, <1>7 DEF before, after, was, is

\* The runs at work are those that send and others.
LEMMA SendersWork ==
  ASSUME NEW k
  PROVE  Sending(k) \in Nat /\ Working(k) \in Nat /\ Sending(k) <= Working(k)
<1>1. IsFiniteSet(At({"deliver", "release"}, k)) /\ IsFiniteSet(At({"deliver"}, k))
  BY FS_Subset DEF At
<1>2. At({"deliver"}, k) \in SUBSET At({"deliver", "release"}, k)
  BY DEF At
<1> QED BY <1>1, <1>2, FS_Subset, FS_CardinalityType DEF Sending, Working

LEMMA TodayIsADay ==
  ASSUME RestaurantTypeOK
  PROVE  minutes \in Nat /\ minutes < LastDay * DayLen /\ Today \in Day
<1>1. LastDay * DayLen \in Nat
  OBVIOUS
<1>2. minutes \in 0 .. LastDay * DayLen - 1
  BY DEF RestaurantTypeOK
<1>3. minutes \in Nat /\ minutes < LastDay * DayLen
  BY <1>1, <1>2
<1> QED BY <1>3, DayOfMinute DEF Today

LEMMA NothingYet ==
  ASSUME \A r \in Run : runs[r].phase \notin {"deliver", "release"}, NEW k
  PROVE  Sending(k) = 0 /\ Working(k) = 0
<1>1. At({"deliver"}, k) = {} /\ At({"deliver", "release"}, k) = {}
  BY DEF At
<1> QED BY <1>1, FS_EmptySet DEF Sending, Working

LEMMA NewRows ==
  /\ NewRow \in Row /\ AllGiven \in Row
  /\ \A k \in ReminderKind : NewRow[MarkOf(k)] = None /\ AllGiven[MarkOf(k)] = None
<1>1. (CHOOSE t \in Times : \A u \in Times : u <= t) \in Times
  BY FormsAssumption
<1>2. NewRow \in Row /\ AllGiven \in Row
  BY <1>1 DEF NewRow, AllGiven, Row, Status, None
<1>3. NewRow["bookingCloseNotifiedAt"] = None /\ NewRow["restaurantCloseNotifiedAt"] = None
  BY DEF NewRow
<1>4. /\ AllGiven["bookingCloseNotifiedAt"] = NewRow["bookingCloseNotifiedAt"]
      /\ AllGiven["restaurantCloseNotifiedAt"] = NewRow["restaurantCloseNotifiedAt"]
  BY <1>2 DEF AllGiven, Row
<1> QED BY <1>2, <1>3, <1>4 DEF MarkOf

-----------------------------------------------------------------------------
(* The invariant holds initially and in every step *)

LEMMA RestaurantBegins == RestaurantInit => RestaurantInv
<1> SUFFICES ASSUME RestaurantInit
             PROVE  RestaurantInv
  OBVIOUS
<1>1. /\ minutes = 0 /\ started = FALSE /\ handled = 0
      /\ changes = [h \in Editor |-> Idle] /\ runs = [r \in Run |-> Resting]
      /\ reminded = [k \in ReminderKind |-> [d \in Day |->
                       [sent |-> 0, undone |-> 0, excused |-> FALSE]]]
      /\ restaurant \in {NewRow, AllGiven}
  BY DEF RestaurantInit
<1>2. Today = 1 /\ 1 \in Day
  BY <1>1 DEF Today, Day
<1>4. NewRow \in Row /\ AllGiven \in Row
  BY NewRows
<1>5. \A k \in ReminderKind : restaurant[MarkOf(k)] = None /\ NewRow[MarkOf(k)] = None
  BY <1>1, NewRows
<1>6. RestaurantTypeOK
  <2>1. Idle \in ChangeState /\ Resting \in RunState
    BY <1>2, <1>4 DEF Idle, ChangeState, Resting, RunState, ReminderKind
  <2>2. 0 \in 0 .. LastDay * DayLen - 1
    <3>1. LastDay * DayLen >= 1
      OBVIOUS
    <3> QED BY <3>1
  <2>3. reminded \in [ReminderKind -> [Day -> Note]]
    <3> DEFINE new == [sent |-> 0, undone |-> 0, excused |-> FALSE]
    <3>1. new \in Note
      BY DEF Note
    <3> HIDE DEF new
    <3>2. reminded = [k \in ReminderKind |-> [d \in Day |-> new]]
      BY <1>1 DEF new
    <3> QED BY <3>1, <3>2
  <2>4. /\ restaurant \in Row /\ changes \in [Editor -> ChangeState]
        /\ handled \in 0 .. MaxHandled
        /\ runs \in [Run -> RunState] /\ started \in BOOLEAN
    <3>1. changes \in [Editor -> ChangeState] /\ runs \in [Run -> RunState]
      BY <1>1, <2>1
    <3>2. restaurant \in Row /\ handled \in 0 .. MaxHandled
      BY <1>1, <1>4
    <3> QED BY <1>1, <3>1, <3>2
  <2> QED BY <1>1, <2>2, <2>3, <2>4 DEF RestaurantTypeOK
<1>7. MarksArePast(1) /\ WorkIsOfToday(1) /\ MarksAreTrue
  BY <1>1, <1>5 DEF MarksArePast, WorkIsOfToday, MarksAreTrue, Idle, Resting, None, Day
<1>8. \A k \in ReminderKind : Sending(k) = 0 /\ Working(k) = 0
  BY <1>1, NothingYet DEF Resting
<1>9. CountedToday(1) /\ CountedElse(1)
  BY <1>1, <1>2, <1>5, <1>8 DEF CountedToday, CountedElse, Bounded, None
<1> QED BY <1>2, <1>6, <1>7, <1>9 DEF RestaurantInv

\* Steps that leave the row, the runs, the clock and the history alone.
LEMMA OnlyChanges ==
  ASSUME RestaurantInv, UNCHANGED <<restaurant, runs, minutes, reminded>>,
         changes' \in [Editor -> ChangeState], handled' \in 0 .. MaxHandled,
         started' \in BOOLEAN,
         \A k \in ReminderKind : \A h \in Editor : changes'[h].copy[MarkOf(k)] <= Today
  PROVE  RestaurantInv'
<1>1. Today' = Today
  BY DEF Today
<1>2. RestaurantTypeOK'
  BY DEF RestaurantInv, RestaurantTypeOK
<1>3. \A k : Sending(k)' = Sending(k) /\ Working(k)' = Working(k)
  BY DEF Sending, Working, At
<1>4. MarksArePast(Today)' /\ WorkIsOfToday(Today)'
  BY <1>1 DEF RestaurantInv, MarksArePast, WorkIsOfToday
<1>5. CountedToday(Today)' /\ CountedElse(Today)'
  BY <1>1, <1>3 DEF RestaurantInv, CountedToday, CountedElse, Bounded
<1>6. MarksAreTrue'
  BY DEF RestaurantInv, MarksAreTrue, IsReminding
<1> QED BY <1>2, <1>4, <1>5, <1>6 DEF RestaurantInv

\* A handler has read the row and keeps its marks.
LEMMA ReadsStep ==
  ASSUME RestaurantInv, NEW h \in Editor, NEW copy \in Row, Reads(h, copy),
         \A k \in ReminderKind : copy[MarkOf(k)] = restaurant[MarkOf(k)]
  PROVE  RestaurantInv'
<1> DEFINE new == [phase |-> "read", copy |-> copy, changed |-> {}]
<1>1. /\ handled < MaxHandled /\ handled' = handled + 1 /\ UNCHANGED started
      /\ UNCHANGED <<restaurant, runs, minutes, reminded>>
      /\ changes' = [changes EXCEPT ![h] = new]
  BY DEF Reads
<1>2. new \in ChangeState /\ new.copy = copy
  BY DEF ChangeState
<1> HIDE DEF new
<1>3. /\ changes \in [Editor -> ChangeState] /\ handled \in 0 .. MaxHandled
      /\ started \in BOOLEAN
  BY DEF RestaurantInv, RestaurantTypeOK
<1>4. \A k \in ReminderKind : \A o \in Editor : changes'[o].copy[MarkOf(k)] <= Today
  BY <1>1, <1>2, <1>3 DEF RestaurantInv, MarksArePast
<1>5. handled' \in 0 .. MaxHandled
  BY <1>1, <1>3
<1> QED BY <1>1, <1>2, <1>3, <1>4, <1>5, OnlyChanges

\* A setting has another value, and the marks are the same.
LEMMA Settings ==
  ASSUME NEW x \in Row
  PROVE  /\ \A s \in Status : LET y == [x EXCEPT !["status"] = s]
              IN  y \in Row /\ \A k \in ReminderKind : y[MarkOf(k)] = x[MarkOf(k)]
         /\ \A c \in {"siteMode", "texts", "hookahCallsAvailable"}, b \in BOOLEAN :
              LET y == [x EXCEPT ![c] = b]
              IN  y \in Row /\ \A k \in ReminderKind : y[MarkOf(k)] = x[MarkOf(k)]
<1>1. ASSUME NEW s \in Status
      PROVE  LET y == [x EXCEPT !["status"] = s]
             IN  y \in Row /\ \A k \in ReminderKind : y[MarkOf(k)] = x[MarkOf(k)]
  BY DEF Row, MarkOf
<1>2. ASSUME NEW c \in {"siteMode", "texts", "hookahCallsAvailable"}, NEW b \in BOOLEAN
      PROVE  LET y == [x EXCEPT ![c] = b]
             IN  y \in Row /\ \A k \in ReminderKind : y[MarkOf(k)] = x[MarkOf(k)]
  <2>1. CASE c = "siteMode"
    BY <2>1 DEF Row, MarkOf
  <2>2. CASE c = "texts"
    BY <2>2 DEF Row, MarkOf
  <2>3. CASE c = "hookahCallsAvailable"
    BY <2>3 DEF Row, MarkOf
  <2> QED BY <2>1, <2>2, <2>3
<1> QED BY <1>1, <1>2

LEMMA Negated ==
  ASSUME NEW b
  PROVE  (~b) \in BOOLEAN
OBVIOUS

LEMMA FormIsRow ==
  ASSUME NEW x \in Row, NEW F \in Forms
  PROVE  LET y == [c \in Column |-> IF c \in F THEN Other(c, x[c]) ELSE x[c]]
         IN  y \in Row /\ \A k \in ReminderKind : y[MarkOf(k)] = x[MarkOf(k)]
<1> DEFINE other == [c \in Column |-> Other(c, x[c])]
           all == [adminCanManageOnlineBooking |-> other["adminCanManageOnlineBooking"],
                   adminCanManageRestaurant |-> other["adminCanManageRestaurant"],
                   adminCanChangeSiteMode |-> other["adminCanChangeSiteMode"],
                   adminCanEditRestaurantSettings |-> other["adminCanEditRestaurantSettings"],
                   hookahCallsAvailable |-> other["hookahCallsAvailable"],
                   siteMode |-> other["siteMode"], texts |-> other["texts"],
                   status |-> x["status"],
                   bookingCloseTime |-> other["bookingCloseTime"],
                   bookingCloseNotifiedAt |-> x["bookingCloseNotifiedAt"],
                   closeTime |-> other["closeTime"],
                   restaurantCloseNotifiedAt |-> x["restaurantCloseNotifiedAt"]]
           y == [c \in Column |-> IF c \in F THEN Other(c, x[c]) ELSE x[c]]
<1>1. \A c \in {"bookingCloseTime", "closeTime"} : Other(c, x[c]) \in Times
  <2>1. \A c \in {"bookingCloseTime", "closeTime"} : \E t \in Times : t # x[c]
    BY FormsAssumption
  <2> QED BY <2>1 DEF Other, TimeOf, ReminderKind
<1>2. \A c \in {"adminCanManageOnlineBooking", "adminCanManageRestaurant",
                "adminCanChangeSiteMode", "adminCanEditRestaurantSettings",
                "hookahCallsAvailable", "siteMode", "texts"} : Other(c, x[c]) \in BOOLEAN
  <2>1. ASSUME NEW c \in {"adminCanManageOnlineBooking", "adminCanManageRestaurant",
                "adminCanChangeSiteMode", "adminCanEditRestaurantSettings",
                "hookahCallsAvailable", "siteMode", "texts"}
        PROVE  Other(c, x[c]) = ~x[c]
    BY DEF Other, TimeOf, ReminderKind
  <2> QED BY <2>1, Negated
<1>3. all \in Row
  BY <1>1, <1>2 DEF Row, Column, NewRow
<1>4. /\ F \cap {"status", "bookingCloseNotifiedAt", "restaurantCloseNotifiedAt"} = {}
      /\ \A c \in Column : y[c] = IF c \in F THEN other[c] ELSE x[c]
  BY FormsAssumption
<1>5. \A c \in Column \ {"status", "bookingCloseNotifiedAt", "restaurantCloseNotifiedAt"} :
        all[c] = other[c]
  BY DEF Column, NewRow
<1>6. y = [c \in Column |-> y[c]]
  OBVIOUS
<1> HIDE DEF all, other, y
<1>7. \A c \in Column : y[c] \in {x[c], all[c]}
  BY <1>4, <1>5
<1>8. y \in Row
  BY <1>3, <1>6, <1>7, ColumnsMakeRow
<1>9. \A k \in ReminderKind : y[MarkOf(k)] = x[MarkOf(k)]
  BY <1>4, Marked DEF MarkOf
<1> QED BY <1>8, <1>9 DEF y

LEMMA ChangeStep ==
  ASSUME RestaurantInv, NEW h \in Editor, Change(h)
  PROVE  RestaurantInv'
<1>1. restaurant \in Row
  BY DEF RestaurantInv, RestaurantTypeOK
<1>2. \E copy \in Row : /\ Reads(h, copy)
                        /\ \A k \in ReminderKind : copy[MarkOf(k)] = restaurant[MarkOf(k)]
  <2>1. CASE Update(h)
    <3>1. PICK F \in Forms : Reads(h, [c \in Column |-> IF c \in F
                                THEN Other(c, restaurant[c]) ELSE restaurant[c]])
      BY <2>1, Zenon DEF Update
    <3> QED BY <1>1, <3>1, FormIsRow
  <2>2. ASSUME NEW s \in Status, NEW t \in BOOLEAN,
               NEW copy \in {[restaurant EXCEPT !["status"] = s],
                             [restaurant EXCEPT !["status"] = s, !["texts"] = t]},
               Reads(h, copy)
        PROVE  copy \in Row /\ \A k \in ReminderKind : copy[MarkOf(k)] = restaurant[MarkOf(k)]
    <3> DEFINE opened == [restaurant EXCEPT !["status"] = s]
    <3>1. opened \in Row /\ \A k \in ReminderKind : opened[MarkOf(k)] = restaurant[MarkOf(k)]
      BY <1>1, Settings
    <3>2. [restaurant EXCEPT !["status"] = s, !["texts"] = t] = [opened EXCEPT !["texts"] = t]
      OBVIOUS
    <3>3. copy = opened \/ copy = [opened EXCEPT !["texts"] = t]
      BY <3>2
    <3> HIDE DEF opened
    <3>4. LET y == [opened EXCEPT !["texts"] = t]
          IN  y \in Row /\ \A k \in ReminderKind : y[MarkOf(k)] = opened[MarkOf(k)]
      BY <3>1, Settings
    <3> QED BY <3>1, <3>3, <3>4
  <2>3. ASSUME NEW s \in Status,
               (\E c \in WithStatus(s) : Reads(h, c)) \/ (\E c \in WithMessage(s) : Reads(h, c))
        PROVE  \E copy \in Row : /\ Reads(h, copy)
                 /\ \A k \in ReminderKind : copy[MarkOf(k)] = restaurant[MarkOf(k)]
    <3>1. PICK copy \in WithStatus(s) \cup WithMessage(s) : Reads(h, copy)
      BY <2>3, Zenon
    <3>2. PICK t \in BOOLEAN : copy \in {[restaurant EXCEPT !["status"] = s],
                                  [restaurant EXCEPT !["status"] = s, !["texts"] = t]}
      BY <3>1 DEF WithStatus, WithMessage
    <3>3. copy \in Row /\ \A k \in ReminderKind : copy[MarkOf(k)] = restaurant[MarkOf(k)]
      BY <2>2, <3>1, <3>2, Zenon
    <3> QED BY <3>1, <3>3, Zenon
  <2>4. CASE OpenRestaurant(h) \/ CloseBooking(h) \/ CloseRestaurant(h)
             \/ AdminSwitchBooking(h) \/ AdminSwitchRestaurant(h)
    <3>1. \E s \in Status :
            (\E c \in WithStatus(s) : Reads(h, c)) \/ (\E c \in WithMessage(s) : Reads(h, c))
      BY <2>4 DEF OpenRestaurant, CloseBooking, CloseRestaurant, AdminSwitchBooking,
                  AdminSwitchRestaurant, Status
    <3> QED BY <2>3, <3>1, Zenon
  <2>5. CASE UpdateTheme(h) \/ AdminUpdateTheme(h) \/ AdminUpdateSettings(h)
             \/ SetAvailability(h)
    <3>1. PICK c \in {"siteMode", "texts", "hookahCallsAvailable"} :
            Reads(h, [restaurant EXCEPT ![c] = ~restaurant[c]])
      BY <2>5 DEF UpdateTheme, AdminUpdateTheme, AdminUpdateSettings, SetAvailability
    <3>2. (~restaurant[c]) \in BOOLEAN
      BY Negated
    <3> QED BY <1>1, <3>1, <3>2, Settings
  <2> QED BY <2>1, <2>4, <2>5 DEF Change
<1> QED BY <1>2, ReadsStep

LEMMA CompareStep ==
  ASSUME RestaurantInv, NEW h \in Editor, CompareRow(h) \/ ChangeFails(h)
  PROVE  RestaurantInv'
<1>1. /\ changes \in [Editor -> ChangeState] /\ UNCHANGED <<restaurant, runs, minutes, reminded>>
      /\ handled' \in 0 .. MaxHandled /\ started' \in BOOLEAN
  BY DEF RestaurantInv, RestaurantTypeOK, CompareRow, ChangeFails
<1>2. CASE CompareRow(h)
  <2> DEFINE cs == {c \in Column : changes[h].copy[c] # restaurant[c]}
  <2>1. changes' = [changes EXCEPT ![h] =
                      [changes[h] EXCEPT !.phase = "compared", !.changed = cs]]
    BY <1>2 DEF CompareRow
  <2>2. cs \in SUBSET Column
    OBVIOUS
  <2> HIDE DEF cs
  <2> DEFINE was == changes[h]
             compared == [phase |-> "compared", copy |-> was.copy, changed |-> cs]
  <2>4. was \in ChangeState
    BY <1>1
  <2>5. compared \in ChangeState /\ compared.copy = was.copy
    BY <2>2, <2>4 DEF ChangeState
  <2>6. [was EXCEPT !.phase = "compared", !.changed = cs] = compared
    <3> DEFINE moved == [was EXCEPT !.phase = "compared"]
    <3>1. moved = [phase |-> "compared", copy |-> was.copy, changed |-> was.changed]
      BY <2>4 DEF ChangeState
    <3> HIDE DEF moved
    <3>2. [moved EXCEPT !.changed = cs] = compared
      BY <3>1
    <3> QED BY <3>2 DEF moved
  <2>3. /\ changes' \in [Editor -> ChangeState]
        /\ \A o \in Editor : changes'[o].copy = changes[o].copy
    <3> HIDE DEF compared
    <3> QED BY <1>1, <2>1, <2>5, <2>6
  <2> QED BY <1>1, <2>3, OnlyChanges DEF RestaurantInv, MarksArePast
<1>3. CASE ChangeFails(h)
  <2>1. changes' = [changes EXCEPT ![h] = Idle]
    BY <1>3 DEF ChangeFails
  <2>2. Idle \in ChangeState /\ Idle.copy = NewRow
    <3>1. NewRow \in Row
      BY NewRows
    <3> QED BY <3>1 DEF Idle, ChangeState
  <2>3. \A k \in ReminderKind : Idle.copy[MarkOf(k)] <= Today
    BY <2>2, NewRows, TodayIsADay DEF RestaurantInv, Day, None
  <2>4. /\ changes' \in [Editor -> ChangeState]
        /\ \A o \in Editor : changes'[o] \in {changes[o], Idle}
    BY <1>1, <2>1, <2>2
  <2> QED BY <1>1, <2>3, <2>4, OnlyChanges DEF RestaurantInv, MarksArePast
<1> QED BY <1>2, <1>3

\* A save takes marks away, which counts, and puts others back, which is an excuse.
LEMMA SaveStep ==
  ASSUME RestaurantInv, NEW h \in Editor, Save(h)
  PROVE  RestaurantInv'
<1> DEFINE copy == changes[h].copy
           cs == changes[h].changed
<1>1. /\ restaurant' = Written(copy, cs) /\ reminded' = Noted(Written(copy, cs))
      /\ changes' = [changes EXCEPT ![h] = Idle]
      /\ UNCHANGED <<runs, minutes, started, handled>>
  BY DEF Save
<1>2. /\ changes \in [Editor -> ChangeState] /\ copy \in Row /\ restaurant \in Row
      /\ reminded \in [ReminderKind -> [Day -> Note]]
  BY DEF RestaurantInv, RestaurantTypeOK, ChangeState
<1>3. restaurant' \in Row
      /\ \A k \in ReminderKind : restaurant'[MarkOf(k)] \in {copy[MarkOf(k)], restaurant[MarkOf(k)]}
  <2>1. /\ restaurant' = [c \in Column |-> restaurant'[c]]
        /\ \A c \in Column : restaurant'[c] \in {copy[c], restaurant[c]}
    BY <1>1 DEF Written
  <2> QED BY <1>2, <2>1, ColumnsMakeRow, Marked
<1>4. Today' = Today /\ Today \in Day
  BY <1>1, TodayIsADay DEF Today, RestaurantInv
<1>5. Idle \in ChangeState /\ \A k \in ReminderKind : Idle.copy[MarkOf(k)] = None
  BY NewRows DEF Idle, ChangeState
<1>6. \A k \in ReminderKind : \A d \in Day :
        LET was == restaurant[MarkOf(k)] = d
            is == restaurant'[MarkOf(k)] = d
        IN  reminded'[k][d] =
              IF was /\ ~is THEN [reminded[k][d] EXCEPT !.undone = @ + 1]
              ELSE IF ~was /\ is THEN [reminded[k][d] EXCEPT !.excused = TRUE]
              ELSE reminded[k][d]
  BY <1>1 DEF Noted
<1>7. \A k \in ReminderKind : \A d \in Day :
        /\ reminded'[k][d] \in Note
        /\ reminded'[k][d].sent = reminded[k][d].sent
        /\ reminded'[k][d].undone =
             IF restaurant[MarkOf(k)] = d /\ restaurant'[MarkOf(k)] # d
             THEN reminded[k][d].undone + 1 ELSE reminded[k][d].undone
        /\ reminded[k][d].excused => reminded'[k][d].excused
        /\ restaurant[MarkOf(k)] # d /\ restaurant'[MarkOf(k)] = d => reminded'[k][d].excused
  <2> SUFFICES ASSUME NEW k \in ReminderKind, NEW d \in Day
               PROVE  /\ reminded'[k][d] \in Note
                      /\ reminded'[k][d].sent = reminded[k][d].sent
                      /\ reminded'[k][d].undone =
                           IF restaurant[MarkOf(k)] = d /\ restaurant'[MarkOf(k)] # d
                           THEN reminded[k][d].undone + 1 ELSE reminded[k][d].undone
                      /\ reminded[k][d].excused => reminded'[k][d].excused
                      /\ restaurant[MarkOf(k)] # d /\ restaurant'[MarkOf(k)] = d
                           => reminded'[k][d].excused
    OBVIOUS
  <2> DEFINE was == reminded[k][d]
  <2>1. was \in Note
    BY <1>2
  <2>2. reminded'[k][d] =
          IF restaurant[MarkOf(k)] = d /\ ~(restaurant'[MarkOf(k)] = d)
          THEN [was EXCEPT !.undone = was.undone + 1]
          ELSE IF ~(restaurant[MarkOf(k)] = d) /\ restaurant'[MarkOf(k)] = d
          THEN [was EXCEPT !.excused = TRUE] ELSE was
    BY <1>6
  <2> HIDE DEF was
  <2> DEFINE undone == [was EXCEPT !.undone = was.undone + 1]
             excused == [was EXCEPT !.excused = TRUE]
  <2>3. /\ undone \in Note /\ undone.sent = was.sent /\ undone.undone = was.undone + 1
        /\ undone.excused = was.excused
        /\ excused \in Note /\ excused.sent = was.sent /\ excused.undone = was.undone
        /\ excused.excused
    <3>1. was.undone + 1 \in Nat
      BY <2>1 DEF Note
    <3> QED BY <2>1, <3>1, NoteChanges
  <2> HIDE DEF undone, excused
  <2> QED BY <2>1, <2>2, <2>3 DEF was, undone, excused
<1> HIDE DEF copy, cs
<1>8. RestaurantTypeOK'
  <2>1. reminded' \in [ReminderKind -> [Day -> Note]]
    <3>1. reminded' = [k \in ReminderKind |-> [d \in Day |-> reminded'[k][d]]]
      BY <1>1 DEF Noted
    <3> QED BY <1>7, <3>1
  <2>2. changes' \in [Editor -> ChangeState]
    BY <1>1, <1>2, <1>5
  <2> QED BY <1>1, <1>3, <2>1, <2>2 DEF RestaurantTypeOK, RestaurantInv
<1>9. \A k \in ReminderKind : restaurant[MarkOf(k)] <= Today /\ restaurant'[MarkOf(k)] <= Today
  BY <1>3 DEF RestaurantInv, MarksArePast, copy
<1>10. MarksArePast(Today)' /\ WorkIsOfToday(Today)'
  <2>1. \A o \in Editor : changes'[o] \in {changes[o], Idle}
    BY <1>1, <1>2
  <2> QED BY <1>1, <1>4, <1>5, <1>9, <2>1
          DEF RestaurantInv, MarksArePast, WorkIsOfToday, None, Day
<1>11. CountedToday(Today)'
  <2> SUFFICES ASSUME NEW k \in ReminderKind
               PROVE  Bounded(reminded'[k][Today], restaurant'[MarkOf(k)] = Today,
                              Sending(k), Working(k))
    BY <1>1, <1>4 DEF CountedToday, Sending, Working, At
  <2>1. Bounded(reminded[k][Today], restaurant[MarkOf(k)] = Today, Sending(k), Working(k))
    BY DEF RestaurantInv, CountedToday
  <2>2. reminded[k][Today] \in Note /\ Sending(k) \in Nat /\ Working(k) \in Nat
    BY <1>2, <1>4, SendersWork
  <2> QED BY <1>4, <1>7, <2>1, <2>2 DEF Bounded, Note
<1>12. CountedElse(Today)'
  <2> SUFFICES ASSUME NEW k \in ReminderKind, NEW d \in Day
               PROVE  /\ d < Today => reminded'[k][d].sent <= 1 + reminded'[k][d].undone
                      /\ d > Today => reminded'[k][d].sent = 0 /\ reminded'[k][d].undone = 0
    BY <1>4 DEF CountedElse
  <2>1. reminded[k][d] \in Note
    BY <1>2
  <2> QED BY <1>4, <1>7, <1>9, <2>1 DEF RestaurantInv, CountedElse, Note, Day
<1>13. MarksAreTrue'
  <2> SUFFICES ASSUME NEW k \in ReminderKind, NEW d \in Day, restaurant'[MarkOf(k)] = d
               PROVE  \/ reminded'[k][d].sent > 0 \/ reminded'[k][d].excused
                      \/ \E r \in Run : IsReminding(r, k, d)
    BY <1>1 DEF MarksAreTrue, IsReminding
  <2> QED BY <1>7 DEF RestaurantInv, MarksAreTrue
<1> QED BY <1>8, <1>10, <1>11, <1>12, <1>13 DEF RestaurantInv

LEMMA TickStep ==
  ASSUME RestaurantInv, Tick
  PROVE  RestaurantInv'
<1>1. /\ minutes \in Nat /\ minutes + 1 < LastDay * DayLen /\ minutes' = minutes + 1
      /\ started' = FALSE /\ UNCHANGED <<restaurant, changes, runs, handled, reminded>>
      /\ Today \in Day
  BY TodayIsADay DEF Tick, RestaurantInv
<1>2. Today' \in Day /\ Today' = IF (minutes + 1) % DayLen = 0 THEN Today + 1 ELSE Today
  <2>1. minutes' \div DayLen + 1 \in Day
    <3>1. minutes' \in Nat /\ minutes' < LastDay * DayLen
      BY <1>1
    <3> HIDE RestaurantAssumption
    <3> QED BY <3>1, DayOfMinute
  <2>2. (minutes + 1) \div DayLen =
          IF (minutes + 1) % DayLen = 0 THEN minutes \div DayLen + 1 ELSE minutes \div DayLen
    BY <1>1, NextMinute
  <2> QED BY <1>1, <2>1, <2>2 DEF Today
<1>3. RestaurantTypeOK'
  <2>1. LastDay * DayLen \in Nat
    OBVIOUS
  <2>2. minutes' \in 0 .. LastDay * DayLen - 1
    BY <1>1, <2>1
  <2> QED BY <1>1, <2>2 DEF RestaurantTypeOK, RestaurantInv
<1>4. \A k : Sending(k)' = Sending(k) /\ Working(k)' = Working(k)
  BY <1>1 DEF Sending, Working, At
<1>5. MarksAreTrue'
  BY <1>1 DEF RestaurantInv, MarksAreTrue, IsReminding
<1>6. CASE Today' = Today
  BY <1>1, <1>3, <1>4, <1>5, <1>6
     DEF RestaurantInv, MarksArePast, WorkIsOfToday, CountedToday, CountedElse, Bounded
<1>7. CASE Today' = Today + 1
  <2>1. \A r \in Run : runs[r].phase \in {"idle", "late", "check"}
    BY <1>1, <1>2, <1>7 DEF Tick, Day
  <2>2. \A k \in ReminderKind : Sending(k) = 0 /\ Working(k) = 0
    BY <2>1, NothingYet
  <2>3. /\ reminded \in [ReminderKind -> [Day -> Note]] /\ restaurant \in Row
        /\ changes \in [Editor -> ChangeState]
    BY DEF RestaurantInv, RestaurantTypeOK
  <2>4. MarksArePast(Today)' /\ WorkIsOfToday(Today)'
    <3>1. \A k \in ReminderKind :
            /\ restaurant[MarkOf(k)] \in Nat
            /\ \A h \in Editor : changes[h].copy[MarkOf(k)] \in Nat
      BY <2>3, Marked DEF ChangeState, Day, None
    <3> QED BY <1>1, <1>7, <2>1, <3>1
            DEF RestaurantInv, MarksArePast, WorkIsOfToday, Day
  <2>5. CountedToday(Today)'
    <3> SUFFICES ASSUME NEW k \in ReminderKind
                 PROVE  Bounded(reminded[k][Today + 1], restaurant[MarkOf(k)] = Today + 1, 0, 0)
      BY <1>1, <1>4, <1>7, <2>2 DEF CountedToday
    <3>1. restaurant[MarkOf(k)] # Today + 1
      BY <1>1, <2>3, Marked DEF RestaurantInv, MarksArePast, Day, None
    <3>2. reminded[k][Today + 1].sent = 0 /\ reminded[k][Today + 1].undone = 0
      BY <1>1, <1>2, <1>7 DEF RestaurantInv, CountedElse, Day
    <3> QED BY <3>1, <3>2 DEF Bounded
  <2>6. CountedElse(Today)'
    <3> SUFFICES ASSUME NEW k \in ReminderKind, NEW d \in Day
                 PROVE  /\ d < Today + 1 => reminded[k][d].sent <= 1 + reminded[k][d].undone
                        /\ d > Today + 1 => reminded[k][d].sent = 0 /\ reminded[k][d].undone = 0
      BY <1>1, <1>7 DEF CountedElse
    <3>1. CASE d = Today
      <4>1. Bounded(reminded[k][d], restaurant[MarkOf(k)] = d, 0, 0)
        BY <2>2, <3>1 DEF RestaurantInv, CountedToday
      <4>2. reminded[k][d] \in Note
        BY <2>3
      <4> QED BY <1>1, <3>1, <4>1, <4>2 DEF Bounded, Note, Day
    <3>2. CASE d # Today
      BY <1>1, <3>2 DEF RestaurantInv, CountedElse, Day
    <3> QED BY <3>1, <3>2
  <2> QED BY <1>3, <1>5, <2>4, <2>5, <2>6 DEF RestaurantInv
<1> QED BY <1>2, <1>6, <1>7

-----------------------------------------------------------------------------
(* The steps of a run *)

LEMMA NextRuns ==
  ASSUME runs \in [Run -> RunState], NEW r \in Run
  PROVE  /\ runs[r] \in RunState
         /\ After(r) \in RunState /\ After(r).phase \in {"idle", "check"}
         /\ Resting \in RunState /\ Resting.phase = "idle"
<1>1. runs[r] \in RunState
  OBVIOUS
<1>2. Resting \in RunState /\ Resting.phase = "idle"
  BY DEF Resting, RunState, ReminderKind, Day
<1> DEFINE was == runs[r]
           next == [phase |-> "check", kind |-> "restaurant", day |-> was.day,
                    minute |-> was.minute]
<1>3. [was EXCEPT !.phase = "check", !.kind = "restaurant"] = next
  <2> DEFINE moved == [was EXCEPT !.phase = "check"]
  <2>1. moved = [phase |-> "check", kind |-> was.kind, day |-> was.day,
                 minute |-> was.minute]
    BY <1>1 DEF RunState
  <2> HIDE DEF moved
  <2>2. [moved EXCEPT !.kind = "restaurant"] = next
    BY <2>1
  <2> QED BY <2>2 DEF moved
<1>4. next \in RunState /\ next.phase = "check"
  BY <1>1 DEF RunState, ReminderKind
<1> HIDE DEF next
<1>5. After(r) = next \/ After(r) = Resting
  BY <1>3 DEF After
<1> QED BY <1>1, <1>2, <1>4, <1>5

\* A run that is not between claim and end of delivery, before and after its step.
LEMMA FreeStep ==
  ASSUME RestaurantInv, NEW r \in Run, NEW s \in RunState,
         runs' = [runs EXCEPT ![r] = s], runs[r].phase \notin {"deliver", "release"},
         s.phase \in {"idle", "late", "check"} \/ (s.phase = "claim" /\ s.day = Today),
         UNCHANGED <<restaurant, changes, minutes, handled, reminded>>, started' \in BOOLEAN
  PROVE  RestaurantInv'
<1>1. Today' = Today
  BY DEF Today
<1>2. runs \in [Run -> RunState] /\ runs' \in [Run -> RunState]
  BY DEF RestaurantInv, RestaurantTypeOK
<1>3. RestaurantTypeOK'
  BY <1>2 DEF RestaurantInv, RestaurantTypeOK
<1>4. \A q \in Run :
        /\ runs'[q].phase \in {"deliver", "release"} <=> runs[q].phase \in {"deliver", "release"}
        /\ runs[q].phase \in {"deliver", "release"} => runs'[q] = runs[q]
  BY <1>2
<1>5. \A k : Sending(k)' = Sending(k) /\ Working(k)' = Working(k)
  <2> SUFFICES ASSUME NEW k
               PROVE  /\ At({"deliver"}, k)' = At({"deliver"}, k)
                      /\ At({"deliver", "release"}, k)' = At({"deliver", "release"}, k)
    BY DEF Sending, Working
  <2> QED BY <1>4 DEF At
<1>6. MarksArePast(Today)'
  BY <1>1 DEF RestaurantInv, MarksArePast
<1>7. WorkIsOfToday(Today)'
  BY <1>1, <1>2 DEF RestaurantInv, WorkIsOfToday
<1>8. CountedToday(Today)' /\ CountedElse(Today)'
  BY <1>1, <1>5 DEF RestaurantInv, CountedToday, CountedElse, Bounded
<1>9. MarksAreTrue'
  BY <1>4 DEF RestaurantInv, MarksAreTrue, IsReminding
<1> QED BY <1>3, <1>6, <1>7, <1>8, <1>9 DEF RestaurantInv

\* Whether a phase counts.
In(phase, phases) == IF phase \in phases THEN 1 ELSE 0

\* A run between claim and end of delivery, before or after its step.
LEMMA WorkStep ==
  ASSUME RestaurantInv, NEW r \in Run, NEW k \in ReminderKind, NEW today \in Day,
         today = Today, runs[r].kind = k,
         NEW s \in RunState, runs' = [runs EXCEPT ![r] = s],
         s.phase \notin {"idle", "late", "check"} => s.kind = k /\ s.day = today,
         NEW new \in Row, restaurant' = new,
         new[MarkOf(k)] \in {restaurant[MarkOf(k)], today, None},
         \A j \in ReminderKind \ {k} : new[MarkOf(j)] = restaurant[MarkOf(j)],
         NEW note \in Note, reminded' = [reminded EXCEPT ![k][today] = note],
         UNCHANGED <<changes, minutes, started, handled>>,
         Bounded(note, new[MarkOf(k)] = today,
                 Sending(k) - In(runs[r].phase, {"deliver"}) + In(s.phase, {"deliver"}),
                 Working(k) - In(runs[r].phase, {"deliver", "release"})
                   + In(s.phase, {"deliver", "release"})),
         new[MarkOf(k)] = today =>
           note.sent > 0 \/ note.excused \/ s.phase \in {"deliver", "release"}
  PROVE  RestaurantInv'
<1>1. Today' = Today
  BY DEF Today
<1>2. /\ runs \in [Run -> RunState] /\ runs' \in [Run -> RunState] /\ restaurant \in Row
      /\ reminded \in [ReminderKind -> [Day -> Note]]
  BY DEF RestaurantInv, RestaurantTypeOK
<1>3. /\ reminded' \in [ReminderKind -> [Day -> Note]]
      /\ reminded'[k][today] = note
      /\ \A d \in Day \ {today} : reminded'[k][d] = reminded[k][d]
      /\ \A j \in ReminderKind \ {k} : reminded'[j] = reminded[j]
  BY <1>2
<1>4. RestaurantTypeOK'
  BY <1>2, <1>3 DEF RestaurantInv, RestaurantTypeOK
<1>5. MarksArePast(Today)'
  <2>1. \A j \in ReminderKind : new[MarkOf(j)] <= today
    <3>1. restaurant[MarkOf(k)] <= today /\ None <= today /\ today <= today
      BY DEF RestaurantInv, MarksArePast, None, Day
    <3>2. new[MarkOf(k)] <= today
      BY <3>1
    <3> QED BY <3>2 DEF RestaurantInv, MarksArePast
  <2> QED BY <1>1, <2>1 DEF RestaurantInv, MarksArePast
<1>6. WorkIsOfToday(Today)'
  BY <1>1, <1>2 DEF RestaurantInv, WorkIsOfToday
<1>7. /\ Sending(k)' = Sending(k) - In(runs[r].phase, {"deliver"}) + In(s.phase, {"deliver"})
      /\ Working(k)' = Working(k) - In(runs[r].phase, {"deliver", "release"})
                         + In(s.phase, {"deliver", "release"})
      /\ \A j \in ReminderKind \ {k} : Sending(j)' = Sending(j) /\ Working(j)' = Working(j)
  <2>1. ASSUME NEW phases \in SUBSET {"deliver", "release"}, NEW j
        PROVE  Cardinality(At(phases, j))' =
                 IF j = k
                 THEN Cardinality(At(phases, j)) - In(runs[r].phase, phases) + In(s.phase, phases)
                 ELSE Cardinality(At(phases, j))
    <3>1. LET was == runs[r].phase \in phases /\ runs[r].kind = j
              is == s.phase \in phases /\ s.kind = j
          IN  /\ Cardinality(At(phases, j)) \in Nat
              /\ Cardinality(At(phases, j))' =
                   IF was /\ ~is THEN Cardinality(At(phases, j)) - 1
                   ELSE IF is /\ ~was THEN Cardinality(At(phases, j)) + 1
                   ELSE Cardinality(At(phases, j))
              /\ was => Cardinality(At(phases, j)) > 0
      BY <1>2, RunMoves, Zenon
    <3>2. s.phase \in phases => s.kind = k
      OBVIOUS
    <3> QED BY <3>1, <3>2 DEF In
  <2> QED BY <2>1 DEF Sending, Working
<1>8. CountedToday(Today)'
  <2> SUFFICES ASSUME NEW j \in ReminderKind
               PROVE  Bounded(reminded'[j][today], new[MarkOf(j)] = today,
                              Sending(j)', Working(j)')
    BY <1>1 DEF CountedToday, Bounded
  <2>1. CASE j = k
    BY <1>3, <1>7, <2>1
  <2>2. CASE j # k
    BY <1>3, <1>7, <2>2 DEF RestaurantInv, CountedToday
  <2> QED BY <2>1, <2>2
<1>9. CountedElse(Today)'
  <2> SUFFICES ASSUME NEW j \in ReminderKind, NEW d \in Day \ {today}
               PROVE  /\ d < today => reminded'[j][d].sent <= 1 + reminded'[j][d].undone
                      /\ d > today => reminded'[j][d].sent = 0 /\ reminded'[j][d].undone = 0
    BY <1>1 DEF CountedElse, Day
  <2> QED BY <1>3 DEF RestaurantInv, CountedElse
<1>10. MarksAreTrue'
  <2> SUFFICES ASSUME NEW j \in ReminderKind, NEW d \in Day, new[MarkOf(j)] = d
               PROVE  \/ reminded'[j][d].sent > 0 \/ reminded'[j][d].excused
                      \/ \E q \in Run : IsReminding(q, j, d)'
    BY DEF MarksAreTrue
  <2>1. CASE j = k /\ d = today
    <3>1. CASE s.phase \in {"deliver", "release"}
      <4>1. runs'[r] = s /\ s.kind = k /\ s.day = today
        BY <1>2, <3>1
      <4>2. IsReminding(r, j, d)'
        BY <2>1, <3>1, <4>1 DEF IsReminding
      <4> QED BY <4>2
    <3> QED BY <1>3, <2>1, <3>1
  <2>2. CASE ~(j = k /\ d = today)
    <3>1. restaurant[MarkOf(j)] = d /\ reminded'[j][d] = reminded[j][d]
      BY <1>3, <2>2 DEF None, Day
    <3>2. ASSUME NEW q \in Run, IsReminding(q, j, d)
          PROVE  IsReminding(q, j, d)'
      <4>1. q # r
        BY <2>2, <3>2 DEF IsReminding, RestaurantInv, WorkIsOfToday
      <4> QED BY <1>2, <3>2, <4>1 DEF IsReminding
    <3> QED BY <3>1, <3>2 DEF RestaurantInv, MarksAreTrue
  <2> QED BY <2>1, <2>2
<1> QED BY <1>4, <1>5, <1>6, <1>8, <1>9, <1>10 DEF RestaurantInv

\* A run that takes a mark away is at work beside those that send.
LEMMA ReleasingWorks ==
  ASSUME NEW r \in Run, runs[r].phase = "release", NEW k, runs[r].kind = k
  PROVE  Sending(k) < Working(k)
<1> DEFINE all == At({"deliver", "release"}, k)
<1>1. IsFiniteSet(all) /\ r \in all /\ At({"deliver"}, k) \in SUBSET (all \ {r})
  BY FS_Subset DEF At
<1> HIDE DEF all
<1>2. IsFiniteSet(all \ {r}) /\ Cardinality(all \ {r}) = Cardinality(all) - 1
  BY <1>1, FS_RemoveElement
<1>3. Cardinality(At({"deliver"}, k)) <= Cardinality(all \ {r})
  BY <1>1, <1>2, FS_Subset
<1> QED BY <1>1, <1>2, <1>3, FS_CardinalityType, SendersWork DEF Sending, Working, all

LEMMA RunStepKeeps ==
  ASSUME RestaurantInv, NEW r \in Run, RunStep(r)
  PROVE  RestaurantInv'
<1>1. /\ runs \in [Run -> RunState] /\ restaurant \in Row /\ started \in BOOLEAN
      /\ reminded \in [ReminderKind -> [Day -> Note]] /\ minutes \in Nat
  BY TodayIsADay DEF RestaurantInv, RestaurantTypeOK
<1>2. PICK k \in ReminderKind : runs[r].kind = k
  BY <1>1 DEF RunState
<1>3. PICK today \in Day : today = Today
  BY TodayIsADay DEF RestaurantInv
<1>4. /\ runs[r] \in RunState
      /\ After(r) \in RunState /\ After(r).phase \in {"idle", "check"}
      /\ Resting \in RunState /\ Resting.phase = "idle"
  BY <1>1, NextRuns
<1>5. runs[r].phase \notin {"idle", "late", "check"} => runs[r].day = today
  BY <1>3 DEF RestaurantInv, WorkIsOfToday
<1> DEFINE was == runs[r]
           note == reminded[k][today]
           mark == MarkOf(k)
\* The run goes to another phase, with the same reminder.
<1>6. ASSUME NEW phase \in {"idle", "late", "check", "claim", "deliver", "log", "release"}
      PROVE  LET y == [was EXCEPT !.phase = phase]
             IN  y \in RunState /\ y.phase = phase /\ y.kind = k /\ y.day = was.day
  BY <1>2, <1>4 DEF RunState
<1>7. note \in Note /\ restaurant[mark] \in Day \cup {None}
  BY <1>1, Marked
<1>8. Bounded(note, restaurant[mark] = today, Sending(k), Working(k))
  BY <1>3 DEF RestaurantInv, CountedToday
<1>9. /\ Sending(k) \in Nat /\ Working(k) \in Nat /\ Sending(k) <= Working(k)
      /\ was.phase = "release" => Sending(k) < Working(k)
  BY <1>2, SendersWork, ReleasingWorks
<1>10. restaurant[mark] = today =>
         note.sent > 0 \/ note.excused \/ \E q \in Run : IsReminding(q, k, today)
  BY DEF RestaurantInv, MarksAreTrue
<1>11. reminded = [reminded EXCEPT ![k][today] = note]
  BY <1>1
<1> HIDE DEF mark
<1>a. CASE Begin(r)
  <2>1. [Resting EXCEPT !.phase = "late"] \in RunState
        /\ [Resting EXCEPT !.phase = "late"].phase = "late"
    BY <1>4 DEF RunState
  <2> QED BY <1>a, <2>1, FreeStep DEF Begin
<1>b. CASE LateChecked(r)
  <2>1. /\ [was EXCEPT !.phase = "check"] \in RunState
        /\ [was EXCEPT !.phase = "check"].phase = "check"
    BY <1>6
  <2> QED BY <1>1, <1>b, <2>1, FreeStep DEF LateChecked, Becomes
<1>c. CASE Check(r)
  <2> DEFINE next == [was EXCEPT !.phase = "claim", !.day = Today, !.minute = Minute]
  <2>1. next \in RunState /\ next.phase = "claim" /\ next.day = Today
    <3>1. Minute \in Nat /\ Today \in Day
      BY <1>1, <1>3 DEF Minute
    <3> DEFINE record == [phase |-> "claim", kind |-> was.kind, day |-> Today,
                          minute |-> Minute]
               one == [was EXCEPT !.phase = "claim"]
               two == [one EXCEPT !.day = Today]
    <3>2. record \in RunState /\ record.phase = "claim" /\ record.day = Today
      BY <1>4, <3>1 DEF RunState
    <3>3. one = [phase |-> "claim", kind |-> was.kind, day |-> was.day,
                 minute |-> was.minute]
      BY <1>4 DEF RunState
    <3> HIDE DEF one
    <3>4. two = [phase |-> "claim", kind |-> was.kind, day |-> Today, minute |-> was.minute]
      BY <3>3
    <3> HIDE DEF two
    <3>5. [two EXCEPT !.minute = Minute] = record
      BY <3>4
    <3>6. next = record
      BY <3>5 DEF one, two
    <3> QED BY <3>2, <3>6
  <2> HIDE DEF next
  <2>2. PICK s \in {next, After(r)} :
          was.phase = "check" /\ Becomes(r, s)
    BY <1>c DEF Check, next
  <2> QED BY <1>1, <1>4, <2>1, <2>2, FreeStep DEF Becomes
<1>g. CASE LogReminder(r)
  BY <1>1, <1>4, <1>g, FreeStep DEF LogReminder, Becomes
<1>d. CASE Claim(r)
  <2>1. /\ was.phase = "claim" /\ was.kind = k /\ was.day = today
        /\ UNCHANGED <<changes, minutes, started, handled, reminded>>
    BY <1>2, <1>5, <1>d DEF Claim
  <2>2. CASE MayClaim(was.kind, was.day, was.minute)
    <3>1. restaurant[mark] # today
      BY <2>1, <2>2 DEF MayClaim, Due, mark
    <3>2. PICK new \in Row :
            /\ restaurant' = new /\ new[mark] = today
            /\ \A j \in ReminderKind \ {k} : new[MarkOf(j)] = restaurant[MarkOf(j)]
      <4>1. restaurant' = [restaurant EXCEPT ![mark] = today]
        BY <1>d, <2>1, <2>2 DEF Claim, mark
      <4> DEFINE y == [restaurant EXCEPT ![mark] = today]
      <4>2. /\ y \in Row /\ y[mark] = today
            /\ \A j \in ReminderKind \ {k} : y[MarkOf(j)] = restaurant[MarkOf(j)]
        BY <1>1, MarkedRow DEF mark
      <4> HIDE DEF y
      <4>3. restaurant' = y
        BY <4>1 DEF y
      <4> QED BY <4>2, <4>3
    <3>3. PICK s \in RunState :
            /\ runs' = [runs EXCEPT ![r] = s]
            /\ s.phase = "deliver" /\ s.kind = k /\ s.day = today
      BY <1>6, <1>d, <2>1, <2>2 DEF Claim
    <3>4. PICK same \in Note : same = note
      BY <1>7
    <3>5. Bounded(same, new[mark] = today,
                  Sending(k) - In(was.phase, {"deliver"}) + In(s.phase, {"deliver"}),
                  Working(k) - In(was.phase, {"deliver", "release"})
                    + In(s.phase, {"deliver", "release"}))
      BY <1>7, <1>8, <1>9, <2>1, <3>1, <3>2, <3>3, <3>4 DEF Bounded, Note, In
    <3> HIDE DEF note
    <3>6. reminded' = [reminded EXCEPT ![k][today] = same]
      BY <1>11, <2>1, <3>4
    <3>7. /\ s.phase \notin {"idle", "late", "check"} => s.kind = k /\ s.day = today
          /\ new[mark] \in {restaurant[mark], today, None}
          /\ new[mark] = today =>
               same.sent > 0 \/ same.excused \/ s.phase \in {"deliver", "release"}
          /\ UNCHANGED <<changes, minutes, started, handled>>
      BY <2>1, <3>2, <3>3
    <3> QED BY <1>2, <1>3, <3>2, <3>3, <3>5, <3>6, <3>7, WorkStep DEF mark
  <2>3. CASE ~MayClaim(was.kind, was.day, was.minute)
    BY <1>1, <1>4, <1>d, <2>1, <2>3, FreeStep DEF Claim
  <2> QED BY <2>2, <2>3
\* The row stays as it is, and the run goes on or ends.
<1>12. ASSUME was.phase \in {"deliver", "release"}, NEW s \in RunState,
              runs' = [runs EXCEPT ![r] = s],
              \/ s.phase = "idle"
              \/ s.phase \in {"release", "log"} /\ s.kind = k /\ s.day = today,
              NEW new \in Note, reminded' = [reminded EXCEPT ![k][today] = new],
              UNCHANGED <<restaurant, changes, minutes, started, handled>>,
              new.undone = note.undone,
              \/ new.sent = note.sent /\ (new.excused \/ s.phase = "release")
              \/ new.sent = note.sent + 1 /\ was.phase = "deliver" /\ s.phase = "log"
       PROVE  RestaurantInv'
  <2>1. PICK row0 \in Row : row0 = restaurant
    BY <1>1
  <2>2. Bounded(new, row0[mark] = today,
                Sending(k) - In(was.phase, {"deliver"}) + In(s.phase, {"deliver"}),
                Working(k) - In(was.phase, {"deliver", "release"})
                  + In(s.phase, {"deliver", "release"}))
    BY <1>7, <1>8, <1>9, <1>12, <2>1 DEF Bounded, Note, In
  <2>3. new.sent > 0 \/ new.excused \/ s.phase \in {"deliver", "release"}
    BY <1>7, <1>12 DEF Note
  <2> HIDE DEF note
  <2>4. restaurant' = row0 /\ row0[MarkOf(k)] \in {restaurant[MarkOf(k)], today, None}
    BY <1>12, <2>1
  <2>5. s.phase \notin {"idle", "late", "check"} => s.kind = k /\ s.day = today
    BY <1>12
  <2> QED BY <1>2, <1>3, <1>12, <2>1, <2>2, <2>3, <2>4, <2>5, WorkStep DEF mark
<1>e. CASE Delivered(r) \/ NobodyThere(r)
  <2> DEFINE s == [was EXCEPT !.phase = "log"]
  <2>1. /\ was.phase = "deliver" /\ was.kind = k /\ was.day = today
        /\ UNCHANGED <<restaurant, changes, minutes, started, handled>>
        /\ runs' = [runs EXCEPT ![r] = s]
    BY <1>2, <1>5, <1>e DEF Delivered, NobodyThere
  <2>2. s \in RunState /\ s.phase = "log" /\ s.kind = k /\ s.day = today
    BY <1>6, <2>1
  <2> HIDE DEF s
  <2>3. PICK new \in Note :
          /\ reminded' = [reminded EXCEPT ![k][today] = new] /\ new.undone = note.undone
          /\ new.sent = note.sent + 1 \/ (new.sent = note.sent /\ new.excused)
    <3>1. CASE Delivered(r)
      <4> DEFINE sent == [note EXCEPT !.sent = note.sent + 1]
      <4>1. reminded' = [reminded EXCEPT ![k][today] = sent]
        BY <1>1, <2>1, <3>1 DEF Delivered
      <4>2. note.sent + 1 \in Nat
        BY <1>7 DEF Note
      <4>3. sent \in Note /\ sent.undone = note.undone /\ sent.sent = note.sent + 1
        BY <1>7, <4>2, NoteChanges, ZenonT(40)
      <4> HIDE DEF sent, note
      <4> QED BY <4>1, <4>3
    <3>2. CASE NobodyThere(r)
      <4> DEFINE excused == [note EXCEPT !.excused = TRUE]
      <4>1. reminded' = [reminded EXCEPT ![k][today] = excused]
        BY <1>1, <2>1, <3>2 DEF NobodyThere
      <4>2. /\ excused \in Note /\ excused.undone = note.undone
            /\ excused.sent = note.sent /\ excused.excused
        BY <1>7, NoteChanges
      <4> HIDE DEF excused, note
      <4> QED BY <4>1, <4>2
    <3> QED BY <1>e, <3>1, <3>2
  <2> QED BY <1>12, <2>1, <2>2, <2>3
<1>f. CASE NotDelivered(r)
  <2> DEFINE s == [was EXCEPT !.phase = "release"]
  <2>1. /\ was.phase = "deliver" /\ was.kind = k /\ was.day = today
        /\ UNCHANGED <<restaurant, changes, minutes, started, handled, reminded>>
        /\ runs' = [runs EXCEPT ![r] = s]
    BY <1>2, <1>5, <1>f DEF NotDelivered, Becomes
  <2>2. s \in RunState /\ s.phase = "release" /\ s.kind = k /\ s.day = today
    BY <1>6, <2>1
  <2> HIDE DEF s, note
  <2>3. note \in Note /\ reminded' = [reminded EXCEPT ![k][today] = note]
    BY <1>7, <1>11, <2>1
  <2> QED BY <1>12, <2>1, <2>2, <2>3 DEF note
<1>h. CASE ReleaseClaim(r)
  <2>1. /\ was.phase = "release" /\ was.kind = k /\ was.day = today
        /\ UNCHANGED <<changes, minutes, started, handled>>
        /\ restaurant' = Released(was)
        /\ runs' = [runs EXCEPT ![r] = After(r)]
    BY <1>2, <1>5, <1>h DEF ReleaseClaim
  <2>2. PICK new \in Row :
          /\ restaurant' = new /\ Released(was) = new
          /\ new[mark] = IF restaurant[mark] = today THEN None ELSE restaurant[mark]
          /\ \A j \in ReminderKind \ {k} : new[MarkOf(j)] = restaurant[MarkOf(j)]
          /\ restaurant[mark] # today => new = restaurant
    <3> DEFINE free == [restaurant EXCEPT ![mark] = None]
    <3>1. /\ free \in Row /\ free[mark] = None
          /\ \A j \in ReminderKind \ {k} : free[MarkOf(j)] = restaurant[MarkOf(j)]
      <4>1. \A d \in Day \cup {None} :
              LET y == [restaurant EXCEPT ![mark] = d]
              IN  /\ y \in Row /\ y[mark] = d
                  /\ \A j \in ReminderKind \ {k} : y[MarkOf(j)] = restaurant[MarkOf(j)]
        BY <1>1, MarkedRow DEF mark
      <4> QED BY <4>1
    <3>2. Released(was) = IF restaurant[mark] = today THEN free ELSE restaurant
      BY <2>1 DEF Released, mark
    <3> HIDE DEF free
    <3> QED BY <1>1, <2>1, <3>1, <3>2
  <2>3. new # restaurant <=> restaurant[mark] = today
    BY <2>2 DEF None, Day
  <2>4. PICK after \in Note :
          /\ reminded' = [reminded EXCEPT ![k][today] = after] /\ after.sent = note.sent
          /\ after.undone = IF note.undone > 0 /\ restaurant[mark] = today
                            THEN note.undone + 1 ELSE note.undone
    <3> DEFINE undone == [note EXCEPT !.undone = note.undone + 1]
    <3>1. note.undone + 1 \in Nat
      BY <1>7 DEF Note
    <3>2. undone \in Note /\ undone.sent = note.sent /\ undone.undone = note.undone + 1
      BY <1>7, <3>1, NoteChanges, ZenonT(40)
    <3>3. reminded' = IF note.undone > 0 /\ restaurant[mark] = today
                      THEN [reminded EXCEPT ![k][today] = undone]
                      ELSE [reminded EXCEPT ![k][today] = note]
      BY <1>1, <1>11, <1>h, <2>1, <2>2, <2>3 DEF ReleaseClaim
    <3> HIDE DEF undone, note
    <3> QED BY <1>7, <3>2, <3>3 DEF note
  <2>5. PICK next \in RunState : next = After(r)
    BY <1>4
  <2>6. Bounded(after, new[mark] = today,
                Sending(k) - In(was.phase, {"deliver"}) + In(next.phase, {"deliver"}),
                Working(k) - In(was.phase, {"deliver", "release"})
                  + In(next.phase, {"deliver", "release"}))
    BY <1>3, <1>4, <1>7, <1>8, <1>9, <2>1, <2>2, <2>4, <2>5 DEF Bounded, Note, In, None, Day
  <2>7. new[mark] # today /\ new[mark] \in {restaurant[mark], today, None}
    BY <2>2 DEF None, Day
  <2>8. next.phase \in {"idle", "late", "check"} /\ runs' = [runs EXCEPT ![r] = next]
    BY <1>4, <2>1, <2>5
  <2>9. /\ next.phase \notin {"idle", "late", "check"} => next.kind = k /\ next.day = today
        /\ new[mark] = today =>
             after.sent > 0 \/ after.excused \/ next.phase \in {"deliver", "release"}
    BY <2>7, <2>8
  <2> HIDE DEF note
  <2>10. /\ restaurant' = new /\ \A j \in ReminderKind \ {k} : new[MarkOf(j)] = restaurant[MarkOf(j)]
         /\ new[mark] \in {restaurant[mark], today, None}
         /\ reminded' = [reminded EXCEPT ![k][today] = after]
         /\ runs' = [runs EXCEPT ![r] = next]
         /\ UNCHANGED <<changes, minutes, started, handled>>
    BY <2>1, <2>2, <2>4, <2>7, <2>8
  <2> QED BY <1>2, <1>3, <2>6, <2>9, <2>10, WorkStep, ZenonT(60) DEF mark
<1>i. CASE BreakOff(r)
  <2>1. /\ UNCHANGED <<restaurant, changes, minutes, started, handled>>
        /\ runs' = [runs EXCEPT ![r] = Resting]
    BY <1>i DEF BreakOff
  <2>2. CASE was.phase \in {"deliver", "release"}
    <3> DEFINE excused == [note EXCEPT !.excused = TRUE]
    <3>1. was.kind = k /\ was.day = today
      BY <1>2, <1>5, <2>2
    <3>2. reminded' = [reminded EXCEPT ![k][today] = excused]
      BY <1>1, <1>i, <2>2, <3>1 DEF BreakOff
    <3>3. /\ excused \in Note /\ excused.undone = note.undone
          /\ excused.sent = note.sent /\ excused.excused
      BY <1>7, NoteChanges
    <3> HIDE DEF excused
    <3> QED BY <1>4, <1>12, <2>1, <2>2, <3>2, <3>3
  <2>3. CASE was.phase \notin {"deliver", "release"}
    BY <1>1, <1>4, <1>i, <2>1, <2>3, FreeStep DEF BreakOff
  <2> QED BY <2>2, <2>3
<1> QED BY <1>a, <1>b, <1>c, <1>d, <1>e, <1>f, <1>g, <1>h, <1>i DEF RunStep

LEMMA RestaurantInvHolds == RestaurantSpec => []RestaurantInv
<1>1. RestaurantInit => RestaurantInv
  BY RestaurantBegins
<1>2. RestaurantInv /\ [RestaurantNext]_restaurantVars => RestaurantInv'
  <2> SUFFICES ASSUME RestaurantInv, [RestaurantNext]_restaurantVars
               PROVE  RestaurantInv'
    OBVIOUS
  <2>1. ASSUME NEW h \in Editor, Change(h) \/ CompareRow(h) \/ Save(h) \/ ChangeFails(h)
        PROVE  RestaurantInv'
    BY <2>1, ChangeStep, CompareStep, SaveStep
  <2>2. ASSUME NEW r \in Run, RunStep(r)
        PROVE  RestaurantInv'
    BY <2>2, RunStepKeeps
  <2>3. CASE Tick
    BY <2>3, TickStep
  <2>4. CASE UNCHANGED restaurantVars
    <3>1. /\ UNCHANGED <<restaurant, runs, minutes, reminded, changes, handled, started>>
      BY <2>4 DEF restaurantVars
    <3>2. Today' = Today
      BY <3>1 DEF Today
    <3>3. \A k \in ReminderKind : \A h \in Editor : changes'[h].copy[MarkOf(k)] <= Today
      BY <3>1 DEF RestaurantInv, MarksArePast
    <3> QED BY <3>1, <3>3, OnlyChanges DEF RestaurantInv, RestaurantTypeOK
  <2> QED BY <2>1, <2>2, <2>3, <2>4 DEF RestaurantNext
<1> QED BY <1>1, <1>2, PTL DEF RestaurantSpec

\* The row, the changes of it and the runs of the job have their types, in any number of
\* requests and processes.
THEOREM RestaurantTypesHold == RestaurantSpec => []RestaurantTypeOK
<1>1. RestaurantInv => RestaurantTypeOK
  BY DEF RestaurantInv
<1> QED BY <1>1, RestaurantInvHolds, PTL

\* checkRestaurantReminders: no reminder is sent twice on a day unless a late save took
\* its mark away, and none is marked without cause.
THEOREM RemindersAlwaysTrue == RestaurantSpec => []RemindersAreTrue
<1>1. RestaurantInv => RemindersAreTrue
  <2> SUFFICES ASSUME RestaurantInv, NEW k \in ReminderKind, NEW d \in Day
               PROVE  /\ reminded[k][d].sent <= 1 + reminded[k][d].undone
                      /\ restaurant[MarkOf(k)] = d =>
                            \/ reminded[k][d].sent > 0 \/ reminded[k][d].excused
                            \/ \E r \in Run : IsReminding(r, k, d)
    BY DEF RemindersAreTrue
  <2>1. reminded[k][d] \in Note /\ Today \in Day /\ Sending(k) \in Nat
    BY TodayIsADay, SendersWork DEF RestaurantInv, RestaurantTypeOK
  <2>2. reminded[k][d].sent <= 1 + reminded[k][d].undone
    <3>1. CASE d = Today
      BY <2>1, <3>1 DEF RestaurantInv, CountedToday, Bounded, Note
    <3>2. CASE d # Today
      BY <2>1, <3>2 DEF RestaurantInv, CountedElse, Note, Day
    <3> QED BY <3>1, <3>2
  <2> QED BY <2>2 DEF RestaurantInv, MarksAreTrue
<1> QED BY <1>1, RestaurantInvHolds, PTL

-----------------------------------------------------------------------------
(* Both side by side *)

\* A behaviour of the two side by side, as they are checked together, is one of each:
\* what is proved of the locks of the bookings and of the restaurant's row holds there.
THEOREM SharedSideBySide == MCSpec => Spec /\ RestaurantSpec
<1>1. MCInit => Init /\ RestaurantInit
  BY DEF MCInit
<1>2. [MCNext]_<<vars, restaurantVars, subject>> => [Next]_vars /\ [RestaurantNext]_restaurantVars
  BY DEF MCNext
<1> QED BY <1>1, <1>2, PTL DEF MCSpec, Spec, RestaurantSpec

\* Requests, locks, the restaurant's row and the editors keep their shape.
THEOREM SharedTyped == MCSpec => []MCTypeOK
<1>1. TypeOK /\ RestaurantTypeOK => MCTypeOK
  BY DEF MCTypeOK
<1> QED BY <1>1, SharedSideBySide, LockTypesHold, RestaurantTypesHold, PTL
=============================================================================
