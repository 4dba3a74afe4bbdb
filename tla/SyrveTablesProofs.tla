------------------------- MODULE SyrveTablesProofs -------------------------
(***************************************************************************)
(* Proofs about SyrveTables, for any bills, tables, registers and number   *)
(* of versions: the stored ledgers stay usable and true, a table is        *)
(* occupied by the latest version only and freed with evidence only.       *)
(***************************************************************************)
EXTENDS SyrveTables, TLAPS

-----------------------------------------------------------------------------
(* The inductive invariant *)

\* What a stored ledger l of table t must satisfy.
GoodVersion(t, b, v) ==
    /\ v.print = NoPrint => v.state \in {"unknown", "none"}
    /\ v.at <= Len(history[b])
    /\ v.state = "none" => v.at = 0
    /\ v.state /= "none" => v.at > 0
    /\ v.state \in {"open", "closed"} =>
          v.state = Outcome(t, Reading(b, v.at)) /\ v.print = PrintOf(Reading(b, v.at))

GoodLedger(t, l) ==
    /\ l \in Ledger
    /\ \A b \in l.active : l.versions[b].at > 0
    /\ l.freed \subseteq l.active
    /\ l.last = "open" <=> l.active /= {}
    /\ \A b \in Bill : /\ GoodVersion(t, b, l.versions[b])
                       /\ l.versions[b].state = "open" => b \in l.active

\* Every reading in flight is one that its register has published.
Genuine(S) ==
    \A x \in S : /\ x.id \in Bill
                 /\ x.at \in 1..Len(history[x.id])
                 /\ x = Reading(x.id, x.at)

InFlight ==
    /\ Genuine(poll.byTable) /\ \A x \in poll.byTable : x.state /= "closed"
    /\ Genuine(poll.byId)
    /\ \A d \in Delivery : Genuine(callback[d].news)
    /\ \A t \in Table : \A b \in poll.asked[t] : history[b] /= <<>>

IInv ==
    /\ TypeOK
    /\ \A t \in Table : GoodLedger(t, ledger[t])
    /\ InFlight

-----------------------------------------------------------------------------
(* Readings *)

LEMMA ReadingFacts ==
    ASSUME TypeOK, NEW b \in Bill, NEW k \in 1..Len(history[b])
    PROVE  /\ Reading(b, k) \in Observed
           /\ Reading(b, k).id = b
           /\ Reading(b, k).at = k
<1>1. history[b] \in Seq(Version)
    BY DEF TypeOK
<1>2. history[b][k] \in Version
    BY <1>1
<1>3. /\ history[b][k].kind \in {"creating", "open", "closed"}
      /\ history[b][k].tables \in SUBSET Place
    BY <1>2 DEF Version
<1>4. k \in Nat
    BY <1>1
<1>5. CASE history[b][k].kind = "creating"
    BY <1>3, <1>4, <1>5 DEF Reading, Observed, BillStates
<1>6. CASE history[b][k].kind /= "creating"
    BY <1>3, <1>4, <1>6 DEF Reading, Observed, BillStates
<1> QED BY <1>5, <1>6

LEMMA OutcomeType ==
    ASSUME NEW t \in Table, NEW x, x.state \in BillStates
    PROVE  Outcome(t, x) \in BillStates
BY DEF Outcome, BillStates

\* A reading whose outcome is stored.
LEMMA VersionAtGood ==
    ASSUME TypeOK, NEW t \in Table, NEW x \in Observed,
           x.at \in 1..Len(history[x.id]),
           x.state /= "unknown" => x = Reading(x.id, x.at)
    PROVE  /\ VersionAt(t, x) \in Known
           /\ GoodVersion(t, x.id, VersionAt(t, x))
<1> DEFINE v == VersionAt(t, x)
<1>1. /\ x.id \in Bill /\ x.at \in Nat /\ x.state \in BillStates
      /\ x.tables \in SUBSET Place
    BY DEF Observed
<1>2. /\ v.at = x.at /\ v.state = Outcome(t, x) /\ v.print = PrintOf(x)
    BY DEF VersionAt
<1>3. PrintOf(x) \in Fingerprint
    BY <1>1 DEF PrintOf, Fingerprint
<1>4. v.print /= NoPrint
    BY <1>2, <1>3, SyrveAssumption DEF Fingerprint, BillStates
<1>5. v.state \in BillStates
    BY <1>1, <1>2, OutcomeType
<1>6. v \in Known
    BY <1>1, <1>2, <1>3, <1>5 DEF VersionAt, Known, BillStates
<1>7. v.at <= Len(history[x.id]) /\ v.at > 0
    BY <1>1, <1>2 DEF TypeOK
<1>8. ASSUME v.state \in {"open", "closed"}
      PROVE  /\ v.state = Outcome(t, Reading(x.id, v.at))
             /\ v.print = PrintOf(Reading(x.id, v.at))
    <2>1. x.state /= "unknown"
        BY <1>2, <1>8 DEF Outcome
    <2> QED BY <2>1, <1>2
<1>9. v.state /= "none"
    BY <1>5 DEF BillStates
<1> QED BY <1>4, <1>6, <1>7, <1>8, <1>9 DEF GoodVersion

LEMMA UnresolvedGood ==
    ASSUME TypeOK, NEW t \in Table, NEW b \in Bill, NEW k \in 1..Len(history[b])
    PROVE  /\ Unresolved(k) \in Known
           /\ GoodVersion(t, b, Unresolved(k))
<1>1. k \in Nat /\ k <= Len(history[b]) /\ k > 0
    BY DEF TypeOK
<1> QED BY <1>1 DEF Unresolved, Known, BillStates, GoodVersion

-----------------------------------------------------------------------------
(* The ledger after a transition *)

LEMMA NewLedgerGood ==
    ASSUME NEW t \in Table, GoodLedger(t, ledger[t]),
           NEW active \in SUBSET Bill, NEW versions \in [Bill -> Known],
           NEW canClose \in BOOLEAN,
           \A b \in active : versions[b].at > 0,
           \A b \in Bill : GoodVersion(t, b, versions[b]),
           \A b \in Bill : versions[b].state = "open" => b \in active,
           active = {} /\ ledger[t].active /= {} => canClose
    PROVE  GoodLedger(t, NewLedger(t, active, versions, canClose))
<1> DEFINE l == NewLedger(t, active, versions, canClose)
<1>1. /\ ledger[t].active \in SUBSET Bill
      /\ ledger[t].freed \in SUBSET Bill
      /\ ledger[t].last \in {"unknown", "open", "closed"}
      /\ ledger[t].last = "open" <=> ledger[t].active /= {}
    BY DEF GoodLedger, Ledger
<1>2. /\ l.active = active
      /\ l.freed = ledger[t].freed \cap active
      /\ l.versions = versions
      /\ l.last = IF active /= {} THEN "open"
                  ELSE IF ledger[t].active /= {} /\ canClose THEN "closed"
                  ELSE ledger[t].last
    BY DEF NewLedger
<1>3. l \in Ledger
    BY <1>1 DEF NewLedger, Ledger
<1>4. l.last = "open" <=> l.active /= {}
    BY <1>1, <1>2
<1> QED BY <1>2, <1>3, <1>4 DEF GoodLedger

-----------------------------------------------------------------------------
(* What a poll decides for a table *)

SeenAt(t) == {Believed(x) : x \in Evidence(t)}

LEMMA EvidenceFacts ==
    ASSUME IInv, NEW t \in Table
    PROVE  /\ \A x \in Evidence(t) : /\ x \in Observed
                                     /\ x.at \in 1..Len(history[x.id])
                                     /\ x = Reading(x.id, x.at)
           /\ \A x, y \in Evidence(t) : x.id = y.id => x = y
<1> DEFINE S == {x \in poll.byTable : t \in x.tables \/ Unplaced(x)}
                  \cup {x \in poll.byId : x.id \in Asked(t)}
<1>1. Evidence(t) = Latest(S)
    BY DEF Evidence
<1>2. \A x \in S : /\ x \in Observed
                   /\ x.at \in 1..Len(history[x.id])
                   /\ x = Reading(x.id, x.at)
    BY DEF IInv, TypeOK, Poll, InFlight, Genuine
<1>3. \A x \in Latest(S) : x \in S /\ \A y \in S : y.id = x.id => y.at <= x.at
    BY DEF Latest
<1>4. ASSUME NEW x \in Latest(S), NEW y \in Latest(S), x.id = y.id
      PROVE  x = y
    <2>1. x.at \in Nat /\ y.at \in Nat
        BY <1>2, <1>3 DEF Observed
    <2>2. x.at = y.at
        BY <1>3, <1>4, <2>1
    <2>3. x = Reading(x.id, x.at) /\ y = Reading(y.id, y.at)
        BY <1>2, <1>3
    <2> QED BY <1>4, <2>2, <2>3
<1> HIDE DEF S
<1> QED BY <1>1, <1>2, <1>3, <1>4

LEMMA SeenFacts ==
    ASSUME IInv, NEW t \in Table
    PROVE  /\ \A x \in SeenAt(t) : /\ x \in Observed
                                   /\ x.at \in 1..Len(history[x.id])
                                   /\ x.state /= "unknown" => x = Reading(x.id, x.at)
           /\ \A x, y \in SeenAt(t) : x.id = y.id => x = y
<1>1. ASSUME NEW x \in Observed
      PROVE  /\ Believed(x) \in Observed
             /\ Believed(x).id = x.id /\ Believed(x).at = x.at
             /\ Believed(x).state /= "unknown" => Believed(x) = x
    BY DEF Believed, Observed, BillStates
<1>2. ASSUME NEW x \in SeenAt(t)
      PROVE  /\ x \in Observed
             /\ x.at \in 1..Len(history[x.id])
             /\ x.state /= "unknown" => x = Reading(x.id, x.at)
    <2>1. PICK e \in Evidence(t) : x = Believed(e)
        BY <1>2 DEF SeenAt
    <2>2. /\ e \in Observed
          /\ e.at \in 1..Len(history[e.id])
          /\ e = Reading(e.id, e.at)
        BY EvidenceFacts
    <2> QED BY <1>1, <2>1, <2>2
<1>3. ASSUME NEW x \in SeenAt(t), NEW y \in SeenAt(t), x.id = y.id
      PROVE  x = y
    <2>1. PICK e \in Evidence(t) : x = Believed(e)
        BY <1>3 DEF SeenAt
    <2>2. PICK f \in Evidence(t) : y = Believed(f)
        BY <1>3 DEF SeenAt
    <2>3. e \in Observed /\ f \in Observed
        BY EvidenceFacts
    <2>4. e.id = f.id
        BY <1>1, <1>3, <2>1, <2>2, <2>3
    <2>5. e = f
        BY <2>4, EvidenceFacts
    <2> QED BY <2>1, <2>2, <2>5
<1> QED BY <1>2, <1>3

\* The whole decision: its ledger is good, a bill is added by the latest version
\* only, and bills end only when everything is known.
LEMMA PolledFacts ==
    ASSUME IInv, NEW t \in Table
    PROVE  LET new == Polled(t) IN
           /\ GoodLedger(t, new)
           /\ \A b \in new.active \ ledger[t].active : \A u \in Table :
                ledger[u].versions[b].at <= new.versions[b].at
           /\ \A b \in ledger[t].active \ new.active :
                /\ new.versions[b].state = "closed"
                /\ Settled(new.versions)
<1>1. ASSUME NEW x \in SeenAt(t)
      PROVE  /\ x \in Observed
             /\ x.at \in 1..Len(history[x.id])
             /\ x.state /= "unknown" => x = Reading(x.id, x.at)
    BY SeenFacts
<1>2. \A x, y \in SeenAt(t) : x.id = y.id => x = y
    BY SeenFacts
<1> DEFINE seen == SeenAt(t)
           recent == {x \in seen : Concerns(t, x) /\ ~Outdated(x)}
           conflicting == {x \in recent : Contradicts(x)}
           accepted == {x \in recent \ conflicting : ~StuckAt(t, x)}
           versions ==
            [b \in Bill |->
                IF \E x \in conflicting : x.id = b
                THEN Unresolved((CHOOSE x \in conflicting : x.id = b).at)
                ELSE IF \E x \in accepted : x.id = b
                THEN VersionAt(t, CHOOSE x \in accepted : x.id = b)
                ELSE ledger[t].versions[b]]
           canClose == ~Uncertain(t, seen) /\ Settled(versions)
           With(outcome) == {x.id : x \in {y \in accepted : Outcome(t, y) = outcome}}
           active == (ledger[t].active \cup With("open"))
                       \ (IF canClose THEN With("closed") ELSE {})
<1>3. Polled(t) = NewLedger(t, active, versions, canClose)
    BY DEF Polled, SeenAt
<1>4. GoodLedger(t, ledger[t]) /\ TypeOK
    BY DEF IInv
<1>5. /\ conflicting \subseteq seen /\ accepted \subseteq seen
      /\ \A x \in conflicting \cup accepted : ~Outdated(x)
      /\ \A x \in accepted : x \notin conflicting
    OBVIOUS
<1>6. \A x \in seen : x.id \in Bill /\ x.at \in Nat /\ x.at > 0
    BY <1>4, <1>1 DEF Observed, TypeOK
<1>7. ASSUME NEW x \in conflicting
      PROVE  versions[x.id] = Unresolved(x.at)
    <2>1. (CHOOSE y \in conflicting : y.id = x.id) = x
        BY <1>5, <1>2
    <2> QED BY <1>5, <1>6, <2>1
<1>8. ASSUME NEW x \in accepted
      PROVE  versions[x.id] = VersionAt(t, x)
    <2>1. ~\E y \in conflicting : y.id = x.id
        BY <1>5, <1>2
    <2>2. (CHOOSE y \in accepted : y.id = x.id) = x
        BY <1>5, <1>2
    <2> QED BY <1>5, <1>6, <2>1, <2>2
<1>9. ASSUME NEW b \in Bill, ~\E x \in conflicting \cup accepted : x.id = b
      PROVE  versions[b] = ledger[t].versions[b]
    BY <1>9
<1>10. \A x \in accepted : VersionAt(t, x).state = Outcome(t, x) /\ VersionAt(t, x).at = x.at
    BY DEF VersionAt
<1>11. \A x \in conflicting : Unresolved(x.at).state = "unknown" /\ Unresolved(x.at).at = x.at
    BY DEF Unresolved
<1>12. /\ ledger[t] \in Ledger /\ ledger[t].active \in SUBSET Bill
       /\ ledger[t].versions \in [Bill -> Known]
    BY <1>4 DEF GoodLedger, Ledger
<1>13. /\ DOMAIN versions = Bill
       /\ versions = [b \in Bill |-> versions[b]]
    OBVIOUS
<1> HIDE DEF versions, accepted, conflicting, recent
<1>14. ASSUME NEW b \in Bill
       PROVE  versions[b] \in Known /\ GoodVersion(t, b, versions[b])
    <2>1. CASE \E x \in conflicting : x.id = b
        <3>1. PICK x \in conflicting : x.id = b
            BY <2>1
        <3> QED BY <3>1, <1>4, <1>5, <1>1, <1>7, UnresolvedGood
    <2>2. CASE \E x \in accepted : x.id = b
        <3>1. PICK x \in accepted : x.id = b
            BY <2>2
        <3>2. /\ x \in Observed /\ x.at \in 1..Len(history[x.id])
              /\ x.state /= "unknown" => x = Reading(x.id, x.at)
            BY <1>5, <1>1
        <3>3. VersionAt(t, x) \in Known /\ GoodVersion(t, x.id, VersionAt(t, x))
            BY <3>2, <1>4, VersionAtGood
        <3> QED BY <3>1, <3>3, <1>8
    <2>3. CASE ~\E x \in conflicting \cup accepted : x.id = b
        BY <2>3, <1>4, <1>9, <1>12 DEF GoodLedger
    <2> QED BY <2>1, <2>2, <2>3
<1>15. versions \in [Bill -> Known]
    BY <1>14, <1>13
<1>16. active \in SUBSET Bill
    BY <1>5, <1>6, <1>12
<1>17. \A b \in With("open") \cup With("closed") : \E x \in accepted :
            x.id = b /\ versions[b].at = x.at /\ versions[b].state = Outcome(t, x)
    BY <1>8, <1>10
<1>18. \A b \in With("closed") : versions[b].state = "closed"
    BY <1>8, <1>10
<1>19. \A b \in With("open") : versions[b].state = "open"
    BY <1>8, <1>10
<1>20. ASSUME NEW b \in Bill, versions[b].state = "open"
       PROVE  b \in active
    <2>1. b \notin With("closed")
        BY <1>18, <1>20
    <2>2. b \in ledger[t].active \cup With("open")
        <3>1. CASE \E x \in accepted : x.id = b
            BY <3>1, <1>8, <1>10, <1>20
        <3>2. CASE \E x \in conflicting : x.id = b
            BY <3>2, <1>7, <1>11, <1>20
        <3>3. CASE ~\E x \in conflicting \cup accepted : x.id = b
            BY <3>3, <1>4, <1>9, <1>20 DEF GoodLedger
        <3> QED BY <3>1, <3>2, <3>3
    <2> QED BY <2>1, <2>2
<1>21. ASSUME NEW b \in active
       PROVE  versions[b].at > 0
    <2>1. b \in Bill
        BY <1>16, <1>21
    <2>2. CASE \E x \in accepted : x.id = b
        BY <2>2, <1>5, <1>6, <1>8, <1>10
    <2>3. CASE \E x \in conflicting : x.id = b
        BY <2>3, <1>5, <1>6, <1>7, <1>11
    <2>4. CASE ~\E x \in conflicting \cup accepted : x.id = b
        <3>1. b \in ledger[t].active
            BY <2>4, <1>21, <1>17
        <3> QED BY <3>1, <2>1, <2>4, <1>4, <1>9 DEF GoodLedger
    <2> QED BY <2>2, <2>3, <2>4
<1>22. canClose \in BOOLEAN
    OBVIOUS
<1>23. active = {} /\ ledger[t].active /= {} => canClose
    OBVIOUS
<1>24. ASSUME NEW b \in active \ ledger[t].active, NEW u \in Table
       PROVE  ledger[u].versions[b].at <= versions[b].at
    <2>1. PICK x \in accepted : x.id = b /\ versions[b].at = x.at
        BY <1>17
    <2>2. ledger[u].versions[b].at \in Nat /\ x.at \in Nat
        BY <1>4, <1>5, <1>6, <1>16, <2>1 DEF TypeOK, Ledger, Known
    <2>3. ~(ledger[u].versions[b].at > x.at)
        BY <1>5, <2>1 DEF Outdated
    <2> QED BY <2>1, <2>2, <2>3
<1>25. ASSUME NEW b \in ledger[t].active \ active
       PROVE  versions[b].state = "closed" /\ Settled(versions)
    <2>1. canClose /\ b \in With("closed")
        BY <1>25
    <2> QED BY <2>1, <1>18
<1>26. \A b \in Bill : GoodVersion(t, b, versions[b])
    BY <1>14
<1> HIDE DEF active, canClose, With
<1>27. GoodLedger(t, NewLedger(t, active, versions, canClose))
    BY <1>4, <1>15, <1>16, <1>20, <1>21, <1>22, <1>23, <1>26, NewLedgerGood
<1>28. /\ Polled(t).active = active
       /\ Polled(t).versions = versions
    BY <1>3 DEF NewLedger
<1> QED BY <1>3, <1>24, <1>25, <1>27, <1>28

-----------------------------------------------------------------------------
(* What a callback decides for a table *)

LEMMA NotifiedFacts ==
    ASSUME IInv, NEW t \in Table, NEW d \in Delivery,
           NEW x \in callback[d].news, ~Superseded(x)
    PROVE  LET new == Notified(t, x) IN
           /\ GoodLedger(t, new)
           /\ \A b \in new.active \ ledger[t].active : \A u \in Table :
                ledger[u].versions[b].at <= new.versions[b].at
           /\ \A b \in ledger[t].active \ new.active :
                /\ new.versions[b].state = "closed"
                /\ Settled(new.versions)
                /\ ~Unaccounted(t, new.versions)
<1> DEFINE conflict ==
            \/ Contradicts(x)
            \/ \E y \in receipt.orders :
                 y.id = x.id /\ y.at = x.at /\ PrintOf(y) /= PrintOf(x)
           versions == [ledger[t].versions EXCEPT
                        ![x.id] = IF conflict THEN Unresolved(x.at)
                                              ELSE VersionAt(t, x)]
           canClose == Settled(versions) /\ ~Unaccounted(t, versions)
           active ==
            IF ~conflict /\ Outcome(t, x) = "open" THEN ledger[t].active \cup {x.id}
            ELSE IF ~conflict /\ Outcome(t, x) = "closed" /\ canClose
            THEN ledger[t].active \ {x.id}
            ELSE ledger[t].active
<1>1. GoodLedger(t, ledger[t]) /\ TypeOK
    BY DEF IInv
<1>2. /\ x \in Observed /\ x.at \in 1..Len(history[x.id]) /\ x.id \in Bill
      /\ x = Reading(x.id, x.at)
    BY DEF IInv, InFlight, Genuine, TypeOK, Callback
<1>3. x.at \in Nat /\ x.at > 0
    BY <1>2
<1>4. /\ ledger[t].versions \in [Bill -> Known]
      /\ ledger[t].active \in SUBSET Bill
    BY <1>1 DEF GoodLedger, Ledger
<1>5. CASE ~Concerns(t, x) \/ (~conflict /\ StuckAt(t, x))
    <2>1. Notified(t, x) = ledger[t]
        BY <1>5 DEF Notified
    <2> QED BY <2>1, <1>1
<1>6. CASE ~(~Concerns(t, x) \/ (~conflict /\ StuckAt(t, x)))
    <2>1. Notified(t, x) = NewLedger(t, active, versions, canClose)
        BY <1>6 DEF Notified
    <2>2. /\ VersionAt(t, x) \in Known
          /\ GoodVersion(t, x.id, VersionAt(t, x))
        BY <1>1, <1>2, VersionAtGood
    <2>3. /\ Unresolved(x.at) \in Known
          /\ GoodVersion(t, x.id, Unresolved(x.at))
        BY <1>1, <1>2, UnresolvedGood
    <2>4. versions \in [Bill -> Known]
        BY <1>2, <1>4, <2>2, <2>3
    <2>5. versions[x.id] = IF conflict THEN Unresolved(x.at) ELSE VersionAt(t, x)
        BY <1>2, <1>4
    <2>6. \A b \in Bill \ {x.id} : versions[b] = ledger[t].versions[b]
        BY <1>4
    <2>7. versions[x.id].at = x.at
        BY <2>5 DEF Unresolved, VersionAt
    <2>8. /\ conflict => versions[x.id].state = "unknown"
          /\ ~conflict => versions[x.id].state = Outcome(t, x)
        BY <2>5 DEF Unresolved, VersionAt
    <2>9. canClose \in BOOLEAN /\ conflict \in BOOLEAN
        BY DEF Contradicts
    <2> HIDE DEF versions, conflict
    <2>10. \A b \in Bill : GoodVersion(t, b, versions[b])
        BY <1>1, <2>2, <2>3, <2>5, <2>6 DEF GoodLedger
    <2>11. active \in SUBSET Bill
        BY <1>2, <1>4
    <2>12. \A b \in active : versions[b].at > 0
        BY <1>1, <1>3, <2>6, <2>7, <2>11 DEF GoodLedger
    <2>13. ASSUME NEW b \in Bill, versions[b].state = "open"
           PROVE  b \in active
        <3>1. CASE b = x.id
            BY <3>1, <2>8, <2>9, <2>13
        <3>2. CASE b /= x.id
            <4>1. b \in ledger[t].active
                BY <3>2, <2>6, <2>13, <1>1 DEF GoodLedger
            <4> QED BY <3>2, <4>1
        <3> QED BY <3>1, <3>2
    <2>14. active = {} /\ ledger[t].active /= {} => canClose
        OBVIOUS
    <2>15. ASSUME NEW b \in active \ ledger[t].active, NEW u \in Table
           PROVE  ledger[u].versions[b].at <= versions[b].at
        <3>1. b = x.id
            BY <2>15
        <3>2. ledger[u].versions[b].at \in Nat
            BY <1>1, <2>11 DEF TypeOK, Ledger, Known
        <3>3. ~(ledger[u].versions[b].at > x.at)
            BY <3>1 DEF Superseded, Outdated
        <3> QED BY <1>3, <2>7, <3>1, <3>2, <3>3
    <2>16. ASSUME NEW b \in ledger[t].active \ active
           PROVE  /\ versions[b].state = "closed"
                  /\ Settled(versions)
                  /\ ~Unaccounted(t, versions)
        <3>1. b = x.id /\ ~conflict /\ Outcome(t, x) = "closed" /\ canClose
            BY <2>16
        <3> QED BY <3>1, <2>8
    <2> HIDE DEF active, canClose
    <2>17. GoodLedger(t, NewLedger(t, active, versions, canClose))
        BY <1>1, <2>4, <2>9, <2>10, <2>11, <2>12, <2>13, <2>14, NewLedgerGood
    <2>18. /\ Notified(t, x).active = active
           /\ Notified(t, x).versions = versions
        BY <2>1 DEF NewLedger
    <2> QED BY <2>1, <2>15, <2>16, <2>17, <2>18
<1> QED BY <1>5, <1>6

-----------------------------------------------------------------------------
(* Helpers of the steps *)

\* Nothing that is captured changes but what still counts.
LEMMA Staled ==
    ASSUME TypeOK, NEW T \in SUBSET Table
    PROVE  /\ StaleFor(T, poll) \in Poll
           /\ StaleFor(T, poll).byTable = poll.byTable
           /\ StaleFor(T, poll).byId = poll.byId
           /\ StaleFor(T, poll).asked = poll.asked
           /\ StaleFor(T, poll).left = poll.left
           /\ Touched(T) \in [Delivery -> Callback]
           /\ \A d \in Delivery : Touched(T)[d].news = callback[d].news
<1>1. poll \in Poll /\ callback \in [Delivery -> Callback]
    BY DEF TypeOK
<1>2. \A p \in Poll : /\ StaleFor(T, p) \in Poll
                      /\ StaleFor(T, p).byTable = p.byTable
                      /\ StaleFor(T, p).byId = p.byId
                      /\ StaleFor(T, p).asked = p.asked
                      /\ StaleFor(T, p).left = p.left
    BY DEF Poll, StaleFor
<1>3. \A c \in Callback : /\ StaleFor(T, c) \in Callback
                          /\ StaleFor(T, c).news = c.news
    BY DEF Callback, StaleFor
<1> QED BY <1>1, <1>2, <1>3 DEF Touched

LEMMA LedgerStep ==
    ASSUME history' = history, \A t \in Table : GoodLedger(t, ledger'[t])
    PROVE  (\A t \in Table : GoodLedger(t, ledger[t]))'
BY SMTT(90) DEF GoodLedger, GoodVersion, Reading

LEMMA LedgerKept ==
    ASSUME IInv, UNCHANGED <<history, ledger>>
    PROVE  (\A t \in Table : GoodLedger(t, ledger[t]))'
<1>1. \A t \in Table : GoodLedger(t, ledger'[t])
    BY DEF IInv
<1> QED BY <1>1, LedgerStep

\* Readings stay genuine when nothing but what counts changes.
LEMMA FlightKept ==
    ASSUME InFlight, history' = history,
           poll'.byTable \subseteq poll.byTable, poll'.byId \subseteq poll.byId,
           \A t \in Table : poll'.asked[t] \subseteq poll.asked[t],
           \A d \in Delivery : callback'[d].news \subseteq callback[d].news
    PROVE  InFlight'
BY DEF InFlight, Genuine, Reading

LEMMA NothingCaptured ==
    /\ NoPoll \in Poll
    /\ NoPoll.byTable = {} /\ NoPoll.byId = {} /\ NoPoll.left = {}
    /\ \A t \in Table : NoPoll.asked[t] = {}
    /\ NoCallback \in Callback
    /\ NoCallback.news = {}
    /\ NoReceipt \in Receipt
BY DEF NoPoll, Poll, NoCallback, Callback, NoReceipt, Receipt

-----------------------------------------------------------------------------
(* The initial state and the steps *)

LEMMA InitGood == ASSUME Init PROVE IInv
<1>1. NeverSeen \in Known
    BY DEF NeverSeen, Known
<1>2. EmptyLedger \in Ledger
    BY <1>1 DEF EmptyLedger, Ledger
<1>3. TypeOK
    BY <1>2, NothingCaptured DEF Init, TypeOK, Statuses
<1>4. ASSUME NEW t \in Table PROVE GoodLedger(t, ledger[t])
    <2>1. ledger[t] = EmptyLedger
        BY DEF Init
    <2>2. \A b \in Bill : EmptyLedger.versions[b] = NeverSeen
        BY DEF EmptyLedger
    <2>3. \A b \in Bill : GoodVersion(t, b, NeverSeen)
        BY <1>3 DEF GoodVersion, NeverSeen, TypeOK
    <2> QED BY <1>2, <2>1, <2>2, <2>3 DEF GoodLedger, EmptyLedger, NeverSeen
<1>5. InFlight
    BY NothingCaptured DEF Init, InFlight, Genuine
<1> QED BY <1>3, <1>4, <1>5 DEF IInv

\* A register publishes another version: what was published before stays.
LEMMA PublishStep ==
    ASSUME IInv, NEW b \in Bill, NEW v \in Version, Publish(b, v)
    PROVE  IInv'
<1>1. history \in [Bill -> Seq(Version)] /\ history' = [history EXCEPT ![b] = Append(@, v)]
    BY DEF IInv, TypeOK, Publish
<1>2. history' \in [Bill -> Seq(Version)]
    BY <1>1
<1>3. ASSUME NEW c \in Bill
      PROVE  /\ Len(history[c]) \in Nat /\ Len(history'[c]) \in Nat
             /\ Len(history[c]) <= Len(history'[c])
             /\ \A k \in 1..Len(history[c]) : history'[c][k] = history[c][k]
    <2>1. history[c] \in Seq(Version)
        BY <1>1
    <2>2. CASE c = b
        BY <1>1, <2>1, <2>2
    <2>3. CASE c /= b
        BY <1>1, <2>1, <2>3
    <2> QED BY <2>2, <2>3
<1>4. TypeOK'
    BY <1>2 DEF IInv, TypeOK, Publish
<1>5. ASSUME NEW t \in Table
      PROVE  GoodLedger(t, ledger[t])'
    <2>1. GoodLedger(t, ledger[t]) /\ ledger' = ledger
        BY DEF IInv, Publish
    <2>2. ASSUME NEW c \in Bill
          PROVE  GoodVersion(t, c, ledger[t].versions[c])'
        <3> DEFINE w == ledger[t].versions[c]
        <3>1. GoodVersion(t, c, w) /\ w.at \in Nat
            BY <2>1 DEF GoodLedger, Ledger, Known
        <3>2. w.at <= Len(history'[c])
            BY <1>3, <3>1 DEF GoodVersion
        <3>3. w.state /= "none" => w.at \in 1..Len(history[c])
            BY <1>3, <3>1 DEF GoodVersion
        <3>4. ASSUME w.state \in {"open", "closed"}
              PROVE  (w.state = Outcome(t, Reading(c, w.at)) /\ w.print = PrintOf(Reading(c, w.at)))'
            <4>1. history'[c][w.at] = history[c][w.at]
                BY <1>3, <3>3, <3>4
            <4>2. Reading(c, w.at)' = Reading(c, w.at) /\ w' = w
                BY <2>1, <4>1 DEF Reading
            <4>3. w.state = Outcome(t, Reading(c, w.at)) /\ w.print = PrintOf(Reading(c, w.at))
                BY <3>1, <3>4 DEF GoodVersion
            <4> HIDE DEF w
            <4> QED BY <4>2, <4>3 DEF Outcome, PrintOf
        <3> QED BY <2>1, <3>1, <3>2, <3>4 DEF GoodVersion
    <2> QED BY <2>1, <2>2 DEF GoodLedger
<1>6. ASSUME NEW S, Genuine(S)
      PROVE  \A x \in S : /\ x.id \in Bill
                          /\ x.at \in 1..Len(history'[x.id])
                          /\ history'[x.id][x.at] = history[x.id][x.at]
    BY <1>3, <1>6 DEF Genuine
<1>7. InFlight'
    <2>1. UNCHANGED <<poll, callback>>
        BY DEF Publish
    <2>2. Genuine(poll.byTable)'
        BY <2>1, <1>6 DEF IInv, InFlight, Genuine, Reading
    <2>3. Genuine(poll.byId)'
        BY <2>1, <1>6 DEF IInv, InFlight, Genuine, Reading
    <2>4. ASSUME NEW d \in Delivery
          PROVE  Genuine(callback[d].news)'
        <3> DEFINE S == callback[d].news
        <3>1. Genuine(S) /\ S' = S
            BY <2>1 DEF IInv, InFlight
        <3>2. \A x \in S : /\ x.id \in Bill
                           /\ x.at \in 1..Len(history'[x.id])
                           /\ history'[x.id][x.at] = history[x.id][x.at]
            BY <3>1, <1>6
        <3> HIDE DEF S
        <3>3. Genuine(S)'
            BY <3>1, <3>2 DEF Genuine, Reading
        <3> QED BY <3>3 DEF S
    <2>5. ASSUME NEW t \in Table, NEW c \in poll.asked[t]
          PROVE  history'[c] /= <<>>
        <3>1. c \in Bill /\ history[c] /= <<>>
            BY DEF IInv, InFlight, TypeOK, Poll
        <3>2. history[c] \in Seq(Version) /\ history'[c] \in Seq(Version)
            BY <1>1, <1>2, <3>1
        <3>3. Len(history[c]) > 0
            BY <3>1, <3>2
        <3> QED BY <1>3, <3>1, <3>2, <3>3
    <2>6. \A x \in poll'.byTable : x.state /= "closed"
        BY <2>1 DEF IInv, InFlight
    <2> QED BY <2>1, <2>2, <2>3, <2>4, <2>5, <2>6 DEF InFlight
<1> QED BY <1>4, <1>5, <1>7 DEF IInv

LEMMA RegistersStep == ASSUME IInv, Registers PROVE IInv'
<1>1. PICK b \in Bill :
        \/ \E T \in Seatings : OpenBill(b, T, "creating") \/ OpenBill(b, T, "open")
        \/ Created(b)
        \/ \E T \in Seatings : Amend(b, T, "open") \/ Amend(b, T, "closed")
    BY DEF Registers
<1>2. \A T \in Seatings : T \in SUBSET Place
    BY SyrveAssumption
<1>3. ASSUME NEW T \in Seatings, NEW kind \in {"creating", "open"}, OpenBill(b, T, kind)
      PROVE  IInv'
    <2>1. [kind |-> kind, tables |-> T] \in Version
        BY <1>2 DEF Version
    <2> QED BY <1>3, <2>1, PublishStep DEF OpenBill
<1>4. ASSUME Created(b) PROVE IInv'
    <2> DEFINE v == history[b][Len(history[b])]
    <2>1. history[b] \in Seq(Version) /\ history[b] /= <<>>
        BY <1>4 DEF IInv, TypeOK, Created
    <2>2. v \in Version
        BY <2>1
    <2>3. [v EXCEPT !.kind = "open"] \in Version
        BY <2>2 DEF Version
    <2> QED BY <1>4, <2>3, PublishStep DEF Created
<1>5. ASSUME NEW T \in Seatings, NEW kind \in {"open", "closed"}, Amend(b, T, kind)
      PROVE  IInv'
    <2>1. [kind |-> kind, tables |-> T] \in Version
        BY <1>2 DEF Version
    <2> QED BY <1>5, <2>1, PublishStep DEF Amend
<1> QED BY <1>1, <1>3, <1>4, <1>5

LEMMA AskedTyped ==
    ASSUME IInv, NEW t \in Table
    PROVE  /\ Asked(t) \in SUBSET Bill
           /\ \A b \in Asked(t) : history[b] /= <<>>
<1>1. GoodLedger(t, ledger[t])
    BY DEF IInv
<1>2. Asked(t) \in SUBSET Bill
    BY <1>1 DEF Asked, GoodLedger, Ledger
<1>3. ASSUME NEW b \in Asked(t) PROVE history[b] /= <<>>
    <2>1. b \in Bill
        BY <1>2
    <2>2. ledger[t].versions[b].at > 0
        BY <1>1, <1>3, <2>1 DEF Asked, GoodLedger, GoodVersion
    <2>3. ledger[t].versions[b].at <= Len(history[b])
        BY <1>1, <2>1 DEF GoodLedger, GoodVersion
    <2>4. ledger[t].versions[b].at \in Nat
        BY <1>1, <2>1 DEF GoodLedger, Ledger, Known
    <2> QED BY <2>2, <2>3, <2>4
<1> QED BY <1>2, <1>3

LEMMA CurrentGenuine ==
    ASSUME TypeOK, NEW S \in SUBSET Bill, \A b \in S : history[b] /= <<>>
    PROVE  /\ Genuine({Current(b) : b \in S})
           /\ {Current(b) : b \in S} \in SUBSET Observed
<1>1. ASSUME NEW b \in S
      PROVE  /\ Current(b).id = b /\ Current(b).at = Len(history[b])
             /\ Len(history[b]) \in 1..Len(history[b])
             /\ Current(b) \in Observed
    <2>1. history[b] \in Seq(Version) /\ history[b] /= <<>>
        BY DEF TypeOK
    <2>2. Len(history[b]) \in 1..Len(history[b])
        BY <2>1
    <2> QED BY <2>2, ReadingFacts DEF Current
<1>2. \A b \in S : Current(b) = Reading(Current(b).id, Current(b).at)
    BY <1>1 DEF Current
<1> QED BY <1>1, <1>2 DEF Genuine

LEMMA CaptureStep == ASSUME IInv, Capture PROVE IInv'
<1> DEFINE asked == [t \in Table |-> Asked(t)]
<1>1. asked \in [Table -> SUBSET Bill]
    BY AskedTyped
<1>2. /\ poll' \in Poll
      /\ poll'.byTable = {} /\ poll'.byId = {} /\ poll'.asked = asked
    <2>1. poll' = [phase |-> "captured", fresh |-> Table, asked |-> asked, alive |-> {},
                   byTable |-> {}, byId |-> {}, left |-> {}]
        BY DEF Capture, NoPoll
    <2> QED BY <1>1, <2>1 DEF Poll
<1>3. TypeOK'
    BY <1>2 DEF IInv, TypeOK, Capture
<1>4. InFlight'
    <2>1. \A t \in Table : \A b \in poll'.asked[t] : history'[b] /= <<>>
        BY <1>2, AskedTyped DEF Capture
    <2>2. \A d \in Delivery : Genuine(callback[d].news)'
        BY DEF IInv, InFlight, Capture, Genuine, Reading
    <2>3. /\ Genuine(poll.byTable)' /\ Genuine(poll.byId)'
          /\ \A x \in poll'.byTable : x.state /= "closed"
        BY <1>2 DEF Genuine
    <2> QED BY <2>1, <2>2, <2>3 DEF InFlight
<1>5. UNCHANGED <<history, ledger>>
    BY DEF Capture
<1> QED BY <1>3, <1>4, <1>5, LedgerKept DEF IInv

LEMMA ListStep ==
    ASSUME IInv, NEW alive \in SUBSET Register, NEW listed \in SUBSET Bill,
           ListBills(alive, listed)
    PROVE  IInv'
<1> DEFINE read == {Current(b) : b \in listed}
<1>1. \A b \in listed : history[b] /= <<>>
    BY DEF ListBills
<1>2. Genuine(read) /\ read \in SUBSET Observed
    BY <1>1, CurrentGenuine DEF IInv
<1>3. UNCHANGED <<history, ledger, status, callback>>
    BY DEF ListBills
<1> HIDE DEF read
<1>4. /\ poll' \in Poll
      /\ poll'.byTable \in {read, {}}
      /\ poll'.byId \subseteq poll.byId
      /\ \A t \in Table : poll'.asked[t] \subseteq poll.asked[t]
    <2>1. CASE Visible(alive) = {}
        <3>1. poll' = NoPoll
            BY <2>1 DEF ListBills
        <3> QED BY <3>1, NothingCaptured
    <2>2. CASE Visible(alive) /= {}
        <3>1. poll' = [poll EXCEPT !.phase = "listed", !.alive = alive, !.byTable = read]
            BY <2>2 DEF ListBills, read
        <3>2. poll \in Poll
            BY DEF IInv, TypeOK
        <3> QED BY <1>2, <3>1, <3>2 DEF Poll
    <2> QED BY <2>1, <2>2
<1>5. receipt' \in Receipt
    BY NothingCaptured DEF ListBills, IInv, TypeOK
<1>6. TypeOK'
    BY <1>3, <1>4, <1>5 DEF IInv, TypeOK
<1>7. InFlight'
    <2>1. Genuine(poll.byTable)'
        BY <1>2, <1>3, <1>4 DEF Genuine, Reading
    <2>2. Genuine(poll.byId)'
        BY <1>3, <1>4 DEF IInv, InFlight, Genuine, Reading
    <2>3. \A d \in Delivery : Genuine(callback[d].news)'
        BY <1>3 DEF IInv, InFlight, Genuine, Reading
    <2>4. \A t \in Table : \A b \in poll'.asked[t] : history'[b] /= <<>>
        BY <1>3, <1>4 DEF IInv, InFlight
    <2>5. \A x \in poll'.byTable : x.state /= "closed"
        <3>1. \A b \in listed : Current(b).state /= "closed"
            BY DEF ListBills
        <3>2. \A x \in read : x.state /= "closed"
            BY <3>1 DEF read
        <3> QED BY <1>4, <3>2
    <2> QED BY <2>1, <2>2, <2>3, <2>4, <2>5 DEF InFlight
<1> QED BY <1>3, <1>6, <1>7, LedgerKept DEF IInv

LEMMA LookUpStep ==
    ASSUME IInv, NEW found \in SUBSET Bill, LookUpBills(found)
    PROVE  IInv'
<1> DEFINE wanted == UNION {poll.asked[t] : t \in Visible(poll.alive)}
           shown == {x \in poll.byTable : x.id \in wanted /\ x.state /= "unknown"}
           read == {Current(b) : b \in found}
           byId == shown \cup read
<1>1. found \subseteq wanted /\ UNCHANGED <<history, ledger, status, callback>>
    BY DEF LookUpBills
<1>2. ASSUME NEW b \in found PROVE history[b] /= <<>>
    <2>1. PICK t \in Table : b \in poll.asked[t]
        BY <1>1 DEF Visible
    <2> QED BY <2>1 DEF IInv, InFlight
<1>3. Genuine(read) /\ read \in SUBSET Observed
    BY <1>2, CurrentGenuine DEF IInv
<1>4. poll \in Poll /\ Genuine(poll.byTable)
    BY DEF IInv, TypeOK, InFlight
<1>5. Genuine(byId) /\ byId \in SUBSET Observed
    <2> HIDE DEF read, wanted
    <2> QED BY <1>3, <1>4 DEF Genuine, Poll
<1>6. /\ poll' = [poll EXCEPT !.phase = "read", !.byId = byId,
                               !.asked = NoPoll.asked,
                               !.left = Visible(poll.alive)]
      /\ receipt' = [valid |-> TRUE, live |-> poll.alive,
                     orders |-> Latest(poll.byTable \cup byId)]
    BY DEF LookUpBills
<1> HIDE DEF byId
<1>7. NoPoll.asked \in [Table -> SUBSET Bill]
    BY DEF NoPoll
<1>8. Visible(poll.alive) \in SUBSET Table
    BY DEF Visible
<1>9. poll' \in Poll /\ poll'.byTable = poll.byTable /\ poll'.byId = byId
      /\ poll'.asked = NoPoll.asked
    BY <1>4, <1>5, <1>6, <1>7, <1>8 DEF Poll
<1>10. receipt' \in Receipt
    BY <1>4, <1>5, <1>6 DEF Receipt, Latest, Poll
<1>11. TypeOK'
    BY <1>1, <1>9, <1>10 DEF IInv, TypeOK
<1>12. InFlight'
    <2>1. Genuine(poll.byTable)'
        BY <1>1, <1>4, <1>9 DEF Genuine, Reading
    <2>2. Genuine(poll.byId)'
        BY <1>1, <1>5, <1>9 DEF Genuine, Reading
    <2>3. \A d \in Delivery : Genuine(callback[d].news)'
        BY <1>1 DEF IInv, InFlight, Genuine, Reading
    <2>4. \A t \in Table : \A b \in poll'.asked[t] : history'[b] /= <<>>
        BY <1>9, NothingCaptured
    <2>5. \A x \in poll'.byTable : x.state /= "closed"
        BY <1>9 DEF IInv, InFlight
    <2> QED BY <2>1, <2>2, <2>3, <2>4, <2>5 DEF InFlight
<1> QED BY <1>1, <1>11, <1>12, LedgerKept DEF IInv

LEMMA StatusTyped ==
    ASSUME TypeOK, NEW t \in Table, NEW new
    PROVE  StatusEvent(t, new) \in Statuses
BY DEF TypeOK, StatusEvent, Statuses

LEMMA ApplyStep ==
    ASSUME IInv, NEW t \in Table, Apply(t)
    PROVE  IInv'
<1> DEFINE new == IF t \in poll.fresh THEN Polled(t) ELSE ledger[t]
<1>1. /\ ledger' = [ledger EXCEPT ![t] = new]
      /\ status' = [status EXCEPT ![t] = StatusEvent(t, new)]
      /\ poll' = IF poll.left = {t} THEN NoPoll
                 ELSE [poll EXCEPT !.left = @ \ {t}, !.fresh = @ \ {t}]
      /\ callback' = IF new = ledger[t] THEN callback ELSE Touched({t})
      /\ UNCHANGED <<history, receipt>>
    BY DEF Apply
<1>2. GoodLedger(t, new)
    BY PolledFacts DEF IInv
<1> HIDE DEF new
<1>3. \A u \in Table : GoodLedger(u, ledger'[u])
    BY <1>1, <1>2 DEF IInv, TypeOK
<1>4. (\A u \in Table : GoodLedger(u, ledger[u]))'
    BY <1>1, <1>3, LedgerStep
<1>5. /\ poll' \in Poll
      /\ poll'.byTable \subseteq poll.byTable /\ poll'.byId \subseteq poll.byId
      /\ \A u \in Table : poll'.asked[u] \subseteq poll.asked[u]
    <2>1. poll \in Poll
        BY DEF IInv, TypeOK
    <2>2. CASE poll.left = {t}
        BY <1>1, <2>2, NothingCaptured
    <2>3. CASE poll.left /= {t}
        BY <1>1, <2>1, <2>3 DEF Poll
    <2> QED BY <2>2, <2>3
<1>6. /\ callback' \in [Delivery -> Callback]
      /\ \A d \in Delivery : callback'[d].news \subseteq callback[d].news
    <2>1. TypeOK /\ {t} \in SUBSET Table
        BY DEF IInv
    <2>2. /\ Touched({t}) \in [Delivery -> Callback]
          /\ \A d \in Delivery : Touched({t})[d].news = callback[d].news
        BY <2>1, Staled
    <2>3. callback \in [Delivery -> Callback]
        BY <2>1 DEF TypeOK
    <2> QED BY <1>1, <2>2, <2>3
<1>7. status' \in [Table -> Statuses]
    BY <1>1, StatusTyped DEF IInv, TypeOK
<1>8. ledger' \in [Table -> Ledger]
    BY <1>1, <1>2 DEF IInv, TypeOK, GoodLedger
<1>9. TypeOK'
    BY <1>1, <1>5, <1>6, <1>7, <1>8 DEF IInv, TypeOK
<1>10. InFlight'
    BY <1>1, <1>5, <1>6, FlightKept DEF IInv
<1> QED BY <1>4, <1>9, <1>10 DEF IInv

LEMMA AbandonStep == ASSUME IInv, Abandon PROVE IInv'
<1>1. poll' = NoPoll /\ UNCHANGED <<history, ledger, status, receipt, callback>>
    BY DEF Abandon
<1>2. TypeOK'
    BY <1>1, NothingCaptured DEF IInv, TypeOK
<1>3. InFlight'
    BY <1>1, NothingCaptured, FlightKept DEF IInv
<1> QED BY <1>1, <1>2, <1>3, LedgerKept DEF IInv

LEMMA WorkerStep == ASSUME IInv, Worker PROVE IInv'
BY CaptureStep, ListStep, LookUpStep, ApplyStep, AbandonStep DEF Worker

LEMMA ReceiveStep ==
    ASSUME IInv, NEW d \in Delivery, NEW b \in Bill, NEW k \in 1..MaxVersion,
           Receive(d, b, k)
    PROVE  IInv'
<1> DEFINE c == [news |-> {Reading(b, k)}, fresh |-> Table,
                 was |-> {t \in Table : b \in ledger[t].active}]
<1>1. /\ k \in 1..Len(history[b]) /\ callback' = [callback EXCEPT ![d] = c]
      /\ UNCHANGED <<history, ledger, status, poll, receipt>>
    BY DEF Receive
<1>2. /\ Reading(b, k) \in Observed
      /\ Reading(b, k).id = b /\ Reading(b, k).at = k
    BY <1>1, ReadingFacts DEF IInv
<1>3. c \in Callback /\ c.news = {Reading(b, k)}
    BY <1>2 DEF Callback
<1> HIDE DEF c
<1>4. Genuine(c.news)
    BY <1>1, <1>2, <1>3 DEF Genuine
<1>5. TypeOK'
    BY <1>1, <1>3 DEF IInv, TypeOK
<1>6. InFlight'
    <2>1. \A e \in Delivery : callback'[e] = IF e = d THEN c ELSE callback[e]
        BY <1>1 DEF IInv, TypeOK
    <2>2. ASSUME NEW e \in Delivery PROVE Genuine(callback[e].news)'
        <3>1. Genuine(callback'[e].news)
            BY <2>1, <1>4 DEF IInv, InFlight
        <3> QED BY <3>1, <1>1 DEF Genuine, Reading
    <2>3. /\ Genuine(poll.byTable)' /\ Genuine(poll.byId)'
          /\ \A t \in Table : \A a \in poll'.asked[t] : history'[a] /= <<>>
          /\ \A x \in poll'.byTable : x.state /= "closed"
        BY <1>1 DEF IInv, InFlight, Genuine, Reading
    <2> QED BY <2>2, <2>3 DEF InFlight
<1> QED BY <1>1, <1>5, <1>6, LedgerKept DEF IInv

LEMMA CommitStep ==
    ASSUME IInv, NEW d \in Delivery, Commit(d)
    PROVE  IInv'
<1>1. PICK x \in callback[d].news :
        LET new == [t \in Table |-> IF Superseded(x) THEN ledger[t]
                                                     ELSE Notified(t, x)]
            written == {t \in Table : new[t] /= ledger[t]}
        IN  /\ ledger' = new
            /\ status' = [t \in Table |-> StatusEvent(t, new[t])]
            /\ poll' = StaleFor(written, poll)
            /\ callback' = [Touched(written) EXCEPT ![d] = NoCallback]
            /\ UNCHANGED <<history, receipt>>
    BY DEF Commit
<1> DEFINE new == [t \in Table |-> IF Superseded(x) THEN ledger[t]
                                                    ELSE Notified(t, x)]
           written == {t \in Table : new[t] /= ledger[t]}
<1>2. \A t \in Table : GoodLedger(t, new[t])
    BY NotifiedFacts DEF IInv
<1>3. written \in SUBSET Table
    OBVIOUS
<1>4. /\ ledger' = new
      /\ status' = [t \in Table |-> StatusEvent(t, new[t])]
      /\ poll' = StaleFor(written, poll)
      /\ callback' = [Touched(written) EXCEPT ![d] = NoCallback]
      /\ UNCHANGED <<history, receipt>>
      /\ new = [t \in Table |-> new[t]]
    BY <1>1
<1> HIDE DEF new, written
<1>5. (\A t \in Table : GoodLedger(t, ledger[t]))'
    BY <1>2, <1>4, LedgerStep
<1>6. ledger' \in [Table -> Ledger]
    BY <1>2, <1>4 DEF GoodLedger
<1>7. status' \in [Table -> Statuses]
    BY <1>4, StatusTyped DEF IInv
<1>8. /\ poll' \in Poll /\ poll'.byTable = poll.byTable /\ poll'.byId = poll.byId
      /\ poll'.asked = poll.asked
    BY <1>3, <1>4, Staled DEF IInv
<1>9. /\ callback' \in [Delivery -> Callback]
      /\ \A e \in Delivery : callback'[e].news \subseteq callback[e].news
    BY <1>3, <1>4, Staled, NothingCaptured DEF IInv
<1>10. TypeOK'
    BY <1>4, <1>6, <1>7, <1>8, <1>9 DEF IInv, TypeOK
<1>11. InFlight'
    BY <1>4, <1>8, <1>9, FlightKept DEF IInv
<1> QED BY <1>5, <1>10, <1>11 DEF IInv

LEMMA ReceiverStep == ASSUME IInv, Receiver PROVE IInv'
<1>1. ASSUME NEW d \in Delivery, Refuse(d) PROVE IInv'
    <2>1. /\ callback' = [callback EXCEPT ![d] = NoCallback]
          /\ UNCHANGED <<history, ledger, status, poll, receipt>>
        BY <1>1 DEF Refuse
    <2>2. TypeOK'
        BY <2>1, NothingCaptured DEF IInv, TypeOK
    <2>3. \A e \in Delivery : callback'[e].news \subseteq callback[e].news
        BY <2>1, NothingCaptured DEF IInv, TypeOK
    <2>4. InFlight'
        BY <2>1, <2>3, FlightKept DEF IInv
    <2> QED BY <2>1, <2>2, <2>4, LedgerKept DEF IInv
<1>2. ASSUME LoseReceipt PROVE IInv'
    <2>1. receipt' = NoReceipt /\ UNCHANGED <<history, ledger, status, poll, callback>>
        BY <1>2 DEF LoseReceipt
    <2>2. TypeOK'
        BY <2>1, NothingCaptured DEF IInv, TypeOK
    <2>3. InFlight'
        BY <2>1, FlightKept DEF IInv
    <2> QED BY <2>1, <2>2, <2>3, LedgerKept DEF IInv
<1> QED BY <1>1, <1>2, ReceiveStep, CommitStep DEF Receiver

LEMMA RestaurantStep == ASSUME IInv, Restaurant PROVE IInv'
<1>1. PICK t \in Table, s \in Marks :
        (\E frees \in BOOLEAN : StaffMarks(t, s, frees)) \/ BookingPaints(t, s)
    BY DEF Restaurant
<1>2. /\ status' = [status EXCEPT ![t] = s]
      /\ poll' = StaleFor({t}, poll) /\ callback' = Touched({t})
      /\ UNCHANGED <<history, receipt>>
      /\ \/ ledger' = [ledger EXCEPT ![t].freed = ledger[t].active]
         \/ ledger' = ledger
    BY <1>1 DEF StaffMarks, BookingPaints
<1>3. s \in Statuses
    BY SyrveAssumption
<1>4. \A u \in Table : GoodLedger(u, ledger'[u])
    <2>1. CASE ledger' = ledger
        BY <2>1 DEF IInv
    <2>2. CASE ledger' = [ledger EXCEPT ![t].freed = ledger[t].active]
        <3> DEFINE l == [ledger[t] EXCEPT !.freed = ledger[t].active]
        <3>1. GoodLedger(t, ledger[t]) /\ ledger[t] \in Ledger
            BY DEF IInv, TypeOK
        <3>2. /\ l \in Ledger /\ l.active = ledger[t].active
              /\ l.freed = ledger[t].active /\ l.last = ledger[t].last
              /\ l.versions = ledger[t].versions
            BY <3>1 DEF Ledger
        <3> HIDE DEF l
        <3>3. GoodLedger(t, l)
            BY <3>1, <3>2 DEF GoodLedger
        <3>4. ledger' = [ledger EXCEPT ![t] = l]
            BY <2>2 DEF l
        <3> QED BY <3>3, <3>4 DEF IInv, TypeOK
    <2> QED BY <1>2, <2>1, <2>2
<1>5. (\A u \in Table : GoodLedger(u, ledger[u]))'
    BY <1>2, <1>4, LedgerStep
<1>6. ledger' \in [Table -> Ledger]
    <2>1. DOMAIN ledger' = Table /\ ledger' = [u \in Table |-> ledger'[u]]
        BY <1>2 DEF IInv, TypeOK
    <2> QED BY <1>4, <2>1 DEF GoodLedger
<1>7. /\ poll' \in Poll /\ poll'.byTable = poll.byTable /\ poll'.byId = poll.byId
      /\ poll'.asked = poll.asked
      /\ callback' \in [Delivery -> Callback]
      /\ \A d \in Delivery : callback'[d].news = callback[d].news
    BY <1>2, Staled DEF IInv
<1>8. TypeOK'
    BY <1>2, <1>3, <1>6, <1>7 DEF IInv, TypeOK
<1>9. InFlight'
    BY <1>2, <1>7, FlightKept DEF IInv
<1> QED BY <1>5, <1>8, <1>9 DEF IInv

LEMMA Stutter == ASSUME IInv, UNCHANGED vars PROVE IInv'
<1>1. UNCHANGED <<history, ledger, status, poll, receipt, callback>>
    BY DEF vars
<1>2. TypeOK'
    BY <1>1 DEF IInv, TypeOK
<1>3. InFlight'
    BY <1>1, FlightKept DEF IInv
<1> QED BY <1>1, <1>2, <1>3, LedgerKept DEF IInv

LEMMA Inductive == ASSUME IInv, [Next]_vars PROVE IInv'
BY RegistersStep, WorkerStep, ReceiverStep, RestaurantStep, Stutter DEF Next

-----------------------------------------------------------------------------
(* Theorems *)

\* Everything the worker, the receiver and staff do keeps the inductive invariant.
THEOREM AlwaysGood == Spec => []IInv
BY InitGood, Inductive, PTL DEF Spec

\* Every variable keeps its type.
THEOREM TypeCorrect == Spec => []TypeOK
<1>1. IInv => TypeOK
    BY DEF IInv
<1> QED BY <1>1, AlwaysGood, PTL

\* copyState never refuses what the code itself has stored, so no table is locked
\* out of its updates.
THEOREM LedgersUsable == Spec => []LedgerUsable
<1>1. IInv => LedgerUsable
    BY DEF IInv, LedgerUsable, GoodLedger, GoodVersion
<1> QED BY <1>1, AlwaysGood, PTL

\* The ledgers only say of a bill what its register has published, however the
\* polls and callbacks interleave.
THEOREM LedgersTrue == Spec => []LedgerIsTrue
<1>1. IInv => LedgerIsTrue
    BY DEF IInv, LedgerIsTrue, GoodLedger, GoodVersion
<1> QED BY <1>1, AlwaysGood, PTL

\* A ledger can always be read back, and tells what the registers published.
THEOREM LedgersHold == Spec => []LedgerHolds
BY LedgersUsable, LedgersTrue, PTL DEF LedgerHolds

-----------------------------------------------------------------------------
(* What a step may do to a table *)

\* The bills that are active at a table change only when a poll is applied to it
\* or a callback is committed.
LEMMA WhoChanges ==
    ASSUME IInv, [Next]_vars, NEW t \in Table
    PROVE  \/ ledger'[t].active = ledger[t].active
           \/ Apply(t) /\ ledger'[t] = Polled(t)
           \/ \E d \in Delivery : Commit(d) /\
                \E x \in callback[d].news :
                    ~Superseded(x) /\ ledger'[t] = Notified(t, x)
<1>1. ledger \in [Table -> Ledger]
    BY DEF IInv, TypeOK
<1>2. ASSUME Registers PROVE ledger' = ledger
    BY <1>2 DEF Registers, OpenBill, Created, Amend, Publish
<1>3. ASSUME NEW u \in Table, Apply(u)
      PROVE  ledger'[t] = ledger[t] \/ (u = t /\ ledger'[t] = Polled(t))
    <2>1. ledger' = [ledger EXCEPT ![u] = IF u \in poll.fresh THEN Polled(u)
                                                           ELSE ledger[u]]
        BY <1>3 DEF Apply
    <2> QED BY <1>1, <2>1
<1>4. ASSUME NEW d \in Delivery, Commit(d)
      PROVE  \/ ledger'[t] = ledger[t]
             \/ \E x \in callback[d].news :
                    ~Superseded(x) /\ ledger'[t] = Notified(t, x)
    BY <1>4 DEF Commit
<1>5. ASSUME Restaurant PROVE ledger'[t].active = ledger[t].active
    <2>1. PICK u \in Table, s \in Marks :
            (\E frees \in BOOLEAN : StaffMarks(u, s, frees)) \/ BookingPaints(u, s)
        BY <1>5 DEF Restaurant
    <2>2. \/ ledger' = [ledger EXCEPT ![u].freed = ledger[u].active]
          \/ ledger' = ledger
        BY <2>1 DEF StaffMarks, BookingPaints
    <2> QED BY <1>1, <2>2 DEF Ledger
<1>6. ASSUME Capture \/ Abandon \/ LoseReceipt PROVE ledger' = ledger
    BY <1>6 DEF Capture, Abandon, LoseReceipt
<1>7. ASSUME NEW alive, NEW listed, ListBills(alive, listed) PROVE ledger' = ledger
    BY <1>7 DEF ListBills
<1>8. ASSUME NEW found, LookUpBills(found) PROVE ledger' = ledger
    BY <1>8 DEF LookUpBills
<1>9. ASSUME NEW d, NEW b, NEW k, Receive(d, b, k) PROVE ledger' = ledger
    BY <1>9 DEF Receive
<1>10. ASSUME NEW d, Refuse(d) PROVE ledger' = ledger
    BY <1>10 DEF Refuse
<1>11. ASSUME Worker
       PROVE  ledger'[t] = ledger[t] \/ (Apply(t) /\ ledger'[t] = Polled(t))
    BY <1>3, <1>6, <1>7, <1>8, <1>11 DEF Worker
<1>12. ASSUME Receiver
       PROVE  \/ ledger'[t] = ledger[t]
              \/ \E d \in Delivery : Commit(d) /\
                    \E x \in callback[d].news :
                        ~Superseded(x) /\ ledger'[t] = Notified(t, x)
    BY <1>4, <1>6, <1>9, <1>10, <1>12 DEF Receiver
<1> QED BY <1>2, <1>5, <1>11, <1>12 DEF Next, vars

\* Applying a poll is not committing a callback.
LEMMA ApplyIsNotCommit ==
    ASSUME IInv, NEW t \in Table, NEW d \in Delivery, Apply(t), Commit(d)
    PROVE  FALSE
<1>1. poll \in Poll /\ t \in poll.left
    BY DEF IInv, TypeOK, Apply
<1>2. poll'.left = poll.left
    <2>1. PICK written \in SUBSET Table : poll' = StaleFor(written, poll)
        BY DEF Commit
    <2> QED BY <2>1, Staled DEF IInv
<1>3. t \notin poll'.left
    <2>1. CASE poll.left = {t}
        BY <2>1, NothingCaptured DEF Apply
    <2>2. CASE poll.left /= {t}
        <3>1. poll' = [poll EXCEPT !.left = @ \ {t}, !.fresh = @ \ {t}]
            BY <2>2 DEF Apply
        <3> QED BY <1>1, <3>1 DEF Poll
    <2> QED BY <2>1, <2>2
<1> QED BY <1>1, <1>2, <1>3

\* A bill occupies a table by its latest known version only: a late callback or an
\* old reading never brings it back to a table it has left.
THEOREM OpenedFromLatest == Spec => OpensFromLatest
<1>1. ASSUME IInv, [Next]_vars, NEW t \in Table, NEW u \in Table, NEW b \in Bill,
             b \in ledger'[t].active, b \notin ledger[t].active
      PROVE  ledger[u].versions[b].at <= ledger'[t].versions[b].at
    <2>1. ledger'[t].active /= ledger[t].active
        BY <1>1
    <2>2. CASE ledger'[t] = Polled(t)
        BY <1>1, <2>2, PolledFacts
    <2>3. ASSUME NEW d \in Delivery, NEW x \in callback[d].news,
                 ~Superseded(x), ledger'[t] = Notified(t, x)
          PROVE  ledger[u].versions[b].at <= ledger'[t].versions[b].at
        BY <1>1, <2>3, NotifiedFacts
    <2> QED BY <1>1, <2>1, <2>2, <2>3, WhoChanges
<1>2. IInv /\ [Next]_vars =>
        [\A t, u \in Table, b \in Bill :
            b \in ledger'[t].active /\ b \notin ledger[t].active
                => ledger[u].versions[b].at <= ledger'[t].versions[b].at]_vars
    BY <1>1
<1> QED BY <1>2, AlwaysGood, PTL DEF Spec, OpensFromLatest

\* The bills of a table end only with evidence about every bill that is known
\* there, in the ledger or in the last poll.
THEOREM FreedWithEvidence == Spec => FreedOnEvidence
<1> DEFINE Justified(t) ==
            /\ \A b \in ledger[t].active :
                 Outcome(t, Reading(b, ledger'[t].versions[b].at)) = "closed"
            /\ Settled(ledger'[t].versions)
            /\ (\E d \in Delivery : Commit(d)) =>
                 \A y \in receipt.orders :
                    y.state = "open" /\ t \in y.tables /\ y.id \notin ledger[t].active
                        => /\ ledger'[t].versions[y.id].at > y.at
                           /\ ledger'[t].versions[y.id].state = "closed"
<1>1. ASSUME IInv, [Next]_vars, NEW t \in Table, Emptied(t)
      PROVE  Justified(t)
    <2>1. /\ ledger[t].active /= {} /\ ledger'[t].active = {}
          /\ ledger[t].active \subseteq Bill
        BY <1>1 DEF Emptied, IInv, TypeOK, Ledger
    <2>2. ASSUME GoodLedger(t, ledger'[t]),
                 \A b \in ledger[t].active \ ledger'[t].active :
                    /\ ledger'[t].versions[b].state = "closed"
                    /\ Settled(ledger'[t].versions)
          PROVE  /\ \A b \in ledger[t].active :
                      Outcome(t, Reading(b, ledger'[t].versions[b].at)) = "closed"
                 /\ Settled(ledger'[t].versions)
        BY <2>1, <2>2 DEF GoodLedger, GoodVersion
    <2>3. CASE Apply(t) /\ ledger'[t] = Polled(t)
        <3>1. ~\E d \in Delivery : Commit(d)
            BY <1>1, <2>3, ApplyIsNotCommit
        <3>2. /\ GoodLedger(t, ledger'[t])
              /\ \A b \in ledger[t].active \ ledger'[t].active :
                    /\ ledger'[t].versions[b].state = "closed"
                    /\ Settled(ledger'[t].versions)
            BY <1>1, <2>3, PolledFacts
        <3> QED BY <3>1, <3>2, <2>2
    <2>4. ASSUME NEW d \in Delivery, NEW x \in callback[d].news,
                 ~Superseded(x), ledger'[t] = Notified(t, x)
          PROVE  Justified(t)
        <3>1. /\ GoodLedger(t, ledger'[t])
              /\ \A b \in ledger[t].active \ ledger'[t].active :
                    /\ ledger'[t].versions[b].state = "closed"
                    /\ Settled(ledger'[t].versions)
                    /\ ~Unaccounted(t, ledger'[t].versions)
            BY <1>1, <2>4, NotifiedFacts
        <3>2. ~Unaccounted(t, ledger'[t].versions)
            BY <2>1, <3>1
        <3>3. ASSUME NEW y \in receipt.orders, y.state = "open", t \in y.tables,
                     y.id \notin ledger[t].active
              PROVE  /\ ledger'[t].versions[y.id].at > y.at
                     /\ ledger'[t].versions[y.id].state = "closed"
            BY <3>2, <3>3 DEF Unaccounted
        <3> QED BY <3>1, <3>3, <2>2
    <2> QED BY <1>1, <2>1, <2>3, <2>4, WhoChanges
<1>2. IInv /\ [Next]_vars => [\A t \in Table : Emptied(t) => Justified(t)]_vars
    BY <1>1
<1> QED BY <1>2, AlwaysGood, PTL DEF Spec, FreedOnEvidence

-----------------------------------------------------------------------------
(* A poll that is up to date *)

\* Where every register answers, what was read is believed.
LEMMA AllBelieved ==
    ASSUME poll.alive = Register, NEW x \in Observed
    PROVE  Believed(x) = x
<1>1. \A p \in x.tables : RegisterOf[p] \in Register
    BY SyrveAssumption DEF Observed
<1> QED BY <1>1 DEF Believed

\* No ledger knows better than the current version, and those that know it with
\* another content do not know what it means.
LEMMA CurrentAccepted ==
    ASSUME IInv, NEW b \in Bill, history[b] /= <<>>,
           \A u \in Table : ~(/\ ledger[u].versions[b].state = "unknown"
                              /\ ledger[u].versions[b].at = Len(history[b]))
    PROVE  /\ ~Outdated(Current(b)) /\ ~Contradicts(Current(b))
           /\ \A t \in Table : ~StuckAt(t, Current(b))
<1> DEFINE n == Len(history[b])
<1>1. history[b] \in Seq(Version) /\ n \in Nat /\ n > 0
    BY DEF IInv, TypeOK
<1>2. Current(b) = Reading(b, n) /\ Current(b).id = b /\ Current(b).at = n
    BY <1>1, ReadingFacts DEF Current, IInv
<1>3. ASSUME NEW u \in Table
      PROVE  LET v == ledger[u].versions[b]
             IN  /\ v.at <= n /\ v.at \in Nat
                 /\ v.at = n => v.print = PrintOf(Reading(b, n))
    <2> DEFINE v == ledger[u].versions[b]
    <2>1. GoodVersion(u, b, v) /\ v \in Known
        BY DEF IInv, GoodLedger, Ledger
    <2>2. v.at \in Nat /\ v.state \in {"open", "closed", "unknown", "none"}
        BY <2>1 DEF Known, BillStates
    <2>3. v.at <= n /\ (v.state = "none" => v.at = 0)
        BY <2>1 DEF GoodVersion
    <2>4. v.state \in {"open", "closed"} => v.print = PrintOf(Reading(b, v.at))
        BY <2>1 DEF GoodVersion
    <2>5. ~(v.state = "unknown" /\ v.at = n)
        OBVIOUS
    <2> HIDE DEF v, n
    <2>6. v.at = n => v.state \in {"open", "closed"}
        BY <1>1, <2>2, <2>3, <2>5
    <2> QED BY <2>2, <2>3, <2>4, <2>6 DEF v
<1>4. ~Outdated(Current(b))
    <2>1. \A u \in Table : ~(ledger[u].versions[b].at > n)
        BY <1>1, <1>3
    <2> QED BY <1>2, <2>1 DEF Outdated
<1>5. ~Contradicts(Current(b))
    BY <1>2, <1>3 DEF Contradicts
<1> QED BY <1>2, <1>4, <1>5 DEF StuckAt

\* Everything that such a poll has read of table t is the current version of a bill
\* that is open there or asked for, and tells whether it is open.
LEMMA UpToDateFacts ==
    ASSUME IInv, NEW t \in Table, UpToDate(t), ~Stuck(t)
    PROVE  /\ SeenAt(t) = Evidence(t)
           /\ \A x \in Evidence(t) :
                /\ x.id \in Bill /\ history[x.id] /= <<>> /\ x = Current(x.id)
                /\ x.state \in {"open", "closed"}
                /\ ~Outdated(x) /\ ~Contradicts(x) /\ ~StuckAt(t, x)
           /\ \A b \in OpenAt(t) \cup Asked(t) :
                Current(b) \in Evidence(t) /\ Current(b).id = b
<1>1. ASSUME NEW x \in Evidence(t)
      PROVE  /\ x \in Observed /\ x.id \in Bill /\ x.at \in 1..Len(history[x.id])
             /\ x = Reading(x.id, x.at) /\ x = Current(x.id) /\ ~Unplaced(x)
    BY EvidenceFacts DEF UpToDate, Observed
<1>2. SeenAt(t) = Evidence(t)
    <2>1. \A x \in Evidence(t) : Believed(x) = x
        BY <1>1, AllBelieved DEF UpToDate
    <2> QED BY <2>1 DEF SeenAt
<1>3. ASSUME NEW x \in Evidence(t)
      PROVE  x.state \in {"open", "closed"}
    <2>1. x.state \in BillStates
        BY <1>1 DEF Observed
    <2>2. x.state /= "unknown"
        <3>1. history[x.id][x.at] \in Version
            BY <1>1 DEF IInv, TypeOK
        <3>2. history[x.id][x.at].kind /= "unknown"
            BY <3>1 DEF Version
        <3> QED BY <1>1, <3>2 DEF Reading, Unplaced
    <2> QED BY <2>1, <2>2 DEF BillStates
<1>4. ASSUME NEW x \in Evidence(t)
      PROVE  history[x.id] /= <<>>
    <2>1. history[x.id] \in Seq(Version) /\ Len(history[x.id]) > 0
        BY <1>1 DEF IInv, TypeOK
    <2> QED BY <2>1
<1>5. ASSUME NEW x \in Evidence(t)
      PROVE  x.id \in OpenAt(t) \cup Asked(t)
    <2>1. \/ x \in poll.byTable /\ t \in x.tables
          \/ x.id \in Asked(t)
        BY <1>1 DEF Evidence, Latest
    <2>2. CASE x \in poll.byTable /\ t \in x.tables
        <3>1. x.state = "open"
            BY <1>3, <2>2 DEF IInv, InFlight
        <3> QED BY <1>1, <1>4, <2>2, <3>1 DEF OpenAt
    <2> QED BY <2>1, <2>2
<1>6. ASSUME NEW x \in Evidence(t)
      PROVE  ~Outdated(x) /\ ~Contradicts(x) /\ ~StuckAt(t, x)
    <2>1. \A u \in Table : ~(/\ ledger[u].versions[x.id].state = "unknown"
                             /\ ledger[u].versions[x.id].at = Len(history[x.id]))
        BY <1>5 DEF Stuck
    <2>2. /\ ~Outdated(Current(x.id)) /\ ~Contradicts(Current(x.id))
          /\ ~StuckAt(t, Current(x.id))
        BY <1>1, <1>4, <2>1, CurrentAccepted
    <2> QED BY <1>1, <2>2
<1>7. ASSUME NEW b \in OpenAt(t) \cup Asked(t)
      PROVE  Current(b) \in Evidence(t) /\ Current(b).id = b
    BY <1>7 DEF UpToDate, Current, Reading
<1> QED BY <1>1, <1>2, <1>3, <1>4, <1>6, <1>7

\* It finds out who is open at t.
LEMMA Settling ==
    ASSUME IInv, NEW t \in Table, UpToDate(t), ~Stuck(t)
    PROVE  Polled(t).active = OpenAt(t)
<1> DEFINE seen == SeenAt(t)
           recent == {x \in seen : Concerns(t, x) /\ ~Outdated(x)}
           conflicting == {x \in recent : Contradicts(x)}
           accepted == {x \in recent \ conflicting : ~StuckAt(t, x)}
           versions ==
            [b \in Bill |->
                IF \E x \in conflicting : x.id = b
                THEN Unresolved((CHOOSE x \in conflicting : x.id = b).at)
                ELSE IF \E x \in accepted : x.id = b
                THEN VersionAt(t, CHOOSE x \in accepted : x.id = b)
                ELSE ledger[t].versions[b]]
           canClose == ~Uncertain(t, seen) /\ Settled(versions)
           With(outcome) == {x.id : x \in {y \in accepted : Outcome(t, y) = outcome}}
           active == (ledger[t].active \cup With("open"))
                       \ (IF canClose THEN With("closed") ELSE {})
<1>1. Polled(t).active = active
    BY DEF Polled, NewLedger, SeenAt
<1>2. seen = Evidence(t)
    BY UpToDateFacts
<1>3. ASSUME NEW x \in seen
      PROVE  /\ x.id \in Bill /\ history[x.id] /= <<>> /\ x = Current(x.id)
             /\ x.state \in {"open", "closed"}
             /\ ~Outdated(x) /\ ~Contradicts(x) /\ ~StuckAt(t, x)
    BY <1>2, UpToDateFacts
<1>4. ASSUME NEW b \in OpenAt(t) \cup Asked(t)
      PROVE  Current(b) \in seen /\ Current(b).id = b
    BY <1>2, UpToDateFacts
<1>5. conflicting = {} /\ \A x \in accepted : x \in seen
    BY <1>3
<1>6. ASSUME NEW x \in seen, Concerns(t, x)
      PROVE  x \in accepted
    BY <1>3, <1>5, <1>6
<1>7. ASSUME NEW b \in Bill
      PROVE  \/ /\ \E x \in accepted : x.id = b
                /\ \E x \in accepted : x.id = b /\ versions[b] = VersionAt(t, x)
             \/ /\ ~\E x \in accepted : x.id = b
                /\ versions[b] = ledger[t].versions[b]
    <2>1. ~\E x \in conflicting : x.id = b
        BY <1>5
    <2>2. CASE \E x \in accepted : x.id = b
        <3>1. PICK x \in accepted : x.id = b /\ x = CHOOSE y \in accepted : y.id = b
            BY <2>2
        <3> QED BY <2>1, <2>2, <3>1
    <2> QED BY <2>1, <2>2
<1>8. GoodLedger(t, ledger[t])
    BY DEF IInv
<1>9. ledger[t].active \subseteq Bill /\ ledger[t].versions \in [Bill -> Known]
    BY <1>8 DEF GoodLedger, Ledger
<1>10. ASSUME NEW x \in seen
       PROVE  Outcome(t, x) = IF t \in x.tables THEN x.state ELSE "closed"
    BY <1>3 DEF Outcome
<1> HIDE DEF seen, recent, conflicting, accepted, versions
<1>11. ~Uncertain(t, seen)
    <2>1. ASSUME NEW b \in ledger[t].active
          PROVE  \E x \in seen : x.id = b /\ x.state /= "unknown"
        <3>1. Current(b) \in seen /\ Current(b).id = b
            BY <1>4 DEF Asked
        <3> QED BY <1>3, <3>1
    <2> QED BY <1>3, <2>1 DEF Uncertain
<1>12. Settled(versions)
    <2> SUFFICES ASSUME NEW b \in Bill, versions[b].state = "unknown" PROVE FALSE
        BY DEF Settled
    <2>1. CASE \E x \in accepted : x.id = b /\ versions[b] = VersionAt(t, x)
        <3>1. PICK x \in accepted : versions[b] = VersionAt(t, x)
            BY <2>1
        <3>2. Outcome(t, x) \in {"open", "closed"}
            BY <1>3, <1>5, <1>10
        <3> QED BY <3>1, <3>2 DEF VersionAt
    <2>2. CASE ~(\E x \in accepted : x.id = b) /\ versions[b] = ledger[t].versions[b]
        <3>1. b \in Asked(t) /\ ledger[t].versions[b].state = "unknown"
            BY <2>2 DEF Asked
        <3>2. Current(b) \in seen /\ Current(b).id = b
            BY <1>4, <3>1
        <3>3. ledger[t].versions[b].at > 0
            BY <1>8, <1>9, <3>1 DEF GoodLedger, GoodVersion, Known
        <3>4. Concerns(t, Current(b))
            BY <3>2, <3>3 DEF Concerns
        <3> QED BY <1>6, <2>2, <3>2, <3>4
    <2> QED BY <1>7, <2>1, <2>2
<1>13. canClose
    BY <1>11, <1>12
<1> HIDE DEF canClose
<1>14. ASSUME NEW b \in active PROVE b \in OpenAt(t)
    <2>1. PICK x \in accepted : x.id = b /\ Outcome(t, x) /= "closed"
        <3>1. CASE b \in With("open")
            BY <3>1
        <3>2. CASE b \in ledger[t].active /\ b \notin With("closed")
            <4>1. Current(b) \in seen /\ Current(b).id = b
                BY <1>4, <3>2 DEF Asked
            <4>2. ledger[t].versions[b].at > 0
                BY <1>8, <3>2 DEF GoodLedger
            <4>3. Current(b) \in accepted
                BY <1>6, <4>1, <4>2 DEF Concerns
            <4> QED BY <3>2, <4>1, <4>3
        <3> QED BY <1>13, <1>14, <3>1, <3>2
    <2>2. x \in seen
        BY <1>5
    <2>3. t \in x.tables /\ x.state = "open"
        BY <1>3, <1>10, <2>1, <2>2
    <2> QED BY <1>3, <2>1, <2>2, <2>3 DEF OpenAt
<1>15. ASSUME NEW b \in OpenAt(t) PROVE b \in active
    <2>1. /\ Current(b) \in seen /\ Current(b).id = b
          /\ t \in Current(b).tables /\ Current(b).state = "open"
        BY <1>4 DEF OpenAt
    <2>2. Current(b) \in accepted /\ Outcome(t, Current(b)) = "open"
        BY <1>6, <1>10, <2>1 DEF Concerns
    <2>3. b \in With("open")
        BY <2>1, <2>2
    <2>4. b \notin With("closed")
        <3>1. ASSUME NEW x \in accepted, x.id = b PROVE x = Current(b)
            BY <1>3, <1>5, <3>1
        <3> QED BY <2>2, <3>1
    <2> QED BY <2>3, <2>4
<1> QED BY <1>1, <1>14, <1>15

\* A poll that missed nothing leaves exactly the bills active that are open at the
\* table, for any number of bills, tables, registers and callbacks.
THEOREM UpToDatePollsSettle == Spec => UpToDateSettles
<1>1. ASSUME IInv, NEW t \in Table, Apply(t), UpToDate(t), ~Stuck(t)
      PROVE  ledger'[t].active = OpenAt(t)
    <2>1. ledger \in [Table -> Ledger] /\ t \in poll.fresh
        BY <1>1, ZenonT(40) DEF IInv, TypeOK, UpToDate
    <2>2. ledger' = [ledger EXCEPT ![t] = Polled(t)]
        BY <1>1, <2>1 DEF Apply
    <2>3. ledger'[t] = Polled(t)
        BY <2>1, <2>2
    <2> QED BY <1>1, <2>3, Settling
<1>2. IInv /\ [Next]_vars =>
        [\A t \in Table : Apply(t) /\ UpToDate(t) /\ ~Stuck(t)
                            => ledger'[t].active = OpenAt(t)]_vars
    BY <1>1
<1> QED BY <1>2, AlwaysGood, PTL DEF Spec, UpToDateSettles
=============================================================================
