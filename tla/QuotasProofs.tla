---------------------------- MODULE QuotasProofs ----------------------------
(***************************************************************************)
(* The two quotas that processes share through the database are kept, for  *)
(* any number of calls, processes, limits and windows; and what the        *)
(* handlers of the bot share through the memory of a process, the drafts,  *)
(* is carried out as shown, however many cross each other.                 *)
(*                                                                         *)
(* The throttle of PIN guesses, as long as pending guesses are kept for a  *)
(* window (Retention >= Window): the counts at the reservation are right   *)
(* because whatever the clean-up deletes is older than a window            *)
(* (StaleIsOld), and the count of failures is still right when it is       *)
(* committed because a row's failure is never undone (CountStands).        *)
(*                                                                         *)
(* The requests to Syrve: what is promised is about the moments at which   *)
(* requests are sent, and is not inductive.  The invariant says why it     *)
(* holds: permits are granted far enough apart because the barrier lies a  *)
(* gap ahead of the last one and beyond every pause, and a permit is used  *)
(* within a lifetime of its grant because its life began before the grant. *)
(***************************************************************************)
EXTENDS MCQuotas, FiniteSetTheorems, SequenceTheorems, TLAPS

\* The clean-up only deletes what is older than a window.
StaleIsOld ==
    \A i \in DOMAIN rows :
        rows[i].status = "stale" => rows[i].reservedAt + Window <= now

\* A failure is dated by a transaction that began after the reservation.
ReservedBefore ==
    \A c \in Call :
        call[c].phase \in {"failing", "counted"}
            => rows[call[c].id].reservedAt <= call[c].began

\* A failure that was found to lock still does.
CountStands ==
    \A c \in Call :
        At(c, "counted") /\ call[c].lock
            => Cardinality(FailuresSince(call[c].began - Window) \cup {call[c].id})
                   >= MaxFailed

\* Calls without a reservation name none.
NoReservation == \A c \in Call : call[c].phase \notin Guessing => call[c].id = 0

ThrottleInv == /\ TypeOK
               /\ OwnReservation
               /\ NoReservation
               /\ ReservedBefore
               /\ StaleIsOld
               /\ CountStands
               /\ GuessesAreLimited
               /\ LockIsEarned

USE ThrottleAssumption

-----------------------------------------------------------------------------
(* Sets of rows *)

LEMMA RowFacts ==
  ASSUME TypeOK
  PROVE  /\ Len(rows) \in Nat /\ DOMAIN rows = 1 .. Len(rows)
         /\ \A i \in DOMAIN rows :
               /\ rows[i] \in Row
               /\ rows[i].status \in Statuses
               /\ rows[i].reservedAt \in Nat /\ rows[i].admittedAt \in Nat
               /\ rows[i].failedAt \in Nat \cup {Never}
               /\ rows[i].lockedUntil \in Nat \cup {Never}
  <1>1. rows \in Seq(Row)
    BY DEF TypeOK
  <1>2. /\ Len(rows) \in Nat /\ DOMAIN rows = 1 .. Len(rows)
        /\ \A i \in DOMAIN rows : rows[i] \in Row
    BY <1>1, ElementOfSeq, LenProperties
  <1> QED
    BY <1>2 DEF Row

LEMMA CallFacts ==
  ASSUME TypeOK, NEW c \in Call
  PROVE  /\ call[c] \in CallState /\ call[c].phase \in Phases
         /\ call[c].began \in Nat /\ call[c].id \in Nat /\ call[c].lock \in BOOLEAN
         /\ call[c].began <= now
  BY DEF TypeOK, CallState

LEMMA IdleFacts ==
  /\ Idle \in CallState /\ Idle.began = 0 /\ Idle.id = 0
  /\ Idle.phase = "idle" /\ "idle" \notin Guessing
  BY DEF Idle, CallState, Phases, Guessing

LEMMA Part ==
  ASSUME NEW n \in Nat, NEW S, S \subseteq 1 .. n, NEW T, T \subseteq S
  PROVE  /\ IsFiniteSet(S) /\ IsFiniteSet(T)
         /\ Cardinality(S) \in Nat /\ Cardinality(T) \in Nat
         /\ Cardinality(T) <= Cardinality(S)
  <1>1. IsFiniteSet(1 .. n)
    BY FS_Interval
  <1>2. IsFiniteSet(S)
    BY <1>1, FS_Subset
  <1>3. IsFiniteSet(T) /\ Cardinality(T) <= Cardinality(S)
    BY <1>2, FS_Subset
  <1> QED
    BY <1>2, <1>3, FS_CardinalityType

LEMMA ThrottleInits == Init => ThrottleInv
  <1> SUFFICES ASSUME Init PROVE ThrottleInv
    OBVIOUS
  <1>1. TypeOK
    BY IdleFacts DEF Init, TypeOK
  <1>2. OwnReservation /\ NoReservation /\ ReservedBefore /\ CountStands
    BY IdleFacts DEF Init, OwnReservation, NoReservation, ReservedBefore, CountStands, At
  <1>3. StaleIsOld /\ GuessesAreLimited /\ LockIsEarned
    BY DEF Init, StaleIsOld, GuessesAreLimited, LockIsEarned
  <1> QED
    BY <1>1, <1>2, <1>3 DEF ThrottleInv

-----------------------------------------------------------------------------
(* The kinds of steps *)

\* Only one call moves on, and it gives up its reservation.
LEMMA LetGo ==
  ASSUME ThrottleInv, NEW c \in Call, NEW s \in CallState, Becomes(c, s),
         UNCHANGED <<now, rows>>, s.began <= now, s.phase \notin Guessing, s.id = 0
  PROVE  ThrottleInv'
  <1>1. call' \in [Call -> CallState] /\ call'[c] = s
        /\ \A d \in Call \ {c} : call'[d] = call[d]
    BY DEF ThrottleInv, TypeOK, Becomes
  <1>2. s.phase \notin {"checking", "failing", "counted"}
    BY DEF Guessing
  <1>3. TypeOK'
    BY <1>1 DEF ThrottleInv, TypeOK
  <1>4. OwnReservation'
    <2> SUFFICES ASSUME NEW d \in Call, call'[d].phase \in Guessing
                 PROVE  /\ call'[d].id \in DOMAIN rows
                        /\ \/ rows[call'[d].id].status = "pending"
                           \/ /\ rows[call'[d].id].status = "stale"
                              /\ call'[d].phase # "counted"
                        /\ \A x \in Call \ {d} : call'[x].id # call'[d].id
      BY DEF OwnReservation, At
    <2>1. d # c /\ call'[d] = call[d]
      BY <1>1
    <2>2. /\ call[d].id \in DOMAIN rows
          /\ \/ rows[call[d].id].status = "pending"
             \/ rows[call[d].id].status = "stale" /\ call[d].phase # "counted"
          /\ \A x \in Call \ {d} : call[x].id # call[d].id
      BY <2>1 DEF ThrottleInv, OwnReservation, At
    <2>3. call[d].id # 0
      BY <2>2, RowFacts DEF ThrottleInv
    <2> QED
      BY <1>1, <2>1, <2>2, <2>3
  <1>5. NoReservation'
    BY <1>1 DEF ThrottleInv, NoReservation
  <1>6. StaleIsOld' /\ GuessesAreLimited' /\ LockIsEarned'
    BY DEF ThrottleInv, StaleIsOld, GuessesAreLimited, RecentGuesses, LockIsEarned,
           FailuresSince
  <1>7. CountStands'
    BY <1>1, <1>2 DEF ThrottleInv, CountStands, FailuresSince, At
  <1>8. ReservedBefore'
    BY <1>1, <1>2 DEF ThrottleInv, ReservedBefore
  <1> QED
    BY <1>3, <1>4, <1>5, <1>6, <1>7, <1>8 DEF ThrottleInv

\* Only one call moves on, and it keeps its reservation.
LEMMA Kept ==
  ASSUME ThrottleInv, NEW c \in Call, NEW s \in CallState, Becomes(c, s),
         UNCHANGED <<now, rows>>, s.began <= now,
         call[c].phase \in Guessing, s.phase \in Guessing, s.id = call[c].id,
         s.phase = "counted" => rows[s.id].status = "pending",
         s.phase = "counted" /\ s.lock
             => Cardinality(FailuresSince(s.began - Window) \cup {s.id}) >= MaxFailed,
         s.phase \in {"failing", "counted"} => rows[s.id].reservedAt <= s.began
  PROVE  ThrottleInv'
  <1>1. call' \in [Call -> CallState] /\ call'[c] = s
        /\ \A d \in Call \ {c} : call'[d] = call[d]
    BY DEF ThrottleInv, TypeOK, Becomes
  <1>2. TypeOK'
    BY <1>1 DEF ThrottleInv, TypeOK
  <1>3. OwnReservation'
    <2> SUFFICES ASSUME NEW d \in Call, call'[d].phase \in Guessing
                 PROVE  /\ call'[d].id \in DOMAIN rows
                        /\ \/ rows[call'[d].id].status = "pending"
                           \/ /\ rows[call'[d].id].status = "stale"
                              /\ call'[d].phase # "counted"
                        /\ \A x \in Call \ {d} : call'[x].id # call'[d].id
      BY DEF OwnReservation, At
    <2>1. call[d].phase \in Guessing /\ call'[d].id = call[d].id
      BY <1>1
    <2>2. /\ call[d].id \in DOMAIN rows
          /\ rows[call[d].id].status \in {"pending", "stale"}
          /\ \A x \in Call \ {d} : call[x].id # call[d].id
      BY <2>1 DEF ThrottleInv, OwnReservation
    <2>4. \A x \in Call \ {d} : call'[x].id # call'[d].id
      BY <1>1, <2>1, <2>2
    <2>5. call'[d].phase # "counted" \/ rows[call'[d].id].status = "pending"
      BY <1>1, <2>1 DEF ThrottleInv, OwnReservation, At
    <2> QED
      BY <2>1, <2>2, <2>4, <2>5
  <1>4. NoReservation'
    BY <1>1 DEF ThrottleInv, NoReservation
  <1>5. StaleIsOld' /\ GuessesAreLimited' /\ LockIsEarned'
    BY DEF ThrottleInv, StaleIsOld, GuessesAreLimited, RecentGuesses, LockIsEarned,
           FailuresSince
  <1>6. CountStands'
    BY <1>1, ZenonT(40) DEF ThrottleInv, CountStands, FailuresSince, At
  <1>7. ReservedBefore'
    BY <1>1 DEF ThrottleInv, ReservedBefore
  <1> QED
    BY <1>2, <1>3, <1>4, <1>5, <1>6, <1>7 DEF ThrottleInv

\* Rows are deleted, none of them one that a call still counts on, and the call
\* that does it gives up its reservation.
LEMMA Erased ==
  ASSUME ThrottleInv, NEW c \in Call, NEW s \in CallState, Becomes(c, s), UNCHANGED now,
         s.phase \notin Guessing, s.id = 0, s.began <= now,
         NEW I, NEW reason \in {"stale", "cleared", "released"}, Deleted(I, reason),
         \A i \in I : rows[i].status \in {"pending", "failed"},
         reason = "stale" => \A i \in I : rows[i].reservedAt + Window <= now,
         \A d \in Call \ {c} :
             call[d].phase \in Guessing /\ call[d].id \in I
                 => reason = "stale" /\ ~At(d, "counted")
  PROVE  ThrottleInv'
  <1>0. /\ Len(rows) \in Nat /\ DOMAIN rows = 1 .. Len(rows)
        /\ \A i \in DOMAIN rows : rows[i] \in Row
    BY RowFacts DEF ThrottleInv
  <1>1. call' \in [Call -> CallState] /\ call'[c] = s
        /\ \A d \in Call \ {c} : call'[d] = call[d]
    BY DEF ThrottleInv, TypeOK, Becomes
  <1>2. /\ rows' \in [1 .. Len(rows) -> Row]
        /\ \A i \in 1 .. Len(rows) :
              /\ rows'[i].reservedAt = rows[i].reservedAt
              /\ rows'[i].admittedAt = rows[i].admittedAt
              /\ rows'[i].failedAt = rows[i].failedAt
              /\ rows'[i].lockedUntil = rows[i].lockedUntil
              /\ rows'[i].status = IF i \in I THEN reason ELSE rows[i].status
    <2>1. \A i \in 1 .. Len(rows) :
             rows'[i] = IF i \in I THEN [rows[i] EXCEPT !.status = reason] ELSE rows[i]
      BY <1>0 DEF Deleted
    <2>2. \A i \in 1 .. Len(rows) : [rows[i] EXCEPT !.status = reason] \in Row
      BY <1>0, SMTT(30) DEF Row, Statuses
    <2>3. rows' \in [1 .. Len(rows) -> Row]
      BY <1>0, <2>2 DEF Deleted
    <2> QED
      BY <1>0, <2>1, <2>3, SMTT(30) DEF Row
  <1>3. rows' \in Seq(Row) /\ DOMAIN rows' = 1 .. Len(rows)
    BY <1>0, <1>2, SeqDef
  <1>4. TypeOK'
    BY <1>0, <1>1, <1>2, <1>3 DEF ThrottleInv, TypeOK
  <1>5. OwnReservation'
    <2> SUFFICES ASSUME NEW d \in Call, call'[d].phase \in Guessing
                 PROVE  /\ call'[d].id \in DOMAIN rows'
                        /\ \/ rows'[call'[d].id].status = "pending"
                           \/ /\ rows'[call'[d].id].status = "stale"
                              /\ call'[d].phase # "counted"
                        /\ \A x \in Call \ {d} : call'[x].id # call'[d].id
      BY DEF OwnReservation, At
    <2>1. d # c /\ call'[d] = call[d] /\ call[d].phase \in Guessing
      BY <1>1
    <2>2. /\ call[d].id \in DOMAIN rows
          /\ \/ rows[call[d].id].status = "pending"
             \/ rows[call[d].id].status = "stale" /\ call[d].phase # "counted"
          /\ \A x \in Call \ {d} : call[x].id # call[d].id
      BY <2>1 DEF ThrottleInv, OwnReservation, At
    <2>3. \A x \in Call \ {d} : call'[x].id # call'[d].id
      BY <1>0, <1>1, <2>1, <2>2
    <2>4. \/ rows'[call[d].id].status = "pending"
          \/ rows'[call[d].id].status = "stale" /\ call[d].phase # "counted"
      BY <1>0, <1>2, <2>1, <2>2 DEF At
    <2> QED
      BY <1>0, <1>3, <2>1, <2>2, <2>3, <2>4
  <1>6. NoReservation'
    BY <1>1 DEF ThrottleInv, NoReservation
  <1>7. StaleIsOld'
    BY <1>0, <1>2, <1>3 DEF ThrottleInv, StaleIsOld
  <1> DEFINE After(u) == {k \in DOMAIN rows' : rows'[k].failedAt # Never
                                               /\ rows'[k].failedAt >= u}
  <1>8. \A u : After(u) = FailuresSince(u)
    BY <1>0, <1>2, <1>3 DEF FailuresSince
  <1> HIDE DEF After
  <1>9. CountStands'
    <2>1. \A d \in Call : call'[d].phase = "counted" => d # c /\ call'[d] = call[d]
      BY <1>1 DEF Guessing
    <2> SUFFICES ASSUME NEW d \in Call, call'[d].phase = "counted", call'[d].lock
                 PROVE  Cardinality(After(call'[d].began - Window) \cup {call'[d].id})
                            >= MaxFailed
      BY DEF CountStands, At, After, FailuresSince
    <2> QED
      BY <1>8, <2>1 DEF ThrottleInv, CountStands, At
  <1>10. LockIsEarned'
    <2> SUFFICES ASSUME NEW i \in DOMAIN rows', rows'[i].lockedUntil # Never
                 PROVE  Cardinality(After(rows'[i].failedAt - Window)) >= MaxFailed
      BY DEF LockIsEarned, FailuresSince, After
    <2> QED
      BY <1>0, <1>2, <1>3, <1>8 DEF ThrottleInv, LockIsEarned
  <1>11. GuessesAreLimited'
    <2> SUFFICES ASSUME NEW j \in 1 .. Len(rows)
                 PROVE  Cardinality(RecentGuesses(j)') <= MaxFailed
      BY <1>3 DEF GuessesAreLimited
    <2>0. 1 .. j \subseteq 1 .. Len(rows)
      BY <1>0
    <2>1. RecentGuesses(j)' \subseteq RecentGuesses(j)
      <3> SUFFICES ASSUME NEW i \in 1 .. j, rows'[i].status \notin Forgiven,
                          rows'[i].reservedAt > rows'[j].admittedAt - Window
                   PROVE  /\ rows[i].status \notin Forgiven
                          /\ rows[i].reservedAt > rows[j].admittedAt - Window
        BY DEF RecentGuesses
      <3>1. i \in 1 .. Len(rows)
        BY <2>0
      <3>2. rows[i].status \notin Forgiven
        <4>1. i \in I => rows[i].status \in {"pending", "failed"}
          OBVIOUS
        <4> QED
          BY <1>2, <3>1, <4>1 DEF Forgiven
      <3> QED
        BY <1>2, <3>1, <3>2
    <2>2. RecentGuesses(j) \subseteq 1 .. Len(rows)
      BY <2>0 DEF RecentGuesses
    <2>3. Cardinality(RecentGuesses(j)) <= MaxFailed
      BY <1>0 DEF ThrottleInv, GuessesAreLimited
    <2>4. /\ Cardinality(RecentGuesses(j)') <= Cardinality(RecentGuesses(j))
          /\ Cardinality(RecentGuesses(j)') \in Nat /\ Cardinality(RecentGuesses(j)) \in Nat
      BY <1>0, <2>1, <2>2, Part
    <2> QED
      BY <2>3, <2>4
  <1>12. ReservedBefore'
    <2> SUFFICES ASSUME NEW d \in Call, call'[d].phase \in {"failing", "counted"}
                 PROVE  rows'[call'[d].id].reservedAt <= call'[d].began
      BY DEF ReservedBefore
    <2>1. d # c /\ call'[d] = call[d]
      BY <1>1 DEF Guessing
    <2>2. call[d].id \in DOMAIN rows
      BY <2>1 DEF ThrottleInv, OwnReservation, Guessing
    <2>3. rows[call[d].id].reservedAt <= call[d].began
      BY <2>1 DEF ThrottleInv, ReservedBefore
    <2> QED
      BY <1>0, <1>2, <2>1, <2>2, <2>3
  <1> QED
    BY <1>4, <1>5, <1>6, <1>7, <1>9, <1>10, <1>11, <1>12 DEF ThrottleInv

\* A guess is reserved.  The recent guesses are among those the code counts: none
\* of them can have been cleaned up.
LEMMA Reserved == ASSUME ThrottleInv, NEW c \in Call, Reserve(c) PROVE ThrottleInv'
  <1> DEFINE n == Len(rows) + 1
             t == call[c].began
             new == [status |-> "pending", reservedAt |-> t, failedAt |-> Never,
                     lockedUntil |-> Never, admittedAt |-> now]
             s == [Idle EXCEPT !.phase = "checking", !.id = n]
  <1>0. /\ Len(rows) \in Nat /\ DOMAIN rows = 1 .. Len(rows) /\ rows \in Seq(Row)
        /\ now \in Nat /\ t \in Nat /\ t <= now /\ now' = now
    BY RowFacts, CallFacts DEF ThrottleInv, TypeOK, Reserve
  <1>1. new \in Row
    BY <1>0 DEF Row, Statuses
  <1>2. rows' = Append(rows, new)
    BY DEF Reserve
  <1>3. /\ rows' \in Seq(Row) /\ DOMAIN rows' = 1 .. n /\ Len(rows') = n /\ n \in Nat
        /\ rows'[n] = new
        /\ \A i \in 1 .. Len(rows) : rows'[i] = rows[i]
    BY <1>0, <1>1, <1>2, AppendProperties, LenProperties
  <1>4. s \in CallState /\ s.phase = "checking" /\ s.id = n /\ s.began = 0
    <2> HIDE DEF n
    <2> QED
      BY <1>3 DEF Idle, CallState, Phases
  <1>5. call' \in [Call -> CallState] /\ call'[c] = s
        /\ \A d \in Call \ {c} : call'[d] = call[d]
    BY <1>4 DEF ThrottleInv, TypeOK, Becomes, Reserve
  <1> HIDE DEF new, s
  <1>6. TypeOK'
    <2>1. \A i \in 1 .. n :
             /\ rows'[i].reservedAt <= rows'[i].admittedAt /\ rows'[i].admittedAt <= now
             /\ rows'[i].status = "failed" => rows'[i].failedAt >= rows'[i].reservedAt
             /\ rows'[i].status = "pending" => rows'[i].failedAt = Never
             /\ rows'[i].failedAt = Never => rows'[i].lockedUntil = Never
             /\ rows'[i].failedAt <= now
      <3> SUFFICES ASSUME NEW i \in 1 .. n
                   PROVE  /\ rows'[i].reservedAt <= rows'[i].admittedAt
                          /\ rows'[i].admittedAt <= now
                          /\ rows'[i].status = "failed"
                                => rows'[i].failedAt >= rows'[i].reservedAt
                          /\ rows'[i].status = "pending" => rows'[i].failedAt = Never
                          /\ rows'[i].failedAt = Never => rows'[i].lockedUntil = Never
                          /\ rows'[i].failedAt <= now
        OBVIOUS
      <3>1. CASE i = n
        BY <1>0, <1>3, <3>1 DEF new, Never
      <3>2. CASE i # n
        <4>1. i \in DOMAIN rows /\ rows'[i] = rows[i]
          BY <1>0, <1>3, <3>2
        <4> QED
          BY <4>1 DEF ThrottleInv, TypeOK
      <3> QED
        BY <3>1, <3>2
    <2>2. \A d \in Call : call'[d].began <= now
      BY <1>0, <1>4, <1>5 DEF ThrottleInv, TypeOK
    <2> QED
      BY <1>0, <1>3, <1>5, <2>1, <2>2 DEF TypeOK
  <1>7. \A d \in Call \ {c} : call[d].id \in 0 .. Len(rows)
    BY <1>0 DEF ThrottleInv, OwnReservation, NoReservation
  <1>8. OwnReservation'
    <2> SUFFICES ASSUME NEW d \in Call, call'[d].phase \in Guessing
                 PROVE  /\ call'[d].id \in 1 .. n
                        /\ \/ rows'[call'[d].id].status = "pending"
                           \/ /\ rows'[call'[d].id].status = "stale"
                              /\ call'[d].phase # "counted"
                        /\ \A x \in Call \ {d} : call'[x].id # call'[d].id
      BY <1>3 DEF OwnReservation, At
    <2>1. CASE d = c
      <3>1. call'[d].id = n /\ rows'[n].status = "pending"
        BY <1>3, <1>4, <1>5, <2>1 DEF new
      <3>2. \A x \in Call \ {d} : call'[x].id # n
        BY <1>0, <1>5, <1>7, <2>1
      <3> QED
        BY <1>0, <3>1, <3>2
    <2>2. CASE d # c
      <3>1. /\ call'[d] = call[d] /\ call[d].id \in DOMAIN rows
            /\ \/ rows[call[d].id].status = "pending"
               \/ rows[call[d].id].status = "stale" /\ call[d].phase # "counted"
            /\ \A x \in Call \ {d} : call[x].id # call[d].id
        BY <1>5, <2>2 DEF ThrottleInv, OwnReservation, At
      <3>2. rows'[call[d].id] = rows[call[d].id] /\ call[d].id # n /\ call[d].id \in 1 .. n
        BY <1>0, <1>3, <3>1
      <3>3. \A x \in Call \ {d} : call'[x].id # call'[d].id
        BY <1>4, <1>5, <3>1, <3>2
      <3> QED
        BY <3>1, <3>2, <3>3
    <2> QED
      BY <2>1, <2>2
  <1>9. NoReservation'
    BY <1>4, <1>5 DEF ThrottleInv, NoReservation, Guessing
  <1>10. StaleIsOld'
    BY <1>0, <1>3 DEF ThrottleInv, StaleIsOld, new
  <1> DEFINE After(u) == {k \in DOMAIN rows' : rows'[k].failedAt # Never
                                               /\ rows'[k].failedAt >= u}
  <1>11. \A u : After(u) = FailuresSince(u)
    <2> SUFFICES ASSUME NEW u PROVE After(u) = FailuresSince(u)
      OBVIOUS
    <2>1. rows'[n].failedAt = Never
      BY <1>3 DEF new
    <2>2. \A i : i \in 1 .. n <=> i = n \/ i \in 1 .. Len(rows)
      BY <1>0
    <2> QED
      BY <1>0, <1>3, <2>1, <2>2 DEF FailuresSince
  <1> HIDE DEF After
  <1>12. CountStands'
    <2>1. \A d \in Call : call'[d].phase = "counted" => d # c /\ call'[d] = call[d]
      BY <1>4, <1>5
    <2> SUFFICES ASSUME NEW d \in Call, call'[d].phase = "counted", call'[d].lock
                 PROVE  Cardinality(After(call'[d].began - Window) \cup {call'[d].id})
                            >= MaxFailed
      BY DEF CountStands, At, After, FailuresSince
    <2> QED
      BY <1>11, <2>1 DEF ThrottleInv, CountStands, At
  <1>13. LockIsEarned'
    <2> SUFFICES ASSUME NEW i \in 1 .. n, rows'[i].lockedUntil # Never
                 PROVE  Cardinality(After(rows'[i].failedAt - Window)) >= MaxFailed
      BY <1>3 DEF LockIsEarned, FailuresSince, After
    <2>1. i # n
      BY <1>3 DEF new
    <2>2. i \in DOMAIN rows /\ rows'[i] = rows[i]
      BY <1>0, <1>3, <2>1
    <2> QED
      BY <1>11, <2>2 DEF ThrottleInv, LockIsEarned
  <1> DEFINE Recent(k) == {i \in 1 .. k :
                             /\ rows'[i].status \notin Forgiven
                             /\ rows'[i].reservedAt > rows'[k].admittedAt - Window}
  <1>14. GuessesAreLimited'
    <2> SUFFICES ASSUME NEW j \in 1 .. n
                 PROVE  Cardinality(Recent(j)) <= MaxFailed
      BY <1>3 DEF GuessesAreLimited, RecentGuesses
    <2>1. CASE j # n
      <3>1. j \in DOMAIN rows /\ 1 .. j \subseteq 1 .. Len(rows) /\ j \in 1 .. Len(rows)
        BY <1>0, <2>1
      <3>2. \A i \in 1 .. j : rows'[i] = rows[i] /\ rows'[j] = rows[j]
        BY <1>3, <3>1
      <3>3. Recent(j) = RecentGuesses(j)
        BY <3>2 DEF RecentGuesses
      <3>4. Cardinality(RecentGuesses(j)) <= MaxFailed
        BY <3>1 DEF ThrottleInv, GuessesAreLimited
      <3> QED
        BY <3>3, <3>4
    <2>2. CASE j = n
      <3> DEFINE C == PendingSince(t - Window) \cup FailedSince(t - Window)
                 R == Recent(n) \ {n}
      <3>1. R \subseteq C
        <4> SUFFICES ASSUME NEW i \in 1 .. n, i # n, rows'[i].status \notin Forgiven,
                            rows'[i].reservedAt > rows'[n].admittedAt - Window
                     PROVE  i \in C
          OBVIOUS
        <4>0. i \in DOMAIN rows /\ i \in 1 .. Len(rows)
          BY <1>0
        <4>1. /\ i \in DOMAIN rows /\ rows'[i] = rows[i] /\ rows'[n].admittedAt = now
              /\ rows[i].reservedAt \in Nat /\ rows[i].status \in Statuses
              /\ rows[i].failedAt \in Nat \cup {Never}
          <5>1. rows'[n].admittedAt = now
            BY <1>3 DEF new
          <5>2. rows'[i] = rows[i]
            BY <1>3, <4>0
          <5>3. rows[i].reservedAt \in Nat /\ rows[i].status \in Statuses
                /\ rows[i].failedAt \in Nat \cup {Never}
            BY <4>0, RowFacts DEF ThrottleInv
          <5> QED
            BY <4>0, <5>1, <5>2, <5>3
        <4>2. rows[i].reservedAt > now - Window /\ rows[i].status \notin Forgiven
          BY <4>1
        <4>3. rows[i].status # "stale"
          BY <1>0, <4>1, <4>2 DEF ThrottleInv, StaleIsOld
        <4>4. rows[i].status = "failed" => rows[i].failedAt >= rows[i].reservedAt
          BY <4>1 DEF ThrottleInv, TypeOK
        <4>5. rows[i].reservedAt >= t - Window
          BY <1>0, <4>1, <4>2
        <4>6. rows[i].status = "failed" => rows[i].failedAt >= t - Window
          BY <1>0, <4>1, <4>4, <4>5, SMTT(30) DEF Never
        <4> QED
          BY <4>1, <4>2, <4>3, <4>5, <4>6 DEF PendingSince, FailedSince, Statuses, Forgiven
      <3>2. C \subseteq 1 .. Len(rows)
        BY <1>0 DEF PendingSince, FailedSince
      <3>3. Cardinality(C) < MaxFailed
        BY DEF Reserve, Admissible
      <3>4. /\ IsFiniteSet(R) /\ Cardinality(R) <= Cardinality(C)
            /\ Cardinality(R) \in Nat /\ Cardinality(C) \in Nat
        <4> HIDE DEF R, C
        <4> QED
          BY <1>0, <3>1, <3>2, Part
      <3>5. Recent(n) \subseteq R \cup {n}
        OBVIOUS
      <3>6. IsFiniteSet(R \cup {n}) /\ Cardinality(R \cup {n}) <= Cardinality(R) + 1
            /\ Cardinality(R \cup {n}) \in Nat
        <4> HIDE DEF R
        <4>1. /\ IsFiniteSet(R \cup {n})
              /\ Cardinality(R \cup {n}) =
                    IF n \in R THEN Cardinality(R) ELSE Cardinality(R) + 1
          BY <3>4, FS_AddElement
        <4> QED
          BY <3>4, <4>1
      <3>7. /\ Cardinality(Recent(n)) <= Cardinality(R \cup {n})
            /\ Cardinality(Recent(n)) \in Nat
        <4> HIDE DEF R
        <4>1. IsFiniteSet(Recent(n))
              /\ Cardinality(Recent(n)) <= Cardinality(R \cup {n})
          BY <3>5, <3>6, FS_Subset
        <4> QED
          BY <4>1, FS_CardinalityType
      <3>8. Cardinality(Recent(n)) <= MaxFailed
        <4> DEFINE x == Cardinality(Recent(n))
                   y == Cardinality(R \cup {n})
                   z == Cardinality(R)
                   w == Cardinality(C)
        <4>1. /\ x \in Nat /\ y \in Nat /\ z \in Nat /\ w \in Nat
              /\ x <= y /\ y <= z + 1 /\ z <= w /\ w < MaxFailed
          BY <3>3, <3>4, <3>6, <3>7
        <4> HIDE DEF x, y, z, w
        <4>2. x <= MaxFailed
          BY <4>1
        <4> QED
          BY <4>2 DEF x
      <3> QED
        BY <2>2, <3>8
    <2> QED
      BY <2>1, <2>2
  <1>15. ReservedBefore'
    <2> SUFFICES ASSUME NEW d \in Call, call'[d].phase \in {"failing", "counted"}
                 PROVE  rows'[call'[d].id].reservedAt <= call'[d].began
      BY DEF ReservedBefore
    <2>1. d # c /\ call'[d] = call[d]
      BY <1>4, <1>5
    <2>2. call[d].id \in DOMAIN rows
      BY <2>1 DEF ThrottleInv, OwnReservation, Guessing
    <2>3. rows[call[d].id].reservedAt <= call[d].began
      BY <2>1 DEF ThrottleInv, ReservedBefore
    <2>4. rows'[call[d].id] = rows[call[d].id]
      BY <1>0, <1>3, <2>2
    <2> QED
      BY <2>1, <2>3, <2>4
  <1> QED
    BY <1>6, <1>8, <1>9, <1>10, <1>12, <1>13, <1>14, <1>15 DEF ThrottleInv

\* A failure is committed, with its lock.
LEMMA Committed == ASSUME ThrottleInv, NEW c \in Call, CommitFailure(c) PROVE ThrottleInv'
  <1> DEFINE k == call[c].id
             t == call[c].began
             lock == call[c].lock
             r == Failure(rows[k], t, lock)
  <1>0. /\ Len(rows) \in Nat /\ DOMAIN rows = 1 .. Len(rows) /\ rows \in Seq(Row)
        /\ now \in Nat /\ t \in Nat /\ t <= now /\ now' = now /\ lock \in BOOLEAN
        /\ At(c, "counted")
    BY RowFacts, CallFacts DEF ThrottleInv, TypeOK, CommitFailure
  <1>1. /\ k \in DOMAIN rows /\ rows[k].status = "pending"
        /\ \A d \in Call \ {c} : call[d].id # k
    BY <1>0 DEF ThrottleInv, OwnReservation, At, Guessing
  <1>2. /\ rows[k] \in Row /\ rows[k].failedAt = Never
        /\ rows[k].lockedUntil = Never
    BY <1>1, RowFacts DEF ThrottleInv, TypeOK
  <1>3. /\ r \in Row /\ r.status = "failed" /\ r.failedAt = t
        /\ r.reservedAt = rows[k].reservedAt /\ r.admittedAt = rows[k].admittedAt
        /\ r.lockedUntil # Never => lock
    <2>1. t + LockFor \in Nat
      BY <1>0
    <2> QED
      BY <1>0, <1>2, <2>1 DEF Failure, Row, Statuses
  <1>4. rows' = [rows EXCEPT ![k] = r]
    BY DEF CommitFailure
  <1>5. call' \in [Call -> CallState] /\ call'[c] = Idle
        /\ \A d \in Call \ {c} : call'[d] = call[d]
    BY IdleFacts DEF ThrottleInv, TypeOK, Becomes, CommitFailure
  <1>6. rows[k].reservedAt <= t
    BY <1>0, <1>1 DEF ThrottleInv, ReservedBefore, At, Guessing
  <1> HIDE DEF r, k
  <1>7. /\ rows' \in Seq(Row) /\ DOMAIN rows' = DOMAIN rows /\ Len(rows') = Len(rows)
        /\ rows'[k] = r
        /\ \A i \in DOMAIN rows \ {k} : rows'[i] = rows[i]
    <2>1. rows' \in Seq(Row) /\ Len(rows') = Len(rows)
      BY <1>0, <1>1, <1>3, <1>4, ExceptSeq
    <2> QED
      BY <1>0, <1>1, <1>4, <2>1
  <1>8. TypeOK'
    <2>1. \A i \in DOMAIN rows :
             /\ rows'[i].reservedAt <= rows'[i].admittedAt /\ rows'[i].admittedAt <= now
             /\ rows'[i].status = "failed" => rows'[i].failedAt >= rows'[i].reservedAt
             /\ rows'[i].status = "pending" => rows'[i].failedAt = Never
             /\ rows'[i].failedAt = Never => rows'[i].lockedUntil = Never
             /\ rows'[i].failedAt <= now
      <3>1. t # Never
        BY <1>0 DEF Never
      <3>2. rows[k].reservedAt <= rows[k].admittedAt /\ rows[k].admittedAt <= now
        BY <1>1 DEF ThrottleInv, TypeOK
      <3>3. \A i \in DOMAIN rows \ {k} :
             /\ rows[i].reservedAt <= rows[i].admittedAt /\ rows[i].admittedAt <= now
             /\ rows[i].status = "failed" => rows[i].failedAt >= rows[i].reservedAt
             /\ rows[i].status = "pending" => rows[i].failedAt = Never
             /\ rows[i].failedAt = Never => rows[i].lockedUntil = Never
             /\ rows[i].failedAt <= now
        BY DEF ThrottleInv, TypeOK
      <3> QED
        BY <1>0, <1>3, <1>6, <1>7, <3>1, <3>2, <3>3
    <2>2. \A d \in Call : call'[d].began <= now
      BY <1>0, <1>5, IdleFacts DEF ThrottleInv, TypeOK
    <2> QED
      BY <1>0, <1>5, <1>7, <2>1, <2>2 DEF TypeOK
  <1>9. OwnReservation'
    <2> SUFFICES ASSUME NEW d \in Call, call'[d].phase \in Guessing
                 PROVE  /\ call'[d].id \in DOMAIN rows
                        /\ \/ rows'[call'[d].id].status = "pending"
                           \/ /\ rows'[call'[d].id].status = "stale"
                              /\ call'[d].phase # "counted"
                        /\ \A x \in Call \ {d} : call'[x].id # call'[d].id
      BY <1>7 DEF OwnReservation, At
    <2>1. d # c /\ call'[d] = call[d] /\ call[d].phase \in Guessing
      BY <1>5, IdleFacts
    <2>2. /\ call[d].id \in DOMAIN rows \ {k}
          /\ \/ rows[call[d].id].status = "pending"
             \/ rows[call[d].id].status = "stale" /\ call[d].phase # "counted"
          /\ \A x \in Call \ {d} : call[x].id # call[d].id
      BY <1>1, <2>1 DEF ThrottleInv, OwnReservation, At
    <2>3. call[d].id # 0
      BY <1>0, <2>2
    <2> QED
      BY <1>5, <1>7, <2>1, <2>2, <2>3, IdleFacts
  <1>10. NoReservation'
    BY <1>5, IdleFacts DEF ThrottleInv, NoReservation
  <1>11. ReservedBefore'
    <2> SUFFICES ASSUME NEW d \in Call, call'[d].phase \in {"failing", "counted"}
                 PROVE  rows'[call'[d].id].reservedAt <= call'[d].began
      BY DEF ReservedBefore
    <2>1. d # c /\ call'[d] = call[d]
      BY <1>5, IdleFacts
    <2>2. call[d].id \in DOMAIN rows \ {k}
      BY <1>1, <2>1 DEF ThrottleInv, OwnReservation, Guessing
    <2>3. rows[call[d].id].reservedAt <= call[d].began
      BY <2>1 DEF ThrottleInv, ReservedBefore
    <2> QED
      BY <1>7, <2>1, <2>2, <2>3
  <1>12. StaleIsOld'
    BY <1>0, <1>3, <1>7 DEF ThrottleInv, StaleIsOld
  <1> DEFINE After(u) == {i \in DOMAIN rows' : rows'[i].failedAt # Never
                                               /\ rows'[i].failedAt >= u}
  <1>13. \A u : FailuresSince(u) \subseteq After(u)
    BY <1>2, <1>7 DEF FailuresSince
  <1>14. \A u : u \in Int /\ u <= t => k \in After(u)
    BY <1>0, <1>1, <1>3, <1>7 DEF Never
  <1>15. \A u : After(u) \subseteq 1 .. Len(rows)
    BY <1>0, <1>7
  <1> HIDE DEF After
  <1>16. CountStands'
    <2> SUFFICES ASSUME NEW d \in Call, call'[d].phase = "counted", call'[d].lock
                 PROVE  Cardinality(After(call'[d].began - Window) \cup {call'[d].id})
                            >= MaxFailed
      BY DEF CountStands, At, After, FailuresSince
    <2>1. d # c /\ call'[d] = call[d]
      BY <1>5, IdleFacts
    <2> DEFINE u == call[d].began - Window
               X == FailuresSince(u) \cup {call[d].id}
               Y == After(u) \cup {call[d].id}
    <2>2. Cardinality(X) >= MaxFailed /\ call[d].id \in 1 .. Len(rows)
      BY <1>0, <2>1 DEF ThrottleInv, CountStands, OwnReservation, At, Guessing
    <2>3. X \subseteq Y /\ Y \subseteq 1 .. Len(rows)
      BY <1>13, <1>15, <2>2
    <2>4. /\ Cardinality(X) <= Cardinality(Y)
          /\ Cardinality(X) \in Nat /\ Cardinality(Y) \in Nat
      <3> HIDE DEF X, Y
      <3> QED
        BY <1>0, <2>3, Part
    <2> QED
      BY <2>1, <2>2, <2>4
  <1>17. LockIsEarned'
    <2> SUFFICES ASSUME NEW i \in DOMAIN rows, rows'[i].lockedUntil # Never
                 PROVE  Cardinality(After(rows'[i].failedAt - Window)) >= MaxFailed
      BY <1>7 DEF LockIsEarned, FailuresSince, After
    <2>1. CASE i = k
      <3> DEFINE X == FailuresSince(t - Window) \cup {k}
                 Y == After(t - Window)
      <3>1. lock /\ rows'[i].failedAt = t
        BY <1>3, <1>7, <2>1
      <3>2. Cardinality(X) >= MaxFailed
        BY <1>0, <3>1 DEF ThrottleInv, CountStands, k
      <3>3. X \subseteq Y /\ Y \subseteq 1 .. Len(rows)
        BY <1>0, <1>13, <1>14, <1>15
      <3>4. /\ Cardinality(X) <= Cardinality(Y)
            /\ Cardinality(X) \in Nat /\ Cardinality(Y) \in Nat
        <4> HIDE DEF X, Y
        <4> QED
          BY <1>0, <3>3, Part
      <3> QED
        BY <3>1, <3>2, <3>4
    <2>2. CASE i # k
      <3> DEFINE u == rows[i].failedAt - Window
      <3>1. rows'[i] = rows[i] /\ Cardinality(FailuresSince(u)) >= MaxFailed
        BY <1>7, <2>2 DEF ThrottleInv, LockIsEarned
      <3>2. /\ Cardinality(FailuresSince(u)) <= Cardinality(After(u))
            /\ Cardinality(FailuresSince(u)) \in Nat /\ Cardinality(After(u)) \in Nat
        <4> HIDE DEF u
        <4> QED
          BY <1>0, <1>13, <1>15, Part
      <3> QED
        BY <3>1, <3>2
    <2> QED
      BY <2>1, <2>2
  <1>18. GuessesAreLimited'
    <2> SUFFICES ASSUME NEW j \in DOMAIN rows
                 PROVE  Cardinality(RecentGuesses(j)') <= MaxFailed
      BY <1>7 DEF GuessesAreLimited
    <2>1. \A i \in 1 .. j : /\ rows'[i].reservedAt = rows[i].reservedAt
                            /\ rows'[i].status \in Forgiven <=> rows[i].status \in Forgiven
      <3>1. \A i \in 1 .. j : i = k \/ i \in DOMAIN rows \ {k}
        BY <1>0
      <3> QED
        BY <1>1, <1>3, <1>7, <3>1 DEF Forgiven
    <2>2. rows'[j].admittedAt = rows[j].admittedAt
      BY <1>3, <1>7
    <2>3. RecentGuesses(j)' = RecentGuesses(j)
      BY <2>1, <2>2 DEF RecentGuesses
    <2>4. Cardinality(RecentGuesses(j)) <= MaxFailed
      BY DEF ThrottleInv, GuessesAreLimited
    <2> QED
      BY <2>3, <2>4
  <1> QED
    BY <1>8, <1>9, <1>10, <1>11, <1>12, <1>16, <1>17, <1>18 DEF ThrottleInv

\* Time passes.
LEMMA DatabaseTicked == ASSUME ThrottleInv, Tick PROVE ThrottleInv'
  <1>0. now \in Nat /\ now' = now + 1 /\ UNCHANGED <<rows, call>>
    BY DEF Tick, ThrottleInv, TypeOK
  <1>1. TypeOK'
    <2>1. \A i \in DOMAIN rows : /\ rows[i].admittedAt \in Nat
                                 /\ rows[i].failedAt \in Nat \cup {Never}
      BY RowFacts DEF ThrottleInv
    <2>2. \A i \in DOMAIN rows : rows[i].admittedAt <= now' /\ rows[i].failedAt <= now'
      BY <1>0, <2>1 DEF ThrottleInv, TypeOK, Never
    <2>3. \A c \in Call : call[c].began <= now'
      BY <1>0, CallFacts DEF ThrottleInv
    <2> QED
      BY <1>0, <2>2, <2>3 DEF ThrottleInv, TypeOK
  <1>2. OwnReservation' /\ NoReservation' /\ ReservedBefore' /\ CountStands'
    BY <1>0 DEF ThrottleInv, OwnReservation, NoReservation, ReservedBefore, CountStands,
                FailuresSince, At
  <1>3. StaleIsOld'
    <2>1. \A i \in DOMAIN rows : rows[i].reservedAt \in Nat
      BY RowFacts DEF ThrottleInv
    <2> QED
      BY <1>0, <2>1 DEF ThrottleInv, StaleIsOld
  <1>4. GuessesAreLimited' /\ LockIsEarned'
    BY <1>0 DEF ThrottleInv, GuessesAreLimited, RecentGuesses, LockIsEarned, FailuresSince
  <1> QED
    BY <1>1, <1>2, <1>3, <1>4 DEF ThrottleInv

-----------------------------------------------------------------------------
(* Steps of one call *)

LEMMA GuessStepHolds == ASSUME ThrottleInv, NEW c \in Call, Step(c) PROVE ThrottleInv'
  <1>0. /\ call[c] \in CallState /\ call[c].phase \in Phases
        /\ call[c].began \in Nat /\ call[c].id \in Nat /\ call[c].lock \in BOOLEAN
        /\ now \in Nat /\ call[c].began <= now
    BY CallFacts DEF ThrottleInv, TypeOK
  <1>1. CASE Arrive(c)
    <2> DEFINE s == [Idle EXCEPT !.phase = "arrived", !.id = call[c].id]
               I == {i \in DOMAIN rows : Stale(i) /\ ~BeingCounted(i)}
    <2>1. At(c, "idle") /\ Becomes(c, s) /\ Deleted(I, "stale") /\ UNCHANGED now
      BY <1>1 DEF Arrive, Enters
    <2>2. call[c].id = 0
      BY <2>1 DEF ThrottleInv, NoReservation, Guessing, At
    <2>3. s \in CallState /\ s.phase \notin Guessing /\ s.id = 0 /\ s.began <= now
      <3>1. s \in CallState
        BY <1>0 DEF Idle, CallState, Phases
      <3>2. s.phase = "arrived" /\ s.id = 0 /\ s.began = 0
        BY <1>0, <2>2 DEF Idle
      <3> QED
        BY <1>0, <3>1, <3>2 DEF Guessing
    <2>4. \A i \in I : /\ rows[i].status \in {"pending", "failed"}
                       /\ rows[i].reservedAt + Window <= now
      <3> SUFFICES ASSUME NEW i \in I
                   PROVE  /\ rows[i].status \in {"pending", "failed"}
                          /\ rows[i].reservedAt + Window <= now
        OBVIOUS
      <3>1. /\ rows[i].reservedAt \in Nat /\ rows[i].failedAt \in Nat \cup {Never}
            /\ rows[i].status = "failed" => rows[i].failedAt >= rows[i].reservedAt
        BY RowFacts DEF ThrottleInv, TypeOK
      <3> QED
        BY <1>0, <3>1 DEF Stale, Never
    <2>5. \A d \in Call \ {c} : call[d].id \in I => ~At(d, "counted")
      BY DEF BeingCounted
    <2> HIDE DEF s, I
    <2> QED
      BY <2>1, <2>3, <2>4, <2>5, Erased
  <1>2. CASE BeginReserve(c)
    <2> DEFINE s == [call[c] EXCEPT !.phase = "reserving", !.began = now]
    <2>1. At(c, "arrived") /\ Becomes(c, s) /\ UNCHANGED <<now, rows>>
      BY <1>2 DEF BeginReserve, Begins
    <2>2. call[c].id = 0
      BY <2>1 DEF ThrottleInv, NoReservation, Guessing, At
    <2>3. /\ s \in CallState /\ s.phase = "reserving" /\ s.phase \notin Guessing
          /\ s.id = 0 /\ s.began <= now
      <3>1. s \in CallState
        BY <1>0 DEF CallState, Phases
      <3>2. s.phase = "reserving" /\ s.id = 0 /\ s.began = now
        BY <1>0, <2>2 DEF CallState
      <3> QED
        BY <1>0, <3>1, <3>2 DEF Guessing
    <2> HIDE DEF s
    <2> QED
      BY <2>1, <2>3, LetGo
  <1>3. CASE Reserve(c)
    BY <1>3, Reserved
  <1>4. CASE Refuse(c) \/ NothingToCount(c) \/ Abandon(c)
    <2>1. Becomes(c, Idle) /\ UNCHANGED <<now, rows>>
      BY <1>4 DEF Refuse, NothingToCount, Abandon
    <2> QED
      BY <1>0, <2>1, IdleFacts, LetGo
  <1>5. CASE Wrong(c)
    <2> DEFINE s == [call[c] EXCEPT !.phase = "failing", !.began = now]
    <2>1. At(c, "checking") /\ Becomes(c, s) /\ UNCHANGED <<now, rows>>
      BY <1>5 DEF Wrong, Begins
    <2>2. call[c].phase \in Guessing /\ call[c].id \in DOMAIN rows
      BY <2>1 DEF ThrottleInv, OwnReservation, Guessing, At
    <2>3. rows[call[c].id].reservedAt <= now
      <3>1. /\ rows[call[c].id].reservedAt \in Nat /\ rows[call[c].id].admittedAt \in Nat
            /\ rows[call[c].id].reservedAt <= rows[call[c].id].admittedAt
            /\ rows[call[c].id].admittedAt <= now
        BY <2>2, RowFacts DEF ThrottleInv, TypeOK
      <3> QED
        BY <1>0, <3>1
    <2>4. /\ s \in CallState /\ s.phase = "failing" /\ s.id = call[c].id
          /\ s.began = now /\ s.phase \in Guessing
      BY <1>0 DEF CallState, Phases, Guessing
    <2> HIDE DEF s
    <2> QED
      <3>1. /\ s.phase # "counted" /\ s.began <= now
            /\ rows[s.id].reservedAt <= s.began
        BY <1>0, <2>3, <2>4
      <3> QED
        BY <2>1, <2>2, <2>4, <3>1, Kept
  <1>6. ASSUME NEW p \in {"clearing", "releasing"}, At(c, "checking"), Enters(c, p),
               UNCHANGED <<now, rows>>
        PROVE  ThrottleInv'
    <2> DEFINE s == [Idle EXCEPT !.phase = p, !.id = call[c].id]
    <2>1. call[c].phase \in Guessing /\ Becomes(c, s)
      BY <1>6 DEF Enters, At, Guessing
    <2>2. /\ s \in CallState /\ s.phase = p /\ s.id = call[c].id /\ s.began = 0
          /\ s.phase \in Guessing
      BY <1>0 DEF Idle, CallState, Phases, Guessing
    <2> HIDE DEF s
    <2> QED
      <3>1. s.phase \notin {"failing", "counted"} /\ s.began <= now
        BY <1>0, <1>6, <2>2
      <3> QED
        BY <1>6, <2>1, <2>2, <3>1, Kept
  <1>7. CASE Count(c)
    <2> DEFINE k == call[c].id
               u == call[c].began - Window
               F == FailedSince(u) \cup {k}
               G == FailuresSince(u) \cup {k}
               s == [call[c] EXCEPT !.phase = "counted", !.lock = Cardinality(F) >= MaxFailed]
    <2>1. /\ At(c, "failing") /\ rows[k].status = "pending" /\ Becomes(c, s)
          /\ UNCHANGED <<now, rows>>
      BY <1>7 DEF Count
    <2>2. call[c].phase \in Guessing /\ k \in DOMAIN rows
      BY <2>1 DEF ThrottleInv, OwnReservation, Guessing, At
    <2>3. rows[k].reservedAt <= call[c].began
      BY <2>1 DEF ThrottleInv, ReservedBefore, At
    <2>4. F \subseteq G
      <3>1. \A i \in DOMAIN rows : rows[i].status = "failed" => rows[i].failedAt # Never
        <4> SUFFICES ASSUME NEW i \in DOMAIN rows, rows[i].status = "failed"
                     PROVE  rows[i].failedAt # Never
          OBVIOUS
        <4>1. rows[i].reservedAt \in Nat /\ rows[i].failedAt >= rows[i].reservedAt
          BY RowFacts DEF ThrottleInv, TypeOK
        <4> QED
          BY <4>1 DEF Never
      <3> QED
        BY <3>1 DEF FailedSince, FailuresSince
    <2>5. G \subseteq 1 .. Len(rows) /\ Len(rows) \in Nat
      BY <2>2, RowFacts DEF ThrottleInv, FailuresSince
    <2>6. /\ Cardinality(F) <= Cardinality(G)
          /\ Cardinality(F) \in Nat /\ Cardinality(G) \in Nat
      <3> HIDE DEF F, G
      <3> QED
        BY <2>4, <2>5, Part
    <2>7. /\ s \in CallState /\ s.phase = "counted" /\ s.id = k
          /\ s.began = call[c].began /\ s.phase \in Guessing
          /\ s.lock => Cardinality(F) >= MaxFailed
      <3> DEFINE l == Cardinality(F) >= MaxFailed
      <3>1. l \in BOOLEAN
        OBVIOUS
      <3> HIDE DEF F
      <3> QED
        BY <1>0, <3>1 DEF CallState, Phases, Guessing
    <2>8. s.lock => Cardinality(G) >= MaxFailed
      <3> HIDE DEF F, G, s
      <3> QED
        BY <2>6, <2>7
    <2> HIDE DEF s
    <2> QED
      BY <1>0, <2>1, <2>2, <2>3, <2>7, <2>8, Kept
  <1>8. CASE CommitFailure(c)
    BY <1>8, Committed
  <1>9. CASE Clear(c)
    <2> DEFINE I == {i \in Through(call[c].id) : rows[i].status \in {"pending", "failed"}}
    <2>1. At(c, "clearing") /\ Becomes(c, Idle) /\ Deleted(I, "cleared") /\ UNCHANGED now
      BY <1>9 DEF Clear
    <2>2. \A d \in Call \ {c} : call[d].phase \in Guessing => call[d].id \notin I
      <3> SUFFICES ASSUME NEW d \in Call \ {c}, call[d].phase \in Guessing
                   PROVE  call[d].id \notin I
        OBVIOUS
      <3>1. rows[call[d].id].status # "failed" /\ call[c].id # call[d].id
        BY DEF ThrottleInv, OwnReservation
      <3> QED
        BY <3>1 DEF Through
    <2>3. \A i \in I : rows[i].status \in {"pending", "failed"}
      OBVIOUS
    <2> HIDE DEF I
    <2> QED
      BY <1>0, <2>1, <2>2, <2>3, IdleFacts, Erased
  <1>10. CASE Release(c)
    <2> DEFINE I == {i \in {call[c].id} : rows[i].status = "pending"}
    <2>1. At(c, "releasing") /\ Becomes(c, Idle) /\ Deleted(I, "released") /\ UNCHANGED now
      BY <1>10 DEF Release
    <2>2. \A d \in Call \ {c} : call[d].phase \in Guessing => call[d].id \notin I
      BY DEF ThrottleInv, OwnReservation
    <2>3. \A i \in I : rows[i].status \in {"pending", "failed"}
      OBVIOUS
    <2> HIDE DEF I
    <2> QED
      BY <1>0, <2>1, <2>2, <2>3, IdleFacts, Erased
  <1> QED
    BY <1>1, <1>2, <1>3, <1>4, <1>5, <1>6, <1>7, <1>8, <1>9, <1>10
       DEF Step, Right, Trouble

\* The invariant holds, whatever the calls, the waits and the failures.
THEOREM ThrottleInvariance == Spec => []ThrottleInv
  <1>1. ThrottleInv /\ [Next]_vars => ThrottleInv'
    <2> SUFFICES ASSUME ThrottleInv, [Next]_vars PROVE ThrottleInv'
      OBVIOUS
    <2>1. CASE UNCHANGED vars
      BY <2>1 DEF vars, ThrottleInv, TypeOK, OwnReservation, NoReservation, ReservedBefore,
                  StaleIsOld, CountStands, GuessesAreLimited, RecentGuesses,
                  LockIsEarned, FailuresSince, At
    <2>2. CASE Tick
      BY <2>2, DatabaseTicked
    <2>3. ASSUME NEW c \in Call, Step(c) PROVE ThrottleInv'
      BY <2>3, GuessStepHolds
    <2> QED
      BY <2>1, <2>2, <2>3 DEF Next
  <1> QED
    BY ThrottleInits, <1>1, PTL DEF Spec

-----------------------------------------------------------------------------
(* The promises *)

\* Types, and dates that agree with each other (TypeOK).
THEOREM ThrottleTypeCorrect == Spec => []TypeOK
  <1>1. ThrottleInv => TypeOK
    BY DEF ThrottleInv
  <1> QED
    BY ThrottleInvariance, <1>1, PTL

\* No call loses its reservation to another (OwnReservation).
THEOREM ReservationsAreOwn == Spec => []OwnReservation
  <1>1. ThrottleInv => OwnReservation
    BY DEF ThrottleInv
  <1> QED
    BY ThrottleInvariance, <1>1, PTL

\* At most MaxFailed guesses within a window (GuessesAreLimited).
THEOREM AlwaysLimited == Spec => []GuessesAreLimited
  <1>1. ThrottleInv => GuessesAreLimited
    BY DEF ThrottleInv
  <1> QED
    BY ThrottleInvariance, <1>1, PTL

\* A lock is the consequence of MaxFailed failures (LockIsEarned).
THEOREM LocksAreEarned == Spec => []LockIsEarned
  <1>1. ThrottleInv => LockIsEarned
    BY DEF ThrottleInv
  <1> QED
    BY ThrottleInvariance, <1>1, PTL

\* No guess is lost, too many are stopped, and only they (GuessesAreJudged).
THEOREM AlwaysJudged == Spec => []GuessesAreJudged
  BY ReservationsAreOwn, AlwaysLimited, LocksAreEarned, PTL DEF GuessesAreJudged

LEMMA Shortened ==
  ASSUME ThrottleInv, NEW I, NEW reason \in Statuses, Deleted(I, reason)
  PROVE  /\ Len(rows') = Len(rows)
         /\ \A i \in DOMAIN rows : i \notin I => rows'[i] = rows[i]
         /\ \A i \in DOMAIN rows : i \in I => rows'[i].status = reason
  <1>1. /\ Len(rows) \in Nat /\ DOMAIN rows = 1 .. Len(rows)
        /\ \A i \in DOMAIN rows : rows[i] \in Row
    BY RowFacts DEF ThrottleInv
  <1>2. rows' \in [1 .. Len(rows) -> Row]
    BY <1>1 DEF Deleted, Row
  <1>3. rows' \in Seq(Row)
    BY <1>1, <1>2, SeqDef
  <1>4. DOMAIN rows' = 1 .. Len(rows) /\ DOMAIN rows' = 1 .. Len(rows') /\ Len(rows') \in Nat
    BY <1>2, <1>3, LenProperties
  <1>5. Len(rows') = Len(rows)
    BY <1>1, <1>4
  <1>6. \A i \in DOMAIN rows : i \in I => rows'[i].status = reason
    BY <1>1 DEF Deleted, Row
  <1> QED
    BY <1>5, <1>6 DEF Deleted

LEMMA LockStands ==
  ASSUME ThrottleInv, [Next]_vars, NEW i \in DOMAIN rows, Locking(i, now)
  PROVE  /\ Len(rows') = Len(rows)
         /\ \/ rows'[i] = rows[i]
            \/ /\ rows'[i].status = "cleared"
               /\ \E c \in Call : At(c, "clearing") /\ call[c].id > i
  <1>0. /\ Len(rows) \in Nat /\ DOMAIN rows = 1 .. Len(rows) /\ now \in Nat
        /\ rows[i].status = "failed" /\ rows[i].lockedUntil \in Nat \cup {Never}
        /\ rows[i].lockedUntil > now /\ i \in Nat
    BY RowFacts DEF ThrottleInv, TypeOK, Locking
  <1>1. CASE rows' = rows
    BY <1>1
  <1>2. ASSUME NEW c \in Call, Arrive(c)
        PROVE  Len(rows') = Len(rows) /\ rows'[i] = rows[i]
    <2> DEFINE I == {j \in DOMAIN rows : Stale(j) /\ ~BeingCounted(j)}
    <2>1. Deleted(I, "stale") /\ "stale" \in Statuses
      BY <1>2 DEF Arrive, Statuses
    <2>2. i \notin I
      BY <1>0 DEF Stale, Never
    <2> HIDE DEF I
    <2> QED
      BY <2>1, <2>2, Shortened
  <1>3. ASSUME NEW c \in Call, Reserve(c)
        PROVE  FALSE
    <2>1. call[c].began \in Nat /\ call[c].began <= now
      BY CallFacts DEF ThrottleInv
    <2>2. Locking(i, call[c].began)
      BY <1>0, <2>1 DEF Locking, Never
    <2> QED
      BY <1>3, <2>2 DEF Reserve, Admissible
  <1>4. ASSUME NEW c \in Call, CommitFailure(c)
        PROVE  Len(rows') = Len(rows) /\ rows'[i] = rows[i]
    <2>1. call[c].id # i
      BY <1>0, <1>4 DEF CommitFailure, ThrottleInv, OwnReservation, At, Guessing
    <2>2. rows' = [rows EXCEPT ![call[c].id] = rows'[call[c].id]]
      BY <1>4 DEF CommitFailure
    <2>3. ThrottleInv'
      BY <1>4, Committed
    <2>4. /\ rows' \in Seq(Row) /\ DOMAIN rows' = DOMAIN rows
          /\ DOMAIN rows' = 1 .. Len(rows') /\ Len(rows') \in Nat
      BY <2>2, <2>3, LenProperties DEF ThrottleInv, TypeOK
    <2> QED
      BY <1>0, <2>1, <2>2, <2>4
  <1>5. ASSUME NEW c \in Call, Clear(c)
        PROVE  /\ Len(rows') = Len(rows)
               /\ \/ rows'[i] = rows[i]
                  \/ rows'[i].status = "cleared" /\ At(c, "clearing") /\ call[c].id > i
    <2> DEFINE I == {j \in Through(call[c].id) : rows[j].status \in {"pending", "failed"}}
    <2>1. Deleted(I, "cleared") /\ "cleared" \in Statuses /\ At(c, "clearing")
      BY <1>5 DEF Clear, Statuses
    <2>2. call[c].id \in Nat /\ rows[call[c].id].status # "failed"
      BY <2>1, CallFacts DEF ThrottleInv, OwnReservation, At, Guessing
    <2>3. i \in I => call[c].id > i
      BY <1>0, <2>2 DEF Through
    <2> HIDE DEF I
    <2>4. Len(rows') = Len(rows) /\ (i \notin I => rows'[i] = rows[i])
          /\ (i \in I => rows'[i].status = "cleared")
      BY <2>1, Shortened
    <2> QED
      BY <2>1, <2>3, <2>4
  <1>6. ASSUME NEW c \in Call, Release(c)
        PROVE  Len(rows') = Len(rows) /\ rows'[i] = rows[i]
    <2> DEFINE I == {j \in {call[c].id} : rows[j].status = "pending"}
    <2>1. Deleted(I, "released") /\ "released" \in Statuses
      BY <1>6 DEF Release, Statuses
    <2>2. i \notin I
      BY <1>0
    <2> HIDE DEF I
    <2> QED
      BY <2>1, <2>2, Shortened
  <1>7. ASSUME NEW c \in Call, Step(c)
        PROVE  \/ rows' = rows
               \/ Arrive(c) \/ Reserve(c) \/ CommitFailure(c) \/ Clear(c) \/ Release(c)
    BY <1>7 DEF Step, BeginReserve, Refuse, Wrong, Right, Trouble, Count, NothingToCount,
                Abandon
  <1>8. rows' = rows \/ \E c \in Call : Step(c)
    BY DEF Next, vars, Tick
  <1> QED
    BY <1>1, <1>2, <1>3, <1>4, <1>5, <1>6, <1>7, <1>8

\* A lock is not lifted by time, clean-up, other guesses or an older login, and
\* nothing is admitted under it (LockHolds).
THEOREM LocksHold == Spec => LockHolds
  <1>1. ThrottleInv /\ [Next]_vars
          => [\A i \in DOMAIN rows :
                 Locking(i, now)
                     => /\ Len(rows') = Len(rows)
                        /\ \/ rows'[i] = rows[i]
                           \/ /\ rows'[i].status = "cleared"
                              /\ \E c \in Call : At(c, "clearing") /\ call[c].id > i]_vars
    BY LockStands
  <1> QED
    BY ThrottleInvariance, <1>1, PTL DEF Spec, LockHolds

-----------------------------------------------------------------------------

\* The barrier lies ahead of every grant by the gap the grant reserved.
BarrierAhead ==
    \A i \in DOMAIN grants :
        /\ grants[i].at <= time
        /\ grants[i].at + DirectoryGap <= barrier
        /\ grants[i].group = "conservative" => grants[i].at + Gap <= barrier

\* Grants follow each other by the gap the earlier one reserved.
GrantsApart ==
    \A i, j \in DOMAIN grants :
        i < j => /\ grants[j].at - grants[i].at >= (j - i) * DirectoryGap
                 /\ grants[i].group = "conservative"
                        => grants[j].at - grants[i].at >= Gap

\* A permit is used within a lifetime of its grant.
SentInTime ==
    \A i \in DOMAIN grants :
        IsSent(i) => /\ grants[i].at <= grants[i].sentAt
                     /\ grants[i].sentAt < grants[i].at + Lifetime

\* A caller's claim left before the grant it got, and its permit expires within
\* a lifetime of the grant.
Young(s) ==
    /\ s.phase \in {"claiming", "granted"} => s.started <= time
    /\ s.phase \in {"granted", "permitted"} => s.grant \in DOMAIN grants
    /\ s.phase = "granted" => s.started <= grants[s.grant].at
    /\ s.phase = "permitted" => s.expires <= grants[s.grant].at + Lifetime

PermitsYoung == \A c \in Caller : Young(caller[c])

\* Nothing is granted during a pause, and the barrier lies beyond it.
PausesHold ==
    \A p \in pauses :
        /\ p.from <= time /\ p.to <= barrier
        /\ \A i \in DOMAIN grants : grants[i].at <= p.from \/ grants[i].at >= p.to

LimiterInv == /\ LimiterTypeOK
              /\ BarrierAhead
              /\ GrantsApart
              /\ SentInTime
              /\ PermitsYoung
              /\ PausesHold

USE LimiterAssumption

-----------------------------------------------------------------------------
(* Types and arithmetic *)

LEMMA IdleType == IdleCaller \in CallerState
  BY DEF IdleCaller, CallerState, CallerPhases, Groups

LEMMA OneMore ==
  \A k \in Int : (k + 1) * DirectoryGap = k * DirectoryGap + DirectoryGap
  OBVIOUS

\* What the type of grants says of each of them.
LEMMA GrantFacts ==
  ASSUME LimiterTypeOK
  PROVE  /\ Len(grants) \in Nat /\ DOMAIN grants = 1 .. Len(grants)
         /\ \A i \in DOMAIN grants :
                /\ i \in Nat /\ grants[i] \in Grant /\ grants[i].at \in Nat
                /\ grants[i].sentAt \in Nat \cup {NotSent}
  <1>1. grants \in Seq(Grant)
    BY DEF LimiterTypeOK
  <1>2. /\ Len(grants) \in Nat /\ DOMAIN grants = 1 .. Len(grants)
        /\ \A i \in DOMAIN grants : i \in Nat /\ grants[i] \in Grant
    BY <1>1
  <1>3. \A g \in Grant : g.at \in Nat /\ g.sentAt \in Nat \cup {NotSent}
    BY DEF Grant
  <1> QED
    BY <1>2, <1>3

\* The delay answered is never negative, and 0 only when the barrier is past.
LEMMA DelayType ==
  ASSUME LimiterTypeOK, NEW g \in Groups
  PROVE  /\ QuotaDelay(g) \in Nat
         /\ QuotaDelay(g) = 0 => barrier <= time
  BY DEF QuotaDelay, LimiterTypeOK, Larger, Pause, Groups

-----------------------------------------------------------------------------
(* The kinds of steps *)

LEMMA LimiterInits == LimiterInit => LimiterInv
  <1> SUFFICES ASSUME LimiterInit PROVE LimiterInv
    OBVIOUS
  <1>1. LimiterTypeOK
    BY IdleType DEF LimiterInit, LimiterTypeOK, Grant
  <1>2. BarrierAhead /\ GrantsApart /\ SentInTime /\ PausesHold
    BY DEF LimiterInit, BarrierAhead, GrantsApart, SentInTime, PausesHold
  <1>3. PermitsYoung
    BY DEF LimiterInit, PermitsYoung, Young, IdleCaller
  <1> QED
    BY <1>1, <1>2, <1>3 DEF LimiterInv

\* A step that only moves one caller on.
LEMMA MovedOn ==
  ASSUME LimiterInv, NEW c \in Caller, NEW s \in CallerState, Young(s), CallerBecomes(c, s)
  PROVE  LimiterInv'
  <1>1. LimiterTypeOK'
    BY DEF LimiterInv, LimiterTypeOK, CallerBecomes
  <1>2. BarrierAhead' /\ GrantsApart' /\ SentInTime' /\ PausesHold'
    BY DEF LimiterInv, BarrierAhead, GrantsApart, SentInTime, IsSent, PausesHold, CallerBecomes
  <1>3. PermitsYoung'
    BY DEF LimiterInv, LimiterTypeOK, PermitsYoung, Young, CallerBecomes
  <1> QED
    BY <1>1, <1>2, <1>3 DEF LimiterInv

\* A granted claim: the barrier was past, and now lies a gap ahead.
LEMMA Granted ==
  ASSUME LimiterInv, NEW c \in Caller, NEW g \in Groups, barrier <= time,
         caller[c].phase = "claiming", ReserveQuota(g),
         grants' = Append(grants, [group |-> g, at |-> time, sentAt |-> NotSent]),
         NEW s \in CallerState, caller' = [caller EXCEPT ![c] = s],
         s.phase = "granted", s.grant = Len(grants) + 1, s.started = caller[c].started,
         UNCHANGED <<time, pauses>>
  PROVE  LimiterInv'
  <1> DEFINE n == Len(grants) + 1
             new == [group |-> g, at |-> time, sentAt |-> NotSent]
  <1>0. /\ grants \in Seq(Grant) /\ time \in Nat /\ barrier \in Nat
        /\ DOMAIN grants = 1 .. Len(grants) /\ Len(grants) \in Nat
        /\ \A i \in DOMAIN grants : grants[i] \in Grant
    BY DEF LimiterInv, LimiterTypeOK, Pause
  <1>a. \A i \in DOMAIN grants : grants[i].at \in Nat
    BY <1>0 DEF Grant
  <1>b. \A i \in DOMAIN grants : grants[i].at <= time /\ grants[i].at <= barrier
    BY <1>0, <1>a DEF LimiterInv, BarrierAhead
  <1>1. new \in Grant
    BY <1>0 DEF Grant, Groups, NotSent
  <1>2. /\ grants' \in Seq(Grant) /\ Len(grants') = n /\ DOMAIN grants' = 1 .. n
        /\ grants'[n] = new
        /\ \A i \in 1 .. Len(grants) : grants'[i] = grants[i]
    BY <1>0, <1>1
  <1>3. /\ barrier' \in Nat /\ barrier' >= time + DirectoryGap
        /\ g = "conservative" => barrier' >= time + Gap
        /\ barrier' <= time + Gap
        /\ directoryNext' \in 0 .. time + DirectoryGap
    BY <1>0 DEF ReserveQuota, LimiterInv, LimiterTypeOK, Groups
  <1>4. LimiterTypeOK'
    <2>1. caller' \in [Caller -> CallerState]
      BY DEF LimiterInv, LimiterTypeOK
    <2>2. barrier' \in (0 .. time' + Gap) \cup {p.to : p \in pauses'}
      BY <1>0, <1>3
    <2> QED
      BY <1>0, <1>2, <1>3, <2>1, <2>2 DEF LimiterInv, LimiterTypeOK
  <1>5. BarrierAhead'
    <2> SUFFICES ASSUME NEW i \in 1 .. n
                 PROVE  /\ grants'[i].at <= time
                        /\ grants'[i].at + DirectoryGap <= barrier'
                        /\ grants'[i].group = "conservative"
                              => grants'[i].at + Gap <= barrier'
      BY <1>2 DEF BarrierAhead
    <2>1. CASE i = n
      BY <1>0, <1>2, <1>3, <2>1
    <2>2. CASE i # n
      <3>1. i \in DOMAIN grants /\ grants'[i] = grants[i]
        BY <1>0, <1>2, <2>2
      <3>2. /\ grants[i].at + DirectoryGap <= barrier
            /\ grants[i].group = "conservative" => grants[i].at + Gap <= barrier
        BY <3>1 DEF LimiterInv, BarrierAhead
      <3> DEFINE a == grants[i].at
      <3>3. /\ a \in Nat /\ a <= time /\ a + DirectoryGap <= barrier
            /\ grants[i].group = "conservative" => a + Gap <= barrier
        BY <1>a, <1>b, <3>1, <3>2
      <3>4. /\ a + DirectoryGap <= barrier'
            /\ grants[i].group = "conservative" => a + Gap <= barrier'
        <4>1. /\ time \in Nat /\ barrier \in Nat /\ barrier' \in Nat
              /\ barrier <= time /\ time <= barrier'
          BY <1>0, <1>3
        <4> HIDE DEF a
        <4>2. barrier <= barrier'
          BY <4>1
        <4> QED
          BY <3>3, <4>1, <4>2
      <3> QED
        BY <3>1, <3>3, <3>4
    <2> QED
      BY <2>1, <2>2
  <1>6. GrantsApart'
    <2> SUFFICES ASSUME NEW i \in 1 .. n, NEW j \in 1 .. n, i < j
                 PROVE  /\ grants'[j].at - grants'[i].at >= (j - i) * DirectoryGap
                        /\ grants'[i].group = "conservative"
                              => grants'[j].at - grants'[i].at >= Gap
      BY <1>2 DEF GrantsApart
    <2>1. CASE j < n
      BY <1>0, <1>2, <2>1 DEF LimiterInv, GrantsApart
    <2>2. CASE j = n
      <3>1. i \in DOMAIN grants /\ grants'[i] = grants[i] /\ grants'[j].at = time
        BY <1>0, <1>2, <2>2
      <3>2. grants[i].group = "conservative" => time - grants[i].at >= Gap
        <4>1. grants[i].group = "conservative" => grants[i].at + Gap <= barrier
          BY <3>1 DEF LimiterInv, BarrierAhead
        <4> DEFINE a == grants[i].at
        <4>2. a \in Nat /\ time \in Nat /\ barrier \in Nat /\ Gap \in Nat /\ barrier <= time
          BY <1>0, <1>a, <3>1
        <4>3. grants[i].group = "conservative" => a + Gap <= barrier
          BY <4>1
        <4> HIDE DEF a
        <4>4. grants[i].group = "conservative" => time - a >= Gap
          BY <4>2, <4>3
        <4> QED
          BY <4>4 DEF a
      <3>3. time - grants[i].at >= (j - i) * DirectoryGap
        <4> DEFINE l == Len(grants)
        <4>0. l \in DOMAIN grants /\ i <= l
          BY <1>0, <3>1
        <4>1. time - grants[l].at >= DirectoryGap
          <5>1. grants[l].at + DirectoryGap <= barrier
            BY <4>0 DEF LimiterInv, BarrierAhead
          <5> DEFINE a == grants[l].at
          <5>2. /\ a \in Nat /\ a + DirectoryGap <= barrier /\ barrier <= time
                /\ time \in Nat /\ barrier \in Nat /\ DirectoryGap \in Nat
            BY <1>0, <1>a, <4>0, <5>1
          <5>3. time - a >= DirectoryGap
            <6> HIDE DEF a
            <6> QED
              BY <5>2
          <5> QED
            BY <5>3
        <4>2. grants[l].at - grants[i].at >= (l - i) * DirectoryGap
          <5>1. CASE i < l
            BY <3>1, <4>0, <5>1 DEF LimiterInv, GrantsApart
          <5>2. CASE i = l
            BY <1>0, <1>a, <4>0, <5>2
          <5> QED
            BY <1>0, <3>1, <4>0, <5>1, <5>2
        <4>3. (j - i) * DirectoryGap = (l - i) * DirectoryGap + DirectoryGap
          <5>1. j - i = (l - i) + 1 /\ l - i \in Int
            BY <1>0, <2>2
          <5> HIDE DEF l
          <5> QED
            BY <5>1, OneMore
        <4>4. grants[l].at \in Nat /\ grants[i].at \in Nat
          BY <1>a, <3>1, <4>0
        <4>5. (l - i) * DirectoryGap \in Int
          BY <1>0
        <4>6. time \in Nat /\ DirectoryGap \in Nat
          BY <1>0
        <4> DEFINE a == grants[l].at
                   b == grants[i].at
                   m == (l - i) * DirectoryGap
                   q == (j - i) * DirectoryGap
        <4>7. /\ time - a >= DirectoryGap /\ a - b >= m /\ q = m + DirectoryGap
              /\ a \in Nat /\ b \in Nat /\ m \in Int
          BY <4>1, <4>2, <4>3, <4>4, <4>5
        <4>8. time - b >= q
          <5> HIDE DEF a, b, m, q
          <5> QED
            BY <4>6, <4>7, SMTT(30)
        <4> QED
          BY <4>8
      <3>4. grants'[j].at - grants'[i].at = time - grants[i].at
        BY <3>1
      <3>5. grants'[i].group = grants[i].group
        BY <3>1
      <3> QED
        BY <3>2, <3>3, <3>4, <3>5
    <2> QED
      BY <2>1, <2>2, <1>0, SMTT(30)
  <1>7. SentInTime'
    BY <1>0, <1>2 DEF LimiterInv, SentInTime, IsSent
  <1>8. PermitsYoung'
    <2> SUFFICES ASSUME NEW d \in Caller PROVE Young(caller[d])'
      BY DEF PermitsYoung
    <2>1. CASE d = c
      <3>1. caller'[c] = s
        BY DEF LimiterInv, LimiterTypeOK
      <3>2. s.phase = "granted" /\ s.grant = n /\ s.started = caller[c].started
        OBVIOUS
      <3>3. caller[c].started <= time
        BY DEF LimiterInv, PermitsYoung, Young
      <3>4. n \in DOMAIN grants' /\ grants'[n].at = time /\ time' = time
        BY <1>0, <1>2
      <3> HIDE DEF n
      <3> QED
        BY <2>1, <3>1, <3>2, <3>3, <3>4 DEF Young
    <2>2. CASE d # c
      BY <1>0, <1>2, <2>2 DEF LimiterInv, LimiterTypeOK, PermitsYoung, Young
    <2> QED
      BY <2>1, <2>2
  <1>9. PausesHold'
    <2> SUFFICES ASSUME NEW p \in pauses
                 PROVE  /\ p.from <= time /\ p.to <= barrier'
                        /\ \A i \in 1 .. n :
                              grants'[i].at <= p.from \/ grants'[i].at >= p.to
      BY <1>2 DEF PausesHold
    <2>1. p.from \in Nat /\ p.to \in Nat
      BY DEF LimiterInv, LimiterTypeOK, Pause
    <2>2. /\ p.from <= time /\ p.to <= barrier
          /\ \A i \in DOMAIN grants : grants[i].at <= p.from \/ grants[i].at >= p.to
      BY DEF LimiterInv, PausesHold
    <2>3. p.to <= time /\ p.to <= barrier'
      BY <1>0, <1>3, <2>1, <2>2, SMTT(30)
    <2>4. \A i \in 1 .. n : i = n \/ i \in DOMAIN grants
      BY <1>0
    <2> QED
      BY <1>0, <1>2, <2>2, <2>3, <2>4
  <1> QED
    BY <1>4, <1>5, <1>6, <1>7, <1>8, <1>9 DEF LimiterInv

-----------------------------------------------------------------------------

\* A permit is used while it is fresh.
LEMMA Dispatched == ASSUME LimiterInv, NEW c \in Caller, Dispatch(c) PROVE LimiterInv'
  <1> DEFINE g == caller[c].grant
             s == [IdleCaller EXCEPT !.phase = "sent"]
  <1>0. /\ grants \in Seq(Grant) /\ time \in Nat
        /\ caller \in [Caller -> CallerState] /\ caller[c].expires \in Nat
        /\ \A i \in DOMAIN grants : grants[i] \in Grant
    BY DEF LimiterInv, LimiterTypeOK, CallerState
  <1>1. g \in DOMAIN grants /\ time < grants[g].at + Lifetime
    <2>1. /\ caller[c].phase = "permitted" /\ time < caller[c].expires
      BY DEF Dispatch
    <2>2. g \in DOMAIN grants /\ caller[c].expires <= grants[g].at + Lifetime
      BY <2>1 DEF LimiterInv, PermitsYoung, Young
    <2>3. grants[g].at \in Nat
      BY <1>0, <2>2 DEF Grant
    <2> DEFINE a == grants[g].at
               e == caller[c].expires
    <2>4. e \in Nat /\ a \in Nat /\ time < e /\ e <= a + Lifetime
      BY <1>0, <2>1, <2>2, <2>3
    <2>5. time < a + Lifetime
      <3> HIDE DEF a, e
      <3> QED
        BY <1>0, <2>4
    <2> QED
      BY <2>2, <2>5
  <1>2. /\ grants' \in Seq(Grant) /\ DOMAIN grants' = DOMAIN grants
        /\ \A i \in DOMAIN grants : /\ grants'[i].at = grants[i].at
                                    /\ grants'[i].group = grants[i].group
        /\ \A i \in DOMAIN grants \ {g} : grants'[i] = grants[i]
        /\ grants'[g].sentAt = time
    <2> DEFINE r == [grants[g] EXCEPT !.sentAt = time]
    <2>1. r \in Grant /\ r.at = grants[g].at /\ r.group = grants[g].group /\ r.sentAt = time
      BY <1>0, <1>1 DEF Grant
    <2>2. grants' = [grants EXCEPT ![g] = r]
      BY DEF Dispatch
    <2> HIDE DEF r
    <2> QED
      BY <1>0, <1>1, <2>1, <2>2
  <1>3. caller' = [caller EXCEPT ![c] = s] /\ UNCHANGED <<time, barrier, directoryNext, pauses>>
    BY DEF Dispatch
  <1>4. s \in CallerState
    BY IdleType DEF IdleCaller, CallerState, CallerPhases, Groups
  <1>5. LimiterTypeOK'
    BY <1>0, <1>2, <1>3, <1>4 DEF LimiterInv, LimiterTypeOK
  <1>6. BarrierAhead' /\ GrantsApart'
    BY <1>2, <1>3 DEF LimiterInv, BarrierAhead, GrantsApart
  <1>7. SentInTime'
    <2> SUFFICES ASSUME NEW i \in DOMAIN grants, grants'[i].sentAt # NotSent
                 PROVE  /\ grants'[i].at <= grants'[i].sentAt
                        /\ grants'[i].sentAt < grants'[i].at + Lifetime
      BY <1>2 DEF SentInTime, IsSent
    <2>1. CASE i = g
      BY <1>1, <1>2, <2>1 DEF LimiterInv, BarrierAhead
    <2>2. CASE i # g
      BY <1>2, <2>2 DEF LimiterInv, SentInTime, IsSent
    <2> QED
      BY <2>1, <2>2
  <1>8. PermitsYoung'
    BY <1>0, <1>2, <1>3 DEF LimiterInv, PermitsYoung, Young, IdleCaller
  <1>9. PausesHold'
    BY <1>2, <1>3 DEF LimiterInv, PausesHold
  <1> QED
    BY <1>5, <1>6, <1>7, <1>8, <1>9 DEF LimiterInv

\* A pause only moves the barrier further away, and begins after every grant.
LEMMA Paused ==
  ASSUME LimiterInv, NEW c \in Caller, NEW delay \in Cooldowns, TooManyRequests(c, delay)
  PROVE  LimiterInv'
  <1> DEFINE p == [from |-> time, to |-> time + delay]
  <1>0. time \in Nat /\ barrier \in Nat /\ delay \in Nat /\ p \in Pause
    BY DEF LimiterInv, LimiterTypeOK, Pause
  <1>1. /\ caller' = [caller EXCEPT ![c] = IdleCaller] /\ pauses' = pauses \cup {p}
        /\ UNCHANGED <<time, directoryNext, grants>>
    BY DEF TooManyRequests
  <1>2. /\ barrier' \in Nat /\ barrier' >= barrier /\ barrier' >= p.to
        /\ barrier' = barrier \/ barrier' = p.to
    BY <1>0 DEF TooManyRequests, CooledDown, Larger
  <1>3. LimiterTypeOK'
    <2>1. barrier' \in (0 .. time' + Gap) \cup {q.to : q \in pauses'}
      BY <1>0, <1>1, <1>2 DEF LimiterInv, LimiterTypeOK
    <2> QED
      BY <1>0, <1>1, <2>1, IdleType DEF LimiterInv, LimiterTypeOK
  <1>4. BarrierAhead'
    <2> SUFFICES ASSUME NEW i \in DOMAIN grants
                 PROVE  /\ grants[i].at <= time
                        /\ grants[i].at + DirectoryGap <= barrier'
                        /\ grants[i].group = "conservative"
                              => grants[i].at + Gap <= barrier'
      BY <1>1 DEF BarrierAhead
    <2>1. grants[i].at \in Nat
      BY GrantFacts DEF LimiterInv
    <2>2. /\ grants[i].at <= time
          /\ grants[i].at + DirectoryGap <= barrier
          /\ grants[i].group = "conservative" => grants[i].at + Gap <= barrier
      BY DEF LimiterInv, BarrierAhead
    <2> QED
      BY <1>0, <1>2, <2>1, <2>2
  <1>5. GrantsApart' /\ SentInTime'
    BY <1>1 DEF LimiterInv, GrantsApart, SentInTime, IsSent
  <1>6. PermitsYoung'
    BY <1>1 DEF LimiterInv, LimiterTypeOK, PermitsYoung, Young, IdleCaller
  <1>7. PausesHold'
    <2> SUFFICES ASSUME NEW q \in pauses'
                 PROVE  /\ q.from <= time /\ q.to <= barrier'
                        /\ \A i \in DOMAIN grants :
                              grants[i].at <= q.from \/ grants[i].at >= q.to
      BY <1>1 DEF PausesHold
    <2>1. CASE q = p
      BY <1>0, <1>2, <2>1 DEF LimiterInv, BarrierAhead
    <2>2. CASE q \in pauses
      <3>1. /\ q.from <= time /\ q.to <= barrier /\ q.to \in Nat
            /\ \A i \in DOMAIN grants :
                  grants[i].at <= q.from \/ grants[i].at >= q.to
        BY <2>2 DEF LimiterInv, LimiterTypeOK, PausesHold, Pause
      <3> QED
        BY <1>0, <1>2, <3>1
    <2> QED
      BY <1>1, <2>1, <2>2
  <1> QED
    BY <1>3, <1>4, <1>5, <1>6, <1>7 DEF LimiterInv

\* Time passes.
LEMMA LimiterTicked == ASSUME LimiterInv, LimiterTick PROVE LimiterInv'
  <1>0. time \in Nat /\ time' = time + 1 /\ barrier \in Nat /\ directoryNext \in Nat
        /\ UNCHANGED <<barrier, directoryNext, caller, grants, pauses>>
    BY DEF LimiterTick, LimiterInv, LimiterTypeOK, Pause
  <1>1. LimiterTypeOK'
    <2>1. barrier' \in (0 .. time' + Gap) \cup {p.to : p \in pauses'}
      BY <1>0 DEF LimiterInv, LimiterTypeOK
    <2>2. directoryNext' \in 0 .. time' + DirectoryGap
      BY <1>0 DEF LimiterInv, LimiterTypeOK
    <2> QED
      BY <1>0, <2>1, <2>2 DEF LimiterInv, LimiterTypeOK
  <1>2. BarrierAhead'
    <2>1. \A i \in DOMAIN grants : grants[i].at \in Nat
      BY GrantFacts DEF LimiterInv
    <2> QED
      BY <1>0, <2>1 DEF LimiterInv, BarrierAhead
  <1>3. GrantsApart' /\ SentInTime'
    BY <1>0 DEF LimiterInv, GrantsApart, SentInTime, IsSent
  <1>4. PermitsYoung'
    <2>1. \A c \in Caller : caller[c].started \in Nat
      BY DEF LimiterInv, LimiterTypeOK, CallerState
    <2> QED
      BY <1>0, <2>1 DEF LimiterInv, PermitsYoung, Young
  <1>5. PausesHold'
    <2>1. \A p \in pauses : p.from \in Nat
      BY DEF LimiterInv, LimiterTypeOK, Pause
    <2> QED
      BY <1>0, <2>1 DEF LimiterInv, PausesHold
  <1> QED
    BY <1>1, <1>2, <1>3, <1>4, <1>5 DEF LimiterInv

-----------------------------------------------------------------------------
(* Steps of one caller *)

LEMMA CallerStepHolds == ASSUME LimiterInv, NEW c \in Caller, CallerStep(c) PROVE LimiterInv'
  <1>0. /\ time \in Nat /\ caller[c] \in CallerState /\ Young(caller[c])
        /\ caller[c].phase \in CallerPhases /\ caller[c].group \in Groups
        /\ caller[c].attempt \in Nat /\ caller[c].started \in Nat
        /\ caller[c].grant \in Nat
    BY DEF LimiterInv, LimiterTypeOK, PermitsYoung, CallerState
  <1>1. IdleCaller \in CallerState /\ Young(IdleCaller)
    BY IdleType DEF Young, IdleCaller
  <1>2. ASSUME NEW group \in Groups, Request(c, group) PROVE LimiterInv'
    <2> DEFINE s == [IdleCaller EXCEPT !.phase = "claiming", !.group = group, !.started = time]
    <2>1. s \in CallerState
      BY <1>0 DEF IdleCaller, CallerState, CallerPhases, Groups
    <2>2. s.phase = "claiming" /\ s.started = time
      BY DEF IdleCaller
    <2>3. Young(s)
      BY <1>0, <2>2 DEF Young
    <2> QED
      BY <1>2, <2>1, <2>3, MovedOn DEF Request
  <1>3. CASE Retry(c)
    <2> DEFINE g == caller[c].group
               n == caller[c].attempt + 1
               s == [IdleCaller EXCEPT !.phase = "claiming", !.group = g,
                                       !.attempt = n, !.started = time]
    <2>1. s \in CallerState
      <3>1. time \in Nat /\ g \in Groups /\ n \in Nat
        BY <1>0
      <3> HIDE DEF g, n
      <3> QED
        BY <3>1 DEF IdleCaller, CallerState, CallerPhases, Groups
    <2>2. s.phase = "claiming" /\ s.started = time
      BY DEF IdleCaller
    <2>3. Young(s)
      BY <1>0, <2>2 DEF Young
    <2> QED
      BY <1>3, <2>1, <2>3, MovedOn DEF Retry
  <1>4. CASE GiveUp(c) \/ Limited(c) \/ AbandonRequest(c) \/ StalePermit(c) \/ Done(c)
    <2>1. CallerBecomes(c, IdleCaller)
      BY <1>4 DEF GiveUp, Limited, AbandonRequest, StalePermit, Done
    <2> QED
      BY <1>1, <2>1, MovedOn
  <1>5. CASE Claim(c)
    <2> DEFINE g == caller[c].group
               delay == QuotaDelay(g)
    <2>1. caller[c].phase = "claiming" /\ UNCHANGED <<time, pauses>>
      BY <1>5 DEF Claim
    <2>2. delay \in Nat /\ (delay = 0 => barrier <= time)
      BY <1>0, DelayType DEF LimiterInv
    <2>3. CASE delay = 0
      <3> DEFINE n == Len(grants) + 1
                 s == [IdleCaller EXCEPT !.phase = "granted", !.grant = n,
                                         !.started = caller[c].started]
      <3>1. /\ ReserveQuota(g)
            /\ grants' = Append(grants, [group |-> g, at |-> time, sentAt |-> NotSent])
            /\ caller' = [caller EXCEPT ![c] = s]
        BY <1>5, <2>3, SMTT(30) DEF Claim
      <3>2. n \in Nat
        BY DEF LimiterInv, LimiterTypeOK
      <3>3. s \in CallerState
        <4> HIDE DEF n
        <4> QED
          BY <1>0, <3>2 DEF CallerState, CallerPhases, Groups, IdleCaller
      <3>4. s.phase = "granted" /\ s.grant = n /\ s.started = caller[c].started
        BY DEF IdleCaller
      <3> HIDE DEF s
      <3> QED
        BY <1>0, <2>1, <2>2, <2>3, <3>1, <3>3, <3>4, Granted
    <2>4. CASE delay > 0
      <3> DEFINE s == [IdleCaller EXCEPT !.phase = "waiting", !.wake = time + delay,
                                         !.group = g, !.attempt = caller[c].attempt]
      <3>1. CallerBecomes(c, s)
        <4>1. delay # 0
          BY <2>2, <2>4
        <4> QED
          BY <1>5, <4>1 DEF Claim, CallerBecomes
      <3>2. time + delay \in Nat
        BY <1>0, <2>2
      <3>3. s \in CallerState
        <4> HIDE DEF delay
        <4> QED
          BY <1>0, <3>2 DEF IdleCaller, CallerState, CallerPhases, Groups
      <3>4. s.phase = "waiting"
        BY DEF IdleCaller
      <3>5. Young(s)
        BY <3>4 DEF Young
      <3> QED
        BY <3>1, <3>3, <3>5, MovedOn
    <2> QED
      BY <2>2, <2>3, <2>4
  <1>6. CASE Permitted(c)
    <2> DEFINE s == [IdleCaller EXCEPT !.phase = "permitted", !.expires = Expiry(c),
                                       !.grant = caller[c].grant]
    <2>1. caller[c].phase = "granted" /\ CallerBecomes(c, s)
      BY <1>6 DEF Permitted
    <2>2. Expiry(c) \in Nat
      BY <1>0 DEF Expiry
    <2>3. s \in CallerState
      BY <1>0, <2>2 DEF IdleCaller, CallerState, CallerPhases, Groups
    <2>4. caller[c].grant \in DOMAIN grants
          /\ Expiry(c) <= grants[caller[c].grant].at + Lifetime
      <3>1. /\ caller[c].grant \in DOMAIN grants
            /\ caller[c].started <= grants[caller[c].grant].at
        BY <1>0, <2>1 DEF Young
      <3>2. grants[caller[c].grant].at \in Nat
        BY <3>1, GrantFacts DEF LimiterInv
      <3> QED
        BY <1>0, <3>1, <3>2 DEF Expiry
    <2>5. Young(s)
      BY <2>4 DEF Young, IdleCaller
    <2> QED
      BY <2>1, <2>3, <2>5, MovedOn
  <1>7. CASE Dispatch(c)
    BY <1>7, Dispatched
  <1>8. ASSUME NEW delay \in Cooldowns, TooManyRequests(c, delay) PROVE LimiterInv'
    BY <1>8, Paused
  <1> QED
    BY <1>2, <1>3, <1>4, <1>5, <1>6, <1>7, <1>8 DEF CallerStep

\* The invariant holds: whatever the callers, the database and the clock do.
THEOREM LimiterInvariance == LimiterSpec => []LimiterInv
  <1>1. LimiterInv /\ [LimiterNext]_limiterVars => LimiterInv'
    <2> SUFFICES ASSUME LimiterInv, [LimiterNext]_limiterVars PROVE LimiterInv'
      OBVIOUS
    <2>1. CASE UNCHANGED limiterVars
      BY <2>1 DEF limiterVars, LimiterInv, LimiterTypeOK, BarrierAhead, GrantsApart, SentInTime, IsSent,
                  PermitsYoung, Young, PausesHold
    <2>2. CASE LimiterTick
      BY <2>2, LimiterTicked
    <2>3. ASSUME NEW c \in Caller, CallerStep(c) PROVE LimiterInv'
      BY <2>3, CallerStepHolds
    <2> QED
      BY <2>1, <2>2, <2>3 DEF LimiterNext
  <1> QED
    BY LimiterInits, <1>1, PTL DEF LimiterSpec

-----------------------------------------------------------------------------
(* The promises *)

\* What the invariant says of permits, for the moments of sending.
LEMMA SendFacts ==
  ASSUME LimiterInv, NEW i \in DOMAIN grants, IsSent(i)
  PROVE  /\ i \in Nat /\ grants[i].at \in Nat /\ grants[i].sentAt \in Nat
         /\ grants[i].at <= grants[i].sentAt
         /\ grants[i].sentAt < grants[i].at + Lifetime
  <1>1. /\ i \in Nat /\ grants[i].at \in Nat
        /\ grants[i].sentAt \in Nat \cup {NotSent}
    BY GrantFacts DEF LimiterInv
  <1>2. grants[i].sentAt # NotSent
    BY DEF IsSent
  <1>3. grants[i].at <= grants[i].sentAt /\ grants[i].sentAt < grants[i].at + Lifetime
    BY DEF LimiterInv, SentInTime
  <1> QED
    BY <1>1, <1>2, <1>3

\* Every variable keeps its type and the barrier stays near (TypeOK).
THEOREM LimiterTypeCorrect == LimiterSpec => []LimiterTypeOK
  <1>1. LimiterInv => LimiterTypeOK
    BY DEF LimiterInv
  <1> QED
    BY LimiterInvariance, <1>1, PTL

\* The rate of all requests together is bounded, whatever the database's delays
\* and the number of processes (RequestsAreSpaced).
THEOREM AlwaysSpaced == LimiterSpec => []RequestsAreSpaced
  <1>1. LimiterInv => RequestsAreSpaced
    <2> SUFFICES ASSUME LimiterInv, NEW i \in DOMAIN grants, NEW j \in DOMAIN grants,
                        i < j, IsSent(i), IsSent(j)
                 PROVE  grants[j].sentAt - grants[i].sentAt
                            > (j - i) * DirectoryGap - Lifetime
      BY DEF RequestsAreSpaced
    <2> DEFINE a == grants[i].at
               b == grants[j].at
               s == grants[i].sentAt
               t == grants[j].sentAt
               m == (j - i) * DirectoryGap
    <2>1. /\ a \in Nat /\ b \in Nat /\ s \in Nat /\ t \in Nat
          /\ s < a + Lifetime /\ b <= t
      BY SendFacts
    <2>2. b - a >= m
      BY DEF LimiterInv, GrantsApart
    <2>3. m \in Int
      BY SendFacts
    <2>4. t - s > m - Lifetime
      <3> HIDE DEF a, b, s, t, m
      <3> QED
        BY <2>1, <2>2, <2>3
    <2> QED
      BY <2>4
  <1> QED
    BY LimiterInvariance, <1>1, PTL

\* Three conservative requests never fall within two gaps less a lifetime of each
\* other (TwoConservativeOnly).
THEOREM NeverThreeConservative == LimiterSpec => []TwoConservativeOnly
  <1>1. LimiterInv => TwoConservativeOnly
    <2> SUFFICES ASSUME LimiterInv, NEW i \in DOMAIN grants, NEW j \in DOMAIN grants,
                        NEW k \in DOMAIN grants, i < j, j < k,
                        \A n \in {i, j, k} : IsSent(n) /\ grants[n].group = "conservative"
                 PROVE  grants[k].sentAt - grants[i].sentAt > 2 * Gap - Lifetime
      BY DEF TwoConservativeOnly
    <2> DEFINE a == grants[i].at
               b == grants[j].at
               d == grants[k].at
               s == grants[i].sentAt
               t == grants[k].sentAt
    <2>1. /\ a \in Nat /\ b \in Nat /\ d \in Nat /\ s \in Nat /\ t \in Nat
          /\ s < a + Lifetime /\ d <= t
      BY SendFacts
    <2>2. b - a >= Gap /\ d - b >= Gap
      BY DEF LimiterInv, GrantsApart
    <2>3. t - s > 2 * Gap - Lifetime
      <3> HIDE DEF a, b, d, s, t
      <3> QED
        BY <2>1, <2>2
    <2> QED
      BY <2>3
  <1> QED
    BY LimiterInvariance, <1>1, PTL

\* A pause recorded by any process stops all of them (PausesAreKept).
THEOREM PausesAlwaysKept == LimiterSpec => []PausesAreKept
  <1>1. LimiterInv => PausesAreKept
    <2> SUFFICES ASSUME LimiterInv, NEW i \in DOMAIN grants, NEW p \in pauses, IsSent(i)
                 PROVE  grants[i].sentAt < p.from + Lifetime \/ grants[i].sentAt >= p.to
      BY DEF PausesAreKept
    <2> DEFINE a == grants[i].at
               s == grants[i].sentAt
    <2>1. a \in Nat /\ s \in Nat /\ a <= s /\ s < a + Lifetime
      BY SendFacts
    <2>2. p.from \in Nat /\ p.to \in Nat /\ (a <= p.from \/ a >= p.to)
      BY DEF LimiterInv, LimiterTypeOK, Pause, PausesHold
    <2>3. s < p.from + Lifetime \/ s >= p.to
      <3> HIDE DEF a, s
      <3> QED
        BY <2>1, <2>2
    <2> QED
      BY <2>3
  <1> QED
    BY LimiterInvariance, <1>1, PTL

\* Both together (QuotaIsKept).
THEOREM QuotaAlwaysKept == LimiterSpec => []QuotaIsKept
  BY AlwaysSpaced, PausesAlwaysKept, PTL DEF QuotaIsKept

-----------------------------------------------------------------------------
(***************************************************************************)
(* Drafts.  A draft in memory was neither carried out nor cancelled, and   *)
(* is on its way nowhere; one that waits for its confirmation was shown as *)
(* it is.  A handler that carries one out took it from there.              *)
(***************************************************************************)

HIDE ThrottleAssumption
HIDE LimiterAssumption
USE DraftsAssumption

\* No number is used before its draft is begun.
NumbersAreOwn ==
    /\ wizard <= begun /\ mailing <= begun
    /\ \A h \in Handler : handlers[h].draft <= begun
    /\ \A d \in Draft : d > begun => shown[d] = <<>> /\ made[d] = <<>> /\ d \notin cancelled

Unused(d) == made[d] = <<>> /\ d \notin cancelled
Carries(h) == handlers[h].step \in {"create", "send"}

\* The last message about draft d asked for this; about a broadcast there is one.
Announced(d, content) ==
    /\ shown[d] # <<>> /\ shown[d][Len(shown[d])] = content
    /\ drafts[d].kind = "broadcast" => Len(shown[d]) = 1

InMemory(d) ==
    /\ Unused(d)
    /\ \A h \in Handler : Carries(h) => handlers[h].draft # d
    /\ drafts[d].stage = "confirm" => Announced(d, drafts[d].content)
MemoryIsUnused == \A d \in Draft : d \in {wizard, mailing} => InMemory(d)

\* Handlers have drafts of the kind that their work is about, and nobody else
\* carries out what one carries out.
Errands(h) ==
    LET d == handlers[h].draft
    IN  /\ handlers[h].step \in {"table", "confirm", "create", "send"} => d \in Draft
        /\ handlers[h].step \in {"table", "create"} => drafts[d].kind = "booking"
        /\ handlers[h].step \in {"confirm", "send"} => drafts[d].kind = "broadcast"
        /\ Carries(h) =>
              /\ Unused(d) /\ Announced(d, handlers[h].content)
              /\ \A g \in Handler : Carries(g) /\ handlers[g].draft = d => g = h
ErrandsAreOwn == \A h \in Handler : Errands(h)

DraftsInv == DraftsTypeOK /\ NumbersAreOwn /\ MemoryIsUnused /\ ErrandsAreOwn

\* A message more.
LEMMA Shows ==
  ASSUME DraftsTypeOK, NEW d \in Draft, NEW c \in Content, Show(d, c)
  PROVE  /\ shown' \in [Draft -> Seq(Content)]
         /\ \A e \in Draft : e # d => shown'[e] = shown[e]
         /\ shown'[d] = Append(shown[d], c)
         /\ shown'[d] # <<>> /\ Len(shown'[d]) = Len(shown[d]) + 1
         /\ shown'[d][Len(shown'[d])] = c
<1>1. shown[d] \in Seq(Content) /\ shown'[d] = Append(shown[d], c)
  BY DEF DraftsTypeOK, Show
<1>2. /\ Append(shown[d], c) \in Seq(Content)
      /\ Len(Append(shown[d], c)) = Len(shown[d]) + 1
      /\ Append(shown[d], c)[Len(shown[d]) + 1] = c
      /\ Append(shown[d], c) # <<>>
  BY <1>1
<1> QED BY <1>1, <1>2 DEF DraftsTypeOK, Show

\* A draft more.
LEMMA News ==
  ASSUME DraftsTypeOK, NEW object \in Object, New(object)
  PROVE  /\ begun' = begun + 1 /\ begun + 1 \in Draft /\ begun' \in 0..MaxDrafts
         /\ drafts' \in [Draft -> Object] /\ drafts'[begun + 1] = object
         /\ \A e \in Draft : e # begun + 1 => drafts'[e] = drafts[e]
  BY DEF DraftsTypeOK, New, Draft

\* A handler begins to wait.
LEMMA Waits ==
  ASSUME DraftsTypeOK, NEW h \in Handler, NEW step \in Errand, NEW d \in 0..MaxDrafts,
         NEW c \in Content, Wait(h, step, d, c)
  PROVE  /\ handlers' \in [Handler -> [step : Errand, draft : 0..MaxDrafts, content : Content]]
         /\ handlers[h] = NotWaiting
         /\ handlers'[h] = [step |-> step, draft |-> d, content |-> c]
         /\ \A g \in Handler : g # h => handlers'[g] = handlers[g]
  BY DEF DraftsTypeOK, Wait

LEMMA NothingAsContent == NoContent \in Content /\ \A o \in Option : [NoContent EXCEPT !.of = o] \in Content
  BY DEF NoContent, Content

\* A handler is done.
LEMMA IsDone ==
  ASSUME DraftsTypeOK, NEW h \in Handler, handlers' = [handlers EXCEPT ![h] = NotWaiting]
  PROVE  /\ handlers' \in [Handler -> [step : Errand, draft : 0..MaxDrafts, content : Content]]
         /\ handlers'[h] = NotWaiting
         /\ \A g \in Handler : g # h => handlers'[g] = handlers[g]
  BY NothingAsContent DEF DraftsTypeOK, NotWaiting, Errand

\* What has no draft in memory, and no handler with a new errand, keeps the invariant.
LEMMA Leaves ==
  ASSUME DraftsInv, UNCHANGED <<begun, drafts, shown, made, cancelled>>,
         today' \in 0..MaxDay,
         wizard' \in {0, wizard}, mailing' \in {0, mailing},
         handlers' \in [Handler -> [step : Errand, draft : 0..MaxDrafts, content : Content]],
         \A h \in Handler : handlers'[h] \in {NotWaiting, handlers[h]}
  PROVE  DraftsInv'
<1>1. DraftsTypeOK'
  BY DEF DraftsInv, DraftsTypeOK
<1>2. \A h \in Handler : /\ handlers'[h].draft \in {0, handlers[h].draft}
                         /\ handlers'[h].step # "idle" => handlers'[h] = handlers[h]
  BY DEF NotWaiting
<1>3. NumbersAreOwn'
  <2>1. begun \in Nat /\ wizard \in Nat /\ mailing \in Nat
    BY DEF DraftsInv, DraftsTypeOK
  <2>2. wizard' <= begun' /\ mailing' <= begun'
    BY <2>1 DEF DraftsInv, NumbersAreOwn
  <2>3. \A h \in Handler : handlers'[h].draft <= begun'
    BY <1>2, <2>1 DEF DraftsInv, NumbersAreOwn
  <2> QED BY <2>2, <2>3 DEF DraftsInv, NumbersAreOwn
<1>4. MemoryIsUnused'
  BY <1>2 DEF DraftsInv, MemoryIsUnused, InMemory, Unused, Carries, Announced, Draft
<1>5. ErrandsAreOwn'
  BY <1>2 DEF DraftsInv, ErrandsAreOwn, Errands, Unused, Carries, Announced
<1> QED BY <1>1, <1>3, <1>4, <1>5 DEF DraftsInv

LEMMA DraftsBegin == DraftsInit => DraftsInv
<1> SUFFICES ASSUME DraftsInit PROVE DraftsInv
  OBVIOUS
<1>1. DraftsTypeOK
  BY NothingAsContent DEF DraftsInit, DraftsTypeOK, Empty, Object, Stage, NotWaiting, Errand
<1>2. NumbersAreOwn
  BY DEF DraftsInit, NumbersAreOwn, NotWaiting
<1>3. MemoryIsUnused
  BY DEF DraftsInit, MemoryIsUnused, Draft
<1>4. ErrandsAreOwn
  BY DEF DraftsInit, ErrandsAreOwn, Errands, Carries, NotWaiting
<1> QED BY <1>1, <1>2, <1>3, <1>4 DEF DraftsInv

LEMMA Numbers ==
  ASSUME DraftsInv
  PROVE  /\ begun \in Nat /\ wizard \in Nat /\ mailing \in Nat
         /\ wizard <= begun /\ mailing <= begun
         /\ \A h \in Handler : handlers[h].draft \in Nat /\ handlers[h].draft <= begun
         /\ \A d \in Draft : d \in Nat /\ d >= 1
         /\ \A d \in Draft : d > begun => shown[d] = <<>> /\ made[d] = <<>> /\ d \notin cancelled
<1>1. \A h \in Handler : handlers[h].draft \in 0..MaxDrafts
  BY DEF DraftsInv, DraftsTypeOK
<1> QED BY <1>1 DEF DraftsInv, DraftsTypeOK, NumbersAreOwn, Draft

LEMMA OneMessage == \A c : <<c>> # <<>> /\ Len(<<c>>) = 1 /\ <<c>>[1] = c
  OBVIOUS

\* A draft is begun, and shown if it is complete.
LEMMA Begun ==
  ASSUME DraftsInv, NEW object \in Object, New(object), UNCHANGED <<today, made, cancelled>>,
         \/ object.kind = "booking" /\ wizard' = begun + 1 /\ mailing' = 0
         \/ object.kind = "broadcast" /\ wizard' = wizard /\ mailing' = begun + 1,
         shown' \in [Draft -> Seq(Content)],
         \A e \in Draft : e # begun + 1 => shown'[e] = shown[e],
         \/ object.stage # "confirm" /\ shown' = shown
         \/ shown'[begun + 1] = <<object.content>>,
         handlers' \in [Handler -> [step : Errand, draft : 0..MaxDrafts, content : Content]],
         \A h \in Handler : handlers'[h] \in {NotWaiting, handlers[h]}
  PROVE  DraftsInv'
<1> USE DEF DraftsInv
<1>0. PICK n \in Draft : n = begun + 1
  BY DEF New, DraftsTypeOK, Draft
<1>1. /\ begun' = n /\ begun' \in 0..MaxDrafts /\ n > begun
      /\ drafts' \in [Draft -> Object] /\ drafts'[n] = object
      /\ \A e \in Draft : e # n => drafts'[e] = drafts[e]
  BY <1>0, News, Numbers
<1>2. \A h \in Handler : /\ handlers'[h].draft \in {0, handlers[h].draft}
                         /\ handlers'[h].step # "idle" => handlers'[h] = handlers[h]
                         /\ handlers[h].draft # n
  BY <1>1, Numbers DEF NotWaiting
<1>3. DraftsTypeOK'
  <2>1. wizard # n /\ mailing # n /\ n # 0
    BY <1>1, Numbers
  <2>2. wizard' \in 0..MaxDrafts /\ mailing' \in 0..MaxDrafts
    BY <1>0, SMTT(30) DEF DraftsTypeOK, Draft
  <2>3. /\ wizard' # 0 => wizard' \in Draft /\ drafts'[wizard'].kind = "booking"
        /\ mailing' # 0 => mailing' \in Draft /\ drafts'[mailing'].kind = "broadcast"
    <3>1. CASE wizard' = n /\ mailing' = 0
      BY <1>0, <1>1, <2>1, <3>1
    <3>2. CASE wizard' = wizard /\ mailing' = n
      <4>1. wizard # 0 => wizard \in Draft /\ drafts[wizard].kind = "booking"
        BY DEF DraftsTypeOK, Draft
      <4> QED BY <1>0, <1>1, <2>1, <3>2, <4>1
    <3> QED BY <1>0, <3>1, <3>2
  <2> QED BY <1>1, <2>2, <2>3 DEF DraftsTypeOK
<1>4. NumbersAreOwn'
  <2>1. n \in Nat /\ begun \in Nat /\ n > begun
    BY <1>1, Numbers
  <2>2. wizard' <= begun' /\ mailing' <= begun'
    <3>1. wizard' \in {wizard, n} /\ mailing' \in {0, n}
      BY <1>0
    <3> QED BY <1>1, <2>1, <3>1, Numbers
  <2>3. ASSUME NEW h \in Handler PROVE handlers'[h].draft <= begun'
    <3>1. handlers'[h].draft \in {0, handlers[h].draft}
      BY <1>2
    <3>2. handlers[h].draft \in Nat /\ handlers[h].draft <= begun
      BY Numbers
    <3> QED BY <1>1, <2>1, <3>1, <3>2
  <2>4. ASSUME NEW d \in Draft, d > begun'
        PROVE  shown'[d] = <<>> /\ made'[d] = <<>> /\ d \notin cancelled'
    <3>1. d \in Nat /\ d > begun /\ d # n
      BY <1>1, <2>1, <2>4, Numbers
    <3>2. shown[d] = <<>> /\ made[d] = <<>> /\ d \notin cancelled
      BY <3>1, Numbers
    <3>3. shown'[d] = shown[d]
      BY <1>0, <3>1
    <3> QED BY <3>2, <3>3
  <2> QED BY <2>2, <2>3, <2>4 DEF NumbersAreOwn
<1>5. MemoryIsUnused'
  <2>1. InMemory(n)'
    <3>1. \A h \in Handler : Carries(h)' => handlers'[h].draft # n
      BY <1>2 DEF Carries
    <3>2. object.stage = "confirm" => shown'[n] = <<object.content>>
      BY <1>0
    <3>3. object.stage = "confirm" => Announced(n, object.content)'
      BY <3>2, OneMessage DEF Announced
    <3>4. Unused(n)'
      BY <1>1, Numbers DEF Unused
    <3>5. (drafts[n].stage = "confirm" => Announced(n, drafts[n].content))'
      BY <1>1, <3>3 DEF Announced
    <3> QED BY <3>1, <3>4, <3>5 DEF InMemory, Announced
  <2>2. ASSUME NEW d \in Draft, d = wizard, d # n PROVE InMemory(d)'
    <3>1. InMemory(d) /\ drafts'[d] = drafts[d] /\ shown'[d] = shown[d]
      BY <1>0, <1>1, <2>2 DEF MemoryIsUnused
    <3>2. \A h \in Handler : Carries(h)' => handlers'[h].draft # d
      BY <1>2, <3>1 DEF InMemory, Carries
    <3> QED BY <3>1, <3>2 DEF InMemory, Unused, Announced
  <2> QED BY <1>0, <2>1, <2>2, Numbers DEF MemoryIsUnused
<1>6. ErrandsAreOwn'
  <2> SUFFICES ASSUME NEW h \in Handler, handlers'[h] = handlers[h], handlers[h].step # "idle"
               PROVE  Errands(h)'
    BY <1>2 DEF ErrandsAreOwn, Errands, Carries
  <2> DEFINE d == handlers[h].draft
  <2>1. Errands(h) /\ d # n
    BY <1>2 DEF ErrandsAreOwn
  <2>2. d \in Draft => drafts'[d] = drafts[d] /\ shown'[d] = shown[d]
    BY <1>0, <1>1, <2>1
  <2>3. /\ handlers[h].step \in {"table", "confirm", "create", "send"} => d \in Draft
        /\ handlers[h].step \in {"table", "create"} => drafts'[d].kind = "booking"
        /\ handlers[h].step \in {"confirm", "send"} => drafts'[d].kind = "broadcast"
    BY <2>1, <2>2 DEF Errands
  <2>4. ASSUME Carries(h)
        PROVE  /\ Unused(d)' /\ Announced(d, handlers[h].content)'
               /\ \A g \in Handler : Carries(g)' /\ handlers'[g].draft = d => g = h
    <3>1. d \in Draft /\ Unused(d) /\ Announced(d, handlers[h].content)
      BY <2>1, <2>4 DEF Errands, Carries
    <3>2. \A g \in Handler : Carries(g) /\ handlers[g].draft = d => g = h
      BY <2>1, <2>4 DEF Errands
    <3>3. Unused(d)' /\ Announced(d, handlers[h].content)'
      BY <2>2, <3>1 DEF Unused, Announced
    <3>4. \A g \in Handler : Carries(g)' => Carries(g) /\ handlers'[g].draft = handlers[g].draft
      BY <1>2 DEF Carries
    <3> QED BY <3>2, <3>3, <3>4
  <2> QED BY <2>3, <2>4 DEF Errands, Carries
<1> QED BY <1>3, <1>4, <1>5, <1>6

\* A draft whose stage and content change, in memory or wherever a handler holds it,
\* short of the confirmation.
LEMMA Edited ==
  ASSUME DraftsInv, NEW d \in Draft, d <= begun,
         drafts' \in [Draft -> Object], drafts'[d].kind = drafts[d].kind,
         drafts'[d].stage # "confirm",
         \A e \in Draft : e # d => drafts'[e] = drafts[e],
         mailing' \in {0, mailing},
         UNCHANGED <<today, begun, wizard, shown, made, cancelled>>,
         handlers' \in [Handler -> [step : Errand, draft : 0..MaxDrafts, content : Content]],
         \A h \in Handler : handlers'[h] \in {NotWaiting, handlers[h]}
  PROVE  DraftsInv'
<1> USE DEF DraftsInv
<1>1. \A e \in Draft : drafts'[e].kind = drafts[e].kind
  OBVIOUS
<1>2. \A h \in Handler : /\ handlers'[h].draft \in {0, handlers[h].draft}
                         /\ handlers'[h].step # "idle" => handlers'[h] = handlers[h]
  BY DEF NotWaiting
<1>3. DraftsTypeOK'
  BY <1>1, SMTT(30) DEF DraftsTypeOK, Draft
<1>4. NumbersAreOwn'
  <2>1. begun \in Nat /\ wizard \in Nat /\ mailing \in Nat
    BY DEF DraftsTypeOK
  <2>2. wizard' <= begun' /\ mailing' <= begun'
    BY <2>1 DEF NumbersAreOwn
  <2>3. \A h \in Handler : handlers'[h].draft <= begun'
    BY <1>2, <2>1 DEF NumbersAreOwn
  <2> QED BY <2>2, <2>3 DEF NumbersAreOwn
<1>5. MemoryIsUnused'
  BY <1>1, <1>2 DEF MemoryIsUnused, InMemory, Unused, Carries, Announced, Draft
<1>6. ErrandsAreOwn'
  BY <1>1, <1>2 DEF ErrandsAreOwn, Errands, Unused, Carries, Announced
<1> QED BY <1>3, <1>4, <1>5, <1>6

\* A handler begins to wait, not to carry out a draft.
LEMMA Asked ==
  ASSUME DraftsInv, UNCHANGED <<today, begun, mailing, drafts, shown, made, cancelled>>,
         wizard' \in {0, wizard},
         NEW h \in Handler, NEW step \in {"table", "begin", "text", "confirm"},
         NEW d \in 0..begun, NEW c \in Content, Wait(h, step, d, c),
         step = "table" => d \in Draft /\ drafts[d].kind = "booking",
         step = "confirm" => d \in Draft /\ drafts[d].kind = "broadcast"
  PROVE  DraftsInv'
<1> USE DEF DraftsInv
<1>1. /\ handlers' \in [Handler -> [step : Errand, draft : 0..MaxDrafts, content : Content]]
      /\ handlers'[h] = [step |-> step, draft |-> d, content |-> c]
      /\ \A g \in Handler : g # h => handlers'[g] = handlers[g]
  <2>1. d \in 0..MaxDrafts /\ step \in Errand
    BY DEF DraftsTypeOK, Errand
  <2> QED BY <2>1, Waits
<1>2. DraftsTypeOK'
  BY <1>1 DEF DraftsTypeOK
<1>3. NumbersAreOwn'
  BY <1>1, Numbers DEF NumbersAreOwn
<1>4. MemoryIsUnused'
  BY <1>1 DEF MemoryIsUnused, InMemory, Unused, Carries, Announced, Draft
<1>5. ErrandsAreOwn'
  BY <1>1 DEF ErrandsAreOwn, Errands, Unused, Carries, Announced
<1> QED BY <1>2, <1>3, <1>4, <1>5

\* A confirmed draft leaves the memory, into the hands of a handler.
LEMMA TakenOut ==
  ASSUME DraftsInv, UNCHANGED <<today, begun, drafts, shown, made, cancelled>>,
         wizard' \in {0, wizard}, mailing' \in {0, mailing},
         NEW d \in Draft, d \in {wizard, mailing}, d \notin {wizard', mailing'},
         drafts[d].stage = "confirm",
         NEW h \in Handler,
         NEW step \in {"create", "send"},
         drafts[d].kind = IF step = "create" THEN "booking" ELSE "broadcast",
         handlers' \in [Handler -> [step : Errand, draft : 0..MaxDrafts, content : Content]],
         handlers'[h] = [step |-> step, draft |-> d, content |-> drafts[d].content],
         \A g \in Handler : g # h => handlers'[g] = handlers[g]
  PROVE  DraftsInv'
<1> USE DEF DraftsInv
<1>1. InMemory(d) /\ d <= begun
  BY Numbers DEF MemoryIsUnused
<1>2. DraftsTypeOK'
  BY DEF DraftsTypeOK
<1>3. NumbersAreOwn'
  BY <1>1, Numbers DEF NumbersAreOwn
<1>4. MemoryIsUnused'
  BY Numbers DEF MemoryIsUnused, InMemory, Unused, Carries, Announced
<1>5. ErrandsAreOwn'
  <2>1. Errands(h)'
    BY <1>1 DEF Errands, InMemory, Unused, Carries, Announced
  <2>2. ASSUME NEW g \in Handler, g # h PROVE Errands(g)'
    BY <1>1, <2>2 DEF ErrandsAreOwn, Errands, InMemory, Unused, Carries, Announced
  <2> QED BY <2>1, <2>2 DEF ErrandsAreOwn
<1> QED BY <1>2, <1>3, <1>4, <1>5

\* A handler carries its draft out and is done.
LEMMA CarriedOut ==
  ASSUME DraftsInv, UNCHANGED <<today, begun, wizard, mailing, drafts, shown, cancelled>>,
         NEW h \in Handler, Carries(h),
         made' = [made EXCEPT ![handlers[h].draft] = Append(@, handlers[h].content)],
         handlers' = [handlers EXCEPT ![h] = NotWaiting]
  PROVE  DraftsInv'
<1> USE DEF DraftsInv
<1>1. /\ handlers' \in [Handler -> [step : Errand, draft : 0..MaxDrafts, content : Content]]
      /\ handlers'[h] = NotWaiting
      /\ \A g \in Handler : g # h => handlers'[g] = handlers[g]
  BY IsDone
<1>2. PICK d \in Draft : d = handlers[h].draft /\ d <= begun
  BY Numbers DEF ErrandsAreOwn, Errands, Carries
<1>3. /\ made' \in [Draft -> Seq(Content)]
      /\ \A e \in Draft : e # d => made'[e] = made[e]
  <2>1. made[d] \in Seq(Content) /\ handlers[h].content \in Content
    BY DEF DraftsTypeOK
  <2>2. Append(made[d], handlers[h].content) \in Seq(Content)
    BY <2>1
  <2> QED BY <1>2, <2>2 DEF DraftsTypeOK
<1>4. DraftsTypeOK'
  BY <1>1, <1>3 DEF DraftsTypeOK
<1>5. NumbersAreOwn'
  BY <1>1, <1>2, <1>3, Numbers DEF NumbersAreOwn, NotWaiting
<1>6. MemoryIsUnused'
  <2>1. d \notin {wizard, mailing}
    BY <1>2 DEF MemoryIsUnused, InMemory
  <2> QED BY <1>1, <1>3, <2>1 DEF MemoryIsUnused, InMemory, Unused, Carries, Announced, NotWaiting
<1>7. ErrandsAreOwn'
  <2>1. Errands(h)'
    BY <1>1 DEF Errands, Carries, NotWaiting
  <2>2. ASSUME NEW g \in Handler, g # h PROVE Errands(g)'
    <3>1. Carries(g) => handlers[g].draft # d
      BY <1>2, <2>2 DEF ErrandsAreOwn, Errands
    <3> QED BY <1>1, <1>3, <2>2, <3>1 DEF ErrandsAreOwn, Errands, Unused, Carries, Announced, NotWaiting
  <2> QED BY <2>1, <2>2 DEF ErrandsAreOwn
<1> QED BY <1>4, <1>5, <1>6, <1>7

\* A draft in memory is cancelled.
LEMMA Cancels ==
  ASSUME DraftsInv, UNCHANGED <<today, begun, drafts, handlers, shown, made>>,
         wizard' \in {0, wizard}, mailing' \in {0, mailing},
         NEW d \in Draft, d \in {wizard, mailing}, d \notin {wizard', mailing'},
         cancelled' = cancelled \cup {d}
  PROVE  DraftsInv'
<1> USE DEF DraftsInv
<1>1. DraftsTypeOK'
  BY DEF DraftsTypeOK
<1>2. NumbersAreOwn'
  BY Numbers DEF NumbersAreOwn
<1>3. MemoryIsUnused'
  BY Numbers DEF MemoryIsUnused, InMemory, Unused, Carries, Announced
<1>4. ErrandsAreOwn'
  <2>1. \A h \in Handler : Carries(h) => handlers[h].draft # d
    BY DEF MemoryIsUnused, InMemory
  <2> QED BY <2>1 DEF ErrandsAreOwn, Errands, Unused, Carries, Announced
<1> QED BY <1>1, <1>2, <1>3, <1>4

\* Handlers that do not move, or are done.
LEMMA Resting ==
  ASSUME DraftsTypeOK
  PROVE  /\ NotWaiting \in [step : Errand, draft : 0..MaxDrafts, content : Content]
         /\ UNCHANGED handlers =>
              /\ handlers' \in [Handler -> [step : Errand, draft : 0..MaxDrafts, content : Content]]
              /\ \A g \in Handler : handlers'[g] \in {NotWaiting, handlers[g]}
         /\ \A h \in Handler : handlers' = [handlers EXCEPT ![h] = NotWaiting] =>
              /\ handlers' \in [Handler -> [step : Errand, draft : 0..MaxDrafts, content : Content]]
              /\ \A g \in Handler : handlers'[g] \in {NotWaiting, handlers[g]}
<1>1. NotWaiting \in [step : Errand, draft : 0..MaxDrafts, content : Content]
  BY NothingAsContent, DraftsAssumption DEF NotWaiting, Errand
<1>2. ASSUME UNCHANGED handlers
      PROVE  /\ handlers' \in [Handler -> [step : Errand, draft : 0..MaxDrafts, content : Content]]
             /\ \A g \in Handler : handlers'[g] \in {NotWaiting, handlers[g]}
  BY <1>2 DEF DraftsTypeOK
<1>3. ASSUME NEW h \in Handler, handlers' = [handlers EXCEPT ![h] = NotWaiting]
      PROVE  /\ handlers' \in [Handler -> [step : Errand, draft : 0..MaxDrafts, content : Content]]
             /\ \A g \in Handler : handlers'[g] \in {NotWaiting, handlers[g]}
  <2>1. handlers \in [Handler -> [step : Errand, draft : 0..MaxDrafts, content : Content]]
    BY DEF DraftsTypeOK
  <2> QED BY <1>1, <1>3, <2>1
<1> QED BY <1>1, <1>2, <1>3

\* The draft of the wizard, where it is at some stage.
LEMMA AtWork ==
  ASSUME DraftsInv, NEW stage, AtStage(stage)
  PROVE  /\ wizard \in Draft /\ wizard <= begun /\ wizard # mailing
         /\ drafts[wizard] \in Object
         /\ drafts[wizard].kind = "booking" /\ drafts[wizard].stage = stage
         /\ drafts[wizard].content \in Content
<1>1. wizard # 0 /\ wizard \in 0..MaxDrafts
  BY DEF AtStage, DraftsInv, DraftsTypeOK
<1>2. wizard \in Draft
  BY <1>1 DEF Draft
<1>3. drafts[wizard] \in Object /\ drafts[wizard].kind = "booking"
      /\ (mailing # 0 => drafts[mailing].kind = "broadcast")
  BY <1>1, <1>2 DEF DraftsInv, DraftsTypeOK
<1> QED BY <1>1, <1>2, <1>3, Numbers DEF AtStage, Object

LEMMA DateStep ==
  ASSUME DraftsInv, NEW date \in today..MaxDay, AcceptDate(date)
  PROVE  DraftsInv'
<1>0. DraftsTypeOK
  BY DEF DraftsInv
<1>1. PICK d \in Draft : d = wizard /\ d <= begun /\ drafts[d] \in Object /\ date \in 0..MaxDay
  BY <1>0, AtWork DEF AcceptDate, DraftsTypeOK
<1>2. /\ drafts' \in [Draft -> Object]
      /\ drafts'[d].kind = drafts[d].kind /\ drafts'[d].stage = "table"
      /\ \A e \in Draft : e # d => drafts'[e] = drafts[e]
  BY <1>0, <1>1 DEF AcceptDate, DraftsTypeOK, Object, Stage, Content
<1> QED BY <1>0, <1>1, <1>2, Edited, Resting DEF AcceptDate

LEMMA WizardSteps ==
  ASSUME DraftsInv,
         BeginBooking \/ PressStale \/ AcceptDetails \/ AcceptPhone \/ CancelBooking
           \/ \E date \in today..MaxDay : AcceptDate(date)
  PROVE  DraftsInv'
<1>0. DraftsTypeOK
  BY DEF DraftsInv
<1>1. CASE BeginBooking
  <2>1. Empty \in Object /\ Empty.kind = "booking" /\ Empty.stage # "confirm"
    BY NothingAsContent DEF Empty, Object, Stage
  <2>2. shown' = shown /\ shown' \in [Draft -> Seq(Content)]
    BY <1>0, <1>1 DEF BeginBooking, DraftsTypeOK
  <2> QED BY <1>0, <1>1, <2>1, <2>2, Begun, Resting DEF BeginBooking
<1>2. CASE PressStale
  BY <1>0, <1>2, Leaves, Resting DEF PressStale, DraftsTypeOK
<1>3. CASE AcceptDetails
  <2>1. drafts' \in [Draft -> Object]
        /\ drafts'[wizard] = [drafts[wizard] EXCEPT !.stage = "phone"]
        /\ \A e \in Draft : e # wizard => drafts'[e] = drafts[e]
    BY <1>0, <1>3, AtWork DEF AcceptDetails, DraftsTypeOK, Object, Stage
  <2>2. drafts'[wizard].kind = drafts[wizard].kind /\ drafts'[wizard].stage # "confirm"
    BY <1>3, <2>1, AtWork DEF AcceptDetails, Object
  <2> QED BY <1>0, <1>3, <2>1, <2>2, AtWork, Edited, Resting DEF AcceptDetails
<1>4. ASSUME NEW date \in today..MaxDay, AcceptDate(date) PROVE DraftsInv'
  BY <1>4, DateStep
<1>5. CASE AcceptPhone
  <2> DEFINE d == wizard
             c == drafts[wizard].content
  <2>1. d \in Draft /\ drafts[d] \in Object /\ c \in Content /\ d <= begun /\ d # mailing
        /\ drafts[d].kind = "booking"
    BY <1>5, AtWork DEF AcceptPhone
  <2>2. /\ shown' \in [Draft -> Seq(Content)]
        /\ \A e \in Draft : e # d => shown'[e] = shown[e]
        /\ shown'[d] # <<>> /\ shown'[d][Len(shown'[d])] = c
    BY <1>0, <1>5, <2>1, Shows DEF AcceptPhone
  <2>3. /\ drafts' \in [Draft -> Object]
        /\ \A e \in Draft : e # d => drafts'[e] = drafts[e]
        /\ drafts'[d].kind = "booking" /\ drafts'[d].content = c
    BY <1>0, <1>5, <2>1 DEF AcceptPhone, DraftsTypeOK, Object, Stage
  <2>4. mailing' \in {0, mailing} /\ UNCHANGED <<today, begun, wizard, handlers, made, cancelled>>
    BY <1>5 DEF AcceptPhone
  <2>5. InMemory(d)
    BY <2>1 DEF DraftsInv, MemoryIsUnused
  <2> HIDE DEF d, c
  <2>6. d = wizard
    BY DEF d
  <2>7. DraftsTypeOK'
    <3>1. mailing # 0 => mailing \in Draft /\ drafts'[mailing].kind = "broadcast"
      BY <1>0, <2>1, <2>3 DEF DraftsTypeOK, Draft
    <3> QED BY <1>0, <2>1, <2>2, <2>3, <2>4, <2>6, <3>1, SMTT(30) DEF DraftsTypeOK
  <2>8. NumbersAreOwn'
    BY <2>1, <2>2, <2>4, Numbers DEF NumbersAreOwn
  <2>9. MemoryIsUnused'
    <3>1. InMemory(wizard)'
      BY <2>2, <2>3, <2>4, <2>5, <2>6 DEF InMemory, Unused, Carries, Announced
    <3>2. ASSUME NEW e \in Draft, e # d, e = mailing PROVE InMemory(e)'
      <4>1. InMemory(e)
        BY <3>2 DEF DraftsInv, MemoryIsUnused
      <4> QED BY <2>2, <2>3, <2>4, <3>2, <4>1 DEF InMemory, Unused, Carries, Announced
    <3> QED BY <2>4, <2>6, <3>1, <3>2, Numbers DEF MemoryIsUnused
  <2>10. ErrandsAreOwn'
    <3> SUFFICES ASSUME NEW h \in Handler PROVE Errands(h)'
      BY DEF ErrandsAreOwn
    <3>1. Carries(h) => handlers[h].draft # d
      BY <2>5 DEF InMemory
    <3>2. Errands(h)
      BY DEF DraftsInv, ErrandsAreOwn
    <3> QED BY <2>1, <2>2, <2>3, <2>4, <3>1, <3>2 DEF Errands, Unused, Carries, Announced
  <2> QED BY <2>7, <2>8, <2>9, <2>10 DEF DraftsInv
<1>6. CASE CancelBooking
  <2>1. wizard \in Draft /\ wizard # mailing
    <3>1. AtStage(drafts[wizard].stage)
      BY <1>6 DEF CancelBooking, AtStage
    <3> QED BY <3>1, AtWork
  <2> QED BY <1>6, <2>1, Cancels, Numbers DEF CancelBooking
<1> QED BY <1>1, <1>2, <1>3, <1>4, <1>5, <1>6

LEMMA HandlerSteps ==
  ASSUME DraftsInv, NEW h \in Handler,
         \/ TableFound(h) \/ ConfirmBooking(h) \/ Create(h) \/ AskBroadcast(h)
         \/ BeginBroadcast(h) \/ KeepText(h) \/ TakeBroadcast(h) \/ Send(h) \/ HandlerFails(h)
         \/ \E o \in Option : AskTable(h, o) \/ WriteText(h, o)
         \/ \E d \in Draft : ConfirmBroadcast(h, d)
  PROVE  DraftsInv'
<1>0. DraftsTypeOK /\ ErrandsAreOwn /\ Errands(h)
      /\ handlers[h] \in [step : Errand, draft : 0..MaxDrafts, content : Content]
  BY DEF DraftsInv, ErrandsAreOwn, DraftsTypeOK
<1>1. CASE TableFound(h)
  <2>1. PICK d \in Draft : d = handlers[h].draft /\ d <= begun /\ drafts[d].kind = "booking"
    BY <1>0, <1>1, Numbers DEF TableFound, Resume, Errands
  <2>2. handlers[h].content \in Content /\ drafts[d] \in Object
    BY <1>0 DEF DraftsTypeOK
  <2>3. /\ drafts' \in [Draft -> Object]
        /\ drafts'[d].kind = drafts[d].kind /\ drafts'[d].stage = "details"
        /\ \A e \in Draft : e # d => drafts'[e] = drafts[e]
    BY <1>0, <1>1, <2>1, <2>2 DEF TableFound, DraftsTypeOK, Object, Stage, Content
  <2> QED BY <1>0, <1>1, <2>1, <2>3, Edited, Resting, ZenonT(40) DEF TableFound, Resume
<1>2. CASE ConfirmBooking(h)
  <2>1. /\ wizard \in Draft /\ wizard # mailing /\ drafts[wizard].kind = "booking"
        /\ drafts[wizard].stage = "confirm" /\ drafts[wizard].content \in Content
    BY <1>2, AtWork DEF ConfirmBooking
  <2>2. /\ handlers' \in [Handler -> [step : Errand, draft : 0..MaxDrafts, content : Content]]
        /\ handlers'[h] = [step |-> "create", draft |-> wizard, content |-> drafts[wizard].content]
        /\ \A g \in Handler : g # h => handlers'[g] = handlers[g]
    <3>1. wizard \in 0..MaxDrafts /\ "create" \in Errand
      BY <1>0 DEF DraftsTypeOK, Errand
    <3> QED BY <1>0, <1>2, <2>1, <3>1, Waits DEF ConfirmBooking
  <2> QED BY <1>2, <2>1, <2>2, TakenOut, Numbers DEF ConfirmBooking
<1>3. CASE Create(h) \/ Send(h)
  BY <1>3, CarriedOut, ZenonT(40) DEF Create, Send, Resume, Carries
<1>4. CASE AskBroadcast(h)
  BY <1>4, Asked, Numbers, NothingAsContent DEF AskBroadcast
<1>5. CASE BeginBroadcast(h)
  <2> DEFINE object == [kind |-> "broadcast", stage |-> "awaiting_text", content |-> NoContent]
  <2>1. object \in Object /\ object.kind = "broadcast" /\ object.stage # "confirm"
    BY NothingAsContent DEF Object
  <2>2. shown' = shown /\ shown' \in [Draft -> Seq(Content)]
    BY <1>0, <1>5 DEF BeginBroadcast, DraftsTypeOK
  <2>3. New(object) /\ UNCHANGED <<today, made, cancelled>>
        /\ wizard' = wizard /\ mailing' = begun + 1
        /\ handlers' = [handlers EXCEPT ![h] = NotWaiting]
    BY <1>5 DEF BeginBroadcast, Resume
  <2> HIDE DEF object
  <2> QED BY <1>0, <2>1, <2>2, <2>3, Begun, Resting
<1>6. CASE KeepText(h)
  <2> DEFINE c == handlers[h].content
             object == [kind |-> "broadcast", stage |-> "confirm", content |-> c]
  <2>1. object \in Object /\ object.kind = "broadcast" /\ object.content = c /\ c \in Content
    BY <1>0 DEF Object, Stage
  <2>2. New(object) /\ UNCHANGED <<today, made, cancelled>>
        /\ wizard' = wizard /\ mailing' = begun + 1
        /\ handlers' = [handlers EXCEPT ![h] = NotWaiting] /\ Show(begun + 1, c)
    BY <1>6 DEF KeepText, Resume
  <2> HIDE DEF object, c
  <2>3. begun + 1 \in Draft /\ begun + 1 > begun
    BY <1>0, <2>1, <2>2, News, Numbers
  <2>4. /\ shown' \in [Draft -> Seq(Content)]
        /\ \A e \in Draft : e # begun + 1 => shown'[e] = shown[e]
        /\ shown'[begun + 1] = Append(<<>>, c)
    BY <1>0, <2>1, <2>2, <2>3, Shows, Numbers
  <2>5. shown'[begun + 1] = <<object.content>>
    BY <2>1, <2>4
  <2> QED BY <1>0, <2>1, <2>2, <2>4, <2>5, Begun, Resting
<1>7. CASE TakeBroadcast(h)
  <2>1. PICK d \in Draft : d = handlers[h].draft /\ drafts[d].kind = "broadcast"
    BY <1>0, <1>7 DEF TakeBroadcast, Errands
  <2>2. mailing = d /\ mailing' = 0 /\ wizard' = wizard /\ drafts[d].stage = "confirm"
        /\ UNCHANGED <<today, begun, drafts, shown, made, cancelled>>
        /\ handlers' = [handlers EXCEPT ![h] = [step |-> "send", draft |-> d,
                                                content |-> drafts[d].content]]
    BY <1>7, <2>1 DEF TakeBroadcast
  <2>3. d # wizard
    BY <1>0, <2>1, Numbers DEF DraftsTypeOK
  <2>4. drafts[d].content \in Content
    BY <1>0 DEF DraftsTypeOK, Object
  <2>5. /\ handlers' \in [Handler -> [step : Errand, draft : 0..MaxDrafts, content : Content]]
        /\ handlers'[h] = [step |-> "send", draft |-> d, content |-> drafts[d].content]
        /\ \A g \in Handler : g # h => handlers'[g] = handlers[g]
    BY <1>0, <2>1, <2>2, <2>4 DEF DraftsTypeOK, Errand
  <2>6. d \in {wizard, mailing} /\ d \notin {wizard', mailing'}
    BY <2>1, <2>2, <2>3, Numbers
  <2> QED BY <2>1, <2>2, <2>5, <2>6, TakenOut, ZenonT(40)
<1>8. CASE HandlerFails(h)
  <2>1. handlers' = [handlers EXCEPT ![h] = NotWaiting]
        /\ UNCHANGED <<today, begun, wizard, mailing, drafts, shown, made, cancelled>>
    BY <1>8 DEF HandlerFails
  <2> QED BY <1>0, <2>1, Leaves, Resting DEF DraftsTypeOK
<1>9. ASSUME NEW o \in Option, AskTable(h, o) PROVE DraftsInv'
  <2>1. wizard \in Draft /\ wizard \in 0..begun /\ drafts[wizard].kind = "booking"
    BY <1>9, AtWork, Numbers DEF AskTable
  <2> QED BY <1>9, <2>1, Asked, NothingAsContent DEF AskTable
<1>10. ASSUME NEW o \in Option, WriteText(h, o) PROVE DraftsInv'
  <2>1. mailing \in 0..begun
    BY Numbers
  <2> QED BY <1>10, <2>1, Asked, NothingAsContent DEF WriteText
<1>11. ASSUME NEW d \in Draft, ConfirmBroadcast(h, d) PROVE DraftsInv'
  <2>1. d \in 0..begun
    BY <1>11, Numbers DEF ConfirmBroadcast
  <2> QED BY <1>11, <2>1, Asked, NothingAsContent DEF ConfirmBroadcast
<1> QED
  BY <1>1, <1>2, <1>3, <1>4, <1>5, <1>6, <1>7, <1>8, <1>9, <1>10, <1>11

LEMMA DraftSteps == DraftsInv /\ [DraftsNext]_draftVars => DraftsInv'
<1> SUFFICES ASSUME DraftsInv, [DraftsNext]_draftVars PROVE DraftsInv'
  OBVIOUS
<1>0. DraftsTypeOK
  BY DEF DraftsInv
<1>1. CASE UNCHANGED draftVars
  BY <1>0, <1>1, Leaves, Resting DEF draftVars, DraftsTypeOK
<1>2. CASE BeginBooking \/ PressStale \/ AcceptDetails \/ AcceptPhone \/ CancelBooking
             \/ \E date \in today..MaxDay : AcceptDate(date)
  BY <1>2, WizardSteps
<1>3. CASE CancelBroadcast
  <2>1. mailing \in Draft /\ mailing # wizard
    BY <1>0, <1>3 DEF CancelBroadcast, DraftsTypeOK, Draft
  <2> QED BY <1>3, <2>1, Cancels, Numbers DEF CancelBroadcast
<1>4. CASE Forget \/ DayPasses
  <2>1. today' \in 0..MaxDay /\ wizard' \in {0, wizard} /\ mailing' \in {0, mailing}
        /\ UNCHANGED <<begun, drafts, handlers, shown, made, cancelled>>
    BY <1>0, <1>4 DEF Forget, DayPasses, DraftsTypeOK
  <2> QED BY <1>0, <2>1, Leaves, Resting
<1>5. CASE Restart
  <2>1. /\ handlers' \in [Handler -> [step : Errand, draft : 0..MaxDrafts, content : Content]]
        /\ \A h \in Handler : handlers'[h] \in {NotWaiting, handlers[h]}
    BY <1>0, <1>5, Resting DEF Restart
  <2> QED BY <1>0, <1>5, <2>1, Leaves DEF Restart, DraftsTypeOK
<1>6. ASSUME NEW h \in Handler,
             \/ TableFound(h) \/ ConfirmBooking(h) \/ Create(h) \/ AskBroadcast(h)
             \/ BeginBroadcast(h) \/ KeepText(h) \/ TakeBroadcast(h) \/ Send(h)
             \/ HandlerFails(h)
             \/ \E o \in Option : AskTable(h, o) \/ WriteText(h, o)
             \/ \E d \in Draft : ConfirmBroadcast(h, d)
      PROVE  DraftsInv'
  BY <1>6, HandlerSteps
<1> QED BY <1>1, <1>2, <1>3, <1>4, <1>5, <1>6 DEF DraftsNext

LEMMA DraftsInvHolds == DraftsSpec => []DraftsInv
  BY DraftsBegin, DraftSteps, PTL DEF DraftsSpec

\* Every variable of the chat has its type, and each of the two memories has
\* drafts of its kind.
THEOREM DraftTypesHold == DraftsSpec => []DraftsTypeOK
<1>1. DraftsInv => DraftsTypeOK
  BY DEF DraftsInv
<1> QED BY <1>1, DraftsInvHolds, PTL

\* However messages, presses and handlers that wait overlap, a draft of a booking
\* or of a broadcast is carried out at most once, never after the bot said it was
\* cancelled, and as the last message that asked for the confirmation said; and
\* nothing is called cancelled that was carried out.
THEOREM DraftsAlwaysActAsShown == DraftsSpec => DraftsActAsShown
<1> DEFINE AsShown(d) ==
      /\ made'[d] # made[d] =>
           /\ made[d] = <<>> /\ d \notin cancelled
           /\ made'[d] = <<shown[d][Len(shown[d])]>>
           /\ \/ drafts[d].kind = "broadcast" /\ Len(shown[d]) = 1
              \/ drafts[d].kind = "booking" /\ made'[d][1].date >= today
      /\ d \in cancelled' \ cancelled => made[d] = <<>>
<1>1. ASSUME DraftsInv, NEW h \in Handler, Create(h) \/ Send(h), NEW d \in Draft PROVE AsShown(d)
  <2>1. Errands(h) /\ made \in [Draft -> Seq(Content)]
    BY <1>1 DEF DraftsInv, ErrandsAreOwn, DraftsTypeOK
  <2>2. cancelled' = cancelled /\ Carries(h)
        /\ made' = [made EXCEPT ![handlers[h].draft] = Append(@, handlers[h].content)]
    BY <1>1 DEF Create, Send, Resume, Carries
  <2>3. CASE d # handlers[h].draft
    BY <2>1, <2>2, <2>3
  <2>4. CASE d = handlers[h].draft
    <3>1. made[d] = <<>> /\ d \notin cancelled /\ Announced(d, handlers[h].content)
      BY <2>1, <2>2, <2>4 DEF Errands, Unused
    <3>2. made'[d] = Append(<<>>, handlers[h].content)
      BY <2>1, <2>2, <2>4, <3>1
    <3>3. made'[d] = <<handlers[h].content>> /\ made'[d][1] = handlers[h].content
      BY <3>2
    <3>4. \/ drafts[d].kind = "broadcast"
          \/ drafts[d].kind = "booking" /\ handlers[h].content.date >= today
      BY <1>1, <2>1, <2>4 DEF Errands, Create, Send, Resume
    <3> QED BY <2>2, <3>1, <3>3, <3>4 DEF Announced
  <2> QED BY <2>3, <2>4
<1>2. ASSUME DraftsInv, CancelBooking \/ CancelBroadcast, NEW d \in Draft PROVE AsShown(d)
  <2>1. made' = made /\ cancelled' \ cancelled \subseteq {wizard, mailing}
    BY <1>2 DEF CancelBooking, CancelBroadcast
  <2>2. d \in {wizard, mailing} => made[d] = <<>>
    BY <1>2 DEF DraftsInv, MemoryIsUnused, InMemory, Unused
  <2> QED BY <2>1, <2>2
<1>3. ASSUME DraftsNext,
             \A h \in Handler : ~(Create(h) \/ Send(h)),
             ~(CancelBooking \/ CancelBroadcast)
      PROVE  made' = made /\ cancelled' = cancelled
  BY <1>3, ZenonT(40) DEF DraftsNext, BeginBooking, PressStale, AcceptDetails, AcceptPhone, Forget, Restart,
              DayPasses, AcceptDate, TableFound, ConfirmBooking, AskBroadcast, BeginBroadcast,
              KeepText, TakeBroadcast, HandlerFails, AskTable, WriteText, ConfirmBroadcast
<1>4. DraftsInv /\ [DraftsNext]_draftVars => [\A d \in Draft : AsShown(d)]_draftVars
  BY <1>1, <1>2, <1>3
<1> QED BY <1>4, DraftsInvHolds, PTL DEF DraftsSpec, DraftsActAsShown

-----------------------------------------------------------------------------
(* The three side by side *)

\* A behaviour of the quotas and the drafts side by side, as they are checked together,
\* is one of each: what is proved of guesses, of requests to Syrve and of drafts holds there.
THEOREM QuotasSideBySide == MCSpec => Spec /\ LimiterSpec /\ DraftsSpec
<1>1. MCInit => Init /\ LimiterInit /\ DraftsInit
  BY DEF MCInit
<1>2. [MCNext]_<<vars, limiterVars, draftVars, subject>>
        => [Next]_vars /\ [LimiterNext]_limiterVars /\ [DraftsNext]_draftVars
  BY DEF MCNext
<1> QED BY <1>1, <1>2, PTL DEF MCSpec, Spec, LimiterSpec, DraftsSpec

\* Guesses and drafts keep their shape.
THEOREM QuotasTyped == MCSpec => []MCTypeOK
<1>1. TypeOK /\ DraftsTypeOK => MCTypeOK
  BY DEF MCTypeOK
<1> QED BY <1>1, QuotasSideBySide, ThrottleTypeCorrect, DraftTypesHold, PTL
=============================================================================
