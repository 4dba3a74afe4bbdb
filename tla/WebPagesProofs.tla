---------------------------- MODULE WebPagesProofs ----------------------------
(***************************************************************************)
(* Theorems about the screens of the web pages, for any number of guests'  *)
(* tables, calls, bookings, subscriptions, notices, dates and changes, and *)
(* any number of requests under way.                                       *)
(***************************************************************************)
EXTENDS MCWebPages, FiniteSetTheorems, SequenceTheorems, TLAPS

-----------------------------------------------------------------------------
(* The plan of the tables *)

PlanTypes ==
    /\ revision \in 0..MaxRevisions /\ promised \in 0..revision
    /\ planner \in Planner
    /\ fetches \subseteq PlanLoad /\ presses \subseteq PlanPress

\* Only a screen that is open loads.
OpenToLoad ==
    /\ planner.pending => planner.active
    /\ planner.active => planner.scope /= NoHour
    /\ planner.scope = NoHour => planner.settled = NoHour

\* The request counter names one load.
OneFresh == \A l, m \in fetches : l.fresh /\ m.fresh => l = m

\* Nobody has read or made a change that was not made.
NothingAhead ==
    /\ planner.seen.revision <= revision
    /\ \A p \in presses : p.revision <= revision
    /\ \A l \in fetches : l.read <= revision \/ l.read \in {NotYet, FailedRead}

\* The load that counts was not answered from before what is shown, nor from before
\* what the screen was promised.
FreshIsLater ==
    \A l \in fetches : l.fresh => l.read >= promised /\ l.read >= planner.seen.revision

PlanInv == PlanTypes /\ OpenToLoad /\ OneFresh /\ NothingAhead /\ FreshIsLater
-----------------------------------------------------------------------------
LEMMA PlanBegins == PlannerInit => PlanInv
BY PlannerAssumption
   DEF PlannerInit, PlanInv, PlanTypes, OpenToLoad, OneFresh, NothingAhead, FreshIsLater,
       Unopened, Planner, PlanSeen, NotSeen

\* A new load counts, the others no longer do, and nothing of what they read changes.
LEMMA NewLoadCounts ==
  ASSUME PlanInv, NEW hour \in Hour,
         fetches' = Outdated(fetches) \cup {NewLoad(hour)}
  PROVE  /\ fetches' \subseteq PlanLoad
         /\ \A l, m \in fetches' : l.fresh /\ m.fresh => l = m
         /\ \A l \in fetches' : l.read <= revision \/ l.read \in {NotYet, FailedRead}
         /\ \A l \in fetches' : l.fresh => l.read = NotYet
<1>1. /\ fetches \subseteq PlanLoad /\ revision \in Nat
      /\ \A l \in fetches : l.read <= revision \/ l.read \in {NotYet, FailedRead}
  BY DEF PlanInv, PlanTypes, NothingAhead
<1>2. NewLoad(hour) \in PlanLoad /\ NewLoad(hour).read = NotYet /\ NewLoad(hour).fresh
  BY PlannerAssumption DEF NewLoad, PlanLoad, NotYet, FailedRead
<1>3. ASSUME NEW l \in Outdated(fetches)
      PROVE  /\ l \in PlanLoad /\ ~l.fresh
             /\ l.read <= revision \/ l.read \in {NotYet, FailedRead}
  <2> PICK m \in fetches : l = [m EXCEPT !.fresh = FALSE]
    BY <1>3 DEF Outdated
  <2> QED BY <1>1 DEF PlanLoad
<1> QED BY <1>1, <1>2, <1>3

LEMMA OutdatedCountsNot ==
  ASSUME PlanInv
  PROVE  /\ Outdated(fetches) \subseteq PlanLoad
         /\ \A l \in Outdated(fetches) :
              ~l.fresh /\ (l.read <= revision \/ l.read \in {NotYet, FailedRead})
<1>1. /\ fetches \subseteq PlanLoad
      /\ \A l \in fetches : l.read <= revision \/ l.read \in {NotYet, FailedRead}
  BY DEF PlanInv, PlanTypes, NothingAhead
<1>2. ASSUME NEW l \in Outdated(fetches)
      PROVE  l \in PlanLoad /\ ~l.fresh /\ (l.read <= revision \/ l.read \in {NotYet, FailedRead})
  <2> PICK m \in fetches : l = [m EXCEPT !.fresh = FALSE]
    BY <1>2 DEF Outdated
  <2> QED BY <1>1 DEF PlanLoad
<1> QED BY <1>2

LEMMA LargerOfTwo ==
  ASSUME NEW a \in Nat, NEW b \in Nat
  PROVE  Max({a, b}) \in {a, b} /\ Max({a, b}) >= a /\ Max({a, b}) >= b
<1>1. PICK x \in {a, b} : \A y \in {a, b} : x >= y
  <2>1. CASE a >= b  BY <2>1
  <2>2. CASE ~(a >= b)  BY <2>2
  <2> QED BY <2>1, <2>2
<1> QED BY <1>1 DEF Max

\* A load starts, and what was promised becomes no more than what there is.
LEMMA StartLoadStep ==
  ASSUME PlanInv, NEW hour, MayLoad(hour, FALSE), StartLoad(hour),
         revision' = revision, promised' \in 0..revision,
         presses' \subseteq presses
  PROVE  PlanInv'
<1>1. /\ PlanTypes /\ OpenToLoad /\ NothingAhead
      /\ planner \in Planner /\ hour \in Hour /\ hour = planner.scope /\ planner.active
  BY DEF PlanInv, PlanTypes, OpenToLoad, Planner, MayLoad
<1>2. /\ fetches' \subseteq PlanLoad
      /\ \A l, m \in fetches' : l.fresh /\ m.fresh => l = m
      /\ \A l \in fetches' : l.read <= revision \/ l.read \in {NotYet, FailedRead}
      /\ \A l \in fetches' : l.fresh => l.read = NotYet
  BY <1>1, NewLoadCounts DEF StartLoad
<1>3. /\ planner' \in Planner /\ planner'.seen = planner.seen /\ planner'.pending
      /\ planner'.active /\ planner'.scope = planner.scope /\ planner'.settled = planner.settled
  BY <1>1 DEF StartLoad, Planner
<1>4. PlanTypes'
  BY <1>1, <1>2, <1>3 DEF PlanTypes
<1>5. OpenToLoad'
  BY <1>1, <1>3 DEF OpenToLoad
<1>6. NothingAhead'
  BY <1>1, <1>2, <1>3 DEF NothingAhead
<1>7. FreshIsLater'
  <2>1. promised' <= MaxRevisions /\ planner'.seen.revision <= MaxRevisions
    BY <1>1, <1>3, PlannerAssumption DEF PlanTypes, Planner, PlanSeen
  <2> QED BY <1>1, <1>2, <1>3, <2>1, PlannerAssumption
          DEF FreshIsLater, NotYet, PlanTypes, Planner, PlanSeen
<1> QED BY <1>2, <1>4, <1>5, <1>6, <1>7 DEF PlanInv, OneFresh
-----------------------------------------------------------------------------
(* One lemma for each kind of step. *)

LEMMA ScreenStep ==
  ASSUME PlanInv, OpenPlanner \/ (\E hour \in Hour : ChooseHour(hour))
  PROVE  PlanInv'
<1>1. /\ planner \in Planner /\ OpenToLoad /\ planner.scope \in Hour \cup {NoHour}
      /\ UNCHANGED <<revision, fetches, presses, promised>>
  BY DEF PlanInv, PlanTypes, Planner, OpenPlanner, ChooseHour
<1>2. PICK hour \in Hour : planner' = [planner EXCEPT !.scope = hour]
  BY PlannerAssumption DEF OpenPlanner, ChooseHour
<1>3. /\ planner' \in Planner /\ planner'.seen = planner.seen /\ planner'.scope = hour
      /\ planner'.pending = planner.pending /\ planner'.active = planner.active
  BY <1>1, <1>2 DEF Planner
<1>4. OpenToLoad'
  BY <1>1, <1>3, PlannerAssumption DEF OpenToLoad
<1> QED BY <1>1, <1>3, <1>4 DEF PlanInv, PlanTypes, OneFresh, NothingAhead, FreshIsLater

LEMMA EffectStep ==
  ASSUME PlanInv, RunEffect
  PROVE  PlanInv'
<1>1. /\ PlanTypes /\ OpenToLoad /\ NothingAhead /\ planner.scope \in Hour
      /\ UNCHANGED <<revision, presses, promised>>
      /\ fetches' = Outdated(fetches) \cup {NewLoad(planner.scope)}
  BY DEF PlanInv, PlanTypes, Planner, OpenToLoad, RunEffect
<1>2. /\ fetches' \subseteq PlanLoad
      /\ \A l, m \in fetches' : l.fresh /\ m.fresh => l = m
      /\ \A l \in fetches' : l.read <= revision \/ l.read \in {NotYet, FailedRead}
      /\ \A l \in fetches' : l.fresh => l.read = NotYet
  BY <1>1, NewLoadCounts
<1>3. /\ planner' \in Planner /\ planner'.seen = NotSeen
      /\ planner'.active /\ planner'.scope = planner.scope
  <2>1. NotSeen \in PlanSeen
    BY PlannerAssumption DEF NotSeen, PlanSeen
  <2>2. planner' = [scope |-> planner.scope, settled |-> planner.scope, active |-> TRUE,
                    pending |-> TRUE, seen |-> NotSeen, tables |-> FALSE]
    BY <1>1 DEF RunEffect, PlanTypes, Planner
  <2> QED BY <1>1, <2>1, <2>2 DEF Planner
<1>4. PlanTypes' /\ OpenToLoad'
  BY <1>1, <1>2, <1>3, PlannerAssumption DEF PlanTypes, OpenToLoad
<1>5. NothingAhead' /\ FreshIsLater'
  BY <1>1, <1>2, <1>3, PlannerAssumption
     DEF NothingAhead, FreshIsLater, NotSeen, PlanTypes, NotYet
<1> QED BY <1>2, <1>4, <1>5 DEF PlanInv, OneFresh

LEMMA CloseStep ==
  ASSUME PlanInv, ClosePlanner
  PROVE  PlanInv'
<1>1. PlanTypes /\ NothingAhead /\ UNCHANGED <<revision, promised>>
  BY DEF PlanInv, ClosePlanner
<1>2. /\ fetches' \subseteq PlanLoad
      /\ \A l \in fetches' : ~l.fresh /\ (l.read <= revision \/ l.read \in {NotYet, FailedRead})
  BY OutdatedCountsNot DEF ClosePlanner
<1>3. planner' = Unopened /\ Unopened \in Planner /\ Unopened.seen.revision = 0
  BY PlannerAssumption DEF ClosePlanner, Unopened, Planner, NotSeen, PlanSeen
<1>4. ASSUME NEW q \in presses'
      PROVE  q \in PlanPress /\ q.revision <= revision
  <2> PICK p \in presses : q = [p EXCEPT !.hour = NoHour]
    BY <1>4 DEF ClosePlanner
  <2> QED BY <1>1 DEF PlanTypes, NothingAhead, PlanPress
<1>5. PlanTypes'
  BY <1>1, <1>2, <1>3, <1>4 DEF PlanTypes
<1>6. OpenToLoad' /\ OneFresh' /\ FreshIsLater'
  BY <1>2, <1>3 DEF OpenToLoad, OneFresh, FreshIsLater, Unopened
<1>7. NothingAhead'
  BY <1>1, <1>2, <1>3, <1>4 DEF NothingAhead, PlanTypes
<1> QED BY <1>5, <1>6, <1>7 DEF PlanInv
\* Of the loads only one is replaced or goes, and the plan stays.
LEMMA AnswerStep ==
  ASSUME PlanInv, NEW l \in fetches, Answer(l)
  PROVE  PlanInv'
<1>1. /\ PlanTypes /\ OneFresh /\ NothingAhead /\ FreshIsLater /\ l \in PlanLoad
      /\ UNCHANGED <<revision, planner, presses, promised>> /\ revision \in Nat
  BY DEF PlanInv, PlanTypes, Answer
<1>2. PICK answer \in {revision, FailedRead} :
        fetches' = (fetches \ {l}) \cup {[l EXCEPT !.read = answer]}
  BY DEF Answer
<1> DEFINE m == [l EXCEPT !.read = answer]
<1>3. m \in PlanLoad /\ m.fresh = l.fresh /\ m.read = answer
  BY <1>1, <1>2, PlannerAssumption DEF PlanLoad, PlanTypes, FailedRead
<1>4. fetches' = (fetches \ {l}) \cup {m}
  BY <1>2
<1> HIDE DEF m
<1>5. PlanTypes' /\ OpenToLoad'
  BY <1>1, <1>3, <1>4 DEF PlanInv, PlanTypes, OpenToLoad
<1>6. OneFresh'
  BY <1>1, <1>3, <1>4 DEF OneFresh
<1>7. NothingAhead'
  BY <1>1, <1>2, <1>3, <1>4 DEF NothingAhead, NotYet, FailedRead
<1>8. answer >= promised /\ answer >= planner.seen.revision
  BY <1>1, <1>2, PlannerAssumption DEF PlanTypes, NothingAhead, FailedRead, Planner, PlanSeen
<1>9. FreshIsLater'
  BY <1>1, <1>3, <1>4, <1>8 DEF FreshIsLater
<1> QED BY <1>5, <1>6, <1>7, <1>9 DEF PlanInv

\* What the plan becomes when the load that counts is done.
LEMMA ShownIsLater ==
  ASSUME PlanInv, NEW l \in fetches, FinishLoad(l), Applies(l)
  PROVE  /\ planner' \in Planner
         /\ planner'.active /\ planner'.scope = planner.scope
         /\ planner'.settled = planner.settled
         /\ planner'.seen.revision <= revision /\ planner'.seen.revision <= l.read
         /\ planner'.seen /= planner.seen =>
              /\ planner'.seen.hour = planner.scope
              /\ planner'.seen.revision >= planner.seen.revision
              /\ planner'.seen.revision >= promised
<1>1. /\ PlanTypes /\ NothingAhead /\ FreshIsLater /\ l \in PlanLoad /\ planner \in Planner
      /\ l.fresh /\ planner.active /\ l.hour = planner.scope /\ l.read /= NotYet
  BY DEF PlanInv, PlanTypes, FinishLoad, Applies
<1>2. /\ Brought(l) \in PlanSeen
      /\ Brought(l).revision <= revision /\ Brought(l).revision <= l.read
      /\ Brought(l) /= planner.seen =>
           /\ Brought(l).hour = planner.scope
           /\ Brought(l).revision >= planner.seen.revision
           /\ Brought(l).revision >= promised
  <2>1. CASE l.read = FailedRead
    BY <1>1, <2>1, PlannerAssumption
       DEF Brought, Planner, PlanSeen, FailedRead, NothingAhead, FreshIsLater
  <2>2. CASE l.read /= FailedRead
    <3>1. l.read <= revision
      BY <1>1, <2>2 DEF NothingAhead
    <3> QED BY <1>1, <2>2, <3>1, PlannerAssumption
            DEF Brought, PlanSeen, PlanLoad, FreshIsLater, PlanTypes, FailedRead
  <2> QED BY <2>1, <2>2
<1>3. PICK drawn \in {planner.tables, TRUE} :
        planner' = [planner EXCEPT !.pending = FALSE, !.seen = Brought(l), !.tables = drawn]
  BY DEF FinishLoad
<1>4. planner' = [scope |-> planner.scope, settled |-> planner.settled,
                  active |-> planner.active, pending |-> FALSE, seen |-> Brought(l),
                  tables |-> drawn]
  BY <1>1, <1>3 DEF Planner
<1> QED BY <1>1, <1>2, <1>3, <1>4 DEF Planner

LEMMA FinishStep ==
  ASSUME PlanInv, NEW l \in fetches, FinishLoad(l)
  PROVE  PlanInv'
<1>1. /\ PlanTypes /\ OneFresh /\ NothingAhead /\ FreshIsLater /\ OpenToLoad
      /\ fetches' = fetches \ {l} /\ UNCHANGED <<revision, presses, promised>>
  BY DEF PlanInv, FinishLoad
<1>2. CASE Applies(l)
  <2>1. /\ planner' \in Planner /\ planner'.active /\ planner'.scope = planner.scope
        /\ planner'.settled = planner.settled /\ planner'.seen.revision <= revision
      BY <1>2, ShownIsLater
  <2>2. \A m \in fetches' : ~m.fresh
    BY <1>1, <1>2 DEF OneFresh, Applies
  <2>3. PlanTypes' /\ NothingAhead'
    BY <1>1, <2>1 DEF PlanTypes, NothingAhead
  <2>5. OneFresh' /\ FreshIsLater'
    BY <2>2 DEF OneFresh, FreshIsLater
  <2>4. OpenToLoad'
    BY <1>1, <1>2, <2>1 DEF OpenToLoad, Applies
  <2> QED BY <2>3, <2>4, <2>5 DEF PlanInv
<1>3. CASE ~Applies(l)
  <2>1. UNCHANGED planner
    BY <1>3 DEF FinishLoad
  <2> QED BY <1>1, <2>1
          DEF PlanInv, PlanTypes, NothingAhead, OneFresh, FreshIsLater, OpenToLoad
<1> QED BY <1>2, <1>3
LEMMA ElsewhereStep ==
  ASSUME PlanInv, ElsewhereChanged
  PROVE  PlanInv'
BY PlannerAssumption
   DEF PlanInv, PlanTypes, OpenToLoad, OneFresh, NothingAhead, FreshIsLater, ElsewhereChanged,
       PlanPress, PlanLoad, Planner, PlanSeen, FailedRead

LEMMA PressStep ==
  ASSUME PlanInv, NEW does, PressChange(does)
  PROVE  PlanInv'
<1> DEFINE pressed == [hour |-> planner.scope, at |-> "sent", revision |-> 0]
<1>1. /\ presses' = presses \cup {pressed}
      /\ UNCHANGED <<revision, planner, fetches, promised>>
      /\ PlanTypes
  BY DEF PlanInv, PressChange
<1>2. pressed \in PlanPress /\ pressed.revision <= revision
  BY <1>1, PlannerAssumption DEF PlanPress, PlanTypes, Planner
<1> HIDE DEF pressed
<1> QED BY <1>1, <1>2
       DEF PlanInv, PlanTypes, OpenToLoad, OneFresh, NothingAhead, FreshIsLater

LEMMA ServedStep ==
  ASSUME PlanInv, NEW p \in presses, NEW q \in PlanPress,
         revision' \in 0..MaxRevisions, revision <= revision', q.revision <= revision',
         presses' = (presses \ {p}) \cup {q}, UNCHANGED <<planner, fetches, promised>>
  PROVE  PlanInv'
<1>1. PlanTypes /\ NothingAhead
  BY DEF PlanInv
<1>2. PlanTypes'
  BY <1>1, PlannerAssumption DEF PlanTypes
<1>3. OpenToLoad' /\ OneFresh' /\ FreshIsLater'
  BY DEF PlanInv, OpenToLoad, OneFresh, FreshIsLater
<1>4. NothingAhead'
  BY <1>1, PlannerAssumption
     DEF NothingAhead, PlanTypes, PlanPress, PlanLoad, FailedRead, Planner, PlanSeen
<1> QED BY <1>2, <1>3, <1>4 DEF PlanInv

LEMMA ServeStep ==
  ASSUME PlanInv, NEW p \in presses, ServeChange(p)
  PROVE  PlanInv'
<1>1. /\ PlanTypes /\ p.revision <= revision /\ p \in PlanPress
      /\ UNCHANGED <<planner, fetches, promised>> /\ revision \in 0..MaxRevisions
  BY DEF PlanInv, PlanTypes, NothingAhead, ServeChange
<1>2. CASE revision' = revision /\ presses' = (presses \ {p}) \cup {[p EXCEPT !.at = "refused"]}
  <2> DEFINE q == [p EXCEPT !.at = "refused"]
  <2>1. q \in PlanPress /\ q.revision <= revision'
    BY <1>1, <1>2 DEF PlanPress
  <2>2. presses' = (presses \ {p}) \cup {q}
    BY <1>2
  <2> HIDE DEF q
  <2>3. revision' \in 0..MaxRevisions /\ revision <= revision'
    BY <1>1, <1>2, PlannerAssumption
  <2> QED BY <1>1, <2>1, <2>2, <2>3, ServedStep
<1>3. CASE /\ revision < MaxRevisions /\ revision' = revision + 1
           /\ presses' = (presses \ {p})
                             \cup {[p EXCEPT !.at = "done", !.revision = revision + 1]}
  <2> DEFINE done == [p EXCEPT !.at = "done"]
             q == [done EXCEPT !.revision = revision + 1]
  <2>1. done \in PlanPress
    BY <1>1 DEF PlanPress
  <2>2. presses' = (presses \ {p}) \cup {q}
    BY <1>3
  <2> HIDE DEF done
  <2>3. q \in PlanPress /\ q.revision = revision + 1
    BY <1>1, <1>3, <2>1, PlannerAssumption DEF PlanPress
  <2> HIDE DEF q
  <2>4. revision' \in 0..MaxRevisions /\ revision <= revision' /\ q.revision <= revision'
    BY <1>1, <1>3, <2>3, PlannerAssumption
  <2> QED BY <1>1, <2>2, <2>3, <2>4, ServedStep
<1> QED BY <1>2, <1>3 DEF ServeChange

LEMMA ConfirmStep ==
  ASSUME PlanInv, NEW p \in presses, Confirm(p)
  PROVE  PlanInv'
<1>1. /\ PlanTypes /\ NothingAhead /\ p \in PlanPress /\ p.revision <= revision
      /\ revision' = revision /\ presses' = presses \ {p}
  BY DEF PlanInv, PlanTypes, NothingAhead, Confirm
<1>2. CASE MayLoad(p.hour, FALSE)
  <2>1. StartLoad(p.hour) /\ promised' = Max({promised, p.revision})
    BY <1>2 DEF Confirm
  <2>2. promised \in Nat /\ p.revision \in Nat
    BY <1>1, PlannerAssumption DEF PlanTypes, PlanPress
  <2>3. promised' \in {promised, p.revision}
    BY <2>1, <2>2, LargerOfTwo
  <2>4. promised' \in 0..revision
    BY <1>1, <2>2, <2>3 DEF PlanTypes
  <2> QED BY <1>1, <1>2, <2>1, <2>4, StartLoadStep
<1>3. CASE ~MayLoad(p.hour, FALSE)
  BY <1>1, <1>3
     DEF PlanInv, PlanTypes, OpenToLoad, OneFresh, NothingAhead, FreshIsLater, Confirm
<1> QED BY <1>2, <1>3

LEMMA PlanStep ==
  ASSUME PlanInv, [PlannerNext]_plannerVars
  PROVE  PlanInv'
<1>1. CASE OpenPlanner \/ \E hour \in Hour : ChooseHour(hour)
  BY <1>1, ScreenStep
<1>2. CASE RunEffect
  BY <1>2, EffectStep
<1>3. CASE ClosePlanner
  BY <1>3, CloseStep
<1>4. CASE PollPlan \/ Refresh
  <2>1. PICK hour : MayLoad(hour, FALSE) /\ StartLoad(hour)
    BY <1>4 DEF PollPlan, Refresh, MayLoad
  <2>2. UNCHANGED <<revision, presses, promised>> /\ promised' \in 0..revision
    BY <1>4 DEF PollPlan, Refresh, PlanInv, PlanTypes
  <2> QED BY <2>1, <2>2, StartLoadStep
<1>5. CASE ElsewhereChanged
  BY <1>5, ElsewhereStep
<1>6. CASE \E l \in fetches : Answer(l) \/ FinishLoad(l)
  BY <1>6, AnswerStep, FinishStep
<1>7. CASE \E does \in {"status", "booking"} : PressChange(does)
  BY <1>7, PressStep
<1>8. CASE \E p \in presses : ServeChange(p) \/ Confirm(p)
  BY <1>8, ServeStep, ConfirmStep
<1>9. CASE \E p \in presses : PressFailed(p)
  BY <1>9
     DEF PlanInv, PlanTypes, OpenToLoad, OneFresh, NothingAhead, FreshIsLater, PressFailed
<1>10. CASE UNCHANGED plannerVars
  BY <1>10
     DEF PlanInv, PlanTypes, OpenToLoad, OneFresh, NothingAhead, FreshIsLater, plannerVars
<1> QED BY <1>1, <1>2, <1>3, <1>4, <1>5, <1>6, <1>7, <1>8, <1>9, <1>10 DEF PlannerNext

LEMMA PlanAlways == PlannerSpec => []PlanInv
BY PlanBegins, PlanStep, PTL DEF PlannerSpec

\* Only a load that is done brings something to see: closing the screen, or another
\* date and time, takes it away.
LEMMA OnlyLoadsAreSeen ==
  ASSUME PlanInv, PlannerNext, planner'.seen \notin {planner.seen, NotSeen}
  PROVE  \E l \in fetches : FinishLoad(l) /\ Applies(l)
<1> planner \in Planner
  BY DEF PlanInv, PlanTypes
<1>1. ~OpenPlanner /\ ~RunEffect /\ ~ClosePlanner
  <2>1. ~OpenPlanner  BY DEF OpenPlanner, Planner
  <2>2. ~RunEffect  BY DEF RunEffect, Planner
  <2>3. ~ClosePlanner  BY DEF ClosePlanner, Unopened
  <2> QED BY <2>1, <2>2, <2>3
<1>2. ~(PollPlan \/ Refresh \/ ElsewhereChanged)
  BY DEF PollPlan, Refresh, ElsewhereChanged, StartLoad, Planner
<1>3. ~(\E hour \in Hour : ChooseHour(hour))
  BY DEF ChooseHour, Planner
<1>4. ~(\E does \in {"status", "booking"} : PressChange(does))
  BY DEF PressChange
<1>5. ~(\E p \in presses : ServeChange(p) \/ Confirm(p) \/ PressFailed(p))
  <2> SUFFICES ASSUME NEW p \in presses
               PROVE  ~ServeChange(p) /\ ~Confirm(p) /\ ~PressFailed(p)
    OBVIOUS
  <2>1. ~ServeChange(p) /\ ~PressFailed(p)
    BY DEF ServeChange, PressFailed
  <2>2. ~Confirm(p)
    <3> SUFFICES ASSUME Confirm(p) PROVE planner'.seen = planner.seen
      OBVIOUS
    <3>1. CASE MayLoad(p.hour, FALSE)
      BY <3>1 DEF Confirm, StartLoad, Planner
    <3>2. CASE ~MayLoad(p.hour, FALSE)
      BY <3>2 DEF Confirm
    <3> QED BY <3>1, <3>2
  <2> QED BY <2>1, <2>2
<1>6. PICK l \in fetches : Answer(l) \/ FinishLoad(l)
  BY <1>1, <1>2, <1>3, <1>4, <1>5 DEF PlannerNext
<1>7. FinishLoad(l) /\ Applies(l)
  BY <1>6 DEF Answer, FinishLoad
<1> QED BY <1>7

\* No late answer takes the plan back, for any number of dates, of loads and changes on
\* their way, and of changes in the restaurant.
THEOREM PlansOnlyAdvance == PlannerSpec => PlanOnlyAdvances
<1>1. ASSUME PlanInv, [PlannerNext]_plannerVars
      PROVE  [planner'.seen \notin {planner.seen, NotSeen} =>
                  /\ planner'.seen.hour = planner.scope
                  /\ planner'.seen.revision >= planner.seen.revision
                  /\ planner'.seen.revision >= promised]_plannerVars
  <2> SUFFICES ASSUME PlannerNext, planner'.seen \notin {planner.seen, NotSeen}
               PROVE  /\ planner'.seen.hour = planner.scope
                      /\ planner'.seen.revision >= planner.seen.revision
                      /\ planner'.seen.revision >= promised
    BY <1>1
  <2> QED BY <1>1, OnlyLoadsAreSeen, ShownIsLater
<1> QED BY <1>1, PlanAlways, PTL DEF PlannerSpec, PlanOnlyAdvances
-----------------------------------------------------------------------------
(* The call buttons *)

ServicesTypes ==
    /\ button \in Button
    /\ called \in [Called -> Active \cup {"none", "over"}]
    /\ shown \in Status /\ post \in Post
    /\ questions \subseteq Asked
    /\ own \in Called \cup {0}

\* There is one call under way at a time.
OneActive == \A j, k \in ActiveCall : j = k

\* What the guest was told, or is about to be told, was made.
ToldWasMade ==
    /\ own /= 0 => called[own] /= "none"
    /\ post.at = "made" =>
           post.answer.call \in Called /\ called[post.answer.call] /= "none"

\* The list of bookings does not ask again after a call.
ListTakesTheAnswer == button.place = "list" => post.at \notin {"ask", "told"}

\* An answer that will be taken was read since the last call was told.
CleanIsLater ==
    \A q \in questions :
        /\ button.place = "list" /\ q.clean /\ q.at = "read" /\ own /= 0 /\ q.answer.call /= own
        => called[own] = "over"

ServicesInv ==
    /\ ServicesTypes /\ OneActive /\ ToldWasMade /\ ListTakesTheAnswer /\ CleanIsLater
    /\ CallStaysShown
-----------------------------------------------------------------------------
LEMMA ServicesBegin == ServicesInit => ServicesInv
<1>1. NoStatus \in Status /\ NotPosted \in Post
  BY DEF NoStatus, Status, NotPosted, Post
<1> QED BY <1>1
       DEF ServicesInit, ServicesInv, ServicesTypes, OneActive, ToldWasMade, CleanIsLater,
           ListTakesTheAnswer, CallStaysShown, ActiveCall, Active, NotPosted

\* The calls go forward, and the page does not change.
LEMMA CallsMove ==
  ASSUME ServicesInv,
         called' \in [Called -> Active \cup {"none", "over"}],
         \A k \in Called : called[k] /= "none" => called'[k] /= "none",
         \A k \in Called : called[k] = "over" => called'[k] = "over",
         OneActive',
         UNCHANGED <<button, servicesPage>>
  PROVE  ServicesInv'
<1>1. /\ ServicesTypes /\ ToldWasMade /\ CleanIsLater /\ CallStaysShown
      /\ own \in Called \cup {0}
      /\ UNCHANGED <<button, today, shown, post, questions, own>>
  BY DEF ServicesInv, ServicesTypes, servicesPage
<1>2. ServicesTypes'
  BY <1>1 DEF ServicesTypes
<1>3. ToldWasMade'
  BY <1>1 DEF ToldWasMade
<1>4. CleanIsLater' /\ CallStaysShown'
  BY <1>1 DEF CleanIsLater, CallStaysShown
<1> QED BY <1>1, <1>2, <1>3, <1>4 DEF ServicesInv, ListTakesTheAnswer

LEMMA OneIsMade ==
  ASSUME ServicesTypes, OneActive, NEW k \in Called, MakeCall(k)
  PROVE  /\ called' \in [Called -> Active \cup {"none", "over"}]
         /\ \A j \in Called : called[j] /= "none" => called'[j] /= "none"
         /\ \A j \in Called : called[j] = "over" => called'[j] = "over"
         /\ OneActive'
         /\ called'[k] \in Active
<1>1. called \in [Called -> Active \cup {"none", "over"}]
  BY DEF ServicesTypes
<1>2. CASE k \in ActiveCall
  BY <1>1, <1>2 DEF MakeCall, OneActive, ActiveCall, Active
<1>3. CASE k \notin ActiveCall
  <2>1. ActiveCall = {} /\ called[k] = "none" /\ called' = [called EXCEPT ![k] = "new"]
    BY <1>3 DEF MakeCall, NextCall
  <2>2. \A j \in Called : called[j] \notin Active
    BY <2>1 DEF ActiveCall
  <2>3. \A j \in Called : j /= k => called'[j] = called[j]
    BY <1>1, <2>1
  <2>4. called'[k] = "new"
    BY <1>1, <2>1
  <2>5. \A j \in ActiveCall' : j = k
    BY <2>2, <2>3 DEF ActiveCall
  <2>6. OneActive'
    BY <2>5 DEF OneActive
  <2> QED BY <1>1, <2>1, <2>3, <2>4, <2>6 DEF Active
<1> QED BY <1>2, <1>3

LEMMA ServerStep ==
  ASSUME ServicesInv,
         \/ ChangeVisit \/ CallElsewhere \/ (\E k \in Called : ServeCall(k))
         \/ (\E q \in questions : ExpireOverdue(q))
  PROVE  ServicesInv'
<1>1. called \in [Called -> Active \cup {"none", "over"}] /\ ServicesTypes /\ OneActive
  BY DEF ServicesInv, ServicesTypes
<1>2. CASE ChangeVisit
  <2>1. /\ called' \in [Called -> Active \cup {"none", "over"}]
        /\ \A k \in Called : \/ called'[k] = called[k]
                             \/ k \in ActiveCall /\ called'[k] = "over"
    BY <1>1, <1>2 DEF ChangeVisit
  <2>2. OneActive'
    BY <1>1, <2>1 DEF OneActive, ActiveCall, Active
  <2>3. UNCHANGED <<button, servicesPage>>
    BY <1>2 DEF ChangeVisit
  <2> QED BY <2>1, <2>2, <2>3, CallsMove DEF ActiveCall, Active
<1>3. CASE CallElsewhere
  <2>1. PICK k \in Called : MakeCall(k)
    BY <1>3 DEF CallElsewhere, NextCall
  <2>2. UNCHANGED <<button, servicesPage>>
    BY <1>3 DEF CallElsewhere
  <2> QED BY <1>1, <2>1, <2>2, OneIsMade, CallsMove
<1>4. CASE \/ \E k \in Called : ServeCall(k)
           \/ \E q \in questions : ExpireOverdue(q)
  <2>1. PICK k \in Called : /\ called[k] \in Active
                            /\ \/ called' = [called EXCEPT ![k] = "accepted"]
                               \/ called' = [called EXCEPT ![k] = "over"]
    BY <1>4 DEF ServeCall, ExpireOverdue, Active
  <2>2. UNCHANGED <<button, servicesPage>>
    BY <1>4 DEF ServeCall, ExpireOverdue
  <2>3. /\ called' \in [Called -> Active \cup {"none", "over"}]
        /\ \A j \in Called : j /= k => called'[j] = called[j]
        /\ called'[k] \in {"accepted", "over"}
    BY <1>1, <2>1 DEF Active
  <2>4. OneActive'
    BY <1>1, <2>1, <2>3 DEF OneActive, ActiveCall
  <2>5. /\ \A j \in Called : called[j] /= "none" => called'[j] /= "none"
        /\ \A j \in Called : called[j] = "over" => called'[j] = "over"
    BY <2>1, <2>3 DEF Active
  <2> QED BY <2>2, <2>3, <2>4, <2>5, CallsMove
<1> QED BY <1>2, <1>3, <1>4

\* The server tells of a call that it knows, if it is not over.
LEMMA StatusIsTrue ==
  ASSUME ServicesTypes, OneActive, ToldWasMade, NEW taken \in BOOLEAN
  PROVE  /\ GuestStatus(taken) \in Status
         /\ own /= 0 /\ GuestStatus(taken).call /= own => called[own] = "over"
<1>1. called \in [Called -> Active \cup {"none", "over"}] /\ own \in Called \cup {0}
  BY DEF ServicesTypes
<1>2. CASE ActiveCall = {}
  <2>1. GuestStatus(taken) \in Status
    BY <1>2 DEF GuestStatus, Status, ActiveCall
  <2>2. own /= 0 => called[own] = "over"
    BY <1>1, <1>2 DEF ToldWasMade, ActiveCall
  <2> QED BY <2>1, <2>2
<1>3. CASE ActiveCall /= {}
  <2> DEFINE call == CHOOSE k \in ActiveCall : TRUE
  <2>1. call \in ActiveCall
    BY <1>3
  <2>2. GuestStatus(taken).call = call
    BY <1>3 DEF GuestStatus
  <2>4. GuestStatus(taken) \in Status
    BY <1>3, <2>1 DEF GuestStatus, Status, ActiveCall
  <2> HIDE DEF call
  <2>5. own \in ActiveCall => own = call
    BY <2>1 DEF OneActive
  <2>6. own /= 0 /\ call /= own => called[own] = "over"
    BY <1>1, <2>5 DEF ToldWasMade, ActiveCall
  <2> QED BY <2>2, <2>4, <2>6
<1> QED BY <1>2, <1>3

\* The page changes what it waits for, and not what it shows or was told.
LEMMA QuestionsChange ==
  ASSUME ServicesInv,
         questions' \subseteq Asked, post' \in Post,
         ToldWasMade', ListTakesTheAnswer',
         \A q \in questions' : q.clean /\ q.at = "read" =>
             \/ q \in questions
             \/ \E p \in questions : /\ p.clean /\ p.at = "read"
                                     /\ p.answer = q.answer
             \/ own /= 0 /\ q.answer.call /= own => called[own] = "over",
         today' => today,
         UNCHANGED <<button, called, shown, own>>
  PROVE  ServicesInv'
<1>1. ServicesTypes'
  BY DEF ServicesInv, ServicesTypes
<1>2. CleanIsLater'
  BY DEF ServicesInv, CleanIsLater
<1>3. OneActive' /\ CallStaysShown'
  BY DEF ServicesInv, OneActive, ActiveCall, CallStaysShown
<1> QED BY <1>1, <1>2, <1>3 DEF ServicesInv

\* A call made or told makes no question clean.
LEMMA MutatedIsUnclean ==
  ASSUME questions \subseteq Asked
  PROVE  Mutated \subseteq Asked /\ \A q \in Mutated : ~q.clean
<1> SUFFICES ASSUME NEW q \in Mutated PROVE q \in Asked /\ ~q.clean
  OBVIOUS
<1>1. PICK p \in questions : q = [p EXCEPT !.clean = FALSE]
  BY DEF Mutated
<1> QED BY <1>1 DEF Asked

LEMMA SupersededAnswers ==
  ASSUME questions \subseteq Asked
  PROVE  /\ Superseded \subseteq Asked
         /\ \A q \in Superseded : \E p \in questions :
              p.clean = q.clean /\ p.at = q.at /\ p.answer = q.answer
<1> SUFFICES ASSUME NEW q \in Superseded
             PROVE  q \in Asked /\ \E p \in questions :
                      p.clean = q.clean /\ p.at = q.at /\ p.answer = q.answer
  OBVIOUS
<1>1. PICK p \in questions : q = [p EXCEPT !.latest = FALSE]
  BY DEF Superseded
<1>2. q \in Asked /\ p.clean = q.clean /\ p.at = q.at /\ p.answer = q.answer
  BY <1>1 DEF Asked
<1> QED BY <1>2

LEMMA LoadStatusStep ==
  ASSUME ServicesInv, LoadStatus
  PROVE  ServicesInv'
<1>1. ServicesTypes /\ questions \subseteq Asked /\ post \in Post
  BY DEF ServicesInv, ServicesTypes
<1>2. NewQuestion \in Asked /\ NewQuestion.at = "asked"
  BY DEF NewQuestion, Asked, NoStatus, Status
<1>3. /\ questions' = Superseded \cup {NewQuestion}
      /\ UNCHANGED <<button, called, shown, own, today, post>>
  BY DEF LoadStatus, servicesServer
<1>4. \A q \in questions' : q.clean /\ q.at = "read" =>
        \E p \in questions : p.clean /\ p.at = "read" /\ p.answer = q.answer
  BY <1>1, <1>2, <1>3, SupersededAnswers
<1>5. questions' \subseteq Asked
  BY <1>1, <1>2, <1>3, SupersededAnswers
<1>6. ToldWasMade' /\ ListTakesTheAnswer'
  BY <1>3 DEF ServicesInv, ToldWasMade, ListTakesTheAnswer
<1> QED BY <1>1, <1>3, <1>4, <1>5, <1>6, QuestionsChange

LEMMA ReadStatusStep ==
  ASSUME ServicesInv, NEW q \in questions, ReadStatus(q)
  PROVE  ServicesInv'
<1>1. /\ ServicesTypes /\ questions \subseteq Asked /\ post \in Post
      /\ OneActive /\ ToldWasMade /\ q \in Asked
  BY DEF ServicesInv, ServicesTypes
<1>2. PICK taken \in BOOLEAN :
        questions' = (questions \ {q})
                         \cup {[q EXCEPT !.at = "read", !.answer = GuestStatus(taken)]}
  BY Zenon DEF ReadStatus
<1> DEFINE read == [q EXCEPT !.at = "read"]
           new == [read EXCEPT !.answer = GuestStatus(taken)]
<1>3. questions' = (questions \ {q}) \cup {new}
  BY <1>2
<1>4. read \in Asked
  BY <1>1 DEF Asked
<1> HIDE DEF read
<1>5. new \in Asked /\ new.answer = GuestStatus(taken)
  BY <1>1, <1>4, StatusIsTrue DEF Asked
<1> HIDE DEF new
<1>6. own /= 0 /\ new.answer.call /= own => called[own] = "over"
  BY <1>1, <1>5, StatusIsTrue
<1>7. UNCHANGED <<button, called, shown, own, today, post>>
  BY DEF ReadStatus, servicesServer
<1>8. ToldWasMade' /\ ListTakesTheAnswer'
  BY <1>7 DEF ServicesInv, ToldWasMade, ListTakesTheAnswer
<1>9. \A p \in questions' : p.clean /\ p.at = "read" =>
        \/ p \in questions
        \/ own /= 0 /\ p.answer.call /= own => called[own] = "over"
  BY <1>3, <1>6
<1>10. questions' \subseteq Asked
  BY <1>1, <1>3, <1>5
<1> QED BY <1>1, <1>7, <1>8, <1>9, <1>10, QuestionsChange

\* Questions that are done with leave; a list that did not take their answer shows what
\* it showed.
LEMMA QuestionGoes ==
  ASSUME ServicesInv, questions' \subseteq questions, shown' \in Status,
         button.place = "list" /\ today /\ own /= 0 /\ shown'.call /= own
             => called[own] = "over",
         UNCHANGED <<button, called, post, today, own>>
  PROVE  ServicesInv'
<1>1. ServicesTypes' /\ CleanIsLater'
  BY DEF ServicesInv, ServicesTypes, CleanIsLater
<1>2. OneActive' /\ CallStaysShown'
  BY DEF ServicesInv, OneActive, ActiveCall, CallStaysShown
<1>3. ToldWasMade' /\ ListTakesTheAnswer'
  BY DEF ServicesInv, ToldWasMade, ListTakesTheAnswer
<1> QED BY <1>1, <1>2, <1>3 DEF ServicesInv

LEMMA AnswerStepOfButton ==
  ASSUME ServicesInv, NEW q \in questions, TakeStatus(q) \/ LoseStatus(q)
  PROVE  ServicesInv'
<1>1. /\ q \in Asked /\ shown \in Status /\ CallStaysShown /\ CleanIsLater
      /\ questions' \subseteq questions /\ UNCHANGED <<button, called, post, today, own>>
  BY DEF ServicesInv, ServicesTypes, TakeStatus, LoseStatus, servicesServer
<1>2. CASE TakeStatus(q)
  <2>1. q.answer \in Status /\ q.at = "read"
    BY <1>1, <1>2 DEF Asked, TakeStatus
  <2>2. CASE SnapshotIsCurrent(q)
    <3>1. shown' = q.answer /\ (button.place = "list" => q.clean)
      BY <1>2, <2>2 DEF TakeStatus, SnapshotIsCurrent
    <3>2. button.place = "list" /\ own /= 0 /\ shown'.call /= own => called[own] = "over"
      BY <1>1, <2>1, <3>1 DEF CleanIsLater
    <3> QED BY <1>1, <2>1, <3>1, <3>2, QuestionGoes
  <2>3. CASE ~SnapshotIsCurrent(q)
    BY <1>1, <1>2, <2>3, QuestionGoes DEF TakeStatus, CallStaysShown
  <2> QED BY <2>2, <2>3
<1>3. CASE LoseStatus(q)
  <2>1. CASE button = [place |-> "success", service |-> "waiter"]
    <3>1. shown' = NoStatus /\ button.place /= "list"
      BY <1>3, <2>1 DEF LoseStatus
    <3>2. NoStatus \in Status
      BY DEF NoStatus, Status
    <3> QED BY <1>1, <3>1, <3>2, QuestionGoes
  <2>2. CASE button /= [place |-> "success", service |-> "waiter"]
    BY <1>1, <1>3, <2>2, QuestionGoes DEF LoseStatus, CallStaysShown
  <2> QED BY <2>1, <2>2
<1> QED BY <1>2, <1>3

LEMMA PressStepOfButton ==
  ASSUME ServicesInv, Press
  PROVE  ServicesInv'
<1>1. questions \subseteq Asked /\ post \in Post
  BY DEF ServicesInv, ServicesTypes
<1>2. /\ questions' = Mutated /\ post' = [NotPosted EXCEPT !.at = "sent"]
      /\ UNCHANGED <<button, called, shown, own, today>>
  BY DEF Press, servicesServer
<1>3. post' \in Post /\ post'.at = "sent"
  BY <1>2 DEF NotPosted, Post, NoStatus, Status
<1>4. ToldWasMade' /\ ListTakesTheAnswer'
  BY <1>2, <1>3 DEF ServicesInv, ToldWasMade, ListTakesTheAnswer
<1>5. questions' \subseteq Asked /\ \A q \in questions' : ~q.clean
  BY <1>1, <1>2, MutatedIsUnclean
<1> QED BY <1>2, <1>3, <1>4, <1>5, QuestionsChange

LEMMA CreateStepOfButton ==
  ASSUME ServicesInv, CreateFromGuest
  PROVE  ServicesInv'
<1>1. /\ ServicesTypes /\ OneActive /\ ToldWasMade /\ CleanIsLater /\ CallStaysShown
      /\ own \in Called \cup {0}
      /\ UNCHANGED <<button, today, shown, questions, own>>
  BY DEF ServicesInv, ServicesTypes, CreateFromGuest
<1>2. PICK k \in Called :
        /\ MakeCall(k)
        /\ post' = [at |-> "made",
                    answer |-> [known |-> TRUE, canCall |-> button.service = "waiter",
                                call |-> k, as |-> called'[k]]]
  BY DEF CreateFromGuest
<1>3. /\ called' \in [Called -> Active \cup {"none", "over"}]
      /\ \A j \in Called : called[j] /= "none" => called'[j] /= "none"
      /\ \A j \in Called : called[j] = "over" => called'[j] = "over"
      /\ OneActive'
      /\ called'[k] \in Active
  BY <1>1, <1>2, OneIsMade
<1>4. post' \in Post /\ post'.at = "made" /\ post'.answer.call = k
  <2>1. (button.service = "waiter") \in BOOLEAN
    OBVIOUS
  <2> QED BY <1>2, <1>3, <2>1 DEF Post, Status
<1>5. ServicesTypes'
  BY <1>1, <1>3, <1>4 DEF ServicesTypes
<1>6. ToldWasMade' /\ ListTakesTheAnswer'
  BY <1>1, <1>3, <1>4 DEF ToldWasMade, ListTakesTheAnswer, Active
<1>7. CleanIsLater' /\ CallStaysShown'
  BY <1>1, <1>3 DEF CleanIsLater, CallStaysShown
<1> QED BY <1>3, <1>5, <1>6, <1>7 DEF ServicesInv

\* The call is told and shown at once, and what was asked before no longer counts.
LEMMA ToldStep ==
  ASSUME ServicesInv, Told
  PROVE  ServicesInv'
<1>1. /\ ServicesTypes /\ OneActive /\ ToldWasMade /\ questions \subseteq Asked
      /\ post \in Post /\ post.at = "made"
      /\ shown' = post.answer /\ own' = post.answer.call
      /\ post' = NotPosted /\ questions' = Mutated /\ UNCHANGED <<button, called, today>>
  BY DEF ServicesInv, ServicesTypes, Told, servicesServer
<1>2. /\ shown' \in Status /\ shown'.call = own'
      /\ own' \in Called /\ called[own'] /= "none"
  BY <1>1 DEF ToldWasMade, Post
<1>3. questions' \subseteq Asked /\ \A q \in questions' : ~q.clean
  BY <1>1, MutatedIsUnclean
<1>4. post' \in Post /\ post'.at = "idle"
  BY <1>1 DEF NotPosted, Post, NoStatus, Status
<1>5. ServicesTypes'
  BY <1>1, <1>2, <1>3, <1>4 DEF ServicesTypes
<1>6. OneActive' /\ ToldWasMade' /\ ListTakesTheAnswer'
  BY <1>1, <1>2, <1>4 DEF OneActive, ActiveCall, ToldWasMade, ListTakesTheAnswer
<1>7. CleanIsLater' /\ CallStaysShown'
  BY <1>2, <1>3 DEF CleanIsLater, CallStaysShown
<1> QED BY <1>5, <1>6, <1>7 DEF ServicesInv

\* The older button of the waiter.
LEMMA OlderButtonStep ==
  ASSUME ServicesInv, AskAfterCall \/ ReadAfterCall \/ ToldAfterCall
  PROVE  ServicesInv'
<1>1. /\ ServicesTypes /\ OneActive /\ ToldWasMade /\ ListTakesTheAnswer
      /\ post \in Post /\ own \in Called \cup {0} /\ shown \in Status
      /\ UNCHANGED <<button, called, today, questions>>
  BY DEF ServicesInv, ServicesTypes, AskAfterCall, ReadAfterCall, ToldAfterCall, servicesServer
<1>2. button.place /= "list"
  <2>1. CASE AskAfterCall
    BY <2>1 DEF AskAfterCall
  <2>2. CASE ReadAfterCall \/ ToldAfterCall
    <3>1. post.at \in {"ask", "told"}
      BY <2>2 DEF ReadAfterCall, ToldAfterCall
    <3> QED BY <1>1, <3>1 DEF ListTakesTheAnswer
  <2> QED BY <2>1, <2>2
<1>3. /\ own' \in Called \cup {0} /\ (own' /= 0 => called[own'] /= "none")
      /\ shown' \in Status /\ post' \in Post /\ post'.at /= "made"
  <2>1. CASE AskAfterCall
    BY <1>1, <2>1 DEF AskAfterCall, ToldWasMade, Post, NotPosted, NoStatus, Status
  <2>2. CASE ReadAfterCall
    <3>1. post' = [at |-> "told", answer |-> GuestStatus(FALSE)]
      BY <2>2 DEF ReadAfterCall
    <3>2. post' \in Post /\ post'.at /= "made"
      BY <1>1, <3>1, StatusIsTrue DEF Post
    <3> QED BY <1>1, <2>2, <3>2 DEF ReadAfterCall, ToldWasMade
  <2>3. CASE ToldAfterCall
    BY <1>1, <2>3 DEF ToldAfterCall, ToldWasMade, Post, NotPosted, NoStatus, Status
  <2> QED BY <2>1, <2>2, <2>3
<1>4. ServicesTypes'
  BY <1>1, <1>3 DEF ServicesTypes
<1>5. OneActive' /\ ToldWasMade'
  BY <1>1, <1>3 DEF OneActive, ActiveCall, ToldWasMade
<1>6. ListTakesTheAnswer' /\ CleanIsLater' /\ CallStaysShown'
  BY <1>1, <1>2 DEF ListTakesTheAnswer, CleanIsLater, CallStaysShown
<1> QED BY <1>4, <1>5, <1>6 DEF ServicesInv

LEMMA CallFailsStep ==
  ASSUME ServicesInv, CallFails
  PROVE  ServicesInv'
<1>1. /\ post' = NotPosted
      /\ UNCHANGED <<button, called, shown, own, today, questions>>
  BY DEF CallFails, servicesServer
<1>2. post' \in Post /\ post'.at = "idle"
  BY <1>1 DEF NotPosted, Post, NoStatus, Status
<1>3. ToldWasMade' /\ ListTakesTheAnswer' /\ questions' \subseteq Asked
  BY <1>1, <1>2 DEF ServicesInv, ServicesTypes, ToldWasMade, ListTakesTheAnswer
<1> QED BY <1>1, <1>2, <1>3, QuestionsChange

LEMMA NextDayStep ==
  ASSUME ServicesInv, NextDay
  PROVE  ServicesInv'
<1>1. /\ ServicesTypes /\ questions \subseteq Asked
      /\ shown' = NoStatus /\ ~today' /\ questions' = Superseded
      /\ UNCHANGED <<button, called, post, own>>
  BY DEF ServicesInv, ServicesTypes, NextDay, servicesServer
<1>2. shown' \in Status
  BY <1>1 DEF NoStatus, Status
<1>3. questions' \subseteq Asked
  BY <1>1, SupersededAnswers
<1>4. ServicesTypes'
  BY <1>1, <1>2, <1>3 DEF ServicesTypes
<1>5. CleanIsLater'
  <2> SUFFICES ASSUME NEW q \in questions', button.place = "list", q.clean, q.at = "read",
                      own /= 0, q.answer.call /= own
               PROVE  called[own] = "over"
    BY <1>1 DEF CleanIsLater
  <2> PICK p \in questions : p.clean = q.clean /\ p.at = q.at /\ p.answer = q.answer
    BY <1>1, SupersededAnswers
  <2> QED BY DEF ServicesInv, CleanIsLater
<1>6. OneActive' /\ CallStaysShown' /\ ToldWasMade' /\ ListTakesTheAnswer'
  BY <1>1 DEF ServicesInv, OneActive, ActiveCall, CallStaysShown, ToldWasMade,
              ListTakesTheAnswer
<1> QED BY <1>4, <1>5, <1>6 DEF ServicesInv

LEMMA ServicesStep ==
  ASSUME ServicesInv, [ServicesNext]_servicesVars
  PROVE  ServicesInv'
<1>1. CASE \/ ChangeVisit \/ CallElsewhere \/ (\E k \in Called : ServeCall(k))
           \/ (\E q \in questions : ExpireOverdue(q))
  BY <1>1, ServerStep
<1>2. CASE Press  BY <1>2, PressStepOfButton
<1>3. CASE CreateFromGuest  BY <1>3, CreateStepOfButton
<1>4. CASE Told  BY <1>4, ToldStep
<1>5. CASE AskAfterCall \/ ReadAfterCall \/ ToldAfterCall  BY <1>5, OlderButtonStep
<1>6. CASE CallFails  BY <1>6, CallFailsStep
<1>7. CASE NextDay  BY <1>7, NextDayStep
<1>8. CASE LoadStatus  BY <1>8, LoadStatusStep
<1>9. CASE \E q \in questions : ReadStatus(q)  BY <1>9, ReadStatusStep
<1>10. CASE \E q \in questions : TakeStatus(q) \/ LoseStatus(q)
  BY <1>10, AnswerStepOfButton
<1>11. CASE UNCHANGED servicesVars
  BY <1>11
     DEF ServicesInv, ServicesTypes, OneActive, ActiveCall, ToldWasMade, CleanIsLater,
         ListTakesTheAnswer, CallStaysShown, servicesVars, servicesServer, servicesPage
<1> QED BY <1>1, <1>2, <1>3, <1>4, <1>5, <1>6, <1>7, <1>8, <1>9, <1>10, <1>11
       DEF ServicesNext

LEMMA ServicesAlways == ServicesSpec => []ServicesInv
BY ServicesBegin, ServicesStep, PTL DEF ServicesSpec

\* A call that the list of bookings told of stays there until it is over, for any number
\* of calls, of visits, and of questions under way, answered in any order.
THEOREM CallsStayShown == ServicesSpec => []CallStaysShown
<1>1. ServicesInv => CallStaysShown
  BY DEF ServicesInv
<1> QED BY <1>1, ServicesAlways, PTL

-----------------------------------------------------------------------------
(* Sets of numbers *)

\* A bounded set of numbers has a greatest one: otherwise the numbers below its members
\* would be a finite set with as many members as it has without zero.
LEMMA GreatestOf ==
  ASSUME NEW n \in Nat, NEW S, S \subseteq 0..n, S /= {}
  PROVE  Max(S) \in S /\ \A y \in S : Max(S) >= y
<1>1. \E x \in S : \A y \in S : x >= y
  <2> SUFFICES ASSUME \A x \in S : \E y \in S : y > x
               PROVE  FALSE
    OBVIOUS
  <2> DEFINE A == {i \in 0..n : \E s \in S : s >= i}
             B == A \ {0}
             next == [i \in A |-> i + 1]
  <2>1. 0 \in A
    <3>1. PICK s \in S : TRUE
      OBVIOUS
    <3>2. s >= 0
      OBVIOUS
    <3> QED BY <3>2
  <2>2. \A i \in A : i + 1 \in B
    OBVIOUS
  <2>3. A \subseteq 0..n
    OBVIOUS
  <2> HIDE DEF A
  <2>4. IsFiniteSet(A) /\ IsFiniteSet(B)
    <3>1. IsFiniteSet(0..n)
      BY FS_Interval
    <3>2. IsFiniteSet(A)
      BY <2>3, <3>1, FS_Subset
    <3> QED BY <3>2, FS_Subset
  <2>5. next \in Injection(A, B)
    BY <2>2, <2>3 DEF Injection, IsInjective
  <2>6. Cardinality(A) <= Cardinality(B)
    BY <2>4, <2>5, FS_Injection
  <2>7. Cardinality(A) \in Nat /\ Cardinality(B) = Cardinality(A) - 1
    BY <2>1, <2>4, FS_RemoveElement, FS_CardinalityType
  <2> QED BY <2>6, <2>7
<1> QED BY <1>1 DEF Max

LEMMA LeastOf ==
  ASSUME NEW S, S \subseteq Nat, S /= {}
  PROVE  Min(S) \in S /\ \A y \in S : Min(S) <= y
<1>1. PICK n \in S : TRUE
  OBVIOUS
<1> DEFINE T == {n - x : x \in {y \in S : y <= n}}
<1>2. T \subseteq 0..n /\ T /= {}
  BY <1>1
<1>3. PICK t \in T : \A y \in T : t >= y
  BY <1>2, GreatestOf
<1>4. PICK x \in S : x <= n /\ t = n - x
  OBVIOUS
<1>5. ASSUME NEW y \in S PROVE x <= y
  <2>1. CASE y <= n
    <3>1. n - y \in T
      BY <2>1
    <3>2. t >= n - y
      BY <1>3, <3>1
    <3>3. n \in Nat /\ x \in Nat /\ y \in Nat
      OBVIOUS
    <3> HIDE DEF T
    <3> QED BY <1>4, <3>2, <3>3
  <2>2. CASE ~(y <= n)
    BY <1>4, <2>2
  <2> QED BY <2>1, <2>2
<1> QED BY <1>5 DEF Min

-----------------------------------------------------------------------------
(* The notices *)

NoticesTypes ==
    /\ noteOf \in [Noted -> Number]
    /\ \E n \in Number : Written = 1..n
    /\ \A n \in Written : notes[n] \in [booking : Noted, kind : Kind]
    /\ readNotes \subseteq Written
    /\ loads \subseteq Load
    /\ decision \in Number
    /\ acking \in [note : Number, at : {"no", "sent", "done"}]

\* Whatever names a notice names one that was written.
NamesAreWritten ==
    /\ \A b \in Noted : noteOf[b] \in Written \cup {0}
    /\ decision \in Written \cup {0}
    /\ acking.at /= "no" => acking.note \in Written

\* What an endpoint told of is of its own kind.
TellsOf(reply, kind) ==
    reply.note /= 0 =>
        /\ reply.said = "told"
        /\ reply.note \in Written /\ notes[reply.note].kind = kind
ToldOfOwnKind ==
    \A p \in loads : TellsOf(p.list, "table_change") /\ TellsOf(p.notices, "no_show")

NoticesInv == NoticesTypes /\ NamesAreWritten /\ ToldOfOwnKind
-----------------------------------------------------------------------------
LEMMA NoticesBegin == NoticesInit => NoticesInv
<1> SUFFICES ASSUME NoticesInit PROVE NoticesInv
  OBVIOUS
<1>1. Written = {} /\ 0 \in Number /\ Written = 1..0
  BY NoticesAssumption DEF NoticesInit, Written, Number
<1>2. NoticesTypes
  BY <1>1 DEF NoticesInit, NoticesTypes
<1>3. NamesAreWritten /\ ToldOfOwnKind
  BY DEF NoticesInit, NamesAreWritten, ToldOfOwnKind
<1> QED BY <1>2, <1>3 DEF NoticesInv

\* The first decision to show, and the latest cancellation, are notices of their kind.
LEMMA TellsTruth ==
  ASSUME NoticesInv
  PROVE  /\ FirstDecided \in Number /\ LatestNoShow \in Number
         /\ FirstDecided /= 0 =>
              FirstDecided \in Written /\ notes[FirstDecided].kind = "table_change"
         /\ LatestNoShow /= 0 =>
              LatestNoShow \in Written /\ notes[LatestNoShow].kind = "no_show"
<1>1. /\ noteOf \in [Noted -> Number] /\ Noted \subseteq Nat
      /\ \A b \in Noted : noteOf[b] \in Written \cup {0}
      /\ Number = 0..MaxNotes /\ MaxNotes \in Nat
  BY NoticesAssumption DEF NoticesInv, NoticesTypes, NamesAreWritten, Number
<1>2. ASSUME NEW kind, NEW b \in Unread(kind)
      PROVE  /\ b \in Noted /\ noteOf[b] \in Number
             /\ noteOf[b] \in Written /\ notes[noteOf[b]].kind = kind
  BY <1>1, <1>2 DEF Unread
<1>3. /\ FirstDecided \in Number
      /\ FirstDecided /= 0 =>
           FirstDecided \in Written /\ notes[FirstDecided].kind = "table_change"
  <2>1. CASE Unread("table_change") = {}
    BY <1>1, <2>1 DEF FirstDecided
  <2>2. CASE Unread("table_change") /= {}
    <3>1. Unread("table_change") \subseteq Nat
      BY <1>1 DEF Unread
    <3>2. Min(Unread("table_change")) \in Unread("table_change")
      BY <2>2, <3>1, LeastOf
    <3>3. FirstDecided = noteOf[Min(Unread("table_change"))]
      BY <2>2 DEF FirstDecided
    <3> QED BY <1>2, <3>2, <3>3
  <2> QED BY <2>1, <2>2
<1>4. /\ LatestNoShow \in Number
      /\ LatestNoShow /= 0 =>
           LatestNoShow \in Written /\ notes[LatestNoShow].kind = "no_show"
  <2> DEFINE cancelled == {noteOf[b] : b \in Unread("no_show")}
  <2>1. cancelled \cup {0} \subseteq 0..MaxNotes /\ cancelled \cup {0} /= {}
    BY <1>1, <1>2
  <2>2. Max(cancelled \cup {0}) \in cancelled \cup {0}
    <3> HIDE DEF cancelled
    <3> QED BY <1>1, <2>1, GreatestOf
  <2>3. LatestNoShow \in cancelled \cup {0}
    BY <2>2 DEF LatestNoShow
  <2>4. ASSUME LatestNoShow \in cancelled
        PROVE  /\ LatestNoShow \in Number
               /\ LatestNoShow \in Written /\ notes[LatestNoShow].kind = "no_show"
    <3> PICK b \in Unread("no_show") : LatestNoShow = noteOf[b]
      BY <2>4
    <3> QED BY <1>2
  <2> HIDE DEF cancelled
  <2> QED BY <1>1, <2>3, <2>4
<1> QED BY <1>3, <1>4

\* A new notice has a number of its own, and the others stay what they are.
LEMMA WriteStep ==
  ASSUME NoticesInv, NEW b \in Noted, NEW kind \in Kind, Write(b, kind)
  PROVE  NoticesInv'
<1> DEFINE n == Cardinality(Written) + 1
<1>1. /\ n <= MaxNotes
      /\ notes' = [m \in Written \cup {n} |->
                      IF m = n THEN [booking |-> b, kind |-> kind] ELSE notes[m]]
      /\ noteOf' = [noteOf EXCEPT ![b] = n]
      /\ UNCHANGED <<readNotes, loads, decision, acking>>
  BY DEF Write, noticesPage
<1>2. PICK k \in Number : Written = 1..k
  BY DEF NoticesInv, NoticesTypes
<1>3. n = k + 1 /\ k \in Nat /\ Written = 1..k
  <2>1. k \in Nat
    BY NoticesAssumption DEF Number
  <2>2. Cardinality(1..k) = k
    BY <2>1, FS_Interval
  <2> QED BY <1>2, <2>1, <2>2
<1> HIDE DEF n
<1>4. Written' = Written \cup {n}
  BY <1>1 DEF Written
<1>5. /\ n \notin Written /\ n \in Number /\ Written' = 1..n
      /\ n /= 0
  BY <1>1, <1>3, <1>4, NoticesAssumption DEF Number
<1>6. /\ \A m \in Written : notes'[m] = notes[m]
      /\ notes'[n] = [booking |-> b, kind |-> kind]
  BY <1>1, <1>5
<1>7. /\ noteOf \in [Noted -> Number] /\ readNotes \subseteq Written
      /\ loads \subseteq Load /\ decision \in Number
      /\ acking \in [note : Number, at : {"no", "sent", "done"}]
      /\ \A m \in Written : notes[m] \in [booking : Noted, kind : Kind]
  BY DEF NoticesInv, NoticesTypes
<1>8. NoticesTypes'
  <2>1. \E j \in Number : Written' = 1..j
    BY <1>5
  <2>2. \A m \in Written' : notes'[m] \in [booking : Noted, kind : Kind]
    BY <1>4, <1>6, <1>7
  <2>3. noteOf' \in [Noted -> Number] /\ readNotes' \subseteq Written'
    BY <1>1, <1>4, <1>5, <1>7
  <2> QED BY <1>1, <1>7, <2>1, <2>2, <2>3 DEF NoticesTypes, Number, Load, Reply
<1>9. NamesAreWritten'
  BY <1>1, <1>4, <1>7 DEF NoticesInv, NamesAreWritten
<1>10. ToldOfOwnKind'
  BY <1>1, <1>4, <1>6 DEF NoticesInv, ToldOfOwnKind, TellsOf
<1> QED BY <1>8, <1>9, <1>10 DEF NoticesInv

\* The notices are those there are, and only what refers to them changes.
LEMMA ReferencesChange ==
  ASSUME NoticesInv, notes' = notes,
         noteOf' \in [Noted -> Number], \A b \in Noted : noteOf'[b] \in Written \cup {0},
         readNotes' \subseteq Written,
         decision' \in Number, decision' \in Written \cup {0},
         acking' \in [note : Number, at : {"no", "sent", "done"}],
         acking'.at /= "no" => acking'.note \in Written,
         loads' \subseteq Load,
         \A p \in loads' : TellsOf(p.list, "table_change") /\ TellsOf(p.notices, "no_show")
  PROVE  NoticesInv'
<1>1. Written' = Written
  BY DEF Written
<1>2. NoticesTypes'
  BY <1>1 DEF NoticesInv, NoticesTypes
<1>3. NamesAreWritten' /\ ToldOfOwnKind'
  BY <1>1 DEF NamesAreWritten, ToldOfOwnKind, TellsOf
<1> QED BY <1>2, <1>3 DEF NoticesInv

LEMMA AsTheyAre ==
  ASSUME NoticesInv
  PROVE  /\ noteOf \in [Noted -> Number] /\ \A b \in Noted : noteOf[b] \in Written \cup {0}
         /\ readNotes \subseteq Written
         /\ decision \in Number /\ decision \in Written \cup {0}
         /\ acking \in [note : Number, at : {"no", "sent", "done"}]
         /\ acking.at /= "no" => acking.note \in Written
         /\ loads \subseteq Load /\ 0 \in Number
         /\ \A p \in loads : TellsOf(p.list, "table_change") /\ TellsOf(p.notices, "no_show")
         /\ \A m \in Written : notes[m] \in [booking : Noted, kind : Kind] /\ m /= 0
<1>1. PICK n \in Number : Written = 1..n
  BY DEF NoticesInv, NoticesTypes
<1>2. \A m \in Written : m /= 0
  BY <1>1, NoticesAssumption DEF Number
<1> QED BY <1>2, NoticesAssumption
       DEF NoticesInv, NoticesTypes, NamesAreWritten, ToldOfOwnKind, Number

LEMMA ServerOfNoticesStep ==
  ASSUME NoticesInv,
         NEW b \in Noted, Withdraw(b) \/ AcknowledgeElsewhere(b)
  PROVE  NoticesInv'
<1>1. UNCHANGED <<notes, loads, decision, acking>>
  BY DEF Withdraw, AcknowledgeElsewhere, noticesPage
<1>2. /\ noteOf' \in [Noted -> Number] /\ \A c \in Noted : noteOf'[c] \in Written \cup {0}
      /\ readNotes' \subseteq Written
  BY AsTheyAre DEF Withdraw, AcknowledgeElsewhere
<1> QED BY <1>1, <1>2, AsTheyAre, ReferencesChange

LEMMA PollStep ==
  ASSUME NoticesInv,
         AskNotices \/ (\E p \in loads : AnswerList(p) \/ AnswerNotices(p) \/ TakeLoad(p))
  PROVE  NoticesInv'
<1>1. UNCHANGED <<notes, noteOf, readNotes, acking>>
  BY DEF AskNotices, AnswerList, AnswerNotices, TakeLoad, noticesServer
<1>2. /\ Waiting \in Reply /\ Failed \in Reply /\ Waiting.note = 0 /\ Failed.note = 0
  BY AsTheyAre DEF Waiting, Failed, Reply
<1>3. CASE AskNotices
  <2>1. loads' = loads \cup {[list |-> Waiting, notices |-> Waiting]} /\ decision' = decision
    BY <1>3 DEF AskNotices
  <2>2. loads' \subseteq Load
    BY <1>2, <2>1, AsTheyAre DEF Load
  <2>3. \A p \in loads' : TellsOf(p.list, "table_change") /\ TellsOf(p.notices, "no_show")
    BY <1>2, <2>1, AsTheyAre DEF TellsOf
  <2> QED BY <1>1, <2>1, <2>2, <2>3, AsTheyAre, ReferencesChange
<1>4. ASSUME NEW p \in loads, AnswerList(p)
      PROVE  NoticesInv'
  <2>1. PICK reply \in {[said |-> "told", note |-> FirstDecided], Failed} :
          loads' = (loads \ {p}) \cup {[p EXCEPT !.list = reply]}
    BY <1>4 DEF AnswerList
  <2>2. reply \in Reply /\ TellsOf(reply, "table_change")
    BY <1>2, <2>1, TellsTruth DEF Reply, TellsOf
  <2> DEFINE q == [p EXCEPT !.list = reply]
  <2>3. q \in Load /\ q.list = reply /\ q.notices = p.notices
    BY <2>2, AsTheyAre DEF Load
  <2>4. loads' = (loads \ {p}) \cup {q} /\ decision' = decision
    BY <1>4, <2>1 DEF AnswerList
  <2> HIDE DEF q
  <2>5. loads' \subseteq Load
    BY <2>3, <2>4, AsTheyAre
  <2>6. \A o \in loads' : TellsOf(o.list, "table_change") /\ TellsOf(o.notices, "no_show")
    BY <2>2, <2>3, <2>4, AsTheyAre
  <2> QED BY <1>1, <2>4, <2>5, <2>6, AsTheyAre, ReferencesChange
<1>5. ASSUME NEW p \in loads, AnswerNotices(p)
      PROVE  NoticesInv'
  <2>1. PICK reply \in {[said |-> "told", note |-> LatestNoShow], Failed} :
          loads' = (loads \ {p}) \cup {[p EXCEPT !.notices = reply]}
    BY <1>5 DEF AnswerNotices
  <2>2. reply \in Reply /\ TellsOf(reply, "no_show")
    BY <1>2, <2>1, TellsTruth DEF Reply, TellsOf
  <2> DEFINE q == [p EXCEPT !.notices = reply]
  <2>3. q \in Load /\ q.list = p.list /\ q.notices = reply
    BY <2>2, AsTheyAre DEF Load
  <2>4. loads' = (loads \ {p}) \cup {q} /\ decision' = decision
    BY <1>5, <2>1 DEF AnswerNotices
  <2> HIDE DEF q
  <2>5. loads' \subseteq Load
    BY <2>3, <2>4, AsTheyAre
  <2>6. \A o \in loads' : TellsOf(o.list, "table_change") /\ TellsOf(o.notices, "no_show")
    BY <2>2, <2>3, <2>4, AsTheyAre
  <2> QED BY <1>1, <2>4, <2>5, <2>6, AsTheyAre, ReferencesChange
<1>6. ASSUME NEW p \in loads, TakeLoad(p)
      PROVE  NoticesInv'
  <2>1. decision' = Decide(p, decision) /\ loads' = loads \ {p}
    BY <1>6 DEF TakeLoad
  <2>2. p.list \in Reply /\ p.notices \in Reply
    BY AsTheyAre DEF Load
  <2>3. decision' \in Number /\ decision' \in Written \cup {0}
    BY <2>1, <2>2, AsTheyAre DEF Decide, TellsOf, Reply
  <2>4. loads' \subseteq Load
    BY <2>1, AsTheyAre
  <2>5. \A o \in loads' : TellsOf(o.list, "table_change") /\ TellsOf(o.notices, "no_show")
    BY <2>1, AsTheyAre
  <2> QED BY <1>1, <2>3, <2>4, <2>5, AsTheyAre, ReferencesChange
<1> QED BY <1>3, <1>4, <1>5, <1>6

LEMMA AcknowledgeStep ==
  ASSUME NoticesInv, Acknowledge \/ Acknowledged \/ AcknowledgeDone \/ AcknowledgeLost
  PROVE  NoticesInv'
<1>1. UNCHANGED <<notes, noteOf, loads>>
  BY DEF Acknowledge, Acknowledged, AcknowledgeDone, AcknowledgeLost, noticesServer
<1>2. readNotes' \subseteq Written
  <2>1. CASE Acknowledged
    <3>1. acking.note \in Written
      BY <2>1, AsTheyAre DEF Acknowledged
    <3>2. notes[acking.note].booking \in Noted
      BY <3>1, AsTheyAre
    <3>3. noteOf[notes[acking.note].booking] \in Written \cup {0}
      BY <3>2, AsTheyAre
    <3> QED BY <2>1, <3>3, AsTheyAre DEF Acknowledged, Marked
  <2>2. CASE Acknowledge \/ AcknowledgeDone \/ AcknowledgeLost
    BY <2>2, AsTheyAre DEF Acknowledge, AcknowledgeDone, AcknowledgeLost, noticesServer
  <2> QED BY <2>1, <2>2
<1>3. decision' \in Number /\ decision' \in Written \cup {0}
  BY AsTheyAre DEF Acknowledge, Acknowledged, AcknowledgeDone, AcknowledgeLost
<1>4. /\ acking' \in [note : Number, at : {"no", "sent", "done"}]
      /\ acking'.at /= "no" => acking'.note \in Written
  <2>1. CASE Acknowledge
    BY <2>1, AsTheyAre DEF Acknowledge
  <2>2. CASE Acknowledged
    BY <2>2, AsTheyAre DEF Acknowledged
  <2>3. CASE AcknowledgeDone \/ AcknowledgeLost
    BY <2>3, AsTheyAre DEF AcknowledgeDone, AcknowledgeLost
  <2> QED BY <2>1, <2>2, <2>3
<1> QED BY <1>1, <1>2, <1>3, <1>4, AsTheyAre, ReferencesChange

LEMMA NoticesStep ==
  ASSUME NoticesInv, [NoticesNext]_noticesVars
  PROVE  NoticesInv'
<1>1. CASE \E b \in Noted : Withdraw(b) \/ AcknowledgeElsewhere(b)
  BY <1>1, ServerOfNoticesStep
<1>2. CASE \E b \in Noted, kind \in Kind : Write(b, kind)
  BY <1>2, WriteStep
<1>3. CASE AskNotices \/ (\E p \in loads : AnswerList(p) \/ AnswerNotices(p) \/ TakeLoad(p))
  BY <1>3, PollStep
<1>4. CASE Acknowledge \/ Acknowledged \/ AcknowledgeDone \/ AcknowledgeLost
  BY <1>4, AcknowledgeStep
<1>5. CASE ReloadNotices
  <2>1. /\ UNCHANGED <<notes, noteOf, readNotes>> /\ decision' = 0 /\ loads' = {}
        /\ acking' = [note |-> 0, at |-> "no"]
    BY <1>5 DEF ReloadNotices, noticesServer
  <2> QED BY <2>1, AsTheyAre, ReferencesChange
<1>6. CASE UNCHANGED noticesVars
  <2>1. UNCHANGED <<notes, noteOf, readNotes, decision, loads, acking>>
    BY <1>6 DEF noticesVars, noticesServer, noticesPage
  <2> QED BY <2>1, AsTheyAre, ReferencesChange
<1> QED BY <1>1, <1>2, <1>3, <1>4, <1>5, <1>6 DEF NoticesNext

LEMMA NoticesAlways == NoticesSpec => []NoticesInv
BY NoticesBegin, NoticesStep, PTL DEF NoticesSpec

\* A poll takes a notice away only when its own endpoint has told otherwise.
LEMMA OnlyItsOwnEndpoint ==
  ASSUME NoticesInv, NEW p \in loads, TakeLoad(p), decision \notin {0, decision'}
  PROVE  IF IsNoShow(decision) \/ IsNoShow(decision')
         THEN p.notices.said = "told"
         ELSE p.list.said = "told"
<1>1. /\ p.list \in Reply /\ p.notices \in Reply
      /\ TellsOf(p.list, "table_change") /\ TellsOf(p.notices, "no_show")
  BY AsTheyAre DEF Load
<1>2. /\ p.list.said \in {"told", "failed"} /\ p.notices.said \in {"told", "failed"}
      /\ decision' = Decide(p, decision)
  BY <1>1 DEF TakeLoad, Settled, Reply
<1>3. CASE p.notices.note /= 0
  BY <1>1, <1>2, <1>3 DEF Decide, TellsOf, IsNoShow
<1>4. CASE p.notices.note = 0 /\ p.list.note = 0
  BY <1>2, <1>4 DEF Decide
<1>5. CASE p.notices.note = 0 /\ p.list.note /= 0
  <2>1. ~(p.notices.said = "failed" /\ IsNoShow(decision)) /\ decision' = p.list.note
    BY <1>2, <1>5 DEF Decide
  <2>2. ~IsNoShow(decision') /\ p.list.said = "told"
    BY <1>1, <1>5, <2>1 DEF TellsOf, IsNoShow
  <2> QED BY <1>2, <2>1, <2>2
<1> QED BY <1>3, <1>4, <1>5

\* A notice stays until it is read or its own endpoint tells otherwise, for any number of
\* bookings, of notices and of polls under way.
THEOREM NoticesStay == NoticesSpec => NoticeStays
<1> DEFINE Stays ==
      \/ decision \in {0, decision'} \/ ReloadNotices \/ AcknowledgeDone
      \/ \E p \in loads :
           /\ TakeLoad(p)
           /\ IF IsNoShow(decision) \/ IsNoShow(decision')
              THEN p.notices.said = "told"
              ELSE p.list.said = "told"
<1>1. ASSUME NoticesInv, [NoticesNext]_noticesVars
      PROVE  [Stays]_noticesVars
  <2> SUFFICES ASSUME NoticesNext, decision \notin {0, decision'},
                      ~ReloadNotices, ~AcknowledgeDone
               PROVE  \E p \in loads :
                        /\ TakeLoad(p)
                        /\ IF IsNoShow(decision) \/ IsNoShow(decision')
                           THEN p.notices.said = "told"
                           ELSE p.list.said = "told"
    BY <1>1
  <2>1. ~(\E b \in Noted : Withdraw(b) \/ AcknowledgeElsewhere(b) \/ \E kind \in Kind : Write(b, kind))
    BY DEF Withdraw, AcknowledgeElsewhere, Write, noticesPage
  <2>2. ~AskNotices /\ ~Acknowledge /\ ~Acknowledged /\ ~AcknowledgeLost
    BY DEF AskNotices, Acknowledge, Acknowledged, AcknowledgeLost
  <2>3. ~(\E p \in loads : AnswerList(p) \/ AnswerNotices(p))
    BY DEF AnswerList, AnswerNotices
  <2>4. PICK p \in loads : TakeLoad(p)
    BY <2>1, <2>2, <2>3 DEF NoticesNext
  <2> QED BY <1>1, <2>4, OnlyItsOwnEndpoint
<1> QED BY <1>1, NoticesAlways, PTL DEF NoticesSpec, NoticeStays

-----------------------------------------------------------------------------
(* From a slot of the map to a booking *)

\* Names are given in order and only once, and what is bound to a slot is a table.
RowsAreCreated ==
    \A n \in Name : /\ n > created => tables[n] = NoRow
                    /\ tables[n].key /= 0 => Row(n)

\* A copy of a prepared map knows the slots of the tables that are still there.
CopyKnowsSlots ==
    /\ view.prepared => prepared
    /\ \A n \in Name : view.tables[n].key /= 0 =>
         /\ view.tables[n].number /= 0
         /\ view.prepared => /\ n <= created
                             /\ Row(n) => tables[n].key = view.tables[n].key

\* So does a choice made on it.
Knows(pick, list, made, ready) ==
    pick.bound => /\ ready /\ pick.name \in 1..made /\ pick.slot /= 0
                  /\ list[pick.name].number /= 0 => list[pick.name].key = pick.slot
ChoicesKnowSlots ==
    /\ Knows(picked, tables, created, prepared)
    /\ \A s \in Submit : Knows(submits[s].pick, tables, created, prepared)

ChoiceInv == ChoiceTypeOK /\ RowsAreCreated /\ CopyKnowsSlots /\ ChoicesKnowSlots
-----------------------------------------------------------------------------
LEMMA SlotsAndNumbers ==
  /\ Slot \subseteq Nat \ {0} /\ 1 \in Slot /\ Slot \subseteq Name /\ IsFiniteSet(Slot)
  /\ Numbers \subseteq Nat \ {0} /\ Spare \in Numbers
  /\ LocationOf[1] \in Location /\ \A s \in Slot : LocationOf[s] \in Location
  /\ Name = 1..MaxTables /\ MaxTables \in Nat /\ MaxChanges \in Nat
<1>1. PICK n \in 1..MaxTables : Slot = 1..n
  BY ChoiceAssumption
<1>2. IsFiniteSet(Slot)
  BY <1>1, FS_Interval, ChoiceAssumption
<1> QED BY <1>1, <1>2, ChoiceAssumption DEF Name, Numbers, Location

ServerTypes ==
    /\ tables \in [Name -> Table] /\ created \in 0..MaxTables
    /\ prepared \in BOOLEAN
    /\ zones \in [Location -> {"open", "closed", "none"}]
    /\ busy \subseteq Name /\ changes \in 0..MaxChanges
PageTypes == step \in Step /\ location \in Location /\ picked \in Pick /\ view \in View
SubmitTypes == submits \in [Submit -> Sent]

LEMMA TypesByPart == ChoiceTypeOK <=> ServerTypes /\ PageTypes /\ SubmitTypes
BY DEF ChoiceTypeOK, ServerTypes, PageTypes, SubmitTypes

LEMMA NothingTyped ==
  NoRow \in Table /\ NoPick \in Pick /\ NoView \in View /\ NotSent \in Sent
<1>1. NoRow \in Table
  BY DEF NoRow, Table
<1>2. NoPick \in Pick
  BY SlotsAndNumbers DEF NoPick, Pick
<1>3. NoView \in View
  BY <1>1 DEF NoView, View
<1>4. NotSent \in Sent
  BY <1>2, SlotsAndNumbers DEF NotSent, Sent
<1> QED BY <1>1, <1>2, <1>3, <1>4

LEMMA ChoiceBegins == ChoiceInit => ChoiceInv
<1> SUFFICES ASSUME ChoiceInit PROVE ChoiceInv
  OBVIOUS
<1>1. tables \in [Name -> Table]
  BY SlotsAndNumbers, NothingTyped DEF ChoiceInit, Table, Numbers
<1>2. ServerTypes /\ PageTypes /\ SubmitTypes
  BY <1>1, SlotsAndNumbers, NothingTyped
     DEF ChoiceInit, ServerTypes, PageTypes, SubmitTypes, Step, Name
<1>3. RowsAreCreated
  <2> SUFFICES ASSUME NEW n \in Name
               PROVE  /\ n > created => tables[n] = NoRow
                      /\ tables[n].key /= 0 => tables[n].number /= 0
    BY DEF RowsAreCreated, Row
  <2>1. CASE n \in Slot
    BY <2>1, SlotsAndNumbers DEF ChoiceInit, Name
  <2>2. CASE n \notin Slot
    BY <2>2, SlotsAndNumbers DEF ChoiceInit, NoRow
  <2> QED BY <2>1, <2>2
<1>4. CopyKnowsSlots
  BY DEF ChoiceInit, CopyKnowsSlots, NoView, NoRow
<1>5. ChoicesKnowSlots
  BY DEF ChoiceInit, ChoicesKnowSlots, Knows, NoPick, NotSent
<1> QED BY <1>2, <1>3, <1>4, <1>5, TypesByPart DEF ChoiceInv

\* What any step keeps of the tables of a prepared map: their slots.
TablesKept ==
    /\ prepared => prepared'
    /\ created <= created'
    /\ prepared => \A n \in 1..created :
         tables'[n].number /= 0 =>
             tables[n].number /= 0 /\ tables'[n].key = tables[n].key

LEMMA KnowledgeIsKept ==
  ASSUME ChoiceInv, TablesKept, created' \in 0..MaxTables,
         NEW pick \in Pick, Knows(pick, tables, created, prepared)
  PROVE  Knows(pick, tables', created', prepared')
BY DEF TablesKept, Knows, ChoiceInv, ChoiceTypeOK

LEMMA CopyIsKept ==
  ASSUME ChoiceInv, TablesKept, created' \in 0..MaxTables, view' = view
  PROVE  CopyKnowsSlots'
<1>1. /\ CopyKnowsSlots /\ created \in 0..MaxTables /\ MaxTables \in Nat
  BY SlotsAndNumbers DEF ChoiceInv, ChoiceTypeOK
<1> QED BY <1>1 DEF TablesKept, CopyKnowsSlots, Row, Name

\* The restaurant changes, and the page does not.
LEMMA RestaurantStep ==
  ASSUME ChoiceInv, TablesKept, ServerTypes', RowsAreCreated',
         UNCHANGED <<page, submits>>
  PROVE  ChoiceInv'
<1>1. /\ created' \in 0..MaxTables
      /\ UNCHANGED <<step, location, picked, view, submits>>
      /\ picked \in Pick /\ submits \in [Submit -> Sent]
  BY DEF ServerTypes, page, ChoiceInv, ChoiceTypeOK
<1>2. ChoiceTypeOK'
  BY <1>1 DEF ChoiceInv, ChoiceTypeOK, ServerTypes
<1>3. \A s \in Submit : submits[s].pick \in Pick
  BY <1>1 DEF Sent
<1>4. ChoicesKnowSlots'
  BY <1>1, <1>3, KnowledgeIsKept DEF ChoiceInv, ChoicesKnowSlots
<1> QED BY <1>1, <1>2, <1>4, CopyIsKept DEF ChoiceInv

\* The new names are given to the slots without a table in their order: each gets one.
LEMMA EveryNameHasItsSlot ==
  ASSUME NEW n \in created + 1..created + Cardinality(NewSlots), created \in Nat
  PROVE  \E s \in NewSlots : NewName(s) = n
<1> DEFINE count == Cardinality(NewSlots)
           Upto(s) == {o \in NewSlots : o <= s}
           rank == [s \in NewSlots |-> Cardinality(Upto(s))]
<1>1. NewSlots \subseteq Nat /\ IsFiniteSet(NewSlots)
  BY SlotsAndNumbers, FS_Subset DEF NewSlots
<1>2. count \in Nat
  BY <1>1, FS_CardinalityType
<1>3. ASSUME NEW s \in NewSlots
      PROVE  IsFiniteSet(Upto(s)) /\ Cardinality(Upto(s)) \in 1..count
  <2>1. Upto(s) \subseteq NewSlots /\ s \in Upto(s)
    BY <1>1
  <2>2. IsFiniteSet(Upto(s)) /\ Cardinality(Upto(s)) <= count
    BY <1>1, <2>1, FS_Subset
  <2>3. Cardinality(Upto(s)) \in Nat /\ Cardinality(Upto(s)) /= 0
    BY <2>1, <2>2, FS_CardinalityType, FS_EmptySet
  <2> QED BY <1>2, <2>2, <2>3
<1>4. ASSUME NEW s \in NewSlots, NEW t \in NewSlots, s < t
      PROVE  Cardinality(Upto(s)) /= Cardinality(Upto(t))
  <2>1. Upto(s) \subseteq Upto(t) /\ t \in Upto(t) /\ t \notin Upto(s)
    <3>1. s \in Nat /\ t \in Nat /\ \A o \in NewSlots : o \in Nat
      BY <1>1
    <3>2. ~(t <= s) /\ t <= t /\ \A o \in NewSlots : o <= s => o <= t
      BY <1>4, <3>1
    <3> QED BY <3>2, Zenon
  <2>2. IsFiniteSet(Upto(t))
    BY <1>3
  <2> HIDE DEF Upto
  <2> QED BY <2>1, <2>2, FS_Subset
<1> HIDE DEF Upto
<1>5. rank \in Injection(NewSlots, 1..count)
  <2>1. rank \in [NewSlots -> 1..count]
    BY <1>3
  <2>2. ASSUME NEW s \in NewSlots, NEW t \in NewSlots, rank[s] = rank[t]
        PROVE  s = t
    BY <1>1, <1>4, <2>2
  <2> HIDE DEF rank, count
  <2> QED BY <2>1, <2>2 DEF Injection, IsInjective
<1>6. IsFiniteSet(1..count) /\ Cardinality(1..count) = count
  BY <1>2, FS_Interval
<1>7. rank \in Surjection(NewSlots, 1..count)
  <2> HIDE DEF rank, count
  <2>1. Cardinality(NewSlots) = Cardinality(1..count)
    BY <1>6 DEF count
  <2> QED BY <1>5, <1>6, <2>1, FS_Injection
<1>8. n - created \in 1..count
  BY <1>2
<1>9. PICK s \in NewSlots : rank[s] = n - created
  <2> HIDE DEF rank, count
  <2> QED BY <1>7, <1>8 DEF Surjection
<1>10. Cardinality(Upto(s)) = n - created
  BY <1>9
<1>11. NewName(s) = n
  BY <1>2, <1>10 DEF NewName, Upto
<1> QED BY <1>11, Zenon

LEMMA RestartStep ==
  ASSUME ChoiceInv, Restart
  PROVE  ChoiceInv'
<1>1. /\ tables \in [Name -> Table] /\ created \in Nat /\ busy \subseteq Name
      /\ changes \in 0..MaxChanges /\ zones \in [Location -> {"open", "closed", "none"}]
      /\ RowsAreCreated
  BY DEF ChoiceInv, ChoiceTypeOK
<1>2. /\ ~prepared /\ UNCHANGED <<page, submits>> /\ prepared' = prepared /\ busy' = busy
      /\ changes < MaxChanges /\ changes' = changes + 1
      /\ zones' = [l \in Location |-> IF zones[l] = "none" THEN "open" ELSE zones[l]]
      /\ created' = created + Cardinality(NewSlots) /\ created' <= MaxTables
  BY DEF Restart, Change, EnsureDefaultLocations
<1>3. tables' = [n \in Name |->
        IF n \in created + 1..created'
        THEN LET s == CHOOSE s \in NewSlots : NewName(s) = n
             IN  [number |-> s, key |-> 0, zone |-> LocationOf[s]]
        ELSE IF tables[n].number \in Slot
        THEN [tables[n] EXCEPT !.zone = LocationOf[tables[n].number]]
        ELSE tables[n]]
  BY DEF Restart, EnsureDefaultLocations
<1>4. created' \in 0..MaxTables /\ created <= created'
  <2>1. Cardinality(NewSlots) \in Nat
    BY SlotsAndNumbers, FS_Subset, FS_CardinalityType DEF NewSlots
  <2> QED BY <1>1, <1>2, <2>1, SlotsAndNumbers
<1>5. ASSUME NEW n \in Name, n \in created + 1..created'
      PROVE  tables'[n] \in Table /\ tables'[n].key = 0
  <2> DEFINE s == CHOOSE s \in NewSlots : NewName(s) = n
  <2>1. s \in NewSlots
    BY <1>1, <1>2, <1>5, EveryNameHasItsSlot
  <2>2. tables'[n] = [number |-> s, key |-> 0, zone |-> LocationOf[s]]
    BY <1>3, <1>5
  <2> HIDE DEF s
  <2> QED BY <2>1, <2>2, SlotsAndNumbers DEF NewSlots, Table, Numbers
<1>6. ASSUME NEW n \in Name, n \notin created + 1..created'
      PROVE  /\ tables'[n] \in Table /\ tables'[n].number = tables[n].number
             /\ tables'[n].key = tables[n].key
             /\ tables[n] = NoRow => tables'[n] = NoRow
  <2>1. CASE tables[n].number \in Slot
    <3>1. tables'[n] = [tables[n] EXCEPT !.zone = LocationOf[tables[n].number]]
      BY <1>3, <1>6, <2>1
    <3>2. tables[n] \in Table /\ LocationOf[tables[n].number] \in Location
      BY <1>1, <2>1, SlotsAndNumbers
    <3> QED BY <2>1, <3>1, <3>2, SlotsAndNumbers DEF Table, NoRow
  <2>2. CASE tables[n].number \notin Slot
    BY <1>1, <1>3, <1>6, <2>2
  <2> QED BY <2>1, <2>2
<1>7. ServerTypes'
  <2>1. tables' \in [Name -> Table]
    <3>1. \A n \in Name : tables'[n] \in Table
      BY <1>5, <1>6
    <3> QED BY <1>3, <3>1
  <2>2. zones' \in [Location -> {"open", "closed", "none"}]
    BY <1>1, <1>2
  <2>3. prepared' \in BOOLEAN
    BY <1>2 DEF ChoiceInv, ChoiceTypeOK
  <2> QED BY <1>1, <1>2, <1>4, <2>1, <2>2, <2>3, SlotsAndNumbers DEF ServerTypes
<1>8. RowsAreCreated'
  <2> SUFFICES ASSUME NEW n \in Name
               PROVE  /\ n > created' => tables'[n] = NoRow
                      /\ tables'[n].key /= 0 => tables'[n].number /= 0
    BY DEF RowsAreCreated, Row
  <2>1. CASE n \in created + 1..created'
    BY <1>1, <1>4, <1>5, <2>1, SlotsAndNumbers
  <2>2. CASE n \notin created + 1..created'
    BY <1>1, <1>4, <1>6, <2>2, SlotsAndNumbers DEF RowsAreCreated, Row
  <2> QED BY <2>1, <2>2
<1>9. TablesKept
  BY <1>2, <1>4 DEF TablesKept
<1> QED BY <1>2, <1>7, <1>8, <1>9, RestaurantStep

LEMMA PrepareStep ==
  ASSUME ChoiceInv, Prepare
  PROVE  ChoiceInv'
<1>1. /\ ServerTypes /\ RowsAreCreated /\ created \in 0..MaxTables
      /\ tables \in [Name -> Table] /\ changes \in 0..MaxChanges
  BY DEF ChoiceInv, ChoiceTypeOK, ServerTypes
<1>2. /\ ~prepared /\ prepared' = TRUE /\ tables' = Bound
      /\ UNCHANGED <<created, zones, busy, page, submits>>
      /\ changes < MaxChanges /\ changes' = changes + 1
  BY DEF Prepare, Change
<1>3. ASSUME NEW n \in Name
      PROVE  /\ tables'[n] \in Table /\ tables'[n].number = tables[n].number
             /\ tables[n] = NoRow => tables'[n] = NoRow
             /\ tables'[n].key /= 0 => tables'[n].number /= 0
  <2>1. tables[n] \in Table /\ (tables[n].key /= 0 => tables[n].number /= 0)
    BY <1>1 DEF RowsAreCreated, Row
  <2>2. CASE tables[n].number \in Slot
    <3>1. tables'[n] = [tables[n] EXCEPT !.key = tables[n].number]
      BY <1>2, <2>2 DEF Bound
    <3> QED BY <2>1, <2>2, <3>1, SlotsAndNumbers DEF Table, NoRow
  <2>3. CASE tables[n].number \notin Slot
    <3>1. tables'[n] = tables[n]
      BY <1>2, <2>3 DEF Bound
    <3> QED BY <2>1, <3>1
  <2> QED BY <2>2, <2>3
<1>4. ServerTypes'
  <2>1. tables' \in [Name -> Table]
    <3>1. tables' = [n \in Name |-> tables'[n]]
      BY <1>2 DEF Bound
    <3> QED BY <1>3, <3>1
  <2> QED BY <1>1, <1>2, <2>1, SlotsAndNumbers DEF ServerTypes
<1>5. RowsAreCreated'
  BY <1>1, <1>2, <1>3 DEF RowsAreCreated, Row
<1>6. TablesKept
  BY <1>1, <1>2, SlotsAndNumbers DEF TablesKept
<1> QED BY <1>2, <1>4, <1>5, <1>6, RestaurantStep

LEMMA RowStep ==
  ASSUME ChoiceInv, NEW n \in Name, NEW number \in Numbers,
         \/ CreateTable(number) \/ (\E zone \in Location \cup {NoZone} : UpdateTable(n, number, zone))
         \/ RemoveTable(n)
  PROVE  ChoiceInv'
<1>1. /\ tables \in [Name -> Table] /\ created \in 0..MaxTables /\ busy \subseteq Name
      /\ prepared \in BOOLEAN /\ zones \in [Location -> {"open", "closed", "none"}]
      /\ changes \in 0..MaxChanges /\ RowsAreCreated
  BY DEF ChoiceInv, ChoiceTypeOK
<1>2. /\ UNCHANGED <<prepared, zones, page, submits>>
      /\ changes < MaxChanges /\ changes' = changes + 1
  BY DEF CreateTable, UpdateTable, RemoveTable, Change
<1>3. CASE CreateTable(number)
  <2> DEFINE row == [number |-> number, key |-> 0, zone |-> NoZone]
  <2>1. /\ created < MaxTables /\ created' = created + 1 /\ busy' = busy
        /\ tables' = [tables EXCEPT ![created + 1] = row]
    BY <1>3 DEF CreateTable
  <2>2. row \in Table /\ row.key = 0
    BY DEF Table
  <2> HIDE DEF row
  <2>3. created + 1 \in Name /\ created' \in 0..MaxTables
    BY <1>1, <2>1, SlotsAndNumbers
  <2>4. tables' \in [Name -> Table] /\ tables'[created + 1] = row
        /\ \A m \in Name : m /= created + 1 => tables'[m] = tables[m]
    BY <1>1, <2>1, <2>2, <2>3
  <2>5. ServerTypes'
    BY <1>1, <1>2, <2>1, <2>3, <2>4, SlotsAndNumbers DEF ServerTypes
  <2>6. RowsAreCreated'
    BY <1>1, <2>1, <2>2, <2>4, SlotsAndNumbers DEF RowsAreCreated, Row
  <2>7. TablesKept
    BY <1>1, <1>2, <2>1, <2>4, SlotsAndNumbers DEF TablesKept
  <2> QED BY <1>2, <2>5, <2>6, <2>7, RestaurantStep
<1>4. ASSUME NEW zone \in Location \cup {NoZone}, UpdateTable(n, number, zone)
      PROVE  ChoiceInv'
  <2> DEFINE renumbered == [tables EXCEPT ![n].number = number]
  <2>1. tables[n].number /= 0 /\ UNCHANGED <<created, busy>>
    BY <1>4 DEF UpdateTable, Row
  <2>2. tables' = [renumbered EXCEPT ![n].zone = zone]
    BY <1>4 DEF UpdateTable
  <2>3. /\ renumbered \in [Name -> Table]
        /\ renumbered[n].key = tables[n].key /\ renumbered[n].number = number
        /\ \A m \in Name : m /= n => renumbered[m] = tables[m]
    BY <1>1 DEF Table
  <2> HIDE DEF renumbered
  <2>4. /\ tables' \in [Name -> Table]
        /\ tables'[n].key = tables[n].key /\ tables'[n].number /= 0
        /\ \A m \in Name : m /= n => tables'[m] = tables[m]
    BY <2>2, <2>3, SlotsAndNumbers DEF Table
  <2>5. ServerTypes'
    BY <1>1, <1>2, <2>1, <2>4, SlotsAndNumbers DEF ServerTypes
  <2>6. RowsAreCreated'
    BY <1>1, <2>1, <2>4, SlotsAndNumbers DEF RowsAreCreated, Row, NoRow
  <2>7. TablesKept
    BY <1>1, <1>2, <2>1, <2>4, SlotsAndNumbers DEF TablesKept
  <2> QED BY <1>2, <2>5, <2>6, <2>7, RestaurantStep
<1>5. CASE RemoveTable(n)
  <2>1. tables' = [tables EXCEPT ![n] = NoRow] /\ busy' = busy \ {n} /\ created' = created
    BY <1>5 DEF RemoveTable
  <2>2. /\ tables' \in [Name -> Table] /\ tables'[n] = NoRow
        /\ \A m \in Name : m /= n => tables'[m] = tables[m]
    BY <1>1, <2>1, NothingTyped
  <2>3. NoRow.key = 0 /\ NoRow.number = 0
    BY DEF NoRow
  <2>4. ServerTypes'
    BY <1>1, <1>2, <2>1, <2>2, SlotsAndNumbers DEF ServerTypes
  <2>5. RowsAreCreated'
    BY <1>1, <2>1, <2>2, <2>3, SlotsAndNumbers DEF RowsAreCreated, Row
  <2>6. TablesKept
    BY <1>1, <1>2, <2>1, <2>2, <2>3, SlotsAndNumbers DEF TablesKept
  <2> QED BY <1>2, <2>4, <2>5, <2>6, RestaurantStep
<1> QED BY <1>3, <1>4, <1>5

LEMMA ZoneStep ==
  ASSUME ChoiceInv, NEW l \in Location, NEW to \in {"open", "closed", "none"},
         ChangeZone(l, to)
  PROVE  ChoiceInv'
<1>1. /\ tables \in [Name -> Table] /\ created \in 0..MaxTables /\ busy \subseteq Name
      /\ prepared \in BOOLEAN /\ zones \in [Location -> {"open", "closed", "none"}]
      /\ changes \in 0..MaxChanges /\ RowsAreCreated
  BY DEF ChoiceInv, ChoiceTypeOK
<1>2. /\ UNCHANGED <<created, prepared, busy, page, submits>>
      /\ changes < MaxChanges /\ changes' = changes + 1
      /\ zones' = [zones EXCEPT ![l] = to]
      /\ tables' = [n \in Name |-> IF to = "none" /\ tables[n].zone = l
                                   THEN [tables[n] EXCEPT !.zone = NoZone] ELSE tables[n]]
  BY DEF ChangeZone, Change
<1>3. ASSUME NEW n \in Name
      PROVE  /\ tables'[n] \in Table /\ tables'[n].number = tables[n].number
             /\ tables'[n].key = tables[n].key
             /\ tables[n] = NoRow => tables'[n] = NoRow
  <2>1. tables[n] \in Table
    BY <1>1
  <2>2. tables'[n] = [tables[n] EXCEPT !.zone = NoZone] \/ tables'[n] = tables[n]
    BY <1>2
  <2> QED BY <2>1, <2>2 DEF Table, NoRow
<1>4. tables' \in [Name -> Table]
  <2>1. tables' = [n \in Name |-> tables'[n]]
    BY <1>2
  <2> QED BY <1>3, <2>1
<1>5. ServerTypes'
  BY <1>1, <1>2, <1>4, SlotsAndNumbers DEF ServerTypes
<1>6. RowsAreCreated'
  BY <1>1, <1>2, <1>3 DEF RowsAreCreated, Row
<1>7. TablesKept
  BY <1>1, <1>2, <1>3, SlotsAndNumbers DEF TablesKept
<1> QED BY <1>2, <1>5, <1>6, <1>7, RestaurantStep

LEMMA StaffOfTablesStep ==
  ASSUME ChoiceInv, StaffNext
  PROVE  ChoiceInv'
<1>1. CASE Restart \/ Prepare
  BY <1>1, RestartStep, PrepareStep
<1>2. CASE \E number \in Numbers : CreateTable(number)
  <2>1. 1 \in Name
    BY SlotsAndNumbers
  <2> QED BY <1>2, <2>1, RowStep
<1>3. CASE \E number \in Numbers, n \in Name, zone \in Location \cup {NoZone} : UpdateTable(n, number, zone)
  BY <1>3, RowStep
<1>4. CASE \E n \in Name : RemoveTable(n)
  BY <1>4, RowStep, SlotsAndNumbers
<1>5. ASSUME NEW n \in Name, ChangeBusy(n)
      PROVE  ChoiceInv'
  <2>1. /\ UNCHANGED <<tables, created, prepared, zones, page, submits>>
        /\ busy' = (IF n \in busy THEN busy \ {n} ELSE busy \cup {n})
        /\ changes < MaxChanges /\ changes' = changes + 1
    BY <1>5 DEF ChangeBusy, Change
  <2>2. ServerTypes /\ RowsAreCreated
    BY DEF ChoiceInv, ChoiceTypeOK, ServerTypes
  <2>3. ServerTypes'
    BY <2>1, <2>2, SlotsAndNumbers DEF ServerTypes
  <2>4. RowsAreCreated'
    BY <2>1, <2>2 DEF RowsAreCreated, Row
  <2>5. TablesKept
    BY <2>1, <2>2, SlotsAndNumbers DEF TablesKept, ServerTypes
  <2> QED BY <2>1, <2>3, <2>4, <2>5, RestaurantStep
<1>6. CASE \E l \in Location, to \in {"open", "closed", "none"} : ChangeZone(l, to)
  BY <1>6, ZoneStep
<1> QED BY <1>1, <1>2, <1>3, <1>4, <1>5, <1>6 DEF StaffNext

\* The page changes, and the restaurant does not.
LEMMA PageStepOfTables ==
  ASSUME ChoiceInv, UNCHANGED server, PageTypes', SubmitTypes',
         view' \in {view, FullMap, NoView},
         Knows(picked', tables, created, prepared),
         \A s \in Submit : Knows(submits'[s].pick, tables, created, prepared)
  PROVE  ChoiceInv'
<1>1. UNCHANGED <<tables, created, prepared, zones, busy, changes>> /\ ServerTypes
  BY DEF server, ChoiceInv, ChoiceTypeOK, ServerTypes
<1>2. ChoiceTypeOK'
  BY <1>1 DEF ChoiceTypeOK, ServerTypes, PageTypes, SubmitTypes
<1>3. RowsAreCreated' /\ ChoicesKnowSlots'
  BY <1>1 DEF ChoiceInv, RowsAreCreated, Row, ChoicesKnowSlots
<1>4. CopyKnowsSlots'
  <2>1. CASE view' = view
    BY <1>1, <2>1 DEF ChoiceInv, CopyKnowsSlots, Row
  <2>2. CASE view' = NoView
    BY <2>2 DEF CopyKnowsSlots, NoView, NoRow
  <2>3. CASE view' = FullMap
    <3> SUFFICES ASSUME NEW n \in Name, tables[n].key /= 0
                 PROVE  tables[n].number /= 0 /\ n <= created
      BY <1>1, <2>3 DEF CopyKnowsSlots, FullMap, Row
    <3>1. RowsAreCreated /\ created \in Nat /\ n \in Nat
      BY <1>1, SlotsAndNumbers DEF ChoiceInv, ServerTypes
    <3> QED BY <3>1 DEF RowsAreCreated, Row, NoRow
  <2> QED BY <2>1, <2>2, <2>3
<1> QED BY <1>2, <1>3, <1>4 DEF ChoiceInv

LEMMA AsChosen ==
  ASSUME ChoiceInv
  PROVE  /\ ServerTypes /\ step \in Step /\ location \in Location /\ picked \in Pick
         /\ view \in View /\ submits \in [Submit -> Sent] /\ FullMap \in View
         /\ Knows(picked, tables, created, prepared)
         /\ Knows(NoPick, tables, created, prepared)
         /\ \A s \in Submit :
              /\ submits[s] \in Sent /\ submits[s].pick \in Pick
              /\ Knows(submits[s].pick, tables, created, prepared)
<1>1. ServerTypes /\ PageTypes /\ SubmitTypes /\ ChoicesKnowSlots
  BY TypesByPart DEF ChoiceInv
<1>2. FullMap \in View
  BY <1>1 DEF FullMap, View, ServerTypes
<1>3. \A s \in Submit : submits[s] \in Sent /\ submits[s].pick \in Pick
  BY <1>1 DEF SubmitTypes, Sent
<1>4. Knows(NoPick, tables, created, prepared)
  BY DEF Knows, NoPick
<1> QED BY <1>1, <1>2, <1>3, <1>4 DEF PageTypes, SubmitTypes, ChoicesKnowSlots

LEMMA ScreenOfTablesStep ==
  ASSUME ChoiceInv,
         \/ RefreshMap \/ HomeScreen \/ LocationScreen \/ GoBack \/ Leave
         \/ \E l \in Location : WaterfrontScreen(l)
  PROVE  ChoiceInv'
<1>1. /\ UNCHANGED server /\ submits' = submits
      /\ picked' \in {picked, NoPick} /\ view' \in {view, FullMap}
  BY DEF RefreshMap, HomeScreen, LocationScreen, GoBack, Leave, WaterfrontScreen, Show,
         OpenLocation
<1>2. step' \in Step
  BY AsChosen
     DEF RefreshMap, HomeScreen, LocationScreen, GoBack, Leave, WaterfrontScreen, Show,
         OpenLocation, Step
<1>3. location' \in Location
  BY AsChosen, SlotsAndNumbers
     DEF RefreshMap, HomeScreen, LocationScreen, GoBack, Leave, WaterfrontScreen, Show,
         OpenLocation
<1>4. PageTypes' /\ SubmitTypes'
  BY <1>1, <1>2, <1>3, AsChosen, NothingTyped DEF PageTypes, SubmitTypes
<1> QED BY <1>1, <1>4, AsChosen, PageStepOfTables

\* A slot pressed on a prepared map chooses the table that stands there.
LEMMA MapScreenStep ==
  ASSUME ChoiceInv, NEW slot \in Slot, MapScreen(slot)
  PROVE  ChoiceInv'
<1>1. /\ UNCHANGED <<server, location, view, submits>> /\ step' = "form"
      /\ picked' \in Selected(slot)
  BY DEF MapScreen
<1>2. /\ view.tables \in [Name -> Table] /\ CopyKnowsSlots /\ slot \in Slot /\ slot /= 0
      /\ view.prepared \in BOOLEAN /\ created \in 0..MaxTables /\ MaxTables \in Nat
  BY AsChosen, SlotsAndNumbers DEF View, ChoiceInv, ServerTypes
<1>3. picked' \in Pick /\ Knows(picked', tables, created, prepared)
  <2>1. CASE TableForSlot(view.tables, slot, view.prepared) = {} /\ ~view.prepared
    <3>1. picked' = [name |-> 0, number |-> slot, slot |-> slot, bound |-> FALSE]
      BY <1>1, <2>1 DEF Selected
    <3> QED BY <1>2, <3>1 DEF Pick, Numbers, Knows
  <2>2. CASE ~(TableForSlot(view.tables, slot, view.prepared) = {} /\ ~view.prepared)
    <3>1. PICK n \in TableForSlot(view.tables, slot, view.prepared) :
            picked' = [name |-> n, number |-> view.tables[n].number, slot |-> slot,
                       bound |-> view.prepared]
      BY <1>1, <2>2 DEF Selected
    <3>2. n \in Name /\ view.tables[n] \in Table
      BY <1>2 DEF TableForSlot
    <3>3. /\ view.prepared => view.tables[n].key = slot
          /\ ~view.prepared => view.tables[n].number = slot
      BY <3>2 DEF TableForSlot
    <3>4. view.tables[n].number \in Numbers
      BY <1>2, <3>2, <3>3 DEF CopyKnowsSlots, Table, Numbers
    <3>5. picked' \in Pick
      BY <1>2, <3>1, <3>2, <3>4 DEF Pick
    <3>6. Knows(picked', tables, created, prepared)
      BY <1>2, <3>1, <3>2, <3>3, SlotsAndNumbers DEF Knows, CopyKnowsSlots, Row
    <3> QED BY <3>5, <3>6
  <2> QED BY <2>1, <2>2
<1>4. PageTypes' /\ SubmitTypes'
  BY <1>1, <1>3, AsChosen DEF PageTypes, SubmitTypes, Step
<1> QED BY <1>1, <1>3, <1>4, AsChosen, PageStepOfTables

LEMMA ReloadStep ==
  ASSUME ChoiceInv, Reload
  PROVE  ChoiceInv'
<1>1. /\ UNCHANGED <<server, step, location, picked>> /\ view' = NoView
      /\ submits' = [s \in Submit |->
           IF submits[s].at \in {"idle", "check"} THEN NotSent
           ELSE [submits[s] EXCEPT !.heard = FALSE]]
  BY DEF Reload
<1>2. ASSUME NEW s \in Submit
      PROVE  submits'[s] \in Sent /\ submits'[s].pick \in {NoPick, submits[s].pick}
  <2>1. submits'[s] = NotSent \/ submits'[s] = [submits[s] EXCEPT !.heard = FALSE]
    BY <1>1
  <2>2. NotSent \in Sent /\ NotSent.pick = NoPick
    BY NothingTyped DEF NotSent
  <2>3. submits[s] \in Sent
    BY AsChosen
  <2> QED BY <2>1, <2>2, <2>3 DEF Sent
<1>3. submits' = [s \in Submit |-> submits'[s]]
  BY <1>1
<1>4. PageTypes' /\ SubmitTypes'
  BY <1>1, <1>2, <1>3, AsChosen, NothingTyped DEF PageTypes, SubmitTypes
<1> QED BY <1>1, <1>2, <1>4, AsChosen, PageStepOfTables

\* One press changes.
LEMMA OneSubmitTyped ==
  ASSUME ChoiceInv, NEW s \in Submit, NEW sent \in Sent,
         submits' = [submits EXCEPT ![s] = sent],
         Knows(sent.pick, tables, created, prepared)
  PROVE  /\ SubmitTypes'
         /\ \A o \in Submit : Knows(submits'[o].pick, tables, created, prepared)
BY AsChosen DEF SubmitTypes

LEMMA FormScreenStep ==
  ASSUME ChoiceInv, NEW s \in Submit, FormScreen(s)
  PROVE  ChoiceInv'
<1> DEFINE sent == [at |-> "check", heard |-> TRUE, pick |-> picked,
                    location |-> location, booked |-> 0]
<1>1. submits' = [submits EXCEPT ![s] = sent] /\ UNCHANGED <<server, page>>
  BY DEF FormScreen
<1>2. sent \in Sent /\ sent.pick = picked
  BY AsChosen DEF Sent
<1> HIDE DEF sent
<1>3. PageTypes'
  BY <1>1, AsChosen DEF PageTypes, page
<1> QED BY <1>1, <1>2, <1>3, AsChosen, OneSubmitTyped, PageStepOfTables DEF page

\* The press moves on, or is over and forgotten.
LEMMA MovedSubmit ==
  ASSUME ChoiceInv, NEW s \in Submit,
         NEW at \in {"idle", "check", "resolve", "create", "made", "over"},
         \/ submits' = [submits EXCEPT ![s] = NotSent]
         \/ submits' = [submits EXCEPT ![s].at = at]
  PROVE  /\ SubmitTypes'
         /\ \A o \in Submit : Knows(submits'[o].pick, tables, created, prepared)
<1>1. CASE submits' = [submits EXCEPT ![s] = NotSent]
  <2>1. NotSent \in Sent /\ NotSent.pick = NoPick
    BY NothingTyped DEF NotSent
  <2> QED BY <1>1, <2>1, AsChosen, OneSubmitTyped
<1>2. CASE submits' = [submits EXCEPT ![s].at = at]
  <2> DEFINE sent == [submits[s] EXCEPT !.at = at]
  <2>1. submits[s] \in Sent
    BY AsChosen
  <2>2. sent \in Sent /\ sent.pick = submits[s].pick
    BY <2>1 DEF Sent
  <2>3. submits' = [submits EXCEPT ![s] = sent]
    BY <1>2
  <2> HIDE DEF sent
  <2> QED BY <2>2, <2>3, AsChosen, OneSubmitTyped
<1> QED BY <1>1, <1>2

LEMMA SimpleSubmitStep ==
  ASSUME ChoiceInv, NEW s \in Submit,
         CheckFails(s) \/ ResolveExisting(s) \/ CreateFails(s) \/ SuccessScreen(s)
  PROVE  ChoiceInv'
<1>1. PICK at \in {"create", "over"} :
        \/ submits' = [submits EXCEPT ![s] = NotSent]
        \/ submits' = [submits EXCEPT ![s].at = at]
  BY DEF CheckFails, ResolveExisting, CreateFails, SuccessScreen
<1>2. SubmitTypes' /\ \A o \in Submit : Knows(submits'[o].pick, tables, created, prepared)
  BY <1>1, MovedSubmit
<1>3. /\ UNCHANGED <<server, location, picked>> /\ step' \in {step, "success"}
      /\ view' \in {view, FullMap}
  BY DEF CheckFails, ResolveExisting, CreateFails, SuccessScreen, page
<1>4. PageTypes'
  BY <1>3, AsChosen DEF PageTypes, Step
<1> QED BY <1>2, <1>3, <1>4, AsChosen, PageStepOfTables

\* When the table has another number by now, it is chosen again as what it is.
LEMMA RevalidateStep ==
  ASSUME ChoiceInv, NEW s \in Submit, Revalidate(s)
  PROVE  ChoiceInv'
<1> DEFINE fresh == FreshTable(submits[s].pick)
<1>1. /\ view' = FullMap /\ UNCHANGED <<server, location>>
      /\ PageTypes /\ ServerTypes /\ RowsAreCreated /\ submits[s] \in Sent
  BY AsChosen DEF Revalidate, PageTypes, ChoiceInv
<1>2. CASE /\ step' = "map" /\ picked' = picked
           /\ submits' = [submits EXCEPT ![s] = NotSent]
  <2>1. PageTypes'
    BY <1>1, <1>2, AsChosen DEF PageTypes, Step
  <2> QED BY <1>1, <1>2, <2>1, AsChosen, MovedSubmit, PageStepOfTables
<1>3. CASE /\ step' = step /\ picked' = picked
           /\ submits' = [submits EXCEPT ![s].at = "resolve"]
  <2>1. PageTypes'
    BY <1>1, <1>3, AsChosen DEF PageTypes
  <2> QED BY <1>1, <1>3, <2>1, AsChosen, MovedSubmit, PageStepOfTables
<1>4. CASE /\ ~Unavailable(submits[s], fresh) /\ Renumbered(submits[s].pick, fresh)
           /\ picked' \in {[name |-> n, number |-> tables[n].number,
                            slot |-> tables[n].key, bound |-> TRUE] : n \in fresh}
           /\ submits' = [submits EXCEPT ![s] = NotSent]
           /\ step' = step
  <2>1. PICK n \in fresh : picked' = [name |-> n, number |-> tables[n].number,
                                      slot |-> tables[n].key, bound |-> TRUE]
    BY <1>4
  <2>2. prepared /\ tables[n].key /= 0
    BY <1>4 DEF Unavailable, Renumbered
  <2>3. n \in Name /\ tables[n].number /= 0 /\ tables[n] \in Table /\ n <= created
    <3>1. n \in Name /\ tables[n].number /= 0
      BY <2>2 DEF FreshTable, Row
    <3>2. n <= created
      BY <1>1, <2>2, <3>1, SlotsAndNumbers DEF RowsAreCreated, NoRow, ServerTypes
    <3> QED BY <1>1, <3>1, <3>2 DEF ServerTypes
  <2>4. picked' \in Pick
    BY <2>1, <2>2, <2>3 DEF Pick, Table
  <2>5. Knows(picked', tables, created, prepared)
    BY <1>1, <2>1, <2>2, <2>3, SlotsAndNumbers DEF Knows, ServerTypes
  <2>6. PageTypes'
    BY <1>1, <1>4, <2>4, AsChosen DEF PageTypes
  <2> QED BY <1>1, <1>4, <2>5, <2>6, MovedSubmit, PageStepOfTables
<1> QED BY <1>2, <1>3, <1>4 DEF Revalidate

\* A booking takes the table it finds by its name, or one with the number, or a new one.
Books(s, n) ==
    /\ busy' = busy \cup {n}
    /\ submits' = [submits EXCEPT ![s] = [submits[s] EXCEPT !.at = "made", !.booked = n]]
    /\ \/ UNCHANGED <<tables, created>> /\ n \in Resolved(submits[s].pick)
       \/ /\ created < MaxTables /\ created' = created + 1 /\ n = created + 1
          /\ Resolved(submits[s].pick) = {}
          /\ tables' = [tables EXCEPT ![created + 1] =
                 [number |-> submits[s].pick.number, key |-> 0, zone |-> NoZone]]

LEMMA BookedTable ==
  ASSUME ChoiceInv, NEW s \in Submit, Create(s)
  PROVE  \E n \in Name : Books(s, n)
<1>1. ServerTypes /\ submits[s].pick \in Pick
  BY AsChosen
<1> DEFINE found == Resolved(submits[s].pick)
<1>2. PICK n \in (IF found = {} THEN {created + 1} ELSE found) :
        /\ busy' = busy \cup {n}
        /\ submits' = [submits EXCEPT ![s] = [submits[s] EXCEPT !.at = "made", !.booked = n]]
  BY Zenon DEF Create
<1>3. WithTable(submits[s].pick)
  BY DEF Create
<1>4. CASE found = {}
  <2>1. /\ created < MaxTables /\ created' = created + 1 /\ n = created + 1
        /\ tables' = [tables EXCEPT ![created + 1] =
                        [number |-> submits[s].pick.number, key |-> 0, zone |-> NoZone]]
    BY <1>2, <1>3, <1>4 DEF WithTable
  <2>2. n \in Name
    BY <1>1, <2>1, SlotsAndNumbers DEF ServerTypes
  <2>3. Books(s, n)
    BY <1>2, <1>4, <2>1 DEF Books
  <2> QED BY <2>2, <2>3, Zenon
<1>5. CASE found /= {}
  <2>1. UNCHANGED <<tables, created>> /\ n \in found
    BY <1>2, <1>3, <1>5 DEF WithTable
  <2>2. n \in Name
    BY <1>1, <2>1 DEF Resolved, Numbered, Pick
  <2>3. Books(s, n)
    BY <1>2, <2>1 DEF Books
  <2> QED BY <2>2, <2>3, Zenon
<1> QED BY <1>4, <1>5

LEMMA CreateStep ==
  ASSUME ChoiceInv, NEW s \in Submit, Create(s)
  PROVE  ChoiceInv'
<1>1. /\ ServerTypes /\ PageTypes /\ SubmitTypes /\ RowsAreCreated
      /\ submits[s] \in Sent /\ submits[s].pick \in Pick
      /\ UNCHANGED <<prepared, zones, changes, page>>
  BY AsChosen, TypesByPart DEF Create, ChoiceInv
<1>2. PICK n \in Name : Books(s, n)
  BY BookedTable
<1> DEFINE sent == [submits[s] EXCEPT !.at = "made", !.booked = n]
<1>3. sent \in Sent /\ sent.pick = submits[s].pick
  BY <1>1 DEF Sent
<1>4. submits' = [submits EXCEPT ![s] = sent] /\ busy' \subseteq Name
  BY <1>1, <1>2 DEF Books, ServerTypes
<1> HIDE DEF sent
<1>5. /\ SubmitTypes' /\ \A o \in Submit : submits'[o].pick = submits[o].pick
  BY <1>1, <1>3, <1>4 DEF SubmitTypes
<1>6. ServerTypes' /\ RowsAreCreated' /\ TablesKept
  <2>1. CASE UNCHANGED <<tables, created>>
    <3>1. ServerTypes'
      BY <1>1, <1>4, <2>1 DEF ServerTypes
    <3>2. RowsAreCreated' /\ TablesKept
      BY <1>1, <2>1, SlotsAndNumbers DEF RowsAreCreated, Row, TablesKept, ServerTypes
    <3> QED BY <3>1, <3>2
  <2>2. CASE /\ created < MaxTables /\ created' = created + 1
             /\ tables' = [tables EXCEPT ![created + 1] =
                    [number |-> submits[s].pick.number, key |-> 0, zone |-> NoZone]]
    <3> DEFINE row == [number |-> submits[s].pick.number, key |-> 0, zone |-> NoZone]
    <3>1. row \in Table /\ row.key = 0
      BY <1>1 DEF Table, Pick
    <3>2. tables' = [tables EXCEPT ![created + 1] = row]
      BY <2>2
    <3> HIDE DEF row
    <3>3. /\ created \in 0..MaxTables /\ tables \in [Name -> Table] /\ prepared' = prepared
          /\ created + 1 \in Name /\ created' \in 0..MaxTables
      BY <1>1, <2>2, SlotsAndNumbers DEF ServerTypes
    <3>4. tables' \in [Name -> Table] /\ tables'[created + 1] = row
          /\ \A m \in Name : m /= created + 1 => tables'[m] = tables[m]
      BY <3>1, <3>2, <3>3
    <3>5. ServerTypes'
      BY <1>1, <1>4, <3>3, <3>4 DEF ServerTypes
    <3>6. RowsAreCreated'
      BY <1>1, <2>2, <3>1, <3>3, <3>4, SlotsAndNumbers DEF RowsAreCreated, Row
    <3>7. TablesKept
      BY <2>2, <3>3, <3>4, SlotsAndNumbers DEF TablesKept
    <3> QED BY <3>5, <3>6, <3>7
  <2> QED BY <1>2, <2>1, <2>2 DEF Books
<1>7. created' \in 0..MaxTables /\ UNCHANGED <<step, location, picked, view>>
  BY <1>1, <1>6 DEF ServerTypes, page
<1>8. ChoiceTypeOK'
  BY <1>1, <1>5, <1>6, <1>7 DEF ChoiceTypeOK, ServerTypes, PageTypes, SubmitTypes
<1>9. ChoicesKnowSlots'
  BY <1>5, <1>6, <1>7, AsChosen, KnowledgeIsKept DEF ChoicesKnowSlots
<1> QED BY <1>6, <1>7, <1>8, <1>9, CopyIsKept DEF ChoiceInv

LEMMA ChoiceStep ==
  ASSUME ChoiceInv, [ChoiceNext]_<<server, page, submits>>
  PROVE  ChoiceInv'
<1>1. CASE StaffNext
  BY <1>1, StaffOfTablesStep
<1>2. CASE PageNext
  BY <1>2, ScreenOfTablesStep, MapScreenStep, ReloadStep DEF PageNext
<1>3. CASE SubmitNext
  BY <1>3, FormScreenStep, RevalidateStep, SimpleSubmitStep, CreateStep DEF SubmitNext
<1>4. CASE UNCHANGED <<server, page, submits>>
  <2>1. UNCHANGED <<server, step, location, picked, view, submits>>
    BY <1>4 DEF page
  <2>2. PageTypes' /\ SubmitTypes'
    BY <2>1, AsChosen DEF PageTypes, SubmitTypes
  <2> QED BY <2>1, <2>2, AsChosen, PageStepOfTables
<1> QED BY <1>1, <1>2, <1>3, <1>4 DEF ChoiceNext

LEMMA ChoiceAlways == ChoiceSpec => []ChoiceInv
BY ChoiceBegins, ChoiceStep, PTL DEF ChoiceSpec

\* Every table has its columns, names are given once, and a choice names a slot of the map,
\* for any number of slots, tables, presses and changes.
THEOREM ChoiceTypesHold == ChoiceSpec => []ChoiceTypeOK
<1>1. ChoiceInv => ChoiceTypeOK
  BY DEF ChoiceInv
<1> QED BY <1>1, ChoiceAlways, PTL

-----------------------------------------------------------------------------
(* Where a press is booked *)

\* Only its creation books a table for a press.
LEMMA OnlyCreateBooks ==
  ASSUME ChoiceInv, ChoiceNext, NEW s \in Submit,
         submits[s].booked = 0, submits'[s].booked /= 0
  PROVE  Create(s)
<1>1. submits \in [Submit -> Sent]
  BY AsChosen
<1> DEFINE fresh == NotSent
<1>0. fresh.booked = 0
  BY DEF NotSent
<1> HIDE DEF fresh
<1>a. ASSUME NEW o \in Submit, submits' = [submits EXCEPT ![o] = fresh]
      PROVE  FALSE
  BY <1>0, <1>1, <1>a
<1>b. ASSUME NEW o \in Submit, NEW at, submits' = [submits EXCEPT ![o].at = at]
      PROVE  FALSE
  BY <1>1, <1>b DEF Sent
<1>2. ~StaffNext
  BY DEF StaffNext, Restart, Prepare, CreateTable, UpdateTable, RemoveTable, ChangeBusy,
         ChangeZone, Change
<1>3. ~PageNext
  <2>1. ~Reload
    <3>1. SUFFICES ASSUME Reload
                   PROVE  FALSE
      OBVIOUS
    <3>2. \/ submits'[s] = fresh
          \/ submits'[s] = [submits[s] EXCEPT !.heard = FALSE]
      BY <3>1 DEF Reload, fresh
    <3> QED BY <1>0, <1>1, <3>2 DEF Sent
  <2>2. ~(RefreshMap \/ HomeScreen \/ LocationScreen \/ GoBack \/ Leave)
    BY DEF RefreshMap, HomeScreen, LocationScreen, GoBack, Leave, Show, OpenLocation
  <2>3. ~(\E l \in Location : WaterfrontScreen(l)) /\ ~(\E slot \in Slot : MapScreen(slot))
    BY DEF WaterfrontScreen, OpenLocation, MapScreen
  <2> QED BY <2>1, <2>2, <2>3 DEF PageNext
<1>4. PICK o \in Submit :
        \/ FormScreen(o) \/ Revalidate(o) \/ CheckFails(o) \/ ResolveExisting(o)
        \/ Create(o) \/ CreateFails(o) \/ SuccessScreen(o)
  BY <1>2, <1>3 DEF ChoiceNext, SubmitNext
<1>5. ~FormScreen(o)
  BY <1>1 DEF FormScreen
<1>6. ~Revalidate(o)
  <2>1. Revalidate(o) =>
          \/ submits' = [submits EXCEPT ![o] = fresh]
          \/ submits' = [submits EXCEPT ![o].at = "resolve"]
    BY DEF Revalidate, fresh
  <2> QED BY <1>a, <1>b, <2>1
<1>7. ~CheckFails(o) /\ ~ResolveExisting(o) /\ ~CreateFails(o) /\ ~SuccessScreen(o)
  <2>1. CheckFails(o) \/ ResolveExisting(o) \/ CreateFails(o) \/ SuccessScreen(o) =>
          \E at \in {"create", "over"} :
            \/ submits' = [submits EXCEPT ![o] = fresh]
            \/ submits' = [submits EXCEPT ![o].at = at]
    BY DEF CheckFails, ResolveExisting, CreateFails, SuccessScreen, fresh
  <2> QED BY <1>a, <1>b, <2>1
<1>8. Create(o)
  BY <1>4, <1>5, <1>6, <1>7
<1>9. o = s
  <2>1. PICK n \in Name : Books(o, n)
    BY <1>8, BookedTable
  <2> QED BY <1>1, <2>1 DEF Books
<1> QED BY <1>8, <1>9

LEMMA BookedIsPressed ==
  ASSUME ChoiceInv, NEW s \in Submit, Create(s), submits[s].pick.bound
  PROVE  LET pick == submits[s].pick
             booked == submits'[s].booked
         IN  \/ pick.slot /= 0 /\ tables'[booked].key = pick.slot
             \/ ~Row(pick.name) /\ tables'[booked].number = pick.number
<1> DEFINE pick == submits[s].pick
<1>1. /\ submits \in [Submit -> Sent] /\ submits[s] \in Sent /\ pick \in Pick
      /\ Knows(pick, tables, created, prepared)
      /\ tables \in [Name -> Table] /\ created \in 0..MaxTables
  BY AsChosen DEF ServerTypes
<1>2. PICK n \in Name : Books(s, n)
  BY BookedTable
<1>3. submits'[s].booked = n
  BY <1>1, <1>2 DEF Books, Sent
<1>4. pick.name \in 1..created /\ pick.slot /= 0 /\ pick.name /= 0
      /\ (tables[pick.name].number /= 0 => tables[pick.name].key = pick.slot)
  BY <1>1 DEF Knows
<1> HIDE DEF pick
<1>5. CASE tables[pick.name].number /= 0
  <2>1. Resolved(pick) = {pick.name}
    BY <1>4, <1>5 DEF Resolved, Row
  <2>2. UNCHANGED <<tables, created>> /\ n = pick.name
    BY <1>2, <2>1 DEF Books, pick
  <2> QED BY <1>3, <1>4, <1>5, <2>2 DEF pick
<1>6. CASE tables[pick.name].number = 0
  <2>1. ~Row(pick.name) /\ Resolved(pick) = Numbered(tables, pick.number)
    BY <1>6 DEF Resolved, Row
  <2>2. tables'[n].number = pick.number
    <3>1. CASE UNCHANGED <<tables, created>> /\ n \in Resolved(pick)
      BY <2>1, <3>1 DEF Numbered
    <3>2. CASE /\ created < MaxTables /\ n = created + 1
               /\ tables' = [tables EXCEPT ![created + 1] =
                      [number |-> pick.number, key |-> 0, zone |-> NoZone]]
      BY <1>1, <3>2
    <3> QED BY <1>2, <3>1, <3>2 DEF Books, pick
  <2> QED BY <1>3, <2>1, <2>2 DEF pick
<1> QED BY <1>5, <1>6

\* Only a check that found the table with its number lets a press go on.
LEMMA CheckedIsTold ==
  ASSUME ChoiceInv, ChoiceNext, NEW s \in Submit,
         submits[s].at = "check", submits'[s].at = "resolve", prepared
  PROVE  tables[submits[s].pick.name].number = submits[s].pick.number
<1>1. submits \in [Submit -> Sent] /\ submits[s] \in Sent
  BY AsChosen
<1>2. ~StaffNext
  BY DEF StaffNext, Restart, Prepare, CreateTable, UpdateTable, RemoveTable, ChangeBusy,
         ChangeZone, Change
<1>3. ~PageNext
  <2>1. ~Reload
    BY DEF Reload, NotSent
  <2>2. ~(RefreshMap \/ HomeScreen \/ LocationScreen \/ GoBack \/ Leave)
    BY DEF RefreshMap, HomeScreen, LocationScreen, GoBack, Leave, Show, OpenLocation
  <2>3. ~(\E l \in Location : WaterfrontScreen(l)) /\ ~(\E slot \in Slot : MapScreen(slot))
    BY DEF WaterfrontScreen, OpenLocation, MapScreen
  <2> QED BY <2>1, <2>2, <2>3 DEF PageNext
<1>4. PICK o \in Submit :
        \/ FormScreen(o) \/ Revalidate(o) \/ CheckFails(o) \/ ResolveExisting(o)
        \/ Create(o) \/ CreateFails(o) \/ SuccessScreen(o)
  BY <1>2, <1>3 DEF ChoiceNext, SubmitNext
<1>5. ~FormScreen(o) /\ ~CheckFails(o) /\ ~CreateFails(o) /\ ~SuccessScreen(o)
  BY <1>1 DEF FormScreen, CheckFails, CreateFails, SuccessScreen, NotSent
<1>6. ~ResolveExisting(o)
  BY <1>1 DEF ResolveExisting
<1>7. ~Create(o)
  <2> SUFFICES ASSUME Create(o) PROVE FALSE
    OBVIOUS
  <2>1. PICK n \in Name : Books(o, n)
    BY BookedTable
  <2>2. submits[o] \in Sent
    BY <1>1
  <2> QED BY <1>1, <2>1, <2>2 DEF Books, Sent
<1>8. Revalidate(o)
  BY <1>4, <1>5, <1>6, <1>7
<1> DEFINE fresh == FreshTable(submits[o].pick)
<1>9. /\ o = s
      /\ ~Unavailable(submits[o], fresh) /\ ~Renumbered(submits[o].pick, fresh)
  BY <1>1, <1>8 DEF Revalidate, NotSent
<1>10. fresh /= {} /\ \A n \in fresh : n = submits[s].pick.name
  BY <1>9 DEF Unavailable, FreshTable
<1>11. \A n \in fresh : tables[n].number = submits[s].pick.number
  BY <1>9 DEF Renumbered
<1> HIDE DEF fresh
<1> QED BY <1>10, <1>11

\* A guest is booked at the table that stands where the slot was pressed and was told its
\* number, for any number of slots, tables, presses and changes.
THEOREM PressesAreBookedThere == ChoiceSpec => BookedWherePressed
<1>1. ASSUME ChoiceInv, [ChoiceNext]_<<server, page, submits>>
      PROVE  [PressedIsBooked /\ ToldTheNumber]_<<server, page, submits>>
  <2> SUFFICES ASSUME ChoiceNext
               PROVE  PressedIsBooked /\ ToldTheNumber
    BY <1>1
  <2>1. PressedIsBooked
    BY <1>1, OnlyCreateBooks, BookedIsPressed DEF PressedIsBooked
  <2>2. ToldTheNumber
    BY <1>1, CheckedIsTold DEF ToldTheNumber
  <2> QED BY <2>1, <2>2
<1> QED BY <1>1, ChoiceAlways, PTL DEF ChoiceSpec, BookedWherePressed

-----------------------------------------------------------------------------
(* What a filter leaves of a sequence *)

LEMMA FirstNumbers ==
  ASSUME NEW n \in Nat
  PROVE  IsFiniteSet(1..n) /\ Cardinality(1..n) = n
BY FS_Interval

\* Every element that is left comes from a place of its own, and they keep their order.
LEMMA FilteredPlaces ==
  ASSUME NEW X, NEW s \in Seq(X), NEW S
  PROVE  LET f == Filtered(s, S)
         IN  /\ Len(f) \in Nat /\ f \in Seq(X) /\ Len(f) <= Len(s)
             /\ \E at \in Bijection(1..Len(f), Positions(s, S)) :
                   /\ \A k \in 1..Len(f) : f[k] = s[at[k]]
                   /\ \A k, l \in 1..Len(f) : k < l => at[k] < at[l]
                   /\ \A k \in 1..Len(f) : Cardinality(Positions(s, S) \cap 1..at[k]) = k
<1> DEFINE P == Positions(s, S)
           m == Cardinality(P)
           rank == [i \in P |-> Cardinality(P \cap 1..i)]
           at == [k \in 1..m |-> CHOOSE i \in P : Cardinality(P \cap 1..i) = k]
<1>1. P \subseteq 1..Len(s) /\ Len(s) \in Nat
  BY DEF Positions
<1>2. \A i \in P : i \in Nat /\ i >= 1 /\ s[i] \in X
  BY <1>1
<1> HIDE DEF P
<1>3. IsFiniteSet(P) /\ m \in Nat /\ m <= Len(s)
  <2>1. IsFiniteSet(1..Len(s)) /\ Cardinality(1..Len(s)) = Len(s)
    BY <1>1, FirstNumbers
  <2>2. IsFiniteSet(P) /\ Cardinality(P) <= Cardinality(1..Len(s))
    BY <1>1, <2>1, FS_Subset
  <2> QED BY <2>1, <2>2, FS_CardinalityType
<1>4. ASSUME NEW i \in P
      PROVE  /\ IsFiniteSet(P \cap 1..i) /\ i \in P \cap 1..i
             /\ rank[i] = Cardinality(P \cap 1..i) /\ rank[i] \in 1..m
  <2>1. IsFiniteSet(P \cap 1..i) /\ Cardinality(P \cap 1..i) <= m
    BY <1>3, FS_Subset
  <2>2. i \in P \cap 1..i
    BY <1>2
  <2>3. Cardinality(P \cap 1..i) \in Nat /\ Cardinality(P \cap 1..i) /= 0
    BY <2>1, <2>2, FS_CardinalityType, FS_EmptySet
  <2> QED BY <2>1, <2>2, <2>3
<1>5. ASSUME NEW i \in P, NEW j \in P, i < j
      PROVE  rank[i] < rank[j]
  <2> DEFINE A == P \cap 1..i
             B == P \cap 1..j
  <2>1. A \subseteq B /\ j \notin A /\ j \in B
    BY <1>2, <1>5
  <2>2. IsFiniteSet(A) /\ IsFiniteSet(B) /\ rank[i] = Cardinality(A) /\ rank[j] = Cardinality(B)
    BY <1>4
  <2>3. rank[i] \in Nat /\ rank[j] \in Nat
    <3>1. rank[i] \in 1..m /\ rank[j] \in 1..m
      BY <1>4
    <3> QED BY <1>3, <3>1
  <2> HIDE DEF A, B, rank
  <2>4. Cardinality(A) <= Cardinality(B) /\ Cardinality(A) /= Cardinality(B)
    BY <2>1, <2>2, FS_Subset
  <2> QED BY <2>2, <2>3, <2>4
<1> HIDE DEF m
<1>6. rank \in Injection(P, 1..m)
  <2>1. \A i, j \in P : i /= j => rank[i] /= rank[j]
    <3> SUFFICES ASSUME NEW i \in P, NEW j \in P, i /= j PROVE rank[i] /= rank[j]
      OBVIOUS
    <3>1. i < j \/ j < i
      BY <1>2
    <3>2. rank[i] \in 1..m /\ rank[j] \in 1..m
      BY <1>4
    <3> HIDE DEF rank
    <3>3. rank[i] \in Nat /\ rank[j] \in Nat
      BY <1>3, <3>2
    <3>4. rank[i] < rank[j] \/ rank[j] < rank[i]
      BY <1>5, <3>1
    <3> QED BY <3>3, <3>4
  <2>2. rank \in [P -> 1..m]
    BY <1>4
  <2> QED BY <2>1, <2>2 DEF Injection, IsInjective
<1>7. \A k \in 1..m : \E i \in P : rank[i] = k
  <2>1. IsFiniteSet(1..m) /\ Cardinality(1..m) = m
    BY <1>3, FirstNumbers
  <2>2. rank \in Surjection(P, 1..m)
    BY <1>6, <2>1, FS_Injection DEF m
  <2> QED BY <2>2 DEF Surjection
<1>8. \A k \in 1..m : at[k] \in P /\ rank[at[k]] = k
  BY <1>7
<1> HIDE DEF at
<1>9. at \in [1..m -> P]
  BY <1>8 DEF at
<1>10. ASSUME NEW k \in 1..m, NEW l \in 1..m, k < l
       PROVE  at[k] < at[l]
  <2>1. at[k] \in P /\ at[l] \in P /\ rank[at[k]] = k /\ rank[at[l]] = l
    BY <1>8
  <2>2. ~(l < k) /\ k /= l
    BY <1>3, <1>10
  <2>3. ~(at[l] < at[k]) /\ at[l] /= at[k]
    <3> HIDE DEF rank
    <3> QED BY <1>5, <2>1, <2>2
  <2> QED BY <1>2, <2>1, <2>3
<1>11. at \in Bijection(1..m, P)
  <2>1. \A k, l \in 1..m : k /= l => at[k] /= at[l]
    BY <1>8
  <2>2. \A i \in P : \E k \in 1..m : at[k] = i
    <3> SUFFICES ASSUME NEW i \in P PROVE at[rank[i]] = i
      BY <1>4
    <3>1. rank[i] \in 1..m
      BY <1>4
    <3>2. at[rank[i]] \in P /\ rank[at[rank[i]]] = rank[i]
      BY <1>8, <3>1
    <3> QED BY <1>6, <3>2 DEF Injection, IsInjective
  <2> QED BY <1>9, <2>1, <2>2 DEF Bijection, Injection, Surjection, IsInjective
<1>12. Filtered(s, S) = [k \in 1..m |-> s[at[k]]]
  BY DEF Filtered, at, m, P
<1>13. Filtered(s, S) \in Seq(X) /\ Len(Filtered(s, S)) = m
  <2>1. \A k \in 1..m : s[at[k]] \in X
    BY <1>2, <1>8
  <2> QED BY <1>3, <1>12, <2>1
<1>14. \A k \in 1..m : Cardinality(P \cap 1..at[k]) = k
  BY <1>4, <1>8
<1> QED BY <1>3, <1>10, <1>11, <1>12, <1>13, <1>14 DEF P

\* What is left, and that nothing is left twice.
LEMMA FilteredFacts ==
  ASSUME NEW X, NEW s \in Seq(X), NEW S
  PROVE  /\ Filtered(s, S) \in Seq(X) /\ Len(Filtered(s, S)) <= Len(s)
         /\ ToSet(Filtered(s, S)) = ToSet(s) \cap S
         /\ \A k, l \in DOMAIN Filtered(s, S) :
               k /= l => \E i, j \in DOMAIN s : /\ i /= j /\ s[i] = Filtered(s, S)[k]
                                                /\ s[j] = Filtered(s, S)[l]
<1> DEFINE f == Filtered(s, S)
<1>1. PICK at \in Bijection(1..Len(f), Positions(s, S)) : \A k \in 1..Len(f) : f[k] = s[at[k]]
  BY FilteredPlaces
<1>2. f \in Seq(X) /\ Len(f) <= Len(s) /\ DOMAIN f = 1..Len(f)
  BY FilteredPlaces
<1> HIDE DEF f
<1>3. /\ \A k \in DOMAIN f : at[k] \in DOMAIN s /\ s[at[k]] \in S
      /\ \A k, l \in DOMAIN f : k /= l => at[k] /= at[l]
      /\ \A i \in DOMAIN s : s[i] \in S => \E k \in DOMAIN f : at[k] = i
  BY <1>1, <1>2 DEF Bijection, Injection, Surjection, IsInjective, Positions
<1>4. ToSet(f) = ToSet(s) \cap S
  BY <1>1, <1>2, <1>3 DEF ToSet
<1> QED BY <1>1, <1>2, <1>3, <1>4 DEF f

-----------------------------------------------------------------------------
(* The push messages *)

\* The parts of the type that the others rest on.
PushTypes ==
    /\ open \subseteq Reserved /\ vapid \in {1, 2}
    /\ rows \in [Reserved -> Seq(Sub)]
    /\ sends \in 0..MaxSends /\ tries \subseteq Request /\ refused \subseteq Request
    /\ live \in Sub \cup {NoSub} /\ given \in 0..MaxSubs
    /\ offer \in {0, 1, 2} /\ completed \in BOOLEAN
    /\ work \in Work /\ late \subseteq Request
    /\ confirmed \subseteq Fingerprint /\ lost \subseteq Reserved \X Endpoint

\* A booking has one row for each endpoint, and not too many.
NoneTwice(subs) ==
    \A i, j \in DOMAIN subs : subs[i].endpoint = subs[j].endpoint => i = j
RowsAreFew == \A b \in Reserved : NoneTwice(rows[b]) /\ Len(rows[b]) <= Keep

\* The subscriptions there are, wherever they are known.
Known ==
    {s \in Sub \cup {NoSub} :
        \/ s = NoSub \/ s = live \/ s = work.sub
        \/ \E b \in Reserved : s \in ToSet(rows[b])
        \/ \E request \in tries \cup refused \cup late : s = request.sub}

\* The browser never has the same keys twice.
KeysAreOwn ==
    /\ \A s \in Known : s.keys <= given
    /\ \A s, t \in Known : s.keys = t.keys => s = t

\* The server has the endpoint, or has given it up for cause.
Held(b, endpoint) == endpoint \in Endpoints(rows[b]) \/ <<b, endpoint>> \in lost

\* The page has work with a subscription, and its bookings are registered one by one.
WorkIsTrue ==
    /\ work.left \subseteq work.for
    /\ work.at = "idle" => work = Idle
    /\ work.at /= "idle" => work.key /= 0
    /\ work.at = "subscribe" => work.left = work.for
    /\ work.at \in {"register", "wait"} =>
         /\ work.sub \in Sub
         /\ \A b \in work.for \ work.left : Held(b, work.sub.endpoint)

PushInv ==
    PushTypes /\ RowsAreFew /\ KeysAreOwn /\ WorkIsTrue /\ PushIsHeld
-----------------------------------------------------------------------------
LEMMA NothingKnown ==
  /\ NoSub.keys = 0 /\ NoSub.vapid = 0 /\ Idle.at = "idle" /\ Idle.sub = NoSub /\ Idle.for = {} /\ Idle.left = {}
  /\ Idle \in Work
  /\ \A s \in Sub : s.keys >= 1 /\ s.endpoint \in Endpoint /\ s.keys \in 1..MaxSubs
BY DEF NoSub, Idle, Work, Sub

LEMMA PushBegins == PushInit => PushInv
<1> SUFFICES ASSUME PushInit PROVE PushInv
  OBVIOUS
<1>1. PushTypes
  <2>1. rows \in [Reserved -> Seq(Sub)]
    BY DEF PushInit
  <2>2. 0 \in 0..MaxSends /\ 0 \in 0..MaxSubs
    BY PushAssumption
  <2> QED BY <2>1, <2>2, NothingKnown DEF PushInit, PushTypes
<1>2. RowsAreFew
  BY PushAssumption DEF PushInit, RowsAreFew, NoneTwice
<1>3. Known = {NoSub}
  <2>1. \A b \in Reserved : ToSet(rows[b]) = {}
    BY DEF PushInit, ToSet
  <2> QED BY <2>1, NothingKnown DEF PushInit, Known
<1>4. KeysAreOwn
  BY <1>3, NothingKnown DEF PushInit, KeysAreOwn
<1>5. WorkIsTrue /\ PushIsHeld
  BY NothingKnown DEF PushInit, WorkIsTrue, PushIsHeld
<1> QED BY <1>1, <1>2, <1>4, <1>5 DEF PushInv

\* Nothing becomes known that was not, or is new.
LEMMA KeysStayOwn ==
  ASSUME PushInv, given' \in Nat, given' >= given,
         \A s \in Known' : s \in Known \/ (s.keys = given' /\ given' > given /\ s = live')
  PROVE  KeysAreOwn'
<1>1. given \in Nat /\ \A s \in Known : s.keys \in Nat
  <2>1. \A s \in Known : s \in Sub \cup {NoSub}
    BY DEF Known
  <2> QED BY <2>1, NothingKnown, PushAssumption DEF PushInv, PushTypes
<1>2. /\ \A s \in Known : s.keys <= given
      /\ \A s, t \in Known : s.keys = t.keys => s = t
  BY DEF PushInv, KeysAreOwn
<1> HIDE DEF Known
<1> DEFINE after == Known'
<1>3. \A s \in after : s \in Known \/ (s.keys = given' /\ given' > given /\ s = live')
  OBVIOUS
<1> HIDE DEF after
<1>4. \A s \in after : s.keys <= given'
  BY <1>1, <1>2, <1>3
<1>5. \A s, t \in after : s.keys = t.keys => s = t
  BY <1>1, <1>2, <1>3
<1> QED BY <1>4, <1>5 DEF KeysAreOwn, after

-----------------------------------------------------------------------------
(* Rows *)

\* As many rows as endpoints.
LEMMA EndpointsCounted ==
  ASSUME NEW subs \in Seq(Sub), NoneTwice(subs)
  PROVE  IsFiniteSet(Endpoints(subs)) /\ Cardinality(Endpoints(subs)) = Len(subs)
<1> DEFINE n == Len(subs)
           of == [i \in 1..n |-> subs[i].endpoint]
<1>1. n \in Nat /\ DOMAIN subs = 1..n
  OBVIOUS
<1>2. of \in Bijection(1..n, Endpoints(subs))
  BY <1>1 DEF Bijection, Injection, Surjection, IsInjective, Endpoints, NoneTwice
<1>3. IsFiniteSet(1..n) /\ Cardinality(1..n) = n
  BY <1>1, FirstNumbers
<1>4. ExistsBijection(1..n, Endpoints(subs))
  BY <1>2 DEF ExistsBijection
<1> QED BY <1>3, <1>4, FS_Bijection

LEMMA RowsFiltered ==
  ASSUME NEW subs \in Seq(Sub), NoneTwice(subs), NEW S
  PROVE  /\ Filtered(subs, S) \in Seq(Sub) /\ NoneTwice(Filtered(subs, S))
         /\ ToSet(Filtered(subs, S)) = ToSet(subs) \cap S
         /\ Len(Filtered(subs, S)) <= Len(subs)
         /\ \A e : e \in Endpoints(Filtered(subs, S)) <=>
                     \E s \in ToSet(subs) \cap S : s.endpoint = e
<1> DEFINE f == Filtered(subs, S)
<1>1. f \in Seq(Sub) /\ ToSet(f) = ToSet(subs) \cap S /\ Len(f) <= Len(subs)
  BY FilteredFacts
<1>2. \A k, l \in DOMAIN f :
         k /= l => \E i, j \in DOMAIN subs : i /= j /\ subs[i] = f[k] /\ subs[j] = f[l]
  BY FilteredFacts
<1> HIDE DEF f
<1>3. NoneTwice(f)
  BY <1>2 DEF NoneTwice
<1>4. \A e : e \in Endpoints(f) <=> \E s \in ToSet(f) : s.endpoint = e
  BY DEF Endpoints, ToSet
<1> QED BY <1>1, <1>3, <1>4 DEF f

\* What a registration leaves: the new row and the newest others, as many as there may
\* be; another endpoint is given up only for as many newer ones.
LEMMA KeptFacts ==
  ASSUME NEW b \in Reserved, rows[b] \in Seq(Sub), NoneTwice(rows[b]), NEW sub \in Sub
  PROVE  LET kept == Kept(b, sub)
         IN  /\ kept \in Seq(Sub) /\ NoneTwice(kept) /\ Len(kept) <= Keep
             /\ ToSet(kept) \subseteq ToSet(rows[b]) \cup {sub}
             /\ sub.endpoint \in Endpoints(kept)
             /\ \A e \in Endpoints(rows[b]) : e \in Endpoints(kept) \/ Len(kept) = Keep
<1> DEFINE e0 == sub.endpoint
           previous == Others(b, e0)
           upserted == Upserted(b, sub)
           newest == DOMAIN previous \cap 1..Keep - 1
           names == {e0} \cup {previous[i].endpoint : i \in newest}
           among == {s \in Sub : s.endpoint \in names}
           kept == Filtered(upserted, among)
<1>1. /\ previous \in Seq(Sub) /\ NoneTwice(previous)
      /\ ToSet(previous) = ToSet(rows[b]) \cap {s \in Sub : s.endpoint /= e0}
      /\ \A e : e \in Endpoints(previous) <=>
                  \E s \in ToSet(rows[b]) \cap {t \in Sub : t.endpoint /= e0} : s.endpoint = e
  BY RowsFiltered DEF Others
<1>2. ToSet(rows[b]) \subseteq Sub
  BY DEF ToSet
<1> HIDE DEF previous
<1>3. \A i \in DOMAIN previous : previous[i].endpoint /= e0 /\ previous[i] \in ToSet(rows[b])
  <2>1. \A i \in DOMAIN previous : previous[i] \in ToSet(previous)
    BY DEF ToSet
  <2> QED BY <1>1, <2>1
<1>4. /\ upserted \in Seq(Sub) /\ NoneTwice(upserted)
      /\ ToSet(upserted) \subseteq ToSet(rows[b]) \cup {sub}
      /\ \A e : e \in Endpoints(upserted) <=> e = e0 \/ e \in Endpoints(previous)
  <2>1. CASE sub \in ToSet(rows[b])
    <3>1. upserted = rows[b]
      BY <2>1 DEF Upserted
    <3>2. \A e : e \in Endpoints(rows[b]) <=> \E s \in ToSet(rows[b]) : s.endpoint = e
      BY DEF Endpoints, ToSet
    <3>3. \A e : e \in Endpoints(rows[b]) <=> e = e0 \/ e \in Endpoints(previous)
      BY <1>1, <1>2, <2>1, <3>2
    <3> HIDE DEF upserted
    <3> QED BY <3>1, <3>3
  <2>2. CASE sub \notin ToSet(rows[b])
    <3>1. upserted = <<sub>> \o previous
      BY <2>2 DEF Upserted, previous
    <3>2. /\ upserted \in Seq(Sub) /\ Len(upserted) = Len(previous) + 1
          /\ \A i \in 1..Len(upserted) :
                upserted[i] = IF i = 1 THEN sub ELSE previous[i - 1]
      BY <1>1, <3>1
    <3> HIDE DEF upserted
    <3>3. Len(previous) \in Nat /\ DOMAIN previous = 1..Len(previous)
          /\ DOMAIN upserted = 1..Len(upserted)
      BY <1>1, <3>2
    <3>4. \A i \in DOMAIN upserted :
             \/ i = 1 /\ upserted[i] = sub
             \/ i - 1 \in DOMAIN previous /\ upserted[i] = previous[i - 1]
      BY <3>2, <3>3
    <3>5. NoneTwice(upserted)
      <4> SUFFICES ASSUME NEW i \in DOMAIN upserted, NEW j \in DOMAIN upserted,
                          upserted[i].endpoint = upserted[j].endpoint
                   PROVE  i = j
        BY DEF NoneTwice
      <4>1. i \in Nat /\ j \in Nat
        BY <3>3
      <4> QED BY <1>1, <1>3, <3>4, <4>1 DEF NoneTwice
    <3>6. ToSet(upserted) \subseteq ToSet(rows[b]) \cup {sub}
      BY <1>3, <3>4 DEF ToSet
    <3>7. ASSUME NEW e PROVE e \in Endpoints(upserted) <=> e = e0 \/ e \in Endpoints(previous)
      <4>1. 1 \in DOMAIN upserted /\ upserted[1] = sub
        BY <3>2, <3>3
      <4>2. \A i \in DOMAIN previous : i + 1 \in DOMAIN upserted /\ upserted[i + 1] = previous[i]
        BY <3>2, <3>3
      <4> QED BY <3>4, <4>1, <4>2 DEF Endpoints
    <3> QED BY <3>2, <3>5, <3>6, <3>7
  <2> QED BY <2>1, <2>2
<1> HIDE DEF upserted, names, newest
<1>5. /\ kept \in Seq(Sub) /\ NoneTwice(kept)
      /\ ToSet(kept) \subseteq ToSet(upserted)
      /\ \A e : e \in Endpoints(kept) <=>
                  \E s \in ToSet(upserted) : s \in Sub /\ s.endpoint \in names /\ s.endpoint = e
  <2>1. /\ kept \in Seq(Sub) /\ NoneTwice(kept) /\ ToSet(kept) = ToSet(upserted) \cap among
        /\ \A e : e \in Endpoints(kept)
                     <=> \E s \in ToSet(upserted) \cap among : s.endpoint = e
    <3> HIDE DEF among
    <3> QED BY <1>4, RowsFiltered
  <2> QED BY <2>1
<1> HIDE DEF kept
<1>6. \A e : e \in Endpoints(upserted) <=> \E s \in ToSet(upserted) : s.endpoint = e
  BY DEF Endpoints, ToSet
<1>7. ToSet(upserted) \subseteq Sub
  BY <1>4 DEF ToSet
<1>8. names \subseteq Endpoints(upserted)
  <2>1. \A i \in newest : previous[i].endpoint \in Endpoints(previous)
    BY DEF newest, Endpoints
  <2> QED BY <1>4, <2>1 DEF names
<1>9. Endpoints(kept) = names
  BY <1>5, <1>6, <1>7, <1>8
<1>10. /\ IsFiniteSet(names) /\ Cardinality(names) = Len(kept)
  BY <1>5, <1>9, EndpointsCounted
<1>11. PICK first \in Seq(Sub) :
          /\ NoneTwice(first) /\ Endpoints(first) = names \ {e0}
          /\ Len(first) <= Keep - 1
          /\ Len(first) = Keep - 1 \/ Len(first) = Len(previous)
  <2> DEFINE m == IF Len(previous) < Keep - 1 THEN Len(previous) ELSE Keep - 1
             first == [i \in 1..m |-> previous[i]]
  <2>1. /\ Len(previous) \in Nat /\ DOMAIN previous = 1..Len(previous)
        /\ Keep - 1 \in Nat
    BY <1>1, PushAssumption
  <2>2. m \in Nat /\ newest = 1..m
    BY <2>1 DEF newest
  <2>3. m <= Keep - 1 /\ (m = Keep - 1 \/ m = Len(previous)) /\ m <= Len(previous)
    BY <2>1
  <2> HIDE DEF m
  <2>4. \A i \in 1..m : i \in DOMAIN previous /\ previous[i] \in Sub
    <3> DEFINE l == Len(previous)
    <3>1. l \in Nat /\ DOMAIN previous = 1..l
      BY <2>1
    <3>2. m \in Nat /\ m <= l
      BY <2>2, <2>3
    <3> HIDE DEF l
    <3>3. \A i \in 1..m : i \in 1..l
      BY <3>1, <3>2
    <3>4. \A i \in DOMAIN previous : previous[i] \in Sub
      BY <1>1
    <3> QED BY <3>1, <3>3, <3>4
  <2>5. first \in Seq(Sub) /\ Len(first) = m /\ DOMAIN first = 1..m
    BY <2>2, <2>4
  <2>6. NoneTwice(first)
    BY <1>1, <2>4, <2>5 DEF NoneTwice
  <2>7. Endpoints(first) = names \ {e0}
    BY <1>3, <2>2, <2>4, <2>5 DEF Endpoints, names
  <2> QED BY <2>3, <2>5, <2>6, <2>7
<1>12. e0 \in names
  BY DEF names
<1>13. Len(kept) = Len(first) + 1 /\ Len(first) \in Nat
  <2>1. IsFiniteSet(names \ {e0}) /\ Cardinality(names \ {e0}) = Len(first)
    BY <1>11, EndpointsCounted
  <2>2. Cardinality(names \ {e0}) = Cardinality(names) - 1 /\ Cardinality(names) \in Nat
    BY <1>10, <1>12, FS_RemoveElement, FS_CardinalityType
  <2>3. Len(first) \in Nat
    BY <1>11
  <2> QED BY <1>10, <2>1, <2>2, <2>3
<1>14. Len(kept) <= Keep
  BY <1>11, <1>13, PushAssumption
<1>15. ASSUME NEW e \in Endpoints(rows[b]), e \notin Endpoints(kept)
       PROVE  Len(kept) = Keep
  <2>1. PICK s \in ToSet(rows[b]) : s.endpoint = e
    BY DEF Endpoints, ToSet
  <2>2. e \in Endpoints(previous)
    BY <1>1, <1>2, <1>9, <1>12, <1>15, <2>1
  <2>3. PICK i \in DOMAIN previous : previous[i].endpoint = e
    BY <2>2 DEF Endpoints
  <2>4. i \notin newest
    BY <1>9, <1>15, <2>3 DEF names
  <2>5. Len(previous) \in Nat /\ i \in 1..Len(previous)
    BY <1>1
  <2>6. i > Keep - 1
    BY <2>4, <2>5, PushAssumption DEF newest
  <2> QED BY <1>11, <1>13, <2>5, <2>6, PushAssumption
<1>16. kept = Kept(b, sub)
  BY DEF Kept, kept, among, upserted, names, newest, previous
<1> QED BY <1>4, <1>5, <1>9, <1>12, <1>14, <1>15, <1>16

-----------------------------------------------------------------------------
(* What a step leaves *)

\* No subscription becomes known.
LEMMA KnownStays ==
  ASSUME PushInv, given' = given, live' \in Known, (work.sub)' \in Known,
         \A b \in Reserved : ToSet(rows[b])' \subseteq Known,
         \A request \in (tries \cup refused \cup late)' : request.sub \in Known
  PROVE  KeysAreOwn'
<1>1. NoSub \in Known
  BY DEF Known
<1>2. given \in Nat
  BY PushAssumption DEF PushInv, PushTypes
<1>3. \A s \in Known' : s \in Known
  <2> DEFINE all == Known
  <2>1. Known' = {s \in Sub \cup {NoSub} :
                    \/ s = NoSub \/ s = live' \/ s = (work.sub)'
                    \/ \E b \in Reserved : s \in ToSet(rows[b])'
                    \/ \E request \in (tries \cup refused \cup late)' : s = request.sub}
    BY DEF Known
  <2> HIDE DEF all
  <2> QED BY <1>1, <2>1
<1> QED BY <1>2, <1>3, KeysStayOwn

\* What the server has, or gave up for cause, and what the page knows of it.
HeldStay == \A b \in Reserved, e \in Endpoint : Held(b, e) => Held(b, e)'

LEMMA WorkStays ==
  ASSUME PushInv, HeldStay, work' \in {work, Idle}
  PROVE  WorkIsTrue'
<1>1. CASE work' = Idle
  BY <1>1, NothingKnown DEF WorkIsTrue
<1>2. CASE work' = work
  <2>1. work.sub \in Sub => work.sub.endpoint \in Endpoint
    BY NothingKnown
  <2>2. work.for \subseteq Reserved
    BY DEF PushInv, PushTypes, Work
  <2> QED BY <1>2, <2>1, <2>2 DEF PushInv, WorkIsTrue, HeldStay
<1> QED BY <1>1, <1>2

LEMMA PrintsStay ==
  ASSUME PushInv, HeldStay, confirmed' = confirmed
  PROVE  PushIsHeld'
<1>1. \A print \in confirmed : print[1] \in Reserved /\ print[3] \in Endpoint
  BY DEF PushInv, PushTypes, Fingerprint
<1>2. ASSUME NEW print \in confirmed PROVE Held(print[1], print[3])'
  <2>1. Held(print[1], print[3])
    BY Zenon DEF PushInv, PushIsHeld, Held
  <2> QED BY <1>1, <2>1, Zenon DEF HeldStay
<1> QED BY <1>2, Zenon DEF PushIsHeld, Held

\* What is known now.
LEMMA KnownNow ==
  ASSUME PushInv
  PROVE  /\ NoSub \in Known /\ live \in Known /\ work.sub \in Known
         /\ \A b \in Reserved : ToSet(rows[b]) \subseteq Known
         /\ \A request \in tries \cup refused \cup late : request.sub \in Known
<1>1. live \in Sub \cup {NoSub} /\ work.sub \in Sub \cup {NoSub}
  BY DEF PushInv, PushTypes, Work
<1>2. \A b \in Reserved : rows[b] \in Seq(Sub) /\ ToSet(rows[b]) \subseteq Sub
  BY DEF PushInv, PushTypes, ToSet
<1>3. \A request \in tries \cup refused \cup late : request.sub \in Sub
  BY DEF PushInv, PushTypes, Request
<1> QED BY <1>1, <1>2, <1>3 DEF Known

\* Steps that touch no row, and make no subscription.
LEMMA RowsStay ==
  ASSUME PushInv, PushTypes', rows' = rows, lost' = lost, given' = given,
         live' \in {live, NoSub}, work' \in {work, Idle}, confirmed' = confirmed,
         \A request \in (tries \cup refused \cup late)' : request.sub \in Known
  PROVE  PushInv'
<1>1. HeldStay
  BY DEF HeldStay, Held, Endpoints
<1>2. RowsAreFew'
  BY DEF PushInv, RowsAreFew, NoneTwice
<1>3. KeysAreOwn'
  <2>1. live' \in Known /\ (work.sub)' \in Known
    BY KnownNow, NothingKnown
  <2>2. \A b \in Reserved : ToSet(rows[b])' \subseteq Known
    BY KnownNow DEF ToSet
  <2> QED BY <2>1, <2>2, KnownStays
<1> QED BY <1>1, <1>2, <1>3, WorkStays, PrintsStay DEF PushInv

-----------------------------------------------------------------------------
(* One step *)

LEMMA MessageSteps ==
  ASSUME PushInv, NEW b \in Reserved, SendBookingNotification(b)
  PROVE  PushInv'
<1>1. ToSet(rows[b]) \subseteq Sub
  BY DEF PushInv, PushTypes, ToSet
<1>2. sends' \in 0..MaxSends
  BY PushAssumption DEF PushInv, PushTypes, SendBookingNotification
<1>3. {[booking |-> b, sub |-> s] : s \in ToSet(rows[b])} \subseteq Request
  BY <1>1 DEF Request
<1>4. PushTypes'
  BY <1>2, <1>3 DEF PushInv, PushTypes, SendBookingNotification, pushPage
<1>5. \A request \in (tries \cup refused \cup late)' : request.sub \in Known
  <2>1. \A request \in {[booking |-> b, sub |-> s] : s \in ToSet(rows[b])} : request.sub \in Known
    BY KnownNow
  <2> QED BY <2>1, KnownNow DEF SendBookingNotification
<1> QED BY <1>4, <1>5, RowsStay DEF SendBookingNotification, pushPage

LEMMA SmallSteps ==
  ASSUME PushInv,
         \/ ChangeKey \/ Offer \/ Forget \/ GiveUp
         \/ \E b \in Reserved : Close(b)
         \/ \E request \in late : RegisterFails(request)
         \/ \E try \in tries : Send(try)
  PROVE  PushInv'
<1> USE KnownNow, NothingKnown
<1>1. CASE ChangeKey
  <2>1. PushTypes'
    BY <1>1 DEF PushInv, PushTypes, ChangeKey, pushPage
  <2> QED BY <1>1, <2>1, RowsStay DEF ChangeKey, pushPage
<1>2. CASE Offer
  <2>1. PushTypes'
    BY <1>2 DEF PushInv, PushTypes, Offer, pushServer
  <2> QED BY <1>2, <2>1, RowsStay DEF Offer, pushServer
<1>3. CASE Forget
  <2>1. PushTypes'
    BY <1>3 DEF PushInv, PushTypes, Forget, pushServer
  <2> QED BY <1>3, <2>1, RowsStay DEF Forget, pushServer
<1>4. CASE GiveUp
  <2>1. PushTypes'
    BY <1>4 DEF PushInv, PushTypes, GiveUp, pushServer
  <2> QED BY <1>4, <2>1, RowsStay DEF GiveUp, pushServer
<1>5. ASSUME NEW b \in Reserved, Close(b) PROVE PushInv'
  <2>1. PushTypes'
    BY <1>5 DEF PushInv, PushTypes, Close, pushPage
  <2> QED BY <1>5, <2>1, RowsStay DEF Close, pushPage
<1>6. ASSUME NEW request \in late, RegisterFails(request) PROVE PushInv'
  <2>1. work' \in {work, Idle}
    BY <1>6 DEF RegisterFails
  <2>2. PushTypes'
    BY <1>6, <2>1 DEF PushInv, PushTypes, RegisterFails, pushServer
  <2> QED BY <1>6, <2>1, <2>2, RowsStay DEF RegisterFails, pushServer
<1>7. ASSUME NEW try \in tries, Send(try) PROVE PushInv'
  <2>1. tries' \subseteq tries /\ refused' \subseteq refused \cup {try}
    BY <1>7 DEF Send
  <2>2. PushTypes'
    BY <1>7, <2>1 DEF PushInv, PushTypes, Send, pushPage
  <2>3. \A request \in (tries \cup refused \cup late)' : request.sub \in Known
    BY <1>7, <2>1 DEF Send
  <2> QED BY <1>7, <2>2, <2>3, RowsStay DEF Send, pushPage
<1> QED BY <1>1, <1>2, <1>3, <1>4, <1>5, <1>6, <1>7

LEMMA EnableSteps ==
  ASSUME PushInv, EnableNotifications
  PROVE  PushInv'
<1>1. work' = [at |-> "subscribe", key |-> offer, sub |-> NoSub, for |-> open, left |-> open]
  BY DEF EnableNotifications, Idle
<1>2. offer \in {1, 2} /\ open \subseteq Reserved
  BY DEF EnableNotifications, PushInv, PushTypes
<1>3. PushTypes'
  <2>1. work' \in Work
    BY <1>1, <1>2 DEF Work
  <2> QED BY <2>1 DEF PushInv, PushTypes, EnableNotifications, pushServer
<1>4. HeldStay
  BY DEF HeldStay, Held, Endpoints, EnableNotifications, pushServer
<1>5. RowsAreFew'
  BY DEF PushInv, RowsAreFew, NoneTwice, EnableNotifications, pushServer
<1>6. KeysAreOwn'
  <2>1. \A b \in Reserved : ToSet(rows[b])' \subseteq Known
    BY KnownNow DEF ToSet, EnableNotifications, pushServer
  <2> QED BY <1>1, <2>1, KnownNow, KnownStays DEF EnableNotifications, pushServer
<1>7. WorkIsTrue'
  BY <1>1, <1>2 DEF WorkIsTrue
<1>8. PushIsHeld'
  BY <1>4, PrintsStay DEF EnableNotifications
<1> QED BY <1>3, <1>5, <1>6, <1>7, <1>8 DEF PushInv

\* The browser subscribes, and may get new keys.
LEMMA SubscribeSteps ==
  ASSUME PushInv, Subscribe
  PROVE  PushInv'
<1>1. /\ work.at = "subscribe" /\ work.key \in {1, 2} /\ work.left = work.for
      /\ work \in Work
  BY DEF PushInv, PushTypes, WorkIsTrue, Work, Subscribe
<1>2. \/ live' = live /\ given' = given /\ live.vapid = work.key
      \/ /\ given' = given + 1 /\ given' \in 1..MaxSubs
         /\ \E e \in Endpoint : live' = [endpoint |-> e, keys |-> given', vapid |-> work.key]
  BY PushAssumption DEF Subscribe, PushInv, PushTypes
<1>3. live' \in Sub /\ given' \in 0..MaxSubs
  <2>1. live \in Sub \cup {NoSub} /\ given \in 0..MaxSubs
    BY DEF PushInv, PushTypes
  <2>2. live.vapid = work.key => live # NoSub
    <3> HIDE DEF NoSub
    <3> QED BY <1>1, NothingKnown
  <2> QED BY <1>1, <1>2, <2>1, <2>2 DEF Sub
<1>4. work' = [at |-> "register", key |-> work.key, sub |-> live', for |-> work.for,
               left |-> work.left]
  BY <1>1 DEF Work, Subscribe
<1>5. PushTypes'
  <2>1. work' \in Work
    BY <1>1, <1>3, <1>4 DEF Work
  <2> QED BY <1>3, <2>1 DEF PushInv, PushTypes, Subscribe, pushServer
<1>6. HeldStay
  BY DEF HeldStay, Held, Endpoints, Subscribe, pushServer
<1>7. RowsAreFew'
  BY DEF PushInv, RowsAreFew, NoneTwice, Subscribe, pushServer
<1>8. given \in Nat /\ given' \in Nat /\ given' >= given
  BY <1>2, PushAssumption DEF PushInv, PushTypes
<1>9. live' \in Known \/ (live'.keys = given' /\ given' > given)
  BY <1>2, <1>8, KnownNow
<1>10. KeysAreOwn'
  <2>1. \A s \in Known' : s \in Known \/ s = live'
    <3>1. rows' = rows /\ (tries \cup refused \cup late)' = tries \cup refused \cup late
      BY DEF Subscribe, pushServer
    <3>2. (work.sub)' = live'
      BY <1>4
    <3> DEFINE all == Known
    <3>3. Known' = {s \in Sub \cup {NoSub} :
                      \/ s = NoSub \/ s = live' \/ s = (work.sub)'
                      \/ \E b \in Reserved : s \in ToSet(rows[b])'
                      \/ \E request \in (tries \cup refused \cup late)' : s = request.sub}
      BY DEF Known
    <3>4. \A b \in Reserved : ToSet(rows[b])' = ToSet(rows[b])
      BY <3>1 DEF ToSet
    <3>5. /\ NoSub \in all /\ \A b \in Reserved : ToSet(rows[b]) \subseteq all
          /\ \A request \in tries \cup refused \cup late : request.sub \in all
      BY KnownNow
    <3> HIDE DEF all
    <3>6. \A s \in Known' : s \in all \/ s = live'
      BY <3>1, <3>2, <3>3, <3>4, <3>5
    <3> QED BY <3>6 DEF all
  <2> QED BY <1>8, <1>9, <2>1, KeysStayOwn
<1>11. WorkIsTrue'
  BY <1>1, <1>3, <1>4 DEF WorkIsTrue
<1>12. PushIsHeld'
  BY <1>6, PrintsStay DEF Subscribe
<1> QED BY <1>5, <1>7, <1>10, <1>11, <1>12 DEF PushInv

LEMMA AskSteps ==
  ASSUME PushInv, NEW b \in Reserved, Ask(b)
  PROVE  PushInv'
<1>1. work.at = "register" /\ work.sub \in Sub /\ work \in Work
  BY DEF PushInv, PushTypes, WorkIsTrue, Ask
<1>2. work' = [at |-> "wait", key |-> work.key, sub |-> work.sub, for |-> work.for,
               left |-> work.left]
  BY <1>1 DEF Work, Ask
<1>3. late' = late \cup {[booking |-> b, sub |-> work.sub]}
  BY DEF Ask
<1>4. PushTypes'
  <2>1. work' \in Work
    BY <1>1, <1>2 DEF Work
  <2>2. late' \subseteq Request
    BY <1>1, <1>3 DEF Request, PushInv, PushTypes
  <2> QED BY <2>1, <2>2 DEF PushInv, PushTypes, Ask, pushServer
<1>5. HeldStay
  BY DEF HeldStay, Held, Endpoints, Ask, pushServer
<1>6. RowsAreFew'
  BY DEF PushInv, RowsAreFew, NoneTwice, Ask, pushServer
<1>7. KeysAreOwn'
  <2>1. \A c \in Reserved : ToSet(rows[c])' \subseteq Known
    BY KnownNow DEF ToSet, Ask, pushServer
  <2>2. \A request \in (tries \cup refused \cup late)' : request.sub \in Known
    BY <1>3, KnownNow DEF Ask, pushServer
  <2> QED BY <1>2, <2>1, <2>2, KnownNow, KnownStays DEF Ask, pushServer
<1>8. WorkIsTrue'
  <2>1. \A c \in work.for \ work.left : Held(c, work.sub.endpoint)
    BY <1>1 DEF PushInv, WorkIsTrue
  <2>2. work.left \subseteq work.for /\ work.key /= 0 /\ work.for \subseteq Reserved
    BY <1>1 DEF PushInv, WorkIsTrue, Work
  <2>3. \A c \in work.for \ work.left : Held(c, work.sub.endpoint)'
    BY <2>1 DEF Held, Endpoints, Ask, pushServer
  <2> QED BY <1>1, <1>2, <2>2, <2>3 DEF WorkIsTrue
<1>9. PushIsHeld'
  BY <1>5, PrintsStay DEF Ask
<1> QED BY <1>4, <1>6, <1>7, <1>8, <1>9 DEF PushInv

LEMMA CompleteSteps ==
  ASSUME PushInv, Complete
  PROVE  PushInv'
<1>1. /\ work.at = "register" /\ work.left = {} /\ work.sub \in Sub /\ work \in Work
      /\ work.key \in {1, 2}
  BY DEF PushInv, PushTypes, WorkIsTrue, Complete, AllRegistered, Work
<1>2. /\ confirmed' = work.for \X {work.key} \X {work.sub.endpoint}
      /\ work' = Idle /\ completed' = TRUE
  BY DEF Complete, Prints
<1>3. PushTypes'
  <2>1. work.for \subseteq Reserved /\ work.sub.endpoint \in Endpoint
    BY <1>1, NothingKnown DEF Work
  <2>2. confirmed' \subseteq Fingerprint
    BY <1>1, <1>2, <2>1 DEF Fingerprint
  <2> QED BY <1>2, <2>2, NothingKnown DEF PushInv, PushTypes, Complete, pushServer
<1>4. HeldStay
  BY DEF HeldStay, Held, Endpoints, Complete, pushServer
<1>5. RowsAreFew'
  BY DEF PushInv, RowsAreFew, NoneTwice, Complete, pushServer
<1>6. KeysAreOwn'
  <2>1. \A c \in Reserved : ToSet(rows[c])' \subseteq Known
    BY KnownNow DEF ToSet, Complete, pushServer
  <2> QED BY <1>2, <2>1, NothingKnown, KnownNow, KnownStays DEF Complete, pushServer
<1>7. WorkIsTrue'
  BY <1>2, <1>4, WorkStays
<1>8. PushIsHeld'
  <2>1. PICK e \in Endpoint : e = work.sub.endpoint
    BY <1>1, NothingKnown
  <2>2. ASSUME NEW print \in confirmed' PROVE Held(print[1], print[3])'
    <3>1. PICK c \in work.for : print[1] = c /\ print[3] = e
      BY <1>2, <2>1
    <3>2. Held(c, e) /\ c \in Reserved
      BY <1>1, <2>1 DEF PushInv, WorkIsTrue, Work
    <3>3. Held(c, e)'
      BY <1>4, <3>2 DEF HeldStay
    <3> QED BY <3>1, <3>3
  <2> QED BY <2>2, Zenon DEF PushIsHeld, Held
<1> QED BY <1>3, <1>5, <1>6, <1>7, <1>8 DEF PushInv

LEMMA RegisterSteps ==
  ASSUME PushInv, NEW request \in late, Register(request)
  PROVE  PushInv'
<1>1. PICK b \in Reserved, sub \in Sub, e \in Endpoint :
         b = request.booking /\ sub = request.sub /\ e = sub.endpoint
  BY NothingKnown DEF PushInv, PushTypes, Request
<1>2. PICK kept : kept = Kept(b, sub)
  OBVIOUS
<1>3. rows[b] \in Seq(Sub) /\ NoneTwice(rows[b])
  BY DEF PushInv, PushTypes, RowsAreFew
<1>4. /\ kept \in Seq(Sub) /\ NoneTwice(kept) /\ Len(kept) <= Keep
      /\ ToSet(kept) \subseteq ToSet(rows[b]) \cup {sub}
      /\ e \in Endpoints(kept)
      /\ \A f \in Endpoints(rows[b]) : f \in Endpoints(kept) \/ Len(kept) = Keep
  BY <1>1, <1>2, <1>3, KeptFacts
<1>5. /\ rows' \in [Reserved -> Seq(Sub)] /\ rows'[b] = kept
      /\ \A c \in Reserved : c # b => rows'[c] = rows[c]
  BY <1>1, <1>2, <1>4 DEF PushInv, PushTypes, Register
<1>6. /\ late' = late \ {request}
      /\ lost' = (lost \ {<<b, e>>}) \cup
                    (IF Len(kept) = Keep THEN {b} \X (Endpoints(rows[b]) \ Endpoints(kept)) ELSE {})
  BY <1>1, <1>5 DEF Register
<1>7. \/ work' = work
      \/ /\ work.at = "wait" /\ sub = work.sub /\ work \in Work
         /\ work' = [at |-> "register", key |-> work.key, sub |-> sub, for |-> work.for,
                     left |-> work.left \ {b}]
  <2>1. work \in Work
    BY DEF PushInv, PushTypes
  <2> QED BY <1>1, <2>1 DEF Register, Work
<1>8. HeldStay
  <2> SUFFICES ASSUME NEW c \in Reserved, NEW f \in Endpoint, Held(c, f)
               PROVE  Held(c, f)'
    BY DEF HeldStay
  <2>1. CASE c # b
    <3>1. rows'[c] = rows[c] /\ (<<c, f>> \in lost => <<c, f>> \in lost')
      BY <1>5, <1>6, <2>1
    <3> QED BY <3>1 DEF Held
  <2>2. CASE c = b /\ f = e
    BY <1>4, <1>5, <2>2 DEF Held
  <2>3. CASE c = b /\ f # e
    <3>1. CASE <<b, f>> \in lost
      BY <1>6, <2>3, <3>1 DEF Held
    <3>2. CASE f \in Endpoints(kept)
      BY <1>5, <2>3, <3>2 DEF Held
    <3>3. CASE f \in Endpoints(rows[b]) /\ f \notin Endpoints(kept)
      <4>1. <<b, f>> \in lost'
        BY <1>4, <1>6, <3>3
      <4> QED BY <2>3, <4>1 DEF Held
    <3>4. f \in Endpoints(rows[b]) \/ <<b, f>> \in lost
      BY <2>3 DEF Held
    <3> QED BY <3>1, <3>2, <3>3, <3>4
  <2> QED BY <2>1, <2>2, <2>3
<1>9. PushTypes'
  <2>1. work' \in Work
    <3>1. work \in Work
      BY DEF PushInv, PushTypes
    <3> QED BY <1>7, <3>1 DEF Work
  <2>2. Endpoints(rows[b]) \subseteq Endpoint
    BY <1>3, NothingKnown DEF Endpoints
  <2>3. lost' \subseteq Reserved \X Endpoint
    BY <1>6, <2>2 DEF PushInv, PushTypes
  <2> QED BY <1>5, <1>6, <2>1, <2>3 DEF PushInv, PushTypes, Register
<1>10. RowsAreFew'
  <2> SUFFICES ASSUME NEW c \in Reserved
               PROVE  NoneTwice(rows'[c]) /\ Len(rows'[c]) <= Keep
    BY DEF RowsAreFew, NoneTwice
  <2> QED BY <1>4, <1>5 DEF PushInv, RowsAreFew
<1>11. KeysAreOwn'
  <2>1. \A c \in Reserved : ToSet(rows[c])' \subseteq Known
    <3> SUFFICES ASSUME NEW c \in Reserved PROVE ToSet(rows'[c]) \subseteq Known
      BY DEF ToSet
    <3>1. sub \in Known
      BY <1>1, KnownNow
    <3> QED BY <1>4, <1>5, <3>1, KnownNow
  <2>2. \A r \in (tries \cup refused \cup late)' : r.sub \in Known
    BY <1>6, KnownNow DEF Register
  <2>3. (work.sub)' \in Known
    BY <1>7, KnownNow
  <2> QED BY <2>1, <2>2, <2>3, KnownNow, KnownStays DEF Register
<1>12. WorkIsTrue'
  <2>1. CASE work' = work
    BY <1>8, <2>1, WorkStays
  <2>2. CASE /\ work.at = "wait" /\ sub = work.sub /\ work \in Work
             /\ work' = [at |-> "register", key |-> work.key, sub |-> sub, for |-> work.for,
                         left |-> work.left \ {b}]
    <3>1. /\ work.left \subseteq work.for /\ work.key /= 0 /\ work.for \subseteq Reserved
          /\ \A c \in work.for \ work.left : Held(c, e)
      BY <1>1, <2>2 DEF PushInv, WorkIsTrue, Work
    <3>2. Held(b, e)'
      BY <1>4, <1>5 DEF Held
    <3>3. ASSUME NEW c \in work.for \ (work.left \ {b}) PROVE Held(c, e)'
      <4>1. CASE c = b
        BY <3>2, <4>1
      <4>2. CASE c # b
        BY <1>8, <3>1, <4>2 DEF HeldStay
      <4> QED BY <4>1, <4>2
    <3>4. \A c \in (work.for \ work.left)' : Held(c, work.sub.endpoint)'
      <4>1. (work.for \ work.left)' = work.for \ (work.left \ {b}) /\ (work.sub.endpoint)' = e
        BY <1>1, <2>2
      <4> QED BY <3>3, <4>1 DEF Held
    <3> QED BY <2>2, <3>1, <3>4 DEF WorkIsTrue
  <2> QED BY <1>7, <2>1, <2>2
<1>13. PushIsHeld'
  BY <1>8, PrintsStay DEF Register
<1> QED BY <1>9, <1>10, <1>11, <1>12, <1>13 DEF PushInv

LEMMA CleanupSteps ==
  ASSUME PushInv, NEW try \in refused, Cleanup(try)
  PROVE  PushInv'
<1>1. PICK b \in Reserved, sub \in Sub : b = try.booking /\ sub = try.sub
  BY DEF PushInv, PushTypes, Request
<1>2. PICK left : left = Filtered(rows[b], {s \in Sub : ~SameRow(s, sub)})
  OBVIOUS
<1>3. rows[b] \in Seq(Sub) /\ NoneTwice(rows[b]) /\ ToSet(rows[b]) \subseteq Sub
      /\ Len(rows[b]) <= Keep
  BY DEF PushInv, PushTypes, RowsAreFew, ToSet
<1>4. /\ left \in Seq(Sub) /\ NoneTwice(left) /\ Len(left) <= Len(rows[b])
      /\ ToSet(left) = ToSet(rows[b]) \cap {s \in Sub : ~SameRow(s, sub)}
      /\ \A e : e \in Endpoints(left) <=>
                  \E s \in ToSet(rows[b]) \cap {t \in Sub : ~SameRow(t, sub)} : s.endpoint = e
  BY <1>2, <1>3, RowsFiltered
<1>5. /\ rows' \in [Reserved -> Seq(Sub)] /\ rows'[b] = left
      /\ \A c \in Reserved : c # b => rows'[c] = rows[c]
  BY <1>1, <1>2, <1>4 DEF PushInv, PushTypes, Cleanup
<1>6. /\ refused' = refused \ {try}
      /\ lost' = IF sub \in ToSet(rows[b]) THEN lost \cup {<<b, sub.endpoint>>} ELSE lost
  BY <1>1 DEF Cleanup
\* A row that goes has the keys of the subscription that was refused, and so is it.
<1>7. HeldStay
  <2> SUFFICES ASSUME NEW c \in Reserved, NEW e \in Endpoint, Held(c, e)
               PROVE  Held(c, e)'
    BY DEF HeldStay
  <2>1. CASE c # b
    <3>1. rows'[c] = rows[c] /\ (<<c, e>> \in lost => <<c, e>> \in lost')
      BY <1>5, <1>6, <2>1
    <3> QED BY <3>1 DEF Held
  <2>2. CASE c = b /\ <<b, e>> \in lost
    BY <1>6, <2>2 DEF Held
  <2>3. CASE c = b /\ e \in Endpoints(rows[b])
    <3>1. PICK s \in ToSet(rows[b]) : s.endpoint = e
      BY <2>3 DEF Endpoints, ToSet
    <3>2. CASE ~SameRow(s, sub)
      <4>1. e \in Endpoints(left)
        BY <1>3, <1>4, <3>1, <3>2
      <4> QED BY <1>5, <2>3, <4>1 DEF Held
    <3>3. CASE SameRow(s, sub)
      <4>1. s \in Known /\ sub \in Known
        BY <1>1, KnownNow
      <4>2. s = sub
        BY <3>3, <4>1 DEF SameRow, PushInv, KeysAreOwn
      <4>3. <<b, e>> \in lost'
        BY <1>6, <3>1, <4>2
      <4> QED BY <2>3, <4>3 DEF Held
    <3> QED BY <3>2, <3>3
  <2>4. e \in Endpoints(rows[c]) \/ <<c, e>> \in lost
    BY DEF Held
  <2> QED BY <2>1, <2>2, <2>3, <2>4
<1>8. PushTypes'
  <2>1. lost' \subseteq Reserved \X Endpoint
    BY <1>6, NothingKnown DEF PushInv, PushTypes
  <2> QED BY <1>5, <1>6, <2>1 DEF PushInv, PushTypes, Cleanup, pushPage
<1>9. RowsAreFew'
  <2> SUFFICES ASSUME NEW c \in Reserved
               PROVE  NoneTwice(rows'[c]) /\ Len(rows'[c]) <= Keep
    BY DEF RowsAreFew, NoneTwice
  <2>1. Len(left) <= Keep
    BY <1>3, <1>4, PushAssumption
  <2> QED BY <1>4, <1>5, <2>1 DEF PushInv, RowsAreFew
<1>10. KeysAreOwn'
  <2>1. \A c \in Reserved : ToSet(rows[c])' \subseteq Known
    <3> SUFFICES ASSUME NEW c \in Reserved PROVE ToSet(rows'[c]) \subseteq Known
      BY DEF ToSet
    <3> QED BY <1>4, <1>5, KnownNow
  <2>2. \A r \in (tries \cup refused \cup late)' : r.sub \in Known
    BY <1>6, KnownNow DEF Cleanup
  <2> QED BY <2>1, <2>2, KnownNow, KnownStays DEF Cleanup, pushPage
<1>11. WorkIsTrue' /\ PushIsHeld'
  BY <1>7, WorkStays, PrintsStay DEF Cleanup, pushPage
<1> QED BY <1>8, <1>9, <1>10, <1>11 DEF PushInv

-----------------------------------------------------------------------------
LEMMA PushStutters == PushInv /\ UNCHANGED pushVars => PushInv'
<1> SUFFICES ASSUME PushInv, UNCHANGED pushVars PROVE PushInv'
  OBVIOUS
<1> USE DEF pushVars, pushServer, pushPage
<1>1. PushTypes'
  BY DEF PushInv, PushTypes
<1> QED BY <1>1, KnownNow, RowsStay

LEMMA PushSteps == PushInv /\ PushNext => PushInv'
<1> SUFFICES ASSUME PushInv, PushNext PROVE PushInv'
  OBVIOUS
<1>1. CASE ChangeKey \/ Offer \/ Forget \/ GiveUp
  BY <1>1, SmallSteps
<1>2. CASE EnableNotifications \/ Subscribe \/ Complete
  BY <1>2, EnableSteps, SubscribeSteps, CompleteSteps
<1>3. CASE \E b \in Reserved : Close(b) \/ SendBookingNotification(b) \/ Ask(b)
  BY <1>3, SmallSteps, MessageSteps, AskSteps
<1>4. CASE \E request \in late : Register(request) \/ RegisterFails(request)
  BY <1>4, SmallSteps, RegisterSteps
<1>5. CASE (\E try \in tries : Send(try)) \/ (\E try \in refused : Cleanup(try))
  BY <1>5, SmallSteps, CleanupSteps
<1> QED BY <1>1, <1>2, <1>3, <1>4, <1>5 DEF PushNext

LEMMA PushAlways == PushSpec => []PushInv
<1> QED BY PushBegins, PushSteps, PushStutters, PTL DEF PushSpec

\* What a page remembers as confirmed the server has, or gave up for cause.
THEOREM PushStaysHeld == PushSpec => []PushIsHeld
<1>1. PushInv => PushIsHeld
  BY DEF PushInv
<1> QED BY <1>1, PushAlways, PTL

THEOREM PushTyped == PushSpec => []PushTypeOK
<1>1. PushInv => PushTypeOK
  BY DEF PushInv, PushTypes, RowsAreFew, PushTypeOK
<1> QED BY <1>1, PushAlways, PTL

-----------------------------------------------------------------------------
(* The tokens of a guest *)

\* The parts of the type that the others rest on.
TokenTypes ==
    /\ status \in [Mine -> Standing]
    /\ stored \in Seq(Mine) /\ runtime \in Seq(Mine)
    /\ only \subseteq Mine /\ displaced \subseteq Mine /\ held \subseteq Mine

\* A visit that a list calls completed stays so.
ListsAreTrue ==
    \A b \in Mine : raw[b] = "completed" \/ poll.list[b] = "completed" => status[b] = "completed"

\* No booking has a token before it is made.
TokensAreMade ==
    \A b \in Mine : status[b] = "none" => b \notin ToSet(stored) \cup ToSet(runtime) \cup held

\* What the page knows of a live booking it has alone, or the storage has it, or newer
\* ones displaced it.
TokensAreTrue ==
    \A b \in Mine : status[b] = "live" =>
        /\ b \in ToSet(runtime) => b \in only \cup ToSet(stored) \cup displaced
        /\ b \in held => b \in ToSet(runtime) \cup displaced

TokensInv == TokenTypes /\ ListsAreTrue /\ TokensAreMade /\ TokensAreTrue
-----------------------------------------------------------------------------
(* Lists of tokens *)

LEMMA CappedFacts ==
  ASSUME NEW s \in Seq(Mine)
  PROVE  Capped(s) \in Seq(Mine) /\ ToSet(Capped(s)) \subseteq ToSet(s)
<1> DEFINE n == IF Len(s) < MaxTokens THEN Len(s) ELSE MaxTokens
<1>1. n \in 0..Len(s)
  BY TokensAssumption
<1>2. Capped(s) = SubSeq(s, 1, n)
  BY DEF Capped
<1> HIDE DEF n
<1>3. /\ Capped(s) \in Seq(Mine) /\ Len(Capped(s)) = n
      /\ \A i \in 1..n : Capped(s)[i] = s[i]
  BY <1>1, <1>2
<1>4. \A i \in 1..n : i \in DOMAIN s
  BY <1>1
<1> QED BY <1>3, <1>4 DEF ToSet

LEMMA WithoutFacts ==
  ASSUME NEW s \in Seq(Mine), NEW some
  PROVE  Without(s, some) \in Seq(Mine) /\ ToSet(Without(s, some)) = ToSet(s) \ some
<1>1. ToSet(s) \subseteq Mine
  BY DEF ToSet
<1>2. /\ Without(s, some) \in Seq(Mine)
      /\ ToSet(Without(s, some)) = ToSet(s) \cap (Mine \ some)
  BY FilteredFacts DEF Without
<1> QED BY <1>1, <1>2

LEMMA JoinedFacts ==
  ASSUME NEW s \in Seq(Mine), NEW t \in Seq(Mine)
  PROVE  s \o t \in Seq(Mine) /\ ToSet(s \o t) = ToSet(s) \cup ToSet(t)
<1> DEFINE st == s \o t
<1>1. /\ st \in Seq(Mine) /\ Len(st) = Len(s) + Len(t)
      /\ \A i \in 1..Len(s) : st[i] = s[i]
      /\ \A i \in 1..Len(t) : st[Len(s) + i] = t[i]
      /\ \A i \in 1..Len(st) : i > Len(s) => st[i] = t[i - Len(s)]
  <2>1. /\ st \in Seq(Mine) /\ Len(st) = Len(s) + Len(t)
        /\ \A i \in 1..(Len(s) + Len(t)) : st[i] = IF i <= Len(s) THEN s[i] ELSE t[i - Len(s)]
    BY ConcatProperties
  <2> HIDE DEF st
  <2> DEFINE m == Len(s)
             n == Len(t)
  <2>2. m \in Nat /\ n \in Nat
    OBVIOUS
  <2>3. Len(st) = m + n /\ \A i \in 1..(m + n) : st[i] = IF i <= m THEN s[i] ELSE t[i - m]
    BY <2>1
  <2> HIDE DEF m, n
  <2>4. /\ \A i \in 1..m : st[i] = s[i]
        /\ \A i \in 1..Len(st) : i > m => st[i] = t[i - m]
    BY <2>2, <2>3
  <2>5. ASSUME NEW i \in 1..n PROVE st[m + i] = t[i]
    <3>1. m + i \in 1..(m + n) /\ ~(m + i <= m) /\ (m + i) - m = i
      BY <2>2
    <3> QED BY <2>3, <3>1
  <2> QED BY <2>1, <2>4, <2>5 DEF m, n
<1>2. Len(s) \in Nat /\ Len(t) \in Nat
  OBVIOUS
<1>3. DOMAIN st = 1..Len(st) /\ DOMAIN s = 1..Len(s) /\ DOMAIN t = 1..Len(t)
  BY <1>1
<1> HIDE DEF st
<1> DEFINE m == Len(s)
           n == Len(t)
<1>4. m \in Nat /\ n \in Nat /\ Len(st) = m + n
  BY <1>1, <1>2
<1>5. /\ \A i \in 1..m : st[i] = s[i]
      /\ \A i \in 1..n : st[m + i] = t[i]
      /\ \A i \in 1..Len(st) : i > m => st[i] = t[i - m]
      /\ DOMAIN st = 1..Len(st) /\ DOMAIN s = 1..m /\ DOMAIN t = 1..n
  BY <1>1, <1>3
<1> HIDE DEF m, n
<1>6. ToSet(st) \subseteq ToSet(s) \cup ToSet(t)
  <2> SUFFICES ASSUME NEW i \in DOMAIN st PROVE st[i] \in ToSet(s) \cup ToSet(t)
    BY DEF ToSet
  <2>1. i \in 1..m \/ (i > m /\ i - m \in 1..n)
    BY <1>4, <1>5
  <2> QED BY <1>4, <1>5, <2>1 DEF ToSet
<1>7. ToSet(s) \cup ToSet(t) \subseteq ToSet(st)
  <2>1. \A i \in 1..m : i \in DOMAIN st
    BY <1>4, <1>5
  <2>2. \A i \in 1..n : m + i \in DOMAIN st
    BY <1>4, <1>5
  <2> QED BY <1>5, <2>1, <2>2 DEF ToSet
<1> QED BY <1>1, <1>6, <1>7 DEF st

LEMMA NewestFacts ==
  ASSUME NEW b \in Mine, NEW s \in Seq(Mine)
  PROVE  /\ Newest(b, s) \in Seq(Mine) /\ ToSet(Newest(b, s)) = ToSet(s) \cup {b}
         /\ Capped(Newest(b, s)) \in Seq(Mine)
         /\ ToSet(Capped(Newest(b, s))) \cup CutOff(Newest(b, s)) = ToSet(s) \cup {b}
<1> DEFINE all == Newest(b, s)
           some == Capped(all)
<1>1. <<b>> \in Seq(Mine) /\ ToSet(<<b>>) = {b}
  BY DEF ToSet
<1>2. all \in Seq(Mine) /\ ToSet(all) = ToSet(s) \cup {b}
  <2> DEFINE one == <<b>>
             rest == Without(s, {b})
  <2>1. rest \in Seq(Mine) /\ ToSet(rest) = ToSet(s) \ {b}
    BY WithoutFacts
  <2>2. one \in Seq(Mine) /\ ToSet(one) = {b} /\ all = one \o rest
    BY <1>1 DEF Newest
  <2> HIDE DEF all, one, rest
  <2>3. all \in Seq(Mine) /\ ToSet(all) = ToSet(one) \cup ToSet(rest)
    BY <2>1, <2>2, JoinedFacts
  <2> QED BY <2>1, <2>2, <2>3
<1> HIDE DEF all
<1>3. some \in Seq(Mine) /\ ToSet(some) \subseteq ToSet(all)
  BY <1>2, CappedFacts
<1>4. CutOff(all) = ToSet(all) \ ToSet(some)
  BY DEF CutOff
<1> HIDE DEF some
<1>5. ToSet(some) \cup CutOff(all) = ToSet(s) \cup {b}
  BY <1>2, <1>3, <1>4
<1> QED BY <1>2, <1>3, <1>5 DEF all, some

LEMMA TogetherFacts ==
  ASSUME NEW s \in Seq(Mine), NEW single, NEW kept \in Seq(Mine)
  PROVE  /\ Together(s, single, kept) \in Seq(Mine)
         /\ ToSet(Together(s, single, kept)) = (ToSet(s) \cap single) \cup ToSet(kept)
         /\ Merged(s, single, kept) \in Seq(Mine)
         /\ ToSet(Merged(s, single, kept)) \cup CutOff(Together(s, single, kept))
                = (ToSet(s) \cap single) \cup ToSet(kept)
<1> DEFINE first == Filtered(s, single \ ToSet(kept))
           second == Without(kept, ToSet(first))
<1>1. first \in Seq(Mine) /\ ToSet(first) = ToSet(s) \cap (single \ ToSet(kept))
  BY FilteredFacts
<1>2. second \in Seq(Mine) /\ ToSet(second) = ToSet(kept) \ ToSet(first)
  BY WithoutFacts
<1>3. Together(s, single, kept) = first \o second
  BY DEF Together
<1> HIDE DEF first, second
<1>4. /\ Together(s, single, kept) \in Seq(Mine)
      /\ ToSet(Together(s, single, kept)) = (ToSet(s) \cap single) \cup ToSet(kept)
  BY <1>1, <1>2, <1>3, JoinedFacts
<1> QED BY <1>4, CappedFacts DEF Merged, CutOff

\* What a reading of the storage leaves.
LEMMA ReadFacts ==
  ASSUME NEW s \in Seq(Mine), NEW alone \in SUBSET Mine, NEW kept \in Seq(Mine),
         NEW cut \in SUBSET Mine, displaced \subseteq Mine, ReadStorage(s, alone, kept, cut)
  PROVE  /\ runtime' \in Seq(Mine) /\ only' \subseteq Mine /\ displaced' \subseteq Mine
         /\ ToSet(runtime') \subseteq ToSet(s) \cup ToSet(kept)
         /\ \A b \in ToSet(runtime') :
               b \in only' \cup ToSet(kept) \/ (b \in ToSet(s) /\ b \notin alone)
         /\ \A b \in ToSet(s) : b \in alone \cup ToSet(kept) \cup displaced \cup cut
                               => b \in ToSet(runtime') \cup displaced'
         /\ displaced \cup cut \subseteq displaced' \cup (ToSet(kept) \cap ToSet(runtime'))
<1> DEFINE single == alone \ ToSet(kept)
           all == Together(s, single, kept)
<1>1. CASE storage = "blocked"
  <2>1. /\ runtime' = s /\ only' = alone
        /\ displaced' = (displaced \cup cut) \ (ToSet(kept) \cap ToSet(runtime'))
    BY <1>1 DEF ReadStorage
  <2> QED BY <2>1
<1>2. CASE storage # "blocked"
  <2>1. /\ runtime' = Merged(s, single, kept) /\ only' = single \cap ToSet(runtime')
        /\ displaced' = (displaced \cup cut \cup CutOff(all)) \ (ToSet(kept) \cap ToSet(runtime'))
    BY <1>2 DEF ReadStorage
  <2>2. /\ runtime' \in Seq(Mine)
        /\ ToSet(runtime') \cup CutOff(all) = (ToSet(s) \cap single) \cup ToSet(kept)
    BY <2>1, TogetherFacts
  <2>3. ToSet(s) \subseteq Mine /\ ToSet(kept) \subseteq Mine
    BY DEF ToSet
  <2> HIDE DEF all
  <2> QED BY <2>1, <2>2, <2>3
<1> QED BY <1>1, <1>2
-----------------------------------------------------------------------------
(* One step *)

\* The secrets that a step may take away.
Keeps ==
    \A b \in Mine : status[b] = "live" =>
        /\ b \in ToSet(stored) => b \in ToSet(stored') \cup displaced'
        /\ b \in ToSet(runtime) => b \in ToSet(runtime') \cup displaced' \/ ReloadBookings
        /\ b \in held => b \in held' \cup displaced' \/ ReloadBookings

LEMMA TokensBegin == BookingsInit => TokensInv
<1> SUFFICES ASSUME BookingsInit PROVE TokensInv
  OBVIOUS
<1>1. stored = <<>> /\ runtime = <<>> /\ ToSet(<<>>) = {} /\ <<>> \in Seq(Mine)
  BY DEF BookingsInit, ToSet
<1>2. status \in [Mine -> Standing] /\ \A b \in Mine : status[b] = "none"
  BY DEF BookingsInit, Standing
<1>3. \A b \in Mine : raw[b] = "absent" /\ poll.list[b] = "absent"
  BY DEF BookingsInit, Nothing, NoPoll
<1>4. only = {} /\ displaced = {} /\ held = {}
  BY DEF BookingsInit
<1> QED BY <1>1, <1>2, <1>3, <1>4
      DEF TokensInv, TokenTypes, ListsAreTrue, TokensAreMade, TokensAreTrue

\* Steps that move no token, and bring no booking to life.
LEMMA TokensRest ==
  ASSUME TokensInv, UNCHANGED <<stored, runtime, only, displaced, held>>,
         status' \in [Mine -> Standing],
         \A b \in Mine : /\ status'[b] \in {"none", "live"} => status'[b] = status[b]
                         /\ status[b] = "completed" => status'[b] = "completed",
         ListsAreTrue'
  PROVE  TokensInv' /\ Keeps
<1>1. Keeps
  BY DEF Keeps
<1>2. TokenTypes'
  BY DEF TokensInv, TokenTypes
<1>3. \A b \in Mine : /\ status'[b] = "none" => status[b] = "none"
                      /\ status'[b] = "live" => status[b] = "live"
  OBVIOUS
<1>4. TokensAreMade'
  BY <1>3 DEF TokensInv, TokensAreMade
<1>5. TokensAreTrue'
  BY <1>3 DEF TokensInv, TokensAreTrue
<1> QED BY <1>1, <1>2, <1>4, <1>5 DEF TokensInv

LEMMA ServerSteps ==
  ASSUME TokensInv,
         \/ Storage \/ TakeList \/ LoseList
         \/ \E b \in Mine : Serve(b) \/ RunGuestAction(b)
         \/ AskList("screen")
         \/ UNCHANGED bookingsVars
  PROVE  TokensInv' /\ Keeps
<1> USE DEF bookingsServer, browser, access, screen
<1>1. /\ status \in [Mine -> Standing]
      /\ \A b \in Mine : raw[b] = "completed" \/ poll.list[b] = "completed" => status[b] = "completed"
  BY DEF TokensInv, TokenTypes, ListsAreTrue
<1>2. CASE Storage
  <2>1. ListsAreTrue'
    BY <1>1, <1>2 DEF Storage, ListsAreTrue
  <2> QED BY <1>1, <1>2, <2>1, TokensRest DEF Storage
<1>3. CASE TakeList \/ LoseList
  <2>1. poll' = NoPoll /\ status' = status /\ raw' \in {raw, poll.list}
    BY <1>3 DEF TakeList, LoseList
  <2>2. \A b \in Mine : poll'.list[b] = "absent"
    BY <2>1 DEF NoPoll, Nothing
  <2>3. ListsAreTrue'
    BY <1>1, <2>1, <2>2 DEF ListsAreTrue
  <2> QED BY <1>1, <1>3, <2>3, TokensRest DEF TakeList, LoseList
<1>4. ASSUME NEW b \in Mine, Serve(b) PROVE TokensInv' /\ Keeps
  <2>1. PICK over \in {"completed", "cancelled"} :
           status[b] = "live" /\ status' = [status EXCEPT ![b] = over]
    BY <1>4 DEF Serve
  <2>2. /\ status' \in [Mine -> Standing] /\ status'[b] = over
        /\ \A c \in Mine : c # b => status'[c] = status[c]
    BY <1>1, <2>1 DEF Standing
  <2>3. ListsAreTrue'
    BY <1>1, <1>4, <2>1, <2>2 DEF Serve, ListsAreTrue
  <2> QED BY <1>4, <2>1, <2>2, <2>3, TokensRest DEF Serve
<1>5. ASSUME NEW b \in Mine, RunGuestAction(b) PROVE TokensInv' /\ Keeps
  <2>1. \/ status' = status
        \/ status[b] = "live" /\ status' = [status EXCEPT ![b] = "cancelled"]
    BY <1>5 DEF RunGuestAction, Cancelled, Reviewed
  <2>2. /\ status' \in [Mine -> Standing]
        /\ \A c \in Mine : \/ status'[c] = status[c]
                           \/ status[c] = "live" /\ status'[c] = "cancelled"
    <3>1. CASE status' = status
      BY <1>1, <3>1
    <3>2. CASE status[b] = "live" /\ status' = [status EXCEPT ![b] = "cancelled"]
      <4>1. status' \in [Mine -> Standing] /\ status'[b] = "cancelled"
        BY <1>1, <3>2 DEF Standing
      <4>2. \A c \in Mine : c # b => status'[c] = status[c]
        BY <1>1, <3>2
      <4> QED BY <3>2, <4>1, <4>2
    <3> QED BY <2>1, <3>1, <3>2
  <2>3. ListsAreTrue'
    BY <1>1, <1>5, <2>2 DEF RunGuestAction, ListsAreTrue
  <2> QED BY <1>5, <2>2, <2>3, TokensRest DEF RunGuestAction
<1>6. CASE AskList("screen")
  <2>1. UNCHANGED <<status, stored, runtime, only, displaced, held, raw>>
    BY <1>6 DEF AskList
  <2>2. poll' = [by |-> "screen", list |-> List(held)]
    BY <1>6 DEF AskList
  <2>3. \A b \in Mine : poll'.list[b] \in {status[b], "absent"}
    BY <2>2 DEF List
  <2>4. ListsAreTrue'
    BY <1>1, <2>1, <2>3 DEF ListsAreTrue
  <2> QED BY <1>1, <2>1, <2>4, TokensRest
<1>7. CASE UNCHANGED bookingsVars
  <2>1. ListsAreTrue'
    BY <1>1, <1>7 DEF bookingsVars, ListsAreTrue
  <2> QED BY <1>1, <1>7, <2>1, TokensRest DEF bookingsVars
<1> QED BY <1>2, <1>3, <1>4, <1>5, <1>6, <1>7

\* The storage is read, on its own or for a list.
LEMMA ReadSteps ==
  ASSUME TokensInv, ReadAccess \/ AskList("others")
  PROVE  TokensInv' /\ Keeps
<1> USE DEF bookingsServer, browser, access, screen
<1>1. /\ ReadStorage(runtime, only, stored, {})
      /\ UNCHANGED <<status, stored, held, raw>>
  BY DEF ReadAccess, AskList
<1>2. poll' = poll \/ poll' = [by |-> "others", list |-> List(ToSet(runtime'))]
  BY DEF ReadAccess, AskList
<1>3. /\ runtime' \in Seq(Mine) /\ only' \subseteq Mine /\ displaced' \subseteq Mine
      /\ ToSet(runtime') \subseteq ToSet(runtime) \cup ToSet(stored)
      /\ \A b \in ToSet(runtime') :
            b \in only' \cup ToSet(stored) \/ (b \in ToSet(runtime) /\ b \notin only)
      /\ \A b \in ToSet(runtime) : b \in only \cup ToSet(stored) \cup displaced
                            => b \in ToSet(runtime') \cup displaced'
      /\ displaced \subseteq displaced' \cup (ToSet(stored) \cap ToSet(runtime'))
  <2>1. /\ runtime \in Seq(Mine) /\ only \in SUBSET Mine /\ stored \in Seq(Mine)
        /\ displaced \subseteq Mine /\ {} \in SUBSET Mine
    BY DEF TokensInv, TokenTypes
  <2> QED BY <1>1, <2>1, ReadFacts
<1>4. TokenTypes'
  BY <1>1, <1>3 DEF TokensInv, TokenTypes
<1>5. ListsAreTrue'
  <2>1. \A b \in Mine : poll'.list[b] \in {poll.list[b], status[b], "absent"}
    BY <1>2 DEF List
  <2> QED BY <1>1, <2>1 DEF TokensInv, ListsAreTrue
<1>6. ToSet(stored') = ToSet(stored) /\ ToSet(runtime)' = ToSet(runtime')
  BY <1>1
<1>7. TokensAreMade'
  BY <1>1, <1>3 DEF TokensInv, TokensAreMade
<1>8. TokensAreTrue'
  BY <1>1, <1>3 DEF TokensInv, TokensAreTrue
<1>9. Keeps
  BY <1>1, <1>3 DEF TokensInv, TokensAreTrue, Keeps
<1> QED BY <1>4, <1>5, <1>7, <1>8, <1>9 DEF TokensInv

\* What a booking that is made leaves in the storage.
LEMMA SavedFacts ==
  ASSUME NEW b \in Mine, stored \in Seq(Mine), stored' \in {stored, SavedWith(b)}
  PROVE  LET cut == IF stored' = stored THEN {} ELSE CutOff(Newest(b, stored))
         IN  /\ stored' \in Seq(Mine) /\ cut \subseteq Mine
             /\ ToSet(stored') \subseteq ToSet(stored) \cup {b}
             /\ ToSet(stored) \subseteq ToSet(stored') \cup cut
<1> DEFINE new == Newest(b, stored)
           cap == Capped(new)
<1>1. /\ cap \in Seq(Mine) /\ ToSet(cap) \cup CutOff(new) = ToSet(stored) \cup {b}
  BY NewestFacts
<1>2. ToSet(stored) \subseteq Mine
  BY DEF ToSet
<1>3. stored' = stored \/ stored' = cap
  BY DEF SavedWith
<1> HIDE DEF new, cap
<1>4. CASE stored' = stored
  BY <1>2, <1>4
<1>5. CASE stored' = cap /\ stored' # stored
  BY <1>1, <1>2, <1>5 DEF new
<1> QED BY <1>3, <1>4, <1>5

\* A booking comes to life, whose token nobody had.
LEMMA MadeLists ==
  ASSUME TokensInv, NEW b \in Mine, status[b] = "none",
         status' = [status EXCEPT ![b] = "live"], UNCHANGED <<raw, poll>>
  PROVE  /\ status' \in [Mine -> Standing] /\ status'[b] = "live"
         /\ \A c \in Mine : c # b => status'[c] = status[c]
         /\ ListsAreTrue'
<1>1. status \in [Mine -> Standing]
  BY DEF TokensInv, TokenTypes
<1>2. /\ status' \in [Mine -> Standing] /\ status'[b] = "live"
      /\ \A c \in Mine : c # b => status'[c] = status[c]
  BY <1>1 DEF Standing
<1> QED BY <1>2 DEF TokensInv, ListsAreTrue

LEMMA ElsewhereSteps ==
  ASSUME TokensInv, NEW b \in Mine, CreatedElsewhere(b)
  PROVE  TokensInv' /\ Keeps
<1> DEFINE cut == IF stored' = stored THEN {} ELSE CutOff(Newest(b, stored))
<1>1. /\ status[b] = "none" /\ status' = [status EXCEPT ![b] = "live"]
      /\ stored' \in {stored, SavedWith(b)} /\ displaced' = displaced \cup cut
      /\ UNCHANGED <<runtime, only, held, raw, poll>>
  BY DEF CreatedElsewhere, screen
<1>2. stored \in Seq(Mine) /\ runtime \in Seq(Mine)
  BY DEF TokensInv, TokenTypes
<1>3. /\ stored' \in Seq(Mine) /\ cut \subseteq Mine
      /\ ToSet(stored') \subseteq ToSet(stored) \cup {b}
      /\ ToSet(stored) \subseteq ToSet(stored') \cup cut
  BY <1>1, <1>2, SavedFacts
<1> HIDE DEF cut
<1>4. /\ status' \in [Mine -> Standing] /\ status'[b] = "live"
      /\ \A c \in Mine : c # b => status'[c] = status[c]
      /\ ListsAreTrue'
  BY <1>1, MadeLists
<1>5. TokenTypes'
  BY <1>1, <1>3, <1>4 DEF TokensInv, TokenTypes
<1>6. b \notin ToSet(runtime) /\ b \notin held /\ ToSet(runtime)' = ToSet(runtime)
  BY <1>1 DEF TokensInv, TokensAreMade
<1>7. TokensAreMade'
  BY <1>1, <1>3, <1>4, <1>6 DEF TokensInv, TokensAreMade
<1>8. TokensAreTrue'
  BY <1>1, <1>3, <1>4, <1>6 DEF TokensInv, TokensAreTrue
<1>9. Keeps
  BY <1>1, <1>3 DEF Keeps
<1> QED BY <1>4, <1>5, <1>7, <1>8, <1>9 DEF TokensInv

LEMMA CreatedSteps ==
  ASSUME TokensInv, NEW b \in Mine, Created(b)
  PROVE  TokensInv' /\ Keeps
<1> DEFINE saved == IF stored' = stored THEN {} ELSE CutOff(Newest(b, stored))
           tokens == Remembered(b)
           alone == (only \cup {b}) \cap ToSet(tokens)
           cut == CutOff(Newest(b, runtime)) \cup saved
<1>1. /\ status[b] = "none" /\ status' = [status EXCEPT ![b] = "live"]
      /\ stored' = SavedWith(b) /\ ReadStorage(tokens, alone, stored', cut)
      /\ held' = ToSet(runtime')
      /\ UNCHANGED <<raw, poll>>
  BY DEF Created, screen
<1>2. /\ stored \in Seq(Mine) /\ runtime \in Seq(Mine) /\ only \subseteq Mine
      /\ displaced \subseteq Mine /\ ToSet(runtime) \subseteq Mine
  BY DEF TokensInv, TokenTypes, ToSet
<1>3. /\ stored' \in Seq(Mine) /\ saved \subseteq Mine
      /\ ToSet(stored') \subseteq ToSet(stored) \cup {b}
      /\ ToSet(stored) \subseteq ToSet(stored') \cup saved
  BY <1>1, <1>2, SavedFacts
<1>4. /\ tokens \in Seq(Mine)
      /\ ToSet(tokens) \cup CutOff(Newest(b, runtime)) = ToSet(runtime) \cup {b}
  BY <1>2, NewestFacts DEF Remembered
<1> HIDE DEF saved, tokens
<1>5. alone \in SUBSET Mine /\ cut \in SUBSET Mine
  BY <1>2, <1>3, <1>4
<1> DEFINE first == CutOff(Newest(b, runtime))
<1>6. first \subseteq cut /\ saved \subseteq cut
  OBVIOUS
<1>7. \A c \in ToSet(tokens) : c = b \/ c \in only => c \in alone
  OBVIOUS
<1> HIDE DEF alone, cut
<1>8. /\ runtime' \in Seq(Mine) /\ only' \subseteq Mine /\ displaced' \subseteq Mine
      /\ ToSet(runtime') \subseteq ToSet(tokens) \cup ToSet(stored')
      /\ \A c \in ToSet(runtime') :
            c \in only' \cup ToSet(stored') \/ (c \in ToSet(tokens) /\ c \notin alone)
      /\ \A c \in ToSet(tokens) : c \in alone \cup ToSet(stored') \cup displaced \cup cut
                            => c \in ToSet(runtime') \cup displaced'
      /\ displaced \cup cut \subseteq displaced' \cup (ToSet(stored') \cap ToSet(runtime'))
  <2>1. PICK kept \in Seq(Mine), t \in Seq(Mine), single \in SUBSET Mine, more \in SUBSET Mine :
           kept = stored' /\ t = tokens /\ single = alone /\ more = cut
    BY <1>3, <1>4, <1>5
  <2>2. displaced \subseteq Mine /\ ReadStorage(t, single, kept, more)
    BY <1>1, <1>2, <2>1
  <2>3. /\ runtime' \in Seq(Mine) /\ only' \subseteq Mine /\ displaced' \subseteq Mine
        /\ ToSet(runtime') \subseteq ToSet(t) \cup ToSet(kept)
        /\ \A c \in ToSet(runtime') :
              c \in only' \cup ToSet(kept) \/ (c \in ToSet(t) /\ c \notin single)
        /\ \A c \in ToSet(t) : c \in single \cup ToSet(kept) \cup displaced \cup more
                         => c \in ToSet(runtime') \cup displaced'
        /\ displaced \cup more \subseteq displaced' \cup (ToSet(kept) \cap ToSet(runtime'))
    BY <2>2, ReadFacts, Zenon
  <2> QED BY <2>1, <2>3
<1>9. /\ status' \in [Mine -> Standing] /\ status'[b] = "live"
      /\ \A c \in Mine : c # b => status'[c] = status[c]
      /\ ListsAreTrue'
  BY <1>1, MadeLists
<1>10. ToSet(tokens) \cup first = ToSet(runtime) \cup {b}
  BY <1>4
<1> HIDE DEF first
<1>11. held' \subseteq Mine
  BY <1>1, <1>8 DEF ToSet
<1>12. TokenTypes'
  BY <1>3, <1>8, <1>9, <1>11 DEF TokenTypes
<1>13. TokensAreMade'
  <2>1. \A c \in ToSet(runtime') \cup ToSet(stored') : c = b \/ c \in ToSet(runtime) \cup ToSet(stored)
    BY <1>3, <1>8, <1>10
  <2>2. \A c \in Mine : status'[c] = "none" => c # b /\ status[c] = "none"
    BY <1>9
  <2> QED BY <1>1, <2>1, <2>2 DEF TokensInv, TokensAreMade
\* What was there of a live booking is there, or displaced.
<1>14. ASSUME NEW c \in Mine, c = b \/ status[c] = "live"
       PROVE  /\ c \in ToSet(stored) => c \in ToSet(stored') \cup displaced'
              /\ c \in ToSet(runtime) => c \in ToSet(runtime') \cup displaced'
              /\ c \in held => c \in ToSet(runtime') \cup displaced'
              /\ c \in ToSet(runtime') => c \in only' \cup ToSet(stored') \cup displaced'
  <2>1. /\ c \in ToSet(runtime) => c \in only \cup ToSet(stored) \cup displaced
        /\ c \in held => c \in ToSet(runtime) \cup displaced
    BY <1>1, <1>14 DEF TokensInv, TokensAreTrue, TokensAreMade
  <2>2. c \in ToSet(stored) => c \in ToSet(stored') \cup displaced'
    BY <1>3, <1>6, <1>8
  <2>3. c \in ToSet(runtime) => c \in ToSet(runtime') \cup displaced'
    <3> SUFFICES ASSUME c \in ToSet(runtime) PROVE c \in ToSet(runtime') \cup displaced'
      OBVIOUS
    <3>1. CASE c \in first
      BY <1>6, <1>8, <3>1
    <3>2. CASE c \in ToSet(tokens)
      <4>1. c \in alone \cup ToSet(stored') \cup displaced \cup cut
        BY <1>3, <1>6, <1>7, <2>1, <3>2
      <4> QED BY <1>8, <3>2, <4>1
    <3> QED BY <1>10, <3>1, <3>2
  <2>4. c \in held => c \in ToSet(runtime') \cup displaced'
    BY <1>8, <2>1, <2>3
  <2>5. ASSUME c \in ToSet(runtime')
        PROVE  c \in only' \cup ToSet(stored') \cup displaced'
    <3>1. CASE c \in ToSet(tokens) /\ c \notin alone
      <4>1. c # b /\ c \in ToSet(runtime) /\ c \notin only
        BY <1>7, <1>10, <3>1
      <4> QED BY <1>8, <2>1, <2>2, <4>1
    <3> QED BY <1>8, <2>5, <3>1
  <2> QED BY <2>2, <2>3, <2>4, <2>5
<1>15. TokensAreTrue'
  <2>1. \A c \in Mine : status'[c] = "live" => c = b \/ status[c] = "live"
    BY <1>9
  <2> QED BY <1>1, <1>14, <2>1 DEF TokensAreTrue
<1>16. Keeps
  BY <1>1, <1>14 DEF Keeps
<1> QED BY <1>9, <1>12, <1>13, <1>15, <1>16 DEF TokensInv

\* The page is loaded again.
LEMMA ReloadSteps ==
  ASSUME TokensInv, ReloadBookings
  PROVE  TokensInv' /\ Keeps
<1>1. /\ runtime' = Readable /\ only' = {} /\ held' = ToSet(runtime')
      /\ raw' = Nothing /\ poll' = NoPoll
      /\ UNCHANGED <<status, stored, displaced>>
  BY DEF ReloadBookings, bookingsServer, browser
<1>2. stored \in Seq(Mine) /\ ToSet(stored) \subseteq Mine
  BY DEF TokensInv, TokenTypes, ToSet
<1>3. runtime' \in Seq(Mine) /\ ToSet(runtime') \subseteq ToSet(stored)
  <2>1. CASE storage = "blocked"
    BY <1>1, <2>1 DEF Readable, ToSet
  <2>2. CASE storage # "blocked"
    BY <1>1, <1>2, <2>2 DEF Readable
  <2> QED BY <2>1, <2>2
<1>4. TokenTypes'
  BY <1>1, <1>2, <1>3 DEF TokensInv, TokenTypes
<1>5. ListsAreTrue'
  BY <1>1 DEF ListsAreTrue, Nothing, NoPoll
<1>6. TokensAreMade'
  BY <1>1, <1>3 DEF TokensInv, TokensAreMade
<1>7. TokensAreTrue'
  BY <1>1, <1>3 DEF TokensInv, TokensAreTrue
<1>8. Keeps
  BY <1>1 DEF Keeps
<1> QED BY <1>4, <1>5, <1>6, <1>7, <1>8 DEF TokensInv

\* A review is dismissed, of a visit that is over.
LEMMA DismissSteps ==
  ASSUME TokensInv, DismissReview \/ \E b \in Mine : DismissedElsewhere(b)
  PROVE  TokensInv' /\ Keeps
<1>1. PICK b \in Mine : status[b] = "completed" /\ stored' \in {stored, Without(stored, {b})}
  <2>1. CASE DismissReview
    <3>1. PICK b \in Dismissible : stored' \in {stored, Without(stored, {b})}
      BY <2>1 DEF DismissReview
    <3>2. b \in Mine /\ raw[b] = "completed"
      BY DEF Dismissible, Candidate, Candidates
    <3> QED BY <3>1, <3>2 DEF TokensInv, ListsAreTrue
  <2>2. CASE \E b \in Mine : DismissedElsewhere(b)
    BY <2>2 DEF DismissedElsewhere, CanLeaveReview
  <2> QED BY <2>1, <2>2
<1>2. UNCHANGED <<status, raw, poll, runtime, only, displaced, held>>
  BY DEF DismissReview, DismissedElsewhere, bookingsServer, access, screen
<1>3. stored' \in Seq(Mine) /\ ToSet(stored') \subseteq ToSet(stored)
      /\ ToSet(stored) \subseteq ToSet(stored') \cup {b}
  <2>1. stored \in Seq(Mine)
    BY DEF TokensInv, TokenTypes
  <2> QED BY <1>1, <2>1, WithoutFacts
<1>4. TokenTypes'
  BY <1>2, <1>3 DEF TokensInv, TokenTypes
<1>5. ListsAreTrue'
  BY <1>2 DEF TokensInv, ListsAreTrue
<1>6. ToSet(runtime)' = ToSet(runtime) /\ \A c \in Mine : status[c] = "live" => c # b
  BY <1>1, <1>2
<1>7. TokensAreMade'
  BY <1>2, <1>3, <1>6 DEF TokensInv, TokensAreMade
<1>8. TokensAreTrue'
  BY <1>2, <1>3, <1>6 DEF TokensInv, TokensAreTrue
<1>9. Keeps
  BY <1>2, <1>3, <1>6 DEF Keeps
<1> QED BY <1>4, <1>5, <1>7, <1>8, <1>9 DEF TokensInv

-----------------------------------------------------------------------------
LEMMA TokensSteps == TokensInv /\ [BookingsNext]_bookingsVars => TokensInv' /\ Keeps
<1> SUFFICES ASSUME TokensInv, [BookingsNext]_bookingsVars PROVE TokensInv' /\ Keeps
  OBVIOUS
<1>1. CASE Storage \/ TakeList \/ LoseList \/ UNCHANGED bookingsVars
  BY <1>1, ServerSteps
<1>2. CASE ReadAccess \/ ReloadBookings \/ DismissReview
  BY <1>2, ReadSteps, ReloadSteps, DismissSteps
<1>3. ASSUME NEW b \in Mine,
             \/ Serve(b) \/ Created(b) \/ CreatedElsewhere(b) \/ RunGuestAction(b)
             \/ DismissedElsewhere(b)
      PROVE  TokensInv' /\ Keeps
  BY <1>3, ServerSteps, CreatedSteps, ElsewhereSteps, DismissSteps
<1>4. ASSUME NEW a \in Asker, AskList(a) PROVE TokensInv' /\ Keeps
  <2>1. a = "screen" \/ a = "others"
    BY DEF Asker
  <2> QED BY <1>4, <2>1, ServerSteps, ReadSteps
<1> QED BY <1>1, <1>2, <1>3, <1>4 DEF BookingsNext

\* The secret of a live booking stays where it is, until newer ones displace it.
THEOREM SecretsStay == BookingsSpec => AccessIsKept
<1>1. Keeps => [\A b \in Mine : status[b] = "live" =>
        /\ b \in ToSet(stored) => b \in ToSet(stored') \cup displaced'
        /\ b \in ToSet(runtime) => b \in ToSet(runtime') \cup displaced' \/ ReloadBookings
        /\ b \in held => b \in held' \cup displaced' \/ ReloadBookings]_bookingsVars
  BY DEF Keeps
<1> QED BY <1>1, TokensBegin, TokensSteps, PTL DEF BookingsSpec, AccessIsKept

-----------------------------------------------------------------------------
(* The archives of the director *)

Changes == {"archive", "restore", "delete"}
ArchivePage == [view : ListView, query : Search, page : Nat, append : BOOLEAN,
                silent : BOOLEAN, fresh : BOOLEAN]

ArchiveTypes ==
    /\ written \in 0..MaxRecords /\ active \subseteq 1..written
    /\ archived \in Seq(RecordId) /\ ToSet(archived) \subseteq 1..written /\ IsInjective(archived)
    /\ active \cap ToSet(archived) = {}
    /\ desk \in Desk /\ IsInjective(desk.shown)
    /\ pages \subseteq ArchivePage /\ IsFiniteSet(pages) /\ Cardinality(pages) <= MaxPages
    /\ steady \subseteq RecordId /\ unsure \in BOOLEAN

\* A list that is loaded promises nothing and has no button at work; a button at work is
\* one of the view.
DeskIsTrue ==
    /\ desk.timer => desk.loading
    /\ desk.loading => desk.open /\ desk.busy = NotBusy /\ desk.target = 0 /\ steady = {}
    /\ desk.busy /= NotBusy => desk.open
    /\ desk.busy.at = "sent" => desk.busy.does \in Offered
    /\ desk.target /= 0 => desk.open /\ "delete" \in Offered

\* The request that counts is one for the list of the screen; if a button waits for it,
\* no other counts, and more is asked for after what is there.
PagesAreTrue ==
    /\ \A p, q \in pages : p.fresh /\ q.fresh => p = q
    /\ \A p \in pages :
        /\ p.fresh => /\ desk.open /\ ~desk.timer
                      /\ p.view = desk.view /\ p.query = desk.query
        /\ p.fresh /\ ~p.silent => desk.loading
        /\ p.silent => p.fresh /\ desk.busy /= NotBusy /\ desk.busy.at = "reload"
        /\ p.append => p.silent /\ p.page = desk.at + 1 /\ desk.busy.does = "page"
        /\ ~p.append => p.page = 1

\* What is shown is in the list, what was promised too, and none of it comes before what
\* is shown.
ShownFirst(list, seen, stay, later) ==
    /\ seen \subseteq ToSet(list) /\ stay \subseteq ToSet(list)
    /\ \A i, j \in DOMAIN list : list[i] \in seen /\ list[j] \in stay \ seen => i < j
    /\ stay \subseteq seen \/ later

\* What is still to be shown is not among the first.
Beyond(list, seen, stay, last) ==
    \A j \in DOMAIN list : list[j] \in stay \ seen => j > last

\* A change that was made leaves the place of the next page uncertain until the list is
\* loaded again, but not the order.
TheList == Listed(desk.view, desk.query)

OrderIsKept ==
    ListVisible /\ ~unsure =>
        /\ ShownFirst(TheList, ToSet(desk.shown), steady, desk.more \/ desk.retry)
        /\ (desk.busy.does \in Changes => desk.busy.at = "sent") =>
              Beyond(TheList, ToSet(desk.shown), steady, desk.at * PageLength)

ArchivesInv == ArchiveTypes /\ DeskIsTrue /\ PagesAreTrue /\ OfTheQuery /\ OrderIsKept
-----------------------------------------------------------------------------
(* Lists and their pages *)

InOrder(f, s) ==
    \A k, l \in DOMAIN f, i, j \in DOMAIN s : f[k] = s[i] /\ f[l] = s[j] => (k < l <=> i < j)

NotBefore(f, g) == \A k \in DOMAIN f, l \in DOMAIN g : f[k] = g[l] => k <= l

LEMMA FilteredInOrder ==
  ASSUME NEW X, NEW s \in Seq(X), IsInjective(s), NEW S
  PROVE  IsInjective(Filtered(s, S)) /\ InOrder(Filtered(s, S), s)
<1> DEFINE f == Filtered(s, S)
<1>1. PICK at \in Bijection(1..Len(f), Positions(s, S)) :
         /\ \A k \in 1..Len(f) : f[k] = s[at[k]]
         /\ \A k, l \in 1..Len(f) : k < l => at[k] < at[l]
  BY FilteredPlaces
<1>2. f \in Seq(X) /\ DOMAIN f = 1..Len(f) /\ Len(f) \in Nat /\ DOMAIN s = 1..Len(s) /\ Len(s) \in Nat
  BY FilteredPlaces
<1> HIDE DEF f
<1>3. \A k \in DOMAIN f : at[k] \in DOMAIN s /\ at[k] \in Int /\ k \in Int
  BY <1>1, <1>2 DEF Bijection, Injection, Positions
<1>4. \A k, l \in DOMAIN f : k /= l => at[k] /= at[l]
  BY <1>1, <1>2 DEF Bijection, Injection, IsInjective
<1>5. ASSUME NEW k \in DOMAIN f, NEW l \in DOMAIN f, f[k] = f[l] PROVE k = l
  BY <1>1, <1>2, <1>3, <1>4, <1>5 DEF IsInjective
<1>6. ASSUME NEW k \in DOMAIN f, NEW l \in DOMAIN f, NEW i \in DOMAIN s, NEW j \in DOMAIN s,
             f[k] = s[i], f[l] = s[j]
      PROVE  k < l <=> i < j
  <2>1. at[k] = i /\ at[l] = j
    BY <1>1, <1>2, <1>3, <1>6 DEF IsInjective
  <2>2. k < l => at[k] < at[l]
    BY <1>1, <1>2
  <2>3. l < k => at[l] < at[k]
    BY <1>1, <1>2
  <2>4. k \in Int /\ l \in Int /\ at[k] \in Int /\ at[l] \in Int
    BY <1>3
  <2>5. k = l => at[k] = at[l]
    OBVIOUS
  <2> QED BY <2>1, <2>2, <2>3, <2>4, <2>5
<1> QED BY <1>5, <1>6 DEF f, IsInjective, InOrder

LEMMA SameOrder ==
  ASSUME NEW f, NEW g, NEW s, InOrder(f, s), InOrder(g, s),
         ToSet(f) \subseteq ToSet(s)
  PROVE  InOrder(f, g)
<1> SUFFICES ASSUME NEW k \in DOMAIN f, NEW l \in DOMAIN f, NEW i \in DOMAIN g, NEW j \in DOMAIN g,
                    f[k] = g[i], f[l] = g[j]
             PROVE  k < l <=> i < j
  BY DEF InOrder
<1>1. PICK m \in DOMAIN s : s[m] = f[k]
  BY DEF ToSet
<1>2. PICK n \in DOMAIN s : s[n] = f[l]
  BY DEF ToSet
<1>3. k < l <=> m < n
  BY <1>1, <1>2 DEF InOrder
<1>4. i < j <=> m < n
  BY <1>1, <1>2 DEF InOrder
<1> QED BY <1>3, <1>4

LEMMA OrderThrough ==
  ASSUME NEW f, NEW g, NEW s, InOrder(f, g), InOrder(g, s), ToSet(f) \subseteq ToSet(g)
  PROVE  InOrder(f, s)
<1> SUFFICES ASSUME NEW k \in DOMAIN f, NEW l \in DOMAIN f, NEW i \in DOMAIN s, NEW j \in DOMAIN s,
                    f[k] = s[i], f[l] = s[j]
             PROVE  k < l <=> i < j
  BY DEF InOrder
<1>1. PICK m \in DOMAIN g : g[m] = f[k]
  BY DEF ToSet
<1>2. PICK n \in DOMAIN g : g[n] = f[l]
  BY DEF ToSet
<1>3. k < l <=> m < n
  BY <1>1, <1>2 DEF InOrder
<1>4. m < n <=> i < j
  BY <1>1, <1>2 DEF InOrder
<1> QED BY <1>3, <1>4

\* More elements push the others back.
LEMMA FilteredGrows ==
  ASSUME NEW X, NEW s \in Seq(X), IsInjective(s), NEW A, NEW B, A \subseteq B
  PROVE  NotBefore(Filtered(s, A), Filtered(s, B))
<1> DEFINE f == Filtered(s, A)
           g == Filtered(s, B)
<1>1. PICK a \in Bijection(1..Len(f), Positions(s, A)) :
         /\ \A k \in 1..Len(f) : f[k] = s[a[k]]
         /\ \A k \in 1..Len(f) : Cardinality(Positions(s, A) \cap 1..a[k]) = k
  BY FilteredPlaces
<1>2. PICK b \in Bijection(1..Len(g), Positions(s, B)) :
         /\ \A k \in 1..Len(g) : g[k] = s[b[k]]
         /\ \A k \in 1..Len(g) : Cardinality(Positions(s, B) \cap 1..b[k]) = k
  BY FilteredPlaces
<1>3. DOMAIN f = 1..Len(f) /\ DOMAIN g = 1..Len(g)
  BY FilteredPlaces
<1> HIDE DEF f, g
<1> SUFFICES ASSUME NEW k \in DOMAIN f, NEW l \in DOMAIN g, f[k] = g[l]
             PROVE  k <= l
  BY DEF NotBefore, f, g
<1>4. a[k] \in Positions(s, A) /\ b[l] \in Positions(s, B)
  BY <1>1, <1>2, <1>3 DEF Bijection, Injection
<1>5. a[k] \in DOMAIN s /\ b[l] \in DOMAIN s /\ s[a[k]] = s[b[l]]
  BY <1>1, <1>2, <1>3, <1>4 DEF Positions
<1>6. a[k] = b[l]
  BY <1>5 DEF IsInjective
<1>7. Positions(s, A) \cap 1..a[k] \subseteq Positions(s, B) \cap 1..b[l]
  BY <1>6 DEF Positions
<1>8. IsFiniteSet(Positions(s, B) \cap 1..b[l])
  <2>1. b[l] \in Nat
    BY <1>5
  <2>2. IsFiniteSet(1..b[l])
    BY <2>1, FirstNumbers
  <2> QED BY <2>2, FS_Subset
<1>9. Cardinality(Positions(s, A) \cap 1..a[k]) <= Cardinality(Positions(s, B) \cap 1..b[l])
  BY <1>7, <1>8, FS_Subset
<1> QED BY <1>1, <1>2, <1>3, <1>9

\* A list that holds another in the same order holds none of it earlier.
LEMMA EmbeddedNotBefore ==
  ASSUME NEW X, NEW f \in Seq(X), NEW g \in Seq(X), IsInjective(f), IsInjective(g),
         ToSet(f) \subseteq ToSet(g), InOrder(f, g)
  PROVE  NotBefore(f, g)
<1>1. /\ DOMAIN f = 1..Len(f) /\ Len(f) \in Nat /\ DOMAIN g = 1..Len(g) /\ Len(g) \in Nat
  OBVIOUS
<1> SUFFICES ASSUME NEW k \in DOMAIN f, NEW l \in DOMAIN g, f[k] = g[l]
             PROVE  k <= l
  BY DEF NotBefore
<1> DEFINE place == [i \in 1..k |-> CHOOSE j \in DOMAIN g : g[j] = f[i]]
<1>2. k \in Nat /\ l \in Nat /\ 1..k \subseteq DOMAIN f
  BY <1>1
<1>3. ASSUME NEW i \in 1..k PROVE place[i] \in DOMAIN g /\ g[place[i]] = f[i]
  <2>1. \E j \in DOMAIN g : g[j] = f[i]
    BY <1>2 DEF ToSet
  <2> QED BY <2>1
<1>4. DOMAIN place = 1..k /\ place \in [1..k -> DOMAIN g]
  BY <1>3
<1> HIDE DEF place
<1>5. ASSUME NEW i \in 1..k PROVE place[i] \in 1..l
  <2>1. place[i] \in DOMAIN g /\ g[place[i]] = f[i] /\ i \in DOMAIN f
    BY <1>2, <1>3
  <2>2. k < i <=> l < place[i]
    BY <2>1 DEF InOrder
  <2> QED BY <1>1, <1>2, <2>1, <2>2
<1>6. ASSUME NEW i \in 1..k, NEW j \in 1..k, place[i] = place[j] PROVE i = j
  <2>1. f[i] = f[j] /\ i \in DOMAIN f /\ j \in DOMAIN f
    BY <1>2, <1>3, <1>6
  <2> QED BY <2>1 DEF IsInjective
<1>7. place \in Injection(1..k, 1..l)
  BY <1>4, <1>5, <1>6 DEF Injection, IsInjective
<1>8. IsFiniteSet(1..l) /\ Cardinality(1..l) = l
  BY <1>2, FirstNumbers
<1>9. Cardinality(1..k) = k
  BY <1>2, FirstNumbers
<1> QED BY <1>7, <1>8, <1>9, FS_Injection

LEMMA NewestFirstFacts ==
  /\ NewestFirst \in Seq(RecordId) /\ IsInjective(NewestFirst) /\ ToSet(NewestFirst) = RecordId
<1>1. NewestFirst \in Seq(RecordId) /\ DOMAIN NewestFirst = 1..MaxRecords
  BY ArchivesAssumption DEF NewestFirst, RecordId
<1>2. \A i \in 1..MaxRecords : NewestFirst[i] = MaxRecords + 1 - i
  BY DEF NewestFirst, RecordId
<1>3. IsInjective(NewestFirst)
  BY <1>1, <1>2, ArchivesAssumption DEF IsInjective
<1>4. ASSUME NEW r \in RecordId PROVE r \in ToSet(NewestFirst)
  <2>1. MaxRecords + 1 - r \in 1..MaxRecords /\ NewestFirst[MaxRecords + 1 - r] = r
    BY <1>2, ArchivesAssumption DEF RecordId
  <2> QED BY <1>1, <2>1 DEF ToSet
<1>5. ToSet(NewestFirst) \subseteq RecordId
  BY <1>1, <1>2, ArchivesAssumption DEF ToSet, RecordId
<1> QED BY <1>1, <1>3, <1>4, <1>5

LEMMA NewestList ==
  ASSUME NEW A \in SUBSET RecordId, NEW list, list = Filtered(NewestFirst, A)
  PROVE  /\ list \in Seq(RecordId) /\ IsInjective(list)
         /\ ToSet(list) = A /\ InOrder(list, NewestFirst)
<1>1. list \in Seq(RecordId) /\ ToSet(list) = ToSet(NewestFirst) \cap A
  BY NewestFirstFacts, FilteredFacts
<1>2. IsInjective(list) /\ InOrder(list, NewestFirst)
  BY NewestFirstFacts, FilteredInOrder
<1> QED BY <1>1, <1>2, NewestFirstFacts

LEMMA KeptListFacts ==
  ASSUME NEW kept \in Seq(RecordId), IsInjective(kept), NEW S, NEW list, list = Filtered(kept, S)
  PROVE  /\ list \in Seq(RecordId) /\ IsInjective(list)
         /\ ToSet(list) = ToSet(kept) \cap S /\ InOrder(list, kept)
<1>1. list \in Seq(RecordId) /\ ToSet(list) = ToSet(kept) \cap S
  BY FilteredFacts
<1>2. IsInjective(list) /\ InOrder(list, kept)
  BY FilteredInOrder
<1> QED BY <1>1, <1>2

LEMMA ListFacts ==
  ASSUME ArchiveTypes
  PROVE  /\ TheList \in Seq(RecordId) /\ IsInjective(TheList)
         /\ ToSet(TheList) \subseteq Matching(desk.query)
<1>1. active \in SUBSET RecordId /\ archived \in Seq(RecordId) /\ IsInjective(archived)
  BY ArchivesAssumption DEF ArchiveTypes, RecordId
<1>2. PICK list, S : list = TheList /\ S = Matching(desk.query)
  OBVIOUS
<1>3. CASE desk.view = "active"
  <2>1. PICK A : A = active \cap S
    OBVIOUS
  <2>2. list = Filtered(NewestFirst, A) /\ A \in SUBSET RecordId
    BY <1>1, <1>2, <1>3, <2>1 DEF TheList, Listed
  <2> QED BY <1>2, <2>1, <2>2, NewestList
<1>4. CASE desk.view /= "active"
  <2>1. PICK kept : kept = archived
    OBVIOUS
  <2>2. list = Filtered(kept, S) /\ kept \in Seq(RecordId) /\ IsInjective(kept)
    BY <1>1, <1>2, <1>4, <2>1 DEF TheList, Listed
  <2> QED BY <1>2, <2>2, KeptListFacts
<1> QED BY <1>3, <1>4

LEMMA ListStays ==
  ASSUME active' = active, archived' = archived, desk'.view = desk.view, desk'.query = desk.query
  PROVE  TheList' = TheList
BY DEF TheList, Listed, Matching

LEMMA QueryStays ==
  ASSUME desk'.query = desk.query
  PROVE  Matching(desk.query)' = Matching(desk.query)
BY DEF Matching

LEMMA ListNext ==
  ASSUME desk'.query = desk.query
  PROVE  TheList' = IF desk'.view = "active"
                    THEN Filtered(NewestFirst, active' \cap Matching(desk.query))
                    ELSE Filtered(archived', Matching(desk.query))
<1>1. TheList' = IF desk'.view = "active"
                 THEN Filtered(NewestFirst, active' \cap Matching(desk.query)')
                 ELSE Filtered(archived', Matching(desk.query)')
  BY DEF TheList, Listed, Matching
<1>2. Matching(desk.query)' = Matching(desk.query)
  BY QueryStays
<1> QED BY <1>1, <1>2

LEMMA NoList == << >> \in Seq(RecordId) /\ IsInjective(<< >>) /\ ToSet(<< >>) = {}
BY DEF IsInjective, ToSet

\* What stands in a list after one place and not after another.
OnPage(list, a, z) == {list[i] : i \in {k \in DOMAIN list : a < k /\ k <= z}}

\* A page of a list: what stands on it, and whether more follows.
LEMMA PageFacts ==
  ASSUME NEW side, NEW query, NEW n \in Nat \ {0},
         NEW list \in Seq(RecordId), list = Listed(side, query), IsInjective(list),
         NEW sheet, sheet = PageOf(side, query, n)
  PROVE  /\ sheet.items \in Seq(RecordId) /\ IsInjective(sheet.items)
         /\ ToSet(sheet.items) = OnPage(list, (n - 1) * PageLength, n * PageLength)
         /\ sheet.more = (n * PageLength < Len(list)) /\ sheet.more \in BOOLEAN
<1> DEFINE a == (n - 1) * PageLength
           z == n * PageLength
           last == IF z < Len(list) THEN z ELSE Len(list)
<1>1. a \in Nat /\ z \in Nat /\ a < z
  <2>1. n - 1 \in Nat /\ PageLength \in Nat /\ PageLength > 0
    BY ArchivesAssumption
  <2>2. a \in Nat
    BY <2>1
  <2>3. z = a + PageLength
    BY <2>1
  <2> QED BY <2>1, <2>2, <2>3
<1>2. sheet.items = SubSeq(list, a + 1, last) /\ sheet.more = (z < Len(list))
  BY DEF PageOf
<1>3. list \in Seq(RecordId) /\ Len(list) \in Nat /\ DOMAIN list = 1..Len(list) /\ IsInjective(list)
  OBVIOUS
<1> HIDE DEF a, z
<1>4. last \in Nat /\ last <= Len(list)
  BY <1>1, <1>3
<1>5. CASE a + 1 > last
  <2>1. SubSeq(list, a + 1, last) = << >>
    BY <1>1, <1>3, <1>4, <1>5
  <2>2. sheet.items \in Seq(RecordId) /\ IsInjective(sheet.items) /\ ToSet(sheet.items) = {}
    BY <1>2, <2>1, NoList
  <2>3. \A k \in DOMAIN list : ~(a < k /\ k <= z)
    BY <1>1, <1>3, <1>5
  <2>4. ToSet(sheet.items) = OnPage(list, a, z)
    BY <2>2, <2>3 DEF OnPage
  <2> QED BY <1>2, <2>2, <2>4 DEF a, z
<1>6. CASE a + 1 <= last
  <2>1. a + 1 \in 1..Len(list)
    BY <1>1, <1>3, <1>4, <1>6
  <2>2. /\ sheet.items \in Seq(RecordId) /\ Len(sheet.items) = last - a
        /\ \A i \in 1..(last - a) : sheet.items[i] = list[a + i]
    BY <1>1, <1>2, <1>3, <1>4, <1>6, <2>1
  <2>3. DOMAIN sheet.items = 1..(last - a)
    BY <2>2
  <2>4. \A i \in 1..(last - a) : a + i \in DOMAIN list /\ a < a + i /\ a + i <= z
    BY <1>1, <1>3, <1>4
  <2>5. \A k \in DOMAIN list : a < k /\ k <= z => k - a \in 1..(last - a) /\ a + (k - a) = k
    BY <1>1, <1>3, <1>4
  <2>6. IsInjective(sheet.items)
    <3> SUFFICES ASSUME NEW i \in DOMAIN sheet.items, NEW j \in DOMAIN sheet.items,
                        sheet.items[i] = sheet.items[j]
                 PROVE  i = j
      BY DEF IsInjective
    <3>1. list[a + i] = list[a + j] /\ a + i \in DOMAIN list /\ a + j \in DOMAIN list
      BY <2>2, <2>3, <2>4
    <3>2. a + i = a + j
      BY <1>3, <3>1 DEF IsInjective
    <3> QED BY <1>1, <2>3, <3>2
  <2>7. ToSet(sheet.items) = OnPage(list, a, z)
    <3>1. ASSUME NEW i \in DOMAIN sheet.items
          PROVE  \E k \in DOMAIN list : a < k /\ k <= z /\ list[k] = sheet.items[i]
      BY <2>2, <2>3, <2>4
    <3>2. ASSUME NEW k \in DOMAIN list, a < k, k <= z
          PROVE  \E i \in DOMAIN sheet.items : sheet.items[i] = list[k]
      <4>1. k - a \in 1..(last - a) /\ a + (k - a) = k
        BY <2>5, <3>2
      <4> QED BY <2>2, <2>3, <4>1
    <3> QED BY <3>1, <3>2 DEF ToSet, OnPage
  <2> QED BY <1>2, <2>2, <2>6, <2>7 DEF a, z
<1>7. last \in Int
  BY <1>4
<1> QED BY <1>1, <1>5, <1>6, <1>7

-----------------------------------------------------------------------------
(* What changes of a list leave of its order *)

LEMMA KeptPushed ==
  ASSUME NEW old \in Seq(RecordId), NEW new \in Seq(RecordId), NEW seen, NEW stay, NEW later,
         IsInjective(old), IsInjective(new), ToSet(old) \subseteq ToSet(new),
         InOrder(old, new), NotBefore(old, new),
         ShownFirst(old, seen, stay, later)
  PROVE  /\ ShownFirst(new, seen, stay, later)
         /\ \A last \in Nat : Beyond(old, seen, stay, last) => Beyond(new, seen, stay, last)
<1>1. ASSUME NEW i \in DOMAIN new, new[i] \in seen \cup stay
      PROVE  \E k \in DOMAIN old : old[k] = new[i]
  BY <1>1 DEF ShownFirst, ToSet
<1>2. seen \subseteq ToSet(new) /\ stay \subseteq ToSet(new) /\ (stay \subseteq seen \/ later)
  BY DEF ShownFirst
<1>3. ASSUME NEW i \in DOMAIN new, NEW j \in DOMAIN new, new[i] \in seen, new[j] \in stay \ seen
      PROVE  i < j
  <2>1. PICK k \in DOMAIN old : old[k] = new[i]
    BY <1>1, <1>3
  <2>2. PICK l \in DOMAIN old : old[l] = new[j]
    BY <1>1, <1>3
  <2>3. k < l
    BY <1>3, <2>1, <2>2 DEF ShownFirst
  <2> QED BY <2>1, <2>2, <2>3 DEF InOrder
<1>4. ASSUME NEW last \in Nat, Beyond(old, seen, stay, last),
             NEW j \in DOMAIN new, new[j] \in stay \ seen
      PROVE  j > last
  <2>1. PICK l \in DOMAIN old : old[l] = new[j]
    BY <1>1, <1>4
  <2>2. l > last
    BY <1>4, <2>1 DEF Beyond
  <2>3. l <= j
    BY <2>1 DEF NotBefore
  <2> QED BY <2>2, <2>3
<1> QED BY <1>2, <1>3, <1>4 DEF ShownFirst, Beyond

LEMMA KeptDropped ==
  ASSUME NEW old, NEW new, NEW seen, NEW stay, NEW later, NEW r,
         ToSet(new) = ToSet(old) \ {r}, InOrder(new, old),
         ShownFirst(old, seen, stay, later)
  PROVE  ShownFirst(new, seen \ {r}, stay \ {r}, later)
<1>1. /\ seen \ {r} \subseteq ToSet(new) /\ stay \ {r} \subseteq ToSet(new)
      /\ stay \ {r} \subseteq seen \ {r} \/ later
  BY DEF ShownFirst
<1>2. ASSUME NEW i \in DOMAIN new, NEW j \in DOMAIN new,
             new[i] \in seen \ {r}, new[j] \in (stay \ {r}) \ (seen \ {r})
      PROVE  i < j
  <2>1. PICK k \in DOMAIN old : old[k] = new[i]
    BY DEF ToSet
  <2>2. PICK l \in DOMAIN old : old[l] = new[j]
    BY DEF ToSet
  <2>3. k < l
    BY <1>2, <2>1, <2>2 DEF ShownFirst
  <2> QED BY <2>1, <2>2, <2>3 DEF InOrder
<1> QED BY <1>1, <1>2 DEF ShownFirst

\* A page after what was shown.
LEMMA KeptMore ==
  ASSUME NEW list \in Seq(RecordId), IsInjective(list), NEW a \in Nat, NEW z \in Nat,
         NEW seen, NEW stay, NEW later, NEW items,
         items = OnPage(list, a, z),
         ShownFirst(list, seen, stay, later), Beyond(list, seen, stay, a)
  PROVE  /\ ShownFirst(list, seen \cup items, stay, z < Len(list))
         /\ Beyond(list, seen \cup items, stay, z)
<1>1. DOMAIN list = 1..Len(list) /\ Len(list) \in Nat
  OBVIOUS
<1>2. ASSUME NEW j \in DOMAIN list, list[j] \in stay \ (seen \cup items)
      PROVE  j > z
  <2>1. j > a
    BY <1>2 DEF Beyond
  <2>2. ~(a < j /\ j <= z)
    BY <1>2 DEF OnPage
  <2> QED BY <1>1, <2>1, <2>2
<1>3. ASSUME NEW i \in DOMAIN list, NEW j \in DOMAIN list,
             list[i] \in seen \cup items, list[j] \in stay \ (seen \cup items)
      PROVE  i < j
  <2>1. CASE list[i] \in seen
    BY <1>3, <2>1 DEF ShownFirst
  <2>2. CASE list[i] \in items
    <3>1. PICK k \in DOMAIN list : k <= z /\ list[k] = list[i]
      BY <2>2 DEF OnPage
    <3>2. i = k
      BY <3>1 DEF IsInjective
    <3>3. j > z
      BY <1>2, <1>3
    <3> QED BY <1>1, <3>1, <3>2, <3>3
  <2> QED BY <1>3, <2>1, <2>2
<1>4. stay \subseteq seen \cup items \/ z < Len(list)
  <2> SUFFICES ASSUME NEW r \in stay \ (seen \cup items) PROVE z < Len(list)
    OBVIOUS
  <2>1. PICK j \in DOMAIN list : list[j] = r
    BY DEF ShownFirst, ToSet
  <2>2. j > z
    BY <1>2, <2>1
  <2> QED BY <1>1, <2>1, <2>2
<1>5. seen \cup items \subseteq ToSet(list) /\ stay \subseteq ToSet(list)
  <2>1. items \subseteq ToSet(list)
    BY DEF ToSet, OnPage
  <2> QED BY <2>1 DEF ShownFirst
<1> QED BY <1>2, <1>3, <1>4, <1>5 DEF ShownFirst, Beyond

\* The first page: all of the list was to be shown, from its beginning.
LEMMA KeptFirst ==
  ASSUME NEW list \in Seq(RecordId), IsInjective(list), NEW z \in Nat, NEW items,
         items = OnPage(list, 0, z)
  PROVE  /\ ShownFirst(list, items, ToSet(list), z < Len(list))
         /\ Beyond(list, items, ToSet(list), z)
<1>1. ShownFirst(list, {}, ToSet(list), TRUE)
  BY DEF ShownFirst
<1>2. Beyond(list, {}, ToSet(list), 0)
  BY DEF Beyond
<1>3. 0 \in Nat
  OBVIOUS
<1>4. /\ ShownFirst(list, {} \cup items, ToSet(list), z < Len(list))
      /\ Beyond(list, {} \cup items, ToSet(list), z)
  BY <1>1, <1>2, <1>3, KeptMore
<1>5. {} \cup items = items
  OBVIOUS
<1> QED BY <1>4, <1>5

\* A new record, or one inserted again, pushes the others back and changes nothing else.
LEMMA ListPushed ==
  ASSUME ArchiveTypes, ArchiveTypes', active \subseteq active', archived' = archived, desk' = desk
  PROVE  /\ TheList' \in Seq(RecordId) /\ IsInjective(TheList')
         /\ ToSet(TheList) \subseteq ToSet(TheList')
         /\ InOrder(TheList, TheList') /\ NotBefore(TheList, TheList')
<1>1. /\ active \in SUBSET RecordId /\ active' \in SUBSET RecordId
      /\ archived \in Seq(RecordId) /\ IsInjective(archived)
  BY ArchivesAssumption DEF ArchiveTypes, RecordId
<1>2. PICK old, new, S : old = TheList /\ new = TheList' /\ S = Matching(desk.query)
  OBVIOUS
<1>3. CASE desk.view = "active"
  <2>1. PICK A, B : A = active \cap S /\ B = active' \cap S
    OBVIOUS
  <2>2. A \in SUBSET RecordId /\ B \in SUBSET RecordId /\ A \subseteq B
    BY <1>1, <2>1
  <2>3. old = Filtered(NewestFirst, A)
    BY <1>2, <1>3, <2>1 DEF TheList, Listed
  <2>4. new = Filtered(NewestFirst, B)
    BY <1>2, <1>3, <2>1, ListNext
  <2>5. ToSet(old) = A /\ InOrder(old, NewestFirst)
    BY <2>2, <2>3, NewestList
  <2>6. /\ new \in Seq(RecordId) /\ IsInjective(new)
        /\ ToSet(new) = B /\ InOrder(new, NewestFirst)
    BY <2>2, <2>4, NewestList
  <2>7. ToSet(old) \subseteq ToSet(NewestFirst)
    BY <2>2, <2>5, NewestFirstFacts
  <2>8. InOrder(old, new)
    BY <2>5, <2>6, <2>7, SameOrder
  <2>9. NotBefore(old, new)
    BY <2>2, <2>3, <2>4, NewestFirstFacts, FilteredGrows
  <2> QED BY <1>2, <2>2, <2>5, <2>6, <2>8, <2>9
<1>4. CASE desk.view /= "active"
  <2>1. old = new
    <3>1. old = Filtered(archived, S)
      BY <1>2, <1>4 DEF TheList, Listed
    <3> QED BY <1>2, <1>4, <3>1, ListNext
  <2>2. old \in Seq(RecordId) /\ IsInjective(old)
    BY <1>2, ListFacts
  <2>3. DOMAIN old = 1..Len(old)
    BY <2>2
  <2>4. InOrder(old, old) /\ NotBefore(old, old)
    BY <2>2, <2>3 DEF InOrder, NotBefore, IsInjective
  <2> QED BY <1>2, <2>1, <2>2, <2>4
<1> QED BY <1>3, <1>4

-----------------------------------------------------------------------------
(* Requests *)

LEMMA OvertakenFacts ==
  ASSUME ArchiveTypes
  PROVE  /\ Overtaken \subseteq ArchivePage /\ IsFiniteSet(Overtaken)
         /\ Cardinality(Overtaken) <= MaxPages
         /\ \A p \in Overtaken : /\ ~p.fresh
                                 /\ \E q \in pages : /\ p.append = q.append /\ p.silent = q.silent
                                                     /\ p.page = q.page
<1> DEFINE f == [p \in pages |-> [p EXCEPT !.fresh = FALSE]]
<1>1. pages \subseteq ArchivePage /\ IsFiniteSet(pages) /\ Cardinality(pages) <= MaxPages
  BY DEF ArchiveTypes
<1>2. ASSUME NEW q \in pages
      PROVE  /\ [q EXCEPT !.fresh = FALSE] \in ArchivePage
             /\ [q EXCEPT !.fresh = FALSE].fresh = FALSE
             /\ [q EXCEPT !.fresh = FALSE].append = q.append
             /\ [q EXCEPT !.fresh = FALSE].silent = q.silent
             /\ [q EXCEPT !.fresh = FALSE].page = q.page
  <2>1. q \in ArchivePage
    BY <1>1
  <2> QED BY <2>1 DEF ArchivePage
<1>3. Overtaken = {f[p] : p \in pages}
  BY DEF Overtaken
<1>4. f \in Surjection(pages, Overtaken)
  BY <1>3 DEF Surjection
<1>5. IsFiniteSet(Overtaken) /\ Cardinality(Overtaken) <= Cardinality(pages)
  BY <1>1, <1>4, FS_Surjection
<1>6. Cardinality(Overtaken) \in Nat /\ Cardinality(pages) \in Nat
  BY <1>1, <1>5, FS_CardinalityType
<1>7. \A p \in Overtaken : \E q \in pages : p = [q EXCEPT !.fresh = FALSE]
  BY DEF Overtaken
<1> HIDE DEF f
<1>8. Cardinality(Overtaken) <= MaxPages
  BY <1>1, <1>5, <1>6, ArchivesAssumption
<1>9. ASSUME NEW p \in Overtaken
      PROVE  /\ p \in ArchivePage /\ ~p.fresh
             /\ \E q \in pages : p.append = q.append /\ p.silent = q.silent /\ p.page = q.page
  <2>1. PICK q \in pages : p = [q EXCEPT !.fresh = FALSE]
    BY <1>7
  <2> QED BY <1>2, <2>1
<1> QED BY <1>5, <1>8, <1>9

PageRequest(n, more, silent) ==
    [view |-> desk.view, query |-> desk.query, page |-> n, append |-> more,
     silent |-> silent, fresh |-> TRUE]

LEMMA AskedFacts ==
  ASSUME ArchiveTypes, NEW n \in Nat, NEW more \in BOOLEAN, NEW silent \in BOOLEAN,
         AskPage(n, more, silent)
  PROVE  /\ pages' = Overtaken \cup {PageRequest(n, more, silent)}
         /\ pages' \subseteq ArchivePage /\ IsFiniteSet(pages') /\ Cardinality(pages') <= MaxPages
<1>1. /\ pages' = Overtaken \cup {PageRequest(n, more, silent)} /\ Cardinality(Overtaken) < MaxPages
  BY DEF AskPage, PageRequest
<1>2. desk.view \in ListView /\ desk.query \in Search
  BY DEF ArchiveTypes, Desk
<1>3. PageRequest(n, more, silent) \in ArchivePage
  BY <1>2 DEF PageRequest, ArchivePage
<1>4. Overtaken \subseteq ArchivePage /\ IsFiniteSet(Overtaken)
  BY OvertakenFacts
<1>5. PICK new : new = PageRequest(n, more, silent)
  OBVIOUS
<1>6. /\ IsFiniteSet(Overtaken \cup {new})
      /\ Cardinality(Overtaken \cup {new}) \in {Cardinality(Overtaken), Cardinality(Overtaken) + 1}
  BY <1>4, FS_AddElement
<1>7. Cardinality(Overtaken) \in Nat
  BY <1>4, FS_CardinalityType
<1> QED BY <1>1, <1>3, <1>4, <1>5, <1>6, <1>7, ArchivesAssumption

\* A button that waits for nothing leaves no request that somebody waits for.
NoneWaits == \A p \in pages : ~p.silent /\ ~p.append /\ p.page = 1

LEMMA NobodyWaits ==
  ASSUME ArchiveTypes, PagesAreTrue, desk.busy = NotBusy \/ desk.busy.at = "sent"
  PROVE  NoneWaits
BY DEF PagesAreTrue, NoneWaits

LEMMA PagesOvertaken ==
  ASSUME ArchiveTypes, NoneWaits, pages' = Overtaken
  PROVE  PagesAreTrue'
<1>1. ASSUME NEW p \in pages' PROVE ~p.fresh /\ ~p.silent /\ ~p.append /\ p.page = 1
  <2>1. PICK q \in pages : p.append = q.append /\ p.silent = q.silent /\ p.page = q.page
    BY OvertakenFacts
  <2> QED BY <2>1, OvertakenFacts DEF NoneWaits
<1> QED BY <1>1 DEF PagesAreTrue

LEMMA PageAsked ==
  ASSUME ArchiveTypes, NoneWaits, NEW n \in Nat, NEW more \in BOOLEAN, NEW silent \in BOOLEAN,
         AskPage(n, more, silent), desk'.open, ~desk'.timer,
         desk'.view = desk.view, desk'.query = desk.query,
         silent \/ desk'.loading,
         silent => desk'.busy /= NotBusy /\ desk'.busy.at = "reload",
         more => silent /\ n = desk'.at + 1 /\ desk'.busy.does = "page",
         more \/ n = 1
  PROVE  PagesAreTrue'
<1>1. PICK new : new = PageRequest(n, more, silent)
  OBVIOUS
<1>2. pages' = Overtaken \cup {new}
  BY <1>1, AskedFacts
<1>3. /\ new.fresh /\ new.view = desk.view /\ new.query = desk.query /\ new.page = n
      /\ new.append = more /\ new.silent = silent
  BY <1>1 DEF PageRequest
<1>4. ASSUME NEW p \in Overtaken PROVE ~p.fresh /\ ~p.silent /\ ~p.append /\ p.page = 1
  <2>1. PICK q \in pages : p.append = q.append /\ p.silent = q.silent /\ p.page = q.page
    BY OvertakenFacts
  <2> QED BY <2>1, OvertakenFacts DEF NoneWaits
<1>5. \A p, q \in pages' : p.fresh /\ q.fresh => p = q
  BY <1>2, <1>4
<1>6. ASSUME NEW p \in pages'
      PROVE  /\ p.fresh => /\ desk'.open /\ ~desk'.timer
                           /\ p.view = desk'.view /\ p.query = desk'.query
             /\ p.fresh /\ ~p.silent => desk'.loading
             /\ p.silent => p.fresh /\ desk'.busy /= NotBusy /\ desk'.busy.at = "reload"
             /\ p.append => p.silent /\ p.page = desk'.at + 1 /\ desk'.busy.does = "page"
             /\ ~p.append => p.page = 1
  BY <1>2, <1>3, <1>4
<1> QED BY <1>5, <1>6 DEF PagesAreTrue, NotBusy

-----------------------------------------------------------------------------
(* The steps *)

\* What keeps the list, and shows no more than before, keeps the promise.
LEMMA SameListKept ==
  ASSUME ArchivesInv, active' = active, archived' = archived, steady' = steady, unsure' = unsure,
         desk'.view = desk.view, desk'.query = desk.query, desk'.shown = desk.shown,
         desk'.at = desk.at, desk'.more = desk.more, desk'.retry = desk.retry,
         desk'.open /\ ~desk'.loading => desk.open /\ ~desk.loading,
         (desk'.busy.does \in Changes => desk'.busy.at = "sent") =>
            (desk.busy.does \in Changes => desk.busy.at = "sent")
  PROVE  OfTheQuery' /\ OrderIsKept'
<1>1. TheList' = TheList
  BY ListStays
<1>2. OfTheQuery'
  <2>1. ListVisible' => ToSet(desk'.shown) \subseteq Matching(desk.query)
    BY DEF ArchivesInv, OfTheQuery, ListVisible
  <2> QED BY <2>1, QueryStays DEF OfTheQuery
<1>3. ASSUME ListVisible', ~unsure'
      PROVE  /\ ShownFirst(TheList, ToSet(desk.shown), steady, desk.more \/ desk.retry)
             /\ (desk'.busy.does \in Changes => desk'.busy.at = "sent") =>
                   Beyond(TheList, ToSet(desk.shown), steady, desk.at * PageLength)
  BY <1>3 DEF ArchivesInv, OrderIsKept, ListVisible
<1>4. OrderIsKept'
  BY <1>1, <1>3 DEF OrderIsKept, ShownFirst, Beyond
<1> QED BY <1>2, <1>4

LEMMA NothingChosen ==
  /\ NotBusy \in Busy /\ NotBusy.at = "reload" /\ NotBusy.does = "no"
  /\ \A kind \in {"reviews", "actions"} :
        /\ Emptied(kind) \in Desk /\ Emptied(kind).shown = << >> /\ Emptied(kind).busy = NotBusy
        /\ Emptied(kind).open = FALSE /\ Emptied(kind).timer = FALSE
        /\ Emptied(kind).loading = FALSE /\ Emptied(kind).target = 0
BY ArchivesAssumption DEF NotBusy, Busy, Emptied, Desk, ListView, Search

LEMMA ArchivesBegin == ArchivesInit => ArchivesInv
<1> SUFFICES ASSUME ArchivesInit PROVE ArchivesInv
  OBVIOUS
<1>1. PICK kind \in {"reviews", "actions"} : desk = Emptied(kind)
  BY DEF ArchivesInit
<1>2. /\ desk \in Desk /\ desk.shown = << >> /\ desk.busy = NotBusy
      /\ ~desk.open /\ ~desk.timer /\ ~desk.loading /\ desk.target = 0
  BY <1>1, NothingChosen
<1>3. ~desk.open /\ ~desk.timer /\ ~desk.loading /\ desk.target = 0
  BY <1>2
<1>4. /\ active = 1..Before /\ archived = << >> /\ written = Before
      /\ pages = {} /\ steady = {} /\ unsure = FALSE
  BY DEF ArchivesInit
<1>5. IsFiniteSet({}) /\ Cardinality({}) = 0
  BY FS_EmptySet
<1>6. ArchiveTypes
  <2>1. /\ archived \in Seq(RecordId) /\ ToSet(archived) = {} /\ IsInjective(archived)
        /\ IsInjective(desk.shown)
    BY <1>2, <1>4, NoList
  <2>2. /\ written \in 0..MaxRecords /\ active \subseteq 1..written
        /\ IsFiniteSet(pages) /\ Cardinality(pages) <= MaxPages
    BY <1>4, <1>5, ArchivesAssumption
  <2> QED BY <1>2, <1>4, <2>1, <2>2 DEF ArchiveTypes
<1>7. DeskIsTrue
  BY <1>2, <1>3, NothingChosen DEF DeskIsTrue
<1>8. PagesAreTrue
  BY DEF ArchivesInit, PagesAreTrue
<1>9. OfTheQuery /\ OrderIsKept
  BY <1>3 DEF OfTheQuery, OrderIsKept, ListVisible
<1> QED BY <1>6, <1>7, <1>8, <1>9 DEF ArchivesInv

\* A list that holds the one before in the same order keeps the promise made of it.
LEMMA OrderGrown ==
  ASSUME ArchiveTypes, OrderIsKept, NEW new \in Seq(RecordId), new = TheList', IsInjective(new),
         ToSet(TheList) \subseteq ToSet(new), InOrder(TheList, new), NotBefore(TheList, new),
         desk' = desk, ListVisible /\ ~unsure => steady' = steady, unsure' = unsure
  PROVE  OrderIsKept'
<1>1. TheList \in Seq(RecordId) /\ IsInjective(TheList)
  BY ListFacts
<1> DEFINE seen == ToSet(desk.shown)
           later == desk.more \/ desk.retry
           last == desk.at * PageLength
<1>2. last \in Nat
  BY ArchivesAssumption DEF ArchiveTypes, Desk
<1> HIDE DEF seen, later, last
<1>3. ShownFirst(TheList, seen, steady, later) =>
          /\ ShownFirst(new, seen, steady, later)
          /\ Beyond(TheList, seen, steady, last) => Beyond(new, seen, steady, last)
  BY <1>1, <1>2, KeptPushed
<1>4. ListVisible /\ ~unsure =>
         /\ ShownFirst(new, seen, steady, later)
         /\ (desk.busy.does \in Changes => desk.busy.at = "sent") =>
               Beyond(new, seen, steady, last)
  BY <1>3 DEF OrderIsKept, seen, later, last
<1> QED BY <1>4 DEF OrderIsKept, ListVisible, ShownFirst, Beyond, seen, later, last

\* Records that are added to the active ones leave the screen as it is.
LEMMA RecordsAdded ==
  ASSUME ArchivesInv, written' \in 0..MaxRecords, written <= written',
         active \subseteq active', active' \subseteq 1..written',
         active' \cap ToSet(archived) = {},
         UNCHANGED <<archived, archivesPage, steady, unsure>>
  PROVE  ArchivesInv'
<1>1. UNCHANGED <<archived, desk, pages, steady, unsure>>
  BY DEF archivesPage
<1>2. ArchiveTypes /\ DeskIsTrue /\ PagesAreTrue /\ OfTheQuery /\ OrderIsKept
  BY DEF ArchivesInv
<1>3. written \in Nat /\ written' \in Nat
  BY <1>2, ArchivesAssumption DEF ArchiveTypes
<1>4. ToSet(archived) \subseteq 1..written'
  BY <1>2, <1>3 DEF ArchiveTypes
<1>5. ArchiveTypes'
  BY <1>1, <1>2, <1>4 DEF ArchiveTypes
<1>6. DeskIsTrue' /\ PagesAreTrue' /\ OfTheQuery'
  <2>1. DeskIsTrue' /\ PagesAreTrue'
    BY <1>1, <1>2 DEF DeskIsTrue, PagesAreTrue, Offered
  <2>2. ListVisible' => ToSet(desk'.shown) \subseteq Matching(desk.query)
    BY <1>1, <1>2 DEF OfTheQuery, ListVisible
  <2> QED BY <1>1, <2>1, <2>2, QueryStays DEF OfTheQuery
<1>7. PICK new : new = TheList'
  OBVIOUS
<1>8. /\ new \in Seq(RecordId) /\ IsInjective(new) /\ ToSet(TheList) \subseteq ToSet(new)
      /\ InOrder(TheList, new) /\ NotBefore(TheList, new)
  BY <1>1, <1>2, <1>5, <1>7, ListPushed
<1>9. OrderIsKept'
  BY <1>1, <1>2, <1>7, <1>8, OrderGrown
<1> QED BY <1>5, <1>6, <1>9 DEF ArchivesInv

LEMMA ArriveKeeps == ArchivesInv /\ Arrive => ArchivesInv'
<1> SUFFICES ASSUME ArchivesInv, Arrive PROVE ArchivesInv'
  OBVIOUS
<1>1. /\ written \in 0..MaxRecords /\ active \subseteq 1..written
      /\ ToSet(archived) \subseteq 1..written /\ active \cap ToSet(archived) = {}
  BY DEF ArchivesInv, ArchiveTypes
<1>2. /\ written < MaxRecords /\ written' = written + 1 /\ active' = active \cup {written + 1}
      /\ UNCHANGED <<archived, archivesPage, steady, unsure>>
  BY DEF Arrive
<1>3. written + 1 \notin 1..written /\ written \in Nat
  BY <1>1, ArchivesAssumption
<1>4. /\ written' \in 0..MaxRecords /\ written <= written' /\ active' \subseteq 1..written'
      /\ active' \cap ToSet(archived) = {} /\ active \subseteq active'
  BY <1>1, <1>2, <1>3, ArchivesAssumption
<1> QED BY <1>2, <1>4, RecordsAdded

LEMMA RespondKeeps == ArchivesInv /\ Respond => ArchivesInv'
<1> SUFFICES ASSUME ArchivesInv, Respond PROVE ArchivesInv'
  OBVIOUS
<1>1. /\ written \in 0..MaxRecords /\ active \subseteq 1..written
      /\ ToSet(archived) \subseteq 1..written /\ active \cap ToSet(archived) = {}
  BY DEF ArchivesInv, ArchiveTypes
<1>2. PICK r \in 1..written \ (active \cup ToSet(archived)) : active' = active \cup {r}
  BY DEF Respond
<1>3. written' = written /\ UNCHANGED <<archived, archivesPage, steady, unsure>>
  BY DEF Respond
<1>4. written \in Nat
  BY <1>1, ArchivesAssumption
<1>5. /\ written' \in 0..MaxRecords /\ written <= written' /\ active' \subseteq 1..written'
      /\ active' \cap ToSet(archived) = {} /\ active \subseteq active'
  BY <1>1, <1>2, <1>3, <1>4
<1> QED BY <1>3, <1>5, RecordsAdded

\* Another list.
LEMMA TurnKeeps ==
  ASSUME ArchivesInv, NEW next \in Desk, next.open, next.busy = NotBusy, next.target = 0,
         IsInjective(next.shown), desk.busy = NotBusy, Turn(next)
  PROVE  ArchivesInv'
<1>1. /\ desk' = [next EXCEPT !.loading = TRUE, !.timer = TRUE]
      /\ pages' = Overtaken /\ steady' = {} /\ unsure' = FALSE
      /\ UNCHANGED <<active, archived, written>>
  BY DEF Turn, archivesServer
<1>2. ArchiveTypes /\ DeskIsTrue /\ PagesAreTrue
  BY DEF ArchivesInv
<1>3. /\ desk' \in Desk /\ desk'.open /\ desk'.busy = NotBusy /\ desk'.target = 0
      /\ desk'.shown = next.shown /\ desk'.loading /\ desk'.timer
  BY <1>1 DEF Desk
<1>4. ArchiveTypes'
  BY <1>1, <1>2, <1>3, OvertakenFacts DEF ArchiveTypes
<1>5. DeskIsTrue'
  BY <1>1, <1>3, NothingChosen DEF DeskIsTrue, NotBusy
<1>6. PagesAreTrue'
  BY <1>1, <1>2, NobodyWaits, PagesOvertaken
<1>7. OfTheQuery' /\ OrderIsKept'
  BY <1>3 DEF OfTheQuery, OrderIsKept, ListVisible
<1> QED BY <1>4, <1>5, <1>6, <1>7 DEF ArchivesInv

LEMMA OpenManagerKeeps == ArchivesInv /\ OpenManager => ArchivesInv'
<1> SUFFICES ASSUME ArchivesInv, OpenManager PROVE ArchivesInv'
  OBVIOUS
<1>1. PICK next : next = [Emptied(desk.kind) EXCEPT !.open = TRUE]
  OBVIOUS
<1>2. desk.kind \in {"reviews", "actions"}
  BY DEF ArchivesInv, ArchiveTypes, Desk
<1>21. PICK empty \in Desk :
          /\ empty = Emptied(desk.kind) /\ empty.shown = << >> /\ empty.busy = NotBusy
          /\ empty.target = 0
  BY <1>2, NothingChosen
<1>3. ~desk.open /\ Turn(next)
  BY <1>1 DEF OpenManager
<1>4. desk.busy = NotBusy
  BY <1>3 DEF ArchivesInv, DeskIsTrue
<1>5. /\ next \in Desk /\ next.open /\ next.busy = NotBusy /\ next.target = 0
      /\ next.shown = << >>
  <2>1. next = [empty EXCEPT !.open = TRUE]
    BY <1>1, <1>21
  <2> QED BY <1>21, <2>1 DEF Desk
<1>6. IsInjective(next.shown)
  BY <1>5, NoList
<1> QED BY <1>3, <1>4, <1>5, <1>6, TurnKeeps

LEMMA ChangeViewKeeps == ArchivesInv /\ ChangeView => ArchivesInv'
<1> SUFFICES ASSUME ArchivesInv, ChangeView PROVE ArchivesInv'
  OBVIOUS
<1>1. PICK v \in ListView : Turn([Emptied(desk.kind) EXCEPT !.open = TRUE, !.view = v])
  BY Zenon DEF ChangeView
<1>2. PICK next : next = [Emptied(desk.kind) EXCEPT !.open = TRUE, !.view = v]
  OBVIOUS
<1>3. desk.kind \in {"reviews", "actions"}
  BY DEF ArchivesInv, ArchiveTypes, Desk
<1>31. PICK empty \in Desk :
          /\ empty = Emptied(desk.kind) /\ empty.shown = << >> /\ empty.busy = NotBusy
          /\ empty.target = 0
  BY <1>3, NothingChosen
<1>4. desk.busy = NotBusy /\ Turn(next)
  BY <1>1, <1>2 DEF ChangeView, Free
<1>5. /\ next \in Desk /\ next.open /\ next.busy = NotBusy /\ next.target = 0
      /\ next.shown = << >>
  <2>1. next = [empty EXCEPT !.open = TRUE, !.view = v]
    BY <1>2, <1>31
  <2> QED BY <1>31, <2>1 DEF Desk
<1>6. IsInjective(next.shown)
  BY <1>5, NoList
<1> QED BY <1>4, <1>5, <1>6, TurnKeeps

LEMMA ChangeQueryKeeps == ArchivesInv /\ ChangeQuery => ArchivesInv'
<1> SUFFICES ASSUME ArchivesInv, ChangeQuery PROVE ArchivesInv'
  OBVIOUS
<1>1. PICK q \in Search : Turn([desk EXCEPT !.query = q])
  BY DEF ChangeQuery
<1>2. PICK next : next = [desk EXCEPT !.query = q]
  OBVIOUS
<1>3. desk \in Desk /\ IsInjective(desk.shown)
  BY DEF ArchivesInv, ArchiveTypes
<1>4. desk.open /\ desk.busy = NotBusy /\ desk.target = 0 /\ Turn(next)
  BY <1>1, <1>2 DEF ChangeQuery, Free
<1>5. /\ next \in Desk /\ next.open /\ next.busy = NotBusy /\ next.target = 0
      /\ next.shown = desk.shown
  BY <1>2, <1>3, <1>4 DEF Desk
<1> QED BY <1>3, <1>4, <1>5, TurnKeeps

LEMMA CloseManagerKeeps == ArchivesInv /\ CloseManager => ArchivesInv'
<1> SUFFICES ASSUME ArchivesInv, CloseManager PROVE ArchivesInv'
  OBVIOUS
<1>1. /\ desk' = [desk EXCEPT !.open = FALSE, !.loading = FALSE, !.timer = FALSE]
      /\ pages' = Overtaken /\ desk.busy = NotBusy /\ desk.target = 0
      /\ UNCHANGED <<active, archived, written, steady, unsure>>
  BY DEF CloseManager, Free, archivesServer
<1>2. ArchiveTypes /\ DeskIsTrue /\ PagesAreTrue
  BY DEF ArchivesInv
<1>3. /\ desk' \in Desk /\ ~desk'.open /\ desk'.busy = NotBusy /\ desk'.target = 0
      /\ desk'.shown = desk.shown /\ ~desk'.loading /\ ~desk'.timer
  BY <1>1, <1>2 DEF ArchiveTypes, Desk
<1>4. ArchiveTypes'
  BY <1>1, <1>2, <1>3, OvertakenFacts DEF ArchiveTypes
<1>5. DeskIsTrue'
  BY <1>1, <1>3, NothingChosen DEF DeskIsTrue, NotBusy
<1>6. PagesAreTrue'
  BY <1>1, <1>2, NobodyWaits, PagesOvertaken
<1>7. OfTheQuery' /\ OrderIsKept'
  BY <1>3 DEF OfTheQuery, OrderIsKept, ListVisible
<1> QED BY <1>4, <1>5, <1>6, <1>7 DEF ArchivesInv

LEMMA StartPageKeeps == ArchivesInv /\ StartPage => ArchivesInv'
<1> SUFFICES ASSUME ArchivesInv, StartPage PROVE ArchivesInv'
  OBVIOUS
<1>1. /\ desk.open /\ desk.timer /\ AskPage(1, FALSE, FALSE)
      /\ desk' = [desk EXCEPT !.timer = FALSE, !.loading = TRUE]
      /\ UNCHANGED <<active, archived, written, steady, unsure>>
  BY DEF StartPage, archivesServer
<1>2. ArchiveTypes /\ DeskIsTrue /\ PagesAreTrue
  BY DEF ArchivesInv
<1>3. desk.busy = NotBusy /\ desk.target = 0 /\ steady = {}
  BY <1>1, <1>2 DEF DeskIsTrue
<1>4. /\ desk' \in Desk /\ desk'.open /\ desk'.busy = NotBusy /\ desk'.target = 0
      /\ desk'.shown = desk.shown /\ desk'.loading /\ ~desk'.timer
      /\ desk'.view = desk.view /\ desk'.query = desk.query
  BY <1>1, <1>2, <1>3 DEF ArchiveTypes, Desk
<1>5. 1 \in Nat /\ FALSE \in BOOLEAN
  OBVIOUS
<1>6. ArchiveTypes'
  BY <1>1, <1>2, <1>4, <1>5, AskedFacts DEF ArchiveTypes
<1>7. DeskIsTrue'
  BY <1>1, <1>3, <1>4, NothingChosen DEF DeskIsTrue, NotBusy
<1>8. NoneWaits
  BY <1>2, <1>3, NobodyWaits
<1>9. PagesAreTrue'
  BY <1>1, <1>2, <1>4, <1>5, <1>8, PageAsked
<1>10. OfTheQuery' /\ OrderIsKept'
  BY <1>4 DEF OfTheQuery, OrderIsKept, ListVisible
<1> QED BY <1>6, <1>7, <1>9, <1>10 DEF ArchivesInv

\* A button that waits for a page: the next one, or the first once more.
LEMMA PageWaits ==
  ASSUME ArchivesInv, Free, ListVisible, NEW n \in Nat, NEW more \in BOOLEAN, NEW does,
         AskPage(n, more, TRUE), does \in {"page", "retry"},
         more => does = "page" /\ n = desk.at + 1, more \/ n = 1,
         desk' = [desk EXCEPT !.busy = [NotBusy EXCEPT !.does = does]],
         UNCHANGED <<archivesServer, steady, unsure>>
  PROVE  ArchivesInv'
<1>1. UNCHANGED <<active, archived, written, steady, unsure>>
  BY DEF archivesServer
<1>2. ArchiveTypes /\ DeskIsTrue /\ PagesAreTrue
  BY DEF ArchivesInv
<1>3. desk.open /\ ~desk.loading /\ desk.busy = NotBusy /\ desk.target = 0 /\ ~desk.timer
  BY <1>2 DEF Free, ListVisible, DeskIsTrue
<1>4. PICK waits : waits = [NotBusy EXCEPT !.does = does]
  OBVIOUS
<1>5. /\ waits \in Busy /\ waits.does = does /\ waits.at = "reload" /\ waits /= NotBusy
  BY <1>4, ArchivesAssumption DEF NotBusy, Busy
<1>6. /\ desk' \in Desk /\ desk'.open /\ desk'.busy = waits /\ desk'.target = 0
      /\ desk'.shown = desk.shown /\ ~desk'.loading /\ ~desk'.timer
      /\ desk'.view = desk.view /\ desk'.query = desk.query /\ desk'.kind = desk.kind
      /\ desk'.at = desk.at /\ desk'.more = desk.more /\ desk'.retry = desk.retry
  BY <1>2, <1>3, <1>4, <1>5 DEF ArchiveTypes, Desk
<1>7. ArchiveTypes'
  BY <1>1, <1>2, <1>6, AskedFacts DEF ArchiveTypes
<1>8. DeskIsTrue'
  BY <1>5, <1>6 DEF DeskIsTrue
<1>9. NoneWaits
  BY <1>2, <1>3, NobodyWaits
<1>10. PagesAreTrue'
  BY <1>2, <1>5, <1>6, <1>9, PageAsked
<1>11. desk.busy.does \notin Changes
  BY <1>3, NothingChosen DEF Changes
<1>12. OfTheQuery' /\ OrderIsKept'
  BY <1>1, <1>3, <1>6, <1>11, SameListKept
<1> QED BY <1>7, <1>8, <1>10, <1>12 DEF ArchivesInv

LEMMA LoadMoreKeeps == ArchivesInv /\ LoadMore => ArchivesInv'
<1> SUFFICES ASSUME ArchivesInv, LoadMore PROVE ArchivesInv'
  OBVIOUS
<1>1. desk.at + 1 \in Nat /\ TRUE \in BOOLEAN
  BY DEF ArchivesInv, ArchiveTypes, Desk
<1>2. PICK does : does = "page"
  OBVIOUS
<1>3. /\ Free /\ ListVisible /\ AskPage(desk.at + 1, TRUE, TRUE)
      /\ desk' = [desk EXCEPT !.busy = [NotBusy EXCEPT !.does = does]]
      /\ UNCHANGED <<archivesServer, steady, unsure>>
  BY <1>2 DEF LoadMore
<1> QED BY <1>1, <1>2, <1>3, PageWaits

LEMMA RetryRefreshKeeps == ArchivesInv /\ RetryRefresh => ArchivesInv'
<1> SUFFICES ASSUME ArchivesInv, RetryRefresh PROVE ArchivesInv'
  OBVIOUS
<1>1. 1 \in Nat /\ FALSE \in BOOLEAN
  OBVIOUS
<1>2. PICK does : does = "retry"
  OBVIOUS
<1>3. /\ Free /\ ListVisible /\ AskPage(1, FALSE, TRUE)
      /\ desk' = [desk EXCEPT !.busy = [NotBusy EXCEPT !.does = does]]
      /\ UNCHANGED <<archivesServer, steady, unsure>>
  BY <1>2 DEF RetryRefresh
<1> QED BY <1>1, <1>2, <1>3, PageWaits

\* A button of a record, or of the dialog, is at work.
LEMMA ChangeSent ==
  ASSUME ArchivesInv, desk.open, ~desk.loading, desk.busy = NotBusy,
         NEW does, does \in Offered, NEW r \in 0..MaxRecords, Sends(does, r),
         UNCHANGED <<archivesServer, pages, steady, unsure>>
  PROVE  ArchivesInv'
<1>1. UNCHANGED <<active, archived, written, pages, steady, unsure>>
  BY DEF archivesServer
<1>2. ArchiveTypes /\ DeskIsTrue /\ PagesAreTrue
  BY DEF ArchivesInv
<1>3. PICK waits : waits = [does |-> does, at |-> "sent", record |-> r]
  OBVIOUS
<1>4. does \in Changes
  BY DEF Offered, Changes
<1>5. /\ waits \in Busy /\ waits.does = does /\ waits.at = "sent" /\ waits /= NotBusy
  BY <1>3, <1>4 DEF NotBusy, Busy, Changes
<1>6. /\ desk' \in Desk /\ desk'.open /\ desk'.busy = waits /\ desk'.target = desk.target
      /\ desk'.shown = desk.shown /\ ~desk'.loading /\ ~desk'.timer
      /\ desk'.view = desk.view /\ desk'.query = desk.query /\ desk'.kind = desk.kind
      /\ desk'.at = desk.at /\ desk'.more = desk.more /\ desk'.retry = desk.retry
  BY <1>2, <1>3, <1>5 DEF ArchiveTypes, Desk, Sends, DeskIsTrue
<1>7. ArchiveTypes'
  BY <1>1, <1>2, <1>6 DEF ArchiveTypes
<1>8. DeskIsTrue'
  BY <1>2, <1>5, <1>6 DEF DeskIsTrue, Offered
<1>9. NoneWaits
  BY <1>2, NobodyWaits
<1>10. PagesAreTrue'
  BY <1>1, <1>2, <1>6, <1>9 DEF PagesAreTrue, NoneWaits
<1>11. desk.busy.does \notin Changes
  BY NothingChosen DEF Changes
<1>12. OfTheQuery' /\ OrderIsKept'
  BY <1>1, <1>6, <1>11, SameListKept
<1> QED BY <1>7, <1>8, <1>10, <1>12 DEF ArchivesInv

\* The dialog opens or closes.
LEMMA TargetChosen ==
  ASSUME ArchivesInv, desk.open, ~desk.loading, desk.busy = NotBusy,
         NEW r \in 0..MaxRecords, r /= 0 => "delete" \in Offered,
         desk' = [desk EXCEPT !.target = r],
         UNCHANGED <<archivesServer, pages, steady, unsure>>
  PROVE  ArchivesInv'
<1>1. UNCHANGED <<active, archived, written, pages, steady, unsure>>
  BY DEF archivesServer
<1>2. ArchiveTypes /\ DeskIsTrue /\ PagesAreTrue
  BY DEF ArchivesInv
<1>3. /\ desk' \in Desk /\ desk'.open /\ desk'.busy = NotBusy /\ desk'.target = r
      /\ desk'.shown = desk.shown /\ ~desk'.loading /\ ~desk'.timer
      /\ desk'.view = desk.view /\ desk'.query = desk.query /\ desk'.kind = desk.kind
      /\ desk'.at = desk.at /\ desk'.more = desk.more /\ desk'.retry = desk.retry
  BY <1>2 DEF ArchiveTypes, Desk, DeskIsTrue
<1>4. ArchiveTypes'
  BY <1>1, <1>2, <1>3 DEF ArchiveTypes
<1>5. DeskIsTrue'
  BY <1>2, <1>3, NothingChosen DEF DeskIsTrue, Offered, NotBusy
<1>6. NoneWaits
  BY <1>2, NobodyWaits
<1>7. PagesAreTrue'
  BY <1>1, <1>2, <1>3, <1>6 DEF PagesAreTrue, NoneWaits
<1>8. OfTheQuery' /\ OrderIsKept'
  BY <1>1, <1>3, SameListKept
<1> QED BY <1>4, <1>5, <1>7, <1>8 DEF ArchivesInv

LEMMA PressRecordKeeps == ArchivesInv /\ PressRecord => ArchivesInv'
<1> SUFFICES ASSUME ArchivesInv, PressRecord PROVE ArchivesInv'
  OBVIOUS
<1>1. desk.open /\ ~desk.loading /\ desk.busy = NotBusy
  BY DEF PressRecord, Free, ListVisible
<1>2. PICK r \in ToSet(desk.shown), does \in Offered :
         IF does = "delete" THEN desk' = [desk EXCEPT !.target = r] ELSE Sends(does, r)
  BY DEF PressRecord
<1>3. UNCHANGED <<archivesServer, pages, steady, unsure>>
  BY DEF PressRecord
<1>4. r \in 0..MaxRecords
  <2>1. desk.shown \in Seq(RecordId)
    BY DEF ArchivesInv, ArchiveTypes, Desk
  <2>2. r \in RecordId
    BY <2>1 DEF ToSet
  <2> QED BY <2>2, ArchivesAssumption DEF RecordId
<1>5. CASE does = "delete"
  BY <1>1, <1>2, <1>3, <1>4, <1>5, TargetChosen
<1>6. CASE does /= "delete"
  BY <1>1, <1>2, <1>3, <1>4, <1>6, ChangeSent
<1> QED BY <1>5, <1>6

LEMMA DeleteDialogKeeps == ArchivesInv /\ DeleteDialog => ArchivesInv'
<1> SUFFICES ASSUME ArchivesInv, DeleteDialog PROVE ArchivesInv'
  OBVIOUS
<1>1. /\ desk.target /= 0 /\ desk.busy = NotBusy
      /\ Sends("delete", desk.target) \/ desk' = [desk EXCEPT !.target = 0]
      /\ UNCHANGED <<archivesServer, pages, steady, unsure>>
  BY DEF DeleteDialog
<1>2. desk.open /\ ~desk.loading /\ "delete" \in Offered
  BY <1>1 DEF ArchivesInv, DeskIsTrue
<1>3. desk.target \in 0..MaxRecords /\ 0 \in 0..MaxRecords
  BY ArchivesAssumption DEF ArchivesInv, ArchiveTypes, Desk
<1>4. CASE Sends("delete", desk.target)
  <2>1. PICK does : does = "delete"
    OBVIOUS
  <2>2. does \in Offered /\ Sends(does, desk.target)
    BY <1>2, <1>4, <2>1
  <2> QED BY <1>1, <1>2, <1>3, <2>2, ChangeSent
<1>5. CASE desk' = [desk EXCEPT !.target = 0]
  <2>1. PICK none : none = 0
    OBVIOUS
  <2>2. none \in 0..MaxRecords /\ (none /= 0 => "delete" \in Offered)
    BY <1>3, <2>1
  <2>3. desk' = [desk EXCEPT !.target = none]
    BY <1>5, <2>1
  <2> QED BY <1>1, <1>2, <2>2, <2>3, TargetChosen
<1> QED BY <1>1, <1>4, <1>5

-----------------------------------------------------------------------------
(* Answers *)

LEMMA AnswerKeeps ==
  ASSUME ArchivesInv, NEW p \in pages, p.fresh, pages' = pages \ {p},
         UNCHANGED <<active, archived, written>>,
         desk' \in Desk, desk'.open, ~desk'.loading, ~desk'.timer, desk'.busy = NotBusy,
         desk'.target = desk.target, desk'.view = desk.view, desk'.query = desk.query,
         desk'.kind = desk.kind, IsInjective(desk'.shown),
         ToSet(desk'.shown) \subseteq Matching(desk.query),
         steady' \subseteq RecordId, unsure' \in BOOLEAN,
         ~unsure' => /\ ShownFirst(TheList, ToSet(desk'.shown), steady', desk'.more \/ desk'.retry)
                     /\ Beyond(TheList, ToSet(desk'.shown), steady', desk'.at * PageLength)
  PROVE  ArchivesInv'
<1>1. ArchiveTypes /\ DeskIsTrue /\ PagesAreTrue
  BY DEF ArchivesInv
<1>2. pages' \subseteq ArchivePage /\ IsFiniteSet(pages') /\ Cardinality(pages') <= MaxPages
  <2>1. pages \subseteq ArchivePage /\ IsFiniteSet(pages) /\ Cardinality(pages) <= MaxPages
    BY <1>1 DEF ArchiveTypes
  <2>2. IsFiniteSet(pages') /\ Cardinality(pages') <= Cardinality(pages)
    BY <2>1, FS_Subset
  <2>3. Cardinality(pages') \in Nat /\ Cardinality(pages) \in Nat
    BY <2>1, <2>2, FS_CardinalityType
  <2> QED BY <2>1, <2>2, <2>3, ArchivesAssumption
<1>3. ArchiveTypes'
  BY <1>1, <1>2 DEF ArchiveTypes
<1>4. DeskIsTrue'
  BY <1>1, NothingChosen DEF DeskIsTrue, Offered, NotBusy
<1>5. \A q \in pages' : ~q.fresh /\ ~q.silent /\ ~q.append /\ q.page = 1
  BY <1>1 DEF PagesAreTrue
<1>6. PagesAreTrue'
  BY <1>5 DEF PagesAreTrue
<1>7. OfTheQuery'
  BY QueryStays DEF OfTheQuery
<1>8. TheList' = TheList
  BY ListStays
<1>9. OrderIsKept'
  BY <1>8 DEF OrderIsKept, ShownFirst, Beyond
<1> QED BY <1>3, <1>4, <1>6, <1>7, <1>9 DEF ArchivesInv

\* The answer to an overtaken request changes nothing.
LEMMA OvertakenKeeps ==
  ASSUME ArchivesInv, NEW p \in pages, pages' = pages \ {p}, desk' = desk,
         UNCHANGED <<active, archived, written, steady, unsure>>
  PROVE  ArchivesInv'
<1>1. ArchiveTypes /\ DeskIsTrue /\ PagesAreTrue
  BY DEF ArchivesInv
<1>2. pages' \subseteq ArchivePage /\ IsFiniteSet(pages') /\ Cardinality(pages') <= MaxPages
  <2>1. pages \subseteq ArchivePage /\ IsFiniteSet(pages) /\ Cardinality(pages) <= MaxPages
    BY <1>1 DEF ArchiveTypes
  <2>2. IsFiniteSet(pages') /\ Cardinality(pages') <= Cardinality(pages)
    BY <2>1, FS_Subset
  <2>3. Cardinality(pages') \in Nat /\ Cardinality(pages) \in Nat
    BY <2>1, <2>2, FS_CardinalityType
  <2> QED BY <2>1, <2>2, <2>3, ArchivesAssumption
<1>3. ArchiveTypes'
  BY <1>1, <1>2 DEF ArchiveTypes
<1>4. DeskIsTrue' /\ PagesAreTrue'
  BY <1>1 DEF DeskIsTrue, PagesAreTrue, Offered
<1>5. OfTheQuery' /\ OrderIsKept'
  BY SameListKept
<1> QED BY <1>3, <1>4, <1>5 DEF ArchivesInv

\* The pages of the list of the screen.
LEMMA PageOfTheList ==
  ASSUME ArchiveTypes, NEW n \in Nat \ {0}
  PROVE  LET sheet == PageOf(desk.view, desk.query, n)
         IN  /\ sheet.items \in Seq(RecordId) /\ IsInjective(sheet.items)
             /\ ToSet(sheet.items) \subseteq Matching(desk.query)
             /\ ToSet(sheet.items) = OnPage(TheList, (n - 1) * PageLength, n * PageLength)
             /\ sheet.more = (n * PageLength < Len(TheList)) /\ sheet.more \in BOOLEAN
<1>1. TheList \in Seq(RecordId) /\ IsInjective(TheList) /\ ToSet(TheList) \subseteq Matching(desk.query)
  BY ListFacts
<1>2. PICK side, query : side = desk.view /\ query = desk.query /\ TheList = Listed(side, query)
  BY DEF TheList
<1>3. PICK sheet, list : sheet = PageOf(side, query, n) /\ list = Listed(side, query)
  OBVIOUS
<1>4. /\ sheet.items \in Seq(RecordId) /\ IsInjective(sheet.items)
      /\ ToSet(sheet.items) = OnPage(TheList, (n - 1) * PageLength, n * PageLength)
      /\ sheet.more = (n * PageLength < Len(TheList)) /\ sheet.more \in BOOLEAN
  <2>1. list \in Seq(RecordId) /\ IsInjective(list)
    BY <1>1, <1>2, <1>3
  <2>2. /\ sheet.items \in Seq(RecordId) /\ IsInjective(sheet.items)
        /\ ToSet(sheet.items) = OnPage(list, (n - 1) * PageLength, n * PageLength)
        /\ sheet.more = (n * PageLength < Len(list)) /\ sheet.more \in BOOLEAN
    BY <1>3, <2>1, PageFacts
  <2> QED BY <1>2, <1>3, <2>2
<1>5. ToSet(sheet.items) \subseteq ToSet(TheList)
  <2>1. \A k \in DOMAIN TheList : TheList[k] \in ToSet(TheList)
    BY DEF ToSet
  <2> QED BY <1>4, <2>1 DEF OnPage
<1> QED BY <1>1, <1>2, <1>3, <1>4, <1>5

\* Two sequences after each other.
LEMMA JoinedOnce ==
  ASSUME NEW X, NEW s \in Seq(X), NEW t \in Seq(X), IsInjective(s), IsInjective(t),
         ToSet(s) \cap ToSet(t) = {}
  PROVE  s \o t \in Seq(X) /\ IsInjective(s \o t) /\ ToSet(s \o t) = ToSet(s) \cup ToSet(t)
<1> DEFINE m == Len(s)
           n == Len(t)
           u == s \o t
<1>1. /\ m \in Nat /\ n \in Nat /\ DOMAIN s = 1..m /\ DOMAIN t = 1..n
      /\ u \in Seq(X) /\ DOMAIN u = 1..(m + n)
      /\ \A i \in 1..(m + n) : u[i] = IF i <= m THEN s[i] ELSE t[i - m]
  BY ConcatProperties
<1> HIDE DEF u, m, n
<1>2. \A i \in 1..(m + n) : i <= m => i \in DOMAIN s /\ u[i] = s[i]
  BY <1>1
<1>3. \A i \in 1..(m + n) : i > m => i - m \in DOMAIN t /\ u[i] = t[i - m]
  BY <1>1
<1>4. ASSUME NEW i \in 1..(m + n), NEW j \in 1..(m + n), i <= m, j > m
      PROVE  u[i] /= u[j]
  BY <1>2, <1>3, <1>4 DEF ToSet
<1>5. ASSUME NEW i \in DOMAIN u, NEW j \in DOMAIN u, u[i] = u[j]
      PROVE  i = j
  <2>1. i \in 1..(m + n) /\ j \in 1..(m + n)
    BY <1>1, <1>5
  <2>2. i \in Int /\ j \in Int
    BY <2>1
  <2>3. CASE i <= m /\ j <= m
    BY <1>2, <1>5, <2>1, <2>3 DEF IsInjective
  <2>4. CASE i > m /\ j > m
    <3>1. i - m = j - m
      BY <1>3, <1>5, <2>1, <2>4 DEF IsInjective
    <3> QED BY <1>1, <2>2, <3>1
  <2>5. ~(i <= m /\ j > m) /\ ~(i > m /\ j <= m)
    BY <1>4, <1>5, <2>1
  <2> QED BY <1>1, <2>2, <2>3, <2>4, <2>5
<1>6. ToSet(u) = ToSet(s) \cup ToSet(t)
  <2>1. ASSUME NEW i \in DOMAIN u PROVE u[i] \in ToSet(s) \cup ToSet(t)
    <3>1. i \in 1..(m + n) /\ (i <= m \/ i > m)
      BY <1>1
    <3> QED BY <1>2, <1>3, <3>1 DEF ToSet
  <2>2. ASSUME NEW i \in DOMAIN s PROVE s[i] \in ToSet(u)
    <3>1. i \in 1..(m + n) /\ u[i] = s[i]
      BY <1>1
    <3> QED BY <1>1, <3>1 DEF ToSet
  <2>3. ASSUME NEW i \in DOMAIN t PROVE t[i] \in ToSet(u)
    <3>1. m + i \in 1..(m + n) /\ u[m + i] = t[i]
      BY <1>1
    <3> QED BY <1>1, <3>1 DEF ToSet
  <2> QED BY <2>1, <2>2, <2>3 DEF ToSet
<1>7. IsInjective(u)
  BY <1>5 DEF IsInjective
<1> QED BY <1>1, <1>6, <1>7 DEF u

\* A page after the others, without what is there.
LEMMA AppendedKept ==
  ASSUME ArchivesInv, NEW n \in Nat, n = desk.at + 1, ListVisible, desk.busy.does \notin Changes
  PROVE  LET sheet == PageOf(desk.view, desk.query, n)
             seen == desk.shown \o Filtered(sheet.items, RecordId \ ToSet(desk.shown))
         IN  /\ seen \in Seq(RecordId) /\ IsInjective(seen)
             /\ ToSet(seen) \subseteq Matching(desk.query) /\ sheet.more \in BOOLEAN
             /\ ~unsure => /\ ShownFirst(TheList, ToSet(seen), steady, sheet.more)
                           /\ Beyond(TheList, ToSet(seen), steady, n * PageLength)
<1>1. ArchiveTypes /\ OfTheQuery /\ OrderIsKept
  BY DEF ArchivesInv
<1>2. desk.shown \in Seq(RecordId) /\ IsInjective(desk.shown) /\ desk.at \in Nat
  BY <1>1 DEF ArchiveTypes, Desk
<1>3. ToSet(desk.shown) \subseteq Matching(desk.query)
  BY <1>1 DEF OfTheQuery
<1>4. PICK sheet : sheet = PageOf(desk.view, desk.query, n)
  OBVIOUS
<1>5. n \in Nat \ {0} /\ n - 1 = desk.at
  BY <1>2
<1>6. /\ sheet.items \in Seq(RecordId) /\ IsInjective(sheet.items)
      /\ ToSet(sheet.items) \subseteq Matching(desk.query)
      /\ ToSet(sheet.items) = OnPage(TheList, (n - 1) * PageLength, n * PageLength)
      /\ sheet.more = (n * PageLength < Len(TheList)) /\ sheet.more \in BOOLEAN
  BY <1>1, <1>4, <1>5, PageOfTheList
<1>7. PICK others : others = Filtered(sheet.items, RecordId \ ToSet(desk.shown))
  OBVIOUS
<1>8. others \in Seq(RecordId) /\ ToSet(others) = ToSet(sheet.items) \cap (RecordId \ ToSet(desk.shown))
  BY <1>6, <1>7, FilteredFacts
<1>9. IsInjective(others)
  BY <1>6, <1>7, FilteredInOrder
<1>10. PICK seen : seen = desk.shown \o others
  OBVIOUS
<1>11. ToSet(desk.shown) \cap ToSet(others) = {}
  BY <1>8
<1>12. /\ seen \in Seq(RecordId) /\ IsInjective(seen)
       /\ ToSet(seen) = ToSet(desk.shown) \cup ToSet(others)
  BY <1>2, <1>8, <1>9, <1>10, <1>11, JoinedOnce
<1>13. ToSet(sheet.items) \subseteq RecordId
  BY <1>6 DEF ToSet
<1>14. ToSet(seen) = ToSet(desk.shown) \cup ToSet(sheet.items)
  BY <1>8, <1>12, <1>13
<1>15. ASSUME ~unsure
       PROVE  /\ ShownFirst(TheList, ToSet(seen), steady, sheet.more)
              /\ Beyond(TheList, ToSet(seen), steady, n * PageLength)
  <2>1. /\ ShownFirst(TheList, ToSet(desk.shown), steady, desk.more \/ desk.retry)
        /\ Beyond(TheList, ToSet(desk.shown), steady, desk.at * PageLength)
    BY <1>1, <1>15 DEF OrderIsKept
  <2>2. TheList \in Seq(RecordId) /\ IsInjective(TheList)
    BY <1>1, ListFacts
  <2>3. PICK a \in Nat : a = (n - 1) * PageLength
    BY <1>2, <1>5, ArchivesAssumption
  <2>4. PICK z \in Nat : z = n * PageLength
    BY ArchivesAssumption
  <2>5. PICK items : items = ToSet(sheet.items)
    OBVIOUS
  <2>6. items = OnPage(TheList, a, z)
    BY <1>6, <2>3, <2>4, <2>5
  <2>7. Beyond(TheList, ToSet(desk.shown), steady, a)
    BY <1>5, <2>1, <2>3
  <2>8. /\ ShownFirst(TheList, ToSet(desk.shown) \cup items, steady, z < Len(TheList))
        /\ Beyond(TheList, ToSet(desk.shown) \cup items, steady, z)
    BY <2>1, <2>2, <2>6, <2>7, KeptMore
  <2>9. ToSet(desk.shown) \cup items = ToSet(seen) /\ sheet.more = (z < Len(TheList))
    BY <1>6, <1>14, <2>4, <2>5
  <2> QED BY <2>4, <2>8, <2>9
<1>16. ToSet(seen) \subseteq Matching(desk.query)
  BY <1>3, <1>6, <1>14
<1> QED BY <1>4, <1>6, <1>7, <1>10, <1>12, <1>15, <1>16

LEMMA ReceivePageKeeps == ArchivesInv /\ ReceivePage => ArchivesInv'
<1> SUFFICES ASSUME ArchivesInv, ReceivePage PROVE ArchivesInv'
  OBVIOUS
<1>1. PICK p \in pages, told \in BOOLEAN :
        /\ pages' = pages \ {p}
        /\ LET after == IF ~p.fresh THEN desk ELSE IF told THEN Taken(p) ELSE Missed(p)
           IN  desk' = [after EXCEPT !.loading = IF p.fresh /\ ~p.silent THEN FALSE ELSE @,
                                     !.busy = IF p.silent THEN NotBusy ELSE @]
        /\ LET first == p.fresh /\ told /\ ~p.append
           IN  /\ steady' = IF first THEN ToSet(Listed(p.view, p.query)) ELSE steady
               /\ unsure' = (unsure /\ ~first)
        /\ UNCHANGED archivesServer
  BY Zenon DEF ReceivePage
<1>2. UNCHANGED <<active, archived, written>>
  BY <1>1 DEF archivesServer
<1>3. ArchiveTypes /\ DeskIsTrue /\ PagesAreTrue /\ OfTheQuery /\ OrderIsKept
  BY DEF ArchivesInv
<1>4. /\ p \in ArchivePage /\ desk \in Desk /\ IsInjective(desk.shown)
      /\ steady \subseteq RecordId /\ unsure \in BOOLEAN
  BY <1>3 DEF ArchiveTypes
<1>5. CASE ~p.fresh
  <2>1. ~p.silent
    BY <1>3, <1>5 DEF PagesAreTrue
  <2>2. desk' = [desk EXCEPT !.loading = desk.loading, !.busy = desk.busy]
    BY <1>1, <1>5, <2>1
  <2>3. desk' = desk
    BY <1>4, <2>2 DEF Desk
  <2>4. steady' = steady /\ unsure' = unsure
    BY <1>1, <1>4, <1>5
  <2> QED BY <1>1, <1>2, <2>3, <2>4, OvertakenKeeps
<1>6. CASE p.fresh
  <2>1. /\ desk.open /\ ~desk.timer /\ p.view = desk.view /\ p.query = desk.query
        /\ ~p.silent => desk.loading /\ ~p.append /\ desk.busy = NotBusy /\ steady = {}
        /\ p.silent => desk.busy /= NotBusy /\ ~desk.loading
        /\ p.append => p.silent /\ p.page = desk.at + 1 /\ desk.busy.does = "page"
        /\ ~p.append => p.page = 1
    BY <1>3, <1>6 DEF PagesAreTrue, DeskIsTrue
  <2>2. PICK after : after = IF told THEN Taken(p) ELSE Missed(p)
    OBVIOUS
  <2>3. desk' = [after EXCEPT !.loading = IF ~p.silent THEN FALSE ELSE after.loading,
                              !.busy = IF p.silent THEN NotBusy ELSE after.busy]
    BY <1>1, <1>6, <2>2
  <2>4. /\ steady' = IF told /\ ~p.append THEN ToSet(TheList) ELSE steady
        /\ unsure' = (unsure /\ ~(told /\ ~p.append))
    BY <1>1, <1>6, <2>1 DEF TheList
  <2>5. TheList \in Seq(RecordId) /\ IsInjective(TheList) /\ ToSet(TheList) \subseteq RecordId
    <3>1. TheList \in Seq(RecordId) /\ IsInjective(TheList)
      BY <1>3, ListFacts
    <3> QED BY <3>1 DEF ToSet
  <2>6. steady' \subseteq RecordId /\ unsure' \in BOOLEAN
    BY <1>4, <2>4, <2>5
  <2>7. SUFFICES /\ after \in Desk /\ after.open = desk.open /\ after.timer = desk.timer
                 /\ after.loading = desk.loading /\ after.busy = desk.busy
                 /\ after.target = desk.target /\ after.view = desk.view
                 /\ after.query = desk.query /\ after.kind = desk.kind
                 /\ IsInjective(after.shown) /\ ToSet(after.shown) \subseteq Matching(desk.query)
                 /\ ~unsure' =>
                      /\ ShownFirst(TheList, ToSet(after.shown), steady', after.more \/ after.retry)
                      /\ Beyond(TheList, ToSet(after.shown), steady', after.at * PageLength)
    <3>1. /\ desk' \in Desk /\ desk'.open /\ ~desk'.timer /\ ~desk'.loading
          /\ desk'.busy = NotBusy /\ desk'.target = desk.target /\ desk'.view = desk.view
          /\ desk'.query = desk.query /\ desk'.kind = desk.kind /\ desk'.shown = after.shown
          /\ desk'.more = after.more /\ desk'.retry = after.retry /\ desk'.at = after.at
      BY <2>1, <2>3, <2>7, NothingChosen DEF Desk
    <3> QED BY <1>1, <1>2, <1>6, <2>6, <2>7, <3>1, AnswerKeeps
  <2>8. CASE told /\ ~p.append
    <3>1. PICK sheet : sheet = PageOf(desk.view, desk.query, 1)
      OBVIOUS
    <3>2. after = [desk EXCEPT !.shown = sheet.items, !.at = 1, !.more = sheet.more, !.retry = FALSE]
      BY <2>1, <2>2, <2>8, <3>1 DEF Taken
    <3>3. PICK z \in Nat : z = 1 * PageLength
      BY ArchivesAssumption
    <3>4. 1 \in Nat \ {0} /\ (1 - 1) * PageLength = 0
      BY ArchivesAssumption
    <3>5. /\ sheet.items \in Seq(RecordId) /\ IsInjective(sheet.items)
          /\ ToSet(sheet.items) \subseteq Matching(desk.query)
          /\ ToSet(sheet.items) = OnPage(TheList, (1 - 1) * PageLength, z)
          /\ sheet.more = (z < Len(TheList)) /\ sheet.more \in BOOLEAN
      BY <1>3, <3>1, <3>3, <3>4, PageOfTheList
    <3>6. PICK items : items = ToSet(sheet.items)
      OBVIOUS
    <3>7. items = OnPage(TheList, 0, z)
      BY <3>4, <3>5, <3>6
    <3>8. /\ ShownFirst(TheList, items, ToSet(TheList), z < Len(TheList))
          /\ Beyond(TheList, items, ToSet(TheList), z)
      BY <2>5, <3>7, KeptFirst
    <3>9. /\ after \in Desk /\ after.open = desk.open /\ after.timer = desk.timer
          /\ after.loading = desk.loading /\ after.busy = desk.busy
          /\ after.target = desk.target /\ after.view = desk.view
          /\ after.query = desk.query /\ after.kind = desk.kind
          /\ after.shown = sheet.items /\ after.at = 1 /\ after.more = sheet.more /\ after.retry = FALSE
      BY <1>4, <3>2, <3>5 DEF Desk
    <3>10. steady' = ToSet(TheList)
      BY <2>4, <2>8
    <3>11. /\ ShownFirst(TheList, ToSet(after.shown), steady', after.more \/ after.retry)
           /\ Beyond(TheList, ToSet(after.shown), steady', after.at * PageLength)
      BY <3>3, <3>5, <3>6, <3>8, <3>9, <3>10
    <3> QED BY <3>5, <3>9, <3>11
  <2>9. CASE told /\ p.append
    <3>1. PICK n \in Nat : n = p.page
      BY <1>4 DEF ArchivePage
    <3>2. PICK sheet : sheet = PageOf(desk.view, desk.query, n)
      OBVIOUS
    <3>3. PICK seen : seen = desk.shown \o Filtered(sheet.items, RecordId \ ToSet(desk.shown))
      OBVIOUS
    <3>4. after = [desk EXCEPT !.shown = seen, !.at = n, !.more = sheet.more, !.retry = FALSE]
      BY <2>1, <2>2, <2>9, <3>1, <3>2, <3>3 DEF Taken
    <3>5. n = desk.at + 1 /\ ListVisible /\ desk.busy.does \notin Changes
      BY <2>1, <2>9, <3>1 DEF ListVisible, Changes
    <3>6. /\ seen \in Seq(RecordId) /\ IsInjective(seen)
          /\ ToSet(seen) \subseteq Matching(desk.query) /\ sheet.more \in BOOLEAN
          /\ ~unsure => /\ ShownFirst(TheList, ToSet(seen), steady, sheet.more)
                        /\ Beyond(TheList, ToSet(seen), steady, n * PageLength)
      BY <3>2, <3>3, <3>5, AppendedKept
    <3>7. /\ after \in Desk /\ after.open = desk.open /\ after.timer = desk.timer
          /\ after.loading = desk.loading /\ after.busy = desk.busy
          /\ after.target = desk.target /\ after.view = desk.view
          /\ after.query = desk.query /\ after.kind = desk.kind
          /\ after.shown = seen /\ after.at = n /\ after.more = sheet.more /\ after.retry = FALSE
      BY <1>4, <3>4, <3>6 DEF Desk
    <3>8. steady' = steady /\ unsure' = unsure
      BY <1>4, <2>4, <2>9
    <3>9. (after.more \/ after.retry) = sheet.more
      BY <3>6, <3>7
    <3>10. ~unsure' => /\ ShownFirst(TheList, ToSet(after.shown), steady', after.more \/ after.retry)
                       /\ Beyond(TheList, ToSet(after.shown), steady', after.at * PageLength)
      BY <3>6, <3>7, <3>8, <3>9
    <3> QED BY <3>6, <3>7, <3>10
  <2>10. CASE ~told /\ p.append
    <3>1. after = desk
      BY <2>2, <2>10 DEF Missed
    <3>2. steady' = steady /\ unsure' = unsure /\ ListVisible /\ desk.busy.does \notin Changes
      BY <1>4, <2>1, <2>4, <2>10 DEF ListVisible, Changes
    <3>3. ToSet(desk.shown) \subseteq Matching(desk.query)
      BY <1>3, <3>2 DEF OfTheQuery
    <3>4. ~unsure' => /\ ShownFirst(TheList, ToSet(after.shown), steady', after.more \/ after.retry)
                      /\ Beyond(TheList, ToSet(after.shown), steady', after.at * PageLength)
      BY <1>3, <3>1, <3>2 DEF OrderIsKept
    <3> QED BY <1>4, <3>1, <3>3, <3>4
  <2>11. CASE ~told /\ ~p.append
    <3>1. after = [desk EXCEPT !.shown = IF p.silent THEN desk.shown ELSE << >>,
                               !.at = 0, !.more = FALSE, !.retry = p.silent]
      BY <2>2, <2>11 DEF Missed
    <3>2. << >> \in Seq(RecordId) /\ IsInjective(<< >>) /\ ToSet(<< >>) = {}
      BY NoList
    <3>3. /\ after \in Desk /\ after.open = desk.open /\ after.timer = desk.timer
          /\ after.loading = desk.loading /\ after.busy = desk.busy
          /\ after.target = desk.target /\ after.view = desk.view
          /\ after.query = desk.query /\ after.kind = desk.kind
          /\ after.shown = (IF p.silent THEN desk.shown ELSE << >>)
          /\ after.at = 0 /\ after.more = FALSE /\ after.retry = p.silent
      BY <1>4, <3>1, <3>2 DEF Desk, ArchivePage
    <3>4. steady' = steady /\ unsure' = unsure
      BY <1>4, <2>4, <2>11
    <3>5. PICK seen : seen = ToSet(after.shown)
      OBVIOUS
    <3>6. \A j \in DOMAIN TheList : j > 0
      BY <2>5
    <3>7. Beyond(TheList, seen, steady, 0 * PageLength)
      <4>1. 0 * PageLength = 0
        BY ArchivesAssumption
      <4> QED BY <3>6, <4>1 DEF Beyond
    <3>8. CASE p.silent
      <4>1. ListVisible
        BY <2>1, <3>8 DEF ListVisible
      <4>2. ToSet(desk.shown) \subseteq Matching(desk.query)
        BY <1>3, <4>1 DEF OfTheQuery
      <4>3. ~unsure => ShownFirst(TheList, seen, steady, desk.more \/ desk.retry)
        BY <1>3, <3>3, <3>5, <3>8, <4>1 DEF OrderIsKept
      <4>4. ~unsure => ShownFirst(TheList, seen, steady, TRUE)
        BY <4>3 DEF ShownFirst
      <4>5. (after.more \/ after.retry) = TRUE
        BY <3>3, <3>8
      <4> QED BY <1>4, <3>3, <3>4, <3>5, <3>7, <3>8, <4>2, <4>4, <4>5
    <3>9. CASE ~p.silent
      <4>1. steady = {} /\ seen = {}
        BY <2>1, <3>2, <3>3, <3>5, <3>9
      <4>2. ShownFirst(TheList, seen, steady, after.more \/ after.retry)
        BY <4>1 DEF ShownFirst
      <4> QED BY <3>2, <3>3, <3>4, <3>5, <3>7, <3>9, <4>1, <4>2
    <3> QED BY <3>8, <3>9
  <2> QED BY <2>8, <2>9, <2>10, <2>11
<1> QED BY <1>5, <1>6

-----------------------------------------------------------------------------
(* Changes *)

LEMMA OneRecord ==
  ASSUME NEW r \in RecordId
  PROVE  <<r>> \in Seq(RecordId) /\ IsInjective(<<r>>) /\ ToSet(<<r>>) = {r}
<1>1. <<r>> \in Seq(RecordId) /\ ToSet(<<r>>) = {r}
  BY DEF ToSet
<1>2. IsInjective(<<r>>)
  BY DEF IsInjective
<1> QED BY <1>1, <1>2

\* The records after a change that was made; the list loses the record and keeps its order.
LEMMA RecordsMoved ==
  ASSUME ArchiveTypes, NEW does, does \in Offered, NEW r,
         NEW done, done = MoveRecord(does, r), NEW new,
         new = IF desk.view = "active"
               THEN Filtered(NewestFirst, done.active \cap Matching(desk.query))
               ELSE Filtered(done.archived, Matching(desk.query))
  PROVE  /\ done.active \subseteq 1..written
         /\ done.archived \in Seq(RecordId) /\ ToSet(done.archived) \subseteq 1..written
         /\ IsInjective(done.archived) /\ done.active \cap ToSet(done.archived) = {}
         /\ ToSet(new) = ToSet(TheList) \ {r} /\ InOrder(new, TheList)
<1>1. /\ written \in 0..MaxRecords /\ active \subseteq 1..written
      /\ archived \in Seq(RecordId) /\ ToSet(archived) \subseteq 1..written /\ IsInjective(archived)
      /\ active \cap ToSet(archived) = {} /\ desk.view \in ListView
  BY DEF ArchiveTypes, Desk
<1>2. 1..written \subseteq RecordId
  BY <1>1, ArchivesAssumption DEF RecordId
<1>3. PICK old, S : old = TheList /\ S = Matching(desk.query)
  OBVIOUS
<1>4. CASE desk.view = "active"
  <2>1. Offered = {"archive"}
    BY <1>4 DEF Offered
  <2>2. done = Archive(r)
    BY <2>1 DEF MoveRecord
  <2>3. /\ done.active = active \ {r}
        /\ done.archived = IF r \in active THEN <<r>> \o archived ELSE archived
    BY <2>2 DEF Archive
  <2>4. /\ done.archived \in Seq(RecordId) /\ IsInjective(done.archived)
        /\ ToSet(done.archived) = ToSet(archived) \cup (IF r \in active THEN {r} ELSE {})
    <3>1. CASE r \in active
      <4>1. PICK one : one = <<r>>
        OBVIOUS
      <4>2. one \in Seq(RecordId) /\ IsInjective(one) /\ ToSet(one) = {r}
        <5>1. r \in RecordId
          BY <1>1, <1>2, <3>1
        <5> QED BY <4>1, <5>1, OneRecord
      <4>3. ToSet(one) \cap ToSet(archived) = {}
        BY <1>1, <3>1, <4>2
      <4>4. /\ one \o archived \in Seq(RecordId) /\ IsInjective(one \o archived)
            /\ ToSet(one \o archived) = ToSet(one) \cup ToSet(archived)
        BY <1>1, <4>2, <4>3, JoinedOnce
      <4> QED BY <2>3, <3>1, <4>1, <4>2, <4>4
    <3>2. CASE r \notin active
      BY <1>1, <2>3, <3>2
    <3> QED BY <3>1, <3>2
  <2>5. PICK A, B : A = active \cap S /\ B = (active \ {r}) \cap S
    OBVIOUS
  <2>6. A \in SUBSET RecordId /\ B \in SUBSET RecordId /\ B = A \ {r}
    BY <1>1, <1>2, <2>5
  <2>7. old = Filtered(NewestFirst, A)
    BY <1>3, <1>4, <2>5 DEF TheList, Listed
  <2>8. new = Filtered(NewestFirst, B)
    BY <1>3, <1>4, <2>3, <2>5
  <2>9. ToSet(old) = A /\ InOrder(old, NewestFirst)
    BY <2>6, <2>7, NewestList
  <2>10. ToSet(new) = B /\ InOrder(new, NewestFirst)
    BY <2>6, <2>8, NewestList
  <2>11. ToSet(new) \subseteq ToSet(NewestFirst)
    BY <2>6, <2>10, NewestFirstFacts
  <2>12. InOrder(new, old)
    BY <2>9, <2>10, <2>11, SameOrder
  <2>13. /\ done.active \subseteq 1..written /\ ToSet(done.archived) \subseteq 1..written
         /\ done.active \cap ToSet(done.archived) = {}
    BY <1>1, <2>3, <2>4
  <2> QED BY <1>3, <2>4, <2>6, <2>9, <2>10, <2>12, <2>13
<1>5. CASE desk.view /= "active"
  <2>1. Offered \subseteq {"restore", "delete"}
    BY <1>5 DEF Offered
  <2>2. done = Restore(r) \/ done = DeletePermanently(r)
    BY <2>1 DEF MoveRecord
  <2>3. /\ done.archived = Filtered(archived, RecordId \ {r})
        /\ done.active = active \/ (r \in ToSet(archived) /\ done.active = active \cup {r})
    BY <2>2 DEF Restore, DeletePermanently, Dropped
  <2>4. PICK kept, left, others : kept = archived /\ left = done.archived /\ others = RecordId \ {r}
    OBVIOUS
  <2>5. kept \in Seq(RecordId) /\ IsInjective(kept) /\ ToSet(kept) \subseteq RecordId
    BY <1>1, <1>2, <2>4
  <2>6. /\ left \in Seq(RecordId) /\ IsInjective(left)
        /\ ToSet(left) = ToSet(kept) \cap others /\ InOrder(left, kept)
    <3>1. left = Filtered(kept, others)
      BY <2>3, <2>4
    <3> QED BY <2>5, <3>1, KeptListFacts
  <2>7. ToSet(new) = ToSet(left) \cap S /\ InOrder(new, left)
    <3>1. new = Filtered(left, S)
      BY <1>3, <1>5, <2>4
    <3> QED BY <2>6, <3>1, KeptListFacts
  <2>8. ToSet(old) = ToSet(kept) \cap S /\ InOrder(old, kept)
    <3>1. old = Filtered(kept, S)
      BY <1>3, <1>5, <2>4 DEF TheList, Listed
    <3> QED BY <2>5, <3>1, KeptListFacts
  <2>9. ToSet(new) \subseteq ToSet(left)
    BY <2>7
  <2>10. InOrder(new, kept)
    BY <2>6, <2>7, <2>9, OrderThrough
  <2>11. ToSet(new) \subseteq ToSet(kept)
    BY <2>6, <2>7
  <2>12. InOrder(new, old)
    BY <2>8, <2>10, <2>11, SameOrder
  <2>13. ToSet(new) = ToSet(old) \ {r}
    BY <2>4, <2>5, <2>6, <2>7, <2>8
  <2>14. ToSet(left) \subseteq 1..written /\ done.active \subseteq 1..written
    BY <1>1, <2>3, <2>4, <2>6
  <2>15. done.active \cap ToSet(left) = {}
    BY <1>1, <2>3, <2>4, <2>6
  <2> QED BY <1>3, <2>4, <2>6, <2>12, <2>13, <2>14, <2>15
<1> QED BY <1>4, <1>5

\* A record is moved that does not stand in the list: the list keeps its order.
LEMMA RecordsMovedElsewhere ==
  ASSUME ArchiveTypes, NEW does \in Changes, NEW r \in 1..written,
         r \in IF does = "archive" THEN active ELSE ToSet(archived),
         NEW done, done = MoveRecord(does, r), NEW new,
         new = IF desk.view = "active"
               THEN Filtered(NewestFirst, done.active \cap Matching(desk.query))
               ELSE Filtered(done.archived, Matching(desk.query))
  PROVE  /\ done.active \subseteq 1..written
         /\ done.archived \in Seq(RecordId) /\ ToSet(done.archived) \subseteq 1..written
         /\ IsInjective(done.archived) /\ done.active \cap ToSet(done.archived) = {}
         /\ r \notin ToSet(TheList) =>
               /\ new \in Seq(RecordId) /\ IsInjective(new)
               /\ ToSet(TheList) \subseteq ToSet(new) /\ InOrder(TheList, new)
<1>1. /\ written \in 0..MaxRecords /\ active \subseteq 1..written
      /\ archived \in Seq(RecordId) /\ ToSet(archived) \subseteq 1..written /\ IsInjective(archived)
      /\ active \cap ToSet(archived) = {} /\ desk.view \in ListView
  BY DEF ArchiveTypes, Desk
<1>2. 1..written \subseteq RecordId
  BY <1>1, ArchivesAssumption DEF RecordId
<1>3. PICK old, S, kept, left, there, others :
         /\ old = TheList /\ S = Matching(desk.query)
         /\ kept = archived /\ left = done.archived /\ there = done.active
         /\ others = RecordId \ {r}
  OBVIOUS
<1>4. kept \in Seq(RecordId) /\ IsInjective(kept) /\ ToSet(kept) \subseteq RecordId
  BY <1>1, <1>2, <1>3
<1>5. /\ left \in Seq(RecordId) /\ IsInjective(left)
      /\ there \subseteq 1..written /\ ToSet(left) \subseteq 1..written
      /\ there \cap ToSet(left) = {}
      /\ active \ {r} \subseteq there
      /\ ToSet(kept) \ {r} \subseteq ToSet(left)
      /\ does = "archive" => r \in active /\ InOrder(kept, left)
      /\ does /= "archive" => r \in ToSet(kept) /\ InOrder(left, kept)
  <2>1. CASE does = "archive"
    <3>1. r \in active /\ there = active \ {r} /\ left = <<r>> \o archived
      BY <1>3, <2>1 DEF MoveRecord, Archive
    <3>2. PICK one : one = <<r>>
      OBVIOUS
    <3>3. one \in Seq(RecordId) /\ IsInjective(one) /\ ToSet(one) = {r} /\ Len(one) = 1
      BY <1>2, <3>2, OneRecord
    <3>4. left = one \o kept
      BY <1>3, <3>1, <3>2
    <3>5. ToSet(one) \cap ToSet(kept) = {}
      BY <1>1, <1>3, <3>1, <3>3
    <3>6. /\ left \in Seq(RecordId) /\ IsInjective(left)
          /\ ToSet(left) = ToSet(one) \cup ToSet(kept)
      BY <1>4, <3>3, <3>4, <3>5, JoinedOnce
    <3>7. InOrder(kept, left)
      <4>1. ASSUME NEW k \in DOMAIN kept
            PROVE  k + 1 \in DOMAIN left /\ left[k + 1] = kept[k]
        <5>1. /\ Len(left) = 1 + Len(kept) /\ left \in Seq(RecordId)
              /\ \A i \in 1..(Len(one) + Len(kept)) :
                    left[i] = IF i <= Len(one) THEN one[i] ELSE kept[i - Len(one)]
          <6>1. one \in Seq(RecordId) /\ kept \in Seq(RecordId)
            BY <1>4, <3>3
          <6>2. /\ one \o kept \in Seq(RecordId) /\ Len(one \o kept) = Len(one) + Len(kept)
                /\ \A i \in 1..(Len(one) + Len(kept)) :
                      (one \o kept)[i] = IF i <= Len(one) THEN one[i] ELSE kept[i - Len(one)]
            BY <6>1, ConcatProperties
          <6>3. left = one \o kept /\ Len(one) = 1
            BY <3>3, <3>4
          <6> QED BY <6>2, <6>3
        <5>2. /\ k \in 1..Len(kept) /\ Len(kept) \in Nat
              /\ k + 1 \in 1..(1 + Len(kept)) /\ (k + 1) - 1 = k /\ ~(k + 1 <= 1)
          BY <1>4
        <5>3. DOMAIN left = 1..(1 + Len(kept))
          BY <5>1
        <5> QED BY <3>3, <5>1, <5>2, <5>3
      <4> SUFFICES ASSUME NEW k \in DOMAIN kept, NEW l \in DOMAIN kept,
                          NEW i \in DOMAIN left, NEW j \in DOMAIN left,
                          kept[k] = left[i], kept[l] = left[j]
                   PROVE  k < l <=> i < j
        BY DEF InOrder
      <4>2. i = k + 1 /\ j = l + 1
        BY <3>6, <4>1 DEF IsInjective
      <4>3. k \in Int /\ l \in Int
        BY <1>4
      <4> QED BY <4>2, <4>3
    <3> QED BY <1>1, <1>3, <2>1, <3>1, <3>3, <3>6, <3>7
  <2>2. CASE does /= "archive"
    <3>1. r \in ToSet(kept)
      BY <1>3, <2>2
    <3>2. left = Filtered(archived, RecordId \ {r})
      BY <1>3, <2>2 DEF MoveRecord, Restore, DeletePermanently, Dropped
    <3>3. there = active \/ there = active \cup {r}
      BY <1>3, <2>2, <3>1 DEF MoveRecord, Restore, DeletePermanently
    <3>4. left = Filtered(kept, others)
      BY <1>3, <3>2
    <3>5. /\ left \in Seq(RecordId) /\ IsInjective(left)
          /\ ToSet(left) = ToSet(kept) \cap others /\ InOrder(left, kept)
      BY <1>4, <3>4, KeptListFacts
    <3>6. ToSet(left) = ToSet(kept) \ {r}
      BY <1>3, <1>4, <3>5
    <3>7. ToSet(left) \subseteq 1..written /\ there \subseteq 1..written
      BY <1>1, <1>3, <3>3, <3>6
    <3>8. there \cap ToSet(left) = {}
      BY <1>1, <1>3, <3>3, <3>6
    <3> QED BY <2>2, <3>1, <3>3, <3>5, <3>6, <3>7, <3>8
  <2> QED BY <2>1, <2>2
<1>6. ASSUME desk.view = "active", r \notin ToSet(old)
      PROVE  /\ new \in Seq(RecordId) /\ IsInjective(new)
             /\ ToSet(old) \subseteq ToSet(new) /\ InOrder(old, new)
  <2>1. PICK A, B : A = active \cap S /\ B = there \cap S
    OBVIOUS
  <2>2. A \in SUBSET RecordId /\ B \in SUBSET RecordId
    BY <1>1, <1>2, <1>5, <2>1
  <2>3. old = Filtered(NewestFirst, A)
    BY <1>3, <1>6, <2>1 DEF TheList, Listed
  <2>4. new = Filtered(NewestFirst, B)
    BY <1>3, <1>6, <2>1
  <2>5. ToSet(old) = A /\ InOrder(old, NewestFirst)
    BY <2>2, <2>3, NewestList
  <2>6. /\ new \in Seq(RecordId) /\ IsInjective(new)
        /\ ToSet(new) = B /\ InOrder(new, NewestFirst)
    BY <2>2, <2>4, NewestList
  <2>7. ToSet(old) \subseteq ToSet(NewestFirst)
    BY <2>2, <2>5, NewestFirstFacts
  <2>8. A \subseteq B
    BY <1>5, <1>6, <2>1, <2>5
  <2> QED BY <2>5, <2>6, <2>7, <2>8, SameOrder
<1>7. ASSUME desk.view /= "active", r \notin ToSet(old)
      PROVE  /\ new \in Seq(RecordId) /\ IsInjective(new)
             /\ ToSet(old) \subseteq ToSet(new) /\ InOrder(old, new)
  <2>1. ToSet(old) = ToSet(kept) \cap S /\ InOrder(old, kept)
    <3>1. old = Filtered(kept, S)
      BY <1>3, <1>7 DEF TheList, Listed
    <3> QED BY <1>4, <3>1, KeptListFacts
  <2>2. /\ new \in Seq(RecordId) /\ IsInjective(new)
        /\ ToSet(new) = ToSet(left) \cap S /\ InOrder(new, left)
    <3>1. new = Filtered(left, S)
      BY <1>3, <1>7
    <3> QED BY <1>5, <3>1, KeptListFacts
  <2>3. ToSet(old) \subseteq ToSet(new)
    BY <1>5, <1>7, <2>1, <2>2
  <2>4. ToSet(old) \subseteq ToSet(kept) /\ ToSet(old) \subseteq ToSet(left)
    BY <2>1, <2>2, <2>3
  <2>5. InOrder(old, left)
    <3>1. CASE does = "archive"
      BY <1>5, <2>1, <2>4, <3>1, OrderThrough
    <3>2. CASE does /= "archive"
      BY <1>5, <2>1, <2>4, <3>2, SameOrder
    <3> QED BY <3>1, <3>2
  <2>6. InOrder(old, new)
    BY <2>2, <2>4, <2>5, SameOrder
  <2> QED BY <2>2, <2>3, <2>6
<1> QED BY <1>3, <1>5, <1>6, <1>7

LEMMA MovedElsewhereKeeps == ArchivesInv /\ MovedElsewhere => ArchivesInv'
<1> SUFFICES ASSUME ArchivesInv, MovedElsewhere PROVE ArchivesInv'
  OBVIOUS
<1>1. PICK r \in 1..written, does \in Changes :
         LET done == MoveRecord(does, r)
         IN  /\ r \in IF does = "archive" THEN active ELSE ToSet(archived)
             /\ does = "restore" => desk.kind = "reviews"
             /\ active' = done.active /\ archived' = done.archived
             /\ steady' = steady \ {r}
             /\ unsure' = (unsure \/ r \in ToSet(Listed(desk.view, desk.query)))
  BY Zenon DEF MovedElsewhere, Changes
<1>2. PICK done : done = MoveRecord(does, r)
  OBVIOUS
<1>3. /\ r \in IF does = "archive" THEN active ELSE ToSet(archived)
      /\ active' = done.active /\ archived' = done.archived
      /\ steady' = steady \ {r} /\ unsure' = (unsure \/ r \in ToSet(TheList))
  BY <1>1, <1>2 DEF TheList
<1>4. desk' = desk /\ pages' = pages /\ written' = written
  BY DEF MovedElsewhere, archivesPage
<1>5. ArchiveTypes /\ DeskIsTrue /\ PagesAreTrue /\ OfTheQuery /\ OrderIsKept
  BY DEF ArchivesInv
<1>6. PICK new : new = IF desk.view = "active"
                       THEN Filtered(NewestFirst, done.active \cap Matching(desk.query))
                       ELSE Filtered(done.archived, Matching(desk.query))
  OBVIOUS
<1>7. /\ active' \subseteq 1..written
      /\ archived' \in Seq(RecordId) /\ ToSet(archived') \subseteq 1..written
      /\ IsInjective(archived') /\ active' \cap ToSet(archived') = {}
      /\ r \notin ToSet(TheList) =>
            /\ new \in Seq(RecordId) /\ IsInjective(new)
            /\ ToSet(TheList) \subseteq ToSet(new) /\ InOrder(TheList, new)
  BY <1>2, <1>3, <1>5, <1>6, RecordsMovedElsewhere
<1>8. ArchiveTypes'
  BY <1>3, <1>4, <1>5, <1>7 DEF ArchiveTypes
<1>9. DeskIsTrue' /\ PagesAreTrue'
  BY <1>3, <1>4, <1>5 DEF DeskIsTrue, PagesAreTrue, Offered
<1>10. OfTheQuery'
  <2>1. ListVisible' => ToSet(desk'.shown) \subseteq Matching(desk.query)
    BY <1>4, <1>5 DEF OfTheQuery, ListVisible
  <2> QED BY <1>4, <2>1, QueryStays DEF OfTheQuery
<1>11. CASE r \in ToSet(TheList)
  <2>1. OrderIsKept'
    BY <1>3, <1>11 DEF OrderIsKept
  <2> QED BY <1>8, <1>9, <1>10, <2>1 DEF ArchivesInv
<1>12. CASE r \notin ToSet(TheList)
  <2>1. TheList' = new
    BY <1>3, <1>4, <1>6, ListNext
  <2>2. TheList \in Seq(RecordId) /\ IsInjective(TheList)
    BY <1>5, ListFacts
  <2>3. NotBefore(TheList, new)
    BY <1>7, <1>12, <2>2, EmbeddedNotBefore
  <2>4. ListVisible /\ ~unsure => steady' = steady
    BY <1>3, <1>5, <1>12 DEF OrderIsKept, ShownFirst
  <2>5. unsure' = unsure
    BY <1>3, <1>5, <1>12 DEF ArchiveTypes
  <2>6. OrderIsKept'
    BY <1>4, <1>5, <1>7, <1>12, <2>1, <2>3, <2>4, <2>5, OrderGrown
  <2> QED BY <1>8, <1>9, <1>10, <2>6 DEF ArchivesInv
<1> QED BY <1>11, <1>12

LEMMA ServeRecordKeeps == ArchivesInv /\ ServeRecord => ArchivesInv'
<1> SUFFICES ASSUME ArchivesInv, ServeRecord PROVE ArchivesInv'
  OBVIOUS
<1>1. PICK r, does, done :
        r = desk.busy.record /\ does = desk.busy.does /\ done = MoveRecord(does, r)
  OBVIOUS
<1>2. /\ desk.busy.at = "sent" /\ written' = written
      /\ \/ /\ done.ok /\ active' = done.active /\ archived' = done.archived
            /\ steady' = steady \ {r}
            /\ \/ ReloadList /\ UNCHANGED unsure
               \/ Unknown /\ unsure' = TRUE
         \/ Unknown /\ UNCHANGED <<active, archived, steady, unsure>>
  BY <1>1 DEF ServeRecord
<1>3. ArchiveTypes /\ DeskIsTrue /\ PagesAreTrue /\ OfTheQuery /\ OrderIsKept
  BY DEF ArchivesInv
<1>4. desk \in Desk /\ IsInjective(desk.shown) /\ desk.shown \in Seq(RecordId) /\ desk.busy \in Busy
  BY <1>3 DEF ArchiveTypes, Desk
<1>5. /\ does \in Offered /\ desk.busy /= NotBusy /\ desk.open /\ ~desk.loading /\ ~desk.timer
      /\ ListVisible
  BY <1>1, <1>2, <1>3, NothingChosen DEF DeskIsTrue, ListVisible
<1>6. does \in Changes
  BY <1>5 DEF Offered, Changes
<1>7. NoneWaits
  BY <1>2, <1>3, NobodyWaits
<1>8. ToSet(desk.shown) \subseteq Matching(desk.query)
  BY <1>3, <1>5 DEF OfTheQuery
<1>9. ASSUME Unknown
      PROVE  /\ desk' \in Desk /\ desk'.open /\ desk'.busy = NotBusy /\ desk'.target = desk.target
             /\ desk'.shown = desk.shown /\ ~desk'.loading /\ ~desk'.timer
             /\ desk'.view = desk.view /\ desk'.query = desk.query /\ desk'.kind = desk.kind
             /\ desk'.at = desk.at /\ desk'.more = desk.more /\ desk'.retry = desk.retry
             /\ pages' = pages
  BY <1>4, <1>5, <1>9, NothingChosen DEF Unknown, Desk
<1>10. ASSUME Unknown PROVE DeskIsTrue' /\ PagesAreTrue'
  <2>1. desk'.busy.at = "reload"
    BY <1>9, <1>10, NothingChosen DEF NotBusy
  <2>3. DeskIsTrue'
    BY <1>3, <1>9, <1>10, <2>1 DEF DeskIsTrue, Offered
  <2>2. PagesAreTrue'
    <3>1. /\ desk'.open /\ ~desk'.timer /\ pages' = pages /\ ~desk'.loading /\ ~desk.loading
          /\ desk'.view = desk.view /\ desk'.query = desk.query
      BY <1>5, <1>9, <1>10
    <3>2. \A p, q \in pages : p.fresh /\ q.fresh => p = q
      BY <1>3 DEF PagesAreTrue
    <3>3. \A p \in pages :
             /\ ~p.silent /\ ~p.append /\ p.page = 1
             /\ ~p.fresh
      BY <1>3, <1>7, <3>1 DEF PagesAreTrue, NoneWaits
    <3> QED BY <3>1, <3>2, <3>3 DEF PagesAreTrue
  <2> QED BY <2>2, <2>3
<1>11. CASE Unknown /\ UNCHANGED <<active, archived, steady, unsure>>
  <2>1. ArchiveTypes'
    BY <1>2, <1>3, <1>9, <1>11 DEF ArchiveTypes
  <2>2. OfTheQuery' /\ OrderIsKept'
    BY <1>2, <1>5, <1>9, <1>11, SameListKept
  <2> QED BY <1>10, <1>11, <2>1, <2>2 DEF ArchivesInv
<1>12. CASE active' = done.active /\ archived' = done.archived /\ steady' = steady \ {r}
  <2>1. PICK new : new = IF desk.view = "active"
                         THEN Filtered(NewestFirst, done.active \cap Matching(desk.query))
                         ELSE Filtered(done.archived, Matching(desk.query))
    OBVIOUS
  <2>2. /\ active' \subseteq 1..written
        /\ archived' \in Seq(RecordId) /\ ToSet(archived') \subseteq 1..written
        /\ IsInjective(archived') /\ active' \cap ToSet(archived') = {}
        /\ ToSet(new) = ToSet(TheList) \ {r} /\ InOrder(new, TheList)
    BY <1>1, <1>3, <1>5, <1>12, <2>1, RecordsMoved
  <2>3. CASE Unknown /\ unsure' = TRUE
    <3>1. ArchiveTypes'
      BY <1>2, <1>3, <1>9, <1>12, <2>2, <2>3 DEF ArchiveTypes
    <3>2. OfTheQuery'
      BY <1>8, <1>9, <2>3, QueryStays DEF OfTheQuery
    <3>3. OrderIsKept'
      BY <2>3 DEF OrderIsKept
    <3> QED BY <1>10, <2>3, <3>1, <3>2, <3>3 DEF ArchivesInv
  <2>4. CASE ReloadList /\ unsure' = unsure
    <3>1. /\ AskPage(1, FALSE, TRUE)
          /\ desk' = [desk EXCEPT !.shown = Dropped(desk.shown, r), !.target = 0,
                                  !.busy.at = "reload"]
      BY <1>1, <2>4 DEF ReloadList
    <3>2. PICK left : left = Dropped(desk.shown, r)
      OBVIOUS
    <3>3. left \in Seq(RecordId) /\ ToSet(left) = ToSet(desk.shown) \cap (RecordId \ {r})
      BY <1>4, <3>2, FilteredFacts DEF Dropped
    <3>4. IsInjective(left)
      BY <1>4, <3>2, FilteredInOrder DEF Dropped
    <3>5. ToSet(desk.shown) \subseteq RecordId
      BY <1>4 DEF ToSet
    <3>6. ToSet(left) = ToSet(desk.shown) \ {r}
      BY <3>3, <3>5
    <3>7. PICK waits : waits = [desk.busy EXCEPT !.at = "reload"]
      OBVIOUS
    <3>8. /\ waits \in Busy /\ waits.at = "reload" /\ waits.does = does /\ waits /= NotBusy
      <4>1. waits \in Busy /\ waits.at = "reload" /\ waits.does = does
        BY <1>1, <1>4, <3>7 DEF Busy
      <4> QED BY <1>6, <4>1, NothingChosen DEF Changes
    <3>9. /\ desk' \in Desk /\ desk'.open /\ desk'.busy = waits /\ desk'.target = 0
          /\ desk'.shown = left /\ ~desk'.loading /\ ~desk'.timer
          /\ desk'.view = desk.view /\ desk'.query = desk.query /\ desk'.kind = desk.kind
          /\ desk'.at = desk.at /\ desk'.more = desk.more /\ desk'.retry = desk.retry
      <4>1. desk' = [desk EXCEPT !.shown = left, !.target = 0, !.busy = waits]
        BY <3>1, <3>2, <3>7
      <4>2. 0 \in 0..MaxRecords
        BY ArchivesAssumption
      <4>3. /\ desk'.busy = waits /\ desk'.target = 0 /\ desk'.shown = left
            /\ desk'.open = desk.open /\ desk'.loading = desk.loading
            /\ desk'.timer = desk.timer /\ desk'.view = desk.view /\ desk'.query = desk.query
            /\ desk'.kind = desk.kind /\ desk'.at = desk.at /\ desk'.more = desk.more
            /\ desk'.retry = desk.retry
        BY <1>4, <4>1 DEF Desk
      <4>4. desk' \in Desk
        BY <1>4, <3>3, <3>8, <4>1, <4>2 DEF Desk
      <4> QED BY <1>5, <4>3, <4>4
    <3>10. 1 \in Nat /\ FALSE \in BOOLEAN /\ TRUE \in BOOLEAN
      OBVIOUS
    <3>11. ArchiveTypes'
      BY <1>2, <1>3, <1>12, <2>2, <2>4, <3>1, <3>4, <3>9, <3>10, AskedFacts DEF ArchiveTypes
    <3>12. DeskIsTrue'
      BY <3>8, <3>9 DEF DeskIsTrue
    <3>13. PagesAreTrue'
      BY <1>3, <1>7, <3>1, <3>8, <3>9, <3>10, PageAsked
    <3>14. OfTheQuery'
      BY <1>8, <3>6, <3>9, QueryStays DEF OfTheQuery
    <3>15. TheList' = new
      BY <1>12, <2>1, <3>9, ListNext
    <3>16. ~unsure => ShownFirst(TheList, ToSet(desk.shown), steady, desk.more \/ desk.retry)
      BY <1>3, <1>5 DEF OrderIsKept
    <3>17. PICK seen, later : seen = ToSet(desk.shown) /\ later = (desk.more \/ desk.retry)
      OBVIOUS
    <3>18. ~unsure => ShownFirst(new, seen \ {r}, steady \ {r}, later)
      BY <2>2, <3>16, <3>17, KeptDropped
    <3>19. ~unsure => ShownFirst(new, ToSet(desk'.shown), steady', desk'.more \/ desk'.retry)
      BY <1>12, <3>6, <3>9, <3>17, <3>18
    <3>20. desk'.busy.does \in Changes /\ desk'.busy.at /= "sent"
      BY <1>6, <3>8, <3>9
    <3>21. OrderIsKept'
      BY <2>4, <3>15, <3>19, <3>20 DEF OrderIsKept, ShownFirst
    <3> QED BY <3>11, <3>12, <3>13, <3>14, <3>21 DEF ArchivesInv
  <2> QED BY <1>2, <1>11, <1>12, <2>3, <2>4
<1> QED BY <1>2, <1>11, <1>12

-----------------------------------------------------------------------------
LEMMA ArchivesStep == ArchivesInv /\ [ArchivesNext]_archivesVars => ArchivesInv'
<1> SUFFICES ASSUME ArchivesInv, [ArchivesNext]_archivesVars PROVE ArchivesInv'
  OBVIOUS
<1>1. CASE UNCHANGED archivesVars
  <2>1. UNCHANGED <<active, archived, written, desk, pages, steady, unsure>>
    BY <1>1 DEF archivesVars, archivesServer, archivesPage
  <2>2. ArchiveTypes' /\ DeskIsTrue' /\ PagesAreTrue'
    BY <2>1 DEF ArchivesInv, ArchiveTypes, DeskIsTrue, PagesAreTrue, Offered
  <2>3. OfTheQuery' /\ OrderIsKept'
    BY <2>1, SameListKept
  <2> QED BY <2>2, <2>3 DEF ArchivesInv
<1> QED BY <1>1, ArriveKeeps, RespondKeeps, MovedElsewhereKeeps, ReceivePageKeeps, OpenManagerKeeps,
           ChangeViewKeeps, ChangeQueryKeeps, CloseManagerKeeps, StartPageKeeps, LoadMoreKeeps,
           RetryRefreshKeeps, PressRecordKeeps, DeleteDialogKeeps, ServeRecordKeeps DEF ArchivesNext

LEMMA ArchivesAlways == ArchivesSpec => []ArchivesInv
BY ArchivesBegin, ArchivesStep, PTL DEF ArchivesSpec

\* The records, the two lists and the screen keep their shape, for any number of records,
\* pages and requests under way.
THEOREM ArchivesTyped == ArchivesSpec => []ArchivesTypeOK
<1>1. ArchivesInv => ArchivesTypeOK
  <2> SUFFICES ASSUME ArchivesInv PROVE ArchivesTypeOK
    OBVIOUS
  <2>1. ArchiveTypes /\ DeskIsTrue /\ PagesAreTrue
    BY DEF ArchivesInv
  <2>2. ~(desk.timer /\ desk.busy /= NotBusy)
    BY <2>1 DEF DeskIsTrue
  <2> QED BY <2>1, <2>2 DEF ArchivesTypeOK, ArchiveTypes, PagesAreTrue
<1> QED BY <1>1, ArchivesAlways, PTL

\* The director sees the list that was asked for, and no record that has stayed in it is left
\* out, unless another session, or a change whose answer was lost, has taken a record out
\* since the first page was read; for any number of records, pages and requests under way.
THEOREM ListStaysTrue == ArchivesSpec => []ListIsTrue
<1>1. ArchivesInv => ListIsTrue
  <2> SUFFICES ASSUME ArchivesInv PROVE NothingSkipped
    BY DEF ArchivesInv, ListIsTrue
  <2> DEFINE Place(r) == CHOOSE i \in DOMAIN TheList : TheList[i] = r
  <2>1. TheList \in Seq(RecordId) /\ IsInjective(TheList)
    BY ListFacts DEF ArchivesInv
  <2>2. ASSUME NEW r \in ToSet(TheList) PROVE Place(r) \in DOMAIN TheList /\ TheList[Place(r)] = r
    <3>1. \E i \in DOMAIN TheList : TheList[i] = r
      BY DEF ToSet
    <3> QED BY <3>1
  <2> SUFFICES ASSUME ListVisible, desk.busy = NotBusy, ~unsure,
                      NEW r \in steady \ ToSet(desk.shown)
               PROVE  /\ desk.more \/ desk.retry
                      /\ \A s \in ToSet(desk.shown) : Place(s) < Place(r)
    BY DEF NothingSkipped, TheList
  <2>3. ShownFirst(TheList, ToSet(desk.shown), steady, desk.more \/ desk.retry)
    BY DEF ArchivesInv, OrderIsKept
  <2>4. desk.more \/ desk.retry
    BY <2>3 DEF ShownFirst
  <2>5. ASSUME NEW s \in ToSet(desk.shown) PROVE Place(s) < Place(r)
    <3>1. r \in ToSet(TheList) /\ s \in ToSet(TheList)
      BY <2>3 DEF ShownFirst
    <3>2. /\ Place(r) \in DOMAIN TheList /\ TheList[Place(r)] = r
          /\ Place(s) \in DOMAIN TheList /\ TheList[Place(s)] = s
      BY <2>2, <3>1
    <3> HIDE DEF Place
    <3> QED BY <2>3, <3>2 DEF ShownFirst
  <2> QED BY <2>4, <2>5
<1> QED BY <1>1, ArchivesAlways, PTL

-----------------------------------------------------------------------------
(* Requests are few *)

Few(S, n) == IsFiniteSet(S) /\ Cardinality(S) <= n

LEMMA FewNone == \A n \in Nat : Few({}, n)
BY FS_EmptySet DEF Few

LEMMA FewLess ==
  ASSUME NEW n \in Nat, NEW S, Few(S, n), NEW T \in SUBSET S
  PROVE  Few(T, n)
<1>1. IsFiniteSet(T) /\ Cardinality(T) <= Cardinality(S)
  BY FS_Subset DEF Few
<1>2. Cardinality(T) \in Nat /\ Cardinality(S) \in Nat
  BY <1>1, FS_CardinalityType DEF Few
<1> QED BY <1>1, <1>2 DEF Few

LEMMA FewMore ==
  ASSUME NEW n \in Nat, NEW S, IsFiniteSet(S), Cardinality(S) < n, NEW x
  PROVE  Few(S \cup {x}, n)
<1>1. /\ IsFiniteSet(S \cup {x})
      /\ Cardinality(S \cup {x}) = Cardinality(S) \/ Cardinality(S \cup {x}) = Cardinality(S) + 1
  BY FS_AddElement
<1>2. Cardinality(S) \in Nat
  BY FS_CardinalityType
<1> QED BY <1>1, <1>2 DEF Few

\* One that moves on.
LEMMA FewMoved ==
  ASSUME NEW n \in Nat, NEW S, Few(S, n), NEW x \in S, NEW y
  PROVE  Few((S \ {x}) \cup {y}, n)
<1>1. IsFiniteSet(S \ {x}) /\ Cardinality(S \ {x}) = Cardinality(S) - 1
  BY FS_RemoveElement DEF Few
<1>2. Cardinality(S) \in Nat /\ Cardinality(S \ {x}) \in Nat
  BY <1>1, FS_CardinalityType DEF Few
<1>3. Cardinality(S \ {x}) < n
  BY <1>1, <1>2 DEF Few
<1> QED BY <1>1, <1>3, FewMore

\* All of them change.
LEMMA FewChanged ==
  ASSUME NEW n \in Nat, NEW S, NEW f, NEW T, T = {f[x] : x \in S}, f \in [S -> T]
  PROVE  /\ Few(S, n) => Few(T, n)
         /\ IsFiniteSet(S) => IsFiniteSet(T)
<1>1. f \in Surjection(S, T)
  BY DEF Surjection
<1>2. IsFiniteSet(S) => IsFiniteSet(T) /\ Cardinality(T) <= Cardinality(S)
  BY <1>1, FS_Surjection
<1>3. IsFiniteSet(S) => Cardinality(S) \in Nat /\ Cardinality(T) \in Nat
  BY <1>2, FS_CardinalityType
<1> QED BY <1>2, <1>3 DEF Few

-----------------------------------------------------------------------------
(* The requests of the plan *)

PlanFew == Few(fetches, MaxPlanLoads) /\ Few(presses, MaxPresses)

LEMMA OutdatedFew ==
  ASSUME Few(fetches, MaxPlanLoads)
  PROVE  Few(Outdated(fetches), MaxPlanLoads)
<1> DEFINE f == [l \in fetches |-> [l EXCEPT !.fresh = FALSE]]
<1>1. Outdated(fetches) = {f[l] : l \in fetches} /\ f \in [fetches -> Outdated(fetches)]
  BY DEF Outdated
<1> HIDE DEF f
<1> QED BY <1>1, FewChanged, PlannerAssumption

LEMMA AskedFew ==
  ASSUME Few(fetches, MaxPlanLoads), Cardinality(fetches) < MaxPlanLoads, NEW new
  PROVE  Few(Outdated(fetches) \cup {new}, MaxPlanLoads)
<1> DEFINE f == [l \in fetches |-> [l EXCEPT !.fresh = FALSE]]
<1>1. f \in Surjection(fetches, Outdated(fetches)) /\ IsFiniteSet(fetches)
  BY DEF Outdated, Surjection, Few
<1> HIDE DEF f
<1>2. IsFiniteSet(Outdated(fetches)) /\ Cardinality(Outdated(fetches)) <= Cardinality(fetches)
  BY <1>1, FS_Surjection
<1>3. Cardinality(Outdated(fetches)) \in Nat /\ Cardinality(fetches) \in Nat
  BY <1>1, <1>2, FS_CardinalityType
<1>4. Cardinality(Outdated(fetches)) < MaxPlanLoads
  BY <1>2, <1>3, PlannerAssumption
<1> QED BY <1>2, <1>4, FewMore, PlannerAssumption

LEMMA PlanFewBegin == PlannerInit => PlanFew
BY FewNone, PlannerAssumption DEF PlannerInit, PlanFew

LEMMA PlanFewStep == PlanFew /\ [PlannerNext]_plannerVars => PlanFew'
<1> SUFFICES ASSUME PlanFew, [PlannerNext]_plannerVars PROVE PlanFew'
  OBVIOUS
<1>1. /\ Few(fetches, MaxPlanLoads) /\ Few(presses, MaxPresses)
      /\ MaxPlanLoads \in Nat /\ MaxPresses \in Nat
  BY PlannerAssumption DEF PlanFew
<1>2. CASE /\ UNCHANGED fetches
           /\ UNCHANGED presses
  BY <1>1, <1>2 DEF PlanFew
<1>3. CASE /\ UNCHANGED presses
           /\ RunEffect \/ \E hour : StartLoad(hour)
  <2>1. PICK new : /\ fetches' = Outdated(fetches) \cup {new}
                   /\ Cardinality(fetches) < MaxPlanLoads
    BY <1>3 DEF RunEffect, StartLoad
  <2>2. Few(Outdated(fetches) \cup {new}, MaxPlanLoads)
    BY <1>1, <2>1, AskedFew
  <2> QED BY <1>1, <1>3, <2>1, <2>2 DEF PlanFew
<1>4. CASE ClosePlanner
  <2> DEFINE f == [p \in presses |-> [p EXCEPT !.hour = NoHour]]
  <2>1. presses' = {f[p] : p \in presses} /\ f \in [presses -> presses']
    BY <1>4 DEF ClosePlanner
  <2>2. fetches' = Outdated(fetches)
    BY <1>4 DEF ClosePlanner
  <2> HIDE DEF f
  <2>3. PICK t : t = presses'
    OBVIOUS
  <2>4. Few(t, MaxPresses)
    BY <1>1, <2>1, <2>3, FewChanged
  <2> QED BY <1>1, <2>2, <2>3, <2>4, OutdatedFew DEF PlanFew
<1>5. ASSUME NEW l \in fetches, Answer(l) \/ FinishLoad(l)
      PROVE  PlanFew'
  <2>1. UNCHANGED presses
    BY <1>5 DEF Answer, FinishLoad
  <2>2. fetches' = fetches \ {l} \/ \E m : fetches' = (fetches \ {l}) \cup {m}
    BY <1>5 DEF Answer, FinishLoad
  <2> QED BY <1>1, <2>1, <2>2, FewLess, FewMoved DEF PlanFew
<1>6. ASSUME NEW does, PressChange(does)
      PROVE  PlanFew'
  <2>1. PICK p : presses' = presses \cup {p}
    BY <1>6 DEF PressChange
  <2>2. UNCHANGED fetches /\ Cardinality(presses) < MaxPresses /\ IsFiniteSet(presses)
    BY <1>1, <1>6 DEF PressChange, Few
  <2> QED BY <1>1, <2>1, <2>2, FewMore DEF PlanFew
<1>7. ASSUME NEW p \in presses, ServeChange(p) \/ PressFailed(p)
      PROVE  PlanFew'
  <2>1. UNCHANGED fetches
    BY <1>7 DEF ServeChange, PressFailed
  <2>2. presses' = presses \ {p} \/ \E q : presses' = (presses \ {p}) \cup {q}
    BY <1>7 DEF ServeChange, PressFailed
  <2> QED BY <1>1, <2>1, <2>2, FewLess, FewMoved DEF PlanFew
<1>8. ASSUME NEW p \in presses, Confirm(p)
      PROVE  PlanFew'
  <2>1. presses' = presses \ {p}
    BY <1>8 DEF Confirm
  <2>2. Few(presses', MaxPresses)
    BY <1>1, <2>1, FewLess
  <2>3. CASE UNCHANGED fetches
    BY <1>1, <2>2, <2>3 DEF PlanFew
  <2>4. CASE StartLoad(p.hour)
    <3>1. PICK new : /\ fetches' = Outdated(fetches) \cup {new}
                     /\ Cardinality(fetches) < MaxPlanLoads
      BY <2>4 DEF StartLoad
    <3>2. Few(Outdated(fetches) \cup {new}, MaxPlanLoads)
      BY <1>1, <3>1, AskedFew
    <3> QED BY <2>2, <3>1, <3>2 DEF PlanFew
  <2> QED BY <1>8, <2>3, <2>4 DEF Confirm
<1>9. CASE \/ UNCHANGED plannerVars \/ OpenPlanner \/ ElsewhereChanged
           \/ \E hour \in Hour : ChooseHour(hour)
  BY <1>2, <1>9 DEF plannerVars, OpenPlanner, ElsewhereChanged, ChooseHour
<1>10. CASE RunEffect \/ PollPlan \/ Refresh
  BY <1>3, <1>10 DEF RunEffect, PollPlan, Refresh
<1> QED BY <1>4, <1>5, <1>6, <1>7, <1>8, <1>9, <1>10 DEF PlannerNext

\* The screen, its loads and its changes keep their shape.
THEOREM PlansTyped == PlannerSpec => []PlannerTypeOK
<1>1. PlanInv /\ PlanFew => PlannerTypeOK
  BY DEF PlanInv, PlanTypes, OpenToLoad, OneFresh, PlanFew, Few, PlannerTypeOK
<1>2. PlannerSpec => []PlanFew
  BY PlanFewBegin, PlanFewStep, PTL DEF PlannerSpec
<1> QED BY <1>1, <1>2, PlanAlways, PTL

-----------------------------------------------------------------------------
(* The requests of the call buttons *)

ServicesFew ==
    /\ visit \in {"away", "seated", "over"} /\ moves \in 0..MaxVisits
    /\ today \in BOOLEAN /\ loading \in BOOLEAN
    /\ Few(questions, MaxQuestions)

LEMMA SupersededFew ==
  ASSUME Few(questions, MaxQuestions)
  PROVE  /\ Few(Superseded, MaxQuestions) /\ Few(Mutated, MaxQuestions)
         /\ IsFiniteSet(Superseded)
<1> DEFINE f == [q \in questions |-> [q EXCEPT !.latest = FALSE]]
           g == [q \in questions |-> [q EXCEPT !.clean = FALSE]]
<1>1. Superseded = {f[q] : q \in questions} /\ f \in [questions -> Superseded]
  BY DEF Superseded
<1>2. Mutated = {g[q] : q \in questions} /\ g \in [questions -> Mutated]
  BY DEF Mutated
<1> HIDE DEF f, g
<1>3. Few(Superseded, MaxQuestions) /\ Few(Mutated, MaxQuestions)
  BY <1>1, <1>2, FewChanged, ServicesAssumption
<1> QED BY <1>3 DEF Few

LEMMA ServicesFewBegin == ServicesInit => ServicesFew
BY FewNone, ServicesAssumption DEF ServicesInit, ServicesFew

LEMMA ServicesFewStep == ServicesFew /\ [ServicesNext]_servicesVars => ServicesFew'
<1> SUFFICES ASSUME ServicesFew, [ServicesNext]_servicesVars PROVE ServicesFew'
  OBVIOUS
<1>1. /\ Few(questions, MaxQuestions) /\ MaxQuestions \in Nat /\ MaxVisits \in Nat
      /\ Few(Superseded, MaxQuestions) /\ Few(Mutated, MaxQuestions) /\ IsFiniteSet(Superseded)
  BY SupersededFew, ServicesAssumption DEF ServicesFew
<1>2. CASE /\ Few(questions', MaxQuestions)
           /\ visit' \in {"away", "seated", "over"} /\ moves' \in 0..MaxVisits
           /\ today' \in BOOLEAN /\ loading' \in BOOLEAN
  BY <1>2 DEF ServicesFew
<1>3. CASE /\ UNCHANGED <<visit, moves, today, loading>>
           /\ questions' \in {questions, Superseded, Mutated}
  BY <1>1, <1>3 DEF ServicesFew
<1>4. CASE ChangeVisit
  <2>1. moves' \in 0..MaxVisits
    BY <1>1, <1>4 DEF ChangeVisit, ServicesFew
  <2>2. visit' \in {"away", "seated", "over"} /\ UNCHANGED <<today, loading, questions>>
    BY <1>4 DEF ChangeVisit, servicesPage
  <2> QED BY <1>1, <2>1, <2>2 DEF ServicesFew
<1>5. CASE NextDay
  <2>1. today' = FALSE /\ loading' = FALSE /\ questions' = Superseded /\ UNCHANGED <<visit, moves>>
    BY <1>5 DEF NextDay, servicesServer
  <2> QED BY <1>1, <2>1 DEF ServicesFew
<1>6. CASE LoadStatus
  <2>1. /\ UNCHANGED <<visit, moves, today, loading>>
        /\ questions' = Superseded \cup {NewQuestion} /\ Cardinality(Superseded) < MaxQuestions
    BY <1>6 DEF LoadStatus, servicesServer
  <2>2. Few(Superseded \cup {NewQuestion}, MaxQuestions)
    BY <1>1, <2>1, FewMore
  <2> QED BY <2>1, <2>2 DEF ServicesFew
<1>7. ASSUME NEW q \in questions, ReadStatus(q) \/ TakeStatus(q) \/ LoseStatus(q)
      PROVE  ServicesFew'
  <2>1. loading \in BOOLEAN
    BY DEF ServicesFew
  <2>2. /\ UNCHANGED <<visit, moves, today>> /\ loading' \in BOOLEAN
        /\ questions' = questions \ {q} \/ \E r : questions' = (questions \ {q}) \cup {r}
    <3>1. CASE ReadStatus(q)
      <4>1. UNCHANGED <<visit, moves, today, loading>>
        BY <3>1 DEF ReadStatus, servicesServer
      <4>2. PICK r : questions' = (questions \ {q}) \cup {r}
        BY <3>1, Zenon DEF ReadStatus
      <4> QED BY <2>1, <4>1, <4>2
    <3>2. CASE TakeStatus(q)
      BY <3>2 DEF TakeStatus, servicesServer
    <3>3. CASE LoseStatus(q)
      BY <3>3 DEF LoseStatus, servicesServer
    <3> QED BY <1>7, <3>1, <3>2, <3>3
  <2>3. Few(questions \ {q}, MaxQuestions) /\ \A r : Few((questions \ {q}) \cup {r}, MaxQuestions)
    BY <1>1, FewLess, FewMoved
  <2>4. Few(questions', MaxQuestions)
    BY <2>2, <2>3
  <2> QED BY <2>2, <2>4 DEF ServicesFew
<1>8. CASE CallElsewhere \/ Press \/ CreateFromGuest \/ Told
  BY <1>3, <1>8
     DEF CallElsewhere, Press, CreateFromGuest, Told, servicesServer, servicesPage
<1>9. CASE AskAfterCall \/ ReadAfterCall \/ ToldAfterCall \/ CallFails
  BY <1>3, <1>9
     DEF AskAfterCall, ReadAfterCall, ToldAfterCall, CallFails, servicesServer
<1>10. CASE UNCHANGED servicesVars
  BY <1>3, <1>10 DEF servicesVars, servicesServer, servicesPage
<1>11. CASE \E k \in Called : ServeCall(k)
  BY <1>3, <1>11 DEF ServeCall, servicesPage
<1>12. CASE \E q \in questions : ExpireOverdue(q)
  BY <1>3, <1>12 DEF ExpireOverdue, servicesPage
<1> QED BY <1>4, <1>5, <1>6, <1>7, <1>8, <1>9, <1>10, <1>11, <1>12 DEF ServicesNext

\* The calls, the button and its questions keep their shape.
THEOREM ServicesTyped == ServicesSpec => []ServicesTypeOK
<1>1. ServicesInv /\ ServicesFew => ServicesTypeOK
  BY DEF ServicesInv, ServicesTypes, ServicesFew, Few, ServicesTypeOK
<1>2. ServicesSpec => []ServicesFew
  BY ServicesFewBegin, ServicesFewStep, PTL DEF ServicesSpec
<1> QED BY <1>1, <1>2, ServicesAlways, PTL

-----------------------------------------------------------------------------
(* The polls for notices *)

LEMMA LoadsFewBegin == NoticesInit => Few(loads, MaxLoads)
BY FewNone, NoticesAssumption DEF NoticesInit

LEMMA LoadsFewStep == Few(loads, MaxLoads) /\ [NoticesNext]_noticesVars => Few(loads, MaxLoads)'
<1> SUFFICES ASSUME Few(loads, MaxLoads), [NoticesNext]_noticesVars PROVE Few(loads, MaxLoads)'
  OBVIOUS
<1>1. MaxLoads \in Nat /\ IsFiniteSet(loads)
  BY NoticesAssumption DEF Few
<1>2. CASE Few(loads', MaxLoads)
  BY <1>2
<1>3. CASE UNCHANGED loads
  BY <1>3
<1>4. CASE AskNotices
  <2>1. PICK p : loads' = loads \cup {p} /\ Cardinality(loads) < MaxLoads
    BY <1>4 DEF AskNotices
  <2>2. Few(loads \cup {p}, MaxLoads)
    BY <1>1, <2>1, FewMore
  <2> QED BY <1>2, <2>1, <2>2
<1>5. ASSUME NEW p \in loads, AnswerList(p) \/ AnswerNotices(p) \/ TakeLoad(p)
      PROVE  Few(loads, MaxLoads)'
  <2>1. loads' = loads \ {p} \/ \E q : loads' = (loads \ {p}) \cup {q}
    BY <1>5 DEF AnswerList, AnswerNotices, TakeLoad
  <2>2. Few(loads \ {p}, MaxLoads) /\ \A q : Few((loads \ {p}) \cup {q}, MaxLoads)
    BY <1>1, FewLess, FewMoved
  <2> QED BY <1>2, <2>1, <2>2
<1>6. CASE ReloadNotices
  BY <1>1, <1>2, <1>6, FewNone DEF ReloadNotices
<1>7. CASE \/ Acknowledge \/ Acknowledged \/ AcknowledgeDone \/ AcknowledgeLost
           \/ UNCHANGED noticesVars
  BY <1>3, <1>7
     DEF Acknowledge, Acknowledged, AcknowledgeDone, AcknowledgeLost, noticesVars, noticesPage
<1>8. ASSUME NEW b \in Noted,
             Withdraw(b) \/ AcknowledgeElsewhere(b) \/ \E kind \in Kind : Write(b, kind)
      PROVE  Few(loads, MaxLoads)'
  BY <1>3, <1>8 DEF Withdraw, AcknowledgeElsewhere, Write, noticesPage
<1> QED BY <1>4, <1>5, <1>6, <1>7, <1>8 DEF NoticesNext

\* The notices, the polls and the page keep their shape.
THEOREM NoticesTyped == NoticesSpec => []NoticesTypeOK
<1>1. NoticesInv /\ Few(loads, MaxLoads) => NoticesTypeOK
  BY DEF NoticesInv, NoticesTypes, Few, NoticesTypeOK
<1>2. NoticesSpec => []Few(loads, MaxLoads)
  BY LoadsFewBegin, LoadsFewStep, PTL DEF NoticesSpec
<1> QED BY <1>1, <1>2, NoticesAlways, PTL

-----------------------------------------------------------------------------
(* The lists of a guest *)

\* So many tokens, each once.
Short(s) == s \in Seq(Mine) /\ Len(s) <= MaxTokens /\ IsInjective(s)

BookingsShape ==
    /\ reviewed \subseteq Mine /\ notNow \subseteq Mine /\ dismissed \subseteq Mine
    /\ storage \in {"open", "full", "blocked"}
    /\ Short(stored) /\ Short(runtime)
    /\ raw \in [Mine -> Card] /\ cards \in [Mine -> Card] /\ poll \in Poll

LEMMA ShortNone == Short(<< >>)
BY TokensAssumption DEF Short, IsInjective

LEMMA ShortIsToken == ASSUME NEW s, Short(s) PROVE s \in Tokens
<1>1. s \in Seq(Mine) /\ Len(s) \in 0..MaxTokens /\ IsInjective(s)
  BY TokensAssumption DEF Short
<1>2. s \in [1..Len(s) -> Mine]
  BY <1>1
<1> QED BY <1>1, <1>2 DEF Tokens, SeqOf

LEMMA CappedShort ==
  ASSUME NEW s \in Seq(Mine), IsInjective(s)
  PROVE  Short(Capped(s))
<1> DEFINE n == IF Len(s) < MaxTokens THEN Len(s) ELSE MaxTokens
<1>1. n \in 0..Len(s) /\ n <= MaxTokens
  BY TokensAssumption
<1>2. Capped(s) = SubSeq(s, 1, n)
  BY DEF Capped
<1> HIDE DEF n
<1>3. PICK c : c = Capped(s)
  OBVIOUS
<1>4. /\ c \in Seq(Mine) /\ Len(c) = n /\ DOMAIN c = 1..n
      /\ \A i \in 1..n : c[i] = s[i] /\ i \in DOMAIN s
  BY <1>1, <1>2, <1>3
<1>5. IsInjective(c)
  BY <1>4 DEF IsInjective
<1> QED BY <1>1, <1>3, <1>4, <1>5 DEF Short

LEMMA OnceWithout ==
  ASSUME NEW s \in Seq(Mine), IsInjective(s), NEW some
  PROVE  /\ Without(s, some) \in Seq(Mine) /\ IsInjective(Without(s, some))
         /\ Len(Without(s, some)) <= Len(s)
BY FilteredFacts, FilteredInOrder DEF Without

LEMMA WithoutShort == ASSUME NEW s, Short(s), NEW some PROVE Short(Without(s, some))
<1>1. s \in Seq(Mine) /\ IsInjective(s) /\ Len(s) \in Nat /\ Len(s) <= MaxTokens
  BY DEF Short
<1>2. PICK t : t = Without(s, some)
  OBVIOUS
<1>3. t \in Seq(Mine) /\ IsInjective(t) /\ Len(t) <= Len(s) /\ Len(t) \in Nat
  BY <1>1, <1>2, OnceWithout
<1> QED BY <1>1, <1>2, <1>3, TokensAssumption DEF Short

LEMMA NewestShort ==
  ASSUME NEW s, Short(s), NEW b \in Mine
  PROVE  Short(Capped(Newest(b, s)))
<1>1. s \in Seq(Mine) /\ IsInjective(s)
  BY DEF Short
<1>2. PICK one : one = <<b>>
  OBVIOUS
<1>3. one \in Seq(Mine) /\ IsInjective(one) /\ ToSet(one) = {b}
  BY <1>2 DEF IsInjective, ToSet
<1>4. PICK t : t = Without(s, {b})
  OBVIOUS
<1>5. t \in Seq(Mine) /\ IsInjective(t) /\ ToSet(t) = ToSet(s) \ {b}
  BY <1>1, <1>4, OnceWithout, WithoutFacts
<1>6. one \o t \in Seq(Mine) /\ IsInjective(one \o t)
  <2>1. ToSet(one) \cap ToSet(t) = {}
    BY <1>3, <1>5
  <2> QED BY <1>3, <1>5, <2>1, JoinedOnce
<1>7. Newest(b, s) = one \o t
  BY <1>2, <1>4 DEF Newest
<1> QED BY <1>6, <1>7, CappedShort

LEMMA MergedShort ==
  ASSUME NEW s, Short(s), NEW t, Short(t), NEW alone
  PROVE  Short(Merged(s, alone, t))
<1>1. s \in Seq(Mine) /\ IsInjective(s) /\ t \in Seq(Mine) /\ IsInjective(t)
  BY DEF Short
<1>2. PICK lone : lone = Filtered(s, alone \ ToSet(t))
  OBVIOUS
<1>3. lone \in Seq(Mine) /\ IsInjective(lone)
  BY <1>1, <1>2, FilteredFacts, FilteredInOrder
<1>4. PICK rest : rest = Without(t, ToSet(lone))
  OBVIOUS
<1>5. rest \in Seq(Mine) /\ IsInjective(rest) /\ ToSet(rest) = ToSet(t) \ ToSet(lone)
  BY <1>1, <1>4, OnceWithout, WithoutFacts
<1>6. lone \o rest \in Seq(Mine) /\ IsInjective(lone \o rest)
  <2>1. ToSet(lone) \cap ToSet(rest) = {}
    BY <1>5
  <2> QED BY <1>3, <1>5, <2>1, JoinedOnce
<1>7. Together(s, alone, t) = lone \o rest
  BY <1>2, <1>4 DEF Together
<1>8. Merged(s, alone, t) = Capped(lone \o rest)
  BY <1>7 DEF Merged
<1> QED BY <1>6, <1>8, CappedShort

LEMMA ReadShort ==
  ASSUME NEW s, Short(s), NEW t, Short(t), NEW alone, NEW cut, ReadStorage(s, alone, t, cut)
  PROVE  Short(runtime')
<1>1. PICK lone : lone = alone \ ToSet(t)
  OBVIOUS
<1>2. runtime' = s \/ runtime' = Merged(s, lone, t)
  BY <1>1 DEF ReadStorage
<1>3. Short(Merged(s, lone, t))
  BY MergedShort
<1> QED BY <1>2, <1>3

LEMMA SavedShort ==
  ASSUME Short(stored), NEW b \in Mine
  PROVE  Short(SavedWith(b))
BY NewestShort DEF SavedWith

LEMMA ListsTyped ==
  ASSUME status \in [Mine -> Standing]
  PROVE  \A tokens : List(tokens) \in [Mine -> Card]
<1> SUFFICES ASSUME NEW tokens, NEW b \in Mine
             PROVE  (IF \/ status[b] = "live"
                        \/ b \in tokens /\ (status[b] = "cancelled" \/ CanLeaveReview(b))
                     THEN status[b] ELSE "absent") \in Card
  BY DEF List
<1> QED BY DEF Card, CanLeaveReview

LEMMA VisibleTyped ==
  ASSUME NEW list \in [Mine -> Card]
  PROVE  Visible(list) \in [Mine -> Card]
BY DEF Visible, Card

LEMMA CandidatesAreMine ==
  ASSUME NEW list, NEW hidden
  PROVE  Candidate(list, hidden) \subseteq Mine
BY DEF Candidate, Candidates

LEMMA NothingTold == Nothing \in [Mine -> Card] /\ NoPoll \in Poll
BY DEF Nothing, NoPoll, Poll, Card

LEMMA ShapeBegins == BookingsInit => BookingsShape
BY ShortNone, NothingTold DEF BookingsInit, BookingsShape

LEMMA ShapeStep ==
  TokensInv /\ BookingsShape /\ [BookingsNext]_bookingsVars => BookingsShape'
<1> SUFFICES ASSUME TokensInv, BookingsShape, [BookingsNext]_bookingsVars
             PROVE  BookingsShape'
  OBVIOUS
<1>1. status \in [Mine -> Standing]
  BY DEF TokensInv, TokenTypes
<1>2. /\ reviewed \subseteq Mine /\ notNow \subseteq Mine /\ dismissed \subseteq Mine
      /\ storage \in {"open", "full", "blocked"}
      /\ Short(stored) /\ Short(runtime)
      /\ raw \in [Mine -> Card] /\ cards \in [Mine -> Card] /\ poll \in Poll
  BY DEF BookingsShape
<1>3. CASE UNCHANGED bookingsVars
  BY <1>2, <1>3 DEF bookingsVars, bookingsServer, browser, access, screen, BookingsShape
<1>4. CASE Storage
  BY <1>2, <1>4 DEF Storage, bookingsServer, access, screen, BookingsShape
<1>5. CASE ReadAccess
  <2>1. Short(runtime')
    BY <1>2, <1>5, ReadShort DEF ReadAccess
  <2> QED BY <1>2, <1>5, <2>1 DEF ReadAccess, bookingsServer, browser, screen, BookingsShape
<1>6. CASE ReloadBookings
  <2>1. Short(Readable)
    BY <1>2, ShortNone DEF Readable
  <2>2. /\ runtime' = Readable /\ dismissed' \subseteq Mine
        /\ raw' = Nothing /\ cards' = Nothing /\ poll' = NoPoll
        /\ UNCHANGED <<reviewed, notNow, storage, stored>>
    BY <1>2, <1>6 DEF ReloadBookings, bookingsServer, browser
  <2> QED BY <1>2, <2>1, <2>2, NothingTold DEF BookingsShape
<1>7. CASE DismissReview
  <2>1. PICK b \in Dismissible :
            /\ dismissed' = dismissed \cup {b}
            /\ notNow' = IF storage = "open" THEN dismissed' ELSE notNow
            /\ stored' = IF storage = "blocked" THEN stored ELSE Without(stored, {b})
            /\ UNCHANGED <<reviewed, storage, runtime, raw, cards, poll>>
    BY <1>7 DEF DismissReview, bookingsServer, access
  <2>2. b \in Mine
    BY CandidatesAreMine DEF Dismissible
  <2>3. Short(stored')
    BY <1>2, <2>1, WithoutShort
  <2> QED BY <1>2, <2>1, <2>2, <2>3 DEF BookingsShape
<1>8. CASE TakeList \/ LoseList
  <2>1. poll.list \in [Mine -> Card]
    BY <1>2 DEF Poll
  <2>2. Visible(poll.list) \in [Mine -> Card]
    BY <2>1, VisibleTyped
  <2>3. /\ poll' = NoPoll /\ raw' \in {raw, poll.list} /\ cards' \in {cards, Visible(poll.list)}
        /\ UNCHANGED <<reviewed, notNow, dismissed, storage, stored, runtime>>
    BY <1>8 DEF TakeList, LoseList, bookingsServer, browser, access
  <2> QED BY <1>2, <2>1, <2>2, <2>3, NothingTold DEF BookingsShape
<1>9. ASSUME NEW b \in Mine, Serve(b)
      PROVE  BookingsShape'
  BY <1>2, <1>9 DEF Serve, browser, access, screen, BookingsShape
<1>10. ASSUME NEW b \in Mine, Created(b)
       PROVE  BookingsShape'
  <2>1. Short(Remembered(b)) /\ Short(SavedWith(b))
    BY <1>2, NewestShort, SavedShort DEF Remembered
  <2>2. /\ stored' = SavedWith(b)
        /\ UNCHANGED <<reviewed, storage, notNow, dismissed, raw, cards, poll>>
    BY <1>10 DEF Created, screen
  <2>3. PICK alone, cut : ReadStorage(Remembered(b), alone, stored', cut)
    BY <1>10 DEF Created
  <2>4. PICK s, t : s = Remembered(b) /\ t = SavedWith(b)
    OBVIOUS
  <2>5. Short(runtime')
    BY <2>1, <2>2, <2>3, <2>4, ReadShort
  <2> QED BY <1>2, <2>1, <2>2, <2>5 DEF BookingsShape
<1>11. ASSUME NEW b \in Mine, CreatedElsewhere(b)
       PROVE  BookingsShape'
  <2>1. Short(SavedWith(b))
    BY <1>2, SavedShort
  <2> QED BY <1>2, <1>11, <2>1 DEF CreatedElsewhere, screen, BookingsShape
<1>12. ASSUME NEW b \in Mine, RunGuestAction(b)
       PROVE  BookingsShape'
  <2>1. reviewed' \subseteq Mine
    BY <1>2, <1>12 DEF RunGuestAction, Cancelled, Reviewed
  <2>2. cards' \in [Mine -> Card]
    BY <1>2, <1>12 DEF RunGuestAction, Card
  <2> QED BY <1>2, <1>12, <2>1, <2>2 DEF RunGuestAction, browser, access, BookingsShape
<1>13. ASSUME NEW b \in Mine, DismissedElsewhere(b)
       PROVE  BookingsShape'
  <2>1. Short(Without(stored, {b}))
    BY <1>2, WithoutShort
  <2> QED BY <1>2, <1>13, <2>1 DEF DismissedElsewhere, bookingsServer, access, screen, BookingsShape
<1>14. ASSUME NEW a \in Asker, AskList(a)
       PROVE  BookingsShape'
  <2>1. Short(runtime')
    BY <1>2, <1>14, ReadShort DEF AskList
  <2>2. PICK tokens : poll' = [by |-> a, list |-> List(tokens)]
    BY <1>14 DEF AskList
  <2>3. poll' \in Poll
    BY <1>1, <2>2, ListsTyped DEF Poll
  <2>4. UNCHANGED <<reviewed, storage, stored, notNow, dismissed, raw, cards>>
    BY <1>14 DEF AskList, bookingsServer, browser
  <2> QED BY <1>2, <2>1, <2>3, <2>4 DEF BookingsShape
<1> QED BY <1>3, <1>4, <1>5, <1>6, <1>7, <1>8, <1>9, <1>10, <1>11, <1>12, <1>13, <1>14
        DEF BookingsNext

LEMMA TokensAlways == BookingsSpec => []TokensInv
BY TokensBegin, TokensSteps, PTL DEF BookingsSpec

\* The bookings, the tokens and the lists keep their shape.
THEOREM BookingsTyped == BookingsSpec => []BookingsTypeOK
<1>1. TokensInv /\ BookingsShape => BookingsTypeOK
  <2> SUFFICES ASSUME TokensInv, BookingsShape PROVE BookingsTypeOK
    OBVIOUS
  <2>1. stored \in Tokens /\ runtime \in Tokens
    BY ShortIsToken DEF BookingsShape
  <2> QED BY <2>1 DEF TokensInv, TokenTypes, BookingsShape, BookingsTypeOK
<1>2. BookingsSpec => []BookingsShape
  BY TokensAlways, ShapeBegins, ShapeStep, PTL DEF BookingsSpec
<1> QED BY <1>1, <1>2, TokensAlways, PTL

-----------------------------------------------------------------------------
(* All of them side by side *)

\* A behaviour of the pages side by side, as they are checked together, is one of each page:
\* what is proved of a page holds there.
THEOREM PagesSideBySide ==
  MCSpec => /\ ChoiceSpec /\ ServicesSpec /\ PushSpec /\ BookingsSpec /\ NoticesSpec
            /\ ArchivesSpec /\ PlannerSpec
<1>1. MCInit => /\ ChoiceInit /\ ServicesInit /\ PushInit /\ BookingsInit /\ NoticesInit
                /\ ArchivesInit /\ PlannerInit
  BY DEF MCInit
<1>2. [MCNext]_allVars =>
        /\ [ChoiceNext]_<<server, page, submits>> /\ [ServicesNext]_servicesVars
        /\ [PushNext]_pushVars /\ [BookingsNext]_bookingsVars /\ [NoticesNext]_noticesVars
        /\ [ArchivesNext]_archivesVars /\ [PlannerNext]_plannerVars
  BY DEF MCNext, allVars, choiceVars
<1> QED BY <1>1, <1>2, PTL
        DEF MCSpec, ChoiceSpec, ServicesSpec, PushSpec, BookingsSpec, NoticesSpec, ArchivesSpec,
            PlannerSpec

\* The pages keep their shape, for any number of records, requests and changes.
THEOREM PagesTyped == MCSpec => []MCTypeOK
<1>1. /\ ChoiceTypeOK /\ ServicesTypeOK /\ PushTypeOK /\ BookingsTypeOK /\ NoticesTypeOK
      /\ ArchivesTypeOK /\ PlannerTypeOK
      => MCTypeOK
  BY DEF MCTypeOK
<1> QED BY <1>1, PagesSideBySide, ChoiceTypesHold, ServicesTyped, PushTyped, BookingsTyped,
           NoticesTyped, ArchivesTyped, PlansTyped, PTL
=============================================================================
