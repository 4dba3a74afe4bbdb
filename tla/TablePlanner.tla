------------------------------ MODULE TablePlanner ------------------------------
(***************************************************************************)
(* The two screens on which an administrator or the director sees the      *)
(* tables of a chosen date and time and acts on them: the plan of the      *)
(* places (AdminVisualTablePlanner.tsx) and the list of the tables         *)
(* (AdminTablesByLocation.tsx).  A screen reads the whole state with       *)
(* several requests sent together, every fifteen seconds, when its date or *)
(* time is changed, when asked to, and after each change made on it; a     *)
(* request may fail or be answered late.                                   *)
(*                                                                         *)
(* What the records hold is left out: every change in the restaurant, by   *)
(* the screen or by anybody else, is counted, and a reading is the number  *)
(* of changes made before it.  The requests sent together do not depend on *)
(* each other and are treated alike: one is kept, which stands for any of  *)
(* them, and that a load waits for the others is the time it may take to   *)
(* finish.  The request counter is kept as the mark `fresh' of the one     *)
(* load not overtaken.                                                     *)
(***************************************************************************)
EXTENDS Naturals, FiniteSets, FiniteSetsExt

CONSTANTS
    Hour,           \* the dates and times that may be chosen
    Tonight,        \* the one chosen when a screen opens, today
    MaxRevisions,   \* bound: changes in the restaurant
    MaxPlanLoads,   \* bound: loads not answered
    MaxPresses      \* bound: changes asked for and not answered

NoHour == "none"

ASSUME PlannerAssumption ==
    /\ NoHour \notin Hour /\ Tonight \in Hour
    /\ MaxRevisions \in Nat /\ MaxPlanLoads \in Nat /\ MaxPresses \in Nat

VARIABLES
    revision,  \* changes made in the restaurant
    planner,   \* the screen
    fetches,   \* loads on their way
    presses,   \* changes on their way
    promised   \* history: the last change confirmed to the date and time shown

plannerVars == <<revision, planner, fetches, presses, promised>>

NotYet == MaxRevisions + 1
FailedRead == MaxRevisions + 2
PlanSeen == [hour : Hour \cup {NoHour}, revision : 0..MaxRevisions]
NotSeen == [hour |-> NoHour, revision |-> 0]

\* loadScope, loadRequest and what is shown.  `settled' is the date and time the effect
\* last ran for; until it runs again the screen shows what it showed before.
\* `tables': the tables are there to be chosen.
Planner == [scope : Hour \cup {NoHour}, settled : Hour \cup {NoHour}, active : BOOLEAN,
            pending : BOOLEAN, seen : PlanSeen, tables : BOOLEAN]

Unopened == [scope |-> NoHour, settled |-> NoHour, active |-> FALSE, pending |-> FALSE,
             seen |-> NotSeen, tables |-> FALSE]

PlanLoad == [hour : Hour, fresh : BOOLEAN, read : 0..FailedRead]

\* `hour' is the one shown when the button was pressed; NoHour once the screen is closed.
PlanPress == [hour : Hour \cup {NoHour}, at : {"sent", "done", "refused"},
              revision : 0..MaxRevisions]

PlannerTypeOK ==
    /\ revision \in 0..MaxRevisions /\ promised \in 0..revision
    /\ planner \in Planner
    /\ planner.pending => planner.active
    /\ fetches \subseteq PlanLoad /\ Cardinality(fetches) <= MaxPlanLoads
    /\ \A l, m \in fetches : l.fresh /\ m.fresh => l = m
    /\ presses \subseteq PlanPress /\ Cardinality(presses) <= MaxPresses

PlannerInit ==
    /\ revision = 0 /\ fetches = {} /\ presses = {} /\ promised = 0
    /\ planner = Unopened

-----------------------------------------------------------------------------
(* Loading. *)

Outdated(sent) == {[l EXCEPT !.fresh = FALSE] : l \in sent}
NewLoad(hour) == [hour |-> hour, fresh |-> TRUE, read |-> NotYet]

\* The early return of load, called by a render that showed `hour'.
MayLoad(hour, polling) ==
    planner.active /\ planner.scope = hour /\ ~(polling /\ planner.pending)

StartLoad(hour) ==
    /\ Cardinality(fetches) < MaxPlanLoads
    /\ fetches' = Outdated(fetches) \cup {NewLoad(hour)}
    /\ planner' = [planner EXCEPT !.pending = TRUE]

\* The timer belongs to the effect's render.
PollPlan ==
    /\ MayLoad(planner.settled, TRUE) /\ StartLoad(planner.settled)
    /\ UNCHANGED <<revision, presses, promised>>

Refresh ==
    /\ MayLoad(planner.scope, FALSE) /\ StartLoad(planner.scope)
    /\ UNCHANGED <<revision, presses, promised>>

\* The request is answered from what there is now, or fails.
Answer(l) ==
    /\ l.read = NotYet
    /\ \E answer \in {revision, FailedRead} :
           fetches' = (fetches \ {l}) \cup {[l EXCEPT !.read = answer]}
    /\ UNCHANGED <<revision, planner, presses, promised>>

\* What a load brought is shown; what failed stays as it was.
Brought(l) ==
    IF l.read = FailedRead THEN planner.seen ELSE [hour |-> l.hour, revision |-> l.read]

\* The check after allSettled; as a bug would have it, without the request counter.
AnyOfTheScope(l) == planner.active /\ l.hour = planner.scope
Applies(l) == planner.active /\ l.hour = planner.scope /\ l.fresh

FinishLoad(l) ==
    /\ l.read /= NotYet
    /\ fetches' = fetches \ {l}
    /\ IF Applies(l)
       THEN \E tables \in {planner.tables, TRUE} :
                planner' = [planner EXCEPT !.pending = FALSE, !.seen = Brought(l),
                                           !.tables = tables]
       ELSE UNCHANGED planner
    /\ UNCHANGED <<revision, presses, promised>>

-----------------------------------------------------------------------------
(* Opening, closing, choosing. *)

OpenPlanner ==
    /\ planner.scope = NoHour
    /\ planner' = [planner EXCEPT !.scope = Tonight]
    /\ UNCHANGED <<revision, fetches, presses, promised>>

ChooseHour(hour) ==
    /\ planner.scope \notin {NoHour, hour}
    /\ planner' = [planner EXCEPT !.scope = hour]
    /\ UNCHANGED <<revision, fetches, presses, promised>>

\* The clean-up of the last effect and the effect of the new date and time.
RunEffect ==
    /\ planner.scope /= planner.settled
    /\ Cardinality(fetches) < MaxPlanLoads
    /\ fetches' = Outdated(fetches) \cup {NewLoad(planner.scope)}
    /\ planner' = [planner EXCEPT !.settled = planner.scope, !.active = TRUE,
                                  !.pending = TRUE, !.seen = NotSeen, !.tables = FALSE]
    /\ UNCHANGED <<revision, presses, promised>>

ClosePlanner ==
    /\ planner.scope /= NoHour
    /\ planner' = Unopened
    /\ fetches' = Outdated(fetches)
    /\ presses' = {[p EXCEPT !.hour = NoHour] : p \in presses}
    /\ UNCHANGED <<revision, promised>>

-----------------------------------------------------------------------------
(* Changes. *)

ElsewhereChanged ==
    /\ revision < MaxRevisions
    /\ revision' = revision + 1
    /\ UNCHANGED <<planner, fetches, presses, promised>>

\* For a table or a place chosen among those shown: a closing planned or removed, a
\* booking cancelled, moved or made, or, today only, a table's state.  The list of the
\* tables has only the last.
PressChange(does) ==
    /\ planner.tables
    /\ does = "status" => planner.scope = Tonight
    /\ Cardinality(presses) < MaxPresses
    /\ presses' = presses \cup {[hour |-> planner.scope, at |-> "sent", revision |-> 0]}
    /\ UNCHANGED <<revision, planner, fetches, promised>>

\* The server makes the change, or refuses it.
ServeChange(p) ==
    /\ p.at = "sent"
    /\ \/ /\ revision < MaxRevisions
          /\ revision' = revision + 1
          /\ presses' = (presses \ {p})
                            \cup {[p EXCEPT !.at = "done", !.revision = revision + 1]}
       \/ /\ revision' = revision
          /\ presses' = (presses \ {p}) \cup {[p EXCEPT !.at = "refused"]}
    /\ UNCHANGED <<planner, fetches, promised>>

\* The answer: the change is announced, and the screen loads if it still shows the date
\* and time the button was pressed at.
Confirm(p) ==
    /\ p.at = "done"
    /\ presses' = presses \ {p}
    /\ IF MayLoad(p.hour, FALSE)
       THEN StartLoad(p.hour) /\ promised' = Max({promised, p.revision})
       ELSE UNCHANGED <<planner, fetches, promised>>
    /\ UNCHANGED revision

\* A refusal, or the answer is lost: only the error is shown.
PressFailed(p) ==
    /\ p.at \in {"done", "refused"}
    /\ presses' = presses \ {p}
    /\ UNCHANGED <<revision, planner, fetches, promised>>

PlannerNext ==
    \/ OpenPlanner \/ RunEffect \/ ClosePlanner
    \/ PollPlan \/ Refresh \/ ElsewhereChanged
    \/ \E hour \in Hour : ChooseHour(hour)
    \/ \E l \in fetches : Answer(l) \/ FinishLoad(l)
    \/ \E does \in {"status", "booking"} : PressChange(does)
    \/ \E p \in presses : ServeChange(p) \/ Confirm(p) \/ PressFailed(p)

PlannerSpec == PlannerInit /\ [][PlannerNext]_plannerVars

-----------------------------------------------------------------------------

\* What comes to be shown is of the date and time chosen; it is not older than what was
\* shown before, and holds every change that was confirmed to this screen under that
\* date and time: no late answer takes the screen back.
PlanOnlyAdvances ==
    [][planner'.seen \notin {planner.seen, NotSeen} =>
           /\ planner'.seen.hour = planner.scope
           /\ planner'.seen.revision >= planner.seen.revision
           /\ planner'.seen.revision >= promised]_plannerVars
=============================================================================
