------------------------------- MODULE MCWebPages -------------------------------
(***************************************************************************)
(* Small instances of five modules of the guest's page and of the two of   *)
(* the staff's screens side by side: they share no state, so each          *)
(* behaviour is one of the seven, and the others are at rest.              *)
(***************************************************************************)
EXTENDS TableChoice, GuestServices, GuestPush, GuestBookings, GuestNotices,
        DirectorArchives, TablePlanner, TLC

\* Filtered is SelectSeq of the standard module.
ASSUME SelectionIsFilter ==
    \A s \in SeqOf(1..3, 4), S \in SUBSET (1..3) :
        Filtered(s, S) = SelectSeq(s, LAMBDA x : x \in S)

VARIABLE subject \* which of the seven

\* Slot 1 is in the hall, slot 2 at the water.
TwoPlaces == 1 :> "hall" @@ 2 :> "canopy"

choiceVars == <<server, page, submits>>
allVars == <<subject, choiceVars, servicesVars, pushVars, bookingsVars, noticesVars,
             archivesVars, plannerVars>>

\* At rest: one of the initial states.
MCInit ==
    /\ ChoiceInit /\ ServicesInit /\ PushInit /\ BookingsInit /\ NoticesInit
    /\ ArchivesInit /\ PlannerInit
    /\ subject \in {"choice", "services", "push", "bookings", "notices", "archives",
                    "planner"}
    /\ subject /= "choice" => prepared
    /\ subject /= "services" => button = [place |-> "list", service |-> "waiter"]
    /\ subject /= "archives" => desk = Emptied("reviews")

MCNext ==
    /\ UNCHANGED subject
    /\ subject /= "choice" => UNCHANGED choiceVars
    /\ subject /= "services" => UNCHANGED servicesVars
    /\ subject /= "push" => UNCHANGED pushVars
    /\ subject /= "bookings" => UNCHANGED bookingsVars
    /\ subject /= "notices" => UNCHANGED noticesVars
    /\ subject /= "archives" => UNCHANGED archivesVars
    /\ subject /= "planner" => UNCHANGED plannerVars
    /\ \/ subject = "choice" /\ ChoiceNext
       \/ subject = "services" /\ ServicesNext
       \/ subject = "push" /\ PushNext
       \/ subject = "bookings" /\ BookingsNext
       \/ subject = "notices" /\ NoticesNext
       \/ subject = "archives" /\ ArchivesNext
       \/ subject = "planner" /\ PlannerNext

MCSpec == MCInit /\ [][MCNext]_allVars

\* Every variable of the one that moves has its type; the others do not change.
MCTypeOK ==
    /\ subject = "choice" => ChoiceTypeOK
    /\ subject = "services" => ServicesTypeOK
    /\ subject = "push" => PushTypeOK
    /\ subject = "bookings" => BookingsTypeOK
    /\ subject = "notices" => NoticesTypeOK
    /\ subject = "archives" => ArchivesTypeOK
    /\ subject = "planner" => PlannerTypeOK
=============================================================================
