------------------------------ MODULE GuestNotices ------------------------------
(***************************************************************************)
(* The notices a guest has to read: that a booking was cancelled because    *)
(* nobody came, and how a request for another table was decided.  The       *)
(* server keeps one notice with each booking (guestNotification); the page  *)
(* polls for them at two endpoints that fail apart from each other and      *)
(* shows one notice until it is acknowledged                                *)
(* (GuestBookingDecisionController.tsx, guest-no-show-notices.service.ts).  *)
(*                                                                         *)
(* Notices are numbered as they are written; the number stands for the     *)
(* time of writing, which the handle of a no-show notice contains.         *)
(***************************************************************************)
EXTENDS Naturals, FiniteSets, FiniteSetsExt

CONSTANTS
    Noted,      \* the bookings, numbers from 1: the sooner comes first in the list
    Owned,      \* those whose token this browser has
    MaxNotes,   \* bound: notices written
    MaxLoads    \* bound: polls on their way at a time

ASSUME NoticesAssumption == Noted \subseteq Nat /\ MaxNotes \in Nat /\ MaxLoads \in Nat

VARIABLES
    noteOf,     \* the notice of each booking, 0 for none
    notes,      \* every notice written: of which booking, and what about
    readNotes,  \* acknowledgedAt
    loads,      \* the polls on their way
    decision,   \* the notice on the page, 0 for none
    acking      \* the acknowledgement on its way

noticesServer == <<noteOf, notes, readNotes>>
noticesPage == <<loads, decision, acking>>
noticesVars == <<noticesServer, noticesPage>>

Number == 0..MaxNotes
Written == DOMAIN notes
Kind == {"no_show", "table_change"}

\* What each of the two endpoints has answered, and the notice it told of.
Reply == [said : {"asked", "told", "failed"}, note : Number]
Waiting == [said |-> "asked", note |-> 0]
Failed == [said |-> "failed", note |-> 0]
Load == [list : Reply, notices : Reply]

NoticesTypeOK ==
    /\ noteOf \in [Noted -> Number]
    /\ Written \in {1..n : n \in Number}
    /\ \A n \in Written : notes[n] \in [booking : Noted, kind : Kind]
    /\ readNotes \subseteq Written
    /\ loads \subseteq Load /\ Cardinality(loads) <= MaxLoads
    /\ decision \in Number
    /\ acking \in [note : Number, at : {"no", "sent", "done"}]

NoticesInit ==
    /\ noteOf = [b \in Noted |-> 0] /\ notes = << >> /\ readNotes = {}
    /\ loads = {} /\ decision = 0 /\ acking = [note |-> 0, at |-> "no"]

IsNoShow(n) == n /= 0 /\ notes[n].kind = "no_show"

-----------------------------------------------------------------------------
(* The server. *)

\* A request for another table is decided, or the booking is cancelled because the
\* guest did not come; a request that was still open is rejected after that as well.
Write(b, kind) ==
    LET n == Cardinality(Written) + 1
    IN  /\ n <= MaxNotes
        /\ kind = "no_show" => ~IsNoShow(noteOf[b])
        /\ notes' = [m \in Written \cup {n} |->
                        IF m = n THEN [booking |-> b, kind |-> kind] ELSE notes[m]]
        /\ noteOf' = [noteOf EXCEPT ![b] = n]
        /\ UNCHANGED <<readNotes, noticesPage>>

\* Another time is decided, or staff moves the booking: its notice, which other parts of
\* the page show, takes the place.
Withdraw(b) ==
    /\ noteOf[b] /= 0 /\ ~IsNoShow(noteOf[b])
    /\ noteOf' = [noteOf EXCEPT ![b] = 0]
    /\ UNCHANGED <<notes, readNotes, noticesPage>>

Unread(kind) == {b \in Noted : noteOf[b] \notin readNotes \cup {0} /\ notes[noteOf[b]].kind = kind}

\* GuestBookingsService.list, and the first of it with a decision to show.
FirstDecided ==
    IF Unread("table_change") = {} THEN 0 ELSE noteOf[Min(Unread("table_change"))]

\* listUnreadForDevice: the latest cancellation first.
LatestNoShow == Max({noteOf[b] : b \in Unread("no_show")} \cup {0})

-----------------------------------------------------------------------------
(* The page. *)

Settled(load) == load.list.said /= "asked" /\ load.notices.said /= "asked"

\* load, by the timer.
AskNotices ==
    /\ Cardinality(loads) < MaxLoads
    /\ loads' = loads \cup {[list |-> Waiting, notices |-> Waiting]}
    /\ UNCHANGED <<noticesServer, decision, acking>>

AnswerList(p) ==
    /\ p.list = Waiting
    /\ \E reply \in {[said |-> "told", note |-> FirstDecided], Failed} :
        loads' = (loads \ {p}) \cup {[p EXCEPT !.list = reply]}
    /\ UNCHANGED <<noticesServer, decision, acking>>
AnswerNotices(p) ==
    /\ p.notices = Waiting
    /\ \E reply \in {[said |-> "told", note |-> LatestNoShow], Failed} :
        loads' = (loads \ {p}) \cup {[p EXCEPT !.notices = reply]}
    /\ UNCHANGED <<noticesServer, decision, acking>>

\* A bug: an endpoint that failed has nothing to tell.
FailedIsEmpty(load, shown) ==
    IF load.notices.note /= 0 THEN load.notices.note ELSE load.list.note

\* What a poll makes of the notice that is shown.
Decide(load, shown) ==
    IF load.notices.note /= 0 THEN load.notices.note
    ELSE IF load.list.note = 0
         THEN IF "failed" \in {load.list.said, load.notices.said} THEN shown ELSE 0
         ELSE IF load.notices.said = "failed" /\ IsNoShow(shown) THEN shown
              ELSE load.list.note

TakeLoad(p) ==
    /\ Settled(p)
    /\ decision' = Decide(p, decision)
    /\ loads' = loads \ {p}
    /\ UNCHANGED <<noticesServer, acking>>

\* acknowledge: a no-show by its handle, a decision by the token of its booking.
Acknowledge ==
    /\ acking.at = "no" /\ decision /= 0
    /\ IsNoShow(decision) \/ notes[decision].booking \in Owned
    /\ acking' = [note |-> decision, at |-> "sent"]
    /\ UNCHANGED <<noticesServer, loads, decision>>

\* A bug: the booking is not asked whether it has a notice.
MarkedAnyway(current) == {current}

\* Without a notice there is nothing to acknowledge.
Marked(current) == {current} \ {0}

\* acknowledgeByDevice takes the notice of the handle, acknowledgeNotification the one
\* the booking has by now, which may be none of these.
Acknowledged ==
    LET current == noteOf[notes[acking.note].booking]
    IN  /\ acking.at = "sent"
        /\ IsNoShow(acking.note) => current = acking.note
        /\ readNotes' = readNotes \cup Marked(current)
        /\ acking' = [acking EXCEPT !.at = "done"]
        /\ UNCHANGED <<noteOf, notes, loads, decision>>

\* The page takes the notice off, whichever it shows by now, and polls again; or it
\* learns nothing and leaves it.
AcknowledgeDone ==
    /\ acking.at = "done" /\ decision' = 0
    /\ acking' = [note |-> 0, at |-> "no"]
    /\ UNCHANGED <<noticesServer, loads>>
AcknowledgeLost ==
    /\ acking.at /= "no"
    /\ acking' = [note |-> 0, at |-> "no"]
    /\ UNCHANGED <<noticesServer, loads, decision>>

\* The notice is acknowledged on another page.
AcknowledgeElsewhere(b) ==
    /\ noteOf[b] /= 0 /\ readNotes' = readNotes \cup {noteOf[b]}
    /\ UNCHANGED <<noteOf, notes, noticesPage>>

\* The page is loaded again.
ReloadNotices ==
    /\ decision' = 0 /\ loads' = {} /\ acking' = [note |-> 0, at |-> "no"]
    /\ UNCHANGED noticesServer

-----------------------------------------------------------------------------
NoticesNext ==
    \/ \E b \in Noted :
        \/ Withdraw(b) \/ AcknowledgeElsewhere(b)
        \/ \E kind \in Kind : Write(b, kind)
    \/ AskNotices
    \/ \E p \in loads : AnswerList(p) \/ AnswerNotices(p) \/ TakeLoad(p)
    \/ Acknowledge \/ Acknowledged \/ AcknowledgeDone \/ AcknowledgeLost
    \/ ReloadNotices

NoticesSpec == NoticesInit /\ [][NoticesNext]_noticesVars

-----------------------------------------------------------------------------
\* A notice on the page stays until the guest has read it or the endpoint that told of it
\* has told otherwise.  However the answers of overlapping polls, failures of one of the
\* two endpoints and acknowledgements mix, a poll whose own endpoint failed does not take
\* the notice away, and a decision gives way to nothing but a cancellation then.
NoticeStays ==
    [][\/ decision \in {0, decision'} \/ ReloadNotices \/ AcknowledgeDone
       \/ \E p \in loads :
            /\ TakeLoad(p)
            /\ IF IsNoShow(decision) \/ IsNoShow(decision')
               THEN p.notices.said = "told"
               ELSE p.list.said = "told"]_noticesVars
=============================================================================
