---------------------------- MODULE DirectorArchives ----------------------------
(***************************************************************************)
(* The director's two archives: of the guests' reviews and of the staff's  *)
(* actions.  A record is active, archived or deleted for ever, which only  *)
(* an archived one may be.  The director's screen shows either list page   *)
(* by page, the reviews with a search; it counts its requests so that the  *)
(* answer to an overtaken one is dropped, and after each change asks for   *)
(* the first page again (DirectorReviewArchiveControls.tsx,                *)
(* DirectorStaffActionsArchiveControls.tsx, guest-reviews.controller.ts,   *)
(* logs.service.ts).  The two screens hold the same code, except that the  *)
(* staff's actions have no search and are not restored.                    *)
(*                                                                         *)
(* Records are numbered as they are written.  The request counters are     *)
(* kept as the mark `fresh' of the one request not overtaken.  Of the two  *)
(* lists only the one of the chosen view is kept: the other is hidden, and *)
(* loaded anew before it is shown again.  The server reads a page and its  *)
(* answer arrives in one step: what the screen does in between overtakes   *)
(* the request, and a change made in between is one made after it arrived. *)
(***************************************************************************)
EXTENDS Naturals, FiniteSets, Sequences, SequencesExt, Selection

CONSTANTS
    PageLength, \* REVIEW_PAGE_SIZE, LOG_PAGE_SIZE
    Before,     \* the records written when the screen is first opened
    MaxRecords, \* bound: records ever written
    MaxPages    \* bound: requests for a page on their way

ASSUME ArchivesAssumption ==
    PageLength \in Nat \ {0} /\ MaxRecords \in Nat /\ Before \in 0..MaxRecords /\ MaxPages \in Nat

VARIABLES
    active,    \* the records without a row in the archive table
    archived,  \* those with one, the last archived first
    written,   \* the number of the last record written
    desk,      \* the director's screen
    pages,     \* requests for a page on their way
    steady,    \* history: what has stayed in the list since its first page was read
    unsure     \* history: since then a record was taken out of this list by a change
               \* that got no answer, or that another session made

archivesServer == <<active, archived, written>>
archivesPage == <<desk, pages>>
archivesVars == <<archivesServer, archivesPage, steady, unsure>>

RecordId == 1..MaxRecords
ListView == {"active", "archive"}
Search == {"", "odd"}
Matching(query) == IF query = "" THEN RecordId ELSE {r \in RecordId : r % 2 = 1}

\* The button the screen is busy with: its request is on its way, or answered and the
\* list is asked for again.
Busy == [does : {"no", "archive", "restore", "delete", "page", "retry"},
         at : {"sent", "reload"}, record : 0..MaxRecords]
NotBusy == [does |-> "no", at |-> "reload", record |-> 0]

Desk == [kind : {"reviews", "actions"}, open : BOOLEAN, view : ListView, query : Search,
         shown : Seq(RecordId), at : Nat, more : BOOLEAN, retry : BOOLEAN,
         loading : BOOLEAN, timer : BOOLEAN, busy : Busy, target : 0..MaxRecords]

Emptied(kind) ==
    [kind |-> kind, open |-> FALSE, view |-> "active", query |-> "",
     shown |-> << >>, at |-> 0, more |-> FALSE, retry |-> FALSE,
     loading |-> FALSE, timer |-> FALSE, busy |-> NotBusy, target |-> 0]

ArchivesTypeOK ==
    /\ active \subseteq 1..written /\ ToSet(archived) \subseteq 1..written
    /\ active \cap ToSet(archived) = {} /\ IsInjective(archived)
    /\ written \in 0..MaxRecords
    /\ desk \in Desk
    /\ IsInjective(desk.shown) /\ ~(desk.timer /\ desk.busy /= NotBusy)
    /\ Cardinality(pages) <= MaxPages
    /\ \A p, q \in pages : p.fresh /\ q.fresh => p = q
    /\ steady \subseteq RecordId /\ unsure \in BOOLEAN

ArchivesInit ==
    /\ active = 1..Before /\ archived = << >> /\ written = Before
    /\ \E kind \in {"reviews", "actions"} : desk = Emptied(kind)
    /\ pages = {} /\ steady = {} /\ unsure = FALSE

-----------------------------------------------------------------------------
(* The server. *)

\* reviewQuery and its order: the newest first; in the archive, the last archived first.
NewestFirst == [i \in RecordId |-> MaxRecords + 1 - i]
Listed(view, query) ==
    IF view = "active" THEN Filtered(NewestFirst, active \cap Matching(query))
    ELSE Filtered(archived, Matching(query))

\* findActive and findArchive.
PageOf(view, query, n) ==
    LET list == Listed(view, query)
        last == IF n * PageLength < Len(list) THEN n * PageLength ELSE Len(list)
    IN  [items |-> SubSeq(list, (n - 1) * PageLength + 1, last),
         more |-> n * PageLength < Len(list)]

Dropped(list, r) == Filtered(list, RecordId \ {r})

\* archive, restore and deletePermanently, each in one transaction that locks the
\* record: whether the request is answered, and the records after it.
Archive(r) ==
    [ok |-> r \in active \cup ToSet(archived), active |-> active \ {r},
     archived |-> IF r \in active THEN <<r>> \o archived ELSE archived]

Restore(r) ==
    [ok |-> r \in active \cup ToSet(archived),
     active |-> IF r \in ToSet(archived) THEN active \cup {r} ELSE active,
     archived |-> Dropped(archived, r)]

DeletePermanently(r) ==
    [ok |-> r \in ToSet(archived), active |-> active, archived |-> Dropped(archived, r)]

MoveRecord(does, r) ==
    CASE does = "archive" -> Archive(r)
      [] does = "restore" -> Restore(r)
      [] OTHER -> DeletePermanently(r)

\* A guest writes a review; somebody of the staff does something.
Arrive ==
    /\ written < MaxRecords
    /\ written' = written + 1 /\ active' = active \cup {written + 1}
    /\ UNCHANGED <<archived, archivesPage, steady, unsure>>

\* respond reads the review, looks whether it is archived, and saves the row it read:
\* one deleted since it was read is inserted again.  Any deleted review may have been
\* read before it was archived, by an administrator whose answer is saved only now.
Respond ==
    /\ desk.kind = "reviews"
    /\ \E r \in 1..written \ (active \cup ToSet(archived)) : active' = active \cup {r}
    /\ UNCHANGED <<archived, written, archivesPage, steady, unsure>>

\* Another session of an owner, or the same person on another device, moves a record.
\* A page is read by its offset, so what leaves the list draws the rest up unseen.
MovedElsewhere ==
    /\ \E r \in 1..written, does \in {"archive", "restore", "delete"} :
           LET done == MoveRecord(does, r)
           IN  /\ r \in IF does = "archive" THEN active ELSE ToSet(archived)
               /\ does = "restore" => desk.kind = "reviews"
               /\ active' = done.active /\ archived' = done.archived
               /\ steady' = steady \ {r}
               /\ unsure' = (unsure \/ r \in ToSet(Listed(desk.view, desk.query)))
    /\ UNCHANGED <<written, archivesPage>>

-----------------------------------------------------------------------------
(* The requests of the screen. *)

\* invalidateRequests: no request on its way counts any more.
Overtaken == {[p EXCEPT !.fresh = FALSE] : p \in pages}

\* loadActivePage and loadArchivePage, up to the answer.
AskPage(page, append, silent) ==
        /\ Cardinality(Overtaken) < MaxPages
        /\ pages' = Overtaken \cup
               {[view |-> desk.view, query |-> desk.query, page |-> page, append |-> append,
                 silent |-> silent, fresh |-> TRUE]}

\* A page is taken: in the place of the list, or after it without what it has already.
Taken(p) ==
    LET page == PageOf(p.view, p.query, p.page)
        others == Filtered(page.items, RecordId \ ToSet(desk.shown))
    IN  [desk EXCEPT !.shown = IF p.append THEN @ \o others ELSE page.items,
                     !.at = p.page, !.more = page.more, !.retry = FALSE]

\* A page could not be had: a search or a view that cannot be loaded shows nothing, a
\* list that cannot be refreshed stays, with a button to try again.
Missed(p) ==
    IF p.append THEN desk
    ELSE [desk EXCEPT !.shown = IF p.silent THEN @ ELSE << >>,
                      !.at = 0, !.more = FALSE, !.retry = p.silent]

\* The server reads the page and the answer arrives, or the request fails on either way;
\* only the answer to the last request counts.  The button that waited is free again.
ReceivePage ==
    \E p \in pages, told \in BOOLEAN :
        /\ pages' = pages \ {p}
        /\ LET after == IF ~p.fresh THEN desk ELSE IF told THEN Taken(p) ELSE Missed(p)
           IN  desk' = [after EXCEPT !.loading = IF p.fresh /\ ~p.silent THEN FALSE ELSE @,
                                     !.busy = IF p.silent THEN NotBusy ELSE @]
        /\ LET first == p.fresh /\ told /\ ~p.append
           IN  /\ steady' = IF first THEN ToSet(Listed(p.view, p.query)) ELSE steady
               /\ unsure' = (unsure /\ ~first)
        /\ UNCHANGED archivesServer

-----------------------------------------------------------------------------
(* The director. *)

Free == desk.open /\ desk.busy = NotBusy /\ desk.target = 0
ListVisible == desk.open /\ ~desk.loading

\* The list is another one from now on: it is hidden until its first page has come.
Turn(next) ==
    /\ desk' = [next EXCEPT !.loading = TRUE, !.timer = TRUE]
    /\ pages' = Overtaken /\ steady' = {} /\ unsure' = FALSE
    /\ UNCHANGED archivesServer

OpenManager == ~desk.open /\ Turn([Emptied(desk.kind) EXCEPT !.open = TRUE])
ChangeView ==
    /\ Free
    /\ \E v \in ListView \ {desk.view} :
           Turn([Emptied(desk.kind) EXCEPT !.open = TRUE, !.view = v])
ChangeQuery ==
    /\ Free /\ desk.kind = "reviews"
    /\ \E q \in Search \ {desk.query} : Turn([desk EXCEPT !.query = q])

CloseManager ==
    /\ Free /\ pages' = Overtaken
    /\ desk' = [desk EXCEPT !.open = FALSE, !.loading = FALSE, !.timer = FALSE]
    /\ UNCHANGED <<archivesServer, steady, unsure>>

\* The effect of a view or a search: a quarter of a second later the first page is asked for.
StartPage ==
    /\ desk.open /\ desk.timer
    /\ AskPage(1, FALSE, FALSE)
    /\ desk' = [desk EXCEPT !.timer = FALSE, !.loading = TRUE]
    /\ UNCHANGED <<archivesServer, steady, unsure>>

\* The buttons below the list: the next page, and a failed refresh once more.
LoadMore ==
    /\ Free /\ ListVisible /\ desk.more /\ ~desk.retry
    /\ AskPage(desk.at + 1, TRUE, TRUE)
    /\ desk' = [desk EXCEPT !.busy = [NotBusy EXCEPT !.does = "page"]]
    /\ UNCHANGED <<archivesServer, steady, unsure>>

RetryRefresh ==
    /\ Free /\ ListVisible /\ desk.retry
    /\ AskPage(1, FALSE, TRUE)
    /\ desk' = [desk EXCEPT !.busy = [NotBusy EXCEPT !.does = "retry"]]
    /\ UNCHANGED <<archivesServer, steady, unsure>>

\* The buttons of a record in each view.
Offered ==
    IF desk.view = "active" THEN {"archive"}
    ELSE IF desk.kind = "reviews" THEN {"restore", "delete"} ELSE {"delete"}

Sends(does, r) == desk' = [desk EXCEPT !.busy = [does |-> does, at |-> "sent", record |-> r]]

\* A record's button; deleting for ever is asked about in a dialog over the list first.
PressRecord ==
    /\ Free /\ ListVisible
    /\ \E r \in ToSet(desk.shown), does \in Offered :
           IF does = "delete" THEN desk' = [desk EXCEPT !.target = r] ELSE Sends(does, r)
    /\ UNCHANGED <<archivesServer, pages, steady, unsure>>

DeleteDialog ==
    /\ desk.target /= 0 /\ desk.busy = NotBusy
    /\ Sends("delete", desk.target) \/ desk' = [desk EXCEPT !.target = 0]
    /\ UNCHANGED <<archivesServer, pages, steady, unsure>>

\* As if the list were right without asking again.
RemoveOnly ==
    /\ desk' = [desk EXCEPT !.shown = Dropped(@, desk.busy.record), !.target = 0, !.busy = NotBusy]
    /\ UNCHANGED pages

\* archiveReview, restoreReview and deleteReviewPermanently after the answer: the record
\* leaves the list and the first page is asked for again.
ReloadList ==
    /\ AskPage(1, FALSE, TRUE)
    /\ desk' = [desk EXCEPT !.shown = Dropped(@, desk.busy.record), !.target = 0,
                            !.busy.at = "reload"]

\* Nothing is known of the change: the list stays as it was, and an open dialog too.
Unknown == desk' = [desk EXCEPT !.busy = NotBusy] /\ UNCHANGED pages

\* The server makes the change and its answer comes or is lost; or it refuses, or the
\* request is lost.
ServeRecord ==
    LET busy == desk.busy
        done == MoveRecord(busy.does, busy.record)
    IN  /\ busy.at = "sent"
        /\ \/ /\ done.ok /\ active' = done.active /\ archived' = done.archived
              /\ steady' = steady \ {busy.record}
              /\ \/ ReloadList /\ UNCHANGED unsure
                 \/ Unknown /\ unsure' = TRUE
           \/ Unknown /\ UNCHANGED <<active, archived, steady, unsure>>
        /\ UNCHANGED written

ArchivesNext ==
    \/ Arrive \/ Respond \/ MovedElsewhere \/ ReceivePage
    \/ OpenManager \/ ChangeView \/ ChangeQuery \/ CloseManager \/ StartPage
    \/ LoadMore \/ RetryRefresh \/ PressRecord \/ DeleteDialog \/ ServeRecord

ArchivesSpec == ArchivesInit /\ [][ArchivesNext]_archivesVars

-----------------------------------------------------------------------------
\* Every record on the screen answers the search that stands above it.
OfTheQuery == ListVisible => ToSet(desk.shown) \subseteq Matching(desk.query)

\* No record is passed over: one that has stayed in the list since its first page was
\* read is on the screen, or comes after all that are on it and can still be loaded.
NothingSkipped ==
    LET list == Listed(desk.view, desk.query)
        shown == ToSet(desk.shown)
        Place(r) == CHOOSE i \in DOMAIN list : list[i] = r
    IN  ListVisible /\ desk.busy = NotBusy /\ ~unsure =>
            \A r \in steady \ shown :
                /\ desk.more \/ desk.retry
                /\ \A s \in shown : Place(s) < Place(r)

\* Turning pages while guests write, while records are moved here and elsewhere and while
\* answers overtake each other, the director sees the list that was asked for, with no
\* record left out; only after a record was taken out of it by another session, or by a
\* change whose answer was lost, may one be missing, until the first page is read again.
ListIsTrue == OfTheQuery /\ NothingSkipped
=============================================================================
