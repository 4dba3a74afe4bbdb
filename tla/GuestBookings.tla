----------------------------- MODULE GuestBookings -----------------------------
(***************************************************************************)
(* The bookings of a guest on the page: the secrets (tokens) by which the  *)
(* guest manages them (GuestApp.tsx, guestAccessRuntime.ts), the list with *)
(* its buttons (GuestApp.tsx), the offer to write a review and its         *)
(* dismissal (GuestReviewDismissController.tsx), and what the server       *)
(* answers (guest-bookings.service.ts).                                    *)
(*                                                                         *)
(* The server tells a token once, when the booking is made.  The page      *)
(* keeps it in three places: in the storage of the browser, which all      *)
(* pages share and which may be full or blocked, in a module of the page,  *)
(* and in the state of the screen, which draws the buttons.  A dismissed   *)
(* review removes the token of its booking from the storage.               *)
(*                                                                         *)
(* A booking is named by its number; of two, the one with the larger       *)
(* number is for the later time.  All are of this browser, which may have  *)
(* other pages open; these only touch the storage.                         *)
(***************************************************************************)
EXTENDS Naturals, FiniteSets, Sequences, SequencesExt, Selection

CONSTANTS
    Mine,     \* the bookings, numbers from 1
    MaxTokens \* MAX_STORED_GUEST_BOOKINGS, MAX_RUNTIME_BOOKINGS

ASSUME TokensAssumption == MaxTokens \in Nat \ {0}

VARIABLES
    status, reviewed,      \* the bookings on the server
    storage, stored, notNow, \* the storage: its state, the tokens, dismissed reviews
    runtime, only,         \* the module: its tokens, and those the storage never had
    displaced,             \* tokens that newer ones displaced, where only so many are kept
    held, dismissed,       \* tokens of the screen, reviews that are not offered
    raw, cards,            \* the last list anybody asked for, and the one on the screen
    poll                   \* a list on its way

bookingsServer == <<status, reviewed>>
browser == <<storage, stored, notNow>>
access == <<runtime, only, displaced, held>>
screen == <<dismissed, raw, cards, poll>>
bookingsVars == <<bookingsServer, browser, access, screen>>

\* A live booking is pending or approved.
Standing == {"none", "live", "completed", "cancelled"}
Card == {"live", "completed", "cancelled", "absent"}
Nothing == [b \in Mine |-> "absent"]

\* The screen asks for the list, and other parts of the page do for their own ends.
Asker == {"screen", "others"}
Poll == [by : Asker \cup {"nobody"}, list : [Mine -> Card]]
NoPoll == [by |-> "nobody", list |-> Nothing]

Tokens == {s \in SeqOf(Mine, MaxTokens) : IsInjective(s)}

BookingsTypeOK ==
    /\ status \in [Mine -> Standing]
    /\ reviewed \subseteq Mine
    /\ storage \in {"open", "full", "blocked"}
    /\ stored \in Tokens /\ runtime \in Tokens
    /\ notNow \subseteq Mine /\ dismissed \subseteq Mine
    /\ only \subseteq Mine /\ displaced \subseteq Mine /\ held \subseteq Mine
    /\ raw \in [Mine -> Card] /\ cards \in [Mine -> Card]
    /\ poll \in Poll

Capped(tokens) == SubSeq(tokens, 1, IF Len(tokens) < MaxTokens THEN Len(tokens) ELSE MaxTokens)
CutOff(tokens) == ToSet(tokens) \ ToSet(Capped(tokens))
Without(tokens, some) == Filtered(tokens, Mine \ some)

-----------------------------------------------------------------------------
(* The server. *)

BookingsInit ==
    /\ status = [b \in Mine |-> "none"] /\ reviewed = {}
    /\ storage = "open" /\ stored = <<>> /\ notNow = {}
    /\ runtime = <<>> /\ only = {} /\ displaced = {} /\ held = {} /\ dismissed = {}
    /\ raw = Nothing /\ cards = Nothing
    /\ poll = NoPoll

\* The staff end the visit, or cancel the booking.
Serve(b) ==
    /\ status[b] = "live"
    /\ \E over \in {"completed", "cancelled"} : status' = [status EXCEPT ![b] = over]
    /\ UNCHANGED <<reviewed, browser, access, screen>>

\* canLeaveReview.
CanLeaveReview(b) == status[b] = "completed" /\ b \notin reviewed

\* GuestBookingsService.list: the live ones of the device, and any for a token.  A visit
\* without a review to write is told too, but never used.
List(tokens) ==
    [b \in Mine |->
        IF status[b] = "live" \/ (b \in tokens /\ (status[b] = "cancelled" \/ CanLeaveReview(b)))
        THEN status[b] ELSE "absent"]

-----------------------------------------------------------------------------
(* The tokens. *)

\* The storage fills up, is blocked, or is open again.
Storage ==
    /\ storage' \in {"open", "full", "blocked"} \ {storage}
    /\ UNCHANGED <<bookingsServer, stored, notNow, access, screen>>

\* readStoredGuestBookings.
Readable == IF storage = "blocked" THEN <<>> ELSE stored

\* A new token comes first.
Newest(b, tokens) == <<b>> \o Without(tokens, {b})

\* rememberGuestRuntimeAccess.
Remembered(b) == Capped(Newest(b, runtime))

\* saveGuestBooking, if the storage takes it.
SavedWith(b) ==
    IF storage = "open" THEN Capped(Newest(b, stored)) ELSE stored

\* A bug: the storage is the truth, whatever it never took.
StorageOnly(tokens, alone, kept) == kept

\* readGuestBrowserAccess: what the storage never had, then what it has.
Together(tokens, alone, kept) ==
    LET own == Filtered(tokens, alone \ ToSet(kept))
    IN  own \o Without(kept, ToSet(own))
Merged(tokens, alone, kept) == Capped(Together(tokens, alone, kept))

\* The storage is read, if it can be.  A token that the storage has is its affair
\* from now on.  What both have is not displaced any more.
ReadStorage(tokens, alone, kept, cut) ==
    LET own == alone \ ToSet(kept)
        more == IF storage = "blocked" THEN {} ELSE CutOff(Together(tokens, own, kept))
    IN  /\ IF storage = "blocked" THEN runtime' = tokens /\ only' = alone
           ELSE runtime' = Merged(tokens, own, kept) /\ only' = own \cap ToSet(runtime')
        /\ displaced' = (displaced \cup cut \cup more) \ (ToSet(kept) \cap ToSet(runtime'))

\* submit has its answer: the token is remembered, saved and read again.
Created(b) ==
    /\ status[b] = "none" /\ status' = [status EXCEPT ![b] = "live"]
    /\ stored' = SavedWith(b)
    /\ ReadStorage(Remembered(b), (only \cup {b}) \cap ToSet(Remembered(b)), stored',
                   CutOff(Newest(b, runtime)) \cup
                       (IF stored' = stored THEN {} ELSE CutOff(Newest(b, stored))))
    /\ held' = ToSet(runtime')
    /\ UNCHANGED <<reviewed, storage, notNow, screen>>

\* The booking is made on another page, or its answer is lost with its token.
CreatedElsewhere(b) ==
    /\ status[b] = "none" /\ status' = [status EXCEPT ![b] = "live"]
    /\ stored' \in {stored, SavedWith(b)}
    /\ displaced' = IF stored' = stored THEN displaced
                    ELSE displaced \cup CutOff(Newest(b, stored))
    /\ UNCHANGED <<reviewed, storage, notNow, runtime, only, held, screen>>

\* Any part of the page reads the tokens.
ReadAccess ==
    /\ ReadStorage(runtime, only, stored, {})
    /\ UNCHANGED <<bookingsServer, browser, held, screen>>

\* The page is loaded again.
ReloadBookings ==
    /\ runtime' = Readable /\ only' = {} /\ held' = ToSet(Readable) /\ UNCHANGED displaced
    /\ dismissed' = IF storage = "blocked" THEN {} ELSE notNow
    /\ raw' = Nothing /\ cards' = Nothing
    /\ poll' = NoPoll
    /\ UNCHANGED <<bookingsServer, browser>>

-----------------------------------------------------------------------------
(* The list. *)

\* A bug: any booking that ended, and the last of them.
AnyOver(list, hidden) == {b \in Mine : list[b] /= "absent"} \ hidden

\* latestReviewCandidate, the latest first.
Candidates(list, hidden) ==
    {b \in Mine : list[b] = "completed"} \ hidden
Candidate(list, hidden) ==
    {b \in Candidates(list, hidden) : \A o \in Candidates(list, hidden) : o <= b}

\* filterGuestHistory.
Visible(list) ==
    [b \in Mine |-> IF list[b] = "completed" /\ b \notin Candidate(list, dismissed)
                    THEN "absent" ELSE list[b]]

\* refreshBookingStatus asks with the tokens of the screen, the others with those
\* they read.  The bound: one question at a time.
AskList(asker) ==
        /\ poll = NoPoll
        /\ IF asker = "others" THEN ReadStorage(runtime, only, stored, {})
           ELSE UNCHANGED <<runtime, only, displaced>>
        /\ poll' = [by |-> asker,
                    list |-> List(IF asker = "others" THEN ToSet(runtime') ELSE held)]
        /\ UNCHANGED <<bookingsServer, browser, held, dismissed, raw, cards>>

\* The answer, or none.  Whoever asked, the review is offered from this list; the
\* screen shows it only if it asked.
TakeList ==
    /\ poll /= NoPoll /\ poll' = NoPoll
    /\ raw' = poll.list
    /\ cards' = IF poll.by = "screen" THEN Visible(poll.list) ELSE cards
    /\ UNCHANGED <<bookingsServer, browser, access, dismissed>>
LoseList ==
    /\ poll /= NoPoll /\ poll' = NoPoll
    /\ UNCHANGED <<bookingsServer, browser, access, dismissed, raw, cards>>

\* A card has buttons if the screen has the token of its booking.
Pressable(b) == b \in held /\ cards[b] /= "absent"

\* cancel and submitReview of GuestBookingsService.
Cancelled(b) ==
    /\ cards[b] = "live" /\ status[b] = "live"
    /\ status' = [status EXCEPT ![b] = "cancelled"] /\ UNCHANGED reviewed
Reviewed(b) ==
    /\ cards[b] = "completed" /\ CanLeaveReview(b)
    /\ reviewed' = reviewed \cup {b} /\ UNCHANGED status

\* runGuestAction: one of these, or what leaves the booking as it is.  Then the booking
\* is read again, and one that is over leaves the screen; unless the answer is lost.
RunGuestAction(b) ==
    /\ Pressable(b)
    /\ Cancelled(b) \/ Reviewed(b) \/ UNCHANGED <<status, reviewed>>
    /\ cards' \in {cards, [cards EXCEPT ![b] = IF status'[b] = "live" THEN "live" ELSE "absent"]}
    /\ UNCHANGED <<browser, access, dismissed, raw, poll>>

\* What the review may be dismissed of: the button, an empty review, the closed list.
Dismissible == Candidate(raw, dismissed)

\* dismissReview; a full storage takes only what is shorter.
DismissReview ==
    \E b \in Dismissible :
        /\ dismissed' = dismissed \cup {b}
        /\ notNow' = IF storage = "open" THEN dismissed' ELSE notNow
        /\ stored' = IF storage = "blocked" THEN stored ELSE Without(stored, {b})
        /\ UNCHANGED <<bookingsServer, storage, access, raw, cards, poll>>

\* The same on another page.
DismissedElsewhere(b) ==
    /\ CanLeaveReview(b) /\ storage = "open"
    /\ notNow' = notNow \cup {b} /\ stored' = Without(stored, {b})
    /\ UNCHANGED <<bookingsServer, storage, access, screen>>

-----------------------------------------------------------------------------
BookingsNext ==
    \/ Storage \/ ReadAccess \/ ReloadBookings \/ DismissReview \/ TakeList \/ LoseList
    \/ \E b \in Mine :
        \/ Serve(b) \/ Created(b) \/ CreatedElsewhere(b) \/ RunGuestAction(b)
        \/ DismissedElsewhere(b)
    \/ \E a \in Asker : AskList(a)

BookingsSpec == BookingsInit /\ [][BookingsNext]_bookingsVars

-----------------------------------------------------------------------------
\* As long as a booking is live, no step takes its secret away.  Who made the booking on
\* this page can manage it here until the page is loaded again, also when the storage
\* was full or blocked and whoever reads the tokens meanwhile; and a secret that
\* reached the storage stays there, whatever reviews are dismissed on whatever page.
\* Only newer bookings, too many to keep, may displace it, here or on another page.
AccessIsKept ==
    [][\A b \in Mine : status[b] = "live" =>
        /\ b \in ToSet(stored) => b \in ToSet(stored') \cup displaced'
        /\ b \in ToSet(runtime) => b \in ToSet(runtime') \cup displaced' \/ ReloadBookings
        /\ b \in held => b \in held' \cup displaced' \/ ReloadBookings
      ]_bookingsVars
=============================================================================
