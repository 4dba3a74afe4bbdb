------------------------------- MODULE GuestPush -------------------------------
(***************************************************************************)
(* Push messages about bookings: the offer on a guest's page               *)
(* (GuestPushOptIn.tsx) and the subscriptions on the server                *)
(* (guest-push.service.ts).                                                *)
(*                                                                         *)
(* The browser has at most one subscription: an endpoint at the push       *)
(* service, with keys.  The page registers it with the server for every    *)
(* active booking, and remembers by a fingerprint of booking, key of the   *)
(* server and endpoint what the server confirmed, so as not to offer it    *)
(* again.  The server keeps the newest few per booking, and removes one    *)
(* that the push service says is gone.  Between the refusal and the        *)
(* removal the browser may have subscribed again, and a registration may   *)
(* arrive after the page that sent it is gone.                             *)
(*                                                                         *)
(* The page is installed and shows the first screen, and the server has    *)
(* push messages enabled; without that there is no offer and nothing is    *)
(* sent.                                                                   *)
(***************************************************************************)
EXTENDS Naturals, FiniteSets, Sequences, SequencesExt, Selection

CONSTANTS
    Reserved, \* the bookings of this browser
    Endpoint, \* endpoints of the push service
    Keep,     \* MAX_SUBSCRIPTIONS_PER_BOOKING
    MaxSubs,  \* bound on the subscriptions that the browser makes
    MaxSends, \* bound on the messages
    MaxLate   \* bound on the registrations under way

ASSUME PushAssumption ==
    Keep \in Nat \ {0} /\ MaxSubs \in Nat /\ MaxSends \in Nat /\ MaxLate \in Nat

VARIABLES
    open,             \* the bookings that are active
    vapid,            \* the key of the server
    rows,             \* guest_push_subscriptions of each booking, the newest first
    sends,            \* counts the messages
    tries, refused,   \* subscriptions of a message: not sent yet, and found gone
    live, given,      \* the subscription of the browser, and how many there were
    offer, completed, \* vapidKey: the offer is shown; and taken up
    work,             \* enableNotifications
    late,             \* registrations under way
    confirmed,        \* the fingerprints that are remembered
    lost              \* bookings and endpoints whose row the server gave up for cause

pushServer == <<open, vapid, rows, sends, tries, refused>>
pushPage == <<live, given, offer, completed, work, confirmed>>
pushVars == <<pushServer, pushPage, late, lost>>

\* The push service never gives the same keys again; with it the key of the server
\* that it is for.
Sub == [endpoint : Endpoint, keys : 1..MaxSubs, vapid : {1, 2}]
NoSub == [endpoint |-> "", keys |-> 0, vapid |-> 0]

Fingerprint == Reserved \X {1, 2} \X Endpoint
Request == [booking : Reserved, sub : Sub]

\* for: activeAccess; left: the bookings that are not confirmed yet.
Work == [at : {"idle", "subscribe", "register", "wait"}, key : {0, 1, 2},
         sub : Sub \cup {NoSub}, for : SUBSET Reserved, left : SUBSET Reserved]
Idle == [at |-> "idle", key |-> 0, sub |-> NoSub, for |-> {}, left |-> {}]

PushTypeOK ==
    /\ open \subseteq Reserved /\ vapid \in {1, 2}
    /\ \A b \in Reserved : rows[b] \in Seq(Sub) /\ Len(rows[b]) <= Keep
    /\ sends \in 0..MaxSends /\ tries \subseteq Request /\ refused \subseteq Request
    /\ live \in Sub \cup {NoSub} /\ given \in 0..MaxSubs
    /\ offer \in {0, 1, 2} /\ completed \in BOOLEAN
    /\ work \in Work /\ late \subseteq Request
    /\ confirmed \subseteq Fingerprint /\ lost \subseteq Reserved \X Endpoint

PushInit ==
    /\ open = Reserved /\ vapid = 1
    /\ rows = [b \in Reserved |-> <<>>]
    /\ sends = 0 /\ tries = {} /\ refused = {}
    /\ live = NoSub /\ given = 0
    /\ offer = 0 /\ completed = FALSE /\ work = Idle
    /\ late = {} /\ confirmed = {} /\ lost = {}

-----------------------------------------------------------------------------
(* The server. *)

\* A booking ends.
Close(b) ==
    /\ b \in open /\ open' = open \ {b}
    /\ UNCHANGED <<vapid, rows, sends, tries, refused, pushPage, late, lost>>

\* The owner gives the server other keys.
ChangeKey ==
    /\ vapid = 1 /\ vapid' = 2
    /\ UNCHANGED <<open, rows, sends, tries, refused, pushPage, late, lost>>

Others(b, endpoint) == Filtered(rows[b], {s \in Sub : s.endpoint /= endpoint})

\* Upsert: a row that does not change keeps its place.
Upserted(b, sub) == IF sub \in ToSet(rows[b]) THEN rows[b] ELSE <<sub>> \o Others(b, sub.endpoint)

\* Of the others, the newest stay.
Kept(b, sub) ==
    LET previous == Others(b, sub.endpoint)
        kept == {sub.endpoint} \cup
                    {previous[i].endpoint : i \in DOMAIN previous \cap 1..Keep - 1}
    IN  Filtered(Upserted(b, sub), {s \in Sub : s.endpoint \in kept})

Endpoints(subs) == {subs[i].endpoint : i \in DOMAIN subs}

\* register, in one transaction that locks the booking.  A row may go for as many
\* newer ones as are kept.
Register(request) ==
    LET b == request.booking
        gone == Endpoints(rows[b]) \ Endpoints(rows'[b])
    IN  /\ request \in late /\ b \in open
        /\ rows' = [rows EXCEPT ![b] = Kept(b, request.sub)]
        /\ late' = late \ {request}
        /\ lost' = (lost \ {<<b, request.sub.endpoint>>}) \cup
                       (IF Len(rows'[b]) = Keep THEN {b} \X gone ELSE {})
        /\ work' = IF work.at = "wait" /\ b \in work.left /\ request.sub = work.sub
                   THEN [work EXCEPT !.at = "register", !.left = @ \ {b}] ELSE work
        /\ UNCHANGED <<open, vapid, sends, tries, refused, live, given, offer, completed,
                       confirmed>>

\* It is refused, or does not get through.  The page gives up on an answer that does
\* not come.
RegisterFails(request) ==
    /\ request \in late /\ late' = late \ {request}
    /\ work' = IF work.at = "wait" /\ request.booking \in work.left /\ request.sub = work.sub
               THEN Idle ELSE work
    /\ UNCHANGED <<pushServer, live, given, offer, completed, confirmed, lost>>

\* sendBookingNotification reads the subscriptions, and sends to each at once.
SendBookingNotification(b) ==
    /\ sends < MaxSends /\ sends' = sends + 1
    /\ tries' = tries \cup {[booking |-> b, sub |-> s] : s \in ToSet(rows[b])}
    /\ UNCHANGED <<open, vapid, rows, refused, pushPage, late, lost>>

\* It is delivered or fails; an endpoint that the browser does not use any more is
\* gone.
Send(try) ==
    /\ try \in tries /\ tries' = tries \ {try}
    /\ refused' = IF try.sub.endpoint /= live.endpoint THEN refused \cup {try} ELSE refused
    /\ UNCHANGED <<open, vapid, rows, sends, pushPage, late, lost>>

\* A bug: whatever subscription has this endpoint.
SameEndpoint(s, sub) == s.endpoint = sub.endpoint

\* The row to remove has the endpoint and the keys.
SameRow(s, sub) == s.endpoint = sub.endpoint /\ s.keys = sub.keys

\* The removal of a subscription that is gone.
Cleanup(try) ==
    LET b == try.booking
    IN  /\ try \in refused /\ refused' = refused \ {try}
        /\ rows' = [rows EXCEPT ![b] = Filtered(@, {s \in Sub : ~SameRow(s, try.sub)})]
        /\ lost' = IF try.sub \in ToSet(rows[b])
                   THEN lost \cup {<<b, try.sub.endpoint>>} ELSE lost
        /\ UNCHANGED <<open, vapid, sends, tries, pushPage, late>>

-----------------------------------------------------------------------------
(* The page. *)

Prints(bookings, key, endpoint) == bookings \X {key} \X {endpoint}

\* The effect that offers it: with the key of the server as it is, for the active
\* bookings, unless all of them are confirmed for the subscription of the browser.
Offer ==
    /\ offer' = IF open = {} THEN 0 ELSE vapid
    /\ completed' = /\ open /= {} /\ live /= NoSub /\ live.vapid = vapid
                    /\ Prints(open, vapid, live.endpoint) \subseteq confirmed
    /\ UNCHANGED <<pushServer, live, given, work, confirmed, late, lost>>

\* The browser loses its subscription.
Forget ==
    /\ live /= NoSub /\ live' = NoSub
    /\ UNCHANGED <<pushServer, given, offer, completed, work, confirmed, late, lost>>

\* enableNotifications: the permission is given, and there are active bookings.
EnableNotifications ==
    /\ offer /= 0 /\ ~completed /\ work = Idle /\ open /= {}
    /\ work' = [Idle EXCEPT !.at = "subscribe", !.key = offer, !.for = open, !.left = open]
    /\ UNCHANGED <<pushServer, live, given, offer, completed, confirmed, late, lost>>

\* The subscription of the browser, if it is for this key, or a new one.
Subscribe ==
    /\ work.at = "subscribe"
    /\ IF live.vapid = work.key THEN UNCHANGED <<live, given>>
       ELSE /\ given < MaxSubs /\ given' = given + 1
            /\ \E e \in Endpoint :
                live' = [endpoint |-> e, keys |-> given + 1, vapid |-> work.key]
    /\ work' = [work EXCEPT !.at = "register", !.sub = live']
    /\ UNCHANGED <<pushServer, offer, completed, confirmed, late, lost>>

\* The registration for the next booking.
Ask(b) ==
    /\ work.at = "register" /\ b \in work.left /\ Cardinality(late) < MaxLate
    /\ late' = late \cup {[booking |-> b, sub |-> work.sub]}
    /\ work' = [work EXCEPT !.at = "wait"]
    /\ UNCHANGED <<pushServer, live, given, offer, completed, confirmed, lost>>

\* A bug: one confirmed booking is enough.
AnyRegistered == work.at = "register" /\ work.left /= work.for

\* Every booking was confirmed.
AllRegistered == work.at = "register" /\ work.left = {}

\* rememberConfirmedFingerprints: instead of those that were remembered.
Complete ==
    /\ AllRegistered
    /\ confirmed' = Prints(work.for, work.key, work.sub.endpoint)
    /\ completed' = TRUE /\ work' = Idle
    /\ UNCHANGED <<pushServer, live, given, offer, late, lost>>

\* The page is closed, or waits no longer.
GiveUp ==
    /\ work /= Idle /\ work' = Idle
    /\ UNCHANGED <<pushServer, live, given, offer, completed, confirmed, late, lost>>

-----------------------------------------------------------------------------
PushNext ==
    \/ ChangeKey \/ Offer \/ Forget \/ EnableNotifications \/ Subscribe \/ Complete
    \/ GiveUp
    \/ \E b \in Reserved : Close(b) \/ SendBookingNotification(b) \/ Ask(b)
    \/ \E request \in late : Register(request) \/ RegisterFails(request)
    \/ \E try \in tries : Send(try)
    \/ \E try \in refused : Cleanup(try)

PushSpec == PushInit /\ [][PushNext]_pushVars

-----------------------------------------------------------------------------
\* What the page remembers as confirmed, and so never offers again, the server holds,
\* for every booking; it gave up only what newer ones displaced or what the push
\* service refused, never a subscription that was renewed in between.
PushIsHeld ==
    \A print \in confirmed :
        \/ print[3] \in Endpoints(rows[print[1]])
        \/ <<print[1], print[3]>> \in lost
=============================================================================
