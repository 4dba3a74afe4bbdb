----------------------------- MODULE GuestServices -----------------------------
(***************************************************************************)
(* The buttons by which a guest at the table calls a waiter or a hookah    *)
(* worker (GuestBookingServiceActions.tsx), and the older buttons of the   *)
(* page after booking (GuestApp.tsx, GuestHookahCallPanel.tsx).            *)
(*                                                                         *)
(* Each button keeps the status the server last told it: whether a call    *)
(* may be made, and the call under way.  It asks every fifteen seconds and *)
(* whenever the page is shown again, so several questions may be under way,*)
(* and their answers come in any order, also around the answer to a call.  *)
(* A status that is older than the last question, or than the last call,   *)
(* is not taken.  The two buttons share nothing, so this is about one.     *)
(*                                                                         *)
(* The server answers a question as of one moment.  Its calls are those of *)
(* WaiterCalls and HookahCalls, as one booking sees them.                  *)
(***************************************************************************)
EXTENDS Naturals, FiniteSets

CONSTANTS
    Called,       \* the calls of the booking, numbers from 1
    MaxQuestions, \* bound on the questions under way
    MaxVisits     \* bound on the changes of the visit

ASSUME ServicesAssumption == MaxQuestions \in Nat /\ MaxVisits \in Nat

VARIABLES
    button,          \* which button: of what place and service
    visit, moves,    \* whether the guests sit, and the count of changes
    called,          \* the calls of the booking
    today,           \* bookingIsToday
    shown, loading,  \* the status that the button has, and whether it waits for one
    post,            \* the call that the guest makes
    questions,       \* requests for the status
    own              \* the last call that the guest was told of after a press

servicesServer == <<visit, moves, called>>
servicesPage == <<today, shown, loading, post, questions, own>>
servicesVars == <<button, servicesServer, servicesPage>>

Button == [place : {"list", "success"}, service : {"waiter", "hookah"}]
Active == {"new", "accepted"}

\* GuestWaiterCallStatus, GuestHookahStatus; call 0: none under way.
Status == [known : BOOLEAN, canCall : BOOLEAN, call : Called \cup {0},
           as : Active \cup {"none"}]
NoStatus == [known |-> FALSE, canCall |-> FALSE, call |-> 0, as |-> "none"]

\* clean: no call was made since; latest: no other question was asked since.
Asked == [at : {"asked", "read"}, latest : BOOLEAN, clean : BOOLEAN,
          answer : Status]
NewQuestion == [at |-> "asked", latest |-> TRUE, clean |-> TRUE, answer |-> NoStatus]

\* The press: as far as the server has it, and the call that it answers with.
Post == [at : {"idle", "sent", "made", "ask", "told"}, answer : Status]
NotPosted == [at |-> "idle", answer |-> NoStatus]

ServicesTypeOK ==
    /\ button \in Button
    /\ visit \in {"away", "seated", "over"} /\ moves \in 0..MaxVisits
    /\ called \in [Called -> Active \cup {"none", "over"}]
    /\ today \in BOOLEAN /\ loading \in BOOLEAN
    /\ shown \in Status /\ post \in Post
    /\ questions \subseteq Asked /\ Cardinality(questions) <= MaxQuestions
    /\ own \in Called \cup {0}

-----------------------------------------------------------------------------
(* The server. *)

ActiveCall == {k \in Called : called[k] \in Active}

\* buildGuestStatus, guestStatus of the hookah calls; taken: all hookahs are in use.
GuestStatus(taken) ==
    [known |-> TRUE,
     canCall |-> /\ visit = "seated"
                 /\ button.service = "hookah" => ActiveCall = {} /\ ~taken,
     call |-> IF ActiveCall = {} THEN 0 ELSE CHOOSE k \in ActiveCall : TRUE,
     as |-> IF ActiveCall = {} THEN "none"
            ELSE called[CHOOSE k \in ActiveCall : TRUE]]

ServicesInit ==
    /\ button \in Button
    /\ visit = "seated" /\ moves = 0
    /\ called = [k \in Called |-> "none"]
    /\ today = TRUE /\ shown = NoStatus /\ loading = TRUE
    /\ post = NotPosted /\ own = 0
    /\ questions = {}

\* The guests take their table or leave it; a visit that ends takes its waiter
\* call along.
ChangeVisit ==
    /\ moves < MaxVisits /\ moves' = moves + 1
    /\ visit' \in {"away", "seated", "over"} \ {visit} /\ visit /= "over"
    /\ called' = [k \in Called |->
        IF visit' = "over" /\ button.service = "waiter" /\ k \in ActiveCall
        THEN "over" ELSE called[k]]
    /\ UNCHANGED <<button, servicesPage>>

\* The staff accept a call and end it.
ServeCall(k) ==
    /\ \/ called[k] = "new" /\ called' = [called EXCEPT ![k] = "accepted"]
       \/ called[k] \in Active /\ called' = [called EXCEPT ![k] = "over"]
    /\ UNCHANGED <<button, visit, moves, servicesPage>>

\* createFromGuest: the call under way, or a new one.
NextCall == {k \in Called : called[k] = "none" /\ \A j \in Called : j < k => called[j] /= "none"}
MakeCall(k) ==
    /\ visit = "seated"
    /\ k \in IF ActiveCall /= {} THEN ActiveCall ELSE NextCall
    /\ called' = IF k \in ActiveCall THEN called ELSE [called EXCEPT ![k] = "new"]

\* The same guest calls from another page.
CallElsewhere ==
    /\ \E k \in NextCall : MakeCall(k)
    /\ UNCHANGED <<button, visit, moves, servicesPage>>

-----------------------------------------------------------------------------
(* The button. *)

\* A bug: a question that is under way when the call is made is believed.
AnyLatest(asked) == asked.latest

\* isGuestServiceStatusSnapshotCurrent; the older buttons take every answer.
SnapshotIsCurrent(asked) ==
    button.place = "list" => asked.latest /\ asked.clean

\* The ref that counts the calls: a question asked before is no longer clean.
Mutated == {[q EXCEPT !.clean = FALSE] : q \in questions}

Superseded == {[q EXCEPT !.latest = FALSE] : q \in questions}

\* loadWaiterStatus, loadHookahStatus: by the timer, or when the page is shown.
LoadStatus ==
    /\ today /\ Cardinality(Superseded) < MaxQuestions
    /\ questions' = Superseded \cup {NewQuestion}
    /\ UNCHANGED <<button, servicesServer, today, shown, loading, post, own>>

\* The server reads the status; a hookah call whose time is over ends thereby.
ReadStatus(q) ==
    /\ q.at = "asked"
    /\ \E taken \in BOOLEAN :
        questions' = (questions \ {q})
                         \cup {[q EXCEPT !.at = "read", !.answer = GuestStatus(taken)]}
    /\ UNCHANGED <<button, servicesServer, today, shown, loading, post, own>>

ExpireOverdue(q) ==
    /\ q.at = "asked" /\ button.service = "hookah"
    /\ \E k \in Called :
        called[k] = "accepted" /\ called' = [called EXCEPT ![k] = "over"]
    /\ UNCHANGED <<button, visit, moves, servicesPage>>

\* The answer to a question.  The last question ends the loading.
TakeStatus(q) ==
    /\ q.at = "read"
    /\ shown' = IF SnapshotIsCurrent(q) THEN q.answer ELSE shown
    /\ loading' = (loading /\ button.place = "list" /\ ~q.latest)
    /\ questions' = questions \ {q}
    /\ UNCHANGED <<button, servicesServer, today, post, own>>

\* No answer: the status stays, but for the button of GuestApp.
LoseStatus(q) ==
    /\ shown' = IF button = [place |-> "success", service |-> "waiter"]
                THEN NoStatus ELSE shown
    /\ loading' = (loading /\ button.place = "list" /\ ~q.latest)
    /\ questions' = questions \ {q}
    /\ UNCHANGED <<button, servicesServer, today, post, own>>

\* callWaiter, callHookahWorker; the button is there to press.
Press ==
    /\ shown.known /\ shown.canCall /\ shown.call = 0
    /\ button.place = "list" => today /\ ~loading
    /\ post.at = "idle" /\ post' = [NotPosted EXCEPT !.at = "sent"]
    /\ questions' = Mutated
    /\ UNCHANGED <<button, servicesServer, today, shown, loading, own>>

\* The server makes the call, and answers with it as it is.
CreateFromGuest ==
    /\ post.at = "sent"
    /\ \E k \in Called :
        /\ MakeCall(k)
        /\ post' = [at |-> "made",
                    answer |-> [known |-> TRUE, canCall |-> button.service = "waiter",
                                call |-> k, as |-> called'[k]]]
    /\ UNCHANGED <<button, visit, moves, today, shown, loading, questions, own>>

\* A bug: only the press counts, not the answer.
ToldOnce ==
    /\ post.at = "made"
    /\ button /= [place |-> "success", service |-> "waiter"]
    /\ shown' = post.answer /\ own' = post.answer.call
    /\ post' = NotPosted
    /\ UNCHANGED <<button, servicesServer, today, loading, questions>>

\* The answer is the new status, whatever was shown since the press.
Told ==
    /\ post.at = "made"
    /\ button /= [place |-> "success", service |-> "waiter"]
    /\ shown' = post.answer /\ own' = post.answer.call
    /\ post' = NotPosted /\ questions' = Mutated
    /\ UNCHANGED <<button, servicesServer, today, loading>>

\* GuestApp asks for the status instead, ...
AskAfterCall ==
    /\ post.at = "made" /\ button = [place |-> "success", service |-> "waiter"]
    /\ own' = post.answer.call /\ post' = [NotPosted EXCEPT !.at = "ask"]
    /\ UNCHANGED <<button, servicesServer, today, shown, loading, questions>>
ReadAfterCall ==
    /\ post.at = "ask"
    /\ post' = [at |-> "told", answer |-> GuestStatus(FALSE)]
    /\ UNCHANGED <<button, servicesServer, today, shown, loading, questions, own>>
\* ... and shows it.
ToldAfterCall ==
    /\ post.at = "told" /\ shown' = post.answer /\ post' = NotPosted
    /\ UNCHANGED <<button, servicesServer, today, loading, questions, own>>

\* The call is refused, or its answer does not get through: an error is shown.
CallFails ==
    /\ post.at /= "idle" /\ post' = NotPosted
    /\ UNCHANGED <<button, servicesServer, today, shown, loading, questions, own>>

\* The booking is of yesterday: nothing is shown, and nothing under way counts.
NextDay ==
    /\ today /\ today' = FALSE /\ button.place = "list"
    /\ shown' = NoStatus /\ loading' = FALSE
    /\ questions' = Superseded
    /\ UNCHANGED <<button, servicesServer, post, own>>

-----------------------------------------------------------------------------
ServicesNext ==
    \/ ChangeVisit \/ CallElsewhere \/ Press \/ CreateFromGuest \/ Told
    \/ AskAfterCall \/ ReadAfterCall \/ ToldAfterCall \/ CallFails \/ NextDay
    \/ LoadStatus
    \/ \E k \in Called : ServeCall(k)
    \/ \E q \in questions :
        \/ ReadStatus(q) \/ ExpireOverdue(q) \/ TakeStatus(q)
        \/ LoseStatus(q)

ServicesSpec == ServicesInit /\ [][ServicesNext]_servicesVars

-----------------------------------------------------------------------------
\* Once the list of bookings told a guest that a call was made, it shows the call
\* until the call is over: no answer to a question from before takes it away, in
\* whatever order the answers come.
CallStaysShown ==
    button.place = "list" /\ today /\ own /= 0 /\ shown.call /= own
        => called[own] = "over"
=============================================================================
