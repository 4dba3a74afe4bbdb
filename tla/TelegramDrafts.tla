---------------------------- MODULE TelegramDrafts ----------------------------
(***************************************************************************)
(* What an administrator writes to the bot step by step: the wizard of a   *)
(* booking (telegram-admin-booking-create.service.ts) and a broadcast to   *)
(* all guests (telegram-admin-menu.service.ts), behind one facade.         *)
(*                                                                         *)
(* The drafts of a person are in the memory of the process, one of each    *)
(* kind, until they are carried out, cancelled, replaced or expired, or    *)
(* the process stops.  Messages and presses are handled concurrently, so a *)
(* handler that waited for the database may go on with a draft that is     *)
(* gone.  Buttons carry the number of their draft; a message whose button  *)
(* worked is deleted, but deleting may fail.  This module is the chat of   *)
(* one person.                                                             *)
(***************************************************************************)
EXTENDS Naturals, Sequences

CONSTANTS
    Option,     \* tables, and texts of a broadcast, to choose from
    Handler,    \* handlers that wait at the same time
    MaxDrafts,  \* bound on the drafts that are begun
    MaxDay      \* bound on the days that pass

ASSUME DraftsAssumption == MaxDrafts \in Nat /\ MaxDay \in Nat

VARIABLES
    today,     \* the date in Kyiv
    begun,     \* drafts that were begun, numbered (the code draws random names)
    wizard,    \* drafts: the draft of a booking in memory, 0 when there is none
    mailing,   \* broadcastDrafts: the draft of a broadcast in memory, or 0
    drafts,    \* the objects, which outlive their place in memory
    handlers,  \* what the waiting handlers will do
    shown,     \* per draft: what its messages with the button to confirm said
    made,      \* per draft: the bookings created, the broadcasts sent
    cancelled  \* drafts that the bot said were cancelled

draftVars == <<today, begun, wizard, mailing, drafts, handlers, shown, made, cancelled>>

Draft == 1..MaxDrafts
Stage == {"date", "table", "details", "phone", "confirm"}
Content == [date : 0..MaxDay, of : Option \cup {0}]
Object == [kind : {"booking", "broadcast"}, stage : Stage \cup {"awaiting_text"}, content : Content]
Errand == {"idle", "table", "create", "begin", "text", "confirm", "send"}

NoContent == [date |-> 0, of |-> 0]
Empty == [kind |-> "booking", stage |-> "date", content |-> NoContent]
NotWaiting == [step |-> "idle", draft |-> 0, content |-> NoContent]

DraftsInit ==
    /\ today = 0 /\ begun = 0 /\ wizard = 0 /\ mailing = 0
    /\ drafts = [d \in Draft |-> Empty]
    /\ handlers = [h \in Handler |-> NotWaiting]
    /\ shown = [d \in Draft |-> <<>>]
    /\ made = [d \in Draft |-> <<>>]
    /\ cancelled = {}

\* Handler h waits for the database and will then do the step.
Wait(h, step, d, content) ==
    /\ handlers[h] = NotWaiting
    /\ handlers' = [handlers EXCEPT ![h] = [step |-> step, draft |-> d, content |-> content]]

\* Handler h goes on.
Resume(h, step) ==
    /\ handlers[h].step = step
    /\ handlers' = [handlers EXCEPT ![h] = NotWaiting]

\* A draft with a number of its own.  Slip: the numbers are not counted.
OldNumber(object) ==
    /\ begun' = begun
    /\ drafts' = [drafts EXCEPT ![begun + 1] = object]

New(object) ==
    /\ begun < MaxDrafts
    /\ begun' = begun + 1
    /\ drafts' = [drafts EXCEPT ![begun + 1] = object]

\* sendConfirmation: the message says what the draft is at this moment.
Show(d, content) == shown' = [shown EXCEPT ![d] = Append(@, content)]

-----------------------------------------------------------------------------
(* The wizard.  A press of any of its buttons drops the broadcast first,   *)
(* whatever becomes of the press.                                          *)

\* begin.
BeginBooking ==
    /\ New(Empty)
    /\ wizard' = begun + 1 /\ mailing' = 0
    /\ UNCHANGED <<today, handlers, shown, made, cancelled>>

\* A button of a draft or a stage that is over is refused.
PressStale ==
    /\ begun > 0 /\ mailing' = 0
    /\ UNCHANGED <<today, begun, wizard, drafts, handlers, shown, made, cancelled>>

AtStage(stage) == wizard /= 0 /\ drafts[wizard].stage = stage

\* acceptDate, for a button or a text; a past date is refused.
AcceptDate(date) ==
    /\ AtStage("date") /\ date >= today
    /\ drafts' = [drafts EXCEPT ![wizard].stage = "table", ![wizard].content.date = date]
    /\ mailing' \in {0, mailing}
    /\ UNCHANGED <<today, begun, wizard, handlers, shown, made, cancelled>>

\* handleText at the stage of the table: the tables are looked up, ...
AskTable(h, table) ==
    /\ AtStage("table") /\ Wait(h, "table", wizard, [NoContent EXCEPT !.of = table])
    /\ UNCHANGED <<today, begun, wizard, mailing, drafts, shown, made, cancelled>>

\* ... and the object that the handler holds gets the table and its next stage,
\* wherever it is meanwhile.
TableFound(h) ==
    LET d == handlers[h].draft
    IN  /\ Resume(h, "table")
        /\ drafts' = [drafts EXCEPT ![d].stage = "details",
                                    ![d].content.of = handlers[h].content.of]
        /\ UNCHANGED <<today, begun, wizard, mailing, shown, made, cancelled>>

\* handleText at the stages of the time, the name and the number of guests, none
\* of which waits for anything.
AcceptDetails ==
    /\ AtStage("details")
    /\ drafts' = [drafts EXCEPT ![wizard].stage = "phone"]
    /\ UNCHANGED <<today, begun, wizard, mailing, handlers, shown, made, cancelled>>

\* The telephone, or the button that skips it.
AcceptPhone ==
    /\ AtStage("phone")
    /\ drafts' = [drafts EXCEPT ![wizard].stage = "confirm"]
    /\ Show(wizard, drafts[wizard].content)
    /\ mailing' \in {0, mailing}
    /\ UNCHANGED <<today, begun, wizard, handlers, made, cancelled>>

\* confirm: what is to be made is copied, the draft leaves the memory, ...
ConfirmBooking(h) ==
    /\ AtStage("confirm") /\ Wait(h, "create", wizard, drafts[wizard].content)
    /\ wizard' = 0 /\ mailing' = 0
    /\ UNCHANGED <<today, begun, drafts, shown, made, cancelled>>

\* ... and under the lock of the table the date is looked at again.
Create(h) ==
    LET content == handlers[h].content
    IN  /\ Resume(h, "create")
        /\ content.date >= today
        /\ made' = [made EXCEPT ![handlers[h].draft] = Append(@, content)]
        /\ UNCHANGED <<today, begun, wizard, mailing, drafts, shown, cancelled>>

\* The button, or /cancel.
CancelBooking ==
    /\ wizard /= 0
    /\ wizard' = 0 /\ cancelled' = cancelled \cup {wizard}
    /\ mailing' \in {0, mailing}
    /\ UNCHANGED <<today, begun, drafts, handlers, shown, made>>

-----------------------------------------------------------------------------
(* Broadcasts *)

\* beginBroadcast: the wizard is dropped at once; the right is asked for and the
\* guests are counted, ...
AskBroadcast(h) ==
    /\ Wait(h, "begin", 0, NoContent)
    /\ wizard' = 0
    /\ UNCHANGED <<today, begun, mailing, drafts, shown, made, cancelled>>

\* ... and a draft that waits for its text takes the place of another.
BeginBroadcast(h) ==
    /\ Resume(h, "begin")
    /\ New([kind |-> "broadcast", stage |-> "awaiting_text", content |-> NoContent])
    /\ mailing' = begun + 1
    /\ UNCHANGED <<today, wizard, shown, made, cancelled>>

\* handleText: a text goes to the wizard first.  The right is asked for, ...
WriteText(h, text) ==
    /\ wizard = 0 /\ mailing /= 0
    /\ Wait(h, "text", mailing, [NoContent EXCEPT !.of = text])
    /\ UNCHANGED <<today, begun, wizard, mailing, drafts, shown, made, cancelled>>

\* ... and a new draft keeps the text, even where the old one was cancelled.
\* Slip: the draft keeps its number.
SameDraft(h) ==
    LET d == handlers[h].draft
        content == handlers[h].content
    IN  /\ Resume(h, "text")
        /\ drafts' = [drafts EXCEPT ![d].stage = "confirm", ![d].content = content]
        /\ mailing' = d /\ Show(d, content)
        /\ UNCHANGED <<today, begun, wizard, made, cancelled>>

KeepText(h) ==
    LET content == handlers[h].content
    IN  /\ Resume(h, "text")
        /\ New([kind |-> "broadcast", stage |-> "confirm", content |-> content])
        /\ mailing' = begun + 1 /\ Show(begun + 1, content)
        /\ UNCHANGED <<today, wizard, made, cancelled>>

\* confirmBroadcast, from any message: the right is asked for, ...
ConfirmBroadcast(h, d) ==
    /\ drafts[d].kind = "broadcast" /\ shown[d] /= <<>>
    /\ Wait(h, "confirm", d, NoContent)
    /\ UNCHANGED <<today, begun, wizard, mailing, drafts, shown, made, cancelled>>

\* ... the draft must still be the one of the message and leaves the memory, ...
TakeBroadcast(h) ==
    LET d == handlers[h].draft
    IN  /\ handlers[h].step = "confirm"
        /\ mailing = d /\ drafts[d].stage = "confirm"
        /\ mailing' = 0
        /\ handlers' = [handlers EXCEPT ![h] = [step |-> "send", draft |-> d,
                                                content |-> drafts[d].content]]
        /\ UNCHANGED <<today, begun, wizard, drafts, shown, made, cancelled>>

\* ... and BroadcastsService.sendNow delivers it.
Send(h) ==
    /\ Resume(h, "send")
    /\ made' = [made EXCEPT ![handlers[h].draft] = Append(@, handlers[h].content)]
    /\ UNCHANGED <<today, begun, wizard, mailing, drafts, shown, cancelled>>

\* The button, or /cancel.
CancelBroadcast ==
    /\ mailing /= 0
    /\ mailing' = 0 /\ cancelled' = cancelled \cup {mailing}
    /\ UNCHANGED <<today, begun, wizard, drafts, handlers, shown, made>>

-----------------------------------------------------------------------------
(* Both *)

\* A handler's right is refused, its table is unknown, its draft is outdated,
\* or a service throws.
HandlerFails(h) ==
    /\ handlers[h] /= NotWaiting
    /\ handlers' = [handlers EXCEPT ![h] = NotWaiting]
    /\ UNCHANGED <<today, begun, wizard, mailing, drafts, shown, made, cancelled>>

\* /start drops both drafts; ten minutes without a step drop one.
Forget ==
    /\ \/ wizard' = 0 /\ mailing' = 0
       \/ wizard' = 0 /\ UNCHANGED mailing
       \/ mailing' = 0 /\ UNCHANGED wizard
    /\ UNCHANGED <<today, begun, drafts, handlers, shown, made, cancelled>>

\* The memory is lost with the process; the buttons stay.
Restart ==
    /\ wizard' = 0 /\ mailing' = 0
    /\ handlers' = [h \in Handler |-> NotWaiting]
    /\ UNCHANGED <<today, begun, drafts, shown, made, cancelled>>

DayPasses ==
    /\ today < MaxDay
    /\ today' = today + 1
    /\ UNCHANGED <<begun, wizard, mailing, drafts, handlers, shown, made, cancelled>>

DraftsNext ==
    \/ BeginBooking \/ PressStale \/ AcceptDetails \/ AcceptPhone
    \/ CancelBooking \/ CancelBroadcast \/ Forget \/ Restart \/ DayPasses
    \/ \E date \in today..MaxDay : AcceptDate(date)
    \/ \E h \in Handler :
          \/ TableFound(h) \/ ConfirmBooking(h) \/ Create(h)
          \/ AskBroadcast(h) \/ BeginBroadcast(h) \/ KeepText(h)
          \/ TakeBroadcast(h) \/ Send(h) \/ HandlerFails(h)
          \/ \E o \in Option : AskTable(h, o) \/ WriteText(h, o)
          \/ \E d \in Draft : ConfirmBroadcast(h, d)

DraftsSpec == DraftsInit /\ [][DraftsNext]_draftVars

-----------------------------------------------------------------------------
(* Properties *)

\* Every variable has its type, and each of the two memories has drafts of its kind.
DraftsTypeOK ==
    /\ today \in 0..MaxDay /\ begun \in 0..MaxDrafts
    /\ wizard \in 0..MaxDrafts /\ mailing \in 0..MaxDrafts
    /\ drafts \in [Draft -> Object]
    /\ handlers \in [Handler -> [step : Errand, draft : 0..MaxDrafts, content : Content]]
    /\ shown \in [Draft -> Seq(Content)] /\ made \in [Draft -> Seq(Content)]
    /\ cancelled \subseteq Draft
    /\ wizard /= 0 => drafts[wizard].kind = "booking"
    /\ mailing /= 0 => drafts[mailing].kind = "broadcast"

\* However messages and presses overlap, a draft is carried out at most once,
\* never after the bot said it was cancelled, and as the last message that asked
\* for the confirmation said; a broadcast as every message with its button said;
\* a booking never for a day that is over.
DraftsActAsShown ==
    [][\A d \in Draft :
         /\ made'[d] /= made[d] =>
              /\ made[d] = <<>> /\ d \notin cancelled
              /\ made'[d] = <<shown[d][Len(shown[d])]>>
              /\ \/ drafts[d].kind = "broadcast" /\ Len(shown[d]) = 1
                 \/ drafts[d].kind = "booking" /\ made'[d][1].date >= today
         /\ d \in cancelled' \ cancelled => made[d] = <<>>]_draftVars
=============================================================================
