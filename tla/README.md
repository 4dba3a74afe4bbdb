# TLA+ specifications of molo-site

This directory holds a formal model of the program in `../src`: a restaurant's
booking site with a NestJS backend on PostgreSQL, React screens for guests,
waiters, administrators and directors, Telegram bots, and an integration with the
point-of-sale system Syrve. The modules are written from the code; TLC checks
them on small instances, and TLAPS proves the most important properties for
instances of every size.

- [The system](#the-system)
- [The modules](#the-modules)
- [What the runs check](#what-the-runs-check)
- [What is proved](#what-is-proved)
- [Disagreements found](#disagreements-found)
- [Known behaviour](#known-behaviour)
- [Plan](#plan)
- [What is not modelled](#what-is-not-modelled)

To repeat the work, with `tlc2.TLC` and `tlapm` installed:

    tlc -workers 2 -config bookings_slots.cfg MCBookings
    tlapm BookingsProofs.tla

## The system

`src/backend/src` has one directory per component (lines of TypeScript in
parentheses). All of them share one PostgreSQL database; several processes of the
backend may run at once, so what protects shared state is transactions, row locks,
advisory locks and unique indexes, never the memory of a process.

| component | state | operations | modelled by |
|---|---|---|---|
| `bookings` (7300) | bookings, table assignments, reschedule and table-change requests, availability blocks | create (guest, staff, banquet), approve, reject, check in, complete, cancel, no-show, transfers, requests of guests and the decisions about them | `Bookings` |
| `bookings/*-lock.service` | advisory and row locks, the pool of connections | lock a table set, lock a transfer, lock an arrival | `BookingLocks`, `AtomicSlots` |
| `tables` (670), `zones` (470), `map` | physical status, numbers, slots of the map, locations | set a status, create, renumber, remove, show, hide, open, close | statuses: `Bookings`; the rest: `TableChoice` |
| `schedules` (560), `booking-expiration` | reminder days in the restaurant's row | automatic no-show, expiry of past bookings, two reminders | jobs about bookings: `Bookings`; reminders: `RestaurantDay` |
| `restaurant` (730) | one row of settings | read, change, save | `RestaurantDay` |
| `waiter-calls` (1100) | calls, waiters assigned to a table in memory | call, accept, close, assign, clean up after a transfer | `WaiterCalls` |
| `hookah-calls` (890) | calls, their expiry | call, accept, complete, cancel, expire | `HookahCalls` |
| `staff` (2600), `auth` | accounts, credentials, shifts, invitations, sessions, guesses of PINs | login, shifts, invitations, administration | `StaffAccounts`, `StaffPinThrottle` |
| `syrve` (5700) | request quotas, settings, orders, events, table states, leases | client, limiter, webhooks, polling, reducer, worker, commands of the director | `SyrveRequestLimiter`, `SyrveTables`, `SyrveControl` |
| `telegram` (3400) | menus, drafts in memory | buttons, wizard of a booking, broadcast | `TelegramBot`, `TelegramDrafts` |
| `guest-push` (680) | subscriptions | subscribe, send, clean up | `GuestPush` |
| `logs`, guest reviews | records and their archives | archive, restore, delete, page by page | `DirectorArchives` |
| `notifications` (590), `broadcasts`, `clients`, `analytics`, `developer`, `config` | messages, profiles, records | send, list, count | not modelled |
| `migrations` (1700) | the schema: tables, indexes, triggers | upgrade | used where a module needs it |
| `src/frontend` (19000) | the state of screens | | `TableChoice`, `GuestServices`, `GuestPush`, `GuestBookings`, `GuestNotices`, `DirectorArchives`, `TablePlanner` |

**How they interact.** A guest picks a slot of the drawn map, creates a booking and
asks for changes; staff decide by the site or by Telegram buttons, which call the
same services. Every decision repaints `tables.status`, the one variable that the
map, the waiters and the Syrve integration also read and write. Jobs start every
minute, send the reminders and end what nobody decided. Waiter and hookah calls
belong to a seated booking. The Syrve worker, which several processes compete for by
a lease, turns webhooks and polled orders into table statuses, and sends every
request through the limiter; commands of the director take the same lease. Pages
poll, and take answers in whatever order they come.

**What is hard about it.**

- *Two tables of one truth.* A booking has a table of its own
  (`bookings.table_id`) and, for banquets and after transfers, rows in
  `booking_table_assignments`. Several queries look for conflicts, and not all of
  them look at both.
- *A status derived from everything else.* `tables.status` is recomputed by most
  handlers, with more than one idea of which bookings still claim the table.
- *Decisions about something that has changed.* A request for another time or table
  is approved minutes later: the booking may be closed, the guests may sit. A button
  of a bot is pressed whenever its message is found again.
- *Locks on two connections.* Advisory locks are held by one connection and row locks
  by another, so PostgreSQL does not see every cycle, and each request may need two
  connections of one pool.
- *Quotas and clocks shared by processes.* A permit is granted in one place and used
  in another; PostgreSQL's `NOW()` is the time at which a transaction began, not
  the time at which it got its lock.
- *Reads and writes that no lock joins*: hookah calls, restaurant settings, the
  rejection of a table change, administration of staff, un-awaited promises.
- *Answers that come late*, to pages that asked something else since.

The hazards are listed one by one, at the line where they bite, in `PROJECT.json`.

**What makes each part correct.** Bookings: overlapping visits never share a table; a
guest has one active booking per date; what is closed stays closed; guests who sit
are left alone; no handler frees a table another booking of today stands for; every
booking of the past ends. Locks: a check of a table and the write that relies on it
are not separated by another request; requests do not wait for one another for ever.
Reminders: none is sent twice, and none is marked without cause. Limiter: the rate at
which requests *leave* is bounded, not only that of the permits, and a pause binds all
processes. Throttle: no number of concurrent logins gets more guesses than the limit; a
failure is never lost; a lock is earned, and holds. Staff: a session needs the
credentials in force. Calls: one active call per booking, a call has one worker, a
closed call is never active again, and calls of waiters end with the visit. Syrve: what
is stored of a bill is true of the register, an old reading never occupies a table
again, the last bills of a table end only with evidence for each of them, commands to
the registers that are sent under the lease exclude each other, and a confirmation is
for what was shown. Bot: an old button undoes nothing; a draft is carried out once, as shown. Pages: what is shown only
advances, what was acknowledged or confirmed is not forgotten, and the table booked is
the one that was pressed.

## The modules

Several modules of one kind share a run where their state is independent: an MC module
puts them side by side, and each behaviour is one of them (`subject`) while the others
are at rest in an initial state.

| MC module | of |
|---|---|
| `MCBookings` | `Bookings` |
| `MCSyrveTables` | `SyrveTables` |
| `MCQuotas` | `StaffPinThrottle`, `SyrveRequestLimiter`, `TelegramDrafts` |
| `MCGuestCalls` | `WaiterCalls`, `HookahCalls`, `TelegramBot` |
| `MCSharedRows` | `BookingLocks` (with `AtomicSlots`), `RestaurantDay` |
| `MCBackOffice` | `SyrveTables` with two registers, `SyrveControl`, `StaffAccounts` |
| `MCWebPages` | `TableChoice`, `GuestServices`, `GuestPush`, `GuestBookings`, `GuestNotices`, `DirectorArchives`, `TablePlanner` |

### Bookings

`Bookings.tla` models `bookings/`, the statuses of `tables/` and the two jobs that
end bookings.

| variable | code |
|---|---|
| `bookings` | the rows of `bookings`, with `booking_table_assignments` (`assigned`) and the pending requests of `booking_reschedule_requests` and `table_change_requests` |
| `tableStatus` | `tables.status` |
| `blocks` | `availability_blocks` |
| `today`, `clock` | the date and time of day in Kyiv |
| `rejecting` | the booking that a rejection of a table change under way has read |
| `overwritten` | history: bookings that such a rejection has put back to an older copy |

Each handler is one action that includes its checks, its writes and its repainting
of tables. The checks are operators of their own because the differences between
them matter: `NoConflict` sees own tables and assignments, `NoConflictByTableId`
only the former (used by the approval of another time); `Remaining` and
`RemainingByTableId` differ in the same way for repainting. `Synchronized` and
`Painted` are the two ways to write statuses.

`Blank` bookings, with status `"none"`, are identifiers not used yet. Guests are one
identity, where the code compares a phone and a device. A handler runs in a
transaction that locks the rows of the booking and of its tables; the module takes it
to be atomic, and `BookingLocks` asks whether it is. One handler locks the row of a request
and not the booking, `rejectTableChange`; it has the step that reads the booking
(`ReadForRejection`) and the one that saves it (`RejectTableChange`), which writes the
columns it read over everything committed since. The save reads the row again to compare
it, and that reading is part of the step. Blocks of one target may overlap: the check for a
block of the same target compares `undefined` with `null` and never fires
(`availability-blocks.service.ts:576`).

### BookingLocks and AtomicSlots

`BookingLocks.tla` has the requests of `Bookings` again, statement by statement, for one
day and one interval of time, and without what does not touch a slot. A request
follows a *plan*, the sequence of its operations in the order of the code: connections
taken from the pool, advisory locks of the session (`BookingTableLockService`) and of the
transaction (`coordinated-bookings.provider.ts`), `FOR UPDATE`, reads, checks, the
commit, and the log entry, which is written after it (`Log`) or, by a waiter's transfer, within
the transaction but on a connection of its own (`LogWithin`). `PlanOf` has one plan per kind of request; a plan
goes on with what the handler read before. `holder` says which session has a lock,
`conns` which connections a handler has. PostgreSQL ends one of the transactions that
wait for one another (`Victim`), but it sees only cycles of sessions: a wait of a handler
on its second connection, or for a connection, is invisible to it.

`AtomicSlots.tla` is the abstract specification: a booking is seated, moved or closed,
and a table is blocked, in a single step whose conditions hold in that step.
`PlacedAtomically` says that `BookingLocks` implements it under the mapping of
`Slots == INSTANCE AtomicSlots WITH ...`, except for the steps named `StaleSave` (the
rejection of a table change writes back a booking it read earlier) and `Crossed` (a
table that was taken by a request without a slot lock: an approval of a table change, or
such a stale save).

### RestaurantDay

`RestaurantDay.tla` models the row of the restaurant: `restaurant.service.ts`,
`restaurant.controller.ts` and the reminders of `schedules.service.ts`. A change of the
settings reads the row (`Reads`), and its `save` reads it again, compares
(`CompareRow`) and writes the columns that differ (`Save`), which may be somebody
else's. `Check`, `Claim`, `Delivered`, `NobodyThere`, `NotDelivered`, `ReleaseClaim` and
`LogReminder` are the steps of a run of the job about one reminder, `BreakOff` is a
process that stops in any of them; runs of several minutes and processes overlap.
`reminded` is a history variable: how often a reminder of a day was sent, how often its
mark was taken back after, and whether its mark has an excuse (a delivery that found
nobody, or a stop).

### SyrveRequestLimiter

`SyrveRequestLimiter.tla` models `syrve-request-limiter.ts` and the use of a permit
in `postJson` of `syrve-client.ts`. `barrier` and `directoryNext` are the
`next_request_at` of the two rows of `syrve_request_limits`; `caller` says what
each caller is doing, in any process. Claiming is split where time can pass: the
claim leaves (`Request`, `Retry`), the transaction runs (`Claim`), its answer arrives
(`Permitted`, `Limited`), the request is sent (`Dispatch`) or the permit has expired
meanwhile (`StalePermit`). `AbandonRequest` is everything that may end a caller at any moment.
`grants` and `pauses` are history variables: the promises are about the moments at
which requests were sent, which the code stores nowhere.

### StaffPinThrottle

`StaffPinThrottle.tla` models `staff-pin-throttle.service.ts`. `rows` are the rows of
`staff_pin_attempts` for one subject, kept after their deletion with the reason for
it; `call[c].began` is `NOW()` of the transaction that call `c` has open, which
stays behind the clock while it waits for the advisory lock. Counting a failure is
two steps (`Count`, `CommitFailure`), because deletions take no advisory lock and
may commit in between.

### StaffAccounts

`StaffAccounts.tla` models `staff.service.ts`, `staff.controller.ts`,
`telegram-staff-link.service.ts` and what `auth.service.ts` asks of a token. `members` are
the rows of `staff`. Administration reads an account without a lock (`Administer`,
`ReadAccount`) and updates the columns it changes provided that the role is still the one
it read (`WriteFields`); the director's login, the change of the director's credentials
and the use of an invitation lock the row, and are one action each between their reads.
`version` is `directorCredentialsConfiguredAt`, which tokens carry; `wrong` is a history
of the passwords compared at a login or for an invitation, which the lock of the account is
to bound. The change of credentials compares the current password as well
(`staff.service.ts:221`) and counts no wrong one; it takes a session of that director.

### WaiterCalls

`WaiterCalls.tla` models `waiter-calls.service.ts`, the trigger of
`2026081500020-CloseInactiveWaiterCalls.ts`, and of bookings what calls depend on.

| variable | code |
|---|---|
| `calls` | the rows of `waiter_calls`; `move` is a history variable |
| `memory` | `assignments`, the array in the memory of the process |
| `visits` | status, table, check-in and approval of `bookings`; `seatedBy` is the waiter named by the latest relevant entry of `booking_history` |
| `occupied` | the tables whose status lets guests call |
| `due`, `detaching` | runs of `closeActiveCallsAndDetachBooking` that were started and not awaited, before and after their transaction |

`createFromGuest`, `accept` and `close` lock the booking or the call they check and are
one action each. A waiter transfer is three: its own transaction, the transaction
that closes the calls, and the change in memory; `Restart` may come between them, and
so may everything else. `Resolved` is the search for the waiter of a booking in
memory, calls and history, in this order. The actions on bookings are the part of
`Bookings` that calls can notice.

### HookahCalls

`HookahCalls.tla` models `hookah-calls.service.ts`. `complete`, `cancel` and
`expireOverdueCalls` read rows, check them and call `save`, which reads the rows again,
compares them with the copies, and updates the columns that differ. `requests` holds
what a request has between these steps: the copies (`copy`), and after `Compare` the
columns it will write (`changed`). `Save` is the update; `Create` the rest of the
transaction that makes a new call, with the update of what it found overdue. Expiry
does not load the worker of a call and cannot overwrite it (`Loaded`). `AcceptHookah`
locks its row and checks it again, so it is one action.

### SyrveTables

`SyrveTables.tla` models how the bills of the cash registers change the statuses of
tables: the reducer (`syrve-state-reducer.ts`), the store around it
(`syrve-state.store.ts`), the cycle of the worker (`syrve-worker.runner.ts`), the reads
of the client (`probeLoadedOrderBatch` of `syrve-client.ts`) and the receiver of
callbacks (`syrve-webhook.service.ts`).

| variable | code |
|---|---|
| `history` | the bills of the registers (external); version `k` is what the register says of a bill at its timestamp `k` |
| `ledger` | a row of `syrve_table_links` (`active`, `freed`, `last`) with its rows of `syrve_order_versions` (`versions`) |
| `status` | `tables.status`: free, occupied, or one of the others |
| `poll` | the cycle of the worker: what it captured and has read, the tables left to apply |
| `receipt` | the topology that the client keeps from its last complete poll |
| `callback` | callbacks between their capture and their transaction |

The worker captures all ledgers (`Capture`), asks which registers are alive and lists
the open bills of their tables (`ListBills`), reads single bills (`LookUpBills`) and
applies what it knows to one table after the other (`Apply`, whose body is `Polled`, the
function `reduceSyrveOrderState`). A list may miss bills, and a bill may not be found:
the code never takes absence for an end. A callback brings any published version, at any
time, any number of times (`Receive`), and is applied to all tables in one transaction
(`Commit`, with `Notified` for `reduceSyrveWebhookOrder`) or refused. `StaffMarks` are
the handlers of `tables.service.ts` that go through `SyrveStaffActionsService`;
`BookingPaints` stands for all other writers of `tables.status`, which do not know the
ledger.

Abstractions. The revision of a ledger and `updated_at` of its table fence late results:
the model keeps, for the poll and each callback, the set of tables nobody has written
since the capture (`fresh`). The two questions of a cycle whether a register is alive are
one. The catalogue of tables is constant; the repair of transfers that an earlier
version of the program stored as unknown is left out. One cycle runs at a time, which the
lease of `SyrveControl` ensures. A change of configuration makes everything on its way
void, as `Abandon`, `Refuse` and `LoseReceipt` do; the adoption of old ledgers is left
out. A delivery is one callback.

### SyrveControl

`SyrveControl.tla` models who may speak to the registers: the settings and their revision
(`syrve-settings.store.ts`, `syrve-integration.service.ts`), the consent to automatic
statuses (`syrve-activation.*.ts`), the loading of tables (`syrve-table-loading.*.ts`),
the workers and their lease (`syrve-worker.*.ts`) and the operations of a director
(`syrve-operations.service.ts`), of which every director has one at a time. A holder of the
lease asks the database whether it may
go on (`Ask`), sends (`Send`) and is answered (`Answer`); a command may run on at the
register after its sender stopped (`commands`). A preview issues a proof with the
fingerprint of what was shown (`IssueProof`), and a confirmation with this proof takes
the lease and raises the revision (`TakeLease`).

Abstractions. A lease lasts 90 seconds and is renewed every 15, and a renewal that fails
aborts its holder; so the model lets it run out (`Expire`) when its holder no longer
renews it, and needs no clock. The random token of a lease is the name of its holder.
Commands are followed until their lease has run out. The newest confirmation stands for
all: an older one that is still good says the same. Which registers there are, back-off
and the rotation of tables are left out. So is the director's diagnosis of one bill
(`posBillDiagnostics`, `syrve-integration.service.ts:198`): it has a register load the bill
by the same command without asking for the lease, so `CommandsExclude` is about commands
under a lease, and not about that one.

### TelegramBot and TelegramDrafts

`TelegramBot.tla` models the menus and notifications of the bot: everybody has one message
of a menu in front of them, which may be old, and all notifications; a press is looked up,
perhaps checked again (`Recheck`), and served by the service of the site
(`ServeAtOnce`, `ServeChecked`, `Assign`). The rows a press may change are one booking
(`visit`), the waiter in memory (`keeper`) and one call.
`TelegramDrafts.tla` models what an administrator writes step by step: the wizard of a
booking and a broadcast. `wizard` and `mailing` are the drafts in memory, `drafts` the
objects, which a waiting handler may hold after they were replaced; `shown`, `made` and
`cancelled` are histories of what the person was shown, got, and was told.

### The pages of guests

- `TableChoice.tla`: from a slot of the drawn map to the booked table, with the owner who
  renumbers, moves and removes tables meanwhile, and the migration that binds tables to
  slots (`tables.service.ts`, `zones.service.ts`, `map.service.ts`, `GuestApp.tsx`,
  `tableMapIdentity.ts`). `view` is the copy of the map, `submits` what became of each
  press.
- `GuestServices.tla`: the call buttons with their polls and presses. `clean` and
  `latest` mark a question that no call and no newer question overtook.
- `GuestPush.tla`: the browser's subscription, what the page remembers as confirmed, and
  the newest few subscriptions that the server keeps.
- `GuestBookings.tla`: the tokens by which a guest manages bookings, in the storage of
  the browser, in a module of the page and in the state of the screen. `displaced` is a
  history: the tokens that newer ones cut off where only so many are kept.
- `Selection.tla`: what `filter` makes of an array, without recursion, so that theorems can
  be stated of it. `MCWebPages` assumes that it is `SelectSeq` of the standard library,
  and TLC evaluates this for all sequences of up to four of three elements.
- `GuestNotices.tla`: notices polled at two endpoints that fail apart, and their
  acknowledgement. Other notices of a booking, of another time or a table changed by staff,
  only take the place of these (`Withdraw`).

### The screens of the staff

- `DirectorArchives.tla`: the archives of reviews and of staff actions, page by page,
  with a request counter that drops overtaken answers. Records are moved on this screen
  and, by another session of an owner, without its knowledge (`MovedElsewhere`). `unsure`
  is a history: since the list was loaded, the answer to a change was lost or another
  session has moved a record of this list, so the offset of the next page may be wrong. The
  server reads a page in the step that answers it, and the screen takes it in the same one.
- `TablePlanner.tla`: the tables of a chosen date and time, read by several requests
  together while dates are picked and changes are made. A reading is the number of
  changes made before it.

### Proofs and mutated forms

`*Proofs.tla` hold theorems. A definition marked *Slip* or *Mutant* is a plausible
mistake in the definition after it; it is used nowhere, and exists to show that a property
would notice the mistake. `PROJECT.json` says which property notices which slip,
and which lines of the code each definition stands for.

## What the runs check

| run | instance | shows |
|---|---|---|
| `bookings_slots` | 2 bookings, 2 tables, 1 day of 3 units, 2 arrival times | `NoDoubleBooking`, `AssignmentsMatch` |
| `bookings_calendar` | 2 bookings, 2 tables, 2 days | `OneActivePerGuest`, `ArrivedUndisturbed`, `ReleasedHeldTable` over midnight, with delays that move a booking to the next date |
| `bookings_blocks` | 1 booking, 2 tables, 2 days, 1 block, statuses set by hand, 1 rejected table change, with fairness | `UnavailableStaysEmpty`, `ClosedIsFinal`, `PastBookingsEnd` |
| `banquet_reschedule` | as `bookings_slots` | violation of `NoSharedTable` |
| `guest_cancel_frees` | as `bookings_slots` | violation of `GuestCancelKeepsAssigned` |
| `quotas` | throttle: 2 calls, 3 guesses, 3 units of time; limiter: 2 callers, 3 permits, 2 pauses, 6 units of time; drafts: 2 handlers, 2 drafts, 1 midnight | `MCTypeOK`, `GuessesAreJudged`, `LockHolds`; `QuotaIsKept`; `DraftsActAsShown` |
| `guest_calls` | waiter calls: 2 bookings, 2 tables, 2 waiters, 2 calls, 1 transfer; hookah calls: 2 concurrent requests, 2 calls, 2 workers, 2 units of time; bot: 2 persons | `MCTypeOK`, `OneCallPerVisit`, `CallsMoveOn`; `ActiveCallsAreSound`, `HookahCallsMoveOn`, `CompletedForCause`; `PressesAreBound` |
| `waiter_transfer_call` | 1 booking, otherwise as `guest_calls` | violation of `TransferCarriesNothing` |
| `syrve_bills` | 2 bills of 1 table, a second place without a link, 2 versions of each bill, 1 register, 1 callback at a time | `LedgerHolds`, `FreedOnEvidence`, `UpToDateSettles` |
| `shared_rows` | locks: 2 requests at a time of 4 in all, 2 bookings, 3 tables, a pool of 3; restaurant: 2 runs of the job, 1 change of the settings, 1 day | `MCTypeOK`, `HangsAreKnown`, `PlacedAtomically`; `RemindersAreTrue` |
| `back_office` | 1 bill, 2 tables on 2 registers; 2 workers, 1 operation, 3 revisions; 2 accounts, 2 requests at a time of 3 in all | `MCTypeOK`, `OpensFromLatest`; `CommandsAreSafe`, `ObservationResumes`; `SessionsAreSafe` |
| `web_pages` | seven pages, each with 1 or 2 of everything that can cross | `MCTypeOK`, `BookedWherePressed`, `CallStaysShown`, `PushIsHeld`, `AccessIsKept`, `NoticeStays`, `ListIsTrue`, `PlanOnlyAdvances` |

The types of `Bookings` and `SyrveTables` are proved and not checked again by a run; in
`quotas`, `MCTypeOK` leaves the types of the limiter to their proof.

**Bounds and why they are enough.** A conflict, a stale decision or a wrongly freed
table takes two bookings and the table they dispute; the second table is where one of
them is moved, and makes a banquet. With a cleanup of one unit, a visit of one unit
and arrivals at 0 and 2, visits at different times do not overlap, those at equal
times do, and a reported delay of 2 units reaches from one into the other, or past
midnight when a day has 2 units. In `bookings_blocks` arrivals are at 0 and 1: with
a block over the last of 3 units, the visit at 0 ends with its cleanup just before it
and that at 1 has only its cleanup in it. Two days are what midnight, expiry and a date
after today need. A stale rejection takes one booking and another handler that commits
meanwhile: `bookings_blocks` has it (`MaxRejections`), and the two runs with violations. In
`bookings_slots` and `bookings_calendar`, where two bookings would multiply the copies that
a rejection may hold, none is rejected over an older copy; what holds with two bookings
then is proved, with the exceptions that the properties name.

The limiter needs three permits to tell a gap from the sum of two, two pauses of
different lengths to see one overwrite the other, and enough time for a permit to die.
The throttle needs a limit of 2 to tell a guess from a window of guesses, three guesses
so that one is over the limit, and time for a window, a lock and the retention of a row
to end. Drafts need a second one to be taken for the first, and two handlers to cross.
Calls need a second call, to be active together with the first or to follow it, a second
worker who might take a call over, and one transfer; two hookah requests are enough for
one to overwrite what the other did, and the second booking matters for waiters only,
whose memory is shared by tables. Two persons are what two buttons for the same booking
need.

A table of Syrve needs two bills, one of which may end while the other is overlooked, and
a bill needs two versions: opened or being created, and printed, carried away or closed. A
bill that is carried between tables of two registers, either of which may not answer, is
the instance in `back_office`. In `syrve_bills` the system never stops, and deadlock is
checked. A lease needs two workers and an operation to be disputed by each kind of pair
(operations of several directors are left to the proof), and a third revision so that a proof of the first can meet a saved second one. Accounts
need a director and somebody who acts on them; a third request follows two that cross.

Locks: a hang of two requests needs two handlers; three tables are a booking of two and a
destination; a pool of three is what two transfers cannot share, and leaves a third
connection to a request that needs two; four requests are two that set the scene and two
that cross. `RemindersAreTrue` was also checked over midnight (2 days, 1 run of the job
and 1 change), where its theorem holds for any number of days.

On the pages two answers cross in each case, and every list or storage is small enough to
be full: of two tokens, one is kept where a browser keeps so many, so that a newer booking
displaces an older. Every cap (`LastDay`, `MaxBlocks`, `Horizon`, `LimiterHorizon`, `MaxGrants`,
`MaxPauses`, `MaxRows`, `MaxMoves`, `MaxTime`, `MaxVersion`, `MaxRequests`, `MaxHandled`,
`MaxRevision`, `MaxAsked` and the others named `Max...`) is a guard and is named as a
bound where it is declared. No proof needs a cap to be small. `CHECK_DEADLOCK FALSE`
is set where a bounded calendar, clock or number of requests really ends. Symmetry is
used for bookings, tables, callers, workers, calls, requests and bills, and never in a
run with a liveness property.

**Fairness.** `bookings_blocks` assumes weak fairness of `Tick`, `Expire` and of
`AutoNoShow` for every booking. Time passes; `BookingExpirationService` and
`AutomaticNoShowService` are started every minute for as long as the process lives,
and each run tries every candidate. A weakly fair job is one that keeps being tried
until it succeeds or has nothing to do. Nothing is assumed of guests and staff, so
`PastBookingsEnd` excludes bookings with an open request for another time: the
no-show waits for staff to decide on it, and bookings that a rejection has put back, which
it may do again between two runs of the jobs. `back_office` assumes
(`ControlFairness`) that a lease which nobody renews runs out, that every cycle ends,
because it has a deadline after which it aborts, and that the timer of some process starts
a worker again; nothing is assumed of directors or of the registers.
The other runs assume no fairness.

## What is proved

Each component with a proof has an inductive invariant, in a `*Proofs` module, that
implies the properties of the runs for every value of the constants. `PROJECT.json` lists
the theorems with the property each states.

**Bookings** (`BookingsProofs`). `IInv` joins `TypeOK`, `AssignmentsMatch`,
`NoDoubleBooking`, `OneActivePerGuest` and `RequestsAreOnline`. The latter two are
what makes `NoDoubleBooking` inductive: the approval of another time looks at own
tables only, so after it an overlap at a table that is assigned to a banquet is
possible; the conflict stays within the stated exception because only bookings made
online carry such requests, and those have no assignment but their own table. Most
actions move and activate no booking (`Quiet`); creation, moving to another table
and moving to another time have a lemma each, and each action is shown to be of one of
these kinds. Theorems: `TypeCorrect`, `Invariance`, `NeverDoubleBooked`,
`NeverTwicePerGuest`, `AssignmentsAlwaysMatch`, `ClosedForGood`. Three action theorems
rest on the same invariant: `ArrivedStayUndisturbed`, whose cases are the actions that
move or end a booking; `OnlyWaitersOverlook`, which follows a booking into a block and a
block over a booking; `HeldTablesStay`, for which every repainting of a table is shown
to see the bookings that stand for it, or to be one of the two that overlook assignments.
A rejection that saves an older copy breaks `AssignmentsMatch` and `NoDoubleBooking` of its
booking; these speak of the bookings that are not `overwritten`, and stay inductive because a
handler that moves or activates a booking checks it against all others. `OneActivePerGuest`
needs no exception, as unique indexes refuse such a save.

**SyrveRequestLimiter** (`QuotasProofs`). The promises are about sending;
they follow from four facts that are inductive together: the barrier lies ahead of
every grant by the gap it reserved (`BarrierAhead`), hence grants are apart
(`GrantsApart`); a permit is used within a lifetime of its grant (`SentInTime`),
because its life is counted from before the grant (`PermitsYoung`); and the barrier
lies beyond every pause, so that nothing is granted inside one (`PausesHold`).
Theorems: `LimiterTypeCorrect`, `AlwaysSpaced`,
`NeverThreeConservative`, `PausesAlwaysKept`, together `QuotaAlwaysKept`. With the numbers
of the code (gaps of 31 and 6.1 seconds and a lifetime of 1) that is at most 2
conservative requests in any 60 seconds and at most 10 requests of both groups together.

**StaffPinThrottle** (`QuotasProofs`). The invariant adds to the properties that
the clean-up only takes what is older than a window (`StaleIsOld`), that a guess was
reserved before its failure is counted (`ReservedBefore`), and that the failures
counted still stand when the lock is committed, although rows may be deleted in
between (`CountStands`, with `NoReservation`). Theorems: `ThrottleInvariance`,
`ThrottleTypeCorrect`, `ReservationsAreOwn`, `AlwaysLimited`, `LocksAreEarned`, together
`AlwaysJudged`, and `LocksHold`.

**WaiterCalls** (`GuestCallsProofs`). `OneActiveCall` and `EndedWithVisit` are inductive
with `TypeOK` as soon as calls that are not made yet are known to name no waiter
(`Unmade`). Closing the calls of a booking, by the trigger or by the late clean-up,
is one lemma (`Closing`); a late clean-up can only close, so it harms no invariant
whenever it comes. Theorems: `CallsInvariance`, `CallsTypeCorrect`,
`OneActiveCallHolds`, `EndedWithVisitHolds`, together `OneCallPerVisitHolds`, and
`CallsMoveOnHolds`.

**HookahCalls** (`GuestCallsProofs`). No lock protects most answers, so the invariant is
about what a request still knows when it writes (`Sound`): the call it read exists;
its copy is closed; after its comparison it will write the status, or the row is
closed already; and as long as the call is active, the reason for which it was to be
completed holds, because an accepted call does not change (`KnowledgeStays`). Every
row moves `Onward`, from new to accepted to closed, which gives all properties.
Theorems: `HookahInvariance`, `HookahTypeCorrect`, `OneActiveHookahCallHolds`,
`AcceptedIsPromisedHolds`, together `ActiveCallsAreSoundHolds`, and
`HookahCallsMoveOnHolds`, `CompletedForCauseHolds`. Not promised, by the code or by the
model, is which outcome a call closed by two answers at once keeps: a completed call may
turn out cancelled, with both dates or without its worker.

**SyrveTables** (`SyrveTablesProofs`). The invariant (`IInv`) is that every variable has its
type, that every ledger is good (`GoodLedger`: usable, and true of the register), and that
whatever is on its way, in a poll, a receipt or a callback, is a genuine reading of a
published version (`InFlight`). The latter is what makes the former inductive: registers
only ever add versions, so a reading stays genuine however late it is used. What the two
reducers do to a good ledger is one lemma each (`PolledFacts`, `NotifiedFacts`). That an
up-to-date poll settles a table needs more of a ledger: the fingerprint beside an open or
closed version is that of the register's version, so nothing the poll reads contradicts a
ledger (`CurrentAccepted`); and the list of a poll shows no closed bill, so what it tells
of a table is about bills open there or asked for (`UpToDateFacts`).
Theorems: `AlwaysGood`, `TypeCorrect`, `LedgersUsable`, `LedgersTrue`, together
`LedgersHold`, and `OpenedFromLatest`, `FreedWithEvidence`, `UpToDatePollsSettle`.

**SyrveControl** (`BackOfficeProofs`). A command excludes others because it outlives its
sender only together with the lease: holders that go on have the lease (`HoldersHold`),
and a command nobody was answered to is known to its worker, who then keeps the lease
(`CommandsAreKnown`). A fingerprint that still matches is of the numbers there are now
(`ShownIsCurrent`), and a proof that was used is of an earlier revision (`SpentIsPast`).
Theorems: `ControlTypesHold`, `CommandsAreAlwaysSafe`.

**StaffAccounts** (`BackOfficeProofs`). Sessions are of the credentials in force because
everything that carries a version, a token or a confirmed invitation, has one that is
gone or the secret of the present one (`TokensAreDated`, `ConfirmationsAreDated`), and
versions only grow (`NextVersion`, also within one millisecond). Guesses are limited
because the row's count is never below the true one, and the lock it leads to lasts
(`LocksAreLong`). Theorems: `StaffTypesHold`, `SessionsAreAlwaysSafe`.

**BookingLocks** (`SharedRowsProofs`). Ten lemmas (`GoodCreate` ... `GoodClose`) say of each
plan which phase comes before which: a check after the locks it relies on, one commit, rows
after slots. With them the invariant `LocksInv` is about any request: it has every lock of
the phases behind it until the phase that ends its owner (`Guarded`), so what it found
there, that a booking is valid, a table unblocked or free, is still true at the commit,
because everybody who could change it needs one of these locks; what a lock tells of its
holder (`HoldsInOrder`: a transaction that has rows is past its slots, a session has slots
and transfers only); and no more connections are out than the pool has (`PoolKept`). From
it follows, for any number of requests, bookings and tables, that every request takes
effect as one step of `AtomicSlots` except for the two named ones (`RequestsAreAtomic`);
that refinement carries the promise of `AtomicSlots`, one booking for a table
(`AtomicGivesOnce`), over to the rows as they are written: two active bookings share a table
only if the rejection of a table change has written one of them (`TablesAreGivenOnce`), and a
closed booking is active again only by such a rejection (`ClosedForGood`). Of requests that wait for one another,
those that wait for rows form a cycle of their own, which PostgreSQL sees, and if there are
none, all wait with the sessions that hold; so they hang only for want of connections, or if
one approves another time of a booking that was moved since its slots were locked, and
locks the slot of the new table after the row (`MovedMeanwhile`, `RequestsHangKnowingly`).
Theorems: `LockTypesHold`, `RequestsAreAtomic`, `AtomicGivesOnce`, `TablesAreGivenOnce`,
`ClosedForGood`, `RequestsHangKnowingly`.

**RestaurantDay** (`SharedRowsProofs`). `RemindersAreTrue` counts: a reminder of a day is
sent at most once more often than its mark was taken back. Alone that is not inductive; it
becomes so with the runs that have claimed the reminder and will send it
(`CountedToday`), with the fact that they are at work for today, which a run that passes
midnight gives up (`WorkIsOfToday`), and that neither the row nor the copy of a late save
has a mark of a day to come (`MarksArePast`). A save that takes a mark back counts as
such: `FormsAssumption` is that no form carries a mark, so that only the stale copy does.
Theorems: `RestaurantTypesHold`, `RemindersAlwaysTrue`.

**TelegramBot** (`GuestCallsProofs`). What a press may do is bounded by what every service
allows, whoever calls it (`Bound`): guests stay arrived, closed visits closed, and a table that
guests sit at is set free by nobody but who ends the visit. `BotInv` adds to the types that a
press which still has to remember its waiter found the guests seated, and that an accepted
call is somebody's; then a button of an old message writes no more than its service does.
Theorems: `BotTypesHold`, `OldPressesAreBound`.

**TelegramDrafts** (`QuotasProofs`). A draft is carried out once because it is in memory, or in
the hands of one handler, or gone (`MemoryIsUnused`, `ErrandsAreOwn`): both maps give it away
before they await anything. It is carried out as shown because what a handler carries is
what the last message said (`Announced`), and numbers of drafts are not used again
(`NumbersAreOwn`). Theorems: `DraftTypesHold`, `DraftsAlwaysActAsShown`.

**The pages** (`WebPagesProofs`). `TablePlanner`: the load that counts was not read before
what is shown, nor before what the screen was promised (`FreshIsLater`), and there is one
such load (`OneFresh`): `PlansOnlyAdvance`. `GuestServices`: an answer that will be taken
was read since the last call was told (`CleanIsLater`): `CallsStayShown`.
`GuestNotices`: a notice that an endpoint told of is of its own kind, so the other
endpoint, when it fails, takes nothing away (`ToldOfOwnKind`): `NoticesStay`.
`TableChoice`: names of tables are given once (`RowsAreCreated`), and copies and choices
made on a prepared map know the slot of their table for as long as it exists
(`CopyKnowsSlots`, `ChoicesKnowSlots`): `ChoiceTypesHold`, `PressesAreBookedThere`.
`GuestPush`: the same keys are never made twice (`KeysAreOwn`), the bookings that were
registered before the page remembers them are held by the server or were given up for
cause (`WorkIsTrue`), and its rows are few, none with an endpoint twice (`RowsAreFew`):
`PushTyped`, `PushStaysHeld`. `GuestBookings`: a list tells of a visit as completed only
when it is (`ListsAreTrue`), nobody has a token before its booking is made
(`TokensAreMade`), and a token of a live booking that the page knows is one the storage
never had, or in the storage, or displaced (`TokensAreTrue`): `SecretsStay`. `displaced` is
needed: that a list is full says nothing of whether newer tokens pushed an older one out.
`DirectorArchives`: of the requests under way one counts, it is for the list on the screen,
and while a button waits for it no other does (`PagesAreTrue`); a button at work and a
list that is being loaded exclude each other (`DeskIsTrue`). What is shown is of the
query, and what was promised and is not shown comes after it (`OrderIsKept`, by
`ShownFirst`) and after the pages that were read (`Beyond`), because a record that leaves
the list moves the others forward only, and the screen then reads the first page again,
unless another session moved it, when the screen does not know (`unsure`).
That needs facts about the lists the server makes: they are `Filtered` from one order
(`NewestFirst`), so each record has one place and records that leave or arrive keep the
order of the rest. From it follows `ListStaysTrue`.

**Side by side.** A run with several modules checks them side by side: its behaviours are
behaviours of each module in turn. The modules with the theorems therefore extend the `MC`
modules, and `PagesSideBySide`, `CallsSideBySide`, `QuotasSideBySide`, `SharedSideBySide`
and `OfficeSideBySide` say that a behaviour of the composed specification is one of every
component; whatever is proved of a component holds there. With them the types of all
variables of these runs, `MCTypeOK`, are theorems: `PagesTyped` (with `ChoiceTypesHold`,
`ServicesTyped`, `PushTyped`, `BookingsTyped`, `NoticesTyped`, `ArchivesTyped`,
`PlansTyped`), `CallsTyped`, `QuotasTyped` (for the limiter, `LimiterTypeCorrect`),
`SharedTyped`, `OfficeTyped`.

The assumptions are those the modules state of their constants: `BookingsAssumption`,
`LimiterAssumption` (the short gap is not longer than the long one),
`ThrottleAssumption` (the retention is at least a window), `CallsAssumption`,
`HookahAssumption` (promised times are not zero), `SyrveAssumption` (a bill stands on
tables of one register), `ControlAssumption` and `StaffAssumption` (names differ, a
director has at least one guess), `LocksAssumption` and `NoJobAssumption` (tables are
numbers, there are finitely many tables and requests, and the names for nothing are
names of nothing), `BotAssumption` (nobody is no person), `DraftsAssumption` (bounds are
numbers), `RestaurantAssumption` and `FormsAssumption` (finitely many runs; forms carry
neither the status nor the marks), `ChoiceAssumption`, `ServicesAssumption`,
`NoticesAssumption`, `ArchivesAssumption` and `PlannerAssumption` (numbers are numbers,
a page is not empty), `PushAssumption` and `TokensAssumption` (a cap is not zero). TLC
evaluates them on every run.

**Only model-checked.** Liveness under fairness is out of the prover's reach:
`PastBookingsEnd`, `ObservationResumes`. Every other property of a passing run is a
theorem. What recursive definitions compute for every input is an induction over data,
whose theorems take an operator as a parameter, which the provers cannot instantiate; so
that `filter` as `Selection` states it is `SelectSeq` is only evaluated, for short
sequences. No module here declares a `RECURSIVE` operator, which the provers do not
support.

## Disagreements found

1. **A rescheduled booking may share a table with a banquet** (`banquet_reschedule`).
   `booking-reschedule-approval.service.ts:106` looks for conflicts by
   `bookings.table_id` alone; a test expects the checks of tables to include those
   held by an assignment. Creation, approval, arrival and all transfers do.
2. **A guest's cancellation frees a table of a banquet** (`guest_cancel_frees`).
   `guest-bookings.service.ts:428` recomputes the status of the table without the
   assignments; the other handlers, and a test of the old table of a transfer,
   leave it reserved.
3. **A waiter transfer may carry a call along** (`waiter_transfer_call`). The calls are
   closed by a promise that `waiterTransfer` (`bookings.service.ts:1631`) starts and
   does not await: if the process stops, or if the guests are seated first, the call
   of before is still active at the new table and names the waiter of before. The
   comment of the method says that a booking is moved "without carrying its check-in
   or waiter assignment state".

## Known behaviour

What the models show of the code, that no property calls wrong, or that a property
excepts by name.

*Locks* (`BookingLocks`).
- `rejectTableChange` (`admin-attention.service.ts:223`) saves a booking it read before
  its transaction had the row. A booking that was closed meanwhile is active again, and one
  that was moved is back at its former table: `PutsBack` and `overwritten` are the
  exceptions in `Bookings`, `StaleSave` in `PlacedAtomically` and `SavedLate` in
  `ClosedStaysClosed`.
- `approveTableChange` takes no slot lock, so an unavailability may be planned over
  it; a request that meets a stale rejection shares its table (`Crossed`).
- The approval of another time locks a second slot after the booking's row when the
  booking has moved (`coordinated-bookings.provider.ts:99`), against the order of all
  others: a hang that PostgreSQL does not see (`MovedMeanwhile`, an exception in
  `HangsAreKnown`).
- Each handler with locks holds one connection and needs another. The comment of
  `booking-arrival-lock.service.ts:8` is about this; with as many such requests as
  connections all wait (`HangsAreKnown` names it).

*Bookings.* Planned unavailabilities of the same target may overlap
(`availability-blocks.service.ts:80`, whose comparison of targets never holds). `reject` and `cancel` (`bookings.service.ts:1431`, `1446`) do not look at the
status they leave. Visits that run past midnight are not compared with those of the next
day (line 276). A transfer out of a planned unavailability leaves the table of guests who
sit occupied (`availability-blocks.service.ts:395`). An exception about one late booking
ends the run of the minute for the others (`schedules.service.ts:199`).

*Restaurant.* `adminOpenBooking` racing the director's closing can open it again
(`restaurant.service.ts:230`), and a late save of an administrator's settings can give
back withdrawn rights: the row has no version. The texts of the reminders say 22:00 and
23:00 whatever the settings are.

*Syrve.* A bill that is read while the register of its table does not answer is stored
as unknown with another fingerprint than the real one; reading the same version again
counts as a contradiction, so the bill stays unresolved until it gets a newer version
(`Stuck`, the exception in `UpToDateSettles`; `syrve-state.store.ts:233`). A pause that
cannot be recorded binds only the process that was told (`syrve-client.ts:215`).

*Staff.* The rights of the requesting administrator are checked against an earlier read
(`staff.controller.ts:296`). `startShift` racing an archiving or a block leaves a shift of
an account that may not work. Two processes that start together on an empty database may
both create a first director (`staff-bootstrap.service.ts:82`).

*Calls and the bot.* Calls of hookahs outlive a closed booking until they expire
(`hookah-calls.service.ts:231`). Of two waiters who check the same guests in, the later
one is assigned; a stale "cleaning" is not refused. A broadcast confirmed through two
handlers at once is delivered twice (`broadcasts.send`). The wizard looks a table up and
keeps the answer while other messages change its draft.

*The guest's pages.* The interval of 15 seconds in `GuestApp` captures the first render's
functions. The form of a map from before the migration names a table by number, and the
server falls back to it, or creates a table. A recovered booking without a token, or one
filtered out of the list, keeps its old status on the screen. `zones.service` reads and
saves without a lock. The older call buttons take any answer, so a call just made may
vanish until the next poll (`CallStaysShown` is about the list of bookings). An
acknowledgement by token acknowledges whatever notice is current. Notices of a changed
booking and decisions on bookings still pending are never shown. Closing the prompt for a
review dismisses the candidate of the latest list anybody fetched. The fingerprint of a
subscription has no keys. `GuestBookingDecisionController` drops no late list, and an
acknowledgement that completes takes off whatever notice is shown. The rejection of a table
change after an automatic no-show replaces the notice of the latter.

*The screens of the staff.* The planner keeps the date it was opened on: after midnight
an open screen lets statuses be changed under yesterday's date. A fetch that hangs stops
the polls until somebody asks. A change confirmed after another time was picked is
announced but not in the plan before the next poll. `AdminAttentionPanel`,
`CompactAdminPanel` and `PremiumDirectorPanel` drop no late answer; drafts of rights and of
the menu are overwritten by a load in flight; the settings form of `AdminPanel` is loaded
once and sent whole. `HookahApp` keeps its set of known calls over a logout; in
`WaiterAppV2` a load of an earlier session that fails late logs the next waiter out; the
melody of `WaiterCallAlertController` may sound once after it was switched off. Answering
a review saves a row read earlier, so a review archived and deleted meanwhile is
inserted again; after a lost answer, or when another session moves records, "show more" may
skip a record (`unsure` in `DirectorArchives`).

## Plan

The first three parts of the plan are done: the modules above, each with its runs; the
locks as steps, shown to implement the atomic slots; and the proofs of the safety
properties and of the types. What is left:

- the stricter policy of an activation and batches of more than one callback in
  `SyrveTables`.

## What is not modelled

Notifications, broadcasts, analytics, clients and developer pages deliver messages or keep
plain records; they have no protocol of their own. Signatures of tokens and roles
decide who may call a handler: the models let everyone call everything that some role
may. The parsing of Syrve's answers and the wording of messages are input. Of `Bookings`,
the number of seats, the blacklist and the switch for online bookings are left out
because they only refuse more; deposits, reviews and statistics because nothing reads
them back. Of the schema, running the migrations. Of the staff's screens, those that send
single requests: the requests are what the handlers' models take. The scripts are smoke
tests and build steps.
