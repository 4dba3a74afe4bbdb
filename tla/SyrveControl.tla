---------------------------- MODULE SyrveControl ----------------------------
(***************************************************************************)
(* Who may speak to the cash registers, and on whose word: the settings of *)
(* the Syrve connection and their revision (syrve-settings.store.ts,       *)
(* syrve-integration.service.ts), the consent to automatic statuses        *)
(* (syrve-activation.*.ts), the explicit loading of tables                 *)
(* (syrve-table-loading.*.ts), the background worker of every process      *)
(* (syrve-worker.*.ts) and the asynchronous operations of the director     *)
(* (syrve-operations.service.ts).                                          *)
(*                                                                         *)
(* All of them are separated by one row, the lease of syrve_worker_state.  *)
(* A holder asks the database whether it may go on (Permitted) and then    *)
(* sends, so everything can change in between; a command may go on at the  *)
(* register after its sender has stopped, timed out or lost the answer.    *)
(*                                                                         *)
(* A lease lasts 90 seconds and is renewed every 15; a renewal that fails  *)
(* aborts its holder.  The model therefore lets a lease run out only when  *)
(* its holder no longer renews it, and needs no clock.  The random token   *)
(* of a lease is the name of its holder here: a holder that starts anew    *)
(* has lost its old token, and the row keeps the old one until it runs out.*)
(* What is read from the registers and applied is in SyrveTables.          *)
(***************************************************************************)
EXTENDS Naturals, FiniteSets

CONSTANTS
    Runner,       \* the runner of every process
    Operation,    \* for every director the operation he has started
    NoHolder,
    MaxRevision   \* bound: settings saved

ASSUME ControlAssumption ==
    /\ Runner \cap Operation = {} /\ NoHolder \notin Runner \cup Operation
    /\ MaxRevision \in Nat \ {0}

Holder == Runner \cup Operation
Revision == 1..MaxRevision
Numbering == {"as_shown", "renumbered"}  \* the numbers of the linked tables

VARIABLES
    settings,    \* syrve_integrations and syrve_table_links
    numbers,     \* tables.table_number of the linked tables
    activation,  \* syrve_sync_activation
    lease,       \* syrve_worker_state
    holders,     \* the cycles of the workers, the operations of directors
    commands,    \* commands that may run at the registers, by the lease they were
                 \* sent under, until it runs out
    proof,       \* the newest confirmation that was issued to a director
    spent        \* history: revisions whose confirmation has been used

controlVars == <<settings, numbers, activation, lease, holders, commands, proof, spent>>

-----------------------------------------------------------------------------
(* Data *)

Settings == [revision : Revision, links : BOOLEAN,
             status : {"connected", "error", "not_connected"}]
Activation == [on : BOOLEAN, revision : Revision, numbers : Numbering,
               shown : Numbering] \* shown: what the director confirmed
LeaseRow == [holder : Holder \cup {NoHolder}, revision : Revision, live : BOOLEAN]

\* same: savedSyrveFingerprint has not changed since it was taken.
Proof == [task : {"load", "enable"}, shown : Numbering, same : BOOLEAN]

Stages == {"idle", "checking", "leased", "allowed", "sent", "answered", "read", "ending"}
Cycle == [at : Stages, task : {"observe", "load", "enable"}, revision : Revision,
          shown : Numbering, same : BOOLEAN, unresolved : BOOLEAN, running : BOOLEAN]

Idle(h) == [at |-> "idle", task |-> IF h \in Runner THEN "observe" ELSE "load",
            revision |-> 1, shown |-> "as_shown", same |-> FALSE,
            unresolved |-> FALSE, running |-> FALSE]

ControlInit ==
    /\ settings = [revision |-> 1, links |-> TRUE, status |-> "connected"]
    /\ numbers = "as_shown"
    /\ activation = [on |-> FALSE, revision |-> 1, numbers |-> "as_shown", shown |-> "as_shown"]
    /\ lease = [holder |-> NoHolder, revision |-> 1, live |-> FALSE]
    /\ holders = [h \in Holder |-> Idle(h)]
    /\ commands = {}
    /\ proof = [task |-> "load", shown |-> "as_shown", same |-> FALSE]
    /\ spent = {}

\* The consent holds for these settings, links and numbers only.
Enabled == /\ activation.on
           /\ activation.revision = settings.revision
           /\ settings.status /= "not_connected"
           /\ settings.links
           /\ activation.numbers = numbers

Loadable == settings.status = "connected" /\ settings.links

BusyByToken == lease.holder /= NoHolder
Busy == lease.live

\* A holder that renews its lease.
Beating(h) == holders[h].at \in {"leased", "allowed", "sent", "answered", "read"}

Changed(hs) == [h \in Holder |-> [hs[h] EXCEPT !.same = FALSE]]
Void(p) == [p EXCEPT !.same = FALSE]

\* A write that every fingerprint taken earlier notices.
FingerprintsChange == holders' = Changed(holders) /\ proof' = Void(proof)

Saved(s) == [s EXCEPT !.revision = @ + 1]

-----------------------------------------------------------------------------
(* The director changes the connection; staff change the tables *)

CanSave == settings.revision < MaxRevision

\* connect, with or without new links
Connect ==
    /\ CanSave /\ ~Enabled
    /\ \E l \in {settings.links, TRUE} :
          settings' = [Saved(settings) EXCEPT !.status = "connected", !.links = l]
    /\ FingerprintsChange
    /\ UNCHANGED <<numbers, activation, lease, commands, spent>>

\* recheck, which needs the login that disconnect forgets, and changes the status; and
\* updateMetadata, which saves the settings whatever their status is.
Recheck ==
    /\ CanSave /\ ~Enabled
    /\ \E s \in {settings.status, "connected", "error"} :
          /\ settings.status = "not_connected" => s = settings.status
          /\ settings' = [Saved(settings) EXCEPT !.status = s]
    /\ FingerprintsChange
    /\ UNCHANGED <<numbers, activation, lease, commands, spent>>

\* disconnect: the consent dies with its revision.
Disconnect ==
    /\ CanSave
    /\ settings' = [Saved(settings) EXCEPT !.status = "not_connected"]
    /\ FingerprintsChange
    /\ UNCHANGED <<numbers, activation, lease, commands, spent>>

MayResetAnyTime == ~Enabled /\ settings.links
MayReset == ~Enabled /\ settings.links /\ ~Busy

ResetBindings ==
    /\ CanSave /\ MayReset
    /\ settings' = [Saved(settings) EXCEPT !.status = "not_connected", !.links = FALSE]
    /\ activation' = [activation EXCEPT !.on = FALSE, !.revision = settings'.revision]
    /\ FingerprintsChange
    /\ UNCHANGED <<numbers, lease, commands, spent>>

\* The lease outlives the consent.
NoLease == [lease EXCEPT !.holder = NoHolder, !.live = FALSE]
LeaseRevoked == NoLease
LeaseAfterDisable == lease

Disable ==
    /\ CanSave
    /\ settings' = Saved(settings)
    /\ activation' = [activation EXCEPT !.on = FALSE, !.revision = settings'.revision]
    /\ lease' = LeaseAfterDisable
    /\ FingerprintsChange
    /\ UNCHANGED <<numbers, commands, spent>>

Renumber ==
    /\ numbers' \in Numbering \ {numbers}
    /\ FingerprintsChange
    /\ UNCHANGED <<settings, activation, lease, commands, spent>>

\* A status of a linked table, by staff, bookings or callbacks.
StatusWritten ==
    /\ FingerprintsChange
    /\ UNCHANGED <<settings, numbers, activation, lease, commands, spent>>

-----------------------------------------------------------------------------
(* Operations of directors: start, preview, load, enable *)

\* One running operation of an owner: the unique index of syrve_operations.
NotRunning(o) == ~holders[o].running

\* What the director sees is signed.
IssueProof(task) ==
    /\ \E o \in Operation : NotRunning(o)
    /\ Loadable
    /\ proof' = [task |-> task, shown |-> numbers, same |-> TRUE]
    /\ UNCHANGED <<settings, numbers, activation, lease, holders, commands, spent>>

PreviewLoading == IssueProof("load")
PreviewActivation == ~Enabled /\ IssueProof("enable")

\* load or enable: the confirmation is still good, and the registers are read.
Checked(o) ==
    /\ NotRunning(o) /\ Loadable
    /\ proof.same
    /\ holders' = [holders EXCEPT ![o] = [@ EXCEPT
           !.at = "checking", !.task = proof.task, !.shown = proof.shown,
           !.revision = settings.revision, !.same = TRUE, !.running = TRUE]]
    /\ UNCHANGED <<settings, numbers, activation, lease, commands, proof, spent>>

Leased(h, rev) == [holders[h] EXCEPT !.at = "leased", !.revision = rev]
LeaseOf(h, rev) == [holder |-> h, revision |-> rev, live |-> TRUE]

ConfirmLoading(o) == proof.task = "load" /\ Checked(o)
ConfirmActivation(o) == proof.task = "enable" /\ ~Enabled /\ Checked(o)

\* Saving the settings consumes every confirmation of the old revision.
NotConsumed(s) == s
Consumed(s) == Saved(s)

TakeLease(o) ==
    LET next == Consumed(settings)
    IN /\ holders[o].at = "checking"
       /\ CanSave /\ ~Enabled /\ Loadable /\ holders[o].same /\ ~Busy
       /\ settings' = next
       /\ lease' = LeaseOf(o, next.revision)
       /\ holders' = [Changed(holders) EXCEPT
                         ![o] = [Leased(o, next.revision) EXCEPT !.same = TRUE]]
       /\ proof' = [proof EXCEPT !.same = @ /\ next = settings]
       /\ spent' = spent \cup {settings.revision}
       /\ UNCHANGED <<numbers, activation, commands>>

\* The row of an operation whose process stopped is closed by the next request.
Lapse(o) ==
    /\ holders[o].at = "idle" /\ holders[o].running
    /\ holders' = [holders EXCEPT ![o] = Idle(o)]
    /\ UNCHANGED <<settings, numbers, activation, lease, commands, proof, spent>>

\* The credentials of a director are replaced: no confirmation or operation of
\* the old ones is accepted any more.
RotateDirector(o) ==
    /\ proof' \in {proof, Void(proof)}
    /\ holders' = [holders EXCEPT ![o].same = @ /\ ~holders[o].running]
    /\ UNCHANGED <<settings, numbers, activation, lease, commands, spent>>

-----------------------------------------------------------------------------
(* The worker: tick, run, claim *)

Claim(w) ==
    /\ holders[w].at = "idle"
    /\ Enabled /\ Loadable /\ ~Busy
    /\ lease' = LeaseOf(w, settings.revision)
    /\ holders' = [holders EXCEPT ![w] = Leased(w, settings.revision)]
    /\ UNCHANGED <<settings, numbers, activation, commands, proof, spent>>

-----------------------------------------------------------------------------
(* Commands under a lease *)

Holds(h) == lease = LeaseOf(h, holders[h].revision)

MayObserve(w) == /\ Holds(w)
                 /\ Enabled /\ Loadable
                 /\ settings.revision = holders[w].revision
MayOperate(o) == Holds(o) /\ holders[o].same
Permitted(h) == IF h \in Runner THEN MayObserve(h) ELSE MayOperate(h)

Move(h, stage) == holders' = [holders EXCEPT ![h].at = stage]

\* beforeRequest and beforeCommand
Ask(h) ==
    /\ holders[h].at = "leased"
    /\ Move(h, IF Permitted(h) THEN "allowed" ELSE "ending")
    /\ UNCHANGED <<settings, numbers, activation, lease, commands, proof, spent>>

\* init_by_table leaves the process: commandStarted.  (posBillDiagnostics, by which a
\* director looks at one bill, has a register load it without any lease; that command
\* is not among these.)
Send(h) ==
    /\ holders[h].at = "allowed"
    /\ holders' = [holders EXCEPT ![h].at = "sent", ![h].unresolved = TRUE]
    /\ commands' = commands \cup {h}
    /\ UNCHANGED <<settings, numbers, activation, lease, proof, spent>>

Answer(h) ==
    /\ holders[h].at = "sent" /\ h \in commands
    /\ commands' = commands \ {h}
    /\ Move(h, "answered")
    /\ UNCHANGED <<settings, numbers, activation, lease, proof, spent>>

\* The register finishes, but the answer is lost or comes too late.
FinishUnheard(h) ==
    /\ h \in commands
    /\ commands' = commands \ {h}
    /\ UNCHANGED <<settings, numbers, activation, lease, holders, proof, spent>>

\* Only a command that is confirmed under the same lease is resolved; then the
\* next group is loaded, or the bills are read.
Resolve(h) ==
    /\ holders[h].at = "answered"
    /\ IF Permitted(h)
         THEN \E next \in {"leased", "read"} :
                 holders' = [holders EXCEPT ![h].at = next, ![h].unresolved = FALSE]
         ELSE Move(h, "ending")
    /\ UNCHANGED <<settings, numbers, activation, lease, commands, proof, spent>>

\* apply: the tables of the worker are written, or the settings have moved on.
ApplyObservation(w) ==
    /\ holders[w].at = "read"
    /\ IF MayObserve(w)
         THEN holders' = [Changed(holders) EXCEPT ![w].at = "ending"] /\ proof' = Void(proof)
         ELSE Move(w, "ending") /\ UNCHANGED proof
    /\ UNCHANGED <<settings, numbers, activation, lease, commands, spent>>

SameRevision(o) == settings.revision = holders[o].revision
Unchanged(o) == holders[o].same

\* load: everything was read again under the lease.
Loaded(o) ==
    /\ holders[o].at = "read" /\ holders[o].task = "load"
    /\ MayOperate(o)
    /\ lease' = NoLease
    /\ holders' = [holders EXCEPT ![o] = Idle(o)]
    /\ UNCHANGED <<settings, numbers, activation, commands, proof, spent>>

\* activation.enable, with or without a first observation; its release may fail.
Enable(o) ==
    /\ holders[o].at = "read" /\ holders[o].task = "enable"
    /\ Holds(o) /\ settings.revision = holders[o].revision /\ Unchanged(o)
    /\ activation' = [on |-> TRUE, revision |-> settings.revision, numbers |-> numbers,
                      shown |-> holders[o].shown]
    /\ lease' \in {NoLease, lease}
    /\ holders' = [Changed(holders) EXCEPT ![o] = Idle(o)]
    /\ proof' = Void(proof)
    /\ UNCHANGED <<settings, numbers, commands, spent>>

-----------------------------------------------------------------------------
(* Ends: refusals, timeouts, failed renewals, shutdown, a crash *)

Abort(h) ==
    /\ holders[h].at \notin {"idle", "ending"}
    /\ Move(h, "ending")
    /\ UNCHANGED <<settings, numbers, activation, lease, commands, proof, spent>>

\* An operation that failed keeps its lease; a worker keeps it for a command
\* that may still run.
ReleasedAlways(h) == IF h \in Runner /\ lease.holder = h THEN NoLease ELSE lease
Released(h) == IF h \in Runner /\ ~holders[h].unresolved /\ lease.holder = h
                 THEN NoLease ELSE lease

End(h) ==
    /\ holders[h].at = "ending"
    /\ lease' = Released(h)
    /\ holders' = [holders EXCEPT ![h] = Idle(h)]
    /\ UNCHANGED <<settings, numbers, activation, commands, proof, spent>>

\* The process stops at once.  The row of an operation still says "running".
Crash(h) ==
    /\ holders[h].at /= "idle"
    /\ holders' = [holders EXCEPT ![h] = [Idle(h) EXCEPT !.running = h \in Operation]]
    /\ UNCHANGED <<settings, numbers, activation, lease, commands, proof, spent>>

\* 90 seconds without a renewal.
Expire ==
    /\ lease.live
    /\ \A h \in Holder : lease.holder = h => ~Beating(h)
    /\ lease' = [lease EXCEPT !.live = FALSE]
    /\ commands' = commands \ {lease.holder}
    /\ UNCHANGED <<settings, numbers, activation, holders, proof, spent>>

-----------------------------------------------------------------------------
ConnectionChanges == Connect \/ Recheck \/ Disconnect \/ ResetBindings \/ Disable
Staff == Renumber \/ StatusWritten
Work(h) == Ask(h) \/ Send(h) \/ Answer(h) \/ Resolve(h) \/ Abort(h) \/ End(h) \/ Crash(h)

ControlNext ==
    \/ ConnectionChanges
    \/ Staff
    \/ PreviewLoading \/ PreviewActivation
    \/ \E o \in Operation : \/ ConfirmLoading(o) \/ ConfirmActivation(o)
                            \/ TakeLease(o) \/ Loaded(o) \/ Enable(o) \/ Lapse(o)
                            \/ RotateDirector(o)
    \/ \E w \in Runner : Claim(w) \/ ApplyObservation(w)
    \/ \E h \in Holder : Work(h)
    \/ \E h \in Holder : FinishUnheard(h)
    \/ Expire

\* Every cycle has a deadline, the timer of every process ticks, and time
\* passes over a lease that nobody renews.
ControlFairness ==
    /\ WF_controlVars(Expire)
    /\ \A h \in Holder : WF_controlVars(Abort(h)) /\ WF_controlVars(End(h))
    /\ WF_controlVars(\E w \in Runner : Claim(w))

ControlSpec == ControlInit /\ [][ControlNext]_controlVars /\ ControlFairness

ControlTypeOK ==
    /\ settings \in Settings
    /\ numbers \in Numbering
    /\ activation \in Activation
    /\ lease \in LeaseRow
    /\ holders \in [Holder -> Cycle]
    /\ commands \subseteq Holder
    /\ proof \in Proof
    /\ spent \subseteq Revision

-----------------------------------------------------------------------------
(* Properties *)

\* While a command that was sent under a lease may still run at a register, nobody
\* else can get a lease to send another, until the lease of the command has run out:
\* not when the consent is withdrawn, the connection is changed, the sender fails or
\* stops (finally of cycle; claim of both stores; disable).
CommandsExclude == \A h \in commands : lease.holder = h /\ lease.live

\* No link is deleted under a holder that reads the bills of its tables
\* (resetBindings against claim).
LinksOutliveLeases == lease.live => settings.links

\* The registers decide about tables only under the numbers that the director
\* was shown, whatever was renumbered while he confirmed and while the tables
\* were loaded; and one confirmation takes a lease once, also when the
\* operation it started has failed or stopped (claim, enable, read).
ConsentIsForWhatWasShown == Enabled => numbers = activation.shown
ConfirmedOnce == proof.same => settings.revision \notin spent

\* Whoever may still speak to the registers holds the lease: nobody else sends
\* commands meanwhile, and the table links stay until the lease is over.  What the
\* director confirms is what was shown, and is done once.
CommandsAreSafe ==
    /\ CommandsExclude /\ LinksOutliveLeases
    /\ ConsentIsForWhatWasShown /\ ConfirmedOnce

\* If automatic statuses stay on, then a worker reads the registers again and
\* again: no lease of a failed or stopped holder blocks them for good.
ObservationResumes ==
    <>[]Enabled => []<>(\E w \in Runner : holders[w].at = "leased")
=============================================================================
