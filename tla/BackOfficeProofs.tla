-------------------------- MODULE BackOfficeProofs --------------------------
(***************************************************************************)
(* Theorems about SyrveControl and StaffAccounts, for any number of        *)
(* processes, operations, accounts and requests, and any limits; those     *)
(* about the bills of the registers are in SyrveTablesProofs.              *)
(***************************************************************************)
EXTENDS MCBackOffice, SyrveTablesProofs, FiniteSetTheorems, TLAPS

-----------------------------------------------------------------------------
(* The right to speak to the registers *)

\* A holder that goes on has the lease: it cannot run out while it is renewed.
HoldersHold == \A h \in Holder : Beating(h) => lease.holder = h /\ lease.live

\* A command that may still run was not answered, and a worker knows of it
\* unless it has started anew.
CommandsAreKnown ==
    \A h \in commands :
        /\ holders[h].at \notin {"leased", "allowed", "answered", "read"}
        /\ h \in Runner => holders[h].at = "idle" \/ holders[h].unresolved

\* Only operations of directors read the registers before they have a lease.
WorkersLeaseFirst == \A w \in Runner : holders[w].at /= "checking"

\* A fingerprint that still matches is of the numbers there are now.
ShownIsCurrent ==
    /\ \A h \in Holder : holders[h].same => holders[h].shown = numbers
    /\ proof.same => proof.shown = numbers
    /\ activation.on => activation.numbers = activation.shown

SpentIsPast == \A r \in spent : r < settings.revision

ControlInv ==
    /\ ControlTypeOK
    /\ CommandsExclude /\ HoldersHold /\ CommandsAreKnown /\ WorkersLeaseFirst
    /\ LinksOutliveLeases
    /\ ShownIsCurrent
    /\ ConfirmedOnce /\ SpentIsPast

-----------------------------------------------------------------------------
LEMMA CycleTypes ==
  /\ \A h \in Holder : Idle(h) \in Cycle
  /\ 1 \in Revision /\ Revision \subseteq Nat
  /\ \A r \in Revision : r < MaxRevision => r + 1 \in Revision
BY ControlAssumption DEF Idle, Cycle, Stages, Revision, Numbering

LEMMA ControlInitially == ControlInit => ControlInv
<1> SUFFICES ASSUME ControlInit PROVE ControlInv
  OBVIOUS
<1>1. ControlTypeOK
  <2>1. settings \in Settings /\ numbers \in Numbering /\ lease \in LeaseRow
    BY CycleTypes DEF ControlInit, Settings, Numbering, LeaseRow
  <2>2. activation \in Activation /\ proof \in Proof
    BY CycleTypes DEF ControlInit, Activation, Proof, Numbering
  <2>3. holders \in [Holder -> Cycle] /\ commands \subseteq Holder /\ spent \subseteq Revision
    BY CycleTypes DEF ControlInit
  <2> QED BY <2>1, <2>2, <2>3 DEF ControlTypeOK
<1>2. \A h \in Holder : holders[h].at = "idle" /\ ~holders[h].same
  BY DEF ControlInit, Idle
<1>3. ~lease.live /\ commands = {} /\ spent = {} /\ ~proof.same /\ ~activation.on
  BY DEF ControlInit
<1> QED BY <1>1, <1>2, <1>3
       DEF ControlInv, CommandsExclude, HoldersHold, Beating, CommandsAreKnown, WorkersLeaseFirst,
           LinksOutliveLeases, ShownIsCurrent, ConfirmedOnce, SpentIsPast, Holder

\* Fingerprints no longer match, and nothing else of the holders changes.
LEMMA ChangedHolders ==
  ASSUME ControlTypeOK
  PROVE  /\ Changed(holders) \in [Holder -> Cycle]
         /\ \A h \in Holder :
              /\ Changed(holders)[h].at = holders[h].at
              /\ Changed(holders)[h].unresolved = holders[h].unresolved
              /\ Changed(holders)[h].shown = holders[h].shown
              /\ ~Changed(holders)[h].same
BY ZenonT(40) DEF ControlTypeOK, Changed, Cycle

\* The director and the staff change what holders have read, not the holders.
LEMMA OutsideStep ==
  ASSUME ControlInv, ConnectionChanges \/ Staff
  PROVE  ControlInv'
<1>0. /\ ControlTypeOK /\ settings \in Settings /\ proof \in Proof /\ activation \in Activation
      /\ lease \in LeaseRow
  BY DEF ControlInv, ControlTypeOK
<1>1. /\ holders' = Changed(holders)
      /\ proof' = [proof EXCEPT !.same = FALSE] /\ proof' \in Proof /\ ~proof'.same
      /\ UNCHANGED <<lease, commands, spent>>
  BY <1>0 DEF ConnectionChanges, Staff, Connect, Recheck, Disconnect, ResetBindings, Disable,
              Renumber, StatusWritten, FingerprintsChange, Void, LeaseAfterDisable, Proof
<1>2. settings' \in Settings /\ settings.revision <= settings'.revision
  <2>1. CanSave => Saved(settings) \in Settings /\ Saved(settings).revision = settings.revision + 1
    BY <1>0, CycleTypes DEF CanSave, Saved, Settings
  <2>2. ~UNCHANGED settings => CanSave /\ settings'.revision = Saved(settings).revision
                                        /\ settings' \in Settings
    BY <1>0, <2>1 DEF ConnectionChanges, Staff, Connect, Recheck, Disconnect, ResetBindings,
                      Disable, Renumber, StatusWritten, Settings
  <2>3. settings.revision \in Nat
    BY <1>0, CycleTypes DEF Settings
  <2> QED BY <1>0, <2>1, <2>2, <2>3
<1>2a. numbers' \in Numbering /\ activation' \in Activation
  BY <1>0, <1>2 DEF ConnectionChanges, Staff, Connect, Recheck, Disconnect, ResetBindings, Disable,
              Renumber, StatusWritten, Activation, Settings, ControlTypeOK
<1>3. /\ lease.live => settings'.links
      /\ activation'.on => activation'.numbers = activation'.shown
  BY <1>0 DEF ControlInv, LinksOutliveLeases, ShownIsCurrent,
              ConnectionChanges, Staff, Connect, Recheck, Disconnect, ResetBindings, Disable,
              Renumber, StatusWritten, Saved, MayReset, Busy, Settings, Activation
<1>4. ControlTypeOK'
  BY <1>0, <1>1, <1>2, <1>2a, ChangedHolders DEF ControlTypeOK
<1>5. CommandsExclude' /\ HoldersHold' /\ CommandsAreKnown' /\ WorkersLeaseFirst'
  BY <1>0, <1>1, ChangedHolders
     DEF ControlInv, ControlTypeOK, CommandsExclude, HoldersHold, Beating, CommandsAreKnown,
         WorkersLeaseFirst, Holder
<1>6. LinksOutliveLeases' /\ ShownIsCurrent' /\ ConfirmedOnce'
  BY <1>0, <1>1, <1>3, ChangedHolders DEF LinksOutliveLeases, ShownIsCurrent, ConfirmedOnce
<1>7. SpentIsPast'
  BY <1>0, <1>1, <1>2, CycleTypes DEF ControlInv, SpentIsPast, Settings, ControlTypeOK
<1> QED BY <1>4, <1>5, <1>6, <1>7 DEF ControlInv

\* One holder goes on, under the lease as it is.
LEMMA HolderStep ==
  ASSUME ControlInv, NEW h \in Holder, NEW c \in Cycle,
         holders' = [holders EXCEPT ![h] = c],
         UNCHANGED <<settings, numbers, activation, lease, proof, spent>>,
         c.same => c.shown = numbers,
         c.at \in {"leased", "allowed", "sent", "answered", "read"}
           => lease.holder = h /\ lease.live,
         h \in Runner => c.at /= "checking",
         commands' \subseteq commands \cup {h},
         h \in commands' =>
           /\ lease.holder = h /\ lease.live
           /\ c.at \notin {"leased", "allowed", "answered", "read"}
           /\ h \in Runner => c.at = "idle" \/ c.unresolved
  PROVE  ControlInv'
<1>0. /\ ControlTypeOK /\ holders'[h] = c
      /\ \A g \in Holder \ {h} : holders'[g] = holders[g]
  BY DEF ControlInv, ControlTypeOK
<1>1. ControlTypeOK'
  BY <1>0 DEF ControlTypeOK
<1>2. CommandsExclude' /\ HoldersHold'
  BY <1>0 DEF ControlInv, CommandsExclude, HoldersHold, Beating
<1>3. CommandsAreKnown' /\ WorkersLeaseFirst'
  BY <1>0 DEF ControlInv, CommandsAreKnown, WorkersLeaseFirst, Holder, ControlTypeOK
<1>4. LinksOutliveLeases' /\ ConfirmedOnce' /\ SpentIsPast'
  BY DEF ControlInv, LinksOutliveLeases, ConfirmedOnce, SpentIsPast
<1>5. ShownIsCurrent'
  BY <1>0 DEF ControlInv, ShownIsCurrent
<1> QED BY <1>1, <1>2, <1>3, <1>4, <1>5 DEF ControlInv

\* A holder takes the free lease: nobody goes on and no command runs then.
LEMMA LeaseStep ==
  ASSUME ControlInv, NEW h \in Holder, NEW c \in Cycle, NEW rev \in Revision, ~Busy,
         holders' \in [Holder -> Cycle], holders'[h] = c,
         \A g \in Holder \ {h} :
            /\ holders'[g].at = holders[g].at
            /\ holders'[g].shown = holders[g].shown
            /\ holders'[g].same => holders[g].same,
         c.at = "leased", c.same => holders[h].same, c.shown = holders[h].shown,
         lease' = LeaseOf(h, rev),
         settings'.links,
         settings' \in Settings, proof' \in Proof, spent' \subseteq Revision,
         proof'.same => proof.same, proof'.shown = proof.shown,
         ConfirmedOnce', SpentIsPast',
         UNCHANGED <<numbers, activation, commands>>
  PROVE  ControlInv'
<1>0. ControlTypeOK /\ commands = {} /\ \A g \in Holder : ~Beating(g)
  BY DEF ControlInv, CommandsExclude, HoldersHold, Busy
<1>1. ControlTypeOK'
  BY <1>0 DEF ControlTypeOK, LeaseOf, LeaseRow
<1>2. CommandsExclude' /\ CommandsAreKnown' /\ LinksOutliveLeases'
  BY <1>0 DEF CommandsExclude, CommandsAreKnown, LinksOutliveLeases
<1>3. HoldersHold' /\ WorkersLeaseFirst'
  BY <1>0 DEF ControlInv, HoldersHold, Beating, LeaseOf, WorkersLeaseFirst, Holder
<1>4. ShownIsCurrent'
  BY DEF ControlInv, ShownIsCurrent
<1> QED BY <1>1, <1>2, <1>3, <1>4 DEF ControlInv

\* A holder that is between commands has the lease, and no command runs.
LEMMA Alone ==
  ASSUME ControlInv, NEW h \in Holder,
         holders[h].at \in {"leased", "allowed", "answered", "read"}
  PROVE  /\ lease.holder = h /\ lease.live /\ commands = {}
         /\ \A g \in Holder \ {h} : ~Beating(g)
<1>1. lease.holder = h /\ lease.live /\ h \notin commands
  BY DEF ControlInv, HoldersHold, Beating, CommandsAreKnown
<1> QED BY <1>1 DEF ControlInv, CommandsExclude, HoldersHold

\* The lease is given up, runs out or is left behind when nobody goes on under
\* it and no command runs.
LEMMA ReleaseStep ==
  ASSUME ControlInv, lease' \in LeaseRow, lease'.live => lease.live, commands' = {},
         holders' \in [Holder -> Cycle], \A g \in Holder : ~Beating(g)',
         \A g \in Holder :
            /\ holders'[g].same => holders[g].same
            /\ holders'[g].shown = holders[g].shown \/ ~holders'[g].same
            /\ holders'[g].at = "checking" => holders[g].at = "checking",
         activation' \in Activation, activation'.on => activation'.numbers = activation'.shown,
         proof' \in Proof, proof'.same => proof' = proof,
         UNCHANGED <<settings, numbers, spent>>
  PROVE  ControlInv'
<1>1. ControlTypeOK'
  BY DEF ControlInv, ControlTypeOK
<1>2. CommandsExclude' /\ CommandsAreKnown' /\ LinksOutliveLeases' /\ HoldersHold'
  BY DEF ControlInv, CommandsExclude, CommandsAreKnown, LinksOutliveLeases, HoldersHold
<1>3. WorkersLeaseFirst' /\ ShownIsCurrent' /\ ConfirmedOnce' /\ SpentIsPast'
  BY DEF ControlInv, WorkersLeaseFirst, ShownIsCurrent, ConfirmedOnce, SpentIsPast, Holder
<1> QED BY <1>1, <1>2, <1>3 DEF ControlInv

\* Every step of SyrveControl is of one of these kinds.
LEMMA ControlStep ==
  ASSUME ControlInv, [ControlNext]_controlVars
  PROVE  ControlInv'
<1>0. /\ ControlTypeOK /\ settings \in Settings /\ proof \in Proof /\ activation \in Activation
      /\ lease \in LeaseRow /\ numbers \in Numbering
      /\ \A h \in Holder : holders[h] \in Cycle
  BY DEF ControlInv, ControlTypeOK
<1>0a. settings.revision \in Nat
  BY <1>0, CycleTypes DEF Settings
<1>1. CASE UNCHANGED controlVars
  BY <1>1 DEF controlVars, ControlInv, ControlTypeOK, CommandsExclude, HoldersHold, Beating,
              CommandsAreKnown, WorkersLeaseFirst, LinksOutliveLeases, ShownIsCurrent,
              ConfirmedOnce, SpentIsPast
<1>2. CASE ConnectionChanges \/ Staff
  BY <1>2, OutsideStep
<1>3. ASSUME NEW o \in Operation, RotateDirector(o) PROVE ControlInv'
  <2>1. /\ holders' \in [Holder -> Cycle]
        /\ \A h \in Holder : /\ holders'[h].at = holders[h].at
                             /\ holders'[h].unresolved = holders[h].unresolved
                             /\ holders'[h].shown = holders[h].shown
                             /\ holders'[h].same => holders[h].same
    <3> DEFINE same == holders[o].same /\ ~holders[o].running
               c == [holders[o] EXCEPT !.same = same]
    <3>1. o \in Holder /\ holders \in [Holder -> Cycle]
      BY <1>0 DEF Holder, ControlTypeOK
    <3>2. holders[o] \in Cycle /\ same \in BOOLEAN
      BY <1>0, <3>1, Zenon
    <3>3. /\ c \in Cycle /\ c.at = holders[o].at /\ c.unresolved = holders[o].unresolved
          /\ c.shown = holders[o].shown /\ c.same = same
      BY <3>2, ZenonT(40) DEF Cycle
    <3>4. holders' = [holders EXCEPT ![o] = c]
      BY <1>3, <3>1, Zenon DEF RotateDirector
    <3> HIDE DEF c
    <3>5. /\ holders' \in [Holder -> Cycle]
          /\ \A h \in Holder : holders'[h] = IF h = o THEN c ELSE holders[h]
      BY <3>1, <3>3, <3>4, Zenon
    <3> QED BY <3>3, <3>5, Zenon
  <2>2. /\ proof' \in Proof /\ proof'.shown = proof.shown
        /\ proof'.same => proof.same
    BY <1>0, <1>3 DEF RotateDirector, Void, Proof
  <2>3. UNCHANGED <<settings, numbers, activation, lease, commands, spent>>
    BY <1>3 DEF RotateDirector
  <2>4. ControlTypeOK'
    BY <1>0, <2>1, <2>2, <2>3 DEF ControlTypeOK
  <2>5. CommandsExclude' /\ HoldersHold' /\ CommandsAreKnown' /\ WorkersLeaseFirst'
    BY <1>0, <2>1, <2>3 DEF ControlInv, ControlTypeOK, CommandsExclude, HoldersHold, Beating,
                            CommandsAreKnown, WorkersLeaseFirst, Holder
  <2>6. LinksOutliveLeases' /\ ShownIsCurrent' /\ ConfirmedOnce' /\ SpentIsPast'
    BY <2>1, <2>2, <2>3 DEF ControlInv, LinksOutliveLeases, ShownIsCurrent, ConfirmedOnce,
                            SpentIsPast
  <2> QED BY <2>4, <2>5, <2>6 DEF ControlInv
\* What the director is shown carries the numbers and the revision of now.
<1>4. CASE PreviewLoading \/ PreviewActivation
  <2>1. /\ proof' \in Proof /\ proof'.shown = numbers
        /\ UNCHANGED <<settings, numbers, activation, lease, holders, commands, spent>>
    <3>1. PICK task \in {"load", "enable"} : IssueProof(task)
      BY <1>4 DEF PreviewLoading, PreviewActivation
    <3>2. [task |-> task, shown |-> numbers, same |-> TRUE] \in Proof
      BY <1>0 DEF Proof
    <3> QED BY <3>1, <3>2 DEF IssueProof
  <2>2. settings.revision \notin spent
    BY <1>0a DEF ControlInv, SpentIsPast
  <2>3. ControlTypeOK'
    BY <1>0, <2>1 DEF ControlTypeOK
  <2>4. /\ CommandsExclude' /\ HoldersHold' /\ CommandsAreKnown' /\ WorkersLeaseFirst'
        /\ LinksOutliveLeases'
    BY <2>1 DEF ControlInv, CommandsExclude, HoldersHold, Beating, CommandsAreKnown,
                WorkersLeaseFirst, LinksOutliveLeases
  <2>5. ShownIsCurrent' /\ ConfirmedOnce' /\ SpentIsPast'
    BY <2>1, <2>2 DEF ControlInv, ShownIsCurrent, ConfirmedOnce, SpentIsPast
  <2> QED BY <2>3, <2>4, <2>5 DEF ControlInv
<1>5. ASSUME NEW o \in Operation, ConfirmLoading(o) \/ ConfirmActivation(o)
      PROVE  ControlInv'
  <2> DEFINE c == [holders[o] EXCEPT
                     !.at = "checking", !.task = proof.task, !.shown = proof.shown,
                     !.revision = settings.revision, !.same = TRUE, !.running = TRUE]
  <2>1. /\ holders' = [holders EXCEPT ![o] = c] /\ proof.same
        /\ UNCHANGED <<settings, numbers, activation, lease, commands, proof, spent>>
    BY <1>5 DEF ConfirmLoading, ConfirmActivation, Checked
  <2>2. o \in Holder /\ o \notin Runner
    BY ControlAssumption DEF Holder
  <2>3. c \in Cycle /\ c.at = "checking" /\ c.shown = proof.shown
    BY <1>0, <2>2, ZenonT(40) DEF Cycle, Stages, Proof, Settings
  <2>4. c.shown = numbers
    BY <2>1, <2>3 DEF ControlInv, ShownIsCurrent
  <2>5. o \in commands => lease.holder = o /\ lease.live
    BY DEF ControlInv, CommandsExclude
  <2> HIDE DEF c
  <2> QED BY <2>1, <2>2, <2>3, <2>4, <2>5, HolderStep
<1>6. ASSUME NEW o \in Operation, TakeLease(o)
      PROVE  ControlInv'
  <2> DEFINE rev == settings.revision + 1
             c == [Leased(o, rev) EXCEPT !.same = TRUE]
  <2>1. /\ rev \in Revision /\ Saved(settings).revision = rev
        /\ Saved(settings) \in Settings /\ Saved(settings).links
    BY <1>0, <1>6, CycleTypes DEF TakeLease, CanSave, Saved, Settings, Loadable
  <2>2. /\ settings' = Saved(settings) /\ lease' = LeaseOf(o, rev) /\ ~Busy /\ holders[o].same
        /\ holders' = [Changed(holders) EXCEPT ![o] = c]
        /\ proof' = [proof EXCEPT !.same = @ /\ Saved(settings) = settings]
        /\ spent' = spent \cup {settings.revision}
        /\ UNCHANGED <<numbers, activation, commands>>
    BY <1>6, <2>1 DEF TakeLease, Consumed
  <2>3. o \in Holder /\ c \in Cycle /\ c.at = "leased" /\ c.shown = holders[o].shown
    BY <1>0, <2>1 DEF Holder, Leased, Cycle, Stages
  <2>4. Saved(settings) /= settings
    BY <1>0a, <2>1
  <2>5. proof' \in Proof /\ ~proof'.same /\ proof'.shown = proof.shown
    BY <1>0, <2>2, <2>4 DEF Proof
  <2>6. spent' \subseteq Revision /\ SpentIsPast' /\ ConfirmedOnce'
    BY <1>0, <2>1, <2>2, <2>5, CycleTypes
       DEF ControlInv, ControlTypeOK, SpentIsPast, ConfirmedOnce, Settings
  <2>7. /\ holders' \in [Holder -> Cycle] /\ holders'[o] = c
        /\ \A g \in Holder \ {o} : holders'[g] = Changed(holders)[g]
    <3> HIDE DEF c
    <3> QED BY <1>0, <2>2, <2>3, ChangedHolders
  <2> HIDE DEF rev, c
  <2>8. \A g \in Holder \ {o} :
          /\ holders'[g].at = holders[g].at
          /\ holders'[g].shown = holders[g].shown
          /\ holders'[g].same => holders[g].same
    BY <1>0, <2>7, ChangedHolders
  <2> QED BY <2>1, <2>2, <2>3, <2>5, <2>6, <2>7, <2>8, LeaseStep
<1>7. ASSUME NEW w \in Runner, Claim(w)
      PROVE  ControlInv'
  <2> DEFINE c == Leased(w, settings.revision)
  <2>1. /\ holders' = [holders EXCEPT ![w] = c] /\ ~Busy /\ settings.links
        /\ lease' = LeaseOf(w, settings.revision)
        /\ UNCHANGED <<settings, numbers, activation, commands, proof, spent>>
    BY <1>7 DEF Claim, Enabled
  <2>2. w \in Holder /\ settings.revision \in Revision
    BY <1>0 DEF Holder, Settings
  <2>3. c \in Cycle /\ c.at = "leased" /\ c.shown = holders[w].shown /\ c.same = holders[w].same
    BY <1>0, <2>2 DEF Leased, Cycle, Stages
  <2> HIDE DEF c
  <2>4. /\ holders' \in [Holder -> Cycle] /\ holders'[w] = c
        /\ \A g \in Holder \ {w} : holders'[g] = holders[g]
    BY <1>0, <2>1, <2>2, <2>3 DEF ControlTypeOK
  <2>5. ConfirmedOnce' /\ SpentIsPast' /\ spent' \subseteq Revision
    BY <1>0, <2>1 DEF ControlInv, ConfirmedOnce, SpentIsPast, ControlTypeOK
  <2> QED BY <1>0, <2>1, <2>2, <2>3, <2>4, <2>5, LeaseStep
<1>8. ASSUME NEW h \in Holder, Ask(h) \/ Resolve(h)
      PROVE  ControlInv'
  <2> DEFINE going == [holders[h] EXCEPT !.at = "allowed"]
             resolved(next) == [holders[h] EXCEPT !.at = next, !.unresolved = FALSE]
             ended == [holders[h] EXCEPT !.at = "ending"]
  <2>1. /\ UNCHANGED <<settings, numbers, activation, lease, commands, proof, spent>>
        /\ holders[h].at \in {"leased", "answered"}
        /\ \/ holders' = [holders EXCEPT ![h] = going]
           \/ \E next \in {"leased", "read"} : holders' = [holders EXCEPT ![h] = resolved(next)]
           \/ holders' = [holders EXCEPT ![h] = ended]
    BY <1>8 DEF Ask, Resolve, Move
  <2>2. /\ lease.holder = h /\ lease.live /\ h \notin commands
        /\ holders[h].same => holders[h].shown = numbers
    BY <2>1 DEF ControlInv, HoldersHold, Beating, CommandsAreKnown, ShownIsCurrent
  <2>3. PICK c \in Cycle :
          /\ holders' = [holders EXCEPT ![h] = c]
          /\ c.at \in {"allowed", "leased", "read", "ending"}
          /\ c.same = holders[h].same /\ c.shown = holders[h].shown
    <3>1. /\ going \in Cycle /\ ended \in Cycle
          /\ going.at = "allowed" /\ going.same = holders[h].same /\ going.shown = holders[h].shown
          /\ ended.at = "ending" /\ ended.same = holders[h].same /\ ended.shown = holders[h].shown
      BY <1>0 DEF Cycle, Stages
    <3>2. \A next \in {"leased", "read"} :
            /\ resolved(next) \in Cycle /\ resolved(next).at = next
            /\ resolved(next).same = holders[h].same /\ resolved(next).shown = holders[h].shown
      BY <1>0 DEF Cycle, Stages
    <3> HIDE DEF going, ended, resolved
    <3> QED BY <2>1, <3>1, <3>2
  <2> HIDE DEF going, ended, resolved
  <2> QED BY <2>1, <2>2, <2>3, HolderStep
<1>9. ASSUME NEW h \in Holder, Send(h)
      PROVE  ControlInv'
  <2> DEFINE c == [holders[h] EXCEPT !.at = "sent", !.unresolved = TRUE]
  <2>1. /\ UNCHANGED <<settings, numbers, activation, lease, proof, spent>>
        /\ holders[h].at = "allowed" /\ commands' = commands \cup {h}
        /\ holders' = [holders EXCEPT ![h] = c]
    BY <1>9 DEF Send
  <2>2. /\ lease.holder = h /\ lease.live
        /\ holders[h].same => holders[h].shown = numbers
    BY <2>1 DEF ControlInv, HoldersHold, Beating, ShownIsCurrent
  <2>3. /\ c \in Cycle /\ c.at = "sent" /\ c.unresolved
        /\ c.same = holders[h].same /\ c.shown = holders[h].shown
    BY <1>0 DEF Cycle, Stages
  <2> HIDE DEF c
  <2> QED BY <2>1, <2>2, <2>3, HolderStep
<1>10. ASSUME NEW h \in Holder, Answer(h)
       PROVE  ControlInv'
  <2> DEFINE c == [holders[h] EXCEPT !.at = "answered"]
  <2>1. /\ UNCHANGED <<settings, numbers, activation, lease, proof, spent>>
        /\ holders[h].at = "sent" /\ commands' = commands \ {h}
        /\ holders' = [holders EXCEPT ![h] = c]
    BY <1>10 DEF Answer, Move
  <2>2. /\ lease.holder = h /\ lease.live
        /\ holders[h].same => holders[h].shown = numbers
    BY <2>1 DEF ControlInv, HoldersHold, Beating, ShownIsCurrent
  <2>3. /\ c \in Cycle /\ c.at = "answered"
        /\ c.same = holders[h].same /\ c.shown = holders[h].shown
    BY <1>0 DEF Cycle, Stages
  <2> HIDE DEF c
  <2> QED BY <2>1, <2>2, <2>3, HolderStep
\* A command goes on when its sender gives up: under the same lease.
<1>11. ASSUME NEW h \in Holder, Abort(h) \/ Crash(h)
       PROVE  ControlInv'
  <2>1. /\ UNCHANGED <<settings, numbers, activation, lease, commands, proof, spent>>
        /\ h \in commands => lease.holder = h /\ lease.live
        /\ holders[h].same => holders[h].shown = numbers
    BY <1>11 DEF Abort, Crash, Move, ControlInv, CommandsExclude, ShownIsCurrent
  <2>2. CASE Abort(h)
    <3> DEFINE c == [holders[h] EXCEPT !.at = "ending"]
    <3>1. holders' = [holders EXCEPT ![h] = c] /\ holders[h].at /= "idle"
      BY <2>2 DEF Abort, Move
    <3>2. /\ c \in Cycle /\ c.at = "ending" /\ c.unresolved = holders[h].unresolved
          /\ c.same = holders[h].same /\ c.shown = holders[h].shown
      BY <1>0 DEF Cycle, Stages
    <3>3. h \in commands /\ h \in Runner => holders[h].unresolved
      BY <3>1 DEF ControlInv, CommandsAreKnown
    <3> HIDE DEF c
    <3> QED BY <2>1, <3>1, <3>2, <3>3, HolderStep
  <2>3. CASE Crash(h)
    <3> DEFINE b == h \in Operation
               idle == Idle(h)
               c == [idle EXCEPT !.running = b]
    <3>1. holders' = [holders EXCEPT ![h] = c]
      BY <2>3 DEF Crash
    <3>2. c \in Cycle /\ c.at = "idle" /\ ~c.same
      <4>1. idle \in Cycle /\ idle.at = "idle" /\ ~idle.same /\ b \in BOOLEAN
        BY CycleTypes DEF Idle
      <4> HIDE DEF idle, b
      <4> QED BY <4>1 DEF Cycle
    <3> HIDE DEF c
    <3> QED BY <2>1, <3>1, <3>2, HolderStep
  <2> QED BY <1>11, <2>2, <2>3
<1>12. ASSUME NEW o \in Operation, Lapse(o)
       PROVE  ControlInv'
  <2>1. /\ UNCHANGED <<settings, numbers, activation, lease, commands, proof, spent>>
        /\ holders' = [holders EXCEPT ![o] = Idle(o)]
    BY <1>12 DEF Lapse
  <2>2. o \in Holder /\ Idle(o) \in Cycle /\ Idle(o).at = "idle" /\ ~Idle(o).same
    BY CycleTypes DEF Holder, Idle
  <2>3. o \in commands => lease.holder = o /\ lease.live
    BY DEF ControlInv, CommandsExclude
  <2> QED BY <2>1, <2>2, <2>3, HolderStep
<1>13. ASSUME NEW h \in Holder, FinishUnheard(h)
       PROVE  ControlInv'
  <2>1. /\ UNCHANGED <<settings, numbers, activation, lease, holders, proof, spent>>
        /\ commands' \subseteq commands
    BY <1>13 DEF FinishUnheard
  <2>2. ControlTypeOK' /\ CommandsExclude' /\ HoldersHold'
    BY <2>1 DEF ControlInv, ControlTypeOK, CommandsExclude, HoldersHold, Beating
  <2>3. CommandsAreKnown' /\ WorkersLeaseFirst' /\ LinksOutliveLeases'
    BY <2>1 DEF ControlInv, CommandsAreKnown, WorkersLeaseFirst, LinksOutliveLeases
  <2>4. ShownIsCurrent' /\ ConfirmedOnce' /\ SpentIsPast'
    BY <2>1 DEF ControlInv, ShownIsCurrent, ConfirmedOnce, SpentIsPast
  <2> QED BY <2>2, <2>3, <2>4 DEF ControlInv
<1>14. ASSUME NEW w \in Runner, ApplyObservation(w)
       PROVE  ControlInv'
  <2>0. w \in Holder
    BY DEF Holder
  <2>1. /\ UNCHANGED <<settings, numbers, activation, lease, commands, spent>>
        /\ holders[w].at = "read"
        /\ \/ proof' = [proof EXCEPT !.same = FALSE]
           \/ proof' = proof
        /\ \/ holders' = [Changed(holders) EXCEPT ![w].at = "ending"]
           \/ holders' = [holders EXCEPT ![w].at = "ending"]
    BY <1>14 DEF ApplyObservation, Void, Move
  <2>2. proof' \in Proof /\ proof'.shown = proof.shown /\ (proof'.same => proof.same)
    BY <1>0, <2>1 DEF Proof
  <2>3. /\ holders' \in [Holder -> Cycle] /\ holders'[w].at = "ending"
        /\ \A g \in Holder : /\ holders'[g].shown = holders[g].shown
                             /\ holders'[g].same => holders[g].same
                             /\ holders'[g].unresolved = holders[g].unresolved
                             /\ g /= w => holders'[g].at = holders[g].at
    <3>1. CASE holders' = [holders EXCEPT ![w].at = "ending"]
      BY <1>0, <2>0, <3>1 DEF ControlTypeOK, Cycle, Stages
    <3>2. CASE holders' = [Changed(holders) EXCEPT ![w].at = "ending"]
      <4> DEFINE hs == Changed(holders)
      <4>1. /\ hs \in [Holder -> Cycle]
            /\ \A g \in Holder : /\ hs[g].at = holders[g].at /\ ~hs[g].same
                                 /\ hs[g].unresolved = holders[g].unresolved
                                 /\ hs[g].shown = holders[g].shown
        BY <1>0, ChangedHolders
      <4>2. holders' = [hs EXCEPT ![w].at = "ending"]
        BY <3>2
      <4> HIDE DEF hs
      <4> QED BY <2>0, <4>1, <4>2 DEF Cycle, Stages
    <3> QED BY <2>1, <3>1, <3>2
  <2>4. ControlTypeOK'
    BY <1>0, <2>1, <2>2, <2>3 DEF ControlTypeOK
  <2>5. CommandsExclude' /\ HoldersHold' /\ CommandsAreKnown' /\ WorkersLeaseFirst'
    <3>1. w \notin commands
      BY <2>1 DEF ControlInv, CommandsAreKnown
    <3> QED BY <1>0, <2>1, <2>3, <3>1
               DEF ControlInv, ControlTypeOK, CommandsExclude, HoldersHold, Beating,
                   CommandsAreKnown, WorkersLeaseFirst, Holder
  <2>6. LinksOutliveLeases' /\ ShownIsCurrent' /\ ConfirmedOnce' /\ SpentIsPast'
    BY <2>1, <2>2, <2>3 DEF ControlInv, LinksOutliveLeases, ShownIsCurrent, ConfirmedOnce,
                            SpentIsPast
  <2> QED BY <2>4, <2>5, <2>6 DEF ControlInv
<1>15. ASSUME NEW o \in Operation, Loaded(o) \/ Enable(o)
       PROVE  ControlInv'
  <2>0. o \in Holder /\ o \notin Runner
    BY ControlAssumption DEF Holder
  <2>1. /\ holders[o].at = "read"
        /\ lease' \in {NoLease, lease}
        /\ UNCHANGED <<settings, numbers, commands, spent>>
    BY <1>15 DEF Loaded, Enable
  <2>2. lease.holder = o /\ lease.live /\ commands = {} /\ \A g \in Holder \ {o} : ~Beating(g)
    BY <2>0, <2>1, Alone
  <2>3. Idle(o) \in Cycle /\ Idle(o).at = "idle" /\ ~Idle(o).same
    BY <2>0, CycleTypes DEF Idle
  <2>4. /\ holders' \in [Holder -> Cycle] /\ holders'[o] = Idle(o)
        /\ \A g \in Holder \ {o} : /\ holders'[g].at = holders[g].at
                                   /\ holders'[g].shown = holders[g].shown
                                   /\ holders'[g].same => holders[g].same
    <3> DEFINE idle == Idle(o)
               hs == Changed(holders)
    <3>1. \/ holders' = [holders EXCEPT ![o] = idle]
          \/ holders' = [hs EXCEPT ![o] = idle]
      BY <1>15 DEF Loaded, Enable
    <3>2. idle \in Cycle
      BY <2>3
    <3>3. /\ hs \in [Holder -> Cycle]
          /\ \A g \in Holder : /\ hs[g].at = holders[g].at /\ ~hs[g].same
                               /\ hs[g].shown = holders[g].shown
      BY <1>0, ChangedHolders
    <3>4. holders \in [Holder -> Cycle]
      BY <1>0 DEF ControlTypeOK
    <3> HIDE DEF idle, hs
    <3>5. /\ holders' \in [Holder -> Cycle] /\ holders'[o] = idle
          /\ \A g \in Holder \ {o} : /\ holders'[g].at = holders[g].at
                                     /\ holders'[g].shown = holders[g].shown
                                     /\ holders'[g].same => holders[g].same
      BY <2>0, <3>1, <3>2, <3>3, <3>4
    <3> QED BY <3>5 DEF idle
  <2>5. \A g \in Holder : ~Beating(g)'
    BY <2>2, <2>3, <2>4 DEF Beating
  <2>6. activation' \in Activation /\ (activation'.on => activation'.numbers = activation'.shown)
    <3>1. CASE UNCHANGED activation
      BY <1>0, <3>1 DEF ControlInv, ShownIsCurrent
    <3>2. CASE /\ holders[o].same
               /\ activation' = [on |-> TRUE, revision |-> settings.revision,
                                  numbers |-> numbers, shown |-> holders[o].shown]
      <4>1. holders[o].shown = numbers
        BY <2>0, <3>2 DEF ControlInv, ShownIsCurrent
      <4> QED BY <1>0, <3>2, <4>1 DEF Activation, Settings
    <3> QED BY <1>15, <3>1, <3>2 DEF Loaded, Enable, Unchanged
  <2>7. proof' \in Proof /\ (proof'.same => proof' = proof)
    BY <1>0, <1>15 DEF Loaded, Enable, Void, Proof
  <2>8. lease' \in LeaseRow /\ (lease'.live => lease.live)
    BY <1>0, <2>1 DEF NoLease, LeaseRow
  <2> QED BY <2>1, <2>2, <2>3, <2>4, <2>5, <2>6, <2>7, <2>8, ReleaseStep
\* A worker gives its lease up only when no command of it may still run.
<1>16. ASSUME NEW h \in Holder, End(h)
       PROVE  ControlInv'
  <2>1. /\ holders[h].at = "ending" /\ holders' = [holders EXCEPT ![h] = Idle(h)]
        /\ lease' = Released(h)
        /\ UNCHANGED <<settings, numbers, activation, commands, proof, spent>>
    BY <1>16 DEF End
  <2>2. Idle(h) \in Cycle /\ Idle(h).at = "idle" /\ ~Idle(h).same
    BY CycleTypes DEF Idle
  <2>3. CASE lease' = lease
    <3>1. h \in commands => lease.holder = h /\ lease.live
      BY DEF ControlInv, CommandsExclude
    <3> QED BY <2>1, <2>2, <2>3, <3>1, HolderStep
  <2>4. CASE h \in Runner /\ ~holders[h].unresolved /\ lease.holder = h /\ lease' = NoLease
    <3>1. h \notin commands
      BY <2>1, <2>4 DEF ControlInv, CommandsAreKnown
    <3>2. commands = {} /\ \A g \in Holder : ~Beating(g)
      BY <2>1, <2>4, <3>1 DEF ControlInv, ControlTypeOK, CommandsExclude, HoldersHold, Beating
    <3>3. /\ holders' \in [Holder -> Cycle]
          /\ \A g \in Holder : /\ ~Beating(g)'
                               /\ holders'[g].same => holders[g].same
                               /\ holders'[g].shown = holders[g].shown \/ ~holders'[g].same
                               /\ holders'[g].at = "checking" => holders[g].at = "checking"
      BY <1>0, <2>1, <2>2, <3>2 DEF Beating, ControlTypeOK
    <3>4. lease' \in LeaseRow /\ ~lease'.live
      BY <1>0, <2>4 DEF NoLease, LeaseRow
    <3>5. activation.on => activation.numbers = activation.shown
      BY DEF ControlInv, ShownIsCurrent
    <3> QED BY <1>0, <2>1, <3>2, <3>3, <3>4, <3>5, ReleaseStep
  <2> QED BY <2>1, <2>3, <2>4 DEF Released
<1>17. CASE Expire
  <2>1. /\ lease' = [lease EXCEPT !.live = FALSE] /\ commands' = commands \ {lease.holder}
        /\ UNCHANGED <<settings, numbers, activation, holders, proof, spent>>
        /\ \A h \in Holder : lease.holder = h => ~Beating(h)
    BY <1>17 DEF Expire
  <2>2. commands' = {} /\ \A g \in Holder : ~Beating(g)
    BY <2>1 DEF ControlInv, CommandsExclude, HoldersHold
  <2>3. \A g \in Holder : ~Beating(g)'
    BY <2>1, <2>2 DEF Beating
  <2>4. lease' \in LeaseRow /\ ~lease'.live
    BY <1>0, <2>1 DEF LeaseRow
  <2>5. holders' \in [Holder -> Cycle] /\ (activation.on => activation.numbers = activation.shown)
    BY <1>0, <2>1 DEF ControlTypeOK, ControlInv, ShownIsCurrent
  <2> QED BY <1>0, <2>1, <2>2, <2>3, <2>4, <2>5, ReleaseStep
<1> QED
  BY <1>1, <1>2, <1>3, <1>4, <1>5, <1>6, <1>7, <1>8, <1>9, <1>10, <1>11, <1>12, <1>13, <1>14,
     <1>15, <1>16, <1>17 DEF ControlNext, Work

LEMMA ControlAlways == ControlSpec => []ControlInv
BY ControlInitially, ControlStep, PTL DEF ControlSpec

\* The settings, consents, leases, cycles and confirmations are always rows of
\* their tables (syrve-settings.store.ts, syrve-worker.store.ts).
THEOREM ControlTypesHold == ControlSpec => []ControlTypeOK
<1>1. ControlInv => ControlTypeOK
  BY DEF ControlInv
<1> QED BY <1>1, ControlAlways, PTL

\* Whoever may still speak to the registers holds the lease; no link is deleted
\* under a live lease; the registers decide under the numbers the director was
\* shown; and a confirmation takes a lease once (claim, cycle, resetBindings,
\* enable, whatever fails or stops in between).
THEOREM CommandsAreAlwaysSafe == ControlSpec => []CommandsAreSafe
<1>1. ControlInv => CommandsAreSafe
  BY DEF ControlInv, CommandsAreSafe, ConsentIsForWhatWasShown, ShownIsCurrent, Enabled
<1> QED BY <1>1, ControlAlways, PTL

-----------------------------------------------------------------------------
(* The accounts of the staff *)

\* The columns that administration writes: never the credentials of a director.
Columns ==
    {[pin |-> TRUE]} \cup {[role |-> r] : r \in StaffRole}
        \cup {[telegram |-> t] : t \in Telegram \cup {Nobody}}
        \cup {[isOnShift |-> b] : b \in BOOLEAN} \cup {[active |-> b] : b \in BOOLEAN}
        \cup {[active |-> FALSE, isArchived |-> TRUE], [active |-> TRUE, isArchived |-> FALSE]}
ColumnChange == [member : Member, role : StaffRole, columns : Columns]

\* What a request carries from one of its steps to the next.
RequestOK(s) ==
    /\ s.phase = "permitted" => s.member \in Member
    /\ s.phase = "write" => s.todo \in Seq(ColumnChange) /\ s.todo # <<>>
    /\ s.phase = "delete" => s.member \in Member
    /\ s.phase = "make" => s.role \in StaffRole /\ s.pin \in BOOLEAN
    /\ s.phase = "rotate" =>
           s.member \in Member /\ s.version \in Nat /\ s.password \in Password
    /\ s.phase = "credential" => s.invite \in 1 .. invites
    /\ s.phase = "clear" => s.member \in Member /\ s.invite \in 1 .. invites
    /\ s.phase = "consume" => s.invite \in 1 .. invites /\ s.version \in Nat \cup {Never}

StaffTyped ==
    /\ members \in [Member -> Account \cup {NoAccount, Deleted}]
    /\ requests = [q \in StaffRequest |-> requests[q]]
    /\ \A q \in StaffRequest : RequestOK(requests[q])
    /\ \A t \in tokens : t.member \in Member /\ t.version \in Nat \cup {Never}
    /\ invites \in 0 .. MaxInvites
    /\ wrong \in [Member -> [count : Nat, last : Nat \cup {Never}]]
    /\ staffClock \in Nat

\* No two accounts share a Telegram account or an invitation, and no invitation
\* is given out twice.
LinksAreUnique ==
    /\ \A m, n \in Present : m # n =>
           /\ members[m].telegram = members[n].telegram => members[m].telegram = Nobody
           /\ members[m].invite = members[n].invite => members[m].invite = NoInvite
    /\ \A m \in Present : members[m].invite <= invites

\* A token has a version that is gone, or the secret of the one in force.
TokensAreDated ==
    \A t \in tokens : members[t.member] # NoAccount /\
        (Exists(t.member) =>
            \/ t.version = Never \/ t.version < members[t.member].version
            \/ /\ t.version = members[t.member].version
               /\ t.secret \in {SecretOf(members[t.member]), "telegram"})

\* The same of an invitation whose credential was confirmed.
ConfirmationsAreDated ==
    \A q \in StaffRequest : requests[q].phase = "consume" =>
        \A m \in Present : members[m].invite = requests[q].invite =>
            \/ requests[q].version = Never \/ requests[q].version < members[m].version
            \/ /\ requests[q].version = members[m].version
               /\ requests[q].secret = SecretOf(members[m])

\* A director without a version has no password yet.
FirstPasswordIsDated ==
    \A m \in Present : members[m].version = 0 => members[m].password = NoPassword

\* The count of the row bounds the count of history, and the lock lasts LockTime
\* after the last wrong password.
LocksAreLong ==
    \A m \in Member :
        /\ members[m] = NoAccount => wrong[m] = [count |-> 0, last |-> Never]
        /\ Exists(m) =>
              IF members[m].lockedUntil = Never
              THEN wrong[m].count <= members[m].failures /\ members[m].failures < MaxFailures
              ELSE wrong[m].last # Never /\ members[m].lockedUntil = wrong[m].last + LockTime

StaffInv ==
    /\ StaffTyped /\ LinksAreUnique
    /\ TokensAreDated /\ ConfirmationsAreDated /\ FirstPasswordIsDated
    /\ LocksAreLong /\ GuessesAreLimited

-----------------------------------------------------------------------------
\* The numbers in the assumption.
LEMMA StaffNumbers ==
  /\ LockTime \in Nat /\ InviteTime \in Nat /\ LastTime \in Nat /\ MaxInvites \in Nat
  /\ MaxAsked \in Nat /\ AtOnce \in Nat /\ MaxFailures \in Nat /\ MaxFailures >= 1
  /\ FirstPassword \in Password
BY StaffAssumption DEF FirstPassword

LEMMA RowsAreRows == \A a \in Account : a # NoAccount /\ a # Deleted
BY DEF Account, NoAccount, Deleted, StaffRole, Ordinary

LEMMA MadeIsAccount ==
  ASSUME NEW r \in StaffRole, NEW p \in BOOLEAN
  PROVE  Made(r, p) \in Account
BY StaffNumbers DEF Made, Account, Never, NoInvite

LEMMA StaffInitially == StaffInit => StaffInv
<1> SUFFICES ASSUME StaffInit PROVE StaffInv
  OBVIOUS
<1> DEFINE d == CHOOSE d \in Member : TRUE
           director(v) == [Made("owner", FALSE) EXCEPT !.version = v,
                             !.password = IF v = 0 THEN NoPassword ELSE FirstPassword]
<1>1. d \in Member
  BY StaffAssumption
<1>2. PICK w \in {NoAccount, Made("waiter", TRUE)}, v \in {0, 1} :
        /\ members = [m \in Member |-> IF m = d THEN director(v) ELSE w]
        /\ tokens = {[member |-> d, version |-> v, secret |-> SecretOf(director(v))]}
  BY DEF StaffInit
<1>3. /\ requests = [q \in StaffRequest |-> Ready]
      /\ invites = 0 /\ staffClock = 1
      /\ wrong = [m \in Member |-> [count |-> 0, last |-> Never]]
  BY DEF StaffInit
<1> DEFINE a == director(v)
           other == Made("waiter", TRUE)
           secret == SecretOf(a)
<1>3a. /\ w \in {NoAccount, other} /\ members = [m \in Member |-> IF m = d THEN a ELSE w]
       /\ tokens = {[member |-> d, version |-> v, secret |-> secret]}
  BY <1>2
<1>4. /\ a \in Account /\ a.version = v /\ a.lockedUntil = Never /\ a.failures = 0
      /\ a.telegram = Nobody /\ a.invite = NoInvite
      /\ a.version = 0 => a.password = NoPassword
  <2>1. Made("owner", FALSE) \in Account
    BY MadeIsAccount DEF StaffRole
  <2> DEFINE p == IF v = 0 THEN NoPassword ELSE FirstPassword
             made == Made("owner", FALSE)
             dated == [made EXCEPT !.version = v]
  <2>2. p \in Password \cup {NoPassword} /\ (v = 0 => p = NoPassword) /\ v \in Nat
    BY StaffNumbers
  <2>3. made \in Account /\ made.lockedUntil = Never /\ made.failures = 0
        /\ made.telegram = Nobody /\ made.invite = NoInvite
    BY <2>1 DEF Made
  <2> HIDE DEF p, made
  <2>4. dated \in Account /\ dated.version = v /\ dated.lockedUntil = Never
        /\ dated.failures = 0 /\ dated.telegram = Nobody /\ dated.invite = NoInvite
    BY <2>2, <2>3 DEF Account
  <2> HIDE DEF dated
  <2>5. LET b == [dated EXCEPT !.password = p]
        IN  /\ b \in Account /\ b.version = v /\ b.lockedUntil = Never /\ b.failures = 0
            /\ b.telegram = Nobody /\ b.invite = NoInvite
            /\ b.version = 0 => b.password = NoPassword
    BY <2>2, <2>4 DEF Account
  <2> QED BY <2>5 DEF p, dated, made
<1>5. /\ other \in Account /\ other.version = 0 /\ other.lockedUntil = Never
      /\ other.failures = 0 /\ other.telegram = Nobody /\ other.invite = NoInvite
      /\ other.password = NoPassword
  <2>1. other \in Account
    BY MadeIsAccount DEF StaffRole, Ordinary
  <2> QED BY <2>1 DEF Made
<1> HIDE DEF d, other, a, director, secret
<1>6. \A m \in Member : members[m] \in {a, other, NoAccount}
  BY <1>1, <1>3a
<1>7. members[d] = a /\ a # NoAccount /\ a # Deleted
  BY <1>1, <1>3a, <1>4, RowsAreRows
<1>9. StaffTyped
  <2>1. \A q \in StaffRequest : RequestOK(requests[q])
    BY <1>3 DEF RequestOK, Ready
  <2>2. members \in [Member -> Account \cup {NoAccount, Deleted}]
    BY <1>3a, <1>4, <1>5, <1>6
  <2>3. wrong \in [Member -> [count : Nat, last : Nat \cup {Never}]]
    BY <1>3
  <2> QED BY <1>1, <1>3, <1>3a, <2>1, <2>2, <2>3, StaffNumbers DEF StaffTyped
<1>10. LinksAreUnique /\ FirstPasswordIsDated
  BY <1>3, <1>4, <1>5, <1>6 DEF LinksAreUnique, FirstPasswordIsDated, Present, Exists, NoInvite
<1>11. TokensAreDated /\ ConfirmationsAreDated
  <2>1. secret = SecretOf(members[d])
    BY <1>7 DEF secret
  <2> QED BY <1>1, <1>3, <1>3a, <1>4, <1>7, <2>1
             DEF TokensAreDated, ConfirmationsAreDated, Ready
<1>12. LocksAreLong /\ GuessesAreLimited
  BY <1>3, <1>4, <1>5, <1>6, StaffNumbers DEF LocksAreLong, GuessesAreLimited, Exists
<1> QED BY <1>9, <1>10, <1>11, <1>12 DEF StaffInv

\* Only requests go on, or the time.
LEMMA RequestStep ==
  ASSUME StaffInv, UNCHANGED <<members, tokens, invites, wrong>>, staffClock' \in Nat,
         requests' = [q \in StaffRequest |-> requests'[q]],
         \A q \in StaffRequest :
            \/ requests'[q] = requests[q]
            \/ RequestOK(requests'[q]) /\ requests'[q].phase # "consume"
            \/ RequestOK(requests'[q]) /\ requests'[q].version = Never
  PROVE  StaffInv'
<1>1. StaffTyped'
  BY DEF StaffInv, StaffTyped, RequestOK
<1>2. ConfirmationsAreDated'
  BY DEF StaffInv, ConfirmationsAreDated, Present, Exists
<1>3. LinksAreUnique' /\ TokensAreDated' /\ FirstPasswordIsDated'
  BY DEF StaffInv, LinksAreUnique, TokensAreDated, FirstPasswordIsDated, Present, Exists
<1>4. LocksAreLong' /\ GuessesAreLimited'
  BY DEF StaffInv, LocksAreLong, GuessesAreLimited, Exists
<1> QED BY <1>1, <1>2, <1>3, <1>4 DEF StaffInv

\* One account changes, and with it perhaps its lock, its tokens and a request.
LEMMA AccountStep ==
  ASSUME StaffInv, NEW m \in Present, NEW a \in Account,
         NEW w \in [count : Nat, last : Nat \cup {Never}],
         members' = [members EXCEPT ![m] = a], wrong' = [wrong EXCEPT ![m] = w],
         UNCHANGED staffClock, invites' \in invites .. MaxInvites,
         \/ a.version = members[m].version /\ a.password = members[m].password
         \/ a.version > members[m].version,
         \/ a.invite \in {members[m].invite, NoInvite}
         \/ invites < a.invite /\ a.invite <= invites',
         \A n \in Present \ {m} :
            /\ members[n].telegram = a.telegram => a.telegram = Nobody
            /\ members[n].invite = a.invite => a.invite = NoInvite,
         tokens \subseteq tokens',
         \A t \in tokens' \ tokens :
            /\ t.member = m
            /\ \/ t.version = Never
               \/ t.version = a.version /\ t.secret \in {SecretOf(a), "telegram"},
         requests' = [q \in StaffRequest |-> requests'[q]],
         \A q \in StaffRequest :
            \/ requests'[q] = requests[q]
            \/ requests'[q].phase # "consume" /\ RequestOK(requests'[q])
            \/ /\ RequestOK(requests'[q]) /\ requests'[q].invite = a.invite
               /\ a.invite # NoInvite
               /\ requests'[q].version = a.version /\ requests'[q].secret = SecretOf(a),
         IF a.lockedUntil = Never THEN w.count <= a.failures /\ a.failures < MaxFailures
         ELSE w.last # Never /\ a.lockedUntil = w.last + LockTime,
         w.count <= MaxFailures
  PROVE  StaffInv'
<1>0. /\ StaffTyped /\ m \in Member /\ members[m] \in Account
      /\ a # NoAccount /\ a # Deleted
  BY RowsAreRows DEF StaffInv, StaffTyped, Present, Exists
<1>1. /\ Present' = Present /\ members'[m] = a /\ wrong'[m] = w
      /\ \A n \in Member \ {m} : members'[n] = members[n] /\ wrong'[n] = wrong[n]
  BY <1>0 DEF StaffTyped, Present, Exists
<1>2. /\ invites \in Nat /\ invites' \in Nat /\ invites <= invites' /\ MaxInvites \in Nat
      /\ invites' <= MaxInvites
  BY <1>0, StaffNumbers DEF StaffTyped
<1>3. /\ a.version \in Nat /\ members[m].version \in Nat
      /\ a.version = 0 => a.password = NoPassword
  BY <1>0 DEF Account, StaffInv, FirstPasswordIsDated
<1>4. StaffTyped'
  <2>1. \A q \in StaffRequest : RequestOK(requests'[q]) \/ requests'[q] = requests[q]
    OBVIOUS
  <2>2. \A q \in StaffRequest : RequestOK(requests[q])'
    BY <1>0, <1>2, <2>1 DEF StaffTyped, RequestOK
  <2>3. \A t \in tokens' : t.member \in Member /\ t.version \in Nat \cup {Never}
    BY <1>0, <1>3 DEF StaffTyped
  <2>4. /\ members' \in [Member -> Account \cup {NoAccount, Deleted}]
        /\ wrong' \in [Member -> [count : Nat, last : Nat \cup {Never}]]
    BY <1>0 DEF StaffTyped
  <2>5. invites' \in 0 .. MaxInvites /\ staffClock' \in Nat
    BY <1>0, <1>2 DEF StaffTyped
  <2> QED BY <2>2, <2>3, <2>4, <2>5 DEF StaffTyped
<1>5. LinksAreUnique'
  <2>1. \A n \in Present : n # m => members'[n] = members[n] /\ members[n].invite <= invites
    BY <1>1 DEF StaffInv, LinksAreUnique, Present
  <2>2. a.invite <= invites'
    <3>1. members[m].invite <= invites /\ members[m].invite \in Nat
      BY <1>0 DEF StaffInv, LinksAreUnique, Account
    <3> QED BY <1>2, <3>1 DEF NoInvite
  <2>3. \A n \in Present : members'[n].invite <= invites'
    <3> SUFFICES ASSUME NEW n \in Present PROVE members'[n].invite <= invites'
      OBVIOUS
    <3>1. n # m => members[n].invite \in Nat
      BY <1>0 DEF StaffTyped, Account, Present, Exists
    <3> QED BY <1>1, <1>2, <2>1, <2>2, <3>1
  <2>4. \A n, k \in Present : n # k =>
           /\ members'[n].telegram = members'[k].telegram => members'[n].telegram = Nobody
           /\ members'[n].invite = members'[k].invite => members'[n].invite = NoInvite
    BY <1>1, <2>1 DEF StaffInv, LinksAreUnique
  <2> QED BY <1>1, <2>3, <2>4 DEF LinksAreUnique
<1>6. TokensAreDated'
  <2> SUFFICES ASSUME NEW t \in tokens', Exists(t.member)'
               PROVE  \/ t.version = Never \/ t.version < members'[t.member].version
                      \/ /\ t.version = members'[t.member].version
                         /\ t.secret \in {SecretOf(members'[t.member]), "telegram"}
    <3>1. \A t \in tokens' : members'[t.member] # NoAccount
      BY <1>0, <1>1 DEF StaffInv, StaffTyped, TokensAreDated
    <3>2. \A t \in tokens' : SecretOf(members[t.member])' = SecretOf(members'[t.member])
      BY DEF SecretOf
    <3> QED BY <3>1, <3>2 DEF TokensAreDated
  <2>1. CASE t \notin tokens
    BY <1>1, <2>1
  <2>2. CASE t \in tokens /\ t.member # m
    BY <1>0, <1>1, <2>2 DEF StaffInv, StaffTyped, TokensAreDated, Exists
  <2>3. CASE t \in tokens /\ t.member = m
    <3>1. \/ t.version = Never \/ t.version < members[m].version
          \/ /\ t.version = members[m].version
             /\ t.secret \in {SecretOf(members[m]), "telegram"}
      BY <2>3 DEF StaffInv, TokensAreDated, Present
    <3>2. t.version \in Nat \cup {Never}
      BY <1>0, <2>3 DEF StaffTyped
    <3>3. a.version = members[m].version => SecretOf(a) = SecretOf(members[m])
      BY <1>3 DEF SecretOf
    <3>4. members'[t.member] = a
      BY <1>1, <2>3
    <3>5. CASE t.version < members[m].version
      BY <1>3, <3>2, <3>4, <3>5 DEF Never
    <3>6. CASE t.version = members[m].version /\ t.secret \in {SecretOf(members[m]), "telegram"}
      BY <1>3, <3>3, <3>4, <3>6
    <3> QED BY <3>1, <3>5, <3>6
  <2> QED BY <2>1, <2>2, <2>3
<1>7. ConfirmationsAreDated'
  <2> SUFFICES ASSUME NEW q \in StaffRequest, requests'[q].phase = "consume",
                      NEW n \in Present, members'[n].invite = requests'[q].invite
               PROVE  \/ requests'[q].version = Never
                      \/ requests'[q].version < members'[n].version
                      \/ /\ requests'[q].version = members'[n].version
                         /\ requests'[q].secret = SecretOf(members'[n])
    <3>1. \A n \in Present : SecretOf(members[n])' = SecretOf(members'[n])
      BY DEF SecretOf
    <3> QED BY <1>1, <3>1 DEF ConfirmationsAreDated
  <2>1. CASE requests'[q] # requests[q]
    BY <1>1, <2>1
  <2>2. CASE requests'[q] = requests[q] /\ n # m
    BY <1>1, <2>2 DEF StaffInv, ConfirmationsAreDated, Present
  <2>3. CASE requests'[q] = requests[q] /\ n = m
    <3>1. requests[q].invite \in 1 .. invites /\ requests[q].version \in Nat \cup {Never}
      BY <1>0, <2>3 DEF StaffTyped, RequestOK
    <3>2. members[m].invite = requests[q].invite
      BY <1>1, <1>2, <2>3, <3>1 DEF NoInvite
    <3>3. \/ requests[q].version = Never \/ requests[q].version < members[m].version
          \/ /\ requests[q].version = members[m].version
             /\ requests[q].secret = SecretOf(members[m])
      BY <2>3, <3>2 DEF StaffInv, ConfirmationsAreDated
    <3>4. a.version = members[m].version => SecretOf(a) = SecretOf(members[m])
      BY <1>3 DEF SecretOf
    <3>5. CASE requests[q].version < members[m].version
      BY <1>1, <1>3, <2>3, <3>1, <3>5 DEF Never
    <3>6. CASE requests[q].version = members[m].version /\ requests[q].secret = SecretOf(members[m])
      BY <1>1, <1>3, <2>3, <3>4, <3>6
    <3> QED BY <2>3, <3>3, <3>5, <3>6
  <2> QED BY <2>1, <2>2, <2>3
<1>8. FirstPasswordIsDated'
  BY <1>1, <1>3 DEF StaffInv, FirstPasswordIsDated
<1>9. LocksAreLong'
  <2>1. \A n \in Member : members'[n] = NoAccount => n # m
    BY <1>0, <1>1
  <2>2. \A n \in Member \ {m} : Exists(n)' = Exists(n)
    BY <1>1 DEF Exists
  <2> QED BY <1>0, <1>1, <2>1, <2>2 DEF StaffInv, LocksAreLong
<1>10. GuessesAreLimited'
  BY <1>0, <1>1 DEF StaffInv, GuessesAreLimited
<1> QED BY <1>4, <1>5, <1>6, <1>7, <1>8, <1>9, <1>10 DEF StaffInv

\* What administration writes keeps the credentials and the lock.
LEMMA ColumnsAreKept ==
  ASSUME NEW a \in Account, NEW c \in Columns
  PROVE  /\ Updated(a, c) \in Account
         /\ Updated(a, c).version = a.version /\ Updated(a, c).password = a.password
         /\ Updated(a, c).invite = a.invite /\ Updated(a, c).failures = a.failures
         /\ Updated(a, c).lockedUntil = a.lockedUntil
         /\ "telegram" \notin DOMAIN c => Updated(a, c).telegram = a.telegram
         /\ "telegram" \in DOMAIN c => Updated(a, c).telegram = c.telegram
<1> DEFINE Kept(b) == /\ b \in Account /\ b.version = a.version /\ b.password = a.password
                      /\ b.invite = a.invite /\ b.failures = a.failures
                      /\ b.lockedUntil = a.lockedUntil
           Fits(b) == /\ Kept(b)
                      /\ "telegram" \notin DOMAIN c => b.telegram = a.telegram
                      /\ "telegram" \in DOMAIN c => b.telegram = c.telegram
           fits == Fits(Updated(a, c))
<1>1. ASSUME NEW p \in BOOLEAN, c = [pin |-> p]
      PROVE  fits
  <2>1. Updated(a, c) = [a EXCEPT !.pin = p] /\ "telegram" \notin DOMAIN c
    BY <1>1 DEF Updated, Account
  <2> QED BY <2>1 DEF Account
<1>2. ASSUME NEW r \in StaffRole, c = [role |-> r]
      PROVE  fits
  <2>1. Updated(a, c) = [a EXCEPT !.role = r] /\ "telegram" \notin DOMAIN c
    BY <1>2 DEF Updated, Account
  <2> QED BY <2>1 DEF Account
<1>3. ASSUME NEW t \in Telegram \cup {Nobody}, c = [telegram |-> t]
      PROVE  fits
  <2>1. Updated(a, c) = [a EXCEPT !.telegram = t] /\ c.telegram = t /\ "telegram" \in DOMAIN c
    BY <1>3 DEF Updated, Account
  <2> QED BY <2>1 DEF Account
<1>4. ASSUME NEW s \in BOOLEAN, c = [isOnShift |-> s]
      PROVE  fits
  <2>1. Updated(a, c) = [a EXCEPT !.isOnShift = s] /\ "telegram" \notin DOMAIN c
    BY <1>4 DEF Updated, Account
  <2> QED BY <2>1 DEF Account
<1>5. ASSUME NEW b \in BOOLEAN, c = [active |-> b]
      PROVE  fits
  <2>1. Updated(a, c) = [a EXCEPT !.active = b] /\ "telegram" \notin DOMAIN c
    BY <1>5 DEF Updated, Account
  <2> QED BY <2>1 DEF Account
<1>6. ASSUME NEW b \in BOOLEAN, NEW h \in BOOLEAN, c = [active |-> b, isArchived |-> h]
      PROVE  fits
  <2> DEFINE d == [a EXCEPT !.active = b]
             e == [d EXCEPT !.isArchived = h]
  <2>1. DOMAIN c = {"active", "isArchived"} /\ c.active = b /\ c.isArchived = h
    BY <1>6
  <2>2. Updated(a, c) = [k \in DOMAIN a |-> IF k = "active" THEN b
                                            ELSE IF k = "isArchived" THEN h ELSE a[k]]
    BY <2>1 DEF Updated
  <2>3. d \in Account /\ Kept(d) /\ d.telegram = a.telegram
    BY DEF Account
  <2>4. Updated(a, c) = e
    BY <2>2, <2>3 DEF Account
  <2> HIDE DEF d
  <2>5. Fits(e)
    BY <2>1, <2>3 DEF Account
  <2> QED BY <2>4, <2>5
<1>7. \/ \E p \in BOOLEAN : c = [pin |-> p]
      \/ \E r \in StaffRole : c = [role |-> r]
      \/ \E t \in Telegram \cup {Nobody} : c = [telegram |-> t]
      \/ \E s \in BOOLEAN : c = [isOnShift |-> s]
      \/ \E b \in BOOLEAN : c = [active |-> b]
      \/ \E b, h \in BOOLEAN : c = [active |-> b, isArchived |-> h]
  BY Zenon DEF Columns
<1>8. fits
  <2> HIDE DEF fits
  <2> QED BY Zenon, <1>1, <1>2, <1>3, <1>4, <1>5, <1>6, <1>7
<1> QED BY <1>8

\* What a request plans is a list of such changes.
LEMMA PlansAreChanges ==
  ASSUME NEW m \in Member, NEW a \in Account, NEW by, NEW todo \in Plans(m, a, by)
  PROVE  todo \in Seq(ColumnChange) /\ todo # <<>>
<1>1. \A c \in Columns : Change(m, a, c) \in ColumnChange
  BY DEF Change, ColumnChange, Account
<1>2. /\ \A c \in Columns : <<Change(m, a, c)>> \in Seq(ColumnChange) /\ <<Change(m, a, c)>> # <<>>
      /\ \A c, e \in Columns : /\ <<Change(m, a, c), Change(m, a, e)>> \in Seq(ColumnChange)
                               /\ <<Change(m, a, c), Change(m, a, e)>> # <<>>
  BY <1>1
<1>3. /\ \A b \in BOOLEAN : [isOnShift |-> b] \in Columns /\ [active |-> b] \in Columns
      /\ [pin |-> TRUE] \in Columns /\ \A r \in StaffRole : [role |-> r] \in Columns
      /\ \A t \in Telegram \cup {Nobody} : [telegram |-> t] \in Columns
      /\ [active |-> FALSE, isArchived |-> TRUE] \in Columns
      /\ [active |-> TRUE, isArchived |-> FALSE] \in Columns
  BY DEF Columns
<1>4. \/ \E c \in Columns : todo = <<Change(m, a, c)>>
      \/ \E c, e \in Columns : todo = <<Change(m, a, c), Change(m, a, e)>>
  <2>1. CASE todo \in Shifts(m, a)
    BY <1>3, <2>1 DEF Shifts, EndShift
  <2>2. CASE todo \in Blocks(m, a)
    BY <1>3, <2>2 DEF Blocks, FinishFirst, EndShift
  <2>3. CASE todo \in Archives(m, a)
    BY <1>3, <2>3 DEF Archives, FinishFirst, EndShift
  <2>4. CASE todo \in Restores(m, a)
    BY <1>3, <2>4 DEF Restores
  <2>5. ASSUME NEW r \in StaffRole, todo \in Edits(m, a, r)
        PROVE  \E c \in Columns : todo = <<Change(m, a, c)>>
    BY <1>3, <2>5 DEF Edits
  <2>6. \A r : r \in Ordinary => r \in StaffRole
    BY DEF StaffRole
  <2> QED BY <2>1, <2>2, <2>3, <2>4, <2>5, <2>6 DEF Plans
<1> QED BY <1>2, <1>4

\* A list of shifts to end.
LEMMA EndsAreChanges ==
  ASSUME StaffInv, NEW S \in SUBSET Present, S # {},
         NEW order \in [1 .. Cardinality(S) -> S]
  PROVE  LET todo == [i \in DOMAIN order |-> EndShift(order[i], members[order[i]])]
         IN  todo \in Seq(ColumnChange) /\ todo # <<>>
<1>1. IsFiniteSet(S)
  BY StaffAssumption, FS_Subset DEF Present
<1>2. Cardinality(S) \in Nat /\ Cardinality(S) # 0
  BY <1>1, FS_CardinalityType, FS_EmptySet
<1>3. \A m \in S : EndShift(m, members[m]) \in ColumnChange
  <2>1. \A m \in S : m \in Member /\ members[m].role \in StaffRole
    BY DEF StaffInv, StaffTyped, Present, Exists, Account
  <2>2. [isOnShift |-> FALSE] \in Columns
    BY DEF Columns
  <2> QED BY <2>1, <2>2 DEF EndShift, Change, ColumnChange
<1> DEFINE n == Cardinality(S)
           todo == [i \in 1 .. n |-> EndShift(order[i], members[order[i]])]
<1>4. todo \in [1 .. n -> ColumnChange]
  BY <1>3
<1>5. n \in Nat /\ n # 0 /\ DOMAIN todo = 1 .. n
  BY <1>2
<1> HIDE DEF n
<1>6. todo \in Seq(ColumnChange)
  BY <1>4, <1>5
<1>7. 1 \in DOMAIN todo
  BY <1>5
<1>8. todo # <<>>
  BY <1>7
<1> QED BY <1>6, <1>8 DEF n

\* The requests are as before but for one.
LEMMA OneGoes ==
  ASSUME StaffInv, NEW q \in StaffRequest, NEW s, Goes(q, s)
  PROVE  /\ requests' = [r \in StaffRequest |-> requests'[r]] /\ requests'[q] = s
         /\ \A r \in StaffRequest \ {q} : requests'[r] = requests[r]
BY DEF StaffInv, StaffTyped, Goes

\* A request of several steps begins, with what it carries to the next.
LEMMA AskStep ==
  ASSUME StaffInv, NEW q \in StaffRequest, NEW s, Asks(q, s), RequestOK(s), s.phase # "consume"
  PROVE  StaffInv'
<1>1. Goes(q, s) /\ UNCHANGED <<members, tokens, invites, wrong, staffClock>>
  BY DEF Asks
<1>2. staffClock \in Nat
  BY DEF StaffInv, StaffTyped
<1> QED BY <1>1, <1>2, OneGoes, RequestStep

\* A new row has no tokens, no invitation and no history.
LEMMA AddStep ==
  ASSUME StaffInv, NEW r \in StaffRole, NEW p \in BOOLEAN, Add(r, p),
         requests' = [q \in StaffRequest |-> requests'[q]],
         \A q \in StaffRequest : requests'[q] \in {requests[q], Ready}
  PROVE  StaffInv'
<1> DEFINE a == Made(r, p)
<1>1. PICK m \in Member : members[m] = NoAccount /\ members' = [members EXCEPT ![m] = a]
  BY DEF Add
<1>2. /\ a \in Account /\ a # NoAccount /\ a # Deleted
      /\ a.password = NoPassword /\ a.version = 0 /\ a.failures = 0 /\ a.lockedUntil = Never
      /\ a.telegram = Nobody /\ a.invite = NoInvite
  <2>1. a \in Account
    BY MadeIsAccount
  <2> QED BY <2>1, RowsAreRows DEF Made
<1>3. UNCHANGED <<tokens, invites, wrong, staffClock>> /\ StaffTyped
  BY DEF Add, StaffInv
<1> HIDE DEF a
<1>4. /\ members'[m] = a /\ m \notin Present /\ Present' = Present \cup {m}
      /\ \A n \in Member \ {m} : members'[n] = members[n]
  BY <1>1, <1>2, <1>3 DEF StaffTyped, Present, Exists
<1>5. StaffTyped'
  <2>1. \A q \in StaffRequest : RequestOK(requests[q])'
    BY <1>3 DEF StaffTyped, RequestOK, Ready
  <2> QED BY <1>1, <1>2, <1>3, <2>1 DEF StaffTyped
<1>6. LinksAreUnique' /\ FirstPasswordIsDated'
  <2>1. a.invite <= invites
    BY <1>2, <1>3 DEF StaffTyped, NoInvite
  <2> QED BY <1>2, <1>3, <1>4, <2>1
             DEF StaffInv, LinksAreUnique, FirstPasswordIsDated, Present
<1>7. TokensAreDated'
  <2>1. \A t \in tokens : t.member \in Member /\ t.member # m
    BY <1>1, <1>3 DEF StaffInv, StaffTyped, TokensAreDated
  <2> QED BY <1>3, <1>4, <2>1 DEF StaffInv, TokensAreDated, Exists
<1>8. ConfirmationsAreDated'
  <2>1. \A q \in StaffRequest :
           requests'[q].phase = "consume" =>
             requests'[q] = requests[q] /\ requests[q].invite # a.invite
    BY <1>2, <1>3 DEF StaffTyped, RequestOK, NoInvite, Ready
  <2> QED BY <1>4, <2>1 DEF StaffInv, ConfirmationsAreDated, Present
<1>9. LocksAreLong' /\ GuessesAreLimited'
  <2>1. wrong[m] = [count |-> 0, last |-> Never]
    BY <1>1 DEF StaffInv, LocksAreLong
  <2>2. \A n \in Member \ {m} : Exists(n)' = Exists(n)
    BY <1>4 DEF Exists
  <2> QED BY <1>2, <1>3, <1>4, <2>1, <2>2, StaffNumbers
             DEF StaffInv, LocksAreLong, GuessesAreLimited
<1> QED BY <1>5, <1>6, <1>7, <1>8, <1>9 DEF StaffInv

\* A comparison counts on, or sets the lock, and changes nothing else.
LEMMA ComparisonStep ==
  ASSUME StaffInv, NEW m \in Present, NEW right \in BOOLEAN,
         ~LockedOut(members[m]), Compared(m, right)
  PROVE  \E a \in Account, w \in [count : Nat, last : Nat \cup {Never}] :
            /\ members' = [members EXCEPT ![m] = a] /\ wrong' = [wrong EXCEPT ![m] = w]
            /\ a.role = members[m].role /\ a.version = members[m].version
            /\ a.password = members[m].password
            /\ a.telegram = members[m].telegram /\ a.invite = members[m].invite
            /\ IF a.lockedUntil = Never THEN w.count <= a.failures /\ a.failures < MaxFailures
               ELSE w.last # Never /\ a.lockedUntil = w.last + LockTime
            /\ w.count <= MaxFailures
<1> DEFINE b == members[m]
           h == wrong[m]
           count == IF h.last = Never \/ staffClock - h.last >= LockTime THEN 1 ELSE h.count + 1
           failed == Failures(b) + 1
           until == IF failed >= MaxFailures THEN staffClock + LockTime ELSE Never
<1>1. /\ b \in Account /\ h \in [count : Nat, last : Nat \cup {Never}] /\ staffClock \in Nat
      /\ IF b.lockedUntil = Never THEN h.count <= b.failures /\ b.failures < MaxFailures
         ELSE h.last # Never /\ b.lockedUntil = h.last + LockTime
  BY DEF StaffInv, StaffTyped, LocksAreLong, Present, Exists
<1>2. b.failures \in Nat /\ b.lockedUntil \in Nat \cup {Never}
  BY <1>1, StaffNumbers DEF Account
<1>3. CASE right
  <2> DEFINE zeroed == [b EXCEPT !.failures = 0]
             a == [zeroed EXCEPT !.lockedUntil = Never]
             w == [count |-> 0, last |-> Never]
  <2>1. members' = [members EXCEPT ![m] = a] /\ wrong' = [wrong EXCEPT ![m] = w]
    BY <1>3 DEF Compared, AfterRight
  <2>2. zeroed \in Account
    BY <1>1, StaffNumbers DEF Account
  <2>3. a \in Account /\ a.failures = 0 /\ a.lockedUntil = Never
    BY <1>1, <2>2 DEF Account
  <2>4. /\ a.role = b.role /\ a.version = b.version /\ a.password = b.password
        /\ a.telegram = b.telegram /\ a.invite = b.invite
    BY <1>1 DEF Account
  <2>5. w \in [count : Nat, last : Nat \cup {Never}] /\ w.count = 0
    OBVIOUS
  <2> HIDE DEF a, w
  <2>6. /\ IF a.lockedUntil = Never THEN w.count <= a.failures /\ a.failures < MaxFailures
           ELSE w.last # Never /\ a.lockedUntil = w.last + LockTime
        /\ w.count <= MaxFailures
    BY <2>3, <2>5, StaffNumbers
  <2> QED BY <2>1, <2>3, <2>4, <2>5, <2>6
<1>4. CASE ~right
  <2> DEFINE counted == [b EXCEPT !.failures = failed]
             a == [counted EXCEPT !.lockedUntil = until]
             w == [count |-> count, last |-> staffClock]
  <2>1. members' = [members EXCEPT ![m] = a] /\ wrong' = [wrong EXCEPT ![m] = w]
    <3>1. [members EXCEPT ![m] = AfterWrong(@)] = [members EXCEPT ![m] = a]
      BY DEF AfterWrong
    <3>2. [wrong EXCEPT ![m] = [count |-> IF @.last = Never \/ staffClock - @.last >= LockTime
                                          THEN 1 ELSE @.count + 1,
                                last |-> staffClock]] = [wrong EXCEPT ![m] = w]
      OBVIOUS
    <3> QED BY <1>4, <3>1, <3>2 DEF Compared
  <2>2. /\ failed \in 0 .. MaxFailures /\ count \in Nat
        /\ count <= failed
    <3>1. CASE b.lockedUntil = Never
      BY <1>1, <1>2, <3>1, StaffNumbers DEF Failures
    <3>2. CASE b.lockedUntil # Never
      <4>1. h.last \in Nat /\ staffClock - h.last >= LockTime
        BY <1>1, <1>2, <3>2, StaffNumbers DEF LockedOut
      <4> QED BY <4>1, <3>2, StaffNumbers DEF Failures
    <3> QED BY <3>1, <3>2
  <2>3. until \in Nat \cup {Never}
    BY <1>1, StaffNumbers
  <2> HIDE DEF failed, count
  <2>4. /\ counted \in Account /\ counted.failures = failed /\ counted.role = b.role
        /\ counted.version = b.version /\ counted.password = b.password
        /\ counted.telegram = b.telegram /\ counted.invite = b.invite
    BY <1>1, <2>2 DEF Account
  <2> HIDE DEF counted
  <2> HIDE DEF until
  <2>5. /\ a \in Account /\ a.failures = failed /\ a.lockedUntil = until /\ a.role = b.role
        /\ a.version = b.version /\ a.password = b.password
        /\ a.telegram = b.telegram /\ a.invite = b.invite
    BY <2>3, <2>4 DEF Account
  <2>6. w \in [count : Nat, last : Nat \cup {Never}] /\ w.count = count /\ w.last = staffClock
    BY <1>1, <2>2
  <2> HIDE DEF a, w
  <2>7. /\ until = Never => failed < MaxFailures
        /\ until # Never => until = staffClock + LockTime
        /\ staffClock # Never /\ count <= MaxFailures
    BY <1>1, <2>2, StaffNumbers DEF until, Never
  <2>8. IF a.lockedUntil = Never THEN w.count <= a.failures /\ a.failures < MaxFailures
        ELSE w.last # Never /\ a.lockedUntil = w.last + LockTime
    BY <2>2, <2>5, <2>6, <2>7
  <2> QED BY <2>1, <2>5, <2>6, <2>7, <2>8
<1> QED BY <1>3, <1>4

\* The lock and the history of an account that is there.
LEMMA LockIsKept ==
  ASSUME StaffInv, NEW m \in Present
  PROVE  /\ members[m] \in Account /\ m \in Member
         /\ wrong = [wrong EXCEPT ![m] = wrong[m]]
         /\ wrong[m] \in [count : Nat, last : Nat \cup {Never}]
         /\ IF members[m].lockedUntil = Never
            THEN wrong[m].count <= members[m].failures /\ members[m].failures < MaxFailures
            ELSE wrong[m].last # Never /\ members[m].lockedUntil = wrong[m].last + LockTime
         /\ wrong[m].count <= MaxFailures
         /\ \A n \in Present \ {m} :
              /\ members[n].telegram = members[m].telegram => members[m].telegram = Nobody
              /\ members[n].invite = members[m].invite => members[m].invite = NoInvite
BY DEF StaffInv, StaffTyped, LocksAreLong, GuessesAreLimited, LinksAreUnique, Present, Exists

\* One account changes, but neither its credentials nor its lock, and a request
\* is done.
LEMMA OneUpdated ==
  ASSUME StaffInv, NEW m \in Present, NEW a \in Account, NEW q \in StaffRequest,
         Goes(q, Ready), UNCHANGED <<invites, wrong, staffClock>>,
         members' = [members EXCEPT ![m] = a],
         a.version = members[m].version, a.password = members[m].password,
         a.failures = members[m].failures, a.lockedUntil = members[m].lockedUntil,
         a.invite \in {members[m].invite, NoInvite},
         a.telegram \in {members[m].telegram, Nobody}
           \/ \A n \in Present \ {m} : members[n].telegram # a.telegram,
         tokens \subseteq tokens',
         \A t \in tokens' \ tokens :
            /\ t.member = m
            /\ \/ t.version = Never
               \/ t.version = a.version /\ t.secret \in {SecretOf(a), "telegram"}
  PROVE  StaffInv'
<1>1. /\ RequestOK(Ready) /\ Ready.phase = "idle" /\ invites' \in invites .. MaxInvites
  BY StaffNumbers DEF StaffInv, StaffTyped, RequestOK, Ready
<1>2. /\ requests' = [r \in StaffRequest |-> requests'[r]]
      /\ \A r \in StaffRequest :
            \/ requests'[r] = requests[r]
            \/ requests'[r].phase # "consume" /\ RequestOK(requests'[r])
  BY <1>1, OneGoes
<1>3. /\ wrong' = [wrong EXCEPT ![m] = wrong[m]]
      /\ wrong[m] \in [count : Nat, last : Nat \cup {Never}] /\ wrong[m].count <= MaxFailures
      /\ IF a.lockedUntil = Never THEN wrong[m].count <= a.failures /\ a.failures < MaxFailures
         ELSE wrong[m].last # Never /\ a.lockedUntil = wrong[m].last + LockTime
  BY LockIsKept
<1>4. \A n \in Present \ {m} :
        /\ members[n].telegram = a.telegram => a.telegram = Nobody
        /\ members[n].invite = a.invite => a.invite = NoInvite
  BY LockIsKept
<1> QED BY <1>1, <1>2, <1>3, <1>4, AccountStep

LEMMA AccountInvariance ==
  ASSUME StaffInv, UNCHANGED staffVars
  PROVE  StaffInv'
<1>1. StaffTyped' /\ LinksAreUnique' /\ FirstPasswordIsDated'
  BY DEF staffVars, StaffInv, StaffTyped, RequestOK, LinksAreUnique, FirstPasswordIsDated,
         Present, Exists
<1>2. TokensAreDated' /\ ConfirmationsAreDated'
  BY DEF staffVars, StaffInv, TokensAreDated, ConfirmationsAreDated, Present, Exists, SecretOf
<1>3. LocksAreLong' /\ GuessesAreLimited'
  BY DEF staffVars, StaffInv, LocksAreLong, GuessesAreLimited, Exists
<1> QED BY <1>1, <1>2, <1>3 DEF StaffInv

\* Every step of StaffAccounts changes one account, or none.
LEMMA StaffStep ==
  ASSUME StaffInv, [StaffNext]_staffVars
  PROVE  StaffInv'
<1>0. /\ StaffTyped /\ staffClock \in Nat /\ invites \in Nat /\ invites <= MaxInvites
      /\ MaxInvites \in Nat /\ invites \in invites .. MaxInvites
      /\ requests = [q \in StaffRequest |-> requests[q]]
      /\ \A q \in StaffRequest : RequestOK(requests[q])
      /\ RequestOK(Ready) /\ Ready.phase = "idle"
  BY StaffNumbers DEF StaffInv, StaffTyped, RequestOK, Ready
<1>1. ASSUME NEW q \in StaffRequest, NEW s, Goes(q, s), UNCHANGED Data,
             RequestOK(s), s.phase # "consume" \/ s.version = Never
      PROVE  StaffInv'
  <2>1. UNCHANGED <<members, tokens, invites, wrong, staffClock>>
    BY <1>1 DEF Data
  <2> QED BY <1>0, <1>1, <2>1, OneGoes, RequestStep
<1>2. CASE UNCHANGED staffVars
  BY <1>2, AccountInvariance
<1>3. CASE StaffTick
  BY <1>0, <1>3, RequestStep DEF StaffTick
<1>4. CASE CreateAccount
  <2>1. PICK r \in StaffRole, p \in BOOLEAN : Add(r, p) /\ UNCHANGED requests
    BY <1>4 DEF CreateAccount
  <2> QED BY <1>0, <2>1, AddStep
<1>5. CASE LoginDirector
  <2>1. PICK m \in Member, right \in BOOLEAN :
          /\ Director(m) /\ ~LockedOut(members[m]) /\ Compared(m, right)
          /\ IF right THEN Sign(m, members[m], SecretOf(members[m])) ELSE UNCHANGED tokens
          /\ UNCHANGED <<requests, invites, staffClock>>
    BY <1>5 DEF LoginDirector
  <2>2. m \in Present
    BY <2>1 DEF Director, Present
  <2>3. PICK a \in Account, w \in [count : Nat, last : Nat \cup {Never}] :
            /\ members' = [members EXCEPT ![m] = a] /\ wrong' = [wrong EXCEPT ![m] = w]
            /\ a.role = members[m].role /\ a.version = members[m].version
            /\ a.password = members[m].password
            /\ a.telegram = members[m].telegram /\ a.invite = members[m].invite
            /\ IF a.lockedUntil = Never THEN w.count <= a.failures /\ a.failures < MaxFailures
               ELSE w.last # Never /\ a.lockedUntil = w.last + LockTime
            /\ w.count <= MaxFailures
    BY <2>1, <2>2, ComparisonStep
  <2>4. /\ tokens \subseteq tokens'
        /\ \A t \in tokens' \ tokens :
            /\ t.member = m
            /\ \/ t.version = Never
               \/ t.version = a.version /\ t.secret \in {SecretOf(a), "telegram"}
    <3>1. SecretOf(a) = SecretOf(members[m])
      BY <2>3 DEF SecretOf
    <3> QED BY <2>1, <2>3, <3>1 DEF Sign, TokenOf
  <2>5. invites' \in invites .. MaxInvites /\ UNCHANGED <<requests, staffClock>>
    BY <1>0, <2>1
  <2>6. \A n \in Present \ {m} :
            /\ members[n].telegram = a.telegram => a.telegram = Nobody
            /\ members[n].invite = a.invite => a.invite = NoInvite
    BY <2>2, <2>3, LockIsKept
  <2> QED BY <1>0, <2>2, <2>3, <2>4, <2>5, <2>6, AccountStep
<1>6. CASE LoginWithPin \/ AuthenticateTelegram
  <2>1. PICK m \in Present, secret \in {"pin", "telegram"} :
          /\ Sign(m, members[m], secret)
          /\ secret = "pin" => members[m].role # "owner"
          /\ UNCHANGED <<members, requests, invites, wrong, staffClock>>
    BY <1>6 DEF LoginWithPin, AuthenticateTelegram
  <2>2. members = [members EXCEPT ![m] = members[m]]
    BY <1>0 DEF StaffTyped
  <2>3. /\ tokens \subseteq tokens'
        /\ \A t \in tokens' \ tokens :
            /\ t.member = m
            /\ \/ t.version = Never
               \/ t.version = members[m].version /\ t.secret \in {SecretOf(members[m]), "telegram"}
    BY <2>1 DEF Sign, TokenOf
  <2> DEFINE a == members[m]
  <2>4. /\ members' = [members EXCEPT ![m] = a] /\ wrong' = [wrong EXCEPT ![m] = wrong[m]]
        /\ invites' \in invites .. MaxInvites /\ UNCHANGED <<requests, staffClock>>
    BY <1>0, <2>1, <2>2, LockIsKept
  <2>5. /\ a \in Account /\ a.version = members[m].version /\ a.password = members[m].password
        /\ a.invite = members[m].invite
        /\ IF a.lockedUntil = Never THEN wrong[m].count <= a.failures /\ a.failures < MaxFailures
           ELSE wrong[m].last # Never /\ a.lockedUntil = wrong[m].last + LockTime
        /\ wrong[m] \in [count : Nat, last : Nat \cup {Never}] /\ wrong[m].count <= MaxFailures
        /\ \A n \in Present \ {m} :
              /\ members[n].telegram = a.telegram => a.telegram = Nobody
              /\ members[n].invite = a.invite => a.invite = NoInvite
        /\ \A t \in tokens' \ tokens :
              /\ t.member = m
              /\ \/ t.version = Never
                 \/ t.version = a.version /\ t.secret \in {SecretOf(a), "telegram"}
    BY <2>3, LockIsKept
  <2>6. tokens \subseteq tokens' /\ m \in Present
    BY <2>3
  <2> HIDE DEF a
  <2> QED BY <1>0, <2>4, <2>5, <2>6, AccountStep
<1>7. CASE CreateInvite
  <2>1. PICK m \in Present :
          /\ invites < MaxInvites /\ invites' = invites + 1
          /\ members' = [members EXCEPT ![m].invite = invites + 1,
                                        ![m].expires = staffClock + InviteTime]
          /\ UNCHANGED <<requests, tokens, wrong, staffClock>>
    BY <1>7 DEF CreateInvite
  <2> DEFINE b == members[m]
             i == invites + 1
             x == staffClock + InviteTime
             named == [b EXCEPT !.invite = i]
             a == [named EXCEPT !.expires = x]
  <2>2. b \in Account /\ i \in 0 .. MaxInvites /\ x \in Nat /\ m \in Member
    BY <1>0, <2>1, LockIsKept, StaffNumbers
  <2>3. members' = [members EXCEPT ![m] = a]
    BY <1>0, <2>1, <2>2 DEF StaffTyped
  <2>4. invites' \in invites .. MaxInvites /\ i = invites'
    BY <1>0, <2>1
  <2>5. \A n \in Present : members[n].invite # i
    <3>1. \A n \in Present : members[n].invite <= invites /\ members[n].invite \in Nat
      BY <1>0 DEF StaffInv, StaffTyped, LinksAreUnique, Account, Present, Exists
    <3> QED BY <1>0, <3>1
  <2>6. invites < i /\ i <= invites'
    BY <1>0, <2>4
  <2> HIDE DEF i, x
  <2>7. /\ a \in Account /\ a.invite = i /\ a.telegram = b.telegram
        /\ a.version = b.version /\ a.password = b.password
        /\ a.failures = b.failures /\ a.lockedUntil = b.lockedUntil
    BY <2>2 DEF Account
  <2> HIDE DEF a, named
  <2>8. /\ IF a.lockedUntil = Never THEN wrong[m].count <= a.failures /\ a.failures < MaxFailures
           ELSE wrong[m].last # Never /\ a.lockedUntil = wrong[m].last + LockTime
        /\ wrong' = [wrong EXCEPT ![m] = wrong[m]]
        /\ wrong[m] \in [count : Nat, last : Nat \cup {Never}] /\ wrong[m].count <= MaxFailures
    BY <2>1, <2>7, LockIsKept
  <2>9. \A n \in Present \ {m} :
            /\ members[n].telegram = a.telegram => a.telegram = Nobody
            /\ members[n].invite = a.invite => a.invite = NoInvite
    BY <2>5, <2>7, LockIsKept
  <2>10. /\ tokens \subseteq tokens' /\ tokens' \ tokens = {} /\ UNCHANGED <<requests, staffClock>>
         /\ invites < a.invite /\ a.invite <= invites'
    BY <2>1, <2>6, <2>7
  <2>11. a.version = members[m].version /\ a.password = members[m].password /\ a \in Account
    BY <2>7
  <2> QED BY <1>0, <2>3, <2>4, <2>8, <2>9, <2>10, <2>11, AccountStep
<1>8. ASSUME NEW q \in StaffRequest, Administer(q) \/ Remove(q)
      PROVE  StaffInv'
  <2>1. PICK m \in Present :
          \/ \E by \in {"owner", "admin"} :
                Asks(q, [phase |-> "permitted", member |-> m, by |-> by])
          \/ Asks(q, [phase |-> "delete", member |-> m, role |-> members[m].role])
    BY <1>8 DEF Administer, Remove
  <2>2. m \in Member
    BY DEF Present
  <2>3. /\ \A by : RequestOK([phase |-> "permitted", member |-> m, by |-> by])
        /\ RequestOK([phase |-> "delete", member |-> m, role |-> members[m].role])
    BY <2>2 DEF RequestOK
  <2> QED BY <2>1, <2>3, AskStep
<1>9. ASSUME NEW q \in StaffRequest, ReadAccount(q)
      PROVE  StaffInv'
  <2>1. requests[q].member \in Member /\ UNCHANGED Data
    BY <1>0, <1>9 DEF ReadAccount, RequestOK
  <2>2. CASE Goes(q, Ready)
    BY <1>0, <1>1, <2>1, <2>2
  <2>3. ASSUME NEW todo \in Plans(requests[q].member, members[requests[q].member], requests[q].by),
               Exists(requests[q].member), Goes(q, [phase |-> "write", todo |-> todo])
        PROVE  StaffInv'
    <3>1. members[requests[q].member] \in Account
      BY <1>0, <2>1, <2>3 DEF StaffTyped, Exists
    <3>2. todo \in Seq(ColumnChange) /\ todo # <<>>
      BY <2>1, <2>3, <3>1, PlansAreChanges
    <3>3. RequestOK([phase |-> "write", todo |-> todo])
      BY <3>2 DEF RequestOK
    <3> QED BY <1>1, <2>1, <2>3, <3>3
  <2> QED BY <1>9, <2>2, <2>3 DEF ReadAccount
<1>10. ASSUME NEW q \in StaffRequest, AutoEnd(q)
       PROVE  StaffInv'
  <2>0. PICK S \in SUBSET {m \in Present : members[m].isOnShift} :
          S # {} /\ \E order \in [1 .. Cardinality(S) -> S] :
             Asks(q, [phase |-> "write",
                      todo |-> [i \in DOMAIN order |-> EndShift(order[i], members[order[i]])]])
    BY <1>10 DEF AutoEnd
  <2>1. PICK order \in [1 .. Cardinality(S) -> S] :
          Asks(q, [phase |-> "write",
                   todo |-> [i \in DOMAIN order |-> EndShift(order[i], members[order[i]])]])
    BY <2>0
  <2> DEFINE todo == [i \in DOMAIN order |-> EndShift(order[i], members[order[i]])]
  <2>2. todo \in Seq(ColumnChange) /\ todo # <<>>
    <3>1. S \in SUBSET Present /\ S # {}
      BY <2>0
    <3> QED BY <3>1, EndsAreChanges
  <2>3. Asks(q, [phase |-> "write", todo |-> todo])
    BY <2>1
  <2> HIDE DEF todo
  <2>4. RequestOK([phase |-> "write", todo |-> todo])
    BY <2>2 DEF RequestOK
  <2> QED BY <2>3, <2>4, AskStep
<1>11. ASSUME NEW q \in StaffRequest, WriteFields(q)
       PROVE  StaffInv'
  <2> DEFINE todo == requests[q].todo
             c == Head(todo)
             m == c.member
             a == Updated(members[m], c.columns)
             rest == Tail(todo)
             next == IF rest = <<>> THEN Ready ELSE [phase |-> "write", todo |-> rest]
  <2>1. todo \in Seq(ColumnChange) /\ todo # <<>>
    BY <1>0, <1>11 DEF WriteFields, RequestOK
  <2>2. c \in ColumnChange /\ rest \in Seq(ColumnChange)
    <3> HIDE DEF todo
    <3> QED BY <2>1
  <2>3. m \in Member /\ c.columns \in Columns
    BY <2>2 DEF ColumnChange
  <2>4. /\ UNCHANGED <<tokens, invites, wrong, staffClock, asked>>
        /\ \/ /\ MatchesRole(c)
              /\ "telegram" \in DOMAIN c.columns => Unique(m, c.columns.telegram)
              /\ members' = [members EXCEPT ![m] = a]
              /\ Goes(q, next)
           \/ Goes(q, Ready) /\ UNCHANGED members
    BY <1>11 DEF WriteFields
  <2>5. CASE Goes(q, Ready) /\ UNCHANGED members
    BY <1>0, <1>1, <2>4, <2>5 DEF Data
  <2>6. CASE /\ MatchesRole(c)
             /\ "telegram" \in DOMAIN c.columns => Unique(m, c.columns.telegram)
             /\ members' = [members EXCEPT ![m] = a]
             /\ Goes(q, next)
    <3>1. m \in Present /\ members[m] \in Account
      BY <1>0, <2>3, <2>6 DEF MatchesRole, Present, Exists, StaffTyped
    <3>2. /\ a \in Account
          /\ a.version = members[m].version /\ a.password = members[m].password
          /\ a.invite = members[m].invite /\ a.failures = members[m].failures
          /\ a.lockedUntil = members[m].lockedUntil
          /\ "telegram" \notin DOMAIN c.columns => a.telegram = members[m].telegram
          /\ "telegram" \in DOMAIN c.columns => a.telegram = c.columns.telegram
      BY <2>3, <3>1, ColumnsAreKept
    <3>3. RequestOK(next) /\ next.phase # "consume"
      BY <1>0, <2>2 DEF RequestOK
    <3>8. /\ members' = [members EXCEPT ![m] = a] /\ Goes(q, next)
          /\ "telegram" \in DOMAIN c.columns => Unique(m, c.columns.telegram)
      BY <2>6
    <3>9. UNCHANGED <<tokens, invites, wrong, staffClock>>
      BY <2>4
    <3> HIDE DEF next, a, c, m
    <3>4. /\ requests' = [r \in StaffRequest |-> requests'[r]]
          /\ \A r \in StaffRequest :
                \/ requests'[r] = requests[r]
                \/ requests'[r].phase # "consume" /\ RequestOK(requests'[r])
      BY <3>3, <3>8, OneGoes
    <3>5. /\ wrong' = [wrong EXCEPT ![m] = wrong[m]]
          /\ wrong[m] \in [count : Nat, last : Nat \cup {Never}] /\ wrong[m].count <= MaxFailures
          /\ IF a.lockedUntil = Never THEN wrong[m].count <= a.failures /\ a.failures < MaxFailures
             ELSE wrong[m].last # Never /\ a.lockedUntil = wrong[m].last + LockTime
      BY <3>1, <3>2, <3>9, LockIsKept
    <3>6. \A n \in Present \ {m} :
            /\ members[n].telegram = a.telegram => a.telegram = Nobody
            /\ members[n].invite = a.invite => a.invite = NoInvite
      BY <3>1, <3>2, <3>8, LockIsKept DEF Unique
    <3>7. /\ invites' \in invites .. MaxInvites /\ UNCHANGED staffClock
          /\ tokens \subseteq tokens' /\ tokens' \ tokens = {}
      BY <1>0, <3>9
    <3> QED BY <3>1, <3>2, <3>4, <3>5, <3>6, <3>7, <3>8, AccountStep
  <2> QED BY <2>4, <2>5, <2>6
<1>12. ASSUME NEW q \in StaffRequest, DeletePermanently(q)
       PROVE  StaffInv'
  <2>0. requests[q].member \in Member
    BY <1>0, <1>12 DEF DeletePermanently, RequestOK
  <2>1. PICK m \in Member :
        /\ Goes(q, Ready) /\ UNCHANGED <<tokens, invites, wrong, staffClock, asked>>
        /\ \/ UNCHANGED members
           \/ Exists(m) /\ members' = [members EXCEPT ![m] = Deleted]
    BY <2>0, <1>12 DEF DeletePermanently
  <2>2. CASE UNCHANGED members
    BY <1>0, <1>1, <2>1, <2>2 DEF Data
  <2>3. CASE Exists(m) /\ members' = [members EXCEPT ![m] = Deleted]
    <3>1. /\ members' \in [Member -> Account \cup {NoAccount, Deleted}]
          /\ members'[m] = Deleted /\ Deleted # NoAccount /\ members[m] # NoAccount
          /\ \A n \in Member \ {m} : members'[n] = members[n]
      BY <1>0, <2>1, <2>3 DEF StaffTyped, Exists, Deleted, NoAccount
    <3>2. Present' = Present \ {m}
      BY <2>1, <3>1 DEF Present, Exists
    <3>3. /\ requests' = [r \in StaffRequest |-> requests'[r]]
          /\ \A r \in StaffRequest : requests'[r] \in {requests[r], Ready}
      BY <2>1, OneGoes
    <3>4. StaffTyped'
      <4>1. \A r \in StaffRequest : RequestOK(requests[r])'
        BY <1>0, <2>1, <3>3 DEF RequestOK, Ready
      <4> QED BY <1>0, <2>1, <3>1, <3>3, <4>1 DEF StaffTyped
    <3>5. LinksAreUnique' /\ FirstPasswordIsDated'
      BY <2>1, <3>1, <3>2 DEF StaffInv, LinksAreUnique, FirstPasswordIsDated, Present
    <3>6. TokensAreDated'
      <4>1. \A t \in tokens : t.member \in Member
        BY <1>0 DEF StaffTyped
      <4> QED BY <2>1, <3>1, <4>1 DEF StaffInv, TokensAreDated, Exists
    <3>7. ConfirmationsAreDated'
      <4>1. \A r \in StaffRequest : requests'[r].phase = "consume" => requests'[r] = requests[r]
        BY <1>0, <3>3
      <4> QED BY <3>1, <3>2, <4>1 DEF StaffInv, ConfirmationsAreDated, Present
    <3>8. LocksAreLong' /\ GuessesAreLimited'
      <4>1. ~Exists(m)' /\ \A n \in Member \ {m} : Exists(n)' = Exists(n)
        BY <3>1 DEF Exists
      <4> QED BY <2>1, <3>1, <4>1 DEF StaffInv, LocksAreLong, GuessesAreLimited
    <3> QED BY <3>4, <3>5, <3>6, <3>7, <3>8 DEF StaffInv
  <2> QED BY <2>1, <2>2, <2>3
<1>13. ASSUME NEW q \in StaffRequest, Bootstrap(q)
       PROVE  StaffInv'
  <2>1. \E r \in StaffRole, p \in BOOLEAN : Asks(q, [phase |-> "make", role |-> r, pin |-> p])
    BY <1>13 DEF Bootstrap, StaffRole
  <2>2. \A r \in StaffRole, p \in BOOLEAN : RequestOK([phase |-> "make", role |-> r, pin |-> p])
    BY DEF RequestOK
  <2> QED BY <2>1, <2>2, AskStep
<1>14. ASSUME NEW q \in StaffRequest, MakeFirst(q)
       PROVE  StaffInv'
  <2>1. /\ requests[q].role \in StaffRole /\ requests[q].pin \in BOOLEAN
        /\ Goes(q, Ready) /\ Add(requests[q].role, requests[q].pin)
    BY <1>0, <1>14 DEF MakeFirst, RequestOK
  <2> QED BY <2>1, OneGoes, AddStep
<1>15. ASSUME NEW q \in StaffRequest, ChangeAccess(q) \/ ResolveInvite(q)
       PROVE  StaffInv'
  <2>1. \E s : RequestOK(s) /\ s.phase # "consume" /\ Asks(q, s)
    <3>1. CASE ChangeAccess(q)
      <4>1. PICK t \in tokens, p \in Password :
              /\ Director(t.member)
              /\ Asks(q, [phase |-> "rotate", member |-> t.member,
                          version |-> members[t.member].version, password |-> p])
        BY <3>1 DEF ChangeAccess
      <4>2. t.member \in Member /\ members[t.member].version \in Nat
        BY <1>0, <4>1 DEF StaffTyped, Director, Exists, Account
      <4>3. RequestOK([phase |-> "rotate", member |-> t.member,
                       version |-> members[t.member].version, password |-> p])
        BY <4>2 DEF RequestOK
      <4> QED BY <4>1, <4>3
    <3>2. CASE ResolveInvite(q)
      <4>1. PICK i \in 1 .. invites : \E m \in Invited(i) :
              \/ Asks(q, [phase |-> "credential", invite |-> i, role |-> members[m].role,
                          pin |-> members[m].pin])
              \/ Asks(q, [phase |-> "clear", member |-> m, invite |-> i])
        BY <3>2 DEF ResolveInvite
      <4>2. PICK m \in Invited(i) :
              \/ Asks(q, [phase |-> "credential", invite |-> i, role |-> members[m].role,
                          pin |-> members[m].pin])
              \/ Asks(q, [phase |-> "clear", member |-> m, invite |-> i])
        BY <4>1
      <4>3. m \in Member
        BY DEF Invited, Present
      <4>4. /\ RequestOK([phase |-> "credential", invite |-> i, role |-> members[m].role,
                          pin |-> members[m].pin])
            /\ RequestOK([phase |-> "clear", member |-> m, invite |-> i])
        BY <4>3 DEF RequestOK
      <4> QED BY <4>2, <4>4
    <3> QED BY <1>15, <3>1, <3>2
  <2> QED BY <2>1, AskStep
<1>16. ASSUME NEW q \in StaffRequest, UpdateDirectorAccess(q)
       PROVE  StaffInv'
  <2>0. /\ requests[q].member \in Member /\ requests[q].version \in Nat
        /\ requests[q].password \in Password
    BY <1>0, <1>16 DEF UpdateDirectorAccess, RequestOK
  <2> DEFINE v == requests[q].version
             p == requests[q].password
             zeroed(m) == [members[m] EXCEPT !.failures = 0]
             free(m) == [zeroed(m) EXCEPT !.lockedUntil = Never]
             dated(m) == [free(m) EXCEPT !.version = NextVersion(v)]
             changed(m) == [dated(m) EXCEPT !.password = p]
             none == [count |-> 0, last |-> Never]
  <2>1. PICK m \in Member :
        /\ Goes(q, Ready) /\ UNCHANGED <<invites, staffClock, asked>>
        /\ \/ UNCHANGED <<members, tokens, wrong>>
           \/ /\ Director(m) /\ members[m].version = v
              /\ members' = [members EXCEPT ![m] = changed(m)]
              /\ Sign(m, changed(m), p)
              /\ wrong' = [wrong EXCEPT ![m] = none]
    <3>2. \A m \in Member : Exists(m) => changed(m).password = p
      <4> SUFFICES ASSUME NEW m \in Member, Exists(m) PROVE changed(m).password = p
        OBVIOUS
      <4>1. members[m] \in Account
        BY <1>0 DEF StaffTyped, Exists
      <4> QED BY <4>1 DEF Account
    <3> DEFINE m == requests[q].member
    <3>3. \/ UNCHANGED <<members, tokens, wrong>>
          \/ /\ Director(m) /\ members[m].version = v
             /\ members' = [members EXCEPT ![m] = changed(m)]
             /\ Sign(m, changed(m), changed(m).password)
             /\ wrong' = [wrong EXCEPT ![m] = none]
      BY <1>16 DEF UpdateDirectorAccess, SameCredentials, AfterRight
    <3>4. Director(m) => changed(m).password = p
      BY <2>0, <3>2 DEF Director
    <3>5. Goes(q, Ready) /\ UNCHANGED <<invites, staffClock, asked>> /\ m \in Member
      BY <1>16, <2>0 DEF UpdateDirectorAccess
    <3> HIDE DEF m, changed, none
    <3> QED BY <3>3, <3>4, <3>5
  <2>2. CASE UNCHANGED <<members, tokens, wrong>>
    BY <1>0, <1>1, <2>1, <2>2 DEF Data
  <2>3. CASE /\ Director(m) /\ members[m].version = v
             /\ members' = [members EXCEPT ![m] = changed(m)]
             /\ Sign(m, changed(m), p)
             /\ wrong' = [wrong EXCEPT ![m] = none]
    <3> DEFINE x == NextVersion(v)
               a == changed(m)
    <3>1. m \in Present
      BY <2>3 DEF Director, Present
    <3>2. x \in Nat /\ x > v /\ v \in Nat /\ p \in Password
      BY <1>0, <2>0 DEF NextVersion
    <3> HIDE DEF x, v, p
    <3>3. zeroed(m) \in Account /\ zeroed(m).failures = 0
      BY <3>1, LockIsKept, StaffNumbers DEF Account
    <3>4. free(m) \in Account /\ free(m).failures = 0 /\ free(m).lockedUntil = Never
          /\ free(m).telegram = members[m].telegram /\ free(m).invite = members[m].invite
      BY <3>1, <3>3, LockIsKept DEF Account
    <3> HIDE DEF free
    <3>5. [free(m) EXCEPT !.version = x] \in Account
      BY <3>2, <3>4 DEF Account
    <3>6. /\ a \in Account /\ a.version = x /\ a.password = p
          /\ a.failures = 0 /\ a.lockedUntil = Never
          /\ a.telegram = members[m].telegram /\ a.invite = members[m].invite
      BY <3>2, <3>4, <3>5 DEF Account, x
    <3>7. SecretOf(a) = p
      BY <3>2, <3>6 DEF SecretOf
    <3>8. /\ members' = [members EXCEPT ![m] = a] /\ wrong' = [wrong EXCEPT ![m] = none]
          /\ Sign(m, a, p) /\ members[m].version = v
      BY <2>3
    <3> HIDE DEF a, changed
    <3>9. /\ tokens \subseteq tokens'
          /\ \A t \in tokens' \ tokens :
              /\ t.member = m
              /\ \/ t.version = Never
                 \/ t.version = a.version /\ t.secret \in {SecretOf(a), "telegram"}
      BY <3>7, <3>8 DEF Sign, TokenOf
    <3>10. /\ requests' = [r \in StaffRequest |-> requests'[r]]
           /\ \A r \in StaffRequest :
                 \/ requests'[r] = requests[r]
                 \/ requests'[r].phase # "consume" /\ RequestOK(requests'[r])
      BY <1>0, <2>1, OneGoes
    <3>11. \A n \in Present \ {m} :
             /\ members[n].telegram = a.telegram => a.telegram = Nobody
             /\ members[n].invite = a.invite => a.invite = NoInvite
      BY <3>1, <3>6, LockIsKept
    <3>12. none \in [count : Nat, last : Nat \cup {Never}] /\ none.count = 0
      OBVIOUS
    <3>13. /\ none.count <= a.failures /\ a.failures < MaxFailures /\ none.count <= MaxFailures
           /\ a.version > members[m].version
           /\ invites' \in invites .. MaxInvites /\ UNCHANGED staffClock
      BY <1>0, <2>1, <3>2, <3>6, <3>8, <3>12, StaffNumbers
    <3> HIDE DEF none
    <3> QED BY <3>1, <3>6, <3>8, <3>9, <3>10, <3>11, <3>12, <3>13, AccountStep
  <2> QED BY <2>1, <2>2, <2>3
<1>17. ASSUME NEW q \in StaffRequest, ClearInvite(q)
       PROVE  StaffInv'
  <2>0. requests[q].member \in Member
    BY <1>0, <1>17 DEF ClearInvite, RequestOK
  <2>1. PICK m \in Member :
        /\ Goes(q, Ready) /\ UNCHANGED <<tokens, invites, wrong, staffClock, asked>>
        /\ \/ UNCHANGED members
           \/ /\ Exists(m)
              /\ members' = [members EXCEPT ![m].invite = NoInvite, ![m].expires = Never]
    BY <2>0, <1>17 DEF ClearInvite
  <2>2. CASE UNCHANGED members
    BY <1>0, <1>1, <2>1, <2>2 DEF Data
  <2>3. CASE /\ Exists(m)
             /\ members' = [members EXCEPT ![m].invite = NoInvite, ![m].expires = Never]
    <3> DEFINE cleared == [members[m] EXCEPT !.invite = NoInvite]
               a == [cleared EXCEPT !.expires = Never]
    <3>1. m \in Present /\ members[m] \in Account
      BY <2>3, LockIsKept DEF Present
    <3>2. members' = [members EXCEPT ![m] = a]
      BY <1>0, <2>3 DEF StaffTyped
    <3>3. cleared \in Account /\ cleared.invite = NoInvite
      BY <3>1, StaffNumbers DEF Account, NoInvite
    <3>4. /\ a \in Account /\ a.invite = NoInvite /\ a.telegram = members[m].telegram
          /\ a.version = members[m].version /\ a.password = members[m].password
          /\ a.failures = members[m].failures /\ a.lockedUntil = members[m].lockedUntil
      BY <3>1, <3>3 DEF Account
    <3> HIDE DEF a, cleared
    <3> QED BY <1>0, <2>1, <3>1, <3>2, <3>4, OneUpdated
  <2> QED BY <2>1, <2>2, <2>3
<1>18. ASSUME NEW q \in StaffRequest, AssertPin(q)
       PROVE  StaffInv'
  <2> DEFINE s == [phase |-> "consume", invite |-> requests[q].invite, version |-> Never,
                   secret |-> "pin"]
  <2>1. RequestOK(s) /\ s.version = Never
    BY <1>0, <1>18 DEF AssertPin, RequestOK
  <2>2. (Goes(q, s) \/ Goes(q, Ready)) /\ UNCHANGED Data
    BY <1>18 DEF AssertPin, Confirmed
  <2> HIDE DEF s
  <2> QED BY <1>0, <1>1, <2>1, <2>2
<1>19. ASSUME NEW q \in StaffRequest, AssertDirectorCredential(q)
       PROVE  StaffInv'
  <2> DEFINE i == requests[q].invite
             S == {m \in Invited(i) : Usable(members[m])}
             s(m) == [phase |-> "consume", invite |-> i, version |-> members[m].version,
                      secret |-> members[m].password]
  <2>0. i \in 1 .. invites
    BY <1>0, <1>19 DEF AssertDirectorCredential, RequestOK
  <2>1. /\ UNCHANGED <<tokens, invites, staffClock, asked>>
        /\ \/ Goes(q, Ready) /\ UNCHANGED <<members, wrong>>
           \/ \E m \in S, right \in BOOLEAN :
                /\ members[m].password # NoPassword /\ ~LockedOut(members[m])
                /\ Compared(m, right)
                /\ Goes(q, IF right THEN s(m) ELSE Ready)
    BY <1>19 DEF AssertDirectorCredential, Confirmed
  <2>2. CASE Goes(q, Ready) /\ UNCHANGED <<members, wrong>>
    BY <1>0, <1>1, <2>1, <2>2 DEF Data
  <2>3. ASSUME NEW m \in S, NEW right \in BOOLEAN,
               members[m].password # NoPassword, ~LockedOut(members[m]), Compared(m, right),
               Goes(q, IF right THEN s(m) ELSE Ready)
        PROVE  StaffInv'
    <3>1. m \in Present /\ members[m].invite = i
      BY DEF Invited
    <3>2. PICK a \in Account, w \in [count : Nat, last : Nat \cup {Never}] :
            /\ members' = [members EXCEPT ![m] = a] /\ wrong' = [wrong EXCEPT ![m] = w]
            /\ a.role = members[m].role /\ a.version = members[m].version
            /\ a.password = members[m].password
            /\ a.telegram = members[m].telegram /\ a.invite = members[m].invite
            /\ IF a.lockedUntil = Never THEN w.count <= a.failures /\ a.failures < MaxFailures
               ELSE w.last # Never /\ a.lockedUntil = w.last + LockTime
            /\ w.count <= MaxFailures
      BY <2>3, <3>1, ComparisonStep
    <3>3. members[m].version \in Nat /\ members[m].version # 0
      BY <2>3, <3>1, LockIsKept DEF StaffInv, FirstPasswordIsDated, Account
    <3>4. SecretOf(a) = members[m].password
      BY <3>2, <3>3 DEF SecretOf
    <3> DEFINE next == IF right THEN s(m) ELSE Ready
    <3>5. /\ RequestOK(next)
          /\ \/ next.phase # "consume"
             \/ /\ next.invite = a.invite /\ a.invite # NoInvite
                /\ next.version = a.version /\ next.secret = SecretOf(a)
      BY <1>0, <2>0, <3>1, <3>2, <3>3, <3>4 DEF RequestOK, NoInvite
    <3>6. Goes(q, next)
      BY <2>3
    <3> HIDE DEF next, S, i
    <3>7. /\ requests' = [r \in StaffRequest |-> requests'[r]]
          /\ \A r \in StaffRequest :
                \/ requests'[r] = requests[r]
                \/ requests'[r].phase # "consume" /\ RequestOK(requests'[r])
                \/ /\ RequestOK(requests'[r]) /\ requests'[r].invite = a.invite
                   /\ a.invite # NoInvite
                   /\ requests'[r].version = a.version /\ requests'[r].secret = SecretOf(a)
      BY <3>5, <3>6, OneGoes
    <3>8. \A n \in Present \ {m} :
            /\ members[n].telegram = a.telegram => a.telegram = Nobody
            /\ members[n].invite = a.invite => a.invite = NoInvite
      BY <3>1, <3>2, LockIsKept
    <3>9. /\ tokens \subseteq tokens' /\ tokens' \ tokens = {}
          /\ invites' \in invites .. MaxInvites /\ UNCHANGED staffClock
      BY <1>0, <2>1
    <3> QED BY <3>1, <3>2, <3>7, <3>8, <3>9, AccountStep
  <2> HIDE DEF S, s, i
  <2> QED BY <2>1, <2>2, <2>3
<1>20. ASSUME NEW q \in StaffRequest, ConsumeInvite(q)
       PROVE  StaffInv'
  <2> DEFINE i == requests[q].invite
             S == {m \in Invited(i) : Usable(members[m])}
             linked(m, t) == [members EXCEPT ![m] = Linked(members[m], t)]
  <2>0a. requests[q].phase = "consume"
    BY <1>20 DEF ConsumeInvite
  <2>0. i \in 1 .. invites /\ requests[q].version \in Nat \cup {Never}
    BY <1>0, <2>0a DEF RequestOK
  <2>1. \A m, n \in S : m = n
    <3>1. i # NoInvite
      BY <1>0, <2>0 DEF NoInvite
    <3> QED BY <3>1 DEF Invited, StaffInv, LinksAreUnique
  <2>2. /\ Goes(q, Ready) /\ UNCHANGED <<invites, wrong, staffClock, asked>>
        /\ \/ UNCHANGED <<members, tokens>>
           \/ \E t \in Telegram, m, n \in S :
                /\ SameVersion(members[n], requests[q].version) /\ Unique(n, t)
                /\ members' = linked(m, t)
                /\ Sign(m, members[m], requests[q].secret)
    <3>1. PICK t \in Telegram :
            IF \E m \in S : SameVersion(members[m], requests[q].version) /\ Unique(m, t)
            THEN \E m \in S : members' = linked(m, t) /\ Sign(m, members[m], requests[q].secret)
            ELSE UNCHANGED <<members, tokens>>
      BY <1>20 DEF ConsumeInvite
    <3>2. Goes(q, Ready) /\ UNCHANGED <<invites, wrong, staffClock, asked>>
      BY <1>20 DEF ConsumeInvite
    <3> HIDE DEF S, linked
    <3> QED BY <3>1, <3>2
  <2>3. CASE UNCHANGED <<members, tokens>>
    BY <1>0, <1>1, <2>2, <2>3 DEF Data
  <2>4. ASSUME NEW t \in Telegram, NEW m \in S,
               SameVersion(members[m], requests[q].version), Unique(m, t),
               members' = linked(m, t), Sign(m, members[m], requests[q].secret)
        PROVE  StaffInv'
    <3> DEFINE told == [members[m] EXCEPT !.telegram = t]
               cleared == [told EXCEPT !.invite = NoInvite]
               a == [cleared EXCEPT !.expires = Never]
    <3>1. m \in Present /\ members[m] \in Account /\ members[m].invite = i
      BY LockIsKept DEF Invited
    <3>2. members' = [members EXCEPT ![m] = a]
      BY <2>4 DEF Linked
    <3>3. /\ told \in Account /\ told.telegram = t
          /\ told.version = members[m].version /\ told.password = members[m].password
          /\ told.failures = members[m].failures /\ told.lockedUntil = members[m].lockedUntil
      BY <3>1 DEF Account
    <3> HIDE DEF told
    <3>4. /\ cleared \in Account /\ cleared.telegram = t /\ cleared.invite = NoInvite
      BY <3>3, StaffNumbers DEF Account, NoInvite
    <3>4a. /\ cleared.version = members[m].version /\ cleared.password = members[m].password
           /\ cleared.failures = members[m].failures
           /\ cleared.lockedUntil = members[m].lockedUntil
      BY <3>1, <3>3 DEF Account
    <3> HIDE DEF cleared
    <3>5. /\ a \in Account /\ a.telegram = t /\ a.invite = NoInvite
          /\ a.version = members[m].version /\ a.password = members[m].password
          /\ a.failures = members[m].failures /\ a.lockedUntil = members[m].lockedUntil
      BY <3>4, <3>4a DEF Account
    <3>6. SecretOf(a) = SecretOf(members[m]) /\ members[m].version \in Nat
      BY <3>1, <3>5 DEF SecretOf, Account
    <3>7. \/ requests[q].version = Never \/ requests[q].version < members[m].version
          \/ /\ requests[q].version = members[m].version
             /\ requests[q].secret = SecretOf(members[m])
      BY <2>0a, <3>1 DEF StaffInv, ConfirmationsAreDated
    <3>8. members[m].role = "owner" => requests[q].secret = SecretOf(a)
      BY <2>4, <3>6, <3>7 DEF SameVersion, Never
    <3>9. /\ tokens \subseteq tokens'
          /\ \A u \in tokens' \ tokens :
              /\ u.member = m
              /\ \/ u.version = Never
                 \/ u.version = a.version /\ u.secret \in {SecretOf(a), "telegram"}
      <4> HIDE DEF a
      <4> QED BY <2>4, <3>5, <3>8 DEF Sign, TokenOf
    <3>10. a.telegram = Nobody \/ \A n \in Present \ {m} : members[n].telegram # a.telegram
      BY <2>4, <3>5 DEF Unique
    <3> HIDE DEF a, cleared, told, S, linked
    <3> QED BY <2>2, <3>1, <3>2, <3>5, <3>9, <3>10, OneUpdated
  <2> HIDE DEF S, linked, i
  <2> QED BY <2>1, <2>2, <2>3, <2>4
<1> QED
  BY <1>2, <1>3, <1>4, <1>5, <1>6, <1>7, <1>8, <1>9, <1>10, <1>11, <1>12, <1>13, <1>14, <1>15,
     <1>16, <1>17, <1>18, <1>19, <1>20 DEF StaffNext

LEMMA StaffAlways == StaffSpec => []StaffInv
BY StaffInitially, StaffStep, PTL DEF StaffSpec

\* Every account has its columns, and no two the same Telegram account or
\* invitation (staff.service.ts, staff-telegram-link.service.ts).
THEOREM StaffTypesHold == StaffSpec => []StaffTypeOK
<1>1. StaffInv => StaffTypeOK
  BY DEF StaffInv, StaffTyped, StaffTypeOK, LinksAreUnique, Exists
<1> QED BY <1>1, StaffAlways, PTL

\* A director's token is accepted only with the credentials in force, whatever
\* rotations, logins, promotions and links to Telegram cross each other; and no
\* more passwords are compared in a row than the lock allows.
THEOREM SessionsAreAlwaysSafe == StaffSpec => []SessionsAreSafe
<1>1. StaffInv => SessionsAreSafe
  <2> SUFFICES ASSUME StaffInv, NEW t \in tokens, Accepted(t), members[t.member].role = "owner"
               PROVE  t.secret \in {SecretOf(members[t.member]), "telegram"}
    BY DEF StaffInv, SessionsAreSafe, SessionsAreCurrent
  <2>1. /\ Exists(t.member) /\ t.version = members[t.member].version
        /\ t.member \in Member /\ members[t.member].version \in Nat
    BY DEF StaffInv, StaffTyped, Accepted, Exists, Account
  <2> QED BY <2>1 DEF StaffInv, TokensAreDated, Never
<1> QED BY <1>1, StaffAlways, PTL

-----------------------------------------------------------------------------
(* The three side by side *)

\* A behaviour of the back office side by side, as it is checked together, is one of each
\* part: what is proved of bills, of the right to speak and of accounts holds there.
THEOREM OfficeSideBySide == MCSpec => Spec /\ ControlSpec /\ StaffSpec
<1>1. MCInit => Init /\ ControlInit /\ StaffInit
  BY DEF MCInit
<1>2. [MCNext]_allVars => [Next]_vars /\ [ControlNext]_controlVars /\ [StaffNext]_staffVars
  BY DEF MCNext, allVars
<1> QED BY <1>1, <1>2, PTL DEF MCSpec, Spec, ControlSpec, StaffSpec

\* Ledgers, commands and accounts keep their shape.
THEOREM OfficeTyped == MCSpec => []MCTypeOK
<1>1. TypeOK /\ ControlTypeOK /\ StaffTypeOK => MCTypeOK
  BY DEF MCTypeOK
<1> QED BY <1>1, OfficeSideBySide, TypeCorrect, ControlTypesHold, StaffTypesHold, PTL
=============================================================================
