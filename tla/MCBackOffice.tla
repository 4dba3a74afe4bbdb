---------------------------- MODULE MCBackOffice ----------------------------
(***************************************************************************)
(* Small instances of three modules side by side: bills that move between  *)
(* two registers (SyrveTables), the right to speak to the registers        *)
(* (SyrveControl) and the accounts of the staff (StaffAccounts).  They     *)
(* share no state, so each behaviour is one of the three, and the others   *)
(* are at rest.                                                            *)
(***************************************************************************)
EXTENDS MCSyrveTables, SyrveControl, StaffAccounts

VARIABLE subject  \* which of the three

allVars == <<subject, vars, controlVars, staffVars>>

\* At rest: one of the initial states.
StaffAtRest == \A m \in Member : members[m] /= NoAccount /\ members[m].version = 0

MCInit ==
    /\ Init /\ ControlInit /\ StaffInit
    /\ subject \in {"bills", "control", "staff"}
    /\ subject /= "staff" => StaffAtRest

MCNext ==
    /\ UNCHANGED subject
    /\ \/ subject = "bills" /\ Next /\ UNCHANGED <<controlVars, staffVars>>
       \/ subject = "control" /\ ControlNext /\ UNCHANGED <<vars, staffVars>>
       \/ subject = "staff" /\ StaffNext /\ UNCHANGED <<vars, controlVars>>

\* At rest nothing of SyrveControl can happen that its fairness speaks of.
MCSpec == MCInit /\ [][MCNext]_allVars /\ ControlFairness

\* Every variable has its type.
MCTypeOK == TypeOK /\ ControlTypeOK /\ StaffTypeOK
=============================================================================
