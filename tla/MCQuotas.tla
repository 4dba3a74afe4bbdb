------------------------------- MODULE MCQuotas -------------------------------
(***************************************************************************)
(* Small instances of StaffPinThrottle, SyrveRequestLimiter and            *)
(* TelegramDrafts, side by side: they share no state, so each behaviour is *)
(* one of the three, and the others are at rest.                           *)
(***************************************************************************)
EXTENDS StaffPinThrottle, SyrveRequestLimiter, TelegramDrafts, TLC

VARIABLE subject \* which of the three

MCInit ==
    /\ Init /\ LimiterInit /\ DraftsInit
    /\ subject \in {"throttle", "limiter", "drafts"}

MCNext ==
    /\ UNCHANGED subject
    /\ \/ subject = "throttle" /\ Next /\ UNCHANGED <<limiterVars, draftVars>>
       \/ subject = "limiter" /\ LimiterNext /\ UNCHANGED <<vars, draftVars>>
       \/ subject = "drafts" /\ DraftsNext /\ UNCHANGED <<vars, limiterVars>>

MCSpec == MCInit /\ [][MCNext]_<<vars, limiterVars, draftVars, subject>>

\* Every variable of the one that moves has its type; the others do not change.  For
\* the limiter, which has the most states, its proof is enough.
MCTypeOK ==
    /\ subject = "throttle" => TypeOK
    /\ subject = "drafts" => DraftsTypeOK

\* Handlers are named like calls.
Symmetric == Permutations(Call) \cup Permutations(Caller)
=============================================================================
