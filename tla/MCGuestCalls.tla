----------------------------- MODULE MCGuestCalls -----------------------------
(***************************************************************************)
(* Small instances of WaiterCalls, HookahCalls and TelegramBot, side by    *)
(* side: they share no state, so each behaviour is one of the three, and   *)
(* the others are at rest.                                                 *)
(***************************************************************************)
EXTENDS WaiterCalls, HookahCalls, TelegramBot, TLC

VARIABLE subject \* which of the three

allVars == <<subject, vars, hookahVars, botVars>>

\* At rest: one of the initial states.
MCInit ==
    /\ Init /\ HookahInit /\ BotInit
    /\ subject \in {"waiter", "hookah", "bot"}
    /\ subject /= "waiter" => \A a, b \in Booking : visits[a] = visits[b]
    /\ subject /= "bot" => part = "call"

MCNext ==
    /\ UNCHANGED subject
    /\ \/ subject = "waiter" /\ Next /\ UNCHANGED <<hookahVars, botVars>>
       \/ subject = "hookah" /\ HookahNext /\ UNCHANGED <<vars, botVars>>
       \/ subject = "bot" /\ BotNext /\ UNCHANGED <<vars, hookahVars>>

MCSpec == MCInit /\ [][MCNext]_allVars

\* Every variable of the three has its type.
MCTypeOK == TypeOK /\ HookahTypeOK /\ BotTypeOK

\* Calls and staff are named alike, and requests like bookings.
Symmetric == Permutations(Table) \cup Permutations(Waiter) \cup Permutations(Call)
                 \cup Permutations(Booking)
=============================================================================
