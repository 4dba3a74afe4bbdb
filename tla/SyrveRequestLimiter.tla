------------------------- MODULE SyrveRequestLimiter -------------------------
(***************************************************************************)
(* The quota of requests to Syrve, shared by every process of the backend  *)
(* (src/backend/src/syrve/syrve-request-limiter.ts, and postJson of        *)
(* syrve-client.ts, which uses it).                                        *)
(*                                                                         *)
(* A caller claims a permit in a short database transaction, waits and     *)
(* tries again when the quota is used up, and must send the request before *)
(* the permit expires.  Requests for directories have a quota of their     *)
(* own; the row of the login is a barrier that all requests respect, and   *)
(* a pause that Syrve asks for (429) is kept in that row.                  *)
(*                                                                         *)
(* Time is measured in one unit by the database and by the processes.      *)
(***************************************************************************)
EXTENDS Integers, Sequences, FiniteSets

CONSTANTS
    Caller,         \* concurrent callers of postJson, in any process
    Gap,            \* SYRVE_REQUEST_GAP_MS
    DirectoryGap,   \* SYRVE_DIRECTORY_REQUEST_GAP_MS
    Lifetime,       \* SYRVE_PERMIT_LIFETIME_MS
    MaxAttempts,    \* attempts of one acquire (the code: 8)
    Cooldowns,      \* the pauses Syrve asks for
    LimiterHorizon, \* bound: time stops here
    MaxGrants,      \* bound: permits granted
    MaxPauses       \* bound: pauses recorded

ASSUME LimiterAssumption ==
    /\ Gap \in Nat \ {0} /\ DirectoryGap \in Nat \ {0} /\ DirectoryGap <= Gap
    /\ Lifetime \in Nat \ {0} /\ MaxAttempts \in Nat \ {0}
    /\ Cooldowns \subseteq Nat \ {0}
    /\ LimiterHorizon \in Nat /\ MaxGrants \in Nat /\ MaxPauses \in Nat

VARIABLES
    time,          \* the clock
    barrier,       \* next_request_at of the login's row
    directoryNext, \* next_request_at of the row of its directory quota
    caller,        \* what each caller is doing
    grants,        \* history: the permits granted, and when each was used
    pauses         \* history: the pauses recorded

limiterVars == <<time, barrier, directoryNext, caller, grants, pauses>>

Groups == {"directories", "conservative"}
CallerPhases == {"idle", "claiming", "granted", "permitted", "waiting", "sent"}
NotSent == -1

Grant == [group : Groups, at : Nat, sentAt : Nat \cup {NotSent}]
Pause == [from : Nat, to : Nat]

CallerState ==
    [phase   : CallerPhases,
     group   : Groups,
     attempt : Nat,
     started : Nat, \* when the current attempt began
     wake    : Nat, \* when the timer of a waiting caller fires
     expires : Nat, \* expiresAt of the permit
     grant   : Nat] \* the place of the permit in grants

IdleCaller == [phase |-> "idle", group |-> "conservative", attempt |-> 0,
               started |-> 0, wake |-> 0, expires |-> 0, grant |-> 0]

LimiterInit ==
    /\ time = 0
    /\ barrier = 0 /\ directoryNext = 0
    /\ caller = [c \in Caller |-> IdleCaller]
    /\ grants = <<>> /\ pauses = {}

Larger(a, b) == IF a >= b THEN a ELSE b

\* Only the state of caller c changes.
CallerBecomes(c, s) == /\ caller' = [caller EXCEPT ![c] = s]
                       /\ UNCHANGED <<time, barrier, directoryNext, grants, pauses>>

-----------------------------------------------------------------------------
(* acquire *)

\* A request of some group begins: its first claim leaves for the database.
Request(c, group) ==
    /\ caller[c].phase = "idle"
    /\ CallerBecomes(c, [IdleCaller EXCEPT !.phase = "claiming", !.group = group,
                                           !.started = time])

\* The delay is over, and the next attempt begins.
Retry(c) ==
    /\ caller[c].phase = "waiting" /\ time >= caller[c].wake
    /\ caller[c].attempt + 1 < MaxAttempts
    /\ CallerBecomes(c, [IdleCaller EXCEPT !.phase = "claiming", !.group = caller[c].group,
                                           !.attempt = caller[c].attempt + 1, !.started = time])

\* The attempts are used up.
GiveUp(c) ==
    /\ caller[c].phase = "waiting" /\ time >= caller[c].wake
    /\ caller[c].attempt + 1 >= MaxAttempts
    /\ CallerBecomes(c, IdleCaller)

\* Slip: the directory quota alone decides about a directory request.
OwnQuotaDelay(group) ==
    IF group = "directories" THEN Larger(0, directoryNext - time)
                             ELSE Larger(0, barrier - time)

\* How long a request of the group has to wait still; 0: it may go.
QuotaDelay(group) ==
    IF group = "directories"
    THEN IF barrier > time THEN barrier - time ELSE Larger(0, directoryNext - time)
    ELSE Larger(0, barrier - time)

\* Slip: every request reserves the short gap of the directories.
ReserveShortGap(group) ==
    /\ barrier' = time + DirectoryGap
    /\ directoryNext' = IF group = "directories" THEN time + DirectoryGap
                                                ELSE directoryNext

\* What a granted claim writes to the two rows.
ReserveQuota(group) ==
    IF group = "directories"
    THEN /\ barrier' = time + DirectoryGap
         /\ directoryNext' = time + DirectoryGap
    ELSE /\ barrier' = time + Gap
         /\ UNCHANGED directoryNext

\* The transaction of claim: a permit, whose answer is on its way, or a delay to
\* wait for.
Claim(c) ==
    LET group == caller[c].group
        delay == QuotaDelay(group)
    IN  /\ caller[c].phase = "claiming"
        /\ UNCHANGED <<time, pauses>>
        /\ \/ /\ delay = 0 /\ Len(grants) < MaxGrants
              /\ ReserveQuota(group)
              /\ grants' = Append(grants, [group |-> group, at |-> time,
                                           sentAt |-> NotSent])
              /\ caller' = [caller EXCEPT
                     ![c] = [IdleCaller EXCEPT !.phase = "granted", !.grant = Len(grants) + 1,
                                               !.started = caller[c].started]]
           \/ /\ delay > 0
              /\ UNCHANGED <<barrier, directoryNext, grants>>
              /\ caller' = [caller EXCEPT
                     ![c] = [IdleCaller EXCEPT !.phase = "waiting", !.wake = time + delay,
                                               !.group = group,
                                               !.attempt = caller[c].attempt]]

\* Slip: the permit's life begins with the answer of the database.
ExpiryFromAnswer(c) == time + Lifetime

\* A permit's life begins before the claim left.  (The caller's deadline may cut
\* it short: Abandon.)
Expiry(c) == caller[c].started + Lifetime

\* The answer arrives: a fresh permit ...
Permitted(c) ==
    /\ caller[c].phase = "granted" /\ time < Expiry(c)
    /\ CallerBecomes(c, [IdleCaller EXCEPT !.phase = "permitted", !.expires = Expiry(c),
                                           !.grant = caller[c].grant])

\* ... or one that came too late.
Limited(c) ==
    /\ caller[c].phase = "granted" /\ time >= Expiry(c)
    /\ CallerBecomes(c, IdleCaller)

\* The caller's deadline passes or is nearer than the delay, it is cancelled, its
\* guard refuses, the database fails (before or after the claim was committed) or
\* its process stops.  Deadlines are any, so this may be at any moment.
AbandonRequest(c) ==
    /\ caller[c].phase \notin {"idle", "sent"}
    /\ CallerBecomes(c, IdleCaller)

-----------------------------------------------------------------------------
(* postJson *)

\* The permit is still fresh: fetch is called.
Dispatch(c) ==
    /\ caller[c].phase = "permitted" /\ time < caller[c].expires
    /\ grants' = [grants EXCEPT ![caller[c].grant].sentAt = time]
    /\ caller' = [caller EXCEPT ![c] = [IdleCaller EXCEPT !.phase = "sent"]]
    /\ UNCHANGED <<time, barrier, directoryNext, pauses>>

\* The permit has expired meanwhile.
StalePermit(c) ==
    /\ caller[c].phase = "permitted" /\ time >= caller[c].expires
    /\ CallerBecomes(c, IdleCaller)

\* Any answer of Syrve but 429, or none; also a 429 whose pause could not be
\* recorded.
Done(c) == caller[c].phase = "sent" /\ CallerBecomes(c, IdleCaller)

\* Slip: the pause replaces what the row says.
OverwrittenBy(delay) == time + delay

\* Slip: the pause is added to what the row says.
AddedTo(delay) == Larger(barrier, time) + delay

\* cooldown never shortens a pause that is already recorded.
CooledDown(delay) == Larger(barrier, time + delay)

\* Syrve answers 429 and the pause is recorded.
TooManyRequests(c, delay) ==
    /\ caller[c].phase = "sent" /\ Cardinality(pauses) < MaxPauses
    /\ barrier' = CooledDown(delay)
    /\ pauses' = pauses \cup {[from |-> time, to |-> time + delay]}
    /\ caller' = [caller EXCEPT ![c] = IdleCaller]
    /\ UNCHANGED <<time, directoryNext, grants>>

LimiterTick == /\ time < LimiterHorizon
               /\ time' = time + 1
               /\ UNCHANGED <<barrier, directoryNext, caller, grants, pauses>>

CallerStep(c) ==
    \/ \E group \in Groups : Request(c, group)
    \/ Retry(c) \/ GiveUp(c) \/ Claim(c)
    \/ Permitted(c) \/ Limited(c) \/ AbandonRequest(c)
    \/ Dispatch(c) \/ StalePermit(c) \/ Done(c)
    \/ \E delay \in Cooldowns : TooManyRequests(c, delay)

LimiterNext == LimiterTick \/ \E c \in Caller : CallerStep(c)

LimiterSpec == LimiterInit /\ [][LimiterNext]_limiterVars

-----------------------------------------------------------------------------
(* Properties *)

\* Every variable has its type; the barrier is never further away than a gap, or
\* than a pause that Syrve asked for.
LimiterTypeOK ==
    /\ time \in Nat
    /\ barrier \in (0 .. time + Gap) \cup {p.to : p \in pauses}
    /\ directoryNext \in 0 .. time + DirectoryGap
    /\ caller \in [Caller -> CallerState]
    /\ grants \in Seq(Grant)
    /\ pauses \subseteq Pause

IsSent(i) == grants[i].sentAt # NotSent

\* However slow the database answers and however many processes compete, n + 1
\* requests take longer than n * DirectoryGap - Lifetime: with the code's
\* numbers never more than 10 requests in any 60 seconds, nor more than 100 in
\* any ten minutes.
RequestsAreSpaced ==
    \A i, j \in DOMAIN grants :
        i < j /\ IsSent(i) /\ IsSent(j)
            => grants[j].sentAt - grants[i].sentAt > (j - i) * DirectoryGap - Lifetime

\* Three requests other than for directories take longer than two gaps less a
\* lifetime: with the code's numbers never more than 2 in any 60 seconds.
TwoConservativeOnly ==
    \A i, j, k \in DOMAIN grants :
        /\ i < j /\ j < k
        /\ \A n \in {i, j, k} : IsSent(n) /\ grants[n].group = "conservative"
        => grants[k].sentAt - grants[i].sentAt > 2 * Gap - Lifetime

\* A recorded pause stops every caller, of both groups and in every process, but
\* for permits that were granted before, which die within a lifetime.
PausesAreKept ==
    \A i \in DOMAIN grants, p \in pauses :
        IsSent(i) => grants[i].sentAt < p.from + Lifetime \/ grants[i].sentAt >= p.to

\* The requests are neither denser than the quota allows nor sent in a pause.
QuotaIsKept == RequestsAreSpaced /\ PausesAreKept
=============================================================================
