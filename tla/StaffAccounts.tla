---------------------------- MODULE StaffAccounts ----------------------------
(***************************************************************************)
(* The accounts of the staff (src/backend/src/staff): their administration,*)
(* shifts, the director's credentials and the links to Telegram, together  *)
(* with the tokens that logins sign and the check of a token               *)
(* (src/backend/src/auth/auth.service.ts).                                 *)
(*                                                                         *)
(* Administration reads an account without a lock and then updates the     *)
(* columns it changes, provided that the role is still the one it read.    *)
(* The director's logins and the links lock the row of the account, so     *)
(* each of their transactions is one step.                                 *)
(***************************************************************************)
EXTENDS Integers, Sequences, FiniteSets

CONSTANTS
    Member,       \* accounts there may ever be
    AtOnce,       \* bound: requests that are handled at the same time
    Password,     \* passwords of directors
    Telegram,     \* Telegram accounts
    MaxFailures,  \* wrong passwords before a director is locked out
    LockTime,     \* how long
    InviteTime,   \* how long an invitation lasts
    LastTime,     \* bound: the clock
    MaxInvites,   \* bound: invitations
    MaxAsked      \* bound: requests

ASSUME StaffAssumption ==
    /\ IsFiniteSet(Member) /\ Member # {} /\ Password # {}
    /\ AtOnce \in Nat /\ MaxFailures \in Nat \ {0}
    /\ {LockTime, InviteTime, LastTime, MaxInvites, MaxAsked} \subseteq Nat

VARIABLES
    members,      \* staff, one row per account
    requests,     \* requests between their steps
    tokens,       \* the tokens signed
    invites,      \* how many invitations there have been
    wrong,        \* history: wrong passwords in a row, and when the last was
    staffClock,   \* the time
    asked         \* how many requests have begun

staffVars == <<members, requests, tokens, invites, wrong, staffClock, asked>>

StaffRequest == 1 .. AtOnce

Ordinary == {"waiter", "hookah"}
StaffRole == Ordinary \cup {"admin", "owner"}
Never == -1
NoInvite == 0
NoAccount == [role |-> "none"]  \* not there yet
Deleted == [role |-> "deleted"]
Nobody == "nobody"              \* no Telegram account
Temporary == "1111"             \* TEMPORARY_DIRECTOR_PIN
NoPassword == "none"

\* An account as create makes it.  version is directorCredentialsConfiguredAt,
\* 0 for null; name, password and version of a director are set together.
Made(r, p) ==
    [role |-> r, active |-> TRUE, isArchived |-> FALSE, isOnShift |-> FALSE, pin |-> p,
     password |-> NoPassword, version |-> 0, failures |-> 0, lockedUntil |-> Never,
     telegram |-> Nobody, invite |-> NoInvite, expires |-> Never]

Account ==
    [role : StaffRole, active : BOOLEAN, isArchived : BOOLEAN, isOnShift : BOOLEAN,
     pin : BOOLEAN, password : Password \cup {NoPassword}, version : Nat,
     failures : 0 .. MaxFailures, lockedUntil : Nat \cup {Never},
     telegram : Telegram \cup {Nobody}, invite : 0 .. MaxInvites, expires : Nat \cup {Never}]

Exists(m) == members[m] \notin {NoAccount, Deleted}
Present == {m \in Member : Exists(m)}
Working(a) == a.active /\ ~a.isArchived
Director(m) == Exists(m) /\ members[m].role = "owner" /\ Working(members[m])

Ready == [phase |-> "idle"]

\* The secret that lets a director in.
SecretOf(a) == IF a.version = 0 THEN Temporary ELSE a.password
FirstPassword == CHOOSE p \in Password : TRUE

\* A director who has logged in, with a password or still without, and another account
\* or none.
StaffInit ==
    /\ \E w \in {NoAccount, Made("waiter", TRUE)}, v \in {0, 1} :
           LET d == CHOOSE d \in Member : TRUE
               a == [Made("owner", FALSE) EXCEPT !.version = v,
                        !.password = IF v = 0 THEN NoPassword ELSE FirstPassword]
           IN  /\ members = [m \in Member |-> IF m = d THEN a ELSE w]
               /\ tokens = {[member |-> d, version |-> v, secret |-> SecretOf(a)]}
    /\ requests = [q \in StaffRequest |-> Ready]
    /\ invites = 0 /\ staffClock = 1 /\ asked = 0
    /\ wrong = [m \in Member |-> [count |-> 0, last |-> Never]]

\* A request takes its next step.
Goes(q, s) == requests' = [requests EXCEPT ![q] = s]

\* One more request.
Counted == asked < MaxAsked /\ asked' = asked + 1

\* A request of several steps begins.
Asks(q, s) ==
    /\ requests[q].phase = "idle" /\ \A r \in 1 .. q - 1 : requests[r].phase # "idle"
    /\ Counted /\ Goes(q, s)
    /\ UNCHANGED <<members, tokens, invites, wrong, staffClock>>

\* What is left alone when only requests go on.
Data == <<members, tokens, invites, wrong, staffClock, asked>>

\* A token of the account a.  Only a director's has a version; secret is what
\* was shown for it.
TokenOf(m, a, secret) ==
    [member |-> m, version |-> IF a.role = "owner" THEN a.version ELSE Never, secret |-> secret]
Sign(m, a, secret) == tokens' = tokens \cup {TokenOf(m, a, secret)}

\* verifyToken: whether a token is accepted now (as the account's present role).
Accepted(t) ==
    LET a == members[t.member]
    IN  /\ Exists(t.member) /\ Working(a)
        /\ a.role \in Ordinary => a.isOnShift
        /\ a.role = "owner" => t.version = a.version

-----------------------------------------------------------------------------
(* Mutants *)

AnyVersion(a, v) == TRUE     \* credentials written without comparing their version
OnlyTheClock(v) == staffClock \* two versions of the same millisecond
NotCounted(a) == a           \* the failure rolled back with its exception

-----------------------------------------------------------------------------
(* Administration *)

Change(m, a, c) == [member |-> m, role |-> a.role, columns |-> c]
EndShift(m, a) == Change(m, a, [isOnShift |-> FALSE])  \* finishShift

\* A shift there is to finish is finished before other changes.
FinishFirst(m, a, c) ==
    IF a.isOnShift THEN <<EndShift(m, a), Change(m, a, c)>> ELSE <<Change(m, a, c)>>

\* The updates a request makes after it read the account a, one after the other;
\* none when it is refused.
Edits(m, a, r) ==  \* update and changePin: any columns of the form
    {<<Change(m, a, c)>> : c \in {[pin |-> TRUE], [role |-> r]}
                               \cup {[telegram |-> t] : t \in Telegram \cup {Nobody}}}
Shifts(m, a) ==    \* startShift, endShift
    IF a.isOnShift THEN {<<EndShift(m, a)>>}
    ELSE IF Working(a) /\ a.role \in Ordinary
         THEN {<<Change(m, a, [isOnShift |-> TRUE])>>} ELSE {}
Blocks(m, a) ==    \* setActive
    {FinishFirst(m, a, [active |-> FALSE]), <<Change(m, a, [active |-> TRUE])>>}
Archives(m, a) ==  \* archive
    IF a.isArchived THEN {}
    ELSE {FinishFirst(m, a, [active |-> FALSE, isArchived |-> TRUE])}
Restores(m, a) ==  \* restore
    IF a.isArchived THEN {<<Change(m, a, [active |-> TRUE, isArchived |-> FALSE])>>} ELSE {}

\* What the owner or an administrator may ask for.
Plans(m, a, by) ==
    Shifts(m, a) \cup Blocks(m, a) \cup Archives(m, a) \cup Restores(m, a)
        \cup UNION {Edits(m, a, r) : r \in IF by = "admin" THEN Ordinary ELSE StaffRole}

\* An administrator's request is checked against a reading of its own.
Administer(q) == \E m \in Present, by \in {"owner", "admin"} :
    /\ by = "admin" => members[m].role \in Ordinary
    /\ Asks(q, [phase |-> "permitted", member |-> m, by |-> by])

\* The service reads the account.
ReadAccount(q) ==
    /\ requests[q].phase = "permitted"
    /\ \E m \in {requests[q].member} :
           IF ~Exists(m) THEN Goes(q, Ready)
           ELSE \E todo \in Plans(m, members[m], requests[q].by) :
                    Goes(q, [phase |-> "write", todo |-> todo])
    /\ UNCHANGED Data

\* autoEndShiftsAfter2301, closeMissedShifts: those on shift; the rest of them, when
\* it is not late enough, began their shift today.
AutoEnd(q) == \E S \in SUBSET {m \in Present : members[m].isOnShift} : S # {} /\
    \E order \in {f \in [1 .. Cardinality(S) -> S] : \A m \in S : \E i \in DOMAIN f : f[i] = m} :
        Asks(q, [phase |-> "write",
                 todo |-> [i \in DOMAIN order |-> EndShift(order[i], members[order[i]])]])

\* The telegram_id is unique.
Unique(m, t) == t = Nobody \/ \A n \in Present \ {m} : members[n].telegram # t

\* updateStaffFields: an update guarded by the role; when it matches no row or breaks
\* the unique index the rest is not done.
Updated(a, columns) == [k \in DOMAIN a |-> IF k \in DOMAIN columns THEN columns[k] ELSE a[k]]
MatchesRole(c) == Exists(c.member) /\ members[c.member].role = c.role
WriteFields(q) ==
    /\ requests[q].phase = "write"
    /\ \E c \in {Head(requests[q].todo)}, rest \in {Tail(requests[q].todo)} :
           IF /\ MatchesRole(c)
              /\ "telegram" \in DOMAIN c.columns => Unique(c.member, c.columns.telegram)
           THEN /\ members' = [members EXCEPT ![c.member] = Updated(@, c.columns)]
                /\ Goes(q, IF rest = <<>> THEN Ready ELSE [phase |-> "write", todo |-> rest])
           ELSE Goes(q, Ready) /\ UNCHANGED members
    /\ UNCHANGED <<tokens, invites, wrong, staffClock, asked>>

\* deletePermanently, by the owner: reads the account, and deletes it if it still is
\* archived and of the role that was read.
Remove(q) == \E m \in Present :
    /\ members[m].isArchived /\ members[m].role # "owner"
    /\ Asks(q, [phase |-> "delete", member |-> m, role |-> members[m].role])
DeletePermanently(q) ==
    /\ requests[q].phase = "delete" /\ Goes(q, Ready)
    /\ \E m \in {requests[q].member} :
           members' = IF Exists(m) /\ members[m].isArchived
                           /\ members[m].role = requests[q].role
                      THEN [members EXCEPT ![m] = Deleted] ELSE members
    /\ UNCHANGED <<tokens, invites, wrong, staffClock, asked>>

\* A new row.
Add(r, p) == \E m \in Member :
    /\ members[m] = NoAccount
    /\ members' = [members EXCEPT ![m] = Made(r, p)]
    /\ UNCHANGED <<tokens, invites, wrong, staffClock>>

\* create
CreateAccount == \E r \in StaffRole, p \in BOOLEAN :
    Add(r, p) /\ Counted /\ UNCHANGED requests

\* onModuleInit: no active director (or no manager at all, when the environment names
\* an administrator) is found, and one is made.
Bootstrap(q) ==
    \/ /\ ~ \E m \in Member : Director(m)
       /\ Asks(q, [phase |-> "make", role |-> "owner", pin |-> FALSE])
    \/ /\ ~ \E m \in Present : members[m].role \in {"owner", "admin"}
       /\ Asks(q, [phase |-> "make", role |-> "admin", pin |-> TRUE])
MakeFirst(q) ==
    /\ requests[q].phase = "make" /\ Goes(q, Ready)
    /\ Add(requests[q].role, requests[q].pin) /\ UNCHANGED asked

-----------------------------------------------------------------------------
(* Logins *)

\* assertDirectorNotLocked
LockedOut(a) == a.lockedUntil # Never /\ a.lockedUntil > staffClock

\* The count that a wrong password is added to.
Failures(a) == IF a.lockedUntil # Never THEN 0 ELSE a.failures

\* registerDirectorLoginFailure, resetDirectorLoginProtection
AfterWrong(a) ==
    [a EXCEPT !.failures = Failures(a) + 1,
              !.lockedUntil = IF Failures(a) + 1 >= MaxFailures
                              THEN staffClock + LockTime ELSE Never]
AfterRight(a) == [a EXCEPT !.failures = 0, !.lockedUntil = Never]

\* A password is compared: the account and its history.
Compared(m, right) ==
    /\ members' = [members EXCEPT ![m] = IF right THEN AfterRight(@) ELSE AfterWrong(@)]
    /\ wrong' = [wrong EXCEPT ![m] =
           IF right THEN [count |-> 0, last |-> Never]
           ELSE [count |-> IF @.last = Never \/ staffClock - @.last >= LockTime
                           THEN 1 ELSE @.count + 1,
                 last |-> staffClock]]

\* loginDirector: the temporary PIN as long as no password is set.
LoginDirector == \E m \in Member, right \in BOOLEAN :
    /\ Director(m) /\ ~LockedOut(members[m])
    /\ Compared(m, right)
    /\ IF right THEN Sign(m, members[m], SecretOf(members[m])) ELSE UNCHANGED tokens
    /\ Counted /\ UNCHANGED <<requests, invites, staffClock>>

\* loginWithPin: not for directors.
LoginWithPin == \E m \in Present :
    /\ Working(members[m]) /\ members[m].pin /\ members[m].role # "owner"
    /\ members[m].role \in Ordinary => members[m].isOnShift
    /\ Sign(m, members[m], "pin")
    /\ Counted /\ UNCHANGED <<members, requests, invites, wrong, staffClock>>

\* authenticateTelegram: the data that Telegram signed show the account.
AuthenticateTelegram == \E m \in Present :
    /\ Working(members[m]) /\ members[m].telegram # Nobody
    /\ Sign(m, members[m], "telegram")
    /\ Counted /\ UNCHANGED <<members, requests, invites, wrong, staffClock>>

\* updateDirectorAccess: a director with an accepted token, whose account is read ...
\* He states the current password too, and a wrong one is not counted there: the bound on
\* guesses is one of the ways into the system, not of this form inside it.
ChangeAccess(q) == \E t \in tokens, p \in Password :
    /\ Accepted(t) /\ Director(t.member)
    /\ Asks(q, [phase |-> "rotate", member |-> t.member,
                version |-> members[t.member].version, password |-> p])

\* nextDirectorCredentialsTimestamp
NextVersion(v) == IF staffClock > v + 1 THEN staffClock ELSE v + 1

\* ... and changed if its credentials still have the version that was read.
SameCredentials(a, v) == a.version = v
UpdateDirectorAccess(q) ==
    /\ requests[q].phase = "rotate" /\ Goes(q, Ready)
    /\ \E m \in {requests[q].member}, v \in {requests[q].version} :
           IF Director(m) /\ SameCredentials(members[m], v)
           THEN LET a == [AfterRight(members[m]) EXCEPT !.version = NextVersion(v),
                                                        !.password = requests[q].password]
                IN  /\ members' = [members EXCEPT ![m] = a]
                    /\ Sign(m, a, a.password)
                    /\ wrong' = [wrong EXCEPT ![m] = [count |-> 0, last |-> Never]]
           ELSE UNCHANGED <<members, tokens, wrong>>
    /\ UNCHANGED <<invites, staffClock, asked>>

-----------------------------------------------------------------------------
(* Links to Telegram *)

\* createInvite, under the lock of the row.
CreateInvite == \E m \in Present :
    /\ Working(members[m]) /\ members[m].telegram = Nobody /\ invites < MaxInvites
    /\ invites' = invites + 1
    /\ members' = [members EXCEPT ![m].invite = invites + 1,
                                  ![m].expires = staffClock + InviteTime]
    /\ Counted /\ UNCHANGED <<requests, tokens, wrong, staffClock>>

Expired(a) == a.expires < staffClock
\* assertInviteUsable
Usable(a) == Working(a) /\ a.telegram = Nobody /\ ~Expired(a)
Invited(i) == {m \in Present : members[m].invite = i}

\* resolveInvite: the invitation is found; one that has run out, or whose account is
\* linked already, will be cleared, whether the account is active or not.
ResolveInvite(q) == \E i \in 1 .. invites : \E m \in Invited(i) :
    IF Usable(members[m])
    THEN Asks(q, [phase |-> "credential", invite |-> i, role |-> members[m].role,
                  pin |-> members[m].pin])
    ELSE /\ Expired(members[m]) \/ members[m].telegram # Nobody
         /\ Asks(q, [phase |-> "clear", member |-> m, invite |-> i])

\* The update that clears it, if it still is this invitation.
ClearInvite(q) ==
    /\ requests[q].phase = "clear" /\ Goes(q, Ready)
    /\ \E m \in {requests[q].member} :
           members' = IF Exists(m) /\ members[m].invite = requests[q].invite
                      THEN [members EXCEPT ![m].invite = NoInvite, ![m].expires = Never]
                      ELSE members
    /\ UNCHANGED <<tokens, invites, wrong, staffClock, asked>>

\* The PIN or password was right; v is the version of a director's credentials.
Confirmed(q, v, secret) ==
    Goes(q, [phase |-> "consume", invite |-> requests[q].invite, version |-> v,
             secret |-> secret])

\* assertCredential: the PIN is compared with the account as it was read.
AssertPin(q) ==
    /\ requests[q].phase = "credential" /\ requests[q].role # "owner"
    /\ \/ requests[q].pin /\ Confirmed(q, Never, "pin")
       \/ Goes(q, Ready)
    /\ UNCHANGED Data

\* assertDirectorCredentialAtomically: the row is read again, and locked.
AssertDirectorCredential(q) ==
    /\ requests[q].phase = "credential" /\ requests[q].role = "owner"
    /\ \E S \in {{m \in Invited(requests[q].invite) : Usable(members[m])}} :
           IF S = {} \/ \E m \in S : \/ members[m].role # "owner"
                                     \/ members[m].password = NoPassword
                                     \/ LockedOut(members[m])
           THEN Goes(q, Ready) /\ UNCHANGED <<members, wrong>>
           ELSE \E m \in S, right \in BOOLEAN :
                    /\ Compared(m, right)
                    /\ IF right THEN Confirmed(q, members[m].version, members[m].password)
                       ELSE Goes(q, Ready)
    /\ UNCHANGED <<tokens, invites, staffClock, asked>>

\* consumeInviteAtomically
Linked(a, t) == [a EXCEPT !.telegram = t, !.invite = NoInvite, !.expires = Never]
SameVersion(a, v) == a.role = "owner" => a.version = v
ConsumeInvite(q) ==
    /\ requests[q].phase = "consume" /\ Goes(q, Ready)
    /\ \E S \in {{m \in Invited(requests[q].invite) : Usable(members[m])}}, t \in Telegram :
           IF \E m \in S : SameVersion(members[m], requests[q].version) /\ Unique(m, t)
           THEN \E m \in S :
                    /\ members' = [members EXCEPT ![m] = Linked(@, t)]
                    /\ Sign(m, members[m], requests[q].secret)
           ELSE UNCHANGED <<members, tokens>>
    /\ UNCHANGED <<invites, wrong, staffClock, asked>>

-----------------------------------------------------------------------------
StaffTick ==
    /\ staffClock < LastTime /\ staffClock' = staffClock + 1
    /\ UNCHANGED <<members, requests, tokens, invites, wrong, asked>>

StaffNext ==
    \/ StaffTick
    \/ CreateAccount
    \/ LoginDirector
    \/ LoginWithPin
    \/ AuthenticateTelegram
    \/ CreateInvite
    \/ \E q \in StaffRequest :
        \/ Administer(q)
        \/ ReadAccount(q)
        \/ WriteFields(q)
        \/ AutoEnd(q)
        \/ Remove(q)
        \/ DeletePermanently(q)
        \/ Bootstrap(q)
        \/ MakeFirst(q)
        \/ ChangeAccess(q)
        \/ UpdateDirectorAccess(q)
        \/ ResolveInvite(q)
        \/ ClearInvite(q)
        \/ AssertPin(q)
        \/ AssertDirectorCredential(q)
        \/ ConsumeInvite(q)

StaffSpec == StaffInit /\ [][StaffNext]_staffVars

-----------------------------------------------------------------------------
(* Properties *)

\* Every account has its columns, and no two the same Telegram account or invitation.
StaffTypeOK ==
    /\ \A m \in Member : Exists(m) => members[m] \in Account
    /\ \A m, n \in Present : m # n =>
           /\ members[m].telegram = members[n].telegram => members[m].telegram = Nobody
           /\ members[m].invite = members[n].invite => members[m].invite = NoInvite

\* A token that is accepted as the director's was signed for the credentials in force:
\* for the password (or the temporary PIN, as long as there is none), or through
\* Telegram.  No password that was replaced, no PIN of the time before the promotion
\* and no rotation that lost a race keeps a director's session open.
SessionsAreCurrent ==
    \A t \in tokens :
        (Accepted(t) /\ members[t.member].role = "owner") =>
            t.secret \in {SecretOf(members[t.member]), "telegram"}

\* Whatever way they are tried, over the login form or over an invitation: no more than
\* MaxFailures wrong passwords of a director are compared in a row before LockTime
\* passes.
GuessesAreLimited == \A m \in Member : wrong[m].count <= MaxFailures

\* A session in use belongs to the account as it is now, and no guess at the
\* director's password is compared that the lock should have kept out.
SessionsAreSafe == SessionsAreCurrent /\ GuessesAreLimited
=============================================================================
