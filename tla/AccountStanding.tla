--------------------------- MODULE AccountStanding ---------------------------
(***************************************************************************)
(* The account of one user in services/auth/app: what a password reset, a  *)
(* phone change, the rehash of a legacy password and the deletion of the   *)
(* account do to its row, and what is left of the sessions that logins     *)
(* issue meanwhile (login.py, password_reset.py, phone_change.py,          *)
(* account_deletion.py and their endpoints in main.py).                    *)
(*                                                                         *)
(* A transaction is atomic; an operation that reads the row in one and     *)
(* writes it in another is a request with a stage, and may end at any.     *)
(* Passwords are numbers in the order resets set them; a session is known  *)
(* by the password it was issued for, so equal ones are one.  Of its life  *)
(* (AuthSessions) there is what a revocation may miss: it lapses, and a    *)
(* refresh whose clock was read before that makes it live again.  The      *)
(* one-time codes are LoginChallenges.                                     *)
(***************************************************************************)
EXTENDS Naturals, FiniteSets

CONSTANTS
    Requests,       \* requests that may be in flight at once
    Resets,         \* password-reset challenges
    MaxAttempts,    \* wrong codes a challenge bears
    MaxMisses,      \* bound: wrong codes tried on the registration's challenge
    MaxSessions,    \* bound: sessions, as far as they can be told apart
    None

ASSUME AccountAssumption ==
    /\ MaxAttempts \in Nat \ {0} /\ MaxMisses \in Nat /\ MaxSessions \in Nat
    /\ IsFiniteSet(Resets)
    /\ None \notin Nat

VARIABLES
    account,     \* the row in users
    registration, \* the challenge that verifies the registration, while it is open
    resets,      \* auth_password_reset_challenges
    change,      \* the phone change that is pending, or not
    deletion,    \* the latest deletion request
    sessions,    \* the sessions that nobody has revoked
    requests     \* what each request in flight has read

\* History.
VARIABLES
    changes,     \* resets that have set a password
    owed,        \* a reset has committed whose sessions are not revoked yet
    overtaken    \* the writes that were on their way when the row was last reset or erased

rowVars == <<account, registration, resets, change, deletion, sessions, changes, owed, overtaken>>
accountVars == <<rowVars, requests>>

Passwords == 0..Cardinality(Resets)
Account == [state: {"pending", "active", "disabled"}, erased: BOOLEAN,
            password: Passwords \cup {None}, legacy: BOOLEAN,
            phone: {"first", "second", "anonymous"}]

\* failed: the wrong codes in the row; misses: those that were answered as such.
Registration == [failed: Nat, misses: 0..MaxMisses]
Reset == [state: {"unissued", "open", "expired", "consumed"}, failed: Nat]
\* late: its login was late, or a refresh of it.
Session == [password: Passwords, late: BOOLEAN, lapsed: BOOLEAN]

\* late: the row was reset or erased after a login has read it, or the sessions were revoked after
\* a refresh has read the clock.
Logins == {"rehash", "reread", "issue"}
Request == [stage: Logins \cup {"refresh", "miss", "confirm", "revoke", "phone", "ask"},
            reset: Resets \cup {None}, password: Passwords \cup {None}, late: BOOLEAN]
Idle == [stage |-> "idle"]

AccountTypeOK ==
    /\ account \in Account
    /\ registration \in Registration
    /\ resets \in [Resets -> Reset]
    /\ change \in {"none", "pending", "confirmed"}
    /\ deletion \in {"none", "requested", "confirmed", "due", "cancelled", "executed"}
    /\ sessions \in SUBSET Session
    /\ requests \in [Requests -> Request \cup {Idle}]
    /\ changes \in Passwords
    /\ owed \in BOOLEAN
    /\ overtaken \in SUBSET {"rehash", "phone"}

AccountInit ==
    /\ account \in [state: {"pending", "active"}, erased: {FALSE}, password: {0},
                    legacy: BOOLEAN, phone: {"first"}]
    /\ registration = [failed |-> 0, misses |-> 0]
    /\ resets = [c \in Resets |-> [state |-> "unissued", failed |-> 0]]
    /\ change = "none"
    /\ deletion = "none"
    /\ sessions = {}
    /\ requests = [r \in Requests |-> Idle]
    /\ changes = 0
    /\ owed = FALSE
    /\ overtaken = {}

-----------------------------------------------------------------------------
(* Requests.                                                               *)

Stage(r) == requests[r].stage
At(stage) == \E r \in Requests : Stage(r) = stage
Free(r) == requests[r] = Idle

New(stage, reset, password) ==
    [stage |-> stage, reset |-> reset, password |-> password, late |-> FALSE]
Enter(r, stage, reset, password) ==
    requests' = [requests EXCEPT ![r] = New(stage, reset, password)]
MoveOn(r, stage) == requests' = [requests EXCEPT ![r].stage = stage]
Finish(r) == requests' = [requests EXCEPT ![r] = Idle]

\* What a reset or an erasure finds on its way.
Overtake == overtaken' = {stage \in {"rehash", "phone"} : At(stage)}
Belated(rs, stages) ==
    [r \in Requests |-> IF rs[r].stage \in stages THEN [rs[r] EXCEPT !.late = TRUE] ELSE rs[r]]

\* Refused, failed or dead: nothing more of the request happens.
Abandon(r) ==
    /\ ~ Free(r)
    /\ Finish(r)
    /\ UNCHANGED rowVars

-----------------------------------------------------------------------------
(* Login: the password is verified against the row as it is read, a        *)
(* legacy hash is replaced and the row read again, and the session is      *)
(* issued after the one-time code.                                         *)

Admissible(row) == row.state = "active" /\ ~ row.erased

Verify(r) ==
    /\ Free(r)
    /\ account.password # None
    /\ \/ account.legacy /\ Enter(r, "rehash", None, account.password)
       \/ ~ account.legacy /\ Admissible(account) /\ Enter(r, "issue", None, account.password)
    /\ UNCHANGED rowVars

\* update_user_password_hash: the row is written whatever has become of it.
Rehash(r) ==
    /\ Stage(r) = "rehash"
    /\ account' = [account EXCEPT !.password = requests[r].password, !.legacy = FALSE]
    /\ MoveOn(r, "reread")
    /\ UNCHANGED <<resets, change, deletion, sessions, changes, owed, overtaken, registration>>

Reread(r) ==
    /\ Stage(r) = "reread"
    /\ Admissible(account)
    /\ MoveOn(r, "issue")
    /\ UNCHANGED rowVars

IssueSession(r) ==
    /\ Stage(r) = "issue"
    /\ sessions' = sessions \cup {[password |-> requests[r].password, late |-> requests[r].late,
                                    lapsed |-> FALSE]}
    /\ Cardinality(sessions') <= MaxSessions
    /\ Finish(r)
    /\ UNCHANGED <<account, resets, change, deletion, changes, owed, overtaken, registration>>

-----------------------------------------------------------------------------
(* Sessions lapse and are refreshed, whatever becomes of the account.      *)

\* One session moves; others like it may stay as they are.
Replace(old, new) ==
    /\ sessions' \in {sessions \cup {new}, (sessions \ {old}) \cup {new}}
    /\ Cardinality(sessions') <= MaxSessions

Lapse(s) ==
    /\ ~ s.lapsed
    /\ Replace(s, [s EXCEPT !.lapsed = TRUE])
    /\ UNCHANGED <<account, resets, change, deletion, requests, changes, owed, overtaken, registration>>

BeginRefresh(r, s) ==
    /\ Free(r)
    /\ ~ s.lapsed
    /\ requests' = [requests EXCEPT ![r] = [New("refresh", None, s.password) EXCEPT !.late = s.late]]
    /\ UNCHANGED rowVars

\* The session is judged by the clock as it was when the refresh began.
Refresh(r, s) ==
    /\ Stage(r) = "refresh"
    /\ s.password = requests[r].password /\ (s.late => requests[r].late)
    /\ Replace(s, [s EXCEPT !.lapsed = FALSE, !.late = requests[r].late])
    /\ Finish(r)
    /\ UNCHANGED <<account, resets, change, deletion, changes, owed, overtaken, registration>>

\* Seeded fault: only the sessions of the new password are revoked.
Spared_Older == {s \in sessions : s.password # account.password}

\* What a revocation passes over: sessions it finds expired.
Spared == {s \in sessions : s.lapsed}

\* The clock is read before the transaction: a session that lapses in between is revoked too.
RevokeAll == sessions' \in SUBSET Spared

-----------------------------------------------------------------------------
(* Password reset.                                                         *)

IssueReset(c) ==
    /\ resets[c].state = "unissued"
    /\ resets' = [resets EXCEPT ![c].state = "open"]
    /\ UNCHANGED <<account, change, deletion, sessions, requests, changes, owed, overtaken, registration>>

Expire(c) ==
    /\ resets[c].state = "open"
    /\ resets' = [resets EXCEPT ![c].state = "expired"]
    /\ UNCHANGED <<account, change, deletion, sessions, requests, changes, owed, overtaken, registration>>

\* Seeded fault: the challenge is not looked at again.
Open_Read(c) == resets[c].state # "unissued"

Open(c) == resets[c].state = "open" /\ resets[c].failed < MaxAttempts

\* Seeded fault: the state of the account is not looked at again.
Resettable_Read == TRUE

Resettable == account.state \in {"pending", "active"}

ReadReset(r, c) ==
    /\ Free(r)
    /\ Open(c)
    /\ \/ Enter(r, "miss", c, None)                       \* a wrong code
       \/ Resettable /\ Enter(r, "confirm", c, None)
    /\ UNCHANGED rowVars

Miss(r) ==
    /\ Stage(r) = "miss"
    /\ resets' = [resets EXCEPT ![requests[r].reset].failed = @ + 1]
    /\ Finish(r)
    /\ UNCHANGED <<account, change, deletion, sessions, changes, owed, overtaken, registration>>

\* The transaction commits.  Its request goes on to revoke the sessions unless it has died, or
\* the commit is ambiguous and not found again.
ConfirmReset(r) ==
    LET c == requests[r].reset
    IN  /\ Stage(r) = "confirm"
        /\ Open(c)
        /\ Resettable
        /\ changes < Cardinality(Resets)
        /\ changes' = changes + 1
        /\ account' = [account EXCEPT !.password = changes', !.legacy = FALSE]
        /\ resets' = [resets EXCEPT ![c].state = "consumed"]
        /\ owed' = TRUE
        /\ Overtake
        /\ \/ requests' = [Belated(requests, Logins) EXCEPT ![r].stage = "revoke"]
           \/ requests' = [Belated(requests, Logins) EXCEPT ![r] = Idle]
        /\ UNCHANGED <<change, deletion, sessions, registration>>

\* revoke_all_sessions_for_user, a transaction of its own.
RevokeSessions(r) ==
    /\ Stage(r) = "revoke"
    /\ RevokeAll
    /\ owed' = FALSE
    /\ requests' = [Belated(requests, {"refresh"}) EXCEPT ![r] = Idle]
    /\ UNCHANGED <<account, resets, change, deletion, changes, overtaken, registration>>

-----------------------------------------------------------------------------
(* Phone change.  The row of the account is read through connections of    *)
(* their own while the transaction holds the request.                      *)

RequestPhoneChange ==
    /\ change = "none"
    /\ account.state = "active"
    /\ change' = "pending"
    /\ UNCHANGED <<account, resets, deletion, sessions, requests, changes, owed, overtaken, registration>>

CheckPhoneChange(r) ==
    /\ Free(r)
    /\ change = "pending" /\ ~ At("phone")
    /\ account.state = "active" /\ account.phone = "first"
    /\ Enter(r, "phone", None, None)
    /\ UNCHANGED rowVars

ConfirmPhoneChange(r) ==
    /\ Stage(r) = "phone"
    /\ account' = [account EXCEPT !.phone = "second"]
    /\ change' = "confirmed"
    /\ Finish(r)
    /\ UNCHANGED <<resets, deletion, sessions, changes, owed, overtaken, registration>>

-----------------------------------------------------------------------------
(* Registration verification, and the deletion of the account.             *)

Verifiable == account.state = "pending" /\ registration.failed < MaxAttempts

\* One transaction.
VerifyAccount ==
    /\ Verifiable
    /\ account' = [account EXCEPT !.state = "active"]
    /\ registration' = [failed |-> 0, misses |-> 0]
    /\ UNCHANGED <<resets, change, deletion, sessions, requests, changes, owed, overtaken>>

\* The count of a wrong code is written, and the exception that answers it leaves the
\* transaction, which is rolled back.
MissRegistration ==
    /\ Verifiable /\ registration.misses < MaxMisses
    /\ registration' = [registration EXCEPT !.misses = @ + 1]
    /\ UNCHANGED <<account, resets, change, deletion, sessions, requests, changes, owed, overtaken>>

AskForDeletion(r) ==
    /\ Free(r)
    /\ account.state = "active"
    /\ Enter(r, "ask", None, None)
    /\ UNCHANGED rowVars

DeletionStep(before, after) ==
    /\ deletion \in before
    /\ deletion' = after
    /\ UNCHANGED <<registration, resets, change, changes>>

RequestDeletion(r) ==
    /\ Stage(r) = "ask"
    /\ DeletionStep({"none", "cancelled", "executed"}, "requested")
    /\ Finish(r)
    /\ UNCHANGED <<account, sessions, owed, overtaken>>

ConfirmDeletion ==
    /\ DeletionStep({"requested"}, "confirmed")
    /\ UNCHANGED <<account, sessions, requests, owed, overtaken>>

CoolDown ==
    /\ DeletionStep({"confirmed"}, "due")
    /\ UNCHANGED <<account, sessions, requests, owed, overtaken>>

CancelDeletion ==
    /\ DeletionStep({"confirmed"}, "cancelled")
    /\ UNCHANGED <<account, sessions, requests, owed, overtaken>>

\* Seeded fault: the number is emptied.
Erased_Emptied(row) == [row EXCEPT !.state = "disabled", !.erased = TRUE, !.password = None,
                                   !.legacy = TRUE, !.phone = None]

\* The hash written in place of the password has the form of a legacy one.
Erased(row) == [row EXCEPT !.state = "disabled", !.erased = TRUE, !.password = None,
                           !.legacy = TRUE, !.phone = "anonymous"]

ExecuteDeletion ==
    /\ DeletionStep({"due"}, "executed")
    /\ account' = Erased(account)
    /\ RevokeAll
    /\ owed' = FALSE
    /\ requests' = Belated(requests, Logins \cup {"refresh"})
    /\ Overtake

AccountNext ==
    \/ \E r \in Requests :
          \/ Verify(r) \/ Rehash(r) \/ Reread(r) \/ IssueSession(r)
          \/ \E s \in sessions : BeginRefresh(r, s) \/ Refresh(r, s)
          \/ \E c \in Resets : ReadReset(r, c)
          \/ Miss(r) \/ ConfirmReset(r) \/ RevokeSessions(r)
          \/ CheckPhoneChange(r) \/ ConfirmPhoneChange(r)
          \/ AskForDeletion(r) \/ RequestDeletion(r)
          \/ Abandon(r)
    \/ \E s \in sessions : Lapse(s)
    \/ \E c \in Resets : IssueReset(c) \/ Expire(c)
    \/ RequestPhoneChange \/ VerifyAccount \/ MissRegistration
    \/ ConfirmDeletion \/ CoolDown \/ CancelDeletion \/ ExecuteDeletion

AccountSpec == AccountInit /\ [][AccountNext]_accountVars

-----------------------------------------------------------------------------
(* Properties.                                                             *)

ErasureStands ==
    account.erased =>
        /\ account.state = "disabled"
        /\ account.password = None \/ "rehash" \in overtaken
        /\ account.phone = "anonymous" \/ "phone" \in overtaken

ResetStands ==
    /\ changes = Cardinality({c \in Resets : resets[c].state = "consumed"})
    /\ ~ account.erased => account.password = changes \/ "rehash" \in overtaken

\* What the deletion of an account has erased stays erased: nothing that began before or after
\* brings the password or the number back, or opens the account again, but a rehash or a phone
\* change that was between its two transactions when the account was erased
\* (create_or_replay_execution).  Until then each challenge that is used up has set one
\* password, and the last one set is in force unless the rehash of the one before it came later
\* (_confirm_password_reset_challenge_persistent).
ChangesStand == ErasureStands /\ ResetStands

\* A live session belongs to an account that is not deleted and to the password it has, unless
\* its login had read the account before the change, or it had lapsed when the others were
\* revoked and a refresh had read the clock before it lapsed; or the revocation that follows a
\* reset is outstanding: the reset and the revocation are two transactions, of a request that may
\* die between them (confirm_password_reset_endpoint).
SessionsFollowAccount ==
    \A s \in sessions :
        \/ s.late \/ s.lapsed
        \/ /\ ~ account.erased
           /\ s.password = account.password \/ owed \/ "rehash" \in overtaken
=============================================================================
