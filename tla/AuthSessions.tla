----------------------------- MODULE AuthSessions -----------------------------
(***************************************************************************)
(* The sessions of one user: PersistentSessionIssuanceStore in             *)
(* services/auth/app/session_issuance.py, the transaction executor of      *)
(* persistence_support.py it runs on, and the login, refresh and logout    *)
(* endpoints of main.py.                                                   *)
(*                                                                         *)
(* An operation reads the clock and mints its identifiers first; its       *)
(* transaction, serializable and retried on conflicts, runs later with     *)
(* the time it has read.  A commit whose outcome the database does not     *)
(* tell is looked up in a transaction of its own, and the operation is     *)
(* answered from what that one finds.                                      *)
(*                                                                         *)
(* Identifiers and tokens are numbers in the order they are minted; a      *)
(* session goes by its first refresh token.  What precedes the session in  *)
(* a login (password, lockout, step-up), and the access tokens, which      *)
(* rotate with the refresh tokens, are left out.                           *)
(***************************************************************************)
EXTENDS Naturals, FiniteSets

CONSTANTS
    Requests,            \* operations that may be in flight at once
    MaxConcurrent,       \* max_concurrent_sessions
    InactivityTimeout,
    AbsoluteLifetime,
    MaxTime,             \* bound: the clock
    MaxIds               \* bound: identifiers minted

ASSUME SessionAssumption ==
    /\ MaxConcurrent \in Nat \ {0}
    /\ InactivityTimeout \in Nat \ {0}
    /\ AbsoluteLifetime \in Nat \ {0}
    /\ MaxTime \in Nat
    /\ MaxIds \in Nat

VARIABLES
    clock,
    minted,     \* identifiers minted so far
    sessions,   \* the sessions table
    tokens,     \* auth_session_refresh_tokens: the session of each token
    consumed,   \* and the tokens it marks as consumed
    requests    \* what each operation in flight has read, and how far it is

\* History: what clients were told, and what logins passed over.
VARIABLES
    answers,    \* the tokens handed out, each with the one it was given in exchange for
    lapsed      \* sessions a login has not counted because they had expired

storeVars == <<sessions, tokens, consumed, lapsed>>
sessionVars == <<clock, minted, sessions, tokens, consumed, requests, answers, lapsed>>

Ids == 1..MaxIds
NoId == 0
Time == 0..MaxTime
Session == [issuedAt: Time, activeAt: Time, token: Ids,
            revoked: {"no", "limit", "logout"}, revokedAt: Time]
NoSession == [issuedAt |-> 0, activeAt |-> 0, token |-> NoId,
              revoked |-> "no", revokedAt |-> 0]
Request == [operation: {"login", "refresh", "logout", "logout all"}, at: Time,
            given: Ids \cup {NoId},    \* the token presented or the session to revoke
            fresh: Ids \cup {NoId},    \* the token minted
            stage: {"running", "unsure"}]
Idle == [stage |-> "idle"]         \* no operation yet, or the last one failed
Served == [stage |-> "served"]     \* the last operation was answered with success
Answer == [given: Ids \cup {NoId}, fresh: Ids]

Issued == {s \in Ids : sessions[s] # NoSession}
Held == {a.fresh : a \in answers}    \* tokens clients have received

SessionTypeOK ==
    /\ clock \in Time
    /\ minted \in 0..MaxIds
    /\ sessions \in [Ids -> Session \cup {NoSession}]
    /\ tokens \in [Ids -> Ids \cup {NoId}]
    /\ consumed \in SUBSET Ids
    /\ requests \in [Requests -> Request \cup {Idle, Served}]
    /\ answers \in SUBSET Answer
    /\ lapsed \in SUBSET Ids

SessionInit ==
    /\ clock = 0
    /\ minted = 0
    /\ sessions = [s \in Ids |-> NoSession]
    /\ tokens = [t \in Ids |-> NoId]
    /\ consumed = {}
    /\ requests = [r \in Requests |-> Idle]
    /\ answers = {}
    /\ lapsed = {}

-----------------------------------------------------------------------------
(* The policy a session is judged by, at the time an operation has read.   *)

ExpiresAt(session) ==
    LET inactive == session.activeAt + InactivityTimeout
        absolute == session.issuedAt + AbsoluteLifetime
    IN  IF inactive < absolute THEN inactive ELSE absolute

Live(session, now) ==
    /\ session # NoSession
    /\ session.revoked = "no"
    /\ now < ExpiresAt(session)

\* Seeded fault: the new session is not counted.
Excess_NewUncounted(live) ==
    IF Cardinality(live) > MaxConcurrent THEN Cardinality(live) - MaxConcurrent ELSE 0

\* How many of the live sessions must go before one more is issued.
Excess(live) ==
    IF Cardinality(live) + 1 > MaxConcurrent THEN Cardinality(live) + 1 - MaxConcurrent ELSE 0

\* The choices of the n oldest: sessions issued together are ordered by a random id.
Oldest(live, n) ==
    {old \in SUBSET live :
        /\ Cardinality(old) = n
        /\ \A s \in old, k \in live \ old : sessions[s].issuedAt <= sessions[k].issuedAt}

NewSession(id, now) ==
    [issuedAt |-> now, activeAt |-> now, token |-> id, revoked |-> "no", revokedAt |-> 0]

Revoked(session, reason, now) == [session EXCEPT !.revoked = reason, !.revokedAt = now]

\* Seeded fault: the expiry is stored as the last activity.
Rotated_AtExpiry(session, fresh, now) ==
    [session EXCEPT !.activeAt = now + InactivityTimeout, !.token = fresh]

Rotated(session, fresh, now) == [session EXCEPT !.activeAt = now, !.token = fresh]

-----------------------------------------------------------------------------
(* The transactions: what the store holds after they have committed.       *)

Issue(r) ==
    LET q == requests[r]
        live == {s \in Ids : Live(sessions[s], q.at)}
    IN  /\ q.operation = "login"
        /\ \E evicted \in Oldest(live, Excess(live)) :
              sessions' = [s \in Ids |->
                  CASE s = q.fresh -> NewSession(s, q.at)
                    [] s \in evicted -> Revoked(sessions[s], "limit", q.at)
                    [] OTHER -> sessions[s]]
        /\ tokens' = [tokens EXCEPT ![q.fresh] = q.fresh]
        /\ lapsed' = lapsed \cup {s \in Issued : sessions[s].revoked = "no" /\ s \notin live}
        /\ UNCHANGED consumed

\* Seeded fault: only the expiry of the session is looked at.
Redeemable_Revoked(token, now) ==
    /\ token \notin consumed
    /\ now < ExpiresAt(sessions[tokens[token]])
    /\ sessions[tokens[token]].token = token

Redeemable(token, now) ==
    /\ token \notin consumed
    /\ Live(sessions[tokens[token]], now)
    /\ sessions[tokens[token]].token = token

Claimed(token) == consumed \cup {token}

Rotate(r) ==
    LET q == requests[r]
        s == tokens[q.given]
    IN  /\ q.operation = "refresh"
        /\ Redeemable(q.given, q.at)
        /\ consumed' = Claimed(q.given)
        /\ sessions' = [sessions EXCEPT ![s] = Rotated(@, q.fresh, q.at)]
        /\ tokens' = [tokens EXCEPT ![q.fresh] = s]
        /\ UNCHANGED lapsed

Targets(r) ==
    LET q == requests[r]
        scope == IF q.operation = "logout" THEN {q.given} ELSE Ids
    IN  {s \in scope : Live(sessions[s], q.at)}

Revoke(r) ==
    LET q == requests[r]
    IN  /\ q.operation \in {"logout", "logout all"}
        /\ sessions' = [s \in Ids |-> IF s \in Targets(r)
                                      THEN Revoked(sessions[s], "logout", q.at)
                                      ELSE sessions[s]]
        /\ UNCHANGED <<tokens, consumed, lapsed>>

Transaction(r) == Issue(r) \/ Rotate(r) \/ Revoke(r)

-----------------------------------------------------------------------------
(* An operation begins: it reads the clock and mints the token it may      *)
(* hand out.                                                               *)

Begin(r, operation, given, fresh) ==
    /\ requests[r] \in {Idle, Served}
    /\ requests' = [requests EXCEPT ![r] =
          [operation |-> operation, at |-> clock, given |-> given, fresh |-> fresh,
           stage |-> "running"]]
    /\ UNCHANGED <<clock, storeVars, answers>>

Mint == minted < MaxIds /\ minted' = minted + 1

BeginLogin(r) == Mint /\ Begin(r, "login", NoId, minted')

BeginRefresh(r) == Mint /\ \E t \in Held : Begin(r, "refresh", t, minted')

BeginLogout(r) == \E s \in Issued : Begin(r, "logout", s, NoId) /\ UNCHANGED minted

BeginLogoutAll(r) == Begin(r, "logout all", NoId, NoId) /\ UNCHANGED minted

-----------------------------------------------------------------------------
(* The executor: the transaction commits, and the client hears of it or    *)
(* the outcome is in doubt; it rolls back in doubt; it is refused, or      *)
(* fails, and rolls back.                                                  *)

\* The success a client is told of; a login or a refresh hands out its token.
Succeed(r) ==
    LET q == requests[r]
    IN  /\ requests' = [requests EXCEPT ![r] = Served]
        /\ answers' = IF q.operation \in {"login", "refresh"}
                      THEN answers \cup {[given |-> q.given, fresh |-> q.fresh]}
                      ELSE answers

Commit(r) ==
    /\ requests[r].stage = "running"
    /\ Transaction(r)
    /\ Succeed(r)
    /\ UNCHANGED <<clock, minted>>

Unsure(r) == requests' = [requests EXCEPT ![r].stage = "unsure"]

CommitUnseen(r) ==
    /\ requests[r].stage = "running"
    /\ Transaction(r)
    /\ Unsure(r)
    /\ UNCHANGED <<clock, minted, answers>>

LoseCommit(r) ==
    /\ requests[r].stage = "running"
    /\ requests[r].operation = "refresh" => Redeemable(requests[r].given, requests[r].at)
    /\ Unsure(r)
    /\ UNCHANGED <<clock, minted, storeVars, answers>>

\* An error answer: the token is refused, the database is unavailable or the retries are used
\* up, or, when in doubt, the lookup fails or finds something else than expected.
Fail(r) ==
    /\ requests[r] \notin {Idle, Served}
    /\ requests' = [requests EXCEPT ![r] = Idle]
    /\ UNCHANGED <<clock, minted, storeVars, answers>>

\* Seeded fault: the presented token being consumed is taken for the rotation.
FoundRotation_Any(q) == q.given \in consumed

FoundRotation(q) ==
    LET s == tokens[q.given]
    IN  /\ sessions[s].revoked = "no"
        /\ sessions[s] = Rotated(sessions[s], q.fresh, q.at)
        /\ q.given \in consumed
        /\ tokens[q.fresh] = s /\ q.fresh \notin consumed

FoundRevocation(q) == sessions[q.given].revoked = "logout" /\ sessions[q.given].revokedAt = q.at

\* Whether the lookup of an operation finds what it expects to have written.  The lookup of
\* "logout all" counts what it finds and takes any count, 0 included, for the outcome.
Found(q) ==
    CASE q.operation = "login" -> sessions[q.fresh] = NewSession(q.fresh, q.at)
      [] q.operation = "refresh" -> FoundRotation(q)
      [] q.operation = "logout" -> FoundRevocation(q)
      [] q.operation = "logout all" -> TRUE

Reconcile(r) ==
    /\ requests[r].stage = "unsure"
    /\ Found(requests[r])
    /\ Succeed(r)
    /\ UNCHANGED <<clock, minted, storeVars>>

Tick ==
    /\ clock < MaxTime
    /\ clock' = clock + 1
    /\ UNCHANGED <<minted, storeVars, requests, answers>>

SessionNext ==
    \/ Tick
    \/ \E r \in Requests :
          \/ BeginLogin(r) \/ BeginRefresh(r) \/ BeginLogout(r) \/ BeginLogoutAll(r)
          \/ Commit(r) \/ CommitUnseen(r) \/ LoseCommit(r) \/ Fail(r) \/ Reconcile(r)

SessionSpec == SessionInit /\ [][SessionNext]_sessionVars

-----------------------------------------------------------------------------
(* Properties.                                                             *)

\* Of the refresh tokens of a session exactly one can be spent, the one its row names, whatever
\* rotations have been lost, repeated or answered late; and two refreshes answered with success
\* never redeemed the same token: what they handed out was written, and the lookup after an
\* ambiguous commit takes no other request's rotation for its own (refresh_session, _reconcile).
TokensAreSpentOnce ==
    /\ \A s \in Issued : {t \in Ids : tokens[t] = s} \ consumed = {sessions[s].token}
    /\ \A a, b \in {x \in answers : x.given # NoId} :
          /\ tokens[a.fresh] = tokens[a.given] /\ a.given \in consumed
          /\ a.given = b.given => a = b

\* A login evicts enough sessions: those that are not revoked and that no login has passed
\* over as expired are never more than the policy allows (_enforce_concurrency_limit_locked).
\* More may be live: a refresh that read the clock before a login can still revive one it
\* passed over.
UnlapsedWithinLimit ==
    Cardinality({s \in Issued \ lapsed : sessions[s].revoked = "no"}) <= MaxConcurrent

\* A session only moves forward: a revoked one never changes again, whatever refresh, logout or
\* eviction began before the revocation and commits after it, and no refresh moves the last
\* activity back, although it writes a time read before its transaction.
SessionsMoveForward ==
    [][\A s \in Ids :
         /\ sessions[s].revoked # "no" => sessions'[s] = sessions[s]
         /\ s \in Issued => sessions'[s].activeAt >= sessions[s].activeAt]_sessionVars
=============================================================================
