--------------------------- MODULE LoginChallenges ---------------------------
(***************************************************************************)
(* Signing in to one account from one address (services/auth/app/login.py, *)
(* phone_verification.py, email_verification.py): the count of wrong       *)
(* passwords and its lockout, the one-time codes, and the row that says    *)
(* which code a login has to show.                                         *)
(*                                                                         *)
(* A transaction is atomic and reads the clock as it runs; a login is a    *)
(* request of many of them, and may end between any two.  What becomes of  *)
(* the account and of the session meanwhile is AccountStanding.            *)
(***************************************************************************)
EXTENDS Naturals, FiniteSets

CONSTANTS
    Requests,       \* logins that may be in flight at once
    Challenges,     \* login challenges, each with a code of its own
    MaxFailures,    \* wrong passwords that begin a lockout
    MaxAttempts,    \* wrong codes a challenge bears
    MaxWrong,       \* bound: wrong codes tried on one challenge
    MaxGuesses,     \* bound: wrong passwords counted by the history
    None

ASSUME LoginAssumption ==
    /\ MaxFailures \in Nat \ {0} /\ MaxAttempts \in Nat \ {0}
    /\ IsFiniteSet(Requests)

VARIABLES
    channel,        \* by which the codes of this login identifier travel
    lockout,        \* the row in auth_login_lockouts
    offer,          \* the row in auth_login_step_up_states
    challenges,     \* auth_otp_challenges of the purpose login_step_up
    requests

\* History.
VARIABLES
    guesses,        \* wrong passwords since a success or the end of a lockout or of their window
    forgotten,      \* a lockout row was deleted that was not the expired one which had been read
    admitted,       \* sessions issued for each code
    shared          \* codes that two logins have both found right before either used it up

lockVars == <<lockout, guesses, forgotten>>
codeVars == <<offer, challenges, admitted, shared>>
loginVars == <<channel, lockVars, codeVars, requests>>

\* until: the row has no lockout, one still ahead of the clock, or one behind it.
Lockout == [failures: 0..MaxFailures - 1, fresh: BOOLEAN, until: {"none", "ahead", "past"}]
ASSUME NoneAssumption == None \notin Lockout

Challenge == [state: {"unissued", "open", "expired", "consumed"}, failed: Nat]
Request == [stage: {"forget", "checked", "weigh", "clear", "issue", "offer",
                    "prove", "miss", "spend", "mark", "admit", "admitted"},
            challenge: Challenges \cup {None}]
Idle == [stage |-> "idle"]

LoginTypeOK ==
    /\ channel \in {"email", "sms"}
    /\ lockout \in Lockout \cup {None}
    /\ offer \in [challenge: Challenges, consumed: BOOLEAN] \cup {None}
    /\ challenges \in [Challenges -> Challenge]
    /\ requests \in [Requests -> Request \cup {Idle}]
    /\ guesses \in Nat
    /\ forgotten \in BOOLEAN
    /\ admitted \in [Challenges -> Nat]
    /\ shared \in SUBSET Challenges

LoginInit ==
    /\ channel \in {"email", "sms"}
    /\ lockout = None
    /\ offer = None
    /\ challenges = [c \in Challenges |-> [state |-> "unissued", failed |-> 0]]
    /\ requests = [r \in Requests |-> Idle]
    /\ guesses = 0
    /\ forgotten = FALSE
    /\ admitted = [c \in Challenges |-> 0]
    /\ shared = {}

-----------------------------------------------------------------------------

At(r, stage) == requests[r].stage = stage
Of(r) == requests[r].challenge
Free(r) == requests[r] = Idle

Enter(r, stage, c) ==
    requests' = [requests EXCEPT ![r] = [stage |-> stage, challenge |-> c]]
Finish(r) == requests' = [requests EXCEPT ![r] = Idle]

\* Refused, failed or dead.
Abandon(r) ==
    /\ ~ Free(r)
    /\ Finish(r)
    /\ UNCHANGED <<channel, lockVars, codeVars>>

-----------------------------------------------------------------------------
(* The lockout.                                                            *)

Locked == lockout # None /\ lockout.until = "ahead"
Lapsed == lockout # None /\ lockout.until = "past"

\* get_active_lockout
Look(r) ==
    /\ Free(r)
    /\ ~ Locked
    /\ Enter(r, IF Lapsed THEN "forget" ELSE "checked", None)
    /\ UNCHANGED <<channel, lockVars, codeVars>>

\* _delete_state: whatever the row has become.
Forget(r) ==
    /\ At(r, "forget")
    /\ lockout' = None
    /\ guesses' = IF Lapsed THEN 0 ELSE guesses
    /\ forgotten' = (forgotten \/ (lockout # None /\ ~ Lapsed))
    /\ Enter(r, "checked", None)
    /\ UNCHANGED <<channel, codeVars>>

Counted == IF lockout = None \/ ~ lockout.fresh THEN 0 ELSE lockout.failures

\* Seeded fault: the count is kept when it begins a lockout.
AfterFailure_Kept ==
    IF Locked THEN lockout
    ELSE [failures |-> Counted + 1, fresh |-> TRUE,
          until |-> IF Counted + 1 < MaxFailures THEN "none" ELSE "ahead"]

\* Seeded fault: a lockout that has begun meanwhile is not looked for.
AfterFailure_Unlocked ==
    IF Counted + 1 < MaxFailures
    THEN [failures |-> Counted + 1, fresh |-> TRUE, until |-> "none"]
    ELSE [failures |-> 0, fresh |-> TRUE, until |-> "ahead"]

AfterFailure ==
    IF Locked THEN lockout
    ELSE IF Counted + 1 < MaxFailures
    THEN [failures |-> Counted + 1, fresh |-> TRUE, until |-> "none"]
    ELSE [failures |-> 0, fresh |-> TRUE, until |-> "ahead"]

\* register_failed_attempt, of a wrong password.
Fail(r) ==
    /\ At(r, "checked")
    /\ guesses < MaxGuesses
    /\ guesses' = guesses + 1
    /\ lockout' = AfterFailure
    /\ Finish(r)
    /\ UNCHANGED <<channel, forgotten, codeVars>>

\* The clock passes the end of the lockout, or of the window of the failures.
EndLockout ==
    /\ Locked
    /\ lockout' = [lockout EXCEPT !.until = "past"]
    /\ guesses' = 0
    /\ UNCHANGED <<channel, forgotten, codeVars, requests>>

EndWindow ==
    /\ lockout # None /\ lockout.fresh /\ lockout.failures > 0
    /\ lockout' = [lockout EXCEPT !.fresh = FALSE]
    /\ guesses' = 0
    /\ UNCHANGED <<channel, forgotten, codeVars, requests>>

-----------------------------------------------------------------------------
(* The right password, or none in a sign-in by email alone, without a      *)
(* code: the one that is offered, or a new one.                            *)

Limited(c) == channel = "sms" => challenges[c].failed < MaxAttempts

Usable(c) == challenges[c].state = "open" /\ Limited(c)

\* _issue_or_reuse_step_up_challenge, _issue_email_otp_step_up_challenge: the offer is read, and
\* then its challenge.
WithoutCode(r) ==
    /\ At(r, "checked")
    /\ \/ offer = None /\ Enter(r, "issue", None)
       \/ offer # None /\ offer.consumed /\ Enter(r, "clear", None)
       \/ offer # None /\ ~ offer.consumed /\ Enter(r, "weigh", offer.challenge)
    /\ UNCHANGED <<channel, lockVars, codeVars>>

\* A sign-in by email alone does not offer a code again whose attempts are used up.
Weigh(r) ==
    /\ At(r, "weigh")
    /\ \/ Usable(Of(r)) /\ Finish(r)
       \/ /\ challenges[Of(r)].state # "open" \/ challenges[Of(r)].failed >= MaxAttempts
          /\ Enter(r, "clear", None)
    /\ UNCHANGED <<channel, lockVars, codeVars>>

ClearOffer(r) ==
    /\ At(r, "clear")
    /\ offer' = None
    /\ Enter(r, "issue", None)
    /\ UNCHANGED <<channel, lockVars, challenges, admitted, shared>>

\* issue_challenge: one transaction, in which the others are used up.  The limits on sending
\* codes again and the cooldown only refuse.
IssueCode(r, c) ==
    /\ At(r, "issue")
    /\ challenges[c].state = "unissued"
    /\ challenges' = [d \in Challenges |->
          [challenges[d] EXCEPT !.state = IF d = c THEN "open"
                                          ELSE IF @ = "unissued" THEN @ ELSE "consumed"]]
    /\ Enter(r, "offer", c)
    /\ UNCHANGED <<channel, lockVars, offer, admitted, shared>>

\* The code has been delivered.
SetOffer(r) ==
    /\ At(r, "offer")
    /\ offer' = [challenge |-> Of(r), consumed |-> FALSE]
    /\ Finish(r)
    /\ UNCHANGED <<channel, lockVars, challenges, admitted, shared>>

-----------------------------------------------------------------------------
(* The same with a code.                                                   *)

\* _validate_and_consume_step_up_proof
WithCode(r) ==
    /\ At(r, "checked")
    /\ offer # None /\ ~ offer.consumed
    /\ Enter(r, "prove", offer.challenge)
    /\ UNCHANGED <<channel, lockVars, codeVars>>

\* Seeded fault: whether the code was used up is left to the offer.
Valid_Reused(c) == challenges[c].state # "expired" /\ Limited(c)

Valid(c) == Usable(c)

Contended(c) == \E r \in Requests : At(r, "spend") /\ Of(r) = c

\* _validate_and_consume_phone_step_up, _validate_and_consume_email_step_up
ReadCode(r) ==
    /\ At(r, "prove")
    /\ Valid(Of(r))
    /\ \/ /\ challenges[Of(r)].failed < MaxWrong
          /\ Enter(r, "miss", Of(r))                        \* a wrong code
          /\ UNCHANGED shared
       \/ /\ Enter(r, "spend", Of(r))
          /\ shared' = IF Contended(Of(r)) THEN shared \cup {Of(r)} ELSE shared
    /\ UNCHANGED <<channel, lockVars, offer, challenges, admitted>>

\* increment_failed_attempt_count
Miss(r) ==
    /\ At(r, "miss")
    /\ challenges' = [challenges EXCEPT ![Of(r)].failed = @ + 1]
    /\ Finish(r)
    /\ UNCHANGED <<channel, lockVars, offer, admitted, shared>>

\* mark_challenge_consumed
Spend(r) ==
    /\ At(r, "spend")
    /\ challenges' = [challenges EXCEPT ![Of(r)].state = "consumed"]
    /\ Enter(r, "mark", Of(r))
    /\ UNCHANGED <<channel, lockVars, offer, admitted, shared>>

\* mark_step_up_state_consumed: the offer there is, of this challenge or of a later one.
Mark(r) ==
    /\ At(r, "mark")
    /\ offer # None
    /\ offer' = [offer EXCEPT !.consumed = TRUE]
    /\ Enter(r, "admit", Of(r))
    /\ UNCHANGED <<channel, lockVars, challenges, admitted, shared>>

Admit(r) ==
    /\ At(r, "admit")
    /\ admitted' = [admitted EXCEPT ![Of(r)] = @ + 1]
    /\ Enter(r, "admitted", Of(r))
    /\ UNCHANGED <<channel, lockVars, offer, challenges, shared>>

\* clear_failed_attempts
ClearFailures(r) ==
    /\ At(r, "admitted")
    /\ lockout' = None
    /\ guesses' = 0
    /\ Finish(r)
    /\ UNCHANGED <<channel, forgotten, codeVars>>

Expire(c) ==
    /\ challenges[c].state = "open"
    /\ challenges' = [challenges EXCEPT ![c].state = "expired"]
    /\ UNCHANGED <<channel, lockVars, offer, admitted, shared, requests>>

LoginNext ==
    \/ \E r \in Requests :
          \/ Look(r) \/ Forget(r) \/ Fail(r)
          \/ WithoutCode(r) \/ Weigh(r) \/ ClearOffer(r) \/ SetOffer(r)
          \/ \E c \in Challenges : IssueCode(r, c)
          \/ WithCode(r) \/ ReadCode(r) \/ Miss(r) \/ Spend(r) \/ Mark(r)
          \/ Admit(r) \/ ClearFailures(r) \/ Abandon(r)
    \/ \E c \in Challenges : Expire(c)
    \/ EndLockout \/ EndWindow

LoginSpec == LoginInit /\ [][LoginNext]_loginVars

-----------------------------------------------------------------------------
(* Properties.                                                             *)

\* However logins overlap, between two rests of an account the wrong passwords tried on it are
\* fewer than the threshold and one for each login in flight, unless a login that had read an
\* expired lockout deletes a row that others have written since (register_failed_attempt,
\* get_active_lockout).
GuessesAreLimited ==
    guesses < MaxFailures + Cardinality(Requests) \/ forgotten

\* A code lets one login in, whatever dies between using it up and marking the offer, unless two
\* have found it right before either used it up (_validate_and_consume_step_up_proof).
ProofAdmitsOnce ==
    \A c \in Challenges : admitted[c] <= 1 \/ c \in shared

\* The wrong codes tried on a challenge by SMS are fewer than its limit and one for each login in
\* flight (_validate_and_consume_phone_step_up, increment_failed_attempt_count).
CodesOverrun ==
    channel = "sms" =>
        \A c \in Challenges : challenges[c].failed < MaxAttempts + Cardinality(Requests)

\* Both limits hold, up to one guess for each login in flight.
LimitsHold == GuessesAreLimited /\ CodesOverrun
=============================================================================
