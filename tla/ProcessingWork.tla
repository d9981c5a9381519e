--------------------------- MODULE ProcessingWork ---------------------------
(***************************************************************************)
(* Durable worker claims, leases, checkpoints and fenced commits of        *)
(* services/document_ai/app/processing_workers.py.  The database rows are  *)
(* the authority: a work item, its operation (one work item per operation  *)
(* kind, so the two are keyed by the same item) and its history of         *)
(* attempts.  A worker keeps nothing but the lease it was handed.          *)
(*                                                                         *)
(* Every repository call is one database transaction, hence one action.    *)
(* Time is kept as what remains of each timestamp: leased_until is         *)
(* leaseLeft, available_at and next_retry_at (always written together) are *)
(* wait, now() - first_attempted_at is elapsed; Tick ages all of them.     *)
(***************************************************************************)
EXTENDS Integers, Sequences, FiniteSets

CONSTANTS
    Items,                \* processing work items, each with its operation
    Workers,              \* queue consumers / polling workers
    NoItem,               \* item of a worker that holds no lease
    MaxAttempts,          \* work.max_attempts
    LeaseTicks,           \* lease_seconds
    MaxDelay,             \* longest retry delay the policy schedules
    MaxElapsed,           \* work.max_retry_elapsed_seconds
    BatchLimit,           \* rows one recovery pass takes
    MaxCheckpoint,        \* bound: highest checkpoint sequence an executor writes
    MaxManualRecoveries,  \* bound: operator recoveries of one item
    FailureRowUnpacks     \* FALSE: commit_failure as the code stands

ASSUME ConstantsAssumption ==
    /\ NoItem \notin Items
    /\ MaxAttempts \in Nat \ {0}
    /\ LeaseTicks \in Nat \ {0}
    /\ MaxDelay \in Nat \ {0}
    /\ MaxElapsed \in Nat
    /\ BatchLimit \in Nat \ {0}
    /\ MaxCheckpoint \in Nat
    /\ MaxManualRecoveries \in Nat
    /\ FailureRowUnpacks \in BOOLEAN

VARIABLES
    work,         \* document_ai_processing_work_items
    op,           \* document_ai_processing_operations
    attempts,     \* document_ai_processing_attempts, in attempt_number order
    intents,      \* document_ai_processing_outbox rows by event type
    deadLetters,  \* attempt numbers with a document_ai_processing_dead_letters row
    standing,     \* what the document and its version allow
    lease         \* the lease each worker believes it holds

vars == <<work, op, attempts, intents, deadLetters, standing, lease>>
durable == <<work, op, attempts, intents, deadLetters>>

WorkState == {"queued", "leased", "succeeded", "failed", "dead_letter"}
Settled == {"succeeded", "failed", "dead_letter"}
NotStarted == -1   \* first_attempted_at IS NULL

Work == [state: WorkState, fence: Nat, current: Nat,
         leaseLeft: 0..LeaseTicks, wait: 0..MaxDelay,
         elapsed: NotStarted..(MaxElapsed + 1),
         retryCount: Nat, manualRecoveries: Nat,
         category: {"none", "lease_expired", "retryable", "permanent"}]
Operation == [state: {"queued", "running", "succeeded", "failed"}, result: Nat]
Attempt == [state: {"running", "succeeded", "failed"}, fence: Nat, checkpoint: Nat]
Intent == [kind: {"requested", "retry", "manual_recovery"}, n: Nat]
Lease == [item: Items \cup {NoItem}, attempt: Nat, fence: Nat]

NoLease == [item |-> NoItem, attempt |-> 0, fence |-> 0]
Holds(w) == lease[w].item # NoItem

TypeOK ==
    /\ work \in [Items -> Work]
    /\ op \in [Items -> Operation]
    /\ attempts \in [Items -> Seq(Attempt)]
    /\ intents \in [Items -> SUBSET Intent]
    /\ deadLetters \in [Items -> SUBSET Nat]
    /\ standing \in [Items -> {"eligible", "trashed", "superseded"}]
    /\ lease \in [Workers -> Lease]

(* Work is created with its operation and its first outbox intent in one   *)
(* transaction, for a current version of a document in an eligible state.  *)
Init ==
    /\ work = [i \in Items |-> [state |-> "queued", fence |-> 0, current |-> 0,
                                leaseLeft |-> 0, wait |-> 0, elapsed |-> NotStarted,
                                retryCount |-> 0, manualRecoveries |-> 0,
                                category |-> "none"]]
    /\ op = [i \in Items |-> [state |-> "queued", result |-> 0]]
    /\ attempts = [i \in Items |-> <<>>]
    /\ intents = [i \in Items |-> {[kind |-> "requested", n |-> 0]}]
    /\ deadLetters = [i \in Items |-> {}]
    /\ standing = [i \in Items |-> "eligible"]
    /\ lease = [w \in Workers |-> NoLease]

-----------------------------------------------------------------------------
(* Row conditions shared by the statements.                                *)

Eligible(i) == standing[i] = "eligible"

\* Seeded fault: a claim takes over an expired lease without recovering it.
Claimable_StealsExpired(i) ==
    /\ work[i].state = "queued" \/ (work[i].state = "leased" /\ work[i].leaseLeft = 0)
    /\ op[i].state \in {"queued", "running"}
    /\ Eligible(i)

Claimable(i) ==
    /\ work[i].state = "queued"
    /\ work[i].wait = 0
    /\ work[i].current = 0
    /\ op[i].state \in {"queued", "running"}
    /\ Eligible(i)

\* Seeded fault: only leases that were never renewed are seen as expired.
LeaseExpired_FirstOnly(i) ==
    /\ work[i].state = "leased" /\ work[i].leaseLeft = 0 /\ work[i].current = 1
    /\ Eligible(i)

LeaseExpired(i) ==
    /\ work[i].state = "leased"
    /\ work[i].leaseLeft = 0
    /\ work[i].current # 0
    /\ attempts[i][work[i].current].state = "running"
    /\ Eligible(i)

(* attempt_number < max_attempts and the elapsed window still open.        *)
MayRetry(i) == work[i].current < MaxAttempts /\ work[i].elapsed <= MaxElapsed

(* What recovery leaves the operation in.                                  *)
OperationAfterExpiry(i) == IF MayRetry(i) THEN "queued" ELSE "failed"

(* The fence every worker write repeats: the lease is the current one,     *)
(* unexpired, and its attempt still runs.                                  *)
\* Seeded fault: the item and the clock are checked, the attempt and fence not.
HoldsLiveLease_NoFence(w) ==
    /\ Holds(w)
    /\ work[lease[w].item].state = "leased"
    /\ work[lease[w].item].leaseLeft > 0

HoldsLiveLease(w) ==
    /\ Holds(w)
    /\ LET l == lease[w]
           row == work[l.item]
       IN  /\ row.state = "leased"
           /\ row.leaseLeft > 0
           /\ row.current = l.attempt
           /\ row.fence = l.fence
           /\ attempts[l.item][l.attempt].state = "running"
           /\ attempts[l.item][l.attempt].fence = l.fence

Leased(row, number, token) ==
    [row EXCEPT !.state = "leased", !.fence = token, !.current = number,
                !.leaseLeft = LeaseTicks, !.elapsed = IF @ = NotStarted THEN 0 ELSE @]

Released(row, state, category) ==
    [row EXCEPT !.state = state, !.category = category, !.current = 0, !.leaseLeft = 0]

Requeued(row, delay, category) ==
    [Released(row, "queued", category) EXCEPT !.wait = delay, !.retryCount = @ + 1]

(* Inserts into the outbox and the dead-letter table (ON CONFLICT DO       *)
(* NOTHING).                                                               *)
AddIntent(i, kind, n) == intents' = [intents EXCEPT ![i] = @ \cup {[kind |-> kind, n |-> n]}]

RecordDeadLetter(i, n) == deadLetters' = [deadLetters EXCEPT ![i] = @ \cup {n}]

(* A worker done with its delivery keeps nothing of the lease.             *)
DropLease(w) == lease' = [lease EXCEPT ![w] = NoLease]

-----------------------------------------------------------------------------
(* Operations of ProcessingWorkerRepository.                               *)

(* recover_expired_leases: up to BatchLimit expired rows, each requeued    *)
(* with a delay while budget remains and failed otherwise.                 *)
RecoverExpiredLeases ==
    LET expired == {i \in Items : LeaseExpired(i)}
    IN \E batch \in SUBSET expired :
        /\ batch # {}
        /\ Cardinality(batch) = BatchLimit \/ (batch = expired /\ Cardinality(batch) <= BatchLimit)
        /\ \E delay \in [batch -> 1..MaxDelay] :
            work' = [i \in Items |->
                        IF i \notin batch THEN work[i]
                        ELSE IF MayRetry(i)
                        THEN Requeued(work[i], delay[i], "lease_expired")
                        ELSE Released(work[i], "failed", "lease_expired")]
        /\ op' = [i \in Items |->
                    IF i \notin batch THEN op[i]
                    ELSE [op[i] EXCEPT !.state = OperationAfterExpiry(i)]]
        /\ attempts' = [i \in Items |->
                          IF i \notin batch THEN attempts[i]
                          ELSE [attempts[i] EXCEPT ![work[i].current].state = "failed"]]
        /\ UNCHANGED <<intents, deadLetters, standing, lease>>

(* claim_work_item: a fresh attempt under the next fencing token.          *)
Claim(w, i) ==
    /\ ~Holds(w)
    /\ Claimable(i)
    /\ LET number == Len(attempts[i]) + 1
           token == work[i].fence + 1
       IN  /\ attempts' = [attempts EXCEPT ![i] =
                  Append(@, [state |-> "running", fence |-> token, checkpoint |-> 0])]
           /\ work' = [work EXCEPT ![i] = Leased(@, number, token)]
           /\ lease' = [lease EXCEPT ![w] = [item |-> i, attempt |-> number, fence |-> token]]
    /\ op' = [op EXCEPT ![i].state = "running"]
    /\ UNCHANGED <<intents, deadLetters, standing>>

(* heartbeat: renews the exact live lease, whatever the version's standing. *)
Heartbeat(w) ==
    /\ HoldsLiveLease(w)
    /\ work' = [work EXCEPT ![lease[w].item].leaseLeft = LeaseTicks]
    /\ UNCHANGED <<op, attempts, intents, deadLetters, standing, lease>>

NewerCheckpoint(w, sequence) ==
    sequence > attempts[lease[w].item][lease[w].attempt].checkpoint

(* checkpoint: only a higher sequence replaces the stored one.             *)
Checkpoint(w) ==
    /\ HoldsLiveLease(w)
    /\ \E sequence \in 1..MaxCheckpoint :
        /\ NewerCheckpoint(w, sequence)
        /\ attempts' = [attempts EXCEPT ![lease[w].item] =
               [@ EXCEPT ![lease[w].attempt].checkpoint = sequence]]
    /\ UNCHANGED <<work, op, intents, deadLetters, standing, lease>>

(* latest_checkpoint: what the next attempt of the item resumes from.      *)
LatestCheckpoint(i) ==
    LET written == {attempts[i][n].checkpoint : n \in DOMAIN attempts[i]} \cup {0}
    IN CHOOSE s \in written : \A t \in written : t <= s

(* commit_success: terminal only for the live lease; the version's standing *)
(* is not consulted.  A rejected commit changes nothing and the delivery    *)
(* stays unacknowledged.                                                    *)
\* Seeded fault: the commit looks at the operation only.
SuccessAccepted_OperationOnly(w) == op[lease[w].item].state \in {"queued", "running"}

SuccessAccepted(w) ==
    HoldsLiveLease(w) /\ op[lease[w].item].state \in {"queued", "running"}

CommitSuccess(w) ==
    /\ Holds(w)
    /\ DropLease(w)
    /\ \/ /\ SuccessAccepted(w)
          /\ LET i == lease[w].item
                 n == lease[w].attempt
             IN  /\ work' = [work EXCEPT ![i] = Released(@, "succeeded", @.category)]
                 /\ op' = [op EXCEPT ![i] = [state |-> "succeeded", result |-> n]]
                 /\ attempts' = [attempts EXCEPT ![i] = [@ EXCEPT ![n].state = "succeeded"]]
          /\ UNCHANGED <<intents, deadLetters, standing>>
       \/ /\ ~SuccessAccepted(w)
          /\ UNCHANGED <<work, op, attempts, intents, deadLetters, standing>>

(* commit_failure: the statement names five columns and the code unpacks   *)
(* the row into seventeen names, so whenever a row is found it raises and  *)
(* the transaction is rolled back.  FailureRowUnpacks = TRUE is the rest   *)
(* of the handler as it is written.                                        *)
FailureRowFound(w) == HoldsLiveLease(w) /\ Eligible(lease[w].item)

CommitFailure(w, retryable) ==
    /\ Holds(w)
    /\ DropLease(w)
    /\ LET i == lease[w].item
           n == lease[w].attempt
           category == IF retryable THEN "retryable" ELSE "permanent"
       IN
       \/ /\ ~(FailureRowFound(w) /\ FailureRowUnpacks)
          /\ UNCHANGED <<work, op, attempts, intents, deadLetters>>
       \/ /\ FailureRowFound(w) /\ FailureRowUnpacks
          /\ attempts' = [attempts EXCEPT ![i] = [@ EXCEPT ![n].state = "failed"]]
          /\ \/ /\ retryable /\ MayRetry(i)
                /\ \E delay \in 1..MaxDelay :
                      work' = [work EXCEPT ![i] = Requeued(@, delay, category)]
                /\ op' = [op EXCEPT ![i].state = "queued"]
                /\ AddIntent(i, "retry", n)
                /\ UNCHANGED deadLetters
             \/ /\ ~(retryable /\ MayRetry(i))
                /\ work' = [work EXCEPT ![i] = Released(@, "dead_letter", category)]
                /\ op' = [op EXCEPT ![i].state =
                             IF @ \in {"queued", "running"} THEN "failed" ELSE @]
                /\ RecordDeadLetter(i, n)
                /\ UNCHANGED intents
    /\ UNCHANGED standing

(* recover_dead_letter: an operator returns dead-lettered work to the      *)
(* queue; the attempt numbers it already used stay used.                   *)
RecoverDeadLetter(i) ==
    /\ work[i].state = "dead_letter"
    /\ Eligible(i)
    /\ work[i].manualRecoveries < MaxManualRecoveries
    /\ LET k == work[i].manualRecoveries + 1
       IN  /\ work' = [work EXCEPT ![i] =
                  [@ EXCEPT !.state = "queued", !.retryCount = 0, !.elapsed = NotStarted,
                            !.wait = 0, !.manualRecoveries = k]]
           /\ AddIntent(i, "manual_recovery", k)
    /\ op' = [op EXCEPT ![i].state = "queued"]
    /\ UNCHANGED <<attempts, deadLetters, standing, lease>>

-----------------------------------------------------------------------------
(* The world around the repository.                                        *)

(* A worker process dies: its lease is only forgotten, never returned.     *)
Crash(w) ==
    /\ Holds(w)
    /\ DropLease(w)
    /\ UNCHANGED <<work, op, attempts, intents, deadLetters, standing>>

(* The document is trashed or restored, or the version superseded.         *)
ChangeStanding(i) ==
    /\ \/ standing[i] = "eligible" /\ standing' = [standing EXCEPT ![i] = "trashed"]
       \/ standing[i] = "trashed" /\ standing' = [standing EXCEPT ![i] = "eligible"]
       \/ standing[i] # "superseded" /\ standing' = [standing EXCEPT ![i] = "superseded"]
    /\ UNCHANGED <<work, op, attempts, intents, deadLetters, lease>>

\* Seeded fault: a lease is counted below the moment it expires.
Aged_NoFloor(row) == [row EXCEPT !.leaseLeft = @ - 1]

Aged(row) ==
    [row EXCEPT !.leaseLeft = IF @ = 0 THEN 0 ELSE @ - 1,
                !.wait = IF @ = 0 THEN 0 ELSE @ - 1,
                !.elapsed = IF @ = NotStarted \/ @ = MaxElapsed + 1 THEN @ ELSE @ + 1]

Tick ==
    /\ work' = [i \in Items |-> Aged(work[i])]
    /\ UNCHANGED <<op, attempts, intents, deadLetters, standing, lease>>

-----------------------------------------------------------------------------
(* ProcessingQueueConsumer.handle: after its claim a worker ends in one of *)
(* these ways.                                                             *)
Finish(w) == CommitSuccess(w) \/ (\E retryable \in BOOLEAN : CommitFailure(w, retryable))

WorkerStep(w) ==
    \/ \E i \in Items : Claim(w, i)
    \/ Heartbeat(w)
    \/ Checkpoint(w)
    \/ Finish(w)
    \/ Crash(w)

Next ==
    \/ \E w \in Workers : WorkerStep(w)
    \/ RecoverExpiredLeases
    \/ \E i \in Items : RecoverDeadLetter(i) \/ ChangeStanding(i)
    \/ Tick

Spec == Init /\ [][Next]_vars

(* Fairness.  Clocks advance; the 30 second scheduler and every delivery   *)
(* run recover_expired_leases; an execution ends by itself or with its     *)
(* process.  Nothing obliges anybody to claim: what offers the work is     *)
(* ProcessingDelivery.                                                     *)
Fairness ==
    /\ WF_vars(Tick)
    /\ WF_vars(RecoverExpiredLeases)
    /\ \A w \in Workers : WF_vars(Finish(w) \/ Crash(w))

FairSpec == Spec /\ Fairness

-----------------------------------------------------------------------------
(* PROPERTIES                                                              *)

Running(i) == {n \in DOMAIN attempts[i] : attempts[i][n].state = "running"}

(* An item is leased exactly while its newest attempt runs; no older       *)
(* attempt is ever left running behind a newer claim, and the fencing      *)
(* token counts the attempts.                                              *)
OneRunningAttempt ==
    \A i \in Items :
        /\ Running(i) = IF work[i].state = "leased" THEN {Len(attempts[i])} ELSE {}
        /\ work[i].current = IF work[i].state = "leased" THEN Len(attempts[i]) ELSE 0
        /\ work[i].fence = Len(attempts[i])
        /\ \A n \in DOMAIN attempts[i] : attempts[i][n].fence = n

(* Two workers never both pass the fence for one item, however many stale  *)
(* leases of earlier attempts are still in their hands.                    *)
LiveLeaseIsExclusive ==
    \A v, w \in Workers :
        v # w /\ HoldsLiveLease(v) /\ HoldsLiveLease(w) => lease[v].item # lease[w].item

(* An operation succeeds once, with the result of the newest attempt, and  *)
(* no attempt is recorded as succeeded without it.                         *)
SuccessIsUniqueAndLast ==
    \A i \in Items :
        /\ \A n \in DOMAIN attempts[i] :
              attempts[i][n].state = "succeeded" => n = Len(attempts[i]) /\ op[i].result = n
        /\ (op[i].result # 0) = (\E n \in DOMAIN attempts[i] : attempts[i][n].state = "succeeded")
        /\ (op[i].state = "succeeded") = (op[i].result # 0)

(* The operation clients read always tells what its work item is doing,    *)
(* across claims, expiries, dead letters and recoveries.                   *)
OperationFollowsWork ==
    \A i \in Items :
        op[i].state = CASE work[i].state = "leased" -> "running"
                        [] work[i].state \in {"failed", "dead_letter"} -> "failed"
                        [] OTHER -> work[i].state

(* The budget: an item is attempted at most max_attempts times, plus once  *)
(* per operator recovery, and retry_count never trips the row CHECK        *)
(* retry_count < max_attempts (which would abort the failing transaction). *)
RetryBudget ==
    \A i \in Items :
        /\ Len(attempts[i]) <= MaxAttempts + work[i].manualRecoveries
        /\ work[i].retryCount < MaxAttempts

(* The leases exclude each other, in the tables and in the workers' hands  *)
(* (claim_work_item, recover_expired_leases, _require_live_lease).         *)
LeasesExclude == OneRunningAttempt /\ LiveLeaseIsExclusive

(* The selections of processing_state_reconciler: rows its four repairs    *)
(* would act on.                                                           *)
LatestAttemptIs(i, state) == Len(attempts[i]) > 0 /\ attempts[i][Len(attempts[i])].state = state

NeedsRetrySchedule(i) ==
    /\ work[i].state = "failed" /\ work[i].category = "retryable"
    /\ LatestAttemptIs(i, "failed")
    /\ op[i].state \in {"queued", "running"}
    /\ Eligible(i)

NeedsDeadLetterRecord(i) ==
    /\ work[i].state = "dead_letter"
    /\ Len(attempts[i]) > 0 /\ Len(attempts[i]) \notin deadLetters[i]
    /\ Eligible(i)

NeedsOutboxRow(i) ==
    /\ Claimable(i)
    /\ [kind |-> "requested", n |-> 0] \notin intents[i]

NeedsLeaseRestored(i) ==
    /\ work[i].state \in {"queued", "failed"} /\ work[i].current # 0
    /\ attempts[i][work[i].current].state = "running"
    /\ op[i].state \in {"queued", "running"}
    /\ Eligible(i)

(* Every disposition is on record: dead-lettered work is explained by a    *)
(* record of its last attempt and a retryable failure waits with its own   *)
(* outbox intent; and no interleaving of the repository's transactions     *)
(* leaves a row for the reconciler, whose repairs answer outside damage.   *)
DispositionIsRecorded ==
    \A i \in Items :
        /\ \A n \in deadLetters[i] : n \in DOMAIN attempts[i] /\ attempts[i][n].state = "failed"
        /\ work[i].state = "queued" /\ work[i].category = "retryable" =>
              \/ [kind |-> "retry", n |-> Len(attempts[i])] \in intents[i]
              \/ [kind |-> "manual_recovery", n |-> work[i].manualRecoveries] \in intents[i]
        /\ ~(NeedsRetrySchedule(i) \/ NeedsDeadLetterRecord(i) \/ NeedsOutboxRow(i)
                \/ NeedsLeaseRestored(i))

(* Work, operation, history of attempts and the records of what failed     *)
(* agree, across late commits, expiries, retries and recoveries            *)
(* (_commit_terminal, commit_failure, recover_dead_letter).                *)
TablesAgree ==
    SuccessIsUniqueAndLast /\ OperationFollowsWork /\ RetryBudget /\ DispositionIsRecorded

(* A worker that finishes with a lease it lost (expired, reclaimed by      *)
(* another attempt, or settled) changes no durable row, and whichever      *)
(* attempt writes a checkpoint, what the next resumes from never goes back.*)
StaleLeaseIsHarmless ==
    [][/\ \A w \in Workers :
            Holds(w) /\ ~HoldsLiveLease(w) /\ lease'[w] = NoLease => UNCHANGED durable
       /\ \A i \in Items : LatestCheckpoint(i)' >= LatestCheckpoint(i)]_vars

(* No lease of an item whose document stays eligible lasts: in spite of    *)
(* renewals, crashes, stale commits and failures that were never recorded  *)
(* it is settled, or taken back by recover_expired_leases, every time the  *)
(* item was claimed.                                                       *)
LeasesEnd ==
    \A i \in Items : <>[]Eligible(i) => []<>(work[i].state # "leased")

(* tests/test_document_ai_processing_claims.py: a failure committed under  *)
(* a live lease has a durable disposition.                                 *)
FailureHasDisposition ==
    [][\A w \in Workers :
         \A retryable \in BOOLEAN :
           CommitFailure(w, retryable) /\ FailureRowFound(w) =>
             work'[lease[w].item].state \in {"queued", "dead_letter"}]_vars
=============================================================================
