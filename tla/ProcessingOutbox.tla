-------------------------- MODULE ProcessingOutbox --------------------------
(***************************************************************************)
(* Publication of durable processing intents: services/document_ai/app/    *)
(* outbox.py.  Every relay (one per service process, run every 30 seconds) *)
(* claims due rows, publishes each to the broker and records the outcome,  *)
(* in separate transactions; a claim whose relay is gone or slow is taken  *)
(* back after stale_after.                                                 *)
(*                                                                         *)
(* A claim token is fresh for every claim of a row, and so is the attempt  *)
(* number the claim increments: the token is represented by that number.   *)
(* Backoff and stale_after are kept as whether they still last; a claim    *)
(* may turn stale at any moment, since nothing bounds how long a publish   *)
(* takes.                                                                  *)
(***************************************************************************)
EXTENDS Integers, FiniteSets

CONSTANTS
    Rows,                 \* rows of document_ai_processing_outbox
    Relays,               \* service processes running ProcessingOutboxRelay
    NoRecord,             \* a relay that is publishing nothing
    PublishLimit,         \* limit of one reconcile_once pass
    MaxPublishAttempts,   \* outbox max_attempts
    AttemptNumberUnique   \* TRUE: the constraint of migrations 0003 and 0036

ASSUME OutboxAssumption ==
    /\ PublishLimit \in Nat \ {0}
    /\ MaxPublishAttempts \in Nat \ {0}
    /\ AttemptNumberUnique \in BOOLEAN

VARIABLES
    outbox,      \* the rows
    attemptLog,  \* document_ai_processing_outbox_attempts of each row
    sent,        \* copies of each row's message the broker has accepted
    relay,       \* records each relay still holds, and the one it is publishing
    ready        \* rows whose work item is queued and available

outboxVars == <<outbox, attemptLog, sent, relay, ready>>

Row == [state: {"absent", "pending", "publishing", "published", "failed"},
        attempts: 0..MaxPublishAttempts, claim: 0..MaxPublishAttempts,
        waiting: BOOLEAN, error: {"none", "transient", "permanent"}]
Record == [row: Rows, number: 1..MaxPublishAttempts]
Outcome == {"acknowledged", "malformed", "transient", "permanent"}
Publishing == [record: Record, outcome: Outcome]
LogEntry == [number: 1..MaxPublishAttempts,
             state: {"attempted", "acknowledged", "transient_failure", "permanent_failure"}]

Fresh == [state |-> "pending", attempts |-> 0, claim |-> 0, waiting |-> FALSE, error |-> "none"]
Absent == [Fresh EXCEPT !.state = "absent"]
IdleRelay == [held |-> {}, now |-> NoRecord]

OutboxTypeOK ==
    /\ outbox \in [Rows -> Row]
    /\ attemptLog \in [Rows -> SUBSET LogEntry]
    /\ sent \in [Rows -> 0..MaxPublishAttempts]
    /\ relay \in [Relays -> [held: SUBSET Record, now: Publishing \cup {NoRecord}]]
    /\ ready \in SUBSET Rows

(* The relays start on a table that may hold unpublished rows.             *)
OutboxInit ==
    /\ outbox \in [Rows -> {Absent, Fresh}]
    /\ attemptLog = [r \in Rows |-> {}]
    /\ sent = [r \in Rows |-> 0]
    /\ relay = [k \in Relays |-> IdleRelay]
    /\ ready \in SUBSET Rows

-----------------------------------------------------------------------------
(* Statements on the two tables.                                           *)

\* Seeded fault: the attempts a row has used up are not counted.
Due_Unbounded(r) ==
    /\ outbox[r].state \in {"pending", "failed"}
    /\ ~outbox[r].waiting
    /\ outbox[r].error # "permanent"
    /\ r \in ready

Due(r) ==
    /\ outbox[r].state \in {"pending", "failed"}
    /\ ~outbox[r].waiting
    /\ outbox[r].attempts < MaxPublishAttempts
    /\ outbox[r].error # "permanent"
    /\ r \in ready

Numbers(r) == {entry.number : entry \in attemptLog[r]}

(* A claim relays may take back: claimed_at lies more than stale_after ago. *)
\* Seeded fault: only rows with a recorded error are taken back.
Stale_AfterErrorOnly(r) == outbox[r].state = "publishing" /\ outbox[r].error # "none"

Stale(r) == outbox[r].state = "publishing"

Claimed(row) ==
    [row EXCEPT !.state = "publishing", !.attempts = @ + 1, !.claim = row.attempts + 1]

\* Seeded fault: the claim token is left out of the WHERE clause.
StillClaimed_AnyToken(record) == outbox[record.row].state \in {"publishing", "published"}

StillClaimed(record) == outbox[record.row].claim = record.number

Unclaimed(row, state, error) ==
    [row EXCEPT !.state = state, !.claim = 0, !.error = error]

\* Seeded fault: a blank broker message id counts as an acknowledgement.
Acknowledged_Blank(outcome) == outcome \in {"acknowledged", "malformed"}

Acknowledged(outcome) == outcome = "acknowledged"

(* The attempt row an outcome is to be logged under: a malformed            *)
(* acknowledgement is a permanent failure.                                  *)
FailureClass(outcome) == IF outcome = "transient" THEN "transient" ELSE "permanent"

LogState(class) == IF class = "permanent" THEN "permanent_failure" ELSE "transient_failure"

(* The relay goes on to its next record.                                   *)
Proceed(k) == relay' = [relay EXCEPT ![k].now = NoRecord]

-----------------------------------------------------------------------------
(* Transactions and steps of a relay.                                      *)

(* Work transactions insert their intents; their work items come and go    *)
(* between queued and leased.                                              *)
Insert(new) ==
    /\ \A r \in new : outbox[r].state = "absent"
    /\ outbox' = [r \in Rows |-> IF r \in new THEN Fresh ELSE outbox[r]]
    /\ UNCHANGED <<attemptLog, sent, relay>>

WorkChanges ==
    \E new \in SUBSET {r \in Rows : outbox[r].state = "absent"} :
        Insert(new) /\ ready' \in SUBSET Rows

(* recover_stale_claims: the claims that have outlived stale_after.        *)
RecoverStaleClaims ==
    \E stale \in SUBSET {r \in Rows : Stale(r)} :
        /\ stale # {}
        /\ outbox' = [r \in Rows |->
               IF r \notin stale THEN outbox[r]
               ELSE [Unclaimed(outbox[r], "pending", outbox[r].error) EXCEPT !.waiting = FALSE]]
        /\ UNCHANGED <<attemptLog, sent, relay, ready>>

(* claim_due: up to limit due rows under one new token, each logged as an  *)
(* attempt (SKIP LOCKED may leave out rows another relay is claiming).     *)
ClaimDue(k) ==
    /\ relay[k] = IdleRelay
    /\ \E batch \in SUBSET {r \in Rows : Due(r)} :
        /\ batch # {} /\ Cardinality(batch) <= PublishLimit
        /\ outbox' = [r \in Rows |->
               IF r \notin batch THEN outbox[r] ELSE Claimed(outbox[r])]
        /\ attemptLog' = [r \in Rows |->
               IF r \notin batch THEN attemptLog[r]
               ELSE attemptLog[r] \cup {[number |-> outbox[r].attempts + 1, state |-> "attempted"]}]
        /\ relay' = [relay EXCEPT ![k].held =
               {[row |-> r, number |-> outbox[r].attempts + 1] : r \in batch}]
    /\ UNCHANGED <<sent, ready>>

(* publish: the broker may have accepted a message whose call failed.      *)
Publish(k) ==
    /\ relay[k].now = NoRecord
    /\ \E record \in relay[k].held, outcome \in Outcome :
        /\ relay' = [relay EXCEPT ![k] = [held |-> @.held \ {record},
                                          now |-> [record |-> record, outcome |-> outcome]]]
        /\ \/ sent' = [sent EXCEPT ![record.row] = @ + 1]
           \/ outcome # "acknowledged" /\ UNCHANGED sent
    /\ UNCHANGED <<outbox, attemptLog, ready>>

(* acknowledge: confirms the row for the claim's owner, and for anybody    *)
(* once it is published; the attempt row already exists (ON CONFLICT DO    *)
(* NOTHING keeps it as it is).                                             *)
Acknowledge(k) ==
    /\ relay[k].now # NoRecord
    /\ LET record == relay[k].now.record
           r == record.row
       IN
       /\ Acknowledged(relay[k].now.outcome)
       /\ Proceed(k)
       /\ \/ /\ StillClaimed(record) \/ outbox[r].state = "published"
             /\ outbox' = [outbox EXCEPT ![r] = Unclaimed(@, "published", "none")]
             /\ attemptLog' = [attemptLog EXCEPT ![r] =
                    IF record.number \in Numbers(r) THEN @
                    ELSE @ \cup {[number |-> record.number, state |-> "acknowledged"]}]
          \/ /\ ~(StillClaimed(record) \/ outbox[r].state = "published")
             /\ UNCHANGED <<outbox, attemptLog>>
    /\ UNCHANGED <<sent, ready>>

(* acknowledge raises: reconcile_once takes it for a transient failure of  *)
(* the publication.                                                        *)
AcknowledgeRaises(k) ==
    /\ relay[k].now # NoRecord
    /\ Acknowledged(relay[k].now.outcome)
    /\ relay' = [relay EXCEPT ![k].now.outcome = "transient"]
    /\ UNCHANGED <<outbox, attemptLog, sent, ready>>

(* record_failure: a retry with backoff or an explicit failure.  Its       *)
(* attempt row carries the number claim_due already logged, so under the   *)
(* unique constraint the insert raises, the transaction is rolled back and *)
(* the exception leaves reconcile_once with its other records unpublished. *)
RecordFailure(k) ==
    /\ relay[k].now # NoRecord
    /\ ~Acknowledged(relay[k].now.outcome)
    /\ LET record == relay[k].now.record
           r == record.row
           class == FailureClass(relay[k].now.outcome)
           final == class = "permanent" \/ outbox[r].attempts >= MaxPublishAttempts
       IN
       \/ /\ ~StillClaimed(record)
          /\ Proceed(k)
          /\ UNCHANGED <<outbox, attemptLog>>
       \/ /\ StillClaimed(record)
          /\ AttemptNumberUnique /\ record.number \in Numbers(r)
          /\ relay' = [relay EXCEPT ![k] = IdleRelay]
          /\ UNCHANGED <<outbox, attemptLog>>
       \/ /\ StillClaimed(record)
          /\ ~(AttemptNumberUnique /\ record.number \in Numbers(r))
          /\ Proceed(k)
          /\ outbox' = [outbox EXCEPT ![r] =
                 [Unclaimed(@, IF final THEN "failed" ELSE "pending", class)
                    EXCEPT !.waiting = ~final]]
          /\ attemptLog' = [attemptLog EXCEPT ![r] =
                 @ \cup {[number |-> record.number, state |-> LogState(class)]}]
    /\ UNCHANGED <<sent, ready>>

(* The process of a relay dies or restarts.                                *)
CrashRelay(k) ==
    /\ relay[k] # IdleRelay
    /\ relay' = [relay EXCEPT ![k] = IdleRelay]
    /\ UNCHANGED <<outbox, attemptLog, sent, ready>>

(* next_attempt_at passes.                                                 *)
BackoffEnds(r) ==
    /\ outbox[r].waiting
    /\ outbox' = [outbox EXCEPT ![r].waiting = FALSE]
    /\ UNCHANGED <<attemptLog, sent, relay, ready>>

-----------------------------------------------------------------------------
RelayStep(k) == Publish(k) \/ Acknowledge(k) \/ AcknowledgeRaises(k) \/ RecordFailure(k)

OutboxStep ==
    \/ RecoverStaleClaims
    \/ \E k \in Relays : ClaimDue(k) \/ RelayStep(k) \/ CrashRelay(k)
    \/ \E r \in Rows : BackoffEnds(r)

OutboxNext == WorkChanges \/ OutboxStep

OutboxSpec == OutboxInit /\ [][OutboxNext]_outboxVars

(* Fairness: the scheduler keeps calling recover_stale_claims and          *)
(* reconcile_once, a publish returns, time passes.  Nothing makes the      *)
(* broker accept or a process survive.                                     *)
OutboxFairness ==
    /\ WF_outboxVars(RecoverStaleClaims)
    /\ WF_outboxVars(\E k \in Relays : ClaimDue(k))
    /\ \A k \in Relays : WF_outboxVars(RelayStep(k) \/ CrashRelay(k))
    /\ \A r \in Rows : WF_outboxVars(BackoffEnds(r))

FairOutboxSpec == OutboxSpec /\ OutboxFairness

-----------------------------------------------------------------------------
(* PROPERTIES                                                              *)

(* The outbox implements what it promises: committed intents stay, an      *)
(* intent is published only after the broker took it, published is final,  *)
(* and duplicates are bounded by the attempts.                             *)
Handoff == INSTANCE DurableHandoff WITH
    Copies <- MaxPublishAttempts,
    offered <- {r \in Rows : outbox[r].state # "absent"},
    confirmed <- {r \in Rows : outbox[r].state = "published"}

KeepsHandoffPromise == Handoff!HandoffSpec

(* A relay that comes back after its claim was taken back, or given to     *)
(* another relay, leaves every row as it is, whatever its broker answered. *)
LateRelayIsHarmless ==
    [][\A k \in Relays :
         relay[k].now # NoRecord /\ relay'[k] # relay[k] =>
           LET record == relay[k].now.record
           IN outbox[record.row].claim # record.number => UNCHANGED outbox]_outboxVars

(* An intent of available work ends published, failed or out of attempts,  *)
(* whatever the broker answers and however often relays die.               *)
IntentsAreDisposedOf ==
    \A r \in Rows :
        <>[](outbox[r].state # "absent" /\ r \in ready) =>
            <>(outbox[r].state \in {"published", "failed"} \/ outbox[r].attempts = MaxPublishAttempts)
=============================================================================
