# Formal models of the Koditax platform

TLA+ models of the parts of this repository whose correctness depends on the order in which
things happen: what workers, relays, requests, crashes and clocks do to shared rows. The source
is the reference; paths below are relative to `src/`, and `PROJECT.json` maps every definition to
the lines it stands for.

    tlc -workers 2 -config MCProcessingWork.cfg MCProcessingWork
    tlapm ProcessingProofs.tla

## 1. The system

Koditax ("Kodi") is a set of FastAPI services over CockroachDB/PostgreSQL, an object store, a queue
broker and external providers, with a React front end. Every service process runs the same code
against shared tables; there is no leader, and in-process locks protect nothing but in-memory test
doubles. Concurrency is between HTTP requests, 30-second scheduler jobs, queue consumers and the
same of other processes.

| component | state | operations | hard part |
|---|---|---|---|
| document_ai: worker queue | work items, operations, attempts, dead letters | claim, heartbeat, checkpoint, commit success/failure, expire, recover dead letter | leases against clocks, late commits, retry budget |
| document_ai: outbox | outbox rows, attempt log | insert with the work, claim, publish, acknowledge, record failure, take back stale claims | crashes between broker and database, late relays |
| document_ai: hand-off | broker copies, deliveries in flight | deliver, claim, acknowledge, redeliver; polling | a wake-up acknowledged too early |
| document_ai: document records | documents, purge operations and targets, override grants, stored objects | trash, restore, rename, mark, purge, review and consume a grant, resume at start | requests that act on snapshots, a store and a database that disagree |
| document_ai: upload intake | upload sessions, completion keys, the document graph | create, complete | repeated and overlapping completions |
| document_ai: provider results, activation | reservations, results, candidates, active representation | reserve, call, persist, validate, activate | paid calls that outlive their lease |
| document_ai: evidence, retrieval | none of its own | queries | (ranking, no protocol) |
| auth: sessions | sessions, refresh tokens | login, refresh, logout, logout all | ambiguous commits, one redemption per token |
| auth: challenges, lockout, login | one-time codes, cooldowns, failure counters, step-up state | issue, resend, verify, consume, lock | several transactions per request |
| auth: password reset, phone change | reset challenges, credentials | issue, confirm | reset and session revocation are two transactions |
| auth: account deletion | deletion requests, proofs, users | request, confirm, cancel, execute | sessions issued during execution |
| event_store | hash-chained audit events | append, verify, archive | concurrent appends to one chain |
| tax_core | computations, results, finalisation | execute, materialise, replay, finalise | idempotency keys; appends to the same chains |
| orchestration | execution records, confirmations, proofs, conversation turns | plan, confirm, dispatch, record | look-up, dispatch and record are three operations |
| knowledge | ingestion jobs, versions, sources | ingest, review, approve, publish, supersede, archive | overlapping ingestions, a publication on a document purged meanwhile |
| forms, reports, validation, storage, gateway | records, capabilities | single-row or in-memory operations | little; see section 8 |
| shared, frontend | none | pure checks, user interface | none |

How they interact. An upload completion inserts document, operation, work item and first outbox
row in one transaction. The outbox relay publishes the row to the broker, whose delivery makes a
consumer claim the work item; a failed or recovered item inserts further rows (an expired lease
does not). Trash, restore and purge of the document decide whether its work is eligible, and
whether a catalogue entry may be published on it. A login, reset or deletion in auth ends in
session issue or revocation. All services append to the audit chain of event_store, auth and
tax_core directly in its table. The gateway forwards to orchestration, which calls the other
services through adapters.

What makes each part correct: one live lease per work item and nothing written without it; every
outcome durable and explained; intents published at least once and at most as often as claimed;
work that settles; documents that are purged completely or not reported so, under locks that only
approved grants pass; a file registered once, with the bytes that were verified; tokens redeemed
once, revocations final; an audit chain that forks only where its writers overlap, and is
complete; one dispatch per idempotency key unless somebody interferes or dies; a code accepted
once; no session for a deleted account; nothing published but what was approved. The hazards in
`PROJECT.json` place each of these at the line where it can go wrong.

## 2. Modules

| module | models | composed of |
|---|---|---|
| `ProcessingWork` | `processing_workers.py` (repository and worker), selections of `processing_state_reconciler.py` | |
| `DurableHandoff` | what an outbox promises (abstract) | |
| `ProcessingOutbox` | `outbox.py` | refines `DurableHandoff` |
| `ProcessingDelivery` | `ProcessingQueueConsumer.handle`, the broker, `worker_polling.py` | extends `ProcessingWork`, instantiates `ProcessingOutbox` |
| `DocumentRecords` | `document_lifecycle.py`, `document_purge.py`, `compliance_override.py`, `document_registry.py`, their endpoints | |
| `UploadIntake` | `upload_sessions.py`, the completion in `document_registry.py`, `storage_adapter.py`, the endpoints | |
| `AuthSessions` | `session_issuance.py`, the executor of `persistence_support.py`, login/refresh/logout endpoints | |
| `LoginChallenges` | `login.py`, the login codes of `phone_verification.py` and `email_verification.py` | |
| `AccountStanding` | `password_reset.py`, `phone_change.py`, `account_deletion.py`, the end of `registration.py`, the account checks of `login.py` | |
| `AuditChain` | event_store's `repository.py`, tax_core's `materialization.py` and the engine's finalisation and checks, the triggers | |
| `ActionExecution` | orchestration's `action_execution_envelope.py`, `multi_step_execution.py` and their store | |
| `KnowledgeCatalogue` | the governance part of knowledge's `repository.py` | |
| `ProcessingProofs` | theorems about `ProcessingWork` and `ProcessingDelivery` | extends `ProcessingDelivery`, instantiates `ProcessingOutboxProofs` |
| `DocumentKnowledgeProofs`, `AccountAuditProofs` | theorems about `DocumentRecords` and `KnowledgeCatalogue`, `AccountStanding` and `AuditChain`: two independent parts each | extend both modules |
| `<module>Proofs` | theorems about one of the other modules | extends the module |
| `MC<module>` | instance for TLC, one `.cfg` per question | extends the module |

Definitions named `X_Fault` next to a definition `X`, marked "Seeded fault", are what `X` would be
with a plausible bug; no module uses them. Each property of a passing run is violated when the `X`
its `mutants` entry names is replaced by its fault, which shows that the property depends on the
code.

One convention holds throughout: a database transaction that the code runs under row locks or
serializable isolation is one action; a handler of several transactions is a request record with a
stage, one action per transaction, and it may end between any two. What a request has read travels
in its record, and that is where most of what can go wrong does.

### ProcessingWork

One action per repository method, since each is one transaction: `Claim`, `Heartbeat`,
`Checkpoint`, `CommitSuccess`, `CommitFailure`, `RecoverExpiredLeases`, `RecoverDeadLetter`.
Around them: `Crash` (a worker forgets its lease, the row does not), `ChangeStanding` (the document
is trashed, restored, or the version superseded) and `Tick`. `work`, `op`, `attempts`, `intents`
and `deadLetters` are the tables; `lease` is what each worker believes it holds, and
`HoldsLiveLease` is the fence every write repeats in its WHERE clause. Timestamps are kept as what
remains of them, so that the state space stays finite without a clock.

`commit_failure` raises whenever it finds its row (section 6). `FailureRowUnpacks = FALSE` is the
code as it stands; `TRUE` lets the rest of the handler run as written, so that the budget, the
dead letters and their recovery can be checked at all. The proofs cover both values.

Left out: the priority order of candidates (any claimable item may be claimed), the cancellation
columns (nothing writes them), the heartbeat's lease extension being configurable, and the
reconciler's four repairs: their selections are operators, and `DispositionIsRecorded`, a part of
`TablesAgree`, says no interleaving of the repository leaves them anything to do.

### ProcessingOutbox, DurableHandoff

A relay's pass is several transactions with the broker in between: `ClaimDue`, `Publish` (the
broker may have accepted a message whose call failed), `Acknowledge` or `RecordFailure`,
`RecoverStaleClaims`, `CrashRelay`. A claim can turn stale at any moment, because nothing bounds
how long a publish takes. The claim token is represented by the attempt number, equally fresh for
every claim of a row. `DurableHandoff` has three actions, `Offer`, `HandOver` and `Confirm`; the
outbox refines it with `offered` as the rows that exist and `confirmed` as the published ones. The
relays start on a table that may hold unpublished rows, as it does when work is created with its
first intent (`ProcessingDelivery`).

`AttemptNumberUnique` is the UNIQUE constraint of the schema, which makes `record_failure` raise
(section 6). It is FALSE in `outbox_relays`, which checks the handlers as they are meant, and TRUE
in `ProcessingDelivery`; the proofs cover both.

### ProcessingDelivery

Joins the two at their tables: a transaction that inserts an intent inserts its outbox row, and
the relay's join over queued, available work is `Ready`. The broker is external and modelled from
its use: it redelivers what was not acknowledged. `handle` is `ClaimDelivered`, or
`AcknowledgeUnclaimed` when it gets no lease, then `FinishDelivery`; `ClaimCandidate` is the
polling loop, which runs only where a hand-off is configured (the application wires none).
`turnedAway` is history: items whose delivery was acknowledged without a lease.

### DocumentRecords

A request is a small machine: `Read` (the endpoint's snapshot), `LookUpGrant`, `StoreGrant` and
`RecordEvidence` (consuming an override: the status is read, written, and put on evidence in three
transactions), then `ApplyRetention`, `UpdateMetadata`, or `RequestPurge`, `DeleteObject`,
`RecordAttempt`. `Abandon` ends it anywhere: refused, failed, or gone with its process. `Review`
begins the request, approval or rejection of a grant, which goes through the same two writes;
`Lapse` lets one expire. `Start`, `ResumePurge` and `Crash` are one process that starts while
others serve. A deletion may fail before or after the object is gone.

What others write of a document is here too. `indexed` stands for everything derived from it:
`StartWork`, `Derive` and `StopWork` are a worker, which looks at the document when it claims the
work and not again. `PutObject` is a client whose upload URL is still good. `working` says who is
at work, `late` (history) who was when a purge was completed, `approvals` (history) which grants
have been approved.

`RecordEvidence` raises in the code as it stands (section 6). `EvidenceInserts = FALSE` is that
code; `TRUE` lets a request go on after its grant is consumed, so that what a lock promises can be
checked at all. The proofs cover both values.

Left out: requests the rules refuse (they change nothing), reviews of grants for unlocked documents
(nothing reads them), the lifecycle audit rows, the batch size of the recovery, the projection to
the core `documents` table, replay of metadata updates by idempotency key, bindings. A mismatch of
`expected_revision` is a refusal, and the metadata and their revision decide nothing else: of a
rename there is that it writes back the rest of the row. Whether a document is locked is set outside
this code: `Init` chooses it.

### UploadIntake

A file is what one owner asks a session for; the identifiers of session, document and object are
hashes of that, so each file has one of each. `BeginCreate`, `StoreSession` and `AnswerCreate` are
the creation of a session under an idempotency key; `PutObject` is the client, with a URL that is
still good; `BeginComplete`, `ResolveSession`, `VerifyObject`, then `ReplayCompletion` or `Confirm`
are the completion, whose last transaction (`Register`) inserts document, version, artifact,
operation, work item and outbox row. `ConfirmUnseen` is a commit the connection did not survive,
`Reconcile` the look-up that follows. `Purge` is what `DocumentRecords` does to the document, here
in one step. `overwritten` is history: objects replaced after a completion had looked at them.

Left out: the in-memory stores, the direct upload of development lanes, and what is malformed
(`Refuse` may end any request at any stage); HEAD and GET of a verification are one step.

### AuthSessions

The sessions of one user. `Begin*` reads the clock and mints identifiers; the transaction
(`Issue`, `Rotate` or `Revoke`) runs later with that time and ends in `Commit`, in `CommitUnseen`
(committed, but the database does not say so), in `LoseCommit` (in doubt and rolled back), or in
`Fail`. An operation in doubt is answered by `Reconcile` from what its lookup finds. The database
is SERIALIZABLE, so a transaction is atomic; the time it uses is not its own, and that is where
the interest lies.

Left out: access tokens, which rotate with refresh tokens; `consumed_at`; what precedes the
session in a login; `extend_session` and `touch_session_activity`, which no endpoint calls. All
processes read one clock. A reconciliation's lookups are one step.

### LoginChallenges

Signing in to one account from one address. `Look`, `Forget` (an expired row is deleted after it
was read) and `Fail` are the lockout; `WithoutCode`, `Weigh`, `ClearOffer`, `IssueCode` and
`SetOffer` lead to a code; `WithCode`, `ReadCode`, `Miss`, `Spend` and `Mark` show one; `Admit` and
`ClearFailures` end a login that succeeds. `Expire`, `EndLockout` and `EndWindow` are time.
History counts the wrong passwords since the account was last at rest (`guesses`), the sessions
each code has admitted, the codes two logins had both found right before either used them
(`shared`), and says whether a row has been deleted that was not the one read (`forgotten`).

Left out: resend limits and cooldowns, which only refuse; ambiguous commits (`AuthSessions`); the
account checks and the legacy rehash (`AccountStanding`). A transaction reads the clock as it
runs. The e-mail path has no check of the attempts before the code is compared, so the second half
of `LimitsHold` is about SMS.

### AccountStanding

One user's row and what logins, resets, phone changes and the deletion do to it. `Verify`,
`Rehash`, `Reread` and `IssueSession` are a login; `IssueReset`, `ReadReset`, `Miss`,
`ConfirmReset` and `RevokeSessions` a reset, whose last two are separate transactions;
`RequestPhoneChange`, `CheckPhoneChange` and `ConfirmPhoneChange` a change of number;
`AskForDeletion`, `RequestDeletion`, `ConfirmDeletion`, `CoolDown`, `CancelDeletion` and
`ExecuteDeletion` the deletion; `VerifyAccount` and `MissRegistration` the code that concludes a
registration. Sessions lapse (`Lapse`), and a refresh (`BeginRefresh` reads the clock, `Refresh`
is its transaction) may make one live again: a reset's revocation and the deletion pass over the
sessions they find expired (`Spared`). `overtaken` is history: the writes that were on their way
when the row was last erased or reset; so is `late`, of a session whose login or refresh was.
Passwords are numbers in the order resets set them, and a session is known by the password it was
issued for.

Left out: the history of passwords and the refusal to reuse one, `lock_user` and `disable_user`
(no endpoint calls them), deletion blockers, idempotent replays, incident records, logout, eviction
and the tokens of a refresh (`AuthSessions`), role changes and OAuth.

### AuditChain

The `audit_events` table with its two writers. A request's service reads its clock, its
transaction begins (`Begin*`), takes its locks and reads the latest event of its chain (`Open*`),
inserts under the triggers (`Check`) and commits (`Commit`, `CommitUnseen`), or finds its key taken
(`Clash`). Kinds of request are the append of event_store and the execution, check and
finalisation of tax_core. Transactions are READ COMMITTED: the triggers see what is committed
then, and `seen` records what was committed when the transaction started. The unique index makes
an insert wait for another of the same key, so taking the key and committing are one step.

Left out: archival (a flag on a row), queries, the tax rules themselves, and events without a
user: they have no resource, so the trigger that orders a chain returns early
(`database/migrations/0004_temporal_invariants_enforcement.sql:65`).

### ActionExecution

A request's key and print go through `LookUp`, `Dispatch` and `Put` for each step of its plan, where
a plan is one step, or a computation followed by a search for its grounds. Only the search's
fingerprint contains the payload of the route: `Bare` is what a print is without it, and `PrintOf`
what a step goes by, so that a retry with another payload replays the computation. `LookUpFails` and
`PutFails` are the database failing; `Abort` is the process dying at any point; `RefuseEarly` is a
request turned down before its first step. An adapter's outcome is chosen from what adapters return
(`OutcomesOf`): a computation's is always pending, so no answer with one is accepted. `disturbed` is
history: keys that two requests had in flight at once, or one of which died or could not be stored.

Left out: the in-memory fallback, conversation-state records, synthesis of the answer's text, audit
emission, `retryable_failure` codes, and the confirmation, step-up and kill-switch checks, which
are functions of one request.

### KnowledgeCatalogue

An ingestion is three transactions (`LookUpKey`, `LookUpLineage`, `InsertJob`); `Review`, `Approve`,
`Reject`, `CorrectMetadata`, `Supersede` and `Archive` are one each; a publication is
`BeginPublish`, which locks the job and reads the document over a connection of its own, and
`FinishPublish`. What `BeginPublish` checks of the lineage is that it agrees with itself, which an
edited one may, so it excludes nothing here. `PurgeDocument` is the document going away underneath.
A text is a source and a window of days. `ApprovedIsAllowed` says whether the schema admits the
state the code approves with: it does not (section 6), and `TRUE`, which the run uses, lets the rest
be checked.

Left out: search, retrieval and embeddings (they read), anchors and chunks (written once with the
version), bulk operations (a single operation per item), replays (stutters), the legacy import's
own documents row, `source_class` checks, audit events. A source family is its source, which the
schema makes unique; an edit of a job's lineage by a review is a Boolean.

## 3. Runs

| run | shows |
|---|---|
| `work_leases` | leases exclude each other, tables agree with the attempts, a stale lease changes nothing, every lease of eligible work ends |
| `work_failure_not_recorded` | a failure under a live lease leaves no disposition (section 6) |
| `outbox_relays` | the outbox refines `DurableHandoff`; late relays are harmless; intents are disposed of |
| `delivery_to_workers` | claimable work is without an offer only after an acknowledgement without lease or a spent intent; work settles otherwise |
| `documents` | a purge reported complete has deleted its object, and an unfinished one is on record; what outlives a purge was written by a worker or a client it overtook; locks hold; only stale snapshots break the lifecycle |
| `upload_intake` | one registration per file, one key for it; bytes as verified unless replaced later; answers backed by rows, also after a commit in doubt |
| `auth_sessions` | one spendable token per session, one redemption per token, the session limit, final revocations |
| `login_challenges` | wrong passwords and wrong codes exceed their limit by less than the logins in flight; one session per code; and exactly when either fails |
| `account_standing` | what is erased stays so, the last password set is in force, sessions follow the account; and exactly which requests break it |
| `audit_chain` | forks need overlapping transactions or equal timestamps; computations, events and answers agree |
| `action_execution` | a step is dispatched twice only after an overlap, a death or a failed put; what is answered is on record |
| `knowledge_catalogue` | one job per ingested thing; only what was approved is published; the latest version is the published one |

Every module has one type invariant, the first of its run. The other properties are commented
where they are defined, with the code they are about. Where the code does not keep an absolute
promise (overlapping logins overrun a lockout; a login that has verified the old password still
gets its session), the property states the condition under which it does, in terms of history
variables or of the requests in flight, so that any other way of breaking it is found.

### Bounds, and why they are enough

- `work_leases`: one item (items share nothing but `BatchLimit`, and the proofs are for any number
  of them), two workers, so that a stale and a current lease coexist; three attempts, so that a
  budget ends after a retry of a retry; leases of two ticks (a renewal makes a difference), delays
  of one; `MaxElapsed` 4, so that the elapsed window closes before or after the budget; two
  checkpoint sequences; one operator recovery.
- `outbox_relays`: one row (rows meet only in a batch), two relays, three attempts: claimed, taken
  back, claimed by the other, and the first relay answers last.
- `delivery_to_workers`: one item, worker and relay, two processing attempts, one publication
  per intent, no checkpoints. Liveness under strong fairness is what costs here; with one worker an
  early acknowledgement still happens (a second copy arrives while the item waits).
- `documents`: one document (no operation touches two), two clients and the startup handler, one
  grant, for the `mark` command, two purge operations, evidence that can be inserted.
- `upload_intake`: two files of one content, so that they contend for the unique checksum; two
  keys, so that one file is asked for under both; two requests; a session lives one tick of a clock
  of two, so that completions straddle the expiry.
- `auth_sessions`: two requests in flight, three identifiers, a limit of one session, so that the
  second login evicts; the clock stops at 2, with an inactivity timeout of 2 and an absolute
  lifetime of 3, so that sessions lapse within the run.
- `login_challenges`: two logins and two challenges; a lockout after two wrong passwords, a
  challenge bears one wrong code; the history counts one more than the properties allow.
- `account_standing`: two requests, two reset challenges (two resets may be confirmed in either
  order), one attempt on each, two wrong codes on the registration's; three sessions that can be told
  apart, so that live, lapsed and revived ones of two passwords coexist.
- `audit_chain`: two requests, three keys, two payloads, three events, two instants, and service
  and database clocks that agree: timestamps behind the chain arise from transactions that began
  earlier. Three events are a fork or a chain whose last link is refused.
- `action_execution`: two requests with one key, four prints of which three have two steps, two of
  these with the same computation; three dispatches of each step, so that a repeat can be repeated.
- `knowledge_catalogue`: two ingestions, two keys, a document and a URL, two administrators (the
  least for an approval and a publication by different people), two consecutive windows of one
  source, two titles, two jobs.

`MaxCheckpoint`, `MaxManualRecoveries`, `MaxOperations`, `MaxTime`, `MaxIds`, `MaxMisses`,
`MaxSessions`, `MaxWrong`, `MaxGuesses`, `MaxEvents`, `MaxDispatches` and `MaxJobs` are bounds of
the model; the others are settings of the code. Symmetry is declared only where no liveness is
checked. `CHECK_DEADLOCK` is off where the system may stop: in `documents` (a purged document
accepts no command), in `account_standing` (an erased account with nothing in flight) and in
`knowledge_catalogue` (all jobs published or archived). It is on in every other run.

## 4. Fairness

- `FairSpec` (ProcessingWork): time passes; the scheduler (`main.py`, every 30 s) and every
  delivery run `recover_expired_leases`; an execution ends by itself or with its process. Nothing
  makes a worker claim, succeed, renew, checkpoint, or stay alive, and nothing restores a document:
  so `LeasesEnd` promises the end of a lease, and that queued work is claimed again is left to
  `ProcessingDelivery`, where the deliveries are.
- `FairOutboxSpec`: the scheduler runs both passes, a publish returns or its process dies, backoff
  ends. Nothing makes the broker accept.
- `FairDeliverySpec`: the same two, the broker delivers what it holds, and strong fairness on the
  claim: `handle` claims before anything else, so a consumer that is given deliveries for ever
  does not die before every one of its claims. Nothing is assumed of polling.
- The other modules state safety only: their operations are requests, and nothing obliges a client
  to make one or to repeat one that failed.

## 5. Proofs

Every invariant and every action property that a passing run checks is a theorem, for every value
of the constants that the named assumptions of the modules allow: any number of workers, relays,
requests, keys, files and rows, any limit, and any bound. The assumptions say that settings and
bounds are numbers of their kind and that a value standing for "none" is none of the things it is
used beside (`NoMessage` no row, `Nothing` no payload, `NoGrant` no grant). `Spec => []TypeOK` is a
theorem about each component.

| module | theorems | inductive invariant |
|---|---|---|
| `ProcessingProofs`, work | `LeasesExcludeHolds`, `TablesAgreeHolds`, `StaleLeaseIsHarmlessHolds` and their parts | `TypeOK`, `RowsOK`, `LeasesOK`; `AllExplained` |
| `ProcessingProofs`, delivery | `DeliveryImplementsWork`, `DeliveryImplementsOutbox`, `WakeUpHolds` | types, `CopiesHeld`, `LeaseIsOfDelivery`, `KeptOffered`, and those of the two parts |
| `ProcessingOutboxProofs` | `HandoffPromiseKept` (the refinement), `LateRelayIsHarmlessHolds`, `RecordsAreKept` | types, `CopiesOK`, `HeldOK`, `RowsOK`, `AcksOK`; `RecordsOK` |
| `DocumentKnowledgeProofs`, documents | `PurgeIsThoroughHolds`, `LockedDocumentNeedsGrantHolds`, `IllegalChangeIsStaleHolds` | types, `RequestsHold`, `BacklogHolds`, `ApprovalsAreKept`, `WorkIsLate`, the first two properties |
| `DocumentKnowledgeProofs`, knowledge | `IngestionsAreOneHolds`, `PublicationIsGroundedHolds`, `LatestIsPublishedHolds` | types, `JobOK`, `LineageOK`, `IngestionOK`, two of the properties |
| `UploadIntakeProofs` | `ConfirmationsAreOneHolds`, `RegisteredBytesHolds`, `AnswersAreTrueHolds` | types, `RequestsOK`, the properties |
| `AuthSessionsProofs` | `TokensAreSpentOnceHolds`, `UnlapsedWithinLimitHolds`, `SessionsMoveForwardHolds` | types, `StoreOK`, `ActivityOK`, `RequestsOK`, `PairsOK`, `AnswersOK`, the limit |
| `LoginChallengesProofs` | `LimitsHoldAlways`, `ProofAdmitsOnceHolds` | types, `GuessesOK`, `MissesOK`, `IssuedOK`, `ProofsOK` |
| `AccountAuditProofs`, accounts | `ChangesStandHolds`, `SessionsFollowAccountHolds` | types, `RequestsOK`, the properties |
| `AccountAuditProofs`, audit chain | `AuditIsCompleteHolds`, `ForksNeedOverlapHolds` | types, `TransactionsHold`, `EventsHold`, `KeysAreOne`, `NoComputationNoEvents`, `AuditIsComplete` |
| `ActionExecutionProofs` | `RepeatNeedsDisturbanceHolds`, `PlansAreOnRecordHolds` | types, `SlotsOK`, `AloneOK`, `DispatchesOK`, `RecordsOK`, `PlansAreOnRecord` |

None of the properties is inductive by itself. What each invariant adds:

- ProcessingWork. That a late commit cannot pass the fence needs the fencing token to count the
  attempts, each lease to carry the number of its own attempt, and no two leases to name one
  attempt; that `retry_count` stays below `max_attempts` needs it to stay below the number of
  attempts made. `RowOK(r, o, h)` states what one work row, its operation and its history owe each
  other, `LeasesOK` what the leases owe the histories. Lemmas about single rows show that each kind
  of update keeps `RowOK`; `OneRow` and `LeasesKept` lift that to the tables; one lemma per action
  cites them. `DispositionIsRecorded` needs `Explained` besides: why a queued row is queued. That
  the checkpoint resumed from never goes back speaks of the greatest element of a set of attempts,
  whose existence comes from well-foundedness.
- ProcessingOutbox. The promise bounds the copies by the attempts, but a relay publishes what it
  has claimed perhaps long ago: `CopiesOK` counts the claims still to be published with the copies
  already sent, `HeldOK` says that no claim is in two hands. Each step then maps to a step of
  `DurableHandoff` or to a stutter. `RecordsOK` and `OfferingLasts` are for the composition: under
  the unique constraint a row that will still make a relay send its message goes on to, until a
  copy is sent or its attempts are used up.
- ProcessingDelivery. The composition is proved from its parts. It implements `ProcessingWork` (its
  other steps stutter there) and `ProcessingOutbox` (each work transaction is a `WorkChanges`, with
  the rows of the new intents as what it inserts), so the theorems about both hold of it:
  `DeliveredWorkIsSafe`, `DeliveredIntentsAreKept`. That a wake-up is not lost is not inductive. A
  row about to be confirmed is still `publishing` although its one copy may have been handled and
  acknowledged, so it counts as an offer only while no relay holds its confirmation (`Offering`),
  and a relay confirms only what the broker was handed. And the claim must be made of all unsettled
  work, not only of what is claimable now (`KeptOffered`): a lease expires later, and nothing is
  inserted then. A recorded failure and an operator's recovery offer the work again because their
  intent is new, which rests on `Explained`: a retry intent is of an attempt that has failed, a
  recovery intent of a recovery that was made. `CopiesHeld` says that no copy is at the broker or
  with a consumer that was not sent, and bounds them by the publish attempts.
- DocumentRecords. What a request has read is not true any more when it acts. What does survive is
  evidence: that a lock was passed by a grant, once it is on record, and that an operation is of its
  document. `RequestsHold` says that a request past the check of a lock has such a grant behind it,
  whatever became of the document since, and one on its way to the evidence has the approval;
  `BacklogHolds` says the same of the purges a restart will resume from the document as it was then
  read. A worker outlives the purge only if it was there first: `WorkIsLate`.
- UploadIntake. What a request has read and carries to its transaction must still mean something
  there: a stored session stays, a key that had an answer keeps one, an object that was verified is
  the declared one until somebody replaces it.
- AuthSessions. The token an operation has minted is its own: no table, no answer and no other
  operation knows it before its commit, and once it is written the token presented is this
  operation's spending. That no refresh moves the last activity back rests on an order: a client
  presents a token only after it has got it, and the clock is read then.
- LoginChallenges. A bound on what overlapping logins overrun counts those that can still overrun
  it with what they have already done.
- AccountStanding. A request on its way either is marked as overtaken or is still true of the row;
  a refresh, of a session that is live or has lapsed, or of one that was revoked since it read the
  clock.
- AuditChain. The latest event is a CHOOSE over the order of timestamps and creation, which has a
  last element because chains are finite. Two events name the same predecessor only if neither saw
  the other: so `TransactionHolds` says that what a transaction has read is the last of all it saw,
  and `EventHolds` keeps that of every stored event. That a chain begins once and a computation is
  finalized once needs the keys of events to be unique (`KeysAreOne`) and no event to be without
  its computation.
- ActionExecution. A request that is alone with its key knows that nothing comes on record under it
  behind its back.
- KnowledgeCatalogue. What an ingestion has not found is either not there or one it overlapped; a
  locked job keeps the ruling its publication began with.

Only model-checked, because it is out of this prover's reach: liveness under fairness
(`LeasesEnd`, `IntentsAreDisposedOf`, `OfferedWorkSettles`), ENABLED, and induction over
data (no definition of the models is recursive, so none is needed). `FailureHasDisposition` is the
property `work_failure_not_recorded` refutes.
## 6. Where the code disagrees with what it says

`work_failure_not_recorded` has the counterexample: `commit_failure` unpacks five columns into
seventeen names, so every failure of a live lease raises and is rolled back. The attempt ends only
when its lease expires, as if the worker had died. `PROJECT.json` quotes the lines.

Seen while modelling, without a run of their own. In document_ai (paths below
`services/document_ai/app`):

- `record_failure` inserts the attempt number that `claim_due` has logged, against a UNIQUE
  constraint: a failed publication is never recorded as one (`outbox.py`).
- a copy delivered while another worker's lease is live is acknowledged; when that worker dies, the
  expiry queues the work without a new outbox row, and with only the outbox wired nothing offers it
  again (`processing_workers.py:1614`).
- an outbox claim that goes stale on the last attempt returns to `pending`, is never due again and
  carries no error (`outbox.py:99`); the delivery properties call this `Spent`.
- a budget used up by expired leases ends in `failed`, not in the dead letters an operator can
  recover (`services/document_ai/README.md:755` draws DeadLettered).
- leased work of a trashed document is not recovered until the document is restored.
- a purge that failed in storage, then a restore: the startup handler resumes the operation, is
  refused, and raises on every start (`document_purge.py:193`, `main.py:2854`).
- a grant is checked and written in two transactions; two requests consume it. A rename writes the
  whole snapshot it read and undoes a concurrent trash, restore or purge
  (`document_registry.py:541`).
- an overlapping completion with the same key is answered 409 `session_state_mismatch` instead of
  the replay (`document_registry.py:1084` comes before `:1090`); an accepted completion repeated
  after the session's expiry is refused (`main.py:3082`).
- a session asked for again under a second key is answered with an expiry and a URL no row has
  (`upload_sessions.py:259`). The same bytes under another name, or after a purge, can never be
  registered again (unique tenant, owner and checksum in migration 0002).
- what a purge has deleted can come back after it was reported complete: a URL that is still good,
  or a new one, lets a client put an object for the purged document, and a worker whose lease lives
  inserts representations and chunks without looking at the document
  (`canonical_chunk_generation.py:188`). `PurgeIsThorough` says that this is all that is left.
- `append_compliance_override` names sixteen columns and passes sixteen values for fifteen
  placeholders (`document_audit.py:269`), and `append_lifecycle` thirteen for twelve (`:174`): with
  the persistent backend wired in `main.py:2690` every append raises, after the change it is about
  was committed. An approval is answered with an error and stands; a consumed grant is spent on a
  request that goes no further. And were the inserts right, a crash before them would leave a
  decision without its evidence, because status and evidence are two transactions
  (`compliance_override.py:488`, `:674`); a later use of such a grant is on evidence, its approval
  is not.
- the path that reserves a paid provider call reads past the end of the row its statement returns
  (`provider_result_repository.py:566`, `:829`), and `SourceInspectionWorkExecutor.execute` calls
  `inspect_operation` with keywords it does not take (`source_inspection_service.py:389`).

In auth (below `services/auth/app`):

- the lookup of an ambiguous logout of all sessions accepts "none revoked" as success.
- more than `max_concurrent_sessions` sessions can be live (`config.py:375`): a refresh that read
  the clock before a login revives a session the login passed over as expired.
  `UnlapsedWithinLimit` states what does hold.
- the revocations of a reset and of a deletion skip the sessions that have expired by their clock
  (`session_issuance.py:1191`, `account_deletion.py:2558`); a refresh that read the clock earlier
  (`session_issuance.py:941`) then makes one live again: a session of an old password, or of a
  deleted account.
- the limit of wrong codes is not enforced on an e-mail step-up.
- the count of wrong codes of a registration is rolled back with the error it raises
  (`phone_verification.py:2147`, `persistence_support.py:667`; `services/auth/README.md:536` draws
  LockedOut when the limit is reached).

Elsewhere:

- overlapping appends fork an audit chain; `ForksNeedOverlap` says how.
- a duplicate of an action that two requests executed at once is answered with its own envelope,
  where `services/orchestration/README.md:1308` replays the stored one
  (`action_execution_store.py:217`).
- a retry of a plan with another resolved payload replays the computation and stores the grounds of
  the other payload beside it: the computation's fingerprint has no `route_payload`
  (`multi_step_execution.py:337`).
- the CHECK of migration 0017 (lines 171-179) has no `approved`, which `repository.py:1423` of
  knowledge writes and `services/knowledge/README.md:467` describes: an approval is refused by the
  schema. The EXCLUDE constraint of the same migration (lines 106-113) makes an open-ended version
  block every successor; and a key answered through the lineage is not recorded.

## 7. What is left

1. orchestration's conversation state: a turn reads the latest record and appends one that carries
   its fields on; overlapping turns of one conversation.
2. provider results and canonical activation, once reservations return (section 6), as the next
   consumer of a work item's checkpoints.
3. OAuth sign-in: state and nonce of one exchange.
4. Larger instances: two items and two workers in `delivery_to_workers`, a third request in
   `upload_intake` and `login_challenges`.
5. Proofs: that what is checked of the modules apart holds where they meet, as was done for
   `ProcessingDelivery`: `UploadIntake`'s registration as the first insert of `ProcessingWork`, and
   `DocumentRecords`' states as its standing.

All modules avoid RECURSIVE so that they can be proved about.

## 8. Not modelled

`PROJECT.json` lists every component with its reason. In short: planning, prompts and language
model answers (pure functions of text); tax rule packs (sequential decimal arithmetic, covered by
golden tests); parsing of files and of provider answers (data); retrieval and ranking (queries);
forms, storage and validation (in-memory or single-row records without a protocol between
actors); the migration runners and scripts (operated by hand); configuration, logging and
metrics; the front end. These are most of the repository's lines: what the modules map is the part
whose correctness depends on an order of steps. The database executor of document_ai has the shape
of auth's, which is modelled; in the document modules a transaction commits or fails as a whole,
but for the completion of an upload, whose ambiguous commit `UploadIntake` has.
