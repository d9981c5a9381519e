------------------------- MODULE ProcessingDelivery -------------------------
(***************************************************************************)
(* How durable work reaches a worker: ProcessingWork's transactions, the   *)
(* outbox relay of ProcessingOutbox, an at-least-once broker and the       *)
(* queue consumer of processing_workers.py, with or without the polling    *)
(* loop of worker_polling.py beside it.                                    *)
(*                                                                         *)
(* The broker is external and modelled from its use: it redelivers a       *)
(* message whose consumer died or returned False, and forgets one that     *)
(* was acknowledged.                                                       *)
(***************************************************************************)
EXTENDS ProcessingWork

CONSTANTS
    Relays, NoRecord, PublishLimit, MaxPublishAttempts,   \* of ProcessingOutbox
    NoMessage   \* a worker that handles no delivery

VARIABLES
    outbox, attemptLog, sent, relay,   \* of ProcessingOutbox
    broker,      \* copies of each row's message waiting for a consumer
    inflight,    \* the delivery each worker is handling
    turnedAway   \* history: unsettled items whose delivery was acknowledged unclaimed

Events == [kind: {"requested"}, n: {0}]
            \cup [kind: {"retry"}, n: 1..(MaxAttempts + MaxManualRecoveries)]
            \cup [kind: {"manual_recovery"}, n: 1..MaxManualRecoveries]
Rows == Items \X Events

ASSUME DeliveryAssumption ==
    /\ PublishLimit \in Nat \ {0}
    /\ MaxPublishAttempts \in Nat \ {0}
    /\ NoMessage \notin Rows

(* The join of claim_due: queued and available.                            *)
Ready == {r \in Rows : work[r[1]].state = "queued" /\ work[r[1]].wait = 0}

Outbox == INSTANCE ProcessingOutbox WITH ready <- Ready, AttemptNumberUnique <- TRUE

tables == <<outbox, attemptLog, sent, relay>>
deliveries == <<broker, inflight, turnedAway>>
deliveryVars == <<vars, tables, deliveries>>

DeliveryTypeOK ==
    /\ TypeOK
    /\ Outbox!OutboxTypeOK
    /\ broker \in [Rows -> 0..MaxPublishAttempts]
    /\ inflight \in [Workers -> Rows \cup {NoMessage}]
    /\ turnedAway \in SUBSET Items
    /\ \A i \in Items, e \in Events :
          (outbox[<<i, e>>].state # "absent") = (e \in intents[i])

DeliveryInit ==
    /\ Init
    /\ outbox = [r \in Rows |-> IF r[2].kind = "requested" THEN Outbox!Fresh ELSE Outbox!Absent]
    /\ attemptLog = [r \in Rows |-> {}]
    /\ sent = [r \in Rows |-> 0]
    /\ relay = [k \in Relays |-> Outbox!IdleRelay]
    /\ broker = [r \in Rows |-> 0]
    /\ inflight = [w \in Workers |-> NoMessage]
    /\ turnedAway = {}

-----------------------------------------------------------------------------
(* Transactions of ProcessingWork; the intents they insert become outbox   *)
(* rows in the same transaction.                                           *)
InsertIntents ==
    Outbox!Insert({r \in Rows : r[2] \in intents'[r[1]] \ intents[r[1]]})

Idle(w) == inflight[w] = NoMessage /\ ~Holds(w)

(* delivery.acknowledge(), or a redelivery by the broker.                  *)
\* Seeded fault: a delivery is acknowledged whatever became of its lease.
EndDelivery_AlwaysAcked(w, acknowledged) ==
    /\ inflight' = [inflight EXCEPT ![w] = NoMessage]
    /\ UNCHANGED broker

EndDelivery(w, acknowledged) ==
    /\ inflight' = [inflight EXCEPT ![w] = NoMessage]
    /\ broker' = IF acknowledged \/ inflight[w] = NoMessage THEN broker
                 ELSE [broker EXCEPT ![inflight[w]] = @ + 1]

(* The broker hands a waiting copy to an idle consumer.                    *)
Deliver(w, r) ==
    /\ Idle(w)
    /\ broker[r] > 0
    /\ broker' = [broker EXCEPT ![r] = @ - 1]
    /\ inflight' = [inflight EXCEPT ![w] = r]
    /\ UNCHANGED <<vars, tables, turnedAway>>

(* handle: the claim succeeds and the execution starts.                    *)
ClaimDelivered(w) ==
    /\ inflight[w] # NoMessage
    /\ LET i == inflight[w][1]
       IN Claim(w, i) /\ turnedAway' = turnedAway \ {i}
    /\ UNCHANGED <<tables, broker, inflight>>

(* handle: no lease, so the delivery is acknowledged as a duplicate.       *)
AcknowledgeUnclaimed(w) ==
    /\ inflight[w] # NoMessage
    /\ ~Holds(w)
    /\ LET i == inflight[w][1]
       IN  /\ ~Claimable(i)
           /\ turnedAway' = IF work[i].state \in Settled THEN turnedAway ELSE turnedAway \cup {i}
    /\ EndDelivery(w, TRUE)
    /\ UNCHANGED <<vars, tables>>

(* A worker claims a candidate that polling discovered and handed over.    *)
ClaimCandidate(w, i) ==
    /\ inflight[w] = NoMessage
    /\ Claim(w, i)
    /\ UNCHANGED <<tables, deliveries>>

(* handle: only a recorded outcome acknowledges the delivery.              *)
FinishDelivery(w) ==
    /\ \/ CommitSuccess(w) /\ EndDelivery(w, SuccessAccepted(w))
       \/ \E retryable \in BOOLEAN :
             CommitFailure(w, retryable) /\ EndDelivery(w, FailureRowFound(w) /\ FailureRowUnpacks)
    /\ InsertIntents
    /\ UNCHANGED turnedAway

CrashConsumer(w) ==
    /\ ~Idle(w)
    /\ IF Holds(w) THEN Crash(w) ELSE UNCHANGED vars
    /\ EndDelivery(w, FALSE)
    /\ UNCHANGED <<tables, turnedAway>>

(* The other transactions; operators and recovery run beside the consumers. *)
Repository ==
    /\ \/ \E w \in Workers : Heartbeat(w) \/ Checkpoint(w)
       \/ RecoverExpiredLeases
       \/ \E i \in Items : ChangeStanding(i) \/ RecoverDeadLetter(i)
       \/ Tick
    /\ InsertIntents
    /\ UNCHANGED deliveries

(* A step of the relays; what they publish reaches the broker.             *)
Relaying(step) ==
    /\ step
    /\ broker' = [r \in Rows |-> broker[r] + (sent'[r] - sent[r])]
    /\ UNCHANGED <<inflight, turnedAway>>

RelayNext == UNCHANGED vars /\ Relaying(Outbox!OutboxStep)

-----------------------------------------------------------------------------
HandleStep(w) == ClaimDelivered(w) \/ AcknowledgeUnclaimed(w) \/ FinishDelivery(w) \/ CrashConsumer(w)

DeliveryNext ==
    \/ \E w \in Workers :
          \/ \E r \in Rows : Deliver(w, r)
          \/ HandleStep(w)
          \/ \E i \in Items : ClaimCandidate(w, i)
    \/ Repository
    \/ RelayNext

DeliverySpec == DeliveryInit /\ [][DeliveryNext]_deliveryVars

(* Fairness: clocks, recovery passes and relays run; the broker delivers   *)
(* what it holds; an execution ends by itself or with its process.  The    *)
(* claim comes first in handle, so a consumer given deliveries again and   *)
(* again does not die before every one of its claims: strong fairness.     *)
(* Nothing is assumed of the polling loop, which needs a configured        *)
(* handoff to run at all.                                                  *)
DeliveryFairness ==
    /\ WF_deliveryVars(Tick /\ UNCHANGED <<tables, deliveries>>)
    /\ WF_deliveryVars(RecoverExpiredLeases /\ UNCHANGED <<tables, deliveries>>)
    /\ \A w \in Workers :
          /\ WF_deliveryVars(FinishDelivery(w) \/ CrashConsumer(w))
          /\ SF_deliveryVars(ClaimDelivered(w) \/ AcknowledgeUnclaimed(w))
    /\ \A r \in Rows : WF_deliveryVars(\E w \in Workers : Deliver(w, r))
    /\ WF_deliveryVars(UNCHANGED vars /\ Relaying(Outbox!RecoverStaleClaims))
    /\ WF_deliveryVars(UNCHANGED vars /\ Relaying(\E k \in Relays : Outbox!ClaimDue(k)))
    /\ \A k \in Relays :
          WF_deliveryVars(UNCHANGED vars /\ Relaying(Outbox!RelayStep(k) \/ Outbox!CrashRelay(k)))

FairDeliverySpec == DeliverySpec /\ DeliveryFairness

-----------------------------------------------------------------------------
(* PROPERTIES                                                              *)

(* Something on its way to a worker still names the item.                  *)
Offered(i) ==
    \E e \in Events :
        LET r == <<i, e>>
        IN  \/ outbox[r].state = "pending" /\ outbox[r].attempts < MaxPublishAttempts
            \/ outbox[r].state = "publishing"
            \/ broker[r] > 0
            \/ \E w \in Workers : inflight[w] = r

(* An intent of the item was given up by the relay.                        *)
Spent(i) ==
    \E e \in Events :
        outbox[<<i, e>>].state = "pending" /\ outbox[<<i, e>>].attempts = MaxPublishAttempts

(* Claimable work is only ever without an offer because the relay gave its *)
(* intent up or because its delivery was acknowledged unclaimed earlier:   *)
(* no crash of a relay, a consumer or the broker link loses it.            *)
WakeUpIsLostOnlyByAcknowledgement ==
    \A i \in Items : Claimable(i) => Offered(i) \/ Spent(i) \/ i \in turnedAway

(* Without the polling loop, work whose delivery is not turned away and    *)
(* whose intent is not given up settles.                                   *)
OfferedWorkSettles ==
    \A i \in Items :
        <>[](Eligible(i) /\ i \notin turnedAway /\ ~Spent(i)) => <>[](work[i].state \in Settled)
=============================================================================
