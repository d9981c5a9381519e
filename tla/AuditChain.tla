------------------------------ MODULE AuditChain ------------------------------
(***************************************************************************)
(* The audit_events table and its writers: append_event in                 *)
(* services/event_store/app/repository.py, and the transactions of         *)
(* tax_core that persist a computation, check it (replay and validation)   *)
(* and finalize it                                                         *)
(* (services/tax_core/app/persistence/materialization.py and engine/).     *)
(*                                                                         *)
(* Each writer opens a transaction (READ COMMITTED), reads the latest      *)
(* event of its chain and inserts its own as the successor; the triggers   *)
(* of database/migrations judge the insert by what is committed then, and  *)
(* the unique index on idempotency keys makes an insert wait for another   *)
(* of the same key, which is why taking the key and committing are one     *)
(* step here.                                                              *)
(*                                                                         *)
(* One user.  His events form a chain of their own, and each computation   *)
(* has a chain; a computation goes by its idempotency key, which is        *)
(* unique.  Events without a user have no resource_id, so the trigger on   *)
(* their order returns early; they are outside this module.  A hash stands for the event it is the hash of.  A payload is   *)
(* what the fingerprint (an event) or the input hash (a computation) is    *)
(* computed from.                                                          *)
(***************************************************************************)
EXTENDS Naturals, FiniteSets

CONSTANTS
    Transactions,  \* those that may be in flight at once, one per request
    Keys,          \* idempotency keys
    Payloads,
    EventChain,    \* the chain of the events appended by event_store
    Skew,          \* how far the time a service reads is from the database's, either way
    MaxTime,       \* bound: the database's clock
    MaxEvents      \* bound: events, with those that requests in flight may add

Nothing == "nothing"         \* no payload

ASSUME AuditAssumption ==
    /\ EventChain \notin Keys
    /\ Nothing \notin Payloads
    /\ Skew \in Nat
    /\ MaxTime \in Nat
    /\ MaxEvents \in Nat

VARIABLES
    clock,
    events,          \* audit_events
    computations,    \* the computations, by idempotency key
    transactions,    \* what each request has asked and read, and how far it is
    answer           \* history: what the last step has answered, and to which request

auditVars == <<clock, events, computations, transactions, answer>>
tables == <<events, computations>>

Time == 0..MaxTime
AppTime == 0..(MaxTime + Skew)
Ids == 1..MaxEvents          \* random identifiers: an event takes any that is free
NoId == 0
Chains == Keys \cup {EventChain}
Kinds == {"append", "execute", "check", "finalize"}
NoEvent == [kind |-> "none"]
NoComputation == [input |-> Nothing, finalized |-> NoId]

\* start is when the transaction started (created_at); seen is history: the events committed then.
Event == [kind: Kinds, chain: Chains, key: Keys, payload: Payloads \cup {Nothing},
          ts: Time, start: Time, prev: Ids \cup {NoId}, seen: SUBSET Ids]
Computation == [input: Payloads, finalized: Ids \cup {NoId}]
\* event is the latest event read.
Transaction == [kind: Kinds, chain: Chains, key: Keys, payload: Payloads \cup {Nothing},
                ts: AppTime, start: Time, seen: SUBSET Ids, event: Ids \cup {NoId},
                stage: {"asked", "open", "checked"}]
NoTransaction == [stage |-> "idle"]
\* A request is told of an event, or that the triggers refused its event.
Answer == [to: Transaction, event: Ids] \cup [to: Transaction, refused: {TRUE}]
Unanswered == [to |-> NoTransaction]

Stored == {e \in Ids : events[e] # NoEvent}
Of(chain) == {e \in Stored : events[e].chain = chain}

AuditTypeOK ==
    /\ clock \in Time
    /\ events \in [Ids -> Event \cup {NoEvent}]
    /\ computations \in [Keys -> Computation \cup {NoComputation}]
    /\ transactions \in [Transactions -> Transaction \cup {NoTransaction}]
    /\ answer \in Answer \cup {Unanswered}

AuditInit ==
    /\ clock = 0
    /\ events = [e \in Ids |-> NoEvent]
    /\ computations = [k \in Keys |-> NoComputation]
    /\ transactions = [r \in Transactions |-> NoTransaction]
    /\ answer = Unanswered

InFlight(r) == transactions[r] # NoTransaction

-----------------------------------------------------------------------------
(* The chain.                                                              *)

\* Event a comes before event b in the order the latest event is looked up by.
Before(a, b) ==
    LET x == events[a]
        y == events[b]
    IN  \/ x.ts < y.ts
        \/ x.ts = y.ts /\ x.start < y.start
        \/ x.ts = y.ts /\ x.start = y.start /\ a < b

Latest(chain) ==
    IF Of(chain) = {} THEN NoId
    ELSE CHOOSE e \in Of(chain) : \A f \in Of(chain) \ {e} : Before(f, e)

\* The timestamp of an event appended at a time the service has read.
Stamp(at) == IF at < clock THEN at ELSE clock

\* Seeded fault: an event may be behind the chain.
Accepts_Behind(q) == q.ts <= q.start /\ q.event = Latest(q.chain)

\* The triggers and checks on the insert: no event from the future, none behind the chain, and
\* the previous hash is that of the latest event.
Accepts(q) ==
    /\ q.ts <= q.start
    /\ \A e \in Of(q.chain) : events[e].ts <= q.ts
    /\ q.event = Latest(q.chain)

NewEvent(q) ==
    [kind |-> q.kind, chain |-> q.chain, key |-> q.key, payload |-> q.payload,
     ts |-> q.ts, start |-> q.start, prev |-> q.event, seen |-> q.seen]

KeyTaken(key) == \E e \in Stored : events[e].key = key

-----------------------------------------------------------------------------
(* A transaction begins.  The service has read its clock before; the       *)
(* transactions of tax_core take their times from the database.            *)

Silent == answer' = Unanswered

Close(r) == transactions' = [transactions EXCEPT ![r] = NoTransaction]

Serve(r, event) == Close(r) /\ answer' = [to |-> transactions[r], event |-> event]

Refuse(r) == Close(r) /\ answer' = [to |-> transactions[r], refused |-> TRUE]

Begin(r, kind, chain, key, payload, ts) ==
    /\ Silent
    /\ ~ InFlight(r)
    /\ \/ Cardinality(Stored) + Cardinality({s \in Transactions : InFlight(s)}) < MaxEvents
       \/ KeyTaken(key) /\ \A s \in Transactions : ~ InFlight(s)
    /\ transactions' = [transactions EXCEPT ![r] =
          [kind |-> kind, chain |-> chain, key |-> key, payload |-> payload, ts |-> ts,
           start |-> clock, seen |-> Of(chain), event |-> NoId, stage |-> "asked"]]
    /\ UNCHANGED <<clock, tables>>

ServiceClock == {at \in AppTime : at <= clock + Skew /\ clock <= at + Skew}

BeginAppend(r) ==
    \E k \in Keys, p \in Payloads, ts \in {Stamp(at) : at \in ServiceClock} :
        Begin(r, "append", EventChain, k, p, ts)

BeginExecute(r) ==
    \E k \in Keys, p \in Payloads : Begin(r, "execute", k, k, p, clock)

BeginCheck(r) == \E c, k \in Keys : Begin(r, "check", c, k, Nothing, clock)

BeginFinalize(r) == \E c, k \in Keys : Begin(r, "finalize", c, k, Nothing, clock)

-----------------------------------------------------------------------------
(* It takes its locks and reads.                                           *)

Opened(r) ==
    /\ transactions' = [transactions EXCEPT ![r].stage = "open",
                                               ![r].event = Latest(transactions[r].chain)]
    /\ Silent

OpenAppend(r) ==
    /\ transactions[r].stage = "asked" /\ transactions[r].kind = "append"
    /\ Opened(r)
    /\ UNCHANGED <<clock, tables>>

\* The event a stored computation is answered with: the one its key finds.
EventOf(key) == CHOOSE e \in Stored : events[e].key = key

OpenExecute(r) ==
    LET q == transactions[r]
        existing == computations[q.key]
    IN  /\ q.stage = "asked" /\ q.kind = "execute"
        /\ \/ existing = NoComputation /\ Opened(r)
           \/ existing.input = q.payload /\ Serve(r, EventOf(q.key))
        /\ UNCHANGED <<clock, tables>>

\* A check locks the computation FOR SHARE, a finalization FOR UPDATE.
Holders(kinds, c) ==
    {s \in Transactions : /\ transactions[s].stage \in {"open", "checked"}
                          /\ transactions[s].kind \in kinds
                          /\ transactions[s].chain = c}

OpenCheck(r) ==
    LET q == transactions[r]
    IN  /\ q.stage = "asked" /\ q.kind = "check"
        /\ computations[q.chain] # NoComputation
        /\ Holders({"finalize"}, q.chain) = {}
        /\ Opened(r)
        /\ UNCHANGED <<clock, tables>>

\* Seeded fault: a computation that is not there is not refused.
FinalizeMayRead_Missing(c) == Holders({"check", "finalize"}, c) = {}

FinalizeMayRead(c) ==
    /\ computations[c] # NoComputation
    /\ Holders({"check", "finalize"}, c) = {}

OpenFinalize(r) ==
    LET q == transactions[r]
        finalized == computations[q.chain].finalized
    IN  /\ q.stage = "asked" /\ q.kind = "finalize"
        /\ FinalizeMayRead(q.chain)
        /\ IF finalized = NoId THEN Opened(r) ELSE Serve(r, finalized)
        /\ UNCHANGED <<clock, tables>>

-----------------------------------------------------------------------------
(* The insert: the triggers let it pass or raise, then the key is taken    *)
(* and the transaction commits.                                            *)

Check(r) ==
    /\ transactions[r].stage = "open"
    /\ IF Accepts(transactions[r])
       THEN transactions' = [transactions EXCEPT ![r].stage = "checked"] /\ Silent
       ELSE Refuse(r)
    /\ UNCHANGED <<clock, tables>>

Executed(q) == [computations EXCEPT ![q.key] = [input |-> q.payload, finalized |-> NoId]]

Finalized(q, event) == [computations EXCEPT ![q.chain].finalized = event]

Inserts(r, event) ==
    LET q == transactions[r]
    IN  /\ q.stage = "checked"
        /\ ~ KeyTaken(q.key)
        /\ q.kind = "execute" => computations[q.key] = NoComputation        \* unique key
        /\ q.kind = "finalize" => computations[q.chain].finalized = NoId     \* trigger
        /\ event \notin Stored
        /\ events' = [events EXCEPT ![event] = NewEvent(q)]
        /\ computations' = CASE q.kind = "execute" -> Executed(q)
                             [] q.kind = "finalize" -> Finalized(q, event)
                             [] OTHER -> computations
        /\ UNCHANGED clock

Commit(r) == \E event \in Ids : Inserts(r, event) /\ Serve(r, event)

\* The commit succeeds and the connection is lost: the caller is answered with an error.
CommitUnseen(r) ==
    /\ \E event \in Ids : Inserts(r, event)
    /\ Close(r)
    /\ Silent

\* Seeded fault: an event of the key answers for any payload.
SameEvent_Any(e, q) == events[e].key = q.key

\* The event the lookup by key accepts for an append: one of event_store, of the same payload.
SameEvent(e, q) ==
    /\ events[e].key = q.key
    /\ events[e].chain = EventChain
    /\ events[e].payload = q.payload

\* The unique index refuses the key: an append is answered with the event that has it.
Clash(r) ==
    LET q == transactions[r]
    IN  /\ q.stage = "checked" /\ q.kind = "append"
        /\ KeyTaken(q.key)
        /\ \E e \in Stored : SameEvent(e, q) /\ Serve(r, e)
        /\ UNCHANGED <<clock, tables>>

\* Any other end: a conflict of keys or payloads, nothing to check or finalize, a
\* database error; the transaction is rolled back.
Fail(r) ==
    /\ InFlight(r)
    /\ Close(r)
    /\ Silent
    /\ UNCHANGED <<clock, tables>>

Tick ==
    /\ clock < MaxTime
    /\ clock' = clock + 1
    /\ Silent
    /\ UNCHANGED <<tables, transactions>>

AuditNext ==
    \/ Tick
    \/ \E r \in Transactions :
          \/ BeginAppend(r) \/ BeginExecute(r) \/ BeginCheck(r) \/ BeginFinalize(r)
          \/ OpenAppend(r) \/ OpenExecute(r) \/ OpenCheck(r) \/ OpenFinalize(r)
          \/ Check(r) \/ Commit(r) \/ CommitUnseen(r) \/ Clash(r) \/ Fail(r)

AuditSpec == AuditInit /\ [][AuditNext]_auditVars

-----------------------------------------------------------------------------
(* Properties.                                                             *)

\* Neither event was committed when the transaction of the other started.
Overlap(a, b) == a \notin events[b].seen /\ b \notin events[a].seen

\* Every event names an event of its chain that is no later and did not start after it was
\* there, so that the integrity check finds it (verify_integrity_page); two events name the same
\* one only if their transactions overlapped, or one has the very timestamp of what they name.
ForksNeedOverlap ==
    \A a \in Stored :
        LET prev == events[a].prev
        IN  /\ prev # NoId =>
                  /\ prev \in Of(events[a].chain) /\ a \notin events[prev].seen
                  /\ events[prev].ts <= events[a].ts
            /\ \A b \in Of(events[a].chain) \ {a} :
                  events[b].prev = prev =>
                      \/ Overlap(a, b)
                      \/ prev # NoId /\ events[prev].ts \in {events[a].ts, events[b].ts}

ComputationIsAudited ==
    \A c \in Keys :
        /\ {e \in Of(c) : events[e].prev = NoId} = {e \in Of(c) : events[e].kind = "execute"}
        /\ Cardinality({e \in Of(c) : events[e].kind = "execute"}) =
              IF computations[c] = NoComputation THEN 0 ELSE 1
        /\ {e \in Of(c) : events[e].kind = "finalize"} = {computations[c].finalized} \ {NoId}
        /\ \A e \in Of(c) : events[e].kind = "execute" =>
              events[e].key = c /\ events[e].payload = computations[c].input

AnswersAreBacked ==
    LET q == answer.to
    IN  "event" \in DOMAIN answer =>
            IF q.kind = "finalize" THEN answer.event = computations[q.chain].finalized
            ELSE LET e == events[answer.event]
                 IN  /\ e.kind = q.kind /\ e.chain = q.chain
                     /\ e.key = q.key /\ e.payload = q.payload

\* A computation is stored with the event of its execution, the only one its chain begins with,
\* and is finalized by one event, however many requests ask for it (materialize, finalize).
\* A request answered with success is answered with what is stored under its own key and its
\* own payload, also when another request stored it (append_event, materialize); finalizations
\* are all answered with the one event their computation names.
AuditIsComplete == ComputationIsAudited /\ AnswersAreBacked
=============================================================================
