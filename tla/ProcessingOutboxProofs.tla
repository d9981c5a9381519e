----------------------- MODULE ProcessingOutboxProofs -----------------------
(***************************************************************************)
(* Proofs about ProcessingOutbox for every set of rows and relays and      *)
(* every limit, with and without the unique constraint: its types, that it *)
(* implements DurableHandoff, and that a late relay is harmless.           *)
(*                                                                         *)
(* That the copies a broker gets are bounded by the attempts is not        *)
(* inductive: a relay publishes what it has claimed before, perhaps long   *)
(* ago.  CopiesOK counts the claims still to be published with the copies  *)
(* already sent, and HeldOK says that no claim is in two hands.            *)
(***************************************************************************)
EXTENDS ProcessingOutbox, TLAPS, FiniteSetTheorems

HeldBy(k, r) == {n \in 1..MaxPublishAttempts : [row |-> r, number |-> n] \in relay[k].held}
Held(r) == UNION {HeldBy(k, r) : k \in Relays}

CopiesOK ==
    \A r \in Rows :
        /\ outbox[r].state = "absent" => outbox[r].attempts = 0
        /\ Held(r) \subseteq 1..outbox[r].attempts
        /\ sent[r] + Cardinality(Held(r)) <= outbox[r].attempts

HeldOK ==
    \A k, j \in Relays : k # j => relay[k].held \cap relay[j].held = {}

RowsOK ==
    \A r \in Rows :
        /\ outbox[r].state # "publishing" => outbox[r].claim = 0
        /\ outbox[r].state = "published" => outbox[r].error = "none" /\ sent[r] > 0

(* A relay holds an acknowledgement of a message that has been sent.       *)
AcksOK ==
    \A k \in Relays :
        relay[k].now # NoRecord /\ relay[k].now.outcome = "acknowledged" =>
            sent[relay[k].now.record.row] > 0

IInv == OutboxTypeOK /\ CopiesOK /\ HeldOK /\ RowsOK /\ AcksOK

-----------------------------------------------------------------------------
(* Rows and records.                                                       *)

LEMMA RowFacts ==
    ASSUME OutboxTypeOK, NEW r \in Rows
    PROVE  /\ outbox[r] \in Row
           /\ outbox[r].attempts \in Nat /\ outbox[r].attempts <= MaxPublishAttempts
           /\ sent[r] \in Nat /\ attemptLog[r] \in SUBSET LogEntry
           /\ MaxPublishAttempts \in Nat \ {0}
  BY OutboxAssumption DEF OutboxTypeOK, Row

LEMMA RelayFacts ==
    ASSUME OutboxTypeOK, NEW k \in Relays
    PROVE  /\ relay[k].held \in SUBSET Record
           /\ relay[k].now # NoRecord =>
                 relay[k].now \in Publishing /\ relay[k].now.record \in Record
  BY DEF OutboxTypeOK, Publishing

(* What the statements write.                                              *)
LEMMA ClaimedRow ==
    ASSUME NEW row \in Row, row.attempts < MaxPublishAttempts
    PROVE  /\ Claimed(row) \in Row
           /\ Claimed(row).state = "publishing"
           /\ Claimed(row).attempts = row.attempts + 1
  <1>1. row.attempts + 1 \in 0..MaxPublishAttempts
    BY OutboxAssumption DEF Row
  <1> DEFINE n == row.attempts + 1
             q == [row EXCEPT !.state = "publishing", !.attempts = n, !.claim = n]
  <1>2. Claimed(row) = q
    BY DEF Claimed, Row
  <1> HIDE DEF n
  <1>3. q \in Row /\ q.state = "publishing" /\ q.attempts = n
    BY <1>1 DEF Row, n
  <1> QED
    BY <1>2, <1>3 DEF n

LEMMA UnclaimedRow ==
    ASSUME NEW row \in Row, NEW state \in {"pending", "published", "failed"},
           NEW error \in {"none", "transient", "permanent"}
    PROVE  /\ Unclaimed(row, state, error) \in Row
           /\ Unclaimed(row, state, error).state = state
           /\ Unclaimed(row, state, error).claim = 0
           /\ Unclaimed(row, state, error).error = error
           /\ Unclaimed(row, state, error).attempts = row.attempts
  <1>1. 0 \in 0..MaxPublishAttempts
    BY OutboxAssumption
  <1> QED
    BY <1>1 DEF Row, Unclaimed

LEMMA WaitingRow ==
    ASSUME NEW row \in Row, NEW waiting \in BOOLEAN
    PROVE  /\ [row EXCEPT !.waiting = waiting] \in Row
           /\ [row EXCEPT !.waiting = waiting].state = row.state
           /\ [row EXCEPT !.waiting = waiting].claim = row.claim
           /\ [row EXCEPT !.waiting = waiting].error = row.error
           /\ [row EXCEPT !.waiting = waiting].attempts = row.attempts
  BY DEF Row

LEMMA FreshFacts ==
    /\ Fresh \in Row /\ Absent \in Row
    /\ Fresh.state = "pending" /\ Absent.state = "absent"
    /\ Fresh.attempts = 0 /\ Fresh.claim = 0 /\ Absent.attempts = 0 /\ Absent.claim = 0
  <1>1. 0 \in 0..MaxPublishAttempts
    BY OutboxAssumption
  <1>2. Fresh \in Row /\ Fresh.state = "pending" /\ Fresh.attempts = 0 /\ Fresh.claim = 0
    BY <1>1 DEF Fresh, Row
  <1>3. Absent \in Row /\ Absent.state = "absent" /\ Absent.attempts = 0 /\ Absent.claim = 0
    BY <1>2 DEF Absent, Row
  <1> QED
    BY <1>2, <1>3

(* The claims still to be published are numbers, so finitely many.         *)
LEMMA HeldFacts ==
    ASSUME NEW r \in Rows
    PROVE  /\ Held(r) \subseteq 1..MaxPublishAttempts
           /\ IsFiniteSet(Held(r)) /\ Cardinality(Held(r)) \in Nat
           /\ \A n \in Held(r) : Cardinality(Held(r) \ {n}) = Cardinality(Held(r)) - 1
           /\ \A n : n \notin Held(r) => Cardinality(Held(r) \cup {n}) = Cardinality(Held(r)) + 1
           /\ \A S \in SUBSET Held(r) : Cardinality(S) \in Nat /\ Cardinality(S) <= Cardinality(Held(r))
  <1>1. Held(r) \subseteq 1..MaxPublishAttempts
    BY DEF Held, HeldBy
  <1>2. IsFiniteSet(1..MaxPublishAttempts)
    BY OutboxAssumption, FS_Interval
  <1>3. IsFiniteSet(Held(r)) /\ Cardinality(Held(r)) \in Nat
    BY <1>1, <1>2, FS_Subset, FS_CardinalityType
  <1>4. \A n \in Held(r) : Cardinality(Held(r) \ {n}) = Cardinality(Held(r)) - 1
    BY <1>3, FS_RemoveElement
  <1>5. \A n : n \notin Held(r) => Cardinality(Held(r) \cup {n}) = Cardinality(Held(r)) + 1
    BY <1>3, FS_AddElement
  <1>6. \A S \in SUBSET Held(r) : Cardinality(S) \in Nat /\ Cardinality(S) <= Cardinality(Held(r))
    BY <1>3, FS_Subset, FS_CardinalityType
  <1> QED
    BY <1>1, <1>3, <1>4, <1>5, <1>6

LEMMA HeldElements ==
    ASSUME OutboxTypeOK, NEW k \in Relays, NEW record \in relay[k].held
    PROVE  /\ record \in Record /\ record.row \in Rows /\ record.number \in 1..MaxPublishAttempts
           /\ record.number \in Held(record.row)
           /\ record = [row |-> record.row, number |-> record.number]
  <1>1. /\ record \in Record /\ record.row \in Rows /\ record.number \in 1..MaxPublishAttempts
        /\ record = [row |-> record.row, number |-> record.number]
    BY RelayFacts DEF Record
  <1>2. record.number \in HeldBy(k, record.row)
    BY <1>1 DEF HeldBy
  <1> QED
    BY <1>1, <1>2 DEF Held

LEMMA Init == OutboxInit => IInv
  <1> SUFFICES ASSUME OutboxInit PROVE IInv
    OBVIOUS
  <1>1. \A k \in Relays : relay[k].held = {} /\ relay[k].now = NoRecord
    BY DEF OutboxInit, IdleRelay
  <1>2. OutboxTypeOK
    <2>1. outbox \in [Rows -> Row] /\ attemptLog \in [Rows -> SUBSET LogEntry]
          /\ sent \in [Rows -> 0..MaxPublishAttempts] /\ ready \in SUBSET Rows
      BY FreshFacts, OutboxAssumption DEF OutboxInit
    <2>2. relay \in [Relays -> [held: SUBSET Record, now: Publishing \cup {NoRecord}]]
      BY DEF OutboxInit, IdleRelay
    <2> QED
      BY <2>1, <2>2 DEF OutboxTypeOK
  <1>3. \A r \in Rows : Held(r) = {} /\ sent[r] = 0 /\ outbox[r] \in {Absent, Fresh}
    BY <1>1 DEF Held, HeldBy, OutboxInit
  <1>4. CopiesOK
    <2>1. Cardinality({}) = 0
      BY FS_EmptySet
    <2>2. \A r \in Rows : outbox[r].attempts = 0
      BY <1>3, FreshFacts
    <2> QED
      BY <1>3, <2>1, <2>2 DEF CopiesOK
  <1>5. HeldOK /\ AcksOK
    BY <1>1 DEF HeldOK, AcksOK
  <1>6. RowsOK
    BY <1>3, FreshFacts DEF RowsOK
  <1> QED
    BY <1>2, <1>4, <1>5, <1>6 DEF IInv

-----------------------------------------------------------------------------
(* Steps by which no relay comes to hold more.                             *)

LEMMA HeldShrinks ==
    ASSUME IInv, UNCHANGED sent,
           \A k \in Relays : relay'[k].held \subseteq relay[k].held,
           \A r \in Rows : /\ outbox'[r].attempts = outbox[r].attempts
                           /\ outbox'[r].state = "absent" => outbox[r].state = "absent"
    PROVE  CopiesOK' /\ HeldOK'
  <1> USE DEF IInv
  <1>1. HeldOK'
    BY DEF HeldOK
  <1>2. ASSUME NEW r \in Rows
        PROVE  Held(r)' \in SUBSET Held(r)
    BY DEF Held, HeldBy
  <1>3. ASSUME NEW r \in Rows
        PROVE  /\ Held(r)' \subseteq 1..outbox[r].attempts
               /\ sent[r] + Cardinality(Held(r)') <= outbox[r].attempts
    BY <1>2, HeldFacts, RowFacts DEF CopiesOK
  <1> QED
    BY <1>1, <1>3 DEF CopiesOK

LEMMA AcksKept ==
    ASSUME IInv, UNCHANGED sent,
           \A k \in Relays : relay'[k].now \in {relay[k].now, NoRecord}
    PROVE  AcksOK'
  BY DEF IInv, AcksOK

LEMMA WorkStep ==
    ASSUME IInv, WorkChanges
    PROVE  IInv'
  <1> USE DEF IInv
  <1>1. PICK new \in SUBSET {r \in Rows : outbox[r].state = "absent"} :
           Insert(new) /\ ready' \in SUBSET Rows
    BY DEF WorkChanges
  <1>2. \A r \in Rows : outbox'[r] = IF r \in new THEN Fresh ELSE outbox[r]
    BY <1>1 DEF Insert
  <1>3. UNCHANGED <<attemptLog, sent, relay>>
    BY <1>1 DEF Insert
  <1>4. OutboxTypeOK'
    BY <1>1, <1>3, FreshFacts DEF OutboxTypeOK, Insert
  <1>5. \A r \in Rows : /\ outbox'[r].attempts = outbox[r].attempts
                        /\ outbox'[r].state = "absent" => outbox[r].state = "absent"
    BY <1>1, <1>2, FreshFacts DEF CopiesOK
  <1>6. CopiesOK' /\ HeldOK' /\ AcksOK'
    BY <1>3, <1>5, HeldShrinks, AcksKept
  <1>7. RowsOK'
    BY <1>2, <1>3, FreshFacts DEF RowsOK
  <1> QED
    BY <1>4, <1>6, <1>7

LEMMA RecoverStep ==
    ASSUME IInv, RecoverStaleClaims
    PROVE  IInv'
  <1> USE DEF IInv
  <1>1. PICK stale \in SUBSET {r \in Rows : Stale(r)} :
           outbox' = [r \in Rows |->
               IF r \notin stale THEN outbox[r]
               ELSE [Unclaimed(outbox[r], "pending", outbox[r].error) EXCEPT !.waiting = FALSE]]
    BY DEF RecoverStaleClaims
  <1>2. UNCHANGED <<attemptLog, sent, relay, ready>>
    BY DEF RecoverStaleClaims
  <1>3. ASSUME NEW r \in Rows
        PROVE  /\ outbox'[r] \in Row
               /\ outbox'[r].attempts = outbox[r].attempts
               /\ outbox'[r] = outbox[r] \/ (outbox'[r].state = "pending" /\ outbox'[r].claim = 0)
    <2>1. outbox[r] \in Row /\ outbox[r].error \in {"none", "transient", "permanent"}
      BY RowFacts DEF Row
    <2>2. CASE r \in stale
      <3>1. outbox'[r] = [Unclaimed(outbox[r], "pending", outbox[r].error) EXCEPT !.waiting = FALSE]
        BY <1>1, <2>2
      <3> DEFINE u == Unclaimed(outbox[r], "pending", outbox[r].error)
      <3>2. u \in Row /\ u.state = "pending" /\ u.claim = 0 /\ u.attempts = outbox[r].attempts
        BY <2>1, UnclaimedRow
      <3>3. outbox'[r] = [u EXCEPT !.waiting = FALSE]
        BY <3>1
      <3> HIDE DEF u
      <3> QED
        BY <3>2, <3>3, WaitingRow
    <2>3. CASE r \notin stale
      BY <1>1, <2>1, <2>3
    <2> QED
      BY <2>2, <2>3
  <1>4. OutboxTypeOK'
    BY <1>1, <1>2, <1>3 DEF OutboxTypeOK
  <1>5. CopiesOK' /\ HeldOK' /\ AcksOK'
    BY <1>2, <1>3, HeldShrinks, AcksKept
  <1>6. RowsOK'
    BY <1>2, <1>3 DEF RowsOK
  <1> QED
    BY <1>4, <1>5, <1>6

LEMMA CrashStep ==
    ASSUME IInv, NEW k \in Relays, CrashRelay(k)
    PROVE  IInv'
  <1> USE DEF IInv
  <1>1. UNCHANGED <<outbox, attemptLog, sent, ready>> /\ relay' = [relay EXCEPT ![k] = IdleRelay]
    BY DEF CrashRelay
  <1>2. \A j \in Relays : relay'[j].held \subseteq relay[j].held /\ relay'[j].now \in {relay[j].now, NoRecord}
    BY <1>1 DEF IdleRelay, OutboxTypeOK
  <1>3. OutboxTypeOK'
    BY <1>1 DEF OutboxTypeOK, IdleRelay
  <1>4. CopiesOK' /\ HeldOK' /\ AcksOK'
    BY <1>1, <1>2, HeldShrinks, AcksKept
  <1> QED
    BY <1>1, <1>3, <1>4 DEF RowsOK

LEMMA BackoffStep ==
    ASSUME IInv, NEW r \in Rows, BackoffEnds(r)
    PROVE  IInv'
  <1> USE DEF IInv
  <1>1. UNCHANGED <<attemptLog, sent, relay, ready>> /\ outbox' = [outbox EXCEPT ![r].waiting = FALSE]
    BY DEF BackoffEnds
  <1>2. outbox[r] \in Row /\ [outbox[r] EXCEPT !.waiting = FALSE] \in Row
    BY RowFacts, WaitingRow
  <1>3. OutboxTypeOK'
    BY <1>1, <1>2 DEF OutboxTypeOK
  <1>4. \A q \in Rows : /\ outbox'[q].attempts = outbox[q].attempts
                        /\ outbox'[q].state = outbox[q].state
                        /\ outbox'[q].claim = outbox[q].claim /\ outbox'[q].error = outbox[q].error
    BY <1>1 DEF OutboxTypeOK, Row
  <1>5. CopiesOK' /\ HeldOK' /\ AcksOK'
    BY <1>1, <1>4, HeldShrinks, AcksKept
  <1>6. RowsOK'
    BY <1>1, <1>4 DEF RowsOK
  <1> QED
    BY <1>3, <1>5, <1>6

-----------------------------------------------------------------------------
(* A claim gives a relay numbers nobody holds.                             *)

LEMMA ClaimStep ==
    ASSUME IInv, NEW k \in Relays, ClaimDue(k)
    PROVE  IInv'
  <1> USE DEF IInv
  <1>1. PICK batch \in SUBSET {r \in Rows : Due(r)} :
        /\ outbox' = [r \in Rows |-> IF r \notin batch THEN outbox[r] ELSE Claimed(outbox[r])]
        /\ attemptLog' = [r \in Rows |->
               IF r \notin batch THEN attemptLog[r]
               ELSE attemptLog[r] \cup {[number |-> outbox[r].attempts + 1, state |-> "attempted"]}]
        /\ relay' = [relay EXCEPT ![k].held =
               {[row |-> r, number |-> outbox[r].attempts + 1] : r \in batch}]
    BY DEF ClaimDue
  <1>2. relay[k] = IdleRelay /\ UNCHANGED <<sent, ready>>
    BY DEF ClaimDue
  <1> DEFINE new == {[row |-> r, number |-> outbox[r].attempts + 1] : r \in batch}
  <1>3. \A r \in batch : r \in Rows /\ outbox[r].attempts < MaxPublishAttempts
    BY <1>1 DEF Due
  <1>4. \A r \in batch : outbox[r].attempts + 1 \in 1..MaxPublishAttempts
    BY <1>3, RowFacts
  <1>5. new \in SUBSET Record
    BY <1>3, <1>4 DEF Record
  <1>6. /\ relay' \in [Relays -> [held: SUBSET Record, now: Publishing \cup {NoRecord}]]
        /\ relay'[k].held = new /\ relay'[k].now = relay[k].now
        /\ \A j \in Relays : j # k => relay'[j] = relay[j]
    <2> HIDE DEF new
    <2>1. relay' = [relay EXCEPT ![k].held = new]
      BY <1>1 DEF new
    <2> QED
      BY <1>5, <2>1 DEF OutboxTypeOK
  <1>7. ASSUME NEW r \in Rows
        PROVE  /\ outbox'[r] \in Row
               /\ r \in batch => /\ outbox'[r].state = "publishing"
                                /\ outbox'[r].attempts = outbox[r].attempts + 1
               /\ r \notin batch => outbox'[r] = outbox[r]
    <2>1. outbox[r] \in Row
      BY RowFacts
    <2>2. CASE r \in batch
      <3>1. outbox'[r] = Claimed(outbox[r]) /\ outbox[r].attempts < MaxPublishAttempts
        BY <1>1, <1>3, <2>2
      <3> QED
        BY <2>1, <2>2, <3>1, ClaimedRow
    <2>3. CASE r \notin batch
      BY <1>1, <2>1, <2>3
    <2> QED
      BY <2>2, <2>3
  <1>8. attemptLog' \in [Rows -> SUBSET LogEntry]
    <2>1. \A r \in batch : [number |-> outbox[r].attempts + 1, state |-> "attempted"] \in LogEntry
      BY <1>4 DEF LogEntry
    <2>2. \A r \in Rows : attemptLog[r] \in SUBSET LogEntry
      BY RowFacts
    <2> QED
      BY <1>1, <2>1, <2>2
  <1>9. OutboxTypeOK'
    BY <1>1, <1>2, <1>6, <1>7, <1>8 DEF OutboxTypeOK
  <1>10. ASSUME NEW r \in Rows
         PROVE  Held(r)' = IF r \in batch THEN Held(r) \cup {outbox[r].attempts + 1} ELSE Held(r)
    <2>1. \A n : n \in HeldBy(k, r)' <=> r \in batch /\ n = outbox[r].attempts + 1
      BY <1>4, <1>6 DEF HeldBy
    <2>2. HeldBy(k, r) = {}
      BY <1>2 DEF HeldBy, IdleRelay
    <2>3. \A j \in Relays : j # k => HeldBy(j, r)' = HeldBy(j, r)
      BY <1>6 DEF HeldBy
    <2> QED
      BY <2>1, <2>2, <2>3 DEF Held
  <1>11. CopiesOK'
    <2> SUFFICES ASSUME NEW r \in Rows
                 PROVE  /\ outbox'[r].state = "absent" => outbox'[r].attempts = 0
                        /\ Held(r)' \subseteq 1..outbox'[r].attempts
                        /\ sent'[r] + Cardinality(Held(r)') <= outbox'[r].attempts
      BY DEF CopiesOK
    <2>1. CASE r \in batch
      <3>1. outbox'[r].state = "publishing" /\ outbox'[r].attempts = outbox[r].attempts + 1
        BY <1>7, <2>1
      <3>2. outbox[r].attempts \in Nat /\ Held(r) \subseteq 1..outbox[r].attempts
        BY RowFacts DEF CopiesOK
      <3>3. outbox[r].attempts + 1 \notin Held(r)
        BY <3>2
      <3>4. Cardinality(Held(r)') = Cardinality(Held(r)) + 1 /\ Cardinality(Held(r)) \in Nat
        BY <1>10, <2>1, <3>3, HeldFacts
      <3>5. sent[r] + Cardinality(Held(r)) <= outbox[r].attempts /\ sent[r] \in Nat /\ sent'[r] = sent[r]
        BY <1>2, RowFacts DEF CopiesOK
      <3>6. sent'[r] + Cardinality(Held(r)') <= outbox'[r].attempts
        BY <3>1, <3>2, <3>4, <3>5
      <3>7. Held(r)' \subseteq 1..outbox'[r].attempts
        BY <1>10, <2>1, <3>1, <3>2
      <3> QED
        BY <3>1, <3>6, <3>7
    <2>2. CASE r \notin batch
      BY <1>2, <1>7, <1>10, <2>2 DEF CopiesOK
    <2> QED
      BY <2>1, <2>2
  <1>12. HeldOK'
    <2>1. ASSUME NEW j \in Relays, j # k, NEW record \in relay[j].held, record \in new
          PROVE  FALSE
      <3>1. record.number \in Held(record.row) /\ record.row \in Rows
        BY HeldElements
      <3>2. record.number = outbox[record.row].attempts + 1
        BY <2>1
      <3>3. record.number \in 1..outbox[record.row].attempts /\ outbox[record.row].attempts \in Nat
        BY <3>1, RowFacts DEF CopiesOK
      <3> QED
        BY <3>2, <3>3
    <2> QED
      BY <1>6, <2>1 DEF HeldOK
  <1>13. RowsOK'
    BY <1>2, <1>7 DEF RowsOK
  <1>14. AcksOK'
    BY <1>2, <1>6 DEF AcksOK
  <1> QED
    BY <1>9, <1>11, <1>12, <1>13, <1>14

-----------------------------------------------------------------------------
(* Publication and its outcome.                                            *)

LEMMA PublishStep ==
    ASSUME IInv, NEW k \in Relays, Publish(k)
    PROVE  IInv'
  <1> USE DEF IInv
  <1>1. PICK record \in relay[k].held, outcome \in Outcome :
        /\ relay' = [relay EXCEPT ![k] = [held |-> relay[k].held \ {record},
                                          now |-> [record |-> record, outcome |-> outcome]]]
        /\ \/ sent' = [sent EXCEPT ![record.row] = @ + 1]
           \/ outcome # "acknowledged" /\ UNCHANGED sent
    BY DEF Publish
  <1>2. UNCHANGED <<outbox, attemptLog, ready>>
    BY DEF Publish
  <1> DEFINE r == record.row
             n == record.number
  <1>3. record \in Record /\ r \in Rows /\ n \in Held(r) /\ record = [row |-> r, number |-> n]
    BY HeldElements
  <1>4. /\ relay'[k].held = relay[k].held \ {record}
        /\ relay'[k].now = [record |-> record, outcome |-> outcome]
        /\ \A j \in Relays : j # k => relay'[j] = relay[j]
        /\ relay' \in [Relays -> [held: SUBSET Record, now: Publishing \cup {NoRecord}]]
    BY <1>1, <1>3 DEF OutboxTypeOK, Publishing
  <1>5. /\ \A q \in Rows : q # r => sent'[q] = sent[q]
        /\ sent'[r] \in {sent[r], sent[r] + 1}
        /\ outcome = "acknowledged" => sent'[r] = sent[r] + 1
    BY <1>1, <1>3 DEF OutboxTypeOK
  <1>6. ASSUME NEW q \in Rows
        PROVE  Held(q)' \in SUBSET Held(q)
    BY <1>4 DEF Held, HeldBy
  <1>7. Held(r)' \subseteq Held(r) \ {n}
    <2> SUFFICES ASSUME NEW j \in Relays, n \in HeldBy(j, r)'
                 PROVE  FALSE
      BY <1>3, <1>6 DEF Held
    <2>1. record \in relay'[j].held
      BY <1>3 DEF HeldBy
    <2>2. CASE j = k
      BY <1>4, <2>1, <2>2
    <2>3. CASE j # k
      BY <1>3, <1>4, <2>1, <2>3 DEF HeldOK
    <2> QED
      BY <2>2, <2>3
  <1>8. /\ Cardinality(Held(r)') \in Nat
        /\ Cardinality(Held(r)') <= Cardinality(Held(r)) - 1
    <2> DEFINE T == Held(r) \ {n}
    <2>1. Cardinality(T) = Cardinality(Held(r)) - 1 /\ IsFiniteSet(T)
      BY <1>3, HeldFacts, FS_RemoveElement
    <2>2. Held(r)' \in SUBSET T
      BY <1>7
    <2> HIDE DEF T
    <2>3. IsFiniteSet(Held(r)') /\ Cardinality(Held(r)') <= Cardinality(T)
      BY <2>1, <2>2, FS_Subset
    <2> QED
      BY <2>1, <2>3, FS_CardinalityType
  <1>9. /\ sent[r] \in Nat /\ outbox[r].attempts \in Nat /\ Cardinality(Held(r)) \in Nat
        /\ outbox[r].attempts <= MaxPublishAttempts /\ MaxPublishAttempts \in Nat
        /\ sent[r] + Cardinality(Held(r)) <= outbox[r].attempts
    BY <1>3, RowFacts, HeldFacts DEF CopiesOK
  <1>10. sent'[r] \in Nat /\ sent'[r] + Cardinality(Held(r)') <= outbox[r].attempts
    BY <1>5, <1>8, <1>9
  <1>11. sent'[r] \in 0..MaxPublishAttempts
    BY <1>8, <1>9, <1>10
  <1>12. OutboxTypeOK'
    <2>1. sent' \in [Rows -> 0..MaxPublishAttempts]
      BY <1>1, <1>3, <1>11 DEF OutboxTypeOK
    <2> QED
      BY <1>2, <1>4, <2>1 DEF OutboxTypeOK
  <1>13. CopiesOK'
    <2> SUFFICES ASSUME NEW q \in Rows
                 PROVE  /\ outbox[q].state = "absent" => outbox[q].attempts = 0
                        /\ Held(q)' \subseteq 1..outbox[q].attempts
                        /\ sent'[q] + Cardinality(Held(q)') <= outbox[q].attempts
      BY <1>2 DEF CopiesOK
    <2>1. (outbox[q].state = "absent" => outbox[q].attempts = 0) /\ Held(q)' \subseteq 1..outbox[q].attempts
      BY <1>6 DEF CopiesOK
    <2>2. CASE q = r
      BY <1>10, <2>1, <2>2
    <2>3. CASE q # r
      <3>1. sent'[q] = sent[q] /\ sent[q] + Cardinality(Held(q)) <= outbox[q].attempts
        BY <1>5, <2>3 DEF CopiesOK
      <3>2. Cardinality(Held(q)') \in Nat /\ Cardinality(Held(q)') <= Cardinality(Held(q))
        BY <1>6, HeldFacts
      <3> QED
        BY <2>1, <3>1, <3>2, RowFacts, HeldFacts
    <2> QED
      BY <2>2, <2>3
  <1>14. HeldOK'
    BY <1>4 DEF HeldOK
  <1>15. \A q \in Rows : sent[q] > 0 => sent'[q] > 0
    BY <1>5, <1>9
  <1>16. RowsOK'
    BY <1>2, <1>15 DEF RowsOK
  <1>17. AcksOK'
    <2> SUFFICES ASSUME NEW j \in Relays, relay'[j].now # NoRecord,
                        relay'[j].now.outcome = "acknowledged"
                 PROVE  sent'[relay'[j].now.record.row] > 0
      BY DEF AcksOK
    <2>1. CASE j = k
      BY <1>4, <1>5, <1>9, <2>1
    <2>2. CASE j # k
      <3>1. relay'[j] = relay[j] /\ sent[relay[j].now.record.row] > 0
        BY <1>4, <2>2 DEF AcksOK
      <3>2. relay[j].now.record.row \in Rows
        BY <1>4, <2>2, RelayFacts DEF Record
      <3> QED
        BY <1>15, <3>1, <3>2
    <2> QED
      BY <2>1, <2>2
  <1> QED
    BY <1>12, <1>13, <1>14, <1>16, <1>17

LEMMA ProceedFacts ==
    ASSUME OutboxTypeOK, NEW k \in Relays, NEW q \in {IdleRelay, [relay[k] EXCEPT !.now = NoRecord]},
           relay' = [relay EXCEPT ![k] = q]
    PROVE  /\ relay' \in [Relays -> [held: SUBSET Record, now: Publishing \cup {NoRecord}]]
           /\ \A j \in Relays : /\ relay'[j].held \subseteq relay[j].held
                                /\ relay'[j].now \in {relay[j].now, NoRecord}
  BY DEF OutboxTypeOK, IdleRelay

(* An outcome is written on the row of a claim that still stands, or       *)
(* confirms a row that is published already.                               *)
LEMMA OutcomeStep ==
    ASSUME IInv, NEW k \in Relays, NEW r \in Rows, NEW row \in Row,
           NEW q \in {IdleRelay, [relay[k] EXCEPT !.now = NoRecord]},
           relay' = [relay EXCEPT ![k] = q],
           outbox' = [outbox EXCEPT ![r] = row],
           row.attempts = outbox[r].attempts,
           \/ row = outbox[r]
           \/ row.state \in {"pending", "failed"} /\ row.claim = 0
           \/ row.state = "published" /\ row.claim = 0 /\ row.error = "none" /\ sent[r] > 0,
           attemptLog' \in [Rows -> SUBSET LogEntry],
           UNCHANGED <<sent, ready>>
    PROVE  IInv'
  <1> USE DEF IInv
  <1>1. \A p \in Rows : outbox'[p] = IF p = r THEN row ELSE outbox[p]
    BY DEF OutboxTypeOK
  <1>2. OutboxTypeOK'
    BY ProceedFacts DEF OutboxTypeOK
  <1>3. CopiesOK' /\ HeldOK'
    BY <1>1, ProceedFacts, HeldShrinks
  <1>4. AcksOK'
    BY ProceedFacts, AcksKept
  <1>5. RowsOK'
    BY <1>1 DEF RowsOK
  <1> QED
    BY <1>2, <1>3, <1>4, <1>5

(* The record whose outcome a relay knows.                                 *)
LEMMA NowFacts ==
    ASSUME OutboxTypeOK, NEW k \in Relays, relay[k].now # NoRecord
    PROVE  /\ relay[k].now.record.row \in Rows
           /\ relay[k].now.record.number \in 1..MaxPublishAttempts
           /\ outbox[relay[k].now.record.row] \in Row
           /\ attemptLog[relay[k].now.record.row] \in SUBSET LogEntry
  BY RelayFacts, RowFacts DEF Record

LEMMA AcknowledgeStep ==
    ASSUME IInv, NEW k \in Relays, Acknowledge(k)
    PROVE  /\ IInv'
           /\ sent[relay[k].now.record.row] > 0
  <1> USE DEF IInv
  <1> DEFINE record == relay[k].now.record
             r == record.row
             row == Unclaimed(outbox[r], "published", "none")
             q == [relay[k] EXCEPT !.now = NoRecord]
  <1>1. /\ r \in Rows /\ outbox[r] \in Row
        /\ record.number \in 1..MaxPublishAttempts /\ attemptLog[r] \in SUBSET LogEntry
    BY NowFacts DEF Acknowledge
  <1>2. sent[r] > 0
    BY DEF Acknowledge, Acknowledged, AcksOK
  <1>3. relay' = [relay EXCEPT ![k] = q] /\ UNCHANGED <<sent, ready>>
    BY DEF Acknowledge, Proceed
  <1>4. row \in Row /\ row.state = "published" /\ row.claim = 0 /\ row.error = "none"
        /\ row.attempts = outbox[r].attempts
    BY <1>1, UnclaimedRow
  <1>5. CASE /\ outbox' = [outbox EXCEPT ![r] = Unclaimed(@, "published", "none")]
             /\ attemptLog' = [attemptLog EXCEPT ![r] =
                    IF record.number \in Numbers(r) THEN @
                    ELSE @ \cup {[number |-> record.number, state |-> "acknowledged"]}]
    <2>1. outbox' = [outbox EXCEPT ![r] = row]
      BY <1>5
    <2>2. [number |-> record.number, state |-> "acknowledged"] \in LogEntry
      BY <1>1 DEF LogEntry
    <2>3. attemptLog' \in [Rows -> SUBSET LogEntry]
      BY <1>1, <1>5, <2>2 DEF OutboxTypeOK
    <2>4. q \in {IdleRelay, [relay[k] EXCEPT !.now = NoRecord]}
      OBVIOUS
    <2> HIDE DEF r, row, q
    <2>5. IInv'
      BY <1>1, <1>2, <1>3, <1>4, <2>1, <2>3, <2>4, OutcomeStep
    <2> QED
      BY <1>2, <2>5 DEF r, record
  <1>6. CASE UNCHANGED <<outbox, attemptLog>>
    <2>1. outbox' = [outbox EXCEPT ![r] = outbox[r]] /\ attemptLog' \in [Rows -> SUBSET LogEntry]
      BY <1>6 DEF OutboxTypeOK
    <2> QED
      BY <1>1, <1>2, <1>3, <2>1, OutcomeStep
  <1> QED
    BY <1>2, <1>5, <1>6 DEF Acknowledge

LEMMA AcknowledgeRaisesStep ==
    ASSUME IInv, NEW k \in Relays, AcknowledgeRaises(k)
    PROVE  IInv'
  <1> USE DEF IInv
  <1>1. /\ relay[k].now \in Publishing /\ relay[k].now # NoRecord
        /\ relay' = [relay EXCEPT ![k].now.outcome = "transient"]
        /\ UNCHANGED <<outbox, attemptLog, sent, ready>>
    BY RelayFacts DEF AcknowledgeRaises
  <1> DEFINE p == [relay[k].now EXCEPT !.outcome = "transient"]
  <1>2. p \in Publishing /\ p.outcome = "transient"
    BY <1>1 DEF Publishing, Outcome
  <1>3. /\ relay'[k].held = relay[k].held /\ relay'[k].now = p
        /\ \A j \in Relays : j # k => relay'[j] = relay[j]
        /\ relay' \in [Relays -> [held: SUBSET Record, now: Publishing \cup {NoRecord}]]
    <2>1. relay' = [relay EXCEPT ![k] = [relay[k] EXCEPT !.now = p]]
      BY <1>1
    <2> HIDE DEF p
    <2> QED
      BY <1>2, <2>1 DEF OutboxTypeOK
  <1>4. OutboxTypeOK'
    BY <1>1, <1>3 DEF OutboxTypeOK
  <1>5. CopiesOK' /\ HeldOK'
    BY <1>1, <1>3, HeldShrinks
  <1>6. RowsOK'
    BY <1>1 DEF RowsOK
  <1>7. AcksOK'
    BY <1>1, <1>2, <1>3 DEF AcksOK
  <1> QED
    BY <1>4, <1>5, <1>6, <1>7

LEMMA FailureStep ==
    ASSUME IInv, NEW k \in Relays, RecordFailure(k)
    PROVE  /\ IInv'
           /\ \A r \in Rows :
                 /\ outbox[r].state = "absent" <=> outbox'[r].state = "absent"
                 /\ outbox[r].state = "published" <=> outbox'[r].state = "published"
  <1> USE DEF IInv
  <1> DEFINE record == relay[k].now.record
             r == record.row
             class == FailureClass(relay[k].now.outcome)
             final == class = "permanent" \/ outbox[r].attempts >= MaxPublishAttempts
  <1>1. /\ r \in Rows /\ outbox[r] \in Row
        /\ record.number \in 1..MaxPublishAttempts /\ attemptLog[r] \in SUBSET LogEntry
    BY NowFacts DEF RecordFailure
  <1>2. UNCHANGED <<sent, ready>>
    BY DEF RecordFailure
  <1>3. CASE UNCHANGED <<outbox, attemptLog>> /\ (Proceed(k) \/ relay' = [relay EXCEPT ![k] = IdleRelay])
    <2>1. PICK q \in {IdleRelay, [relay[k] EXCEPT !.now = NoRecord]} : relay' = [relay EXCEPT ![k] = q]
      BY <1>3 DEF Proceed
    <2>2. outbox' = [outbox EXCEPT ![r] = outbox[r]] /\ attemptLog' \in [Rows -> SUBSET LogEntry]
      BY <1>3 DEF OutboxTypeOK
    <2>3. IInv'
      BY <1>1, <1>2, <2>1, <2>2, OutcomeStep
    <2> QED
      BY <1>3, <2>3
  <1>4. CASE /\ StillClaimed(record) /\ Proceed(k)
             /\ outbox' = [outbox EXCEPT ![r] =
                    [Unclaimed(@, IF final THEN "failed" ELSE "pending", class)
                       EXCEPT !.waiting = ~final]]
             /\ attemptLog' = [attemptLog EXCEPT ![r] =
                    @ \cup {[number |-> record.number, state |-> LogState(class)]}]
    <2> DEFINE state == IF final THEN "failed" ELSE "pending"
               u == Unclaimed(outbox[r], state, class)
               row == [u EXCEPT !.waiting = ~final]
               q == [relay[k] EXCEPT !.now = NoRecord]
    <2>1. state \in {"pending", "failed"} /\ class \in {"transient", "permanent"} /\ (~final) \in BOOLEAN
      BY DEF FailureClass
    <2>2. u \in Row /\ u.state = state /\ u.claim = 0 /\ u.attempts = outbox[r].attempts
      <3>1. state \in {"pending", "published", "failed"} /\ class \in {"none", "transient", "permanent"}
        BY <2>1
      <3> HIDE DEF state, class, r
      <3> QED
        BY <1>1, <3>1, UnclaimedRow
    <2>3. row \in Row /\ row.state \in {"pending", "failed"} /\ row.claim = 0
          /\ row.attempts = outbox[r].attempts
      <3> HIDE DEF u, final, state
      <3> QED
        BY <2>1, <2>2, WaitingRow
    <2>4. outbox[r].state = "publishing"
      <3>1. outbox[r].claim = record.number
        BY <1>4 DEF StillClaimed
      <3> QED
        BY <1>1, <3>1 DEF RowsOK
    <2>5. outbox' = [outbox EXCEPT ![r] = row] /\ relay' = [relay EXCEPT ![k] = q]
      BY <1>4 DEF Proceed
    <2>6. attemptLog' \in [Rows -> SUBSET LogEntry]
      <3>1. [number |-> record.number, state |-> LogState(class)] \in LogEntry
        BY <1>1 DEF LogEntry, LogState
      <3> HIDE DEF class
      <3> QED
        BY <1>1, <1>4, <3>1 DEF OutboxTypeOK
    <2>9. q \in {IdleRelay, [relay[k] EXCEPT !.now = NoRecord]}
      OBVIOUS
    <2> HIDE DEF r, row, class, q
    <2>7. IInv'
      BY <1>1, <1>2, <2>3, <2>5, <2>6, <2>9, OutcomeStep
    <2>8. \A p \in Rows : outbox'[p] = IF p = r THEN row ELSE outbox[p]
      BY <2>5 DEF OutboxTypeOK
    <2> QED
      BY <2>3, <2>4, <2>7, <2>8
  <1> QED
    BY <1>3, <1>4 DEF RecordFailure

-----------------------------------------------------------------------------

LEMMA NextPreserves ==
    ASSUME IInv, [OutboxNext]_outboxVars
    PROVE  IInv'
  <1>1. CASE UNCHANGED outboxVars
    <2> USE <1>1 DEF IInv, outboxVars
    <2>1. OutboxTypeOK'
      BY DEF OutboxTypeOK
    <2>2. CopiesOK' /\ HeldOK' /\ AcksOK'
      BY HeldShrinks, AcksKept
    <2>3. RowsOK'
      BY DEF RowsOK
    <2> QED
      BY <2>1, <2>2, <2>3
  <1>2. CASE OutboxNext
    BY <1>2, WorkStep, RecoverStep, ClaimStep, PublishStep, AcknowledgeStep, AcknowledgeRaisesStep,
       FailureStep, CrashStep, BackoffStep DEF OutboxNext, OutboxStep, RelayStep
  <1> QED
    BY <1>1, <1>2

(* The strengthened invariant is inductive.                                *)
THEOREM Inductive == OutboxSpec => []IInv
  BY Init, NextPreserves, PTL DEF OutboxSpec

(* Every variable keeps its type; in particular no message is sent more    *)
(* than MaxPublishAttempts times.                                          *)
THEOREM TypeCorrect == OutboxSpec => []OutboxTypeOK
  <1>1. IInv => OutboxTypeOK
    BY DEF IInv
  <1> QED
    BY <1>1, Inductive, PTL

-----------------------------------------------------------------------------
(* The refinement: every step of the outbox is one of DurableHandoff, or   *)
(* changes nothing of what it speaks of.                                   *)

Offered == {r \in Rows : outbox[r].state # "absent"}
Published == {r \in Rows : outbox[r].state = "published"}

LEMMA InitRefines == OutboxInit => Handoff!HandoffInit
  <1> SUFFICES ASSUME OutboxInit PROVE Handoff!HandoffInit
    OBVIOUS
  <1>1. \A r \in Rows : outbox[r].state # "published"
    BY FreshFacts DEF OutboxInit
  <1>2. sent = [r \in Rows |-> 0]
    BY DEF OutboxInit
  <1> QED
    BY <1>1, <1>2 DEF Handoff!HandoffInit

(* A step that sends nothing and publishes nothing offers at most.         *)
LEMMA OfferRefines ==
    ASSUME IInv, UNCHANGED <<sent, Published>>, Offered \subseteq Offered'
    PROVE  [Handoff!HandoffNext]_Handoff!handoffVars
  <1>1. Offered' \in SUBSET Rows /\ Offered' = Offered \cup Offered'
    BY DEF Offered
  <1>2. Handoff!Offer
    BY <1>1 DEF Handoff!Offer, Offered, Published
  <1> QED
    BY <1>2 DEF Handoff!HandoffNext

LEMMA PublishRefines ==
    ASSUME IInv, NEW k \in Relays, Publish(k)
    PROVE  [Handoff!HandoffNext]_Handoff!handoffVars
  <1>1. PICK record \in relay[k].held :
           sent' = [sent EXCEPT ![record.row] = @ + 1] \/ UNCHANGED sent
    BY DEF Publish
  <1>2. UNCHANGED outbox
    BY DEF Publish
  <1> DEFINE r == record.row
  <1>3. r \in Rows /\ record.number \in Held(r)
    BY HeldElements DEF IInv
  <1>4. Cardinality(Held(r)) \in Nat /\ Cardinality(Held(r)) > 0
    <2>1. Held(r) # {}
      BY <1>3
    <2> QED
      BY <1>3, <2>1, HeldFacts, FS_EmptySet
  <1>5. sent[r] < MaxPublishAttempts /\ outbox[r].attempts > 0
    BY <1>3, <1>4, RowFacts DEF IInv, CopiesOK
  <1>6. r \in Offered
    BY <1>3, <1>5 DEF Offered, IInv, CopiesOK
  <1>7. CASE sent' = [sent EXCEPT ![r] = @ + 1]
    BY <1>2, <1>3, <1>5, <1>6, <1>7 DEF Handoff!HandOver, Handoff!HandoffNext, Offered
  <1>8. CASE UNCHANGED sent
    BY <1>2, <1>8 DEF Handoff!handoffVars
  <1> QED
    BY <1>1, <1>7, <1>8

LEMMA AcknowledgeRefines ==
    ASSUME IInv, NEW k \in Relays, Acknowledge(k)
    PROVE  [Handoff!HandoffNext]_Handoff!handoffVars
  <1> DEFINE r == relay[k].now.record.row
  <1>1. r \in Rows /\ outbox[r] \in Row /\ sent[r] > 0
    BY NowFacts, AcknowledgeStep DEF Acknowledge, IInv
  <1>2. UNCHANGED sent
    BY DEF Acknowledge
  <1>3. CASE UNCHANGED outbox
    BY <1>2, <1>3 DEF Handoff!handoffVars
  <1>4. CASE outbox' = [outbox EXCEPT ![r] = Unclaimed(@, "published", "none")]
                 /\ (StillClaimed(relay[k].now.record) \/ outbox[r].state = "published")
    <2>1. Unclaimed(outbox[r], "published", "none").state = "published"
      BY <1>1, UnclaimedRow
    <2>2. outbox[r].state # "absent"
      <3>1. CASE outbox[r].claim = relay[k].now.record.number
        <4>1. relay[k].now.record.number \in 1..MaxPublishAttempts /\ RowsOK
          BY NowFacts DEF Acknowledge, IInv
        <4>2. outbox[r].claim # 0
          BY <3>1, <4>1
        <4> QED
          BY <1>1, <4>1, <4>2 DEF RowsOK
      <3>2. CASE outbox[r].state = "published"
        BY <3>2
      <3> QED
        BY <1>4, <3>1, <3>2 DEF StillClaimed
    <2>3. \A q \in Rows : outbox'[q].state = IF q = r THEN "published" ELSE outbox[q].state
      BY <1>1, <1>4, <2>1 DEF IInv, OutboxTypeOK
    <2>4. Offered' = Offered /\ Published' = Published \cup {r}
      BY <1>1, <2>2, <2>3 DEF Offered, Published
    <2> QED
      BY <1>1, <1>2, <2>4 DEF Handoff!Confirm, Handoff!HandoffNext, Offered, Published
  <1> QED
    BY <1>3, <1>4 DEF Acknowledge

LEMMA NextRefines ==
    ASSUME IInv, [OutboxNext]_outboxVars
    PROVE  [Handoff!HandoffNext]_Handoff!handoffVars
  <1> USE DEF IInv
  <1>1. CASE WorkChanges
    <2>1. PICK new \in SUBSET {r \in Rows : outbox[r].state = "absent"} :
             outbox' = [r \in Rows |-> IF r \in new THEN Fresh ELSE outbox[r]] /\ UNCHANGED sent
      BY <1>1 DEF WorkChanges, Insert
    <2>2. Published' = Published /\ Offered \subseteq Offered'
      BY <2>1, FreshFacts DEF Published, Offered
    <2> QED
      BY <2>1, <2>2, OfferRefines
  <1>2. CASE RecoverStaleClaims
    <2>1. UNCHANGED sent
      BY <1>2 DEF RecoverStaleClaims
    <2>2. ASSUME NEW r \in Rows
          PROVE  /\ outbox[r].state = "published" <=> outbox'[r].state = "published"
                 /\ outbox[r].state = "absent" <=> outbox'[r].state = "absent"
      <3>1. CASE outbox'[r] = outbox[r]
        BY <3>1
      <3>2. CASE Stale(r) /\ outbox'[r] = [Unclaimed(outbox[r], "pending", outbox[r].error) EXCEPT !.waiting = FALSE]
        <4> DEFINE u == Unclaimed(outbox[r], "pending", outbox[r].error)
        <4>1. outbox[r] \in Row /\ outbox[r].error \in {"none", "transient", "permanent"}
          BY RowFacts DEF Row
        <4>2. u \in Row /\ u.state = "pending"
          BY <4>1, UnclaimedRow
        <4>3. outbox'[r] = [u EXCEPT !.waiting = FALSE]
          BY <3>2
        <4> HIDE DEF u
        <4>4. outbox'[r].state = "pending"
          BY <4>2, <4>3, WaitingRow
        <4> QED
          BY <3>2, <4>4 DEF Stale
      <3> QED
        BY <1>2, <3>1, <3>2 DEF RecoverStaleClaims
    <2>3. Published' = Published /\ Offered' = Offered
      BY <2>2 DEF Published, Offered
    <2> QED
      BY <2>1, <2>3, OfferRefines
  <1>3. ASSUME NEW k \in Relays, ClaimDue(k)
        PROVE  [Handoff!HandoffNext]_Handoff!handoffVars
    <2>1. UNCHANGED sent
      BY <1>3 DEF ClaimDue
    <2>2. ASSUME NEW r \in Rows
          PROVE  /\ outbox[r].state = "published" <=> outbox'[r].state = "published"
                 /\ outbox[r].state = "absent" <=> outbox'[r].state = "absent"
      <3>1. CASE outbox'[r] = outbox[r]
        BY <3>1
      <3>2. CASE Due(r) /\ outbox'[r] = Claimed(outbox[r])
        <4>1. outbox[r].state \in {"pending", "failed"}
          BY <3>2 DEF Due
        <4>2. outbox'[r].state = "publishing"
          BY <3>2, ClaimedRow, RowFacts DEF Due
        <4> QED
          BY <4>1, <4>2
      <3> QED
        BY <1>3, <3>1, <3>2 DEF ClaimDue
    <2>3. Published' = Published /\ Offered' = Offered
      BY <2>2 DEF Published, Offered
    <2> QED
      BY <2>1, <2>3, OfferRefines
  <1>4. ASSUME NEW k \in Relays, RecordFailure(k)
        PROVE  [Handoff!HandoffNext]_Handoff!handoffVars
    <2>1. UNCHANGED sent
      BY <1>4 DEF RecordFailure
    <2>2. Published' = Published /\ Offered' = Offered
      BY <1>4, FailureStep DEF Published, Offered
    <2> QED
      BY <2>1, <2>2, OfferRefines
  <1>5. ASSUME NEW r \in Rows, BackoffEnds(r)
        PROVE  [Handoff!HandoffNext]_Handoff!handoffVars
    <2>1. \A q \in Rows : outbox'[q].state = outbox[q].state
      BY <1>5 DEF BackoffEnds, OutboxTypeOK, Row
    <2>2. Published' = Published /\ Offered' = Offered
      BY <2>1 DEF Published, Offered
    <2> QED
      BY <1>5, <2>2, OfferRefines DEF BackoffEnds
  <1>6. ASSUME NEW k \in Relays, AcknowledgeRaises(k) \/ CrashRelay(k)
        PROVE  [Handoff!HandoffNext]_Handoff!handoffVars
    BY <1>6 DEF AcknowledgeRaises, CrashRelay, Handoff!handoffVars
  <1>7. CASE UNCHANGED outboxVars
    BY <1>7 DEF outboxVars, Handoff!handoffVars
  <1> QED
    BY <1>1, <1>2, <1>3, <1>4, <1>5, <1>6, <1>7, PublishRefines, AcknowledgeRefines
       DEF OutboxNext, OutboxStep, RelayStep

(* The outbox implements what it promises its callers: committed intents   *)
(* stay, an intent is confirmed only after the broker took it and stays    *)
(* confirmed, and the broker gets at most MaxPublishAttempts copies.       *)
THEOREM HandoffPromiseKept == OutboxSpec => KeepsHandoffPromise
  <1>1. OutboxInit => Handoff!HandoffInit
    BY InitRefines
  <1>2. IInv /\ [OutboxNext]_outboxVars => [Handoff!HandoffNext]_Handoff!handoffVars
    BY NextRefines
  <1> QED
    BY <1>1, <1>2, Inductive, PTL DEF OutboxSpec, KeepsHandoffPromise, Handoff!HandoffSpec

-----------------------------------------------------------------------------

(* What LateRelayIsHarmless says of one relay.                             *)
Harmless(k) ==
    relay[k].now # NoRecord /\ relay'[k] # relay[k] =>
      LET record == relay[k].now.record
      IN outbox[record.row].claim # record.number => UNCHANGED outbox

LEMMA LateRelay ==
    ASSUME IInv, [OutboxNext]_outboxVars, NEW k \in Relays
    PROVE  Harmless(k)
  <1> USE DEF IInv
  <1> SUFFICES ASSUME relay[k].now # NoRecord, relay'[k] # relay[k],
                      outbox[relay[k].now.record.row].claim # relay[k].now.record.number
               PROVE  UNCHANGED outbox
    BY DEF Harmless
  <1> DEFINE record == relay[k].now.record
             r == record.row
  <1>1. r \in Rows /\ outbox[r] \in Row /\ ~ StillClaimed(record)
    BY NowFacts DEF StillClaimed
  <1>2. CASE Acknowledge(k)
    <2>1. CASE UNCHANGED outbox
      BY <2>1
    <2>2. CASE /\ outbox[r].state = "published"
               /\ outbox' = [outbox EXCEPT ![r] = Unclaimed(@, "published", "none")]
      <3>1. outbox[r].claim = 0 /\ outbox[r].error = "none"
        BY <1>1, <2>2 DEF RowsOK
      <3>2. Unclaimed(outbox[r], "published", "none") = outbox[r]
        BY <1>1, <2>2, <3>1 DEF Row, Unclaimed
      <3> QED
        BY <2>2, <3>2 DEF OutboxTypeOK
    <2> QED
      BY <1>1, <1>2, <2>1, <2>2 DEF Acknowledge
  <1>3. CASE RecordFailure(k)
    BY <1>1, <1>3 DEF RecordFailure
  <1>4. CASE AcknowledgeRaises(k) \/ CrashRelay(k)
    BY <1>4 DEF AcknowledgeRaises, CrashRelay
  <1>5. ~ Publish(k) /\ ~ ClaimDue(k)
    BY DEF Publish, ClaimDue, IdleRelay
  <1>6. ASSUME NEW j \in Relays, j # k, ClaimDue(j) \/ RelayStep(j) \/ CrashRelay(j)
        PROVE  FALSE
    <2>1. relay'[k] = relay[k]
      BY <1>6 DEF ClaimDue, RelayStep, Publish, Acknowledge, AcknowledgeRaises, RecordFailure,
                  CrashRelay, Proceed, OutboxTypeOK
    <2> QED
      BY <2>1
  <1>7. CASE WorkChanges \/ RecoverStaleClaims \/ (\E q \in Rows : BackoffEnds(q)) \/ UNCHANGED outboxVars
    BY <1>7 DEF WorkChanges, Insert, RecoverStaleClaims, BackoffEnds, outboxVars
  <1> QED
    BY <1>2, <1>3, <1>4, <1>5, <1>6, <1>7 DEF OutboxNext, OutboxStep, RelayStep

(* acknowledge, record_failure: a relay whose claim was taken back, or     *)
(* given to another, changes no row, whatever its broker answered.         *)
THEOREM LateRelayIsHarmlessHolds == OutboxSpec => LateRelayIsHarmless
  <1>1. IInv /\ [OutboxNext]_outboxVars => [\A k \in Relays : Harmless(k)]_outboxVars
    BY LateRelay
  <1> QED
    BY <1>1, Inductive, PTL DEF OutboxSpec, LateRelayIsHarmless, Harmless

-----------------------------------------------------------------------------
(* What claim_due has done for a record: it has logged the attempt, and    *)
(* counted it on the row.                                                  *)

ClaimsLogged == \A r \in Rows : outbox[r].state = "publishing" => outbox[r].claim \in Numbers(r)

RecordsCounted ==
    \A k \in Relays :
        relay[k].now # NoRecord =>
            relay[k].now.record.number <= outbox[relay[k].now.record.row].attempts

RecordsOK == ClaimsLogged /\ RecordsCounted

(* A step by which no row becomes publishing and no relay turns to another *)
(* record.                                                                 *)
LEMMA RecordsStay ==
    ASSUME IInv, RecordsOK,
           \A r \in Rows :
              /\ outbox'[r].attempts = outbox[r].attempts
              /\ attemptLog[r] \subseteq attemptLog'[r]
              /\ outbox'[r].state = "publishing" =>
                    outbox[r].state = "publishing" /\ outbox'[r].claim = outbox[r].claim,
           \A k \in Relays : relay'[k].now # NoRecord =>
              relay[k].now # NoRecord /\ relay'[k].now.record = relay[k].now.record
    PROVE  RecordsOK'
  <1>1. ClaimsLogged'
    BY DEF RecordsOK, ClaimsLogged, Numbers
  <1>2. ASSUME NEW k \in Relays, relay'[k].now # NoRecord
        PROVE  relay'[k].now.record.number <= outbox'[relay'[k].now.record.row].attempts
    <2>1. relay[k].now # NoRecord /\ relay'[k].now.record = relay[k].now.record
      BY <1>2
    <2>2. relay[k].now.record.row \in Rows
      BY <2>1, NowFacts DEF IInv
    <2> QED
      BY <2>1, <2>2 DEF RecordsOK, RecordsCounted
  <1> QED
    BY <1>1, <1>2 DEF RecordsOK, RecordsCounted

LEMMA RecordsKept ==
    ASSUME IInv, RecordsOK, [OutboxNext]_outboxVars
    PROVE  RecordsOK'
  <1>0. OutboxTypeOK /\ DOMAIN outbox = Rows /\ DOMAIN relay = Relays /\ DOMAIN attemptLog = Rows
    BY DEF IInv, OutboxTypeOK
  <1>1. CASE UNCHANGED outboxVars
    BY <1>1, RecordsStay DEF outboxVars
  <1>2. CASE WorkChanges
    <2>1. PICK new \in SUBSET {r \in Rows : outbox[r].state = "absent"} : Insert(new)
      BY <1>2 DEF WorkChanges
    <2>2. \A r \in Rows : outbox'[r] = IF r \in new THEN Fresh ELSE outbox[r]
      BY <2>1 DEF Insert
    <2>3. \A r \in Rows :
             /\ outbox'[r].attempts = outbox[r].attempts
             /\ outbox'[r].state = "publishing" =>
                   outbox[r].state = "publishing" /\ outbox'[r].claim = outbox[r].claim
      BY <2>1, <2>2, FreshFacts DEF IInv, CopiesOK
    <2> QED
      BY <2>1, <2>3, RecordsStay DEF Insert
  <1>3. CASE RecoverStaleClaims
    <2>1. PICK stale \in SUBSET {r \in Rows : Stale(r)} :
             outbox' = [r \in Rows |->
                 IF r \notin stale THEN outbox[r]
                 ELSE [Unclaimed(outbox[r], "pending", outbox[r].error) EXCEPT !.waiting = FALSE]]
      BY <1>3 DEF RecoverStaleClaims
    <2>2. ASSUME NEW r \in Rows
          PROVE  /\ outbox'[r].attempts = outbox[r].attempts
                 /\ outbox'[r].state = "publishing" =>
                       outbox[r].state = "publishing" /\ outbox'[r].claim = outbox[r].claim
      <3>1. CASE r \notin stale
        BY <2>1, <3>1
      <3>2. CASE r \in stale
        <4> PICK row : row = Unclaimed(outbox[r], "pending", outbox[r].error)
          OBVIOUS
        <4>1. outbox[r] \in Row /\ outbox[r].error \in {"none", "transient", "permanent"}
          BY <1>0, RowFacts DEF Row
        <4>2. row \in Row /\ row.state = "pending" /\ row.attempts = outbox[r].attempts
          BY <4>1, UnclaimedRow
        <4>3. outbox'[r] = [row EXCEPT !.waiting = FALSE]
          BY <2>1, <3>2
        <4> QED
          BY <4>2, <4>3, WaitingRow
      <3> QED
        BY <3>1, <3>2
    <2> QED
      BY <1>3, <2>2, RecordsStay DEF RecoverStaleClaims
  <1>4. ASSUME NEW k \in Relays, ClaimDue(k) PROVE RecordsOK'
    <2>1. PICK batch \in SUBSET {r \in Rows : Due(r)} :
            /\ outbox' = [r \in Rows |-> IF r \notin batch THEN outbox[r] ELSE Claimed(outbox[r])]
            /\ attemptLog' = [r \in Rows |->
                   IF r \notin batch THEN attemptLog[r]
                   ELSE attemptLog[r] \cup {[number |-> outbox[r].attempts + 1, state |-> "attempted"]}]
            /\ relay' = [relay EXCEPT ![k].held =
                   {[row |-> r, number |-> outbox[r].attempts + 1] : r \in batch}]
      BY <1>4 DEF ClaimDue
    <2>2. ASSUME NEW r \in batch
          PROVE  /\ r \in Rows /\ outbox'[r].attempts = outbox[r].attempts + 1
                 /\ outbox'[r].claim = outbox[r].attempts + 1
                 /\ outbox'[r].claim \in Numbers(r)'
      <3>1. r \in Rows /\ outbox[r] \in Row /\ outbox'[r] = Claimed(outbox[r])
        BY <1>0, <2>1, RowFacts
      <3>2. /\ outbox'[r].attempts = outbox[r].attempts + 1
            /\ outbox'[r].claim = outbox[r].attempts + 1
        BY <3>1 DEF Claimed, Row
      <3>3. [number |-> outbox[r].attempts + 1, state |-> "attempted"] \in attemptLog'[r]
        BY <2>1, <3>1
      <3> QED
        BY <3>1, <3>2, <3>3 DEF Numbers
    <2>3. \A r \in Rows \ batch : outbox'[r] = outbox[r] /\ attemptLog'[r] = attemptLog[r]
      BY <2>1
    <2>4. ClaimsLogged'
      <3> SUFFICES ASSUME NEW r \in Rows, outbox'[r].state = "publishing"
                   PROVE  outbox'[r].claim \in Numbers(r)'
        BY DEF ClaimsLogged
      <3>1. CASE r \in batch
        BY <2>2, <3>1
      <3>2. CASE r \notin batch
        BY <2>3, <3>2 DEF RecordsOK, ClaimsLogged, Numbers
      <3> QED
        BY <3>1, <3>2
    <2>5. \A j \in Relays : relay'[j].now = relay[j].now
      BY <1>0, <2>1
    <2>6. \A r \in Rows : outbox[r].attempts \in Int /\ outbox[r].attempts <= outbox'[r].attempts
      BY <1>0, <2>2, <2>3, RowFacts
    <2>7. ASSUME NEW j \in Relays, relay'[j].now # NoRecord
          PROVE  relay'[j].now.record.number <= outbox'[relay'[j].now.record.row].attempts
      <3>1. /\ relay[j].now.record.row \in Rows
            /\ relay[j].now.record.number \in 1..MaxPublishAttempts
        BY <1>0, <2>5, <2>7, NowFacts
      <3>2. relay[j].now.record.number <= outbox[relay[j].now.record.row].attempts
        BY <2>5, <2>7 DEF RecordsOK, RecordsCounted
      <3>3. outbox'[relay[j].now.record.row].attempts \in Int
        BY <1>0, <2>2, <2>3, <3>1, RowFacts
      <3> QED
        BY <2>5, <2>6, <3>1, <3>2, <3>3
    <2> QED
      BY <2>4, <2>7 DEF RecordsOK, RecordsCounted
  <1>5. ASSUME NEW k \in Relays, Publish(k) PROVE RecordsOK'
    <2>1. PICK record \in relay[k].held, outcome \in Outcome :
            relay' = [relay EXCEPT ![k] = [held |-> relay[k].held \ {record},
                                           now |-> [record |-> record, outcome |-> outcome]]]
      BY <1>5 DEF Publish
    <2>2. UNCHANGED <<outbox, attemptLog>>
      BY <1>5 DEF Publish
    <2>3. /\ record.row \in Rows /\ record.number \in Held(record.row)
      BY <1>0, HeldElements
    <2>4. record.number <= outbox[record.row].attempts
      BY <1>0, <2>3, RowFacts DEF IInv, CopiesOK
    <2>5. relay'[k].now.record = record /\ \A j \in Relays \ {k} : relay'[j] = relay[j]
      BY <1>0, <2>1
    <2> QED
      BY <2>2, <2>4, <2>5 DEF RecordsOK, ClaimsLogged, RecordsCounted, Numbers
  <1>6. ASSUME NEW k \in Relays, Acknowledge(k) PROVE RecordsOK'
    <2> DEFINE record == relay[k].now.record
               r == record.row
               row == Unclaimed(outbox[r], "published", "none")
    <2>1. r \in Rows /\ outbox[r] \in Row
      BY <1>0, <1>6, NowFacts DEF Acknowledge
    <2>2. row.state = "published" /\ row.attempts = outbox[r].attempts
      BY <2>1, UnclaimedRow
    <2>3. relay' = [relay EXCEPT ![k].now = NoRecord]
      BY <1>6 DEF Acknowledge, Proceed
    <2>4. outbox' = outbox \/ outbox' = [outbox EXCEPT ![r] = row]
      BY <1>6 DEF Acknowledge
    <2>5. \A x \in Rows : attemptLog[x] \subseteq attemptLog'[x]
      BY <1>0, <1>6 DEF Acknowledge
    <2>6. \A x \in Rows : outbox'[x] = outbox[x] \/ (x = r /\ outbox'[x] = row)
      BY <1>0, <2>4
    <2>7. \A j \in Relays : relay'[j].now \in {relay[j].now, NoRecord}
      BY <1>0, <2>3
    <2> HIDE DEF record, r, row
    <2> QED
      BY <2>2, <2>5, <2>6, <2>7, RecordsStay
  <1>7. ASSUME NEW k \in Relays, AcknowledgeRaises(k) PROVE RecordsOK'
    <2>1. relay[k].now \in Publishing /\ relay[k].now # NoRecord
      BY <1>0, <1>7, RelayFacts DEF AcknowledgeRaises
    <2>2. UNCHANGED <<outbox, attemptLog>> /\ relay' = [relay EXCEPT ![k].now.outcome = "transient"]
      BY <1>7 DEF AcknowledgeRaises
    <2>3. relay'[k].now.record = relay[k].now.record
      BY <1>0, <2>1, <2>2 DEF Publishing, OutboxTypeOK
    <2>4. \A j \in Relays \ {k} : relay'[j] = relay[j]
      BY <1>0, <2>2
    <2> QED
      BY <2>1, <2>2, <2>3, <2>4, RecordsStay
  <1>8. ASSUME NEW k \in Relays, RecordFailure(k) PROVE RecordsOK'
    <2> DEFINE record == relay[k].now.record
               r == record.row
               class == FailureClass(relay[k].now.outcome)
               final == class = "permanent" \/ outbox[r].attempts >= MaxPublishAttempts
               state == IF final THEN "failed" ELSE "pending"
               u == Unclaimed(outbox[r], state, class)
               row == [u EXCEPT !.waiting = ~final]
    <2>1. r \in Rows /\ outbox[r] \in Row
      BY <1>0, <1>8, NowFacts DEF RecordFailure
    <2>2. row.state # "publishing" /\ row.attempts = outbox[r].attempts
      <3>1. state \in {"pending", "published", "failed"} /\ class \in {"none", "transient", "permanent"}
        BY DEF FailureClass
      <3>2. u \in Row /\ u.state = state /\ u.attempts = outbox[r].attempts
        <4> HIDE DEF state, class, r
        <4> QED
          BY <2>1, <3>1, UnclaimedRow
      <3>3. (~final) \in BOOLEAN /\ state # "publishing"
        OBVIOUS
      <3> HIDE DEF u, final, state
      <3> QED
        BY <3>2, <3>3, WaitingRow
    <2>3. relay' = [relay EXCEPT ![k].now = NoRecord] \/ relay' = [relay EXCEPT ![k] = IdleRelay]
      BY <1>8 DEF RecordFailure, Proceed
    <2>4. outbox' = outbox \/ outbox' = [outbox EXCEPT ![r] = row]
      BY <1>8 DEF RecordFailure
    <2>5. \A x \in Rows : attemptLog[x] \subseteq attemptLog'[x]
      BY <1>0, <1>8 DEF RecordFailure
    <2> HIDE DEF record, r, row
    <2>6. \A x \in Rows : outbox'[x] = outbox[x] \/ (x = r /\ outbox'[x] = row)
      BY <1>0, <2>4
    <2>7. \A j \in Relays : relay'[j].now \in {relay[j].now, NoRecord}
      <3>1. CASE relay' = [relay EXCEPT ![k].now = NoRecord]
        BY <1>0, <3>1
      <3>2. CASE relay' = [relay EXCEPT ![k] = IdleRelay]
        BY <1>0, <3>2 DEF IdleRelay
      <3> QED
        BY <2>3, <3>1, <3>2
    <2> QED
      BY <2>2, <2>5, <2>6, <2>7, RecordsStay
  <1>9. ASSUME NEW k \in Relays, CrashRelay(k) PROVE RecordsOK'
    <2>1. UNCHANGED <<outbox, attemptLog>> /\ relay' = [relay EXCEPT ![k] = IdleRelay]
      BY <1>9 DEF CrashRelay
    <2>2. \A j \in Relays : relay'[j].now \in {relay[j].now, NoRecord}
      BY <1>0, <2>1 DEF IdleRelay
    <2> QED
      BY <2>1, <2>2, RecordsStay
  <1>10. ASSUME NEW r \in Rows, BackoffEnds(r) PROVE RecordsOK'
    <2>1. UNCHANGED <<attemptLog, relay>> /\ outbox' = [outbox EXCEPT ![r].waiting = FALSE]
      BY <1>10 DEF BackoffEnds
    <2>2. \A x \in Rows : /\ outbox'[x].attempts = outbox[x].attempts
                          /\ outbox'[x].state = outbox[x].state /\ outbox'[x].claim = outbox[x].claim
      BY <1>0, <2>1, RowFacts DEF Row
    <2> QED
      BY <2>1, <2>2, RecordsStay
  <1> QED
    BY <1>1, <1>2, <1>3, <1>4, <1>5, <1>6, <1>7, <1>8, <1>9, <1>10
       DEF OutboxNext, OutboxStep, RelayStep

(* A row being published has its attempt logged, and a relay publishes no  *)
(* record of an attempt its row has not counted.                           *)
THEOREM RecordsAreKept == OutboxSpec => []RecordsOK
  <1>1. OutboxInit => RecordsOK
    <2> SUFFICES ASSUME OutboxInit PROVE RecordsOK
      OBVIOUS
    <2>1. \A k \in Relays : relay[k].now = NoRecord
      BY DEF OutboxInit, IdleRelay
    <2>2. \A r \in Rows : outbox[r].state # "publishing"
      BY FreshFacts DEF OutboxInit
    <2> QED
      BY <2>1, <2>2 DEF RecordsOK, ClaimsLogged, RecordsCounted
  <1>2. IInv /\ RecordsOK /\ [OutboxNext]_outboxVars => RecordsOK'
    BY RecordsKept
  <1> QED
    BY <1>1, <1>2, Inductive, PTL DEF OutboxSpec

-----------------------------------------------------------------------------
(* A row that will still make a relay send its message goes on to, until a *)
(* copy is sent or its attempts are used up.                               *)

(* The relays about to confirm the row.                                    *)
Confirming(r) ==
    {k \in Relays : /\ relay[k].now # NoRecord
                    /\ relay[k].now.outcome = "acknowledged"
                    /\ relay[k].now.record.row = r
                    /\ relay[k].now.record.number = outbox[r].claim}

Offering(r) ==
    \/ outbox[r].state = "pending" /\ outbox[r].attempts < MaxPublishAttempts
    \/ outbox[r].state = "publishing" /\ Confirming(r) = {}

GivenUp(r) == outbox[r].state = "pending" /\ outbox[r].attempts = MaxPublishAttempts

(* No relay turns to another record or is newly acknowledged.              *)
LEMMA OfferingStays ==
    ASSUME NEW r \in Rows,
           outbox'[r].state = outbox[r].state, outbox'[r].attempts = outbox[r].attempts,
           outbox'[r].claim = outbox[r].claim,
           \A k \in Relays : relay'[k].now # NoRecord =>
              /\ relay[k].now # NoRecord /\ relay'[k].now.record = relay[k].now.record
              /\ relay'[k].now.outcome = "acknowledged" => relay[k].now.outcome = "acknowledged"
    PROVE  (Offering(r) => Offering(r)') /\ (GivenUp(r) => GivenUp(r)')
  <1>1. Confirming(r)' \subseteq Confirming(r)
    BY DEF Confirming
  <1> QED
    BY <1>1 DEF Offering, GivenUp

LEMMA OfferingLasts ==
    ASSUME IInv, RecordsOK, AttemptNumberUnique, [OutboxNext]_outboxVars, NEW r \in Rows
    PROVE  /\ Offering(r) => Offering(r)' \/ GivenUp(r)' \/ sent'[r] > sent[r]
           /\ GivenUp(r) => GivenUp(r)'
  <1>0. /\ OutboxTypeOK /\ DOMAIN outbox = Rows /\ DOMAIN relay = Relays /\ DOMAIN sent = Rows
        /\ outbox[r] \in Row
        /\ outbox[r].attempts \in Nat /\ outbox[r].attempts <= MaxPublishAttempts
        /\ sent[r] \in Nat /\ MaxPublishAttempts \in Nat
    BY RowFacts DEF IInv, OutboxTypeOK
  <1>1. CASE UNCHANGED outboxVars
    BY <1>1, OfferingStays DEF outboxVars
  <1>2. CASE WorkChanges
    <2>1. PICK new \in SUBSET {x \in Rows : outbox[x].state = "absent"} : Insert(new)
      BY <1>2 DEF WorkChanges
    <2>2. CASE r \in new
      BY <2>1, <2>2 DEF Offering, GivenUp
    <2>3. CASE r \notin new
      <3>1. outbox'[r] = outbox[r] /\ relay' = relay
        BY <2>1, <2>3 DEF Insert
      <3> QED
        BY <3>1, OfferingStays
    <2> QED
      BY <2>2, <2>3
  <1>3. CASE RecoverStaleClaims
    <2>1. PICK stale \in SUBSET {x \in Rows : Stale(x)} :
             outbox' = [x \in Rows |->
                 IF x \notin stale THEN outbox[x]
                 ELSE [Unclaimed(outbox[x], "pending", outbox[x].error) EXCEPT !.waiting = FALSE]]
      BY <1>3 DEF RecoverStaleClaims
    <2>2. CASE r \notin stale
      <3>1. outbox'[r] = outbox[r] /\ relay' = relay
        BY <1>3, <2>1, <2>2 DEF RecoverStaleClaims
      <3> QED
        BY <3>1, OfferingStays
    <2>3. CASE r \in stale
      <3> PICK row : row = Unclaimed(outbox[r], "pending", outbox[r].error)
        OBVIOUS
      <3>1. outbox[r].error \in {"none", "transient", "permanent"}
        BY <1>0 DEF Row
      <3>2. row \in Row /\ row.state = "pending" /\ row.attempts = outbox[r].attempts
        BY <1>0, <3>1, UnclaimedRow
      <3>3. outbox'[r] = [row EXCEPT !.waiting = FALSE]
        BY <2>1, <2>3
      <3>4. outbox'[r].state = "pending" /\ outbox'[r].attempts = outbox[r].attempts
        BY <3>2, <3>3, WaitingRow
      <3>5. outbox[r].state = "publishing"
        BY <2>3 DEF Stale
      <3> QED
        BY <1>0, <3>4, <3>5 DEF Offering, GivenUp
    <2> QED
      BY <2>2, <2>3
  <1>4. ASSUME NEW k \in Relays, ClaimDue(k)
        PROVE  /\ Offering(r) => Offering(r)'
               /\ GivenUp(r) => GivenUp(r)'
    <2>1. PICK batch \in SUBSET {x \in Rows : Due(x)} :
            /\ outbox' = [x \in Rows |-> IF x \notin batch THEN outbox[x] ELSE Claimed(outbox[x])]
            /\ relay' = [relay EXCEPT ![k].held =
                   {[row |-> x, number |-> outbox[x].attempts + 1] : x \in batch}]
      BY <1>4 DEF ClaimDue
    <2>2. \A j \in Relays : relay'[j].now = relay[j].now
      BY <1>0, <2>1
    <2>3. CASE r \notin batch
      <3>1. outbox'[r] = outbox[r]
        BY <2>1, <2>3
      <3> QED
        BY <2>2, <3>1, OfferingStays
    <2>4. CASE r \in batch
      <3>1. outbox[r].attempts < MaxPublishAttempts /\ outbox'[r] = Claimed(outbox[r])
        BY <2>1, <2>4 DEF Due
      <3>2. outbox'[r].state = "publishing" /\ outbox'[r].claim = outbox[r].attempts + 1
        BY <1>0, <3>1 DEF Claimed, Row
      <3>3. ASSUME NEW j \in Relays, relay[j].now # NoRecord, relay[j].now.record.row = r
            PROVE  relay[j].now.record.number # outbox[r].attempts + 1
        <4>1. relay[j].now.record.number \in 1..MaxPublishAttempts
          BY <1>0, <3>3, NowFacts
        <4>2. relay[j].now.record.number <= outbox[r].attempts
          BY <3>3 DEF RecordsOK, RecordsCounted
        <4> QED
          BY <1>0, <4>1, <4>2
      <3>4. Confirming(r)' = {}
        BY <2>2, <3>2, <3>3 DEF Confirming
      <3> QED
        BY <1>0, <3>1, <3>2, <3>4 DEF Offering, GivenUp
    <2> QED
      BY <2>3, <2>4
  <1>5. ASSUME NEW k \in Relays, Publish(k)
        PROVE  /\ Offering(r) => Offering(r)' \/ sent'[r] > sent[r]
               /\ GivenUp(r) => GivenUp(r)'
    <2>1. PICK record \in relay[k].held, outcome \in Outcome :
            /\ relay' = [relay EXCEPT ![k] = [held |-> relay[k].held \ {record},
                                              now |-> [record |-> record, outcome |-> outcome]]]
            /\ \/ sent' = [sent EXCEPT ![record.row] = @ + 1]
               \/ outcome # "acknowledged" /\ UNCHANGED sent
      BY <1>5 DEF Publish
    <2>2. outbox' = outbox
      BY <1>5 DEF Publish
    <2>3. /\ relay'[k].now.record = record /\ relay'[k].now.outcome = outcome
          /\ \A j \in Relays \ {k} : relay'[j] = relay[j]
      BY <1>0, <2>1
    <2>4. CASE outcome = "acknowledged" /\ record.row = r
      BY <1>0, <2>1, <2>2, <2>4 DEF GivenUp
    <2>5. CASE ~ (outcome = "acknowledged" /\ record.row = r)
      <3>1. Confirming(r)' \subseteq Confirming(r)
        BY <2>2, <2>3, <2>5 DEF Confirming
      <3> QED
        BY <2>2, <3>1 DEF Offering, GivenUp
    <2> QED
      BY <2>4, <2>5
  <1>6. ASSUME NEW k \in Relays, Acknowledge(k)
        PROVE  /\ Offering(r) => Offering(r)'
               /\ GivenUp(r) => GivenUp(r)'
    <2> DEFINE record == relay[k].now.record
    <2>1. /\ record.row \in Rows /\ record.number \in 1..MaxPublishAttempts
          /\ relay[k].now # NoRecord /\ relay[k].now.outcome = "acknowledged"
      BY <1>0, <1>6, NowFacts DEF Acknowledge, Acknowledged
    <2>2. relay' = [relay EXCEPT ![k].now = NoRecord]
      BY <1>6 DEF Acknowledge, Proceed
    <2>3. \A j \in Relays : relay'[j].now \in {relay[j].now, NoRecord}
      BY <1>0, <2>2
    <2>4. CASE outbox'[r] = outbox[r]
      BY <2>3, <2>4, OfferingStays
    <2>5. CASE outbox'[r] # outbox[r]
      <3>1. /\ StillClaimed(record) \/ outbox[record.row].state = "published"
            /\ outbox' = [outbox EXCEPT ![record.row] = Unclaimed(@, "published", "none")]
        BY <1>6, <2>5 DEF Acknowledge
      <3>2. record.row = r
        BY <1>0, <2>5, <3>1
      <3>3. outbox[r].state \in {"pending", "publishing"} => outbox[r].claim = record.number
        BY <3>1, <3>2 DEF StillClaimed
      <3>4. outbox[r].state # "pending"
        BY <2>1, <3>3 DEF IInv, RowsOK
      <3>5. outbox[r].state = "publishing" => k \in Confirming(r)
        BY <2>1, <3>2, <3>3 DEF Confirming
      <3> QED
        BY <3>4, <3>5 DEF Offering, GivenUp
    <2> QED
      BY <2>4, <2>5
  <1>7. ASSUME NEW k \in Relays, AcknowledgeRaises(k)
        PROVE  /\ Offering(r) => Offering(r)'
               /\ GivenUp(r) => GivenUp(r)'
    <2>1. relay[k].now \in Publishing /\ relay[k].now # NoRecord
      BY <1>0, <1>7, RelayFacts DEF AcknowledgeRaises
    <2>2. outbox' = outbox /\ relay' = [relay EXCEPT ![k].now.outcome = "transient"]
      BY <1>7 DEF AcknowledgeRaises
    <2>3. relay'[k].now.record = relay[k].now.record /\ relay'[k].now.outcome = "transient"
      BY <1>0, <2>1, <2>2 DEF Publishing, OutboxTypeOK
    <2>4. \A j \in Relays \ {k} : relay'[j] = relay[j]
      BY <1>0, <2>2
    <2> QED
      BY <2>1, <2>2, <2>3, <2>4, OfferingStays
  <1>8. ASSUME NEW k \in Relays, RecordFailure(k)
        PROVE  /\ Offering(r) => Offering(r)'
               /\ GivenUp(r) => GivenUp(r)'
    <2> DEFINE record == relay[k].now.record
    <2>1. record.row \in Rows /\ record.number \in 1..MaxPublishAttempts
      BY <1>0, <1>8, NowFacts DEF RecordFailure
    <2>2. StillClaimed(record) => record.number \in Numbers(record.row)
      <3> SUFFICES ASSUME StillClaimed(record) PROVE record.number \in Numbers(record.row)
        OBVIOUS
      <3>1. outbox[record.row].claim = record.number /\ outbox[record.row].state = "publishing"
        BY <2>1 DEF StillClaimed, IInv, RowsOK
      <3> QED
        BY <2>1, <3>1 DEF RecordsOK, ClaimsLogged
    <2>3. /\ outbox' = outbox
          /\ relay' = [relay EXCEPT ![k].now = NoRecord] \/ relay' = [relay EXCEPT ![k] = IdleRelay]
      BY <1>8, <2>2 DEF RecordFailure, Proceed
    <2>4. \A j \in Relays : relay'[j].now \in {relay[j].now, NoRecord}
      <3>1. CASE relay' = [relay EXCEPT ![k].now = NoRecord]
        BY <1>0, <3>1
      <3>2. CASE relay' = [relay EXCEPT ![k] = IdleRelay]
        BY <1>0, <3>2 DEF IdleRelay
      <3> QED
        BY <2>3, <3>1, <3>2
    <2> QED
      BY <2>3, <2>4, OfferingStays
  <1>9. ASSUME NEW k \in Relays, CrashRelay(k)
        PROVE  /\ Offering(r) => Offering(r)'
               /\ GivenUp(r) => GivenUp(r)'
    <2>1. outbox' = outbox /\ relay' = [relay EXCEPT ![k] = IdleRelay]
      BY <1>9 DEF CrashRelay
    <2>2. \A j \in Relays : relay'[j].now \in {relay[j].now, NoRecord}
      BY <1>0, <2>1 DEF IdleRelay
    <2> QED
      BY <2>1, <2>2, OfferingStays
  <1>10. ASSUME NEW x \in Rows, BackoffEnds(x)
         PROVE  /\ Offering(r) => Offering(r)'
                /\ GivenUp(r) => GivenUp(r)'
    <2>1. relay' = relay /\ outbox' = [outbox EXCEPT ![x].waiting = FALSE]
      BY <1>10 DEF BackoffEnds
    <2>2. /\ outbox'[r].attempts = outbox[r].attempts
          /\ outbox'[r].state = outbox[r].state /\ outbox'[r].claim = outbox[r].claim
      BY <1>0, <2>1 DEF Row
    <2> QED
      BY <2>1, <2>2, OfferingStays
  <1> QED
    BY <1>1, <1>2, <1>3, <1>4, <1>5, <1>6, <1>7, <1>8, <1>9, <1>10
       DEF OutboxNext, OutboxStep, RelayStep

(* What is promised of one row and one step: copies are only added, rows   *)
(* stay.                                                                   *)
LEMMA RowsStay ==
    ASSUME IInv, [OutboxNext]_outboxVars, NEW r \in Rows
    PROVE  /\ sent'[r] >= sent[r]
           /\ outbox[r].state # "absent" => outbox'[r].state # "absent"
  <1>1. [Handoff!HandoffNext]_Handoff!handoffVars
    BY NextRefines
  <1>2. sent \in [Rows -> Nat] /\ sent[r] \in Nat
    BY RowFacts DEF IInv, OutboxTypeOK
  <1>3. Offered \subseteq Offered'
    BY <1>1 DEF Handoff!HandoffNext, Handoff!handoffVars, Handoff!Offer, Handoff!HandOver,
                Handoff!Confirm, Offered
  <1>4. CASE sent' = sent
    BY <1>2, <1>3, <1>4 DEF Offered
  <1>5. ASSUME NEW x \in Rows, sent' = [sent EXCEPT ![x] = @ + 1]
        PROVE  sent'[r] >= sent[r]
    BY <1>2, <1>5
  <1> QED
    BY <1>1, <1>3, <1>4, <1>5
       DEF Handoff!HandoffNext, Handoff!handoffVars, Handoff!Offer, Handoff!HandOver,
           Handoff!Confirm, Offered

(* Only the transactions of the work insert rows.                          *)
LEMMA RelaysInsertNothing ==
    ASSUME IInv, OutboxStep, NEW r \in Rows, outbox[r].state = "absent"
    PROVE  outbox'[r].state = "absent"
  <1>0. OutboxTypeOK /\ outbox \in [Rows -> Row] /\ outbox[r].claim = 0 /\ outbox[r] \in Row
    BY RowFacts DEF IInv, OutboxTypeOK, RowsOK
  <1>1. CASE RecoverStaleClaims
    <2>1. ~ Stale(r)
      BY DEF Stale
    <2> QED
      BY <1>1, <2>1 DEF RecoverStaleClaims
  <1>2. ASSUME NEW k \in Relays, ClaimDue(k) PROVE outbox'[r].state = "absent"
    <2>1. ~ Due(r)
      BY DEF Due
    <2> QED
      BY <1>2, <2>1 DEF ClaimDue
  <1>3. ASSUME NEW k \in Relays, relay[k].now # NoRecord, relay[k].now.record.row = r
        PROVE  ~ StillClaimed(relay[k].now.record)
    BY <1>0, <1>3, NowFacts DEF StillClaimed
  <1>4. ASSUME NEW k \in Relays, Acknowledge(k) PROVE outbox'[r].state = "absent"
    BY <1>0, <1>3, <1>4 DEF Acknowledge
  <1>5. ASSUME NEW k \in Relays, RecordFailure(k) PROVE outbox'[r].state = "absent"
    BY <1>0, <1>3, <1>5 DEF RecordFailure
  <1>6. ASSUME NEW x \in Rows, BackoffEnds(x) PROVE outbox'[r].state = "absent"
    BY <1>0, <1>6 DEF BackoffEnds, Row
  <1> QED
    BY <1>1, <1>2, <1>4, <1>5, <1>6 DEF OutboxStep, RelayStep, Publish, AcknowledgeRaises, CrashRelay
=============================================================================
