---------------------- MODULE DocumentKnowledgeProofs -----------------------
(***************************************************************************)
(* Proofs about the two stores of documents: DocumentRecords for every set *)
(* of documents, clients and grants, and KnowledgeCatalogue for any number *)
(* of ingestions, jobs, administrators and texts, for every bound of each. *)
(* The two share no state; neither part uses the other.                    *)
(***************************************************************************)
EXTENDS DocumentRecords, KnowledgeCatalogue, TLAPS, SequenceTheorems

-----------------------------------------------------------------------------
(***************************************************************************)
(* DocumentRecords.                                                        *)
(***************************************************************************)

(* The documents a grant has been approved for and is on evidence as used. *)
Released == {d \in Documents : \E g \in audit \cap approvals : Scope[g].document = d}

(* What a request has read or been given still means.                      *)
RequestHolds(q) ==
    /\ q.stage \in {"deleting", "recording"} =>
          /\ q \in Request
          /\ q.operation \in DOMAIN operations
          /\ operations[q.operation].document = q.document
          /\ q.seen.state = "eligible_for_purge"
          /\ q.document \in locked => q.document \in Released
    /\ q.stage = "recording" /\ q.resolved => objects[q.document] # "stored"
    /\ q.stage = "granted" => q.document \in Released
    /\ q.stage \in {"granting", "evidencing"} /\ q.verdict = "consumed" =>
          /\ q \in Request /\ q.grant \in Grants
          /\ Scope[q.grant].document = q.document
          /\ q.grant \in approvals
    /\ q \in Request =>
          (q.document \in locked /\ q.seen.state # "processing" => q.document \in Released)

RequestsHold == \A p \in Processes : RequestHolds(requests[p])

(* What is left of an interrupted purge is one, and of a document as read. *)
BacklogHolds ==
    \A i \in DOMAIN backlog :
        /\ i \in DOMAIN operations
        /\ operations[i].document \in locked /\ backlog[i].state # "processing" =>
              operations[i].document \in Released

(* A grant that is approved has been approved.                             *)
ApprovalsAreKept == \A g \in Grants : grants[g] = "approved" => g \in approvals

(* Who is at work on a purged document has been since before its purge.    *)
WorkIsLate ==
    \A d \in Documents : documents[d].state = "purged" /\ d \in working => d \in late

DocumentIInv ==
    /\ DocumentTypeOK
    /\ RequestsHold
    /\ BacklogHolds
    /\ ApprovalsAreKept
    /\ WorkIsLate
    /\ PurgeIsThorough
    /\ LockedDocumentNeedsGrant

-----------------------------------------------------------------------------
(* What a step leaves alone.                                               *)

(* No object comes back as it was, approvals and evidence only grow, and   *)
(* an operation stays one of its document.                                 *)
Onward ==
    /\ locked' = locked
    /\ \A d \in Documents : objects[d] # "stored" => objects'[d] # "stored"
    /\ approvals \subseteq approvals'
    /\ audit \subseteq audit'
    /\ \A i \in DOMAIN operations :
          i \in DOMAIN operations' /\ operations'[i].document = operations[i].document

LEMMA ReleasedGrows == Onward => Released \subseteq Released'
  BY DEF Onward, Released

LEMMA HoldsOn ==
    ASSUME Onward, NEW q, RequestHolds(q)
    PROVE  RequestHolds(q)'
  <1>1. Released \subseteq Released'
    BY ReleasedGrows
  <1>2. q.stage \in {"deleting", "recording"} =>
           /\ q.operation \in DOMAIN operations'
           /\ operations'[q.operation].document = q.document
    BY DEF Onward, RequestHolds
  <1>3. q.stage = "recording" /\ q.resolved => objects'[q.document] # "stored"
    <2>1. q.stage = "recording" => q.document \in Documents
      BY DEF RequestHolds, Request
    <2> QED
      BY <2>1 DEF Onward, RequestHolds
  <1>4. locked' = locked /\ approvals \subseteq approvals'
    BY DEF Onward
  <1> QED
    BY <1>1, <1>2, <1>3, <1>4 DEF RequestHolds

LEMMA RequestsHoldOn ==
    ASSUME DocumentTypeOK, RequestsHold, Onward, NEW p \in Processes, NEW q,
           requests' = [requests EXCEPT ![p] = q], RequestHolds(q)'
    PROVE  RequestsHold'
  <1> SUFFICES ASSUME NEW o \in Processes PROVE RequestHolds(requests[o])'
    BY DEF RequestsHold
  <1>1. requests'[o] = IF o = p THEN q ELSE requests[o]
    BY DEF DocumentTypeOK
  <1>2. CASE o = p
    BY <1>1, <1>2 DEF RequestHolds
  <1>3. CASE o # p
    <2> DEFINE r == requests[o]
    <2>1. RequestHolds(r)
      BY DEF RequestsHold
    <2> HIDE DEF r
    <2>2. \A x : RequestHolds(x) => RequestHolds(x)'
      BY HoldsOn
    <2>3. requests'[o] = requests[o]
      BY <1>1, <1>3
    <2> QED
      BY <2>1, <2>2, <2>3 DEF RequestHolds, r
  <1> QED
    BY <1>2, <1>3

LEMMA IdleHolds == RequestHolds(Idle)' /\ RequestHolds(Idle)
  BY DEF RequestHolds, Idle, Request

LEMMA BacklogHoldsOn ==
    ASSUME BacklogHolds, Onward, DOMAIN backlog' \subseteq DOMAIN backlog,
           \A i \in DOMAIN backlog' : backlog'[i] = backlog[i]
    PROVE  BacklogHolds'
  <1> SUFFICES ASSUME NEW i \in DOMAIN backlog'
               PROVE  /\ i \in DOMAIN operations'
                      /\ operations'[i].document \in locked' /\ backlog'[i].state # "processing" =>
                            operations'[i].document \in Released'
    BY DEF BacklogHolds
  <1>1. /\ i \in DOMAIN operations
        /\ operations[i].document \in locked /\ backlog[i].state # "processing" =>
              operations[i].document \in Released
    BY DEF BacklogHolds
  <1>2. /\ i \in DOMAIN operations' /\ operations'[i].document = operations[i].document
        /\ locked' = locked /\ backlog'[i] = backlog[i]
    BY <1>1 DEF Onward
  <1> QED
    BY <1>1, <1>2, ReleasedGrows

LEMMA LockedIsReleased ==
    ASSUME DocumentTypeOK, LockedDocumentNeedsGrant,
           NEW d \in locked, documents[d].state # "processing"
    PROVE  d \in Released
  <1>1. d \in Documents
    BY DEF DocumentTypeOK
  <1> QED
    BY <1>1 DEF LockedDocumentNeedsGrant, Released

(* What a step that writes no document and no grant keeps.                 *)
LEMMA RecordsHoldOn ==
    ASSUME DocumentTypeOK, ApprovalsAreKept, LockedDocumentNeedsGrant, Onward,
           UNCHANGED <<documents, grants>>
    PROVE  ApprovalsAreKept' /\ LockedDocumentNeedsGrant'
  <1>1. ApprovalsAreKept'
    BY DEF ApprovalsAreKept, Onward
  <1>2. ASSUME NEW d \in locked', documents'[d].state # "processing"
        PROVE  d \in Released'
    <2>1. d \in locked /\ documents[d].state # "processing"
      BY <1>2 DEF Onward
    <2> QED
      BY <2>1, LockedIsReleased, ReleasedGrows
  <1> QED
    BY <1>1, <1>2 DEF LockedDocumentNeedsGrant, Released

-----------------------------------------------------------------------------
(* The steps.                                                              *)

LEMMA RequestShape ==
    ASSUME DocumentTypeOK, NEW p \in Processes
    PROVE  /\ requests[p] \in Request \cup Reviewing \cup {Idle}
           /\ requests[p] # Idle =>
                 (requests[p].command \in LifecycleCommands \cup {"rename"}
                    => requests[p] \in Request)
           /\ requests[p].stage \in {"seen", "granted", "deleting", "recording"}
                 => requests[p] \in Request
  <1>1. requests[p] \in Request \cup Reviewing \cup {Idle}
    BY DEF DocumentTypeOK
  <1> QED
    BY <1>1 DEF Request, Reviewing, Idle, LifecycleCommands

LEMMA DocumentsInit == DocumentInit => DocumentIInv
  <1> SUFFICES ASSUME DocumentInit PROVE DocumentIInv
    OBVIOUS
  <1>1. DocumentTypeOK
    <2>1. documents \in [Documents -> Document]
      BY DocumentAssumption DEF DocumentInit, Document, States
    <2>2. operations \in Seq(Operation) /\ Len(operations) <= MaxOperations
      BY DocumentAssumption DEF DocumentInit
    <2>3. DOMAIN backlog \subseteq 1..MaxOperations /\ backlog \in [DOMAIN backlog -> Document]
      BY DEF DocumentInit
    <2> QED
      BY <2>1, <2>2, <2>3 DEF DocumentInit, DocumentTypeOK, Statuses
  <1>2. RequestsHold
    BY IdleHolds DEF DocumentInit, RequestsHold
  <1>3. BacklogHolds /\ ApprovalsAreKept /\ WorkIsLate
    BY DEF DocumentInit, BacklogHolds, ApprovalsAreKept, WorkIsLate
  <1>4. PurgeIsThorough
    <2>1. DOMAIN operations = {}
      BY DEF DocumentInit
    <2> QED
      BY <2>1 DEF DocumentInit, PurgeIsThorough
  <1>5. LockedDocumentNeedsGrant
    BY DEF DocumentInit, LockedDocumentNeedsGrant
  <1> QED
    BY <1>1, <1>2, <1>3, <1>4, <1>5 DEF DocumentIInv

(* A step that only moves a request.                                       *)
LEMMA MoveKeeps ==
    ASSUME DocumentIInv, NEW p \in Processes,
           NEW q \in Request \cup Reviewing \cup {Idle},
           requests' = [requests EXCEPT ![p] = q],
           Onward => RequestHolds(q)',
           UNCHANGED <<storeVars, locked, lapsed, backlog>>
    PROVE  DocumentIInv'
  <1> USE DEF DocumentIInv
  <1> USE DEF storeVars, dataVars, grantVars
  <1>1. Onward
    BY DEF Onward
  <1>2. DocumentTypeOK'
    BY DEF DocumentTypeOK
  <1>3. RequestsHold'
    BY <1>1, RequestsHoldOn
  <1>4. BacklogHolds'
    BY <1>1, BacklogHoldsOn
  <1>5. ApprovalsAreKept' /\ LockedDocumentNeedsGrant'
    BY <1>1, RecordsHoldOn
  <1>6. PurgeIsThorough' /\ WorkIsLate'
    BY DEF PurgeIsThorough, WorkIsLate
  <1> QED
    BY <1>2, <1>3, <1>4, <1>5, <1>6

LEMMA ReadStep ==
    ASSUME DocumentIInv, NEW c \in Clients, Read(c)
    PROVE  DocumentIInv'
  <1> PICK command \in LifecycleCommands \cup {"rename"}, d \in Documents,
           g \in Grants \cup {NoGrant} : Advance(c, Snapshot(command, d, g))
    BY DEF Read
  <1> PICK q : q = Snapshot(command, d, g)
    OBVIOUS
  <1>1. q \in Request
    <2>1. documents[d] \in Document
      BY DEF DocumentIInv, DocumentTypeOK
    <2> QED
      BY <2>1, DocumentAssumption DEF Snapshot, Request
  <1>2. d \in locked /\ documents[d].state # "processing" => d \in Released
    BY DEF DocumentIInv, LockedDocumentNeedsGrant, Released
  <1>3. Onward => RequestHolds(q)'
    BY <1>2, ReleasedGrows DEF RequestHolds, Snapshot, Onward
  <1>4. c \in Processes
    BY DEF Processes
  <1>5. requests' = [requests EXCEPT ![c] = q]
    BY DEF Advance
  <1>6. UNCHANGED <<storeVars, locked, lapsed, backlog>>
    BY DEF Read
  <1> QED
    BY <1>1, <1>3, <1>4, <1>5, <1>6, MoveKeeps

LEMMA AnswerStep ==
    ASSUME DocumentIInv, NEW p \in Processes, Answer(p),
           UNCHANGED <<storeVars, locked, lapsed, backlog>>
    PROVE  DocumentIInv'
  BY MoveKeeps, IdleHolds DEF Answer

LEMMA ReviewStep ==
    ASSUME DocumentIInv, NEW c \in Clients, Review(c)
    PROVE  DocumentIInv'
  <1> PICK command \in {"request", "approve", "reject"}, g \in Grants :
             Advance(c, [stage |-> "granting", command |-> command,
                document |-> Scope[g].document, grant |-> g,
                verdict |-> CASE command = "request" -> "requested"
                              [] g \in lapsed -> "expired"
                              [] command = "approve" -> "approved"
                              [] command = "reject" -> "rejected"])
    BY DEF Review
  <1> PICK verdict : verdict = CASE command = "request" -> "requested"
                                 [] g \in lapsed -> "expired"
                                 [] command = "approve" -> "approved"
                                 [] command = "reject" -> "rejected"
    OBVIOUS
  <1> PICK q : q = [stage |-> "granting", command |-> command,
                    document |-> Scope[g].document, grant |-> g, verdict |-> verdict]
    OBVIOUS
  <1>1. verdict \in {"requested", "expired", "approved", "rejected"}
    OBVIOUS
  <1>2. q \in Reviewing
    BY <1>1, DocumentAssumption DEF Reviewing, Statuses
  <1>3. q \notin Request
    BY DEF Request, LifecycleCommands
  <1>4. RequestHolds(q)'
    BY <1>1, <1>3 DEF RequestHolds
  <1>5. c \in Processes
    BY DEF Processes
  <1>6. requests' = [requests EXCEPT ![c] = q]
    BY DEF Advance
  <1>7. UNCHANGED <<storeVars, locked, lapsed, backlog>>
    BY DEF Review
  <1> QED
    BY <1>2, <1>4, <1>5, <1>6, <1>7, MoveKeeps

LEMMA LookUpGrantStep ==
    ASSUME DocumentIInv, NEW c \in Clients, LookUpGrant(c)
    PROVE  DocumentIInv'
  <1>1. c \in Processes
    BY DEF Processes
  <1>2. UNCHANGED <<storeVars, locked, lapsed, backlog>>
    BY DEF LookUpGrant
  <1>3. CASE Usable(requests[c])
    <2> PICK r : r = requests[c]
      OBVIOUS
    <2>1. r.stage = "seen" /\ r \in Request /\ r.grant # NoGrant
      BY <1>1, RequestShape DEF LookUpGrant, NeedsGrant, DocumentIInv
    <2> PICK verdict : verdict = IF r.grant \in lapsed THEN "expired" ELSE "consumed"
      OBVIOUS
    <2> PICK q : q = [r EXCEPT !.stage = "granting", !.verdict = verdict]
      OBVIOUS
    <2>2. q \in Request
      BY <2>1 DEF Request, Statuses
    <2>3. /\ r.grant \in Grants /\ Scope[r.grant].document = r.document
          /\ r.grant \in approvals
      BY <1>3, <2>1 DEF Usable, Request, DocumentIInv, ApprovalsAreKept
    <2>4. RequestHolds(r)
      BY <1>1 DEF DocumentIInv, RequestsHold
    <2>5. /\ q.stage = "granting" /\ q.grant = r.grant /\ q.document = r.document
          /\ q.seen = r.seen /\ q.resolved = r.resolved
      BY <2>1 DEF Request
    <2>6. Onward => RequestHolds(q)'
      BY <2>1, <2>2, <2>3, <2>4, <2>5, ReleasedGrows DEF RequestHolds, Onward
    <2>7. requests' = [requests EXCEPT ![c] = q]
      BY <1>3 DEF LookUpGrant, Advance
    <2> QED
      BY <1>1, <1>2, <2>2, <2>6, <2>7, MoveKeeps
  <1>4. CASE ~ Usable(requests[c])
    BY <1>1, <1>2, <1>4, AnswerStep DEF LookUpGrant
  <1> QED
    BY <1>3, <1>4

LEMMA StoreGrantStep ==
    ASSUME DocumentIInv, NEW c \in Clients, StoreGrant(c)
    PROVE  DocumentIInv'
  <1> USE DEF DocumentIInv
  <1> PICK r : r = requests[c]
    OBVIOUS
  <1> PICK q : q = [r EXCEPT !.stage = "evidencing"]
    OBVIOUS
  <1>1. /\ c \in Processes /\ r.stage = "granting"
        /\ grants' = [grants EXCEPT ![r.grant] = r.verdict]
        /\ approvals' = approvals \cup {g \in {r.grant} : r.verdict = "approved"}
        /\ requests' = [requests EXCEPT ![c] = q]
        /\ UNCHANGED <<documents, objects, indexed, working, late, audit, operations, locked,
                       lapsed, backlog>>
    BY DEF Processes, StoreGrant, Advance, dataVars
  <1>2. r \in Request \cup Reviewing /\ RequestHolds(r) /\ r.verdict \in Statuses
    <2>1. r \in Request \cup Reviewing \cup {Idle} /\ RequestHolds(r)
      BY <1>1 DEF RequestsHold, DocumentTypeOK
    <2> QED
      BY <1>1, <2>1 DEF Idle, Request, Reviewing, Statuses
  <1>3. Onward
    BY <1>1 DEF Onward
  <1>4. /\ q \in Request \cup Reviewing /\ q.stage = "evidencing"
        /\ q.verdict = r.verdict /\ q.grant = r.grant /\ q.document = r.document
        /\ (q \in Request => r \in Request /\ q.seen = r.seen)
        /\ (r \in Request => q \in Request)
    BY <1>2 DEF Request, Reviewing, LifecycleCommands
  <1>5. RequestHolds(q)'
    <2>1. RequestHolds(r)'
      BY <1>2, <1>3, HoldsOn
    <2> QED
      BY <1>1, <1>2, <1>4, <2>1 DEF RequestHolds
  <1>6. RequestsHold'
    BY <1>1, <1>3, <1>5, RequestsHoldOn
  <1>7. BacklogHolds'
    BY <1>1, <1>3, BacklogHoldsOn
  <1>8. ApprovalsAreKept'
    BY <1>1 DEF ApprovalsAreKept, DocumentTypeOK
  <1>9. PurgeIsThorough' /\ WorkIsLate'
    BY <1>1 DEF PurgeIsThorough, WorkIsLate
  <1>10. LockedDocumentNeedsGrant'
    BY <1>1 DEF LockedDocumentNeedsGrant
  <1>11. approvals' \subseteq Grants
    <2>1. r.verdict = "approved" => r.grant \in Grants
      BY <1>2 DEF Reviewing, Request
    <2> QED
      BY <1>1, <2>1 DEF DocumentTypeOK
  <1>12. DocumentTypeOK'
    BY <1>1, <1>2, <1>4, <1>11 DEF DocumentTypeOK
  <1> QED
    BY <1>6, <1>7, <1>8, <1>9, <1>10, <1>12

LEMMA RecordEvidenceStep ==
    ASSUME DocumentIInv, NEW c \in Clients, RecordEvidence(c)
    PROVE  DocumentIInv'
  <1> USE DEF DocumentIInv
  <1> PICK r : r = requests[c]
    OBVIOUS
  <1>1. /\ c \in Processes /\ r.stage = "evidencing"
        /\ UNCHANGED <<documents, objects, indexed, working, late, grants, approvals, operations,
                       locked, lapsed, backlog>>
    BY DEF Processes, RecordEvidence, dataVars
  <1>2. RequestHolds(r)
    BY <1>1 DEF RequestsHold
  <1>3. CASE r.verdict = "consumed"
    <2> PICK q : q = [r EXCEPT !.stage = "granted", !.grant = NoGrant, !.verdict = "absent"]
      OBVIOUS
    <2>1. audit' = audit \cup {r.grant} /\ requests' = [requests EXCEPT ![c] = q]
      BY <1>3 DEF RecordEvidence, Advance
    <2>2. /\ r \in Request /\ r.grant \in Grants /\ Scope[r.grant].document = r.document
          /\ r.grant \in approvals
      BY <1>1, <1>2, <1>3 DEF RequestHolds
    <2>3. Onward
      BY <1>1, <2>1 DEF Onward
    <2>4. r.document \in Released'
      BY <1>1, <2>1, <2>2 DEF Released, Request
    <2>5. q \in Request /\ q.stage = "granted" /\ q.document = r.document
      BY <2>2 DEF Request, Statuses
    <2>6. RequestHolds(q)'
      BY <2>4, <2>5 DEF RequestHolds
    <2>7. RequestsHold'
      BY <1>1, <2>1, <2>3, <2>6, RequestsHoldOn
    <2>8. BacklogHolds'
      BY <1>1, <2>3, BacklogHoldsOn
    <2>9. ApprovalsAreKept' /\ LockedDocumentNeedsGrant'
      BY <1>1, <2>3, RecordsHoldOn
    <2>10. PurgeIsThorough' /\ WorkIsLate'
      BY <1>1 DEF PurgeIsThorough, WorkIsLate
    <2>11. DocumentTypeOK'
      BY <1>1, <2>1, <2>2, <2>5 DEF DocumentTypeOK
    <2> QED
      BY <2>7, <2>8, <2>9, <2>10, <2>11
  <1>4. CASE r.verdict # "consumed"
    <2>1. Answer(c) /\ UNCHANGED audit
      BY <1>4 DEF RecordEvidence
    <2> QED
      BY <1>1, <2>1, AnswerStep DEF storeVars, dataVars, grantVars
  <1> QED
    BY <1>3, <1>4

(* A step that writes the row of the document a request is about, and      *)
(* answers it.                                                             *)
LEMMA WriteKeeps ==
    ASSUME DocumentIInv, NEW p \in Processes, NEW d \in Documents, NEW row \in Document,
           documents' = [documents EXCEPT ![d] = row],
           row.state # "purged",
           d \in locked /\ row.state # "processing" => d \in Released,
           Answer(p),
           UNCHANGED <<dataVars, grantVars, operations, locked, lapsed, backlog>>
    PROVE  DocumentIInv'
  <1> USE DEF DocumentIInv, dataVars, grantVars
  <1>1. Onward /\ Released' = Released
    BY DEF Onward, Released
  <1>2. DocumentTypeOK'
    BY DEF DocumentTypeOK, Answer
  <1>3. RequestsHold'
    BY <1>1, RequestsHoldOn, IdleHolds DEF Answer
  <1>4. BacklogHolds'
    BY <1>1, BacklogHoldsOn
  <1>5. ApprovalsAreKept'
    BY DEF ApprovalsAreKept
  <1>6. PurgeIsThorough' /\ WorkIsLate'
    BY DEF PurgeIsThorough, WorkIsLate, DocumentTypeOK
  <1>7. LockedDocumentNeedsGrant'
    <2>1. ASSUME NEW e \in locked, documents'[e].state # "processing"
          PROVE  e \in Released
      <3>1. CASE e = d
        BY <2>1, <3>1 DEF DocumentTypeOK
      <3>2. CASE e # d
        BY <2>1, <3>2 DEF DocumentTypeOK, LockedDocumentNeedsGrant, Released
      <3> QED
        BY <3>1, <3>2
    <2> QED
      BY <1>1, <2>1 DEF LockedDocumentNeedsGrant, Released
  <1> QED
    BY <1>2, <1>3, <1>4, <1>5, <1>6, <1>7

LEMMA TargetsAreLegal ==
    ASSUME NEW command \in LifecycleCommands \ {"purge"}, NEW state \in States,
           NEW target \in Targets(command, state)
    PROVE  /\ target \in States \ {"purged"}
           /\ target \in Transitions[state] \cup {state}
  <1>1. CASE command = "trash"
    BY <1>1 DEF Targets, States, Transitions
  <1>2. CASE command = "mark"
    BY <1>2 DEF Targets, States, Transitions
  <1>3. CASE command = "restore"
    BY <1>3 DEF Targets, States, Transitions
  <1> QED
    BY <1>1, <1>2, <1>3 DEF LifecycleCommands

LEMMA ApplyRetentionFacts ==
    ASSUME DocumentTypeOK, NEW c \in Clients, ApplyRetention(c)
    PROVE  /\ requests[c] \in Request /\ c \in Processes
           /\ requests[c].document \in locked => requests[c].stage = "granted"
           /\ \E row \in Document :
                 /\ documents' = [documents EXCEPT ![requests[c].document] = row]
                 /\ row.state \in Transitions[requests[c].seen.state] \cup {requests[c].seen.state}
                 /\ row.state # "purged"
           /\ Answer(c)
           /\ UNCHANGED <<dataVars, grantVars, operations, locked, lapsed, backlog>>
  <1> PICK command \in LifecycleCommands \ {"purge"} :
         /\ Doing(c, command)
         /\ ~ Blocked(requests[c])
         /\ \E target \in Targets(command, requests[c].seen.state) :
               documents' = [documents EXCEPT ![requests[c].document] =
                  [requests[c].seen EXCEPT !.state = target, !.eligibleAt = (command = "mark"),
                                           !.purgedAt = FALSE]]
         /\ Answer(c)
         /\ UNCHANGED <<dataVars, grantVars, operations, locked, lapsed, backlog>>
    BY DEF ApplyRetention
  <1>1. c \in Processes /\ requests[c] \in Request
    BY RequestShape DEF Doing, Processes
  <1>2. requests[c].document \in locked => requests[c].stage = "granted"
    BY DEF Blocked
  <1> PICK target \in Targets(command, requests[c].seen.state) :
               documents' = [documents EXCEPT ![requests[c].document] =
                  [requests[c].seen EXCEPT !.state = target, !.eligibleAt = (command = "mark"),
                                           !.purgedAt = FALSE]]
    OBVIOUS
  <1> PICK seen : seen = requests[c].seen
    OBVIOUS
  <1> PICK marked \in BOOLEAN : marked = (command = "mark")
    OBVIOUS
  <1> PICK row : row = [seen EXCEPT !.state = target, !.eligibleAt = marked, !.purgedAt = FALSE]
    OBVIOUS
  <1>3. seen \in Document
    BY <1>1 DEF Request
  <1>4. target \in States \ {"purged"} /\ target \in Transitions[seen.state] \cup {seen.state}
    BY <1>3, TargetsAreLegal DEF Document
  <1>5. row \in Document /\ row.state = target
    BY <1>3, <1>4 DEF Document
  <1>6. documents' = [documents EXCEPT ![requests[c].document] = row]
    OBVIOUS
  <1> QED
    BY <1>1, <1>2, <1>4, <1>5, <1>6

LEMMA ApplyRetentionStep ==
    ASSUME DocumentIInv, NEW c \in Clients, ApplyRetention(c)
    PROVE  DocumentIInv'
  <1>1. /\ requests[c] \in Request /\ c \in Processes
        /\ requests[c].document \in locked => requests[c].stage = "granted"
        /\ Answer(c)
        /\ UNCHANGED <<dataVars, grantVars, operations, locked, lapsed, backlog>>
    BY ApplyRetentionFacts DEF DocumentIInv
  <1> PICK row \in Document :
         /\ documents' = [documents EXCEPT ![requests[c].document] = row]
         /\ row.state # "purged"
    BY ApplyRetentionFacts DEF DocumentIInv
  <1> PICK d : d = requests[c].document
    OBVIOUS
  <1>2. d \in Documents
    BY <1>1 DEF Request
  <1>3. d \in locked => d \in Released
    BY <1>1 DEF DocumentIInv, RequestsHold, RequestHolds
  <1> QED
    BY <1>1, <1>2, <1>3, WriteKeeps

LEMMA UpdateMetadataFacts ==
    ASSUME DocumentTypeOK, NEW c \in Clients, UpdateMetadata(c)
    PROVE  /\ requests[c] \in Request /\ c \in Processes
           /\ \E row \in Document :
                 /\ documents' = [documents EXCEPT ![requests[c].document] = row]
                 /\ row.state = requests[c].seen.state /\ row.state # "purged"
           /\ Answer(c)
           /\ UNCHANGED <<dataVars, grantVars, operations, locked, lapsed, backlog>>
  <1>1. c \in Processes /\ requests[c] \in Request
    BY RequestShape DEF UpdateMetadata, Doing, Processes
  <1> PICK seen : seen = requests[c].seen
    OBVIOUS
  <1>2. seen \in Document
    BY <1>1 DEF Request
  <1>3. documents' = [documents EXCEPT ![requests[c].document] = seen] /\ seen.state # "purged"
    BY DEF UpdateMetadata, Accepts
  <1> QED
    BY <1>1, <1>2, <1>3 DEF UpdateMetadata

LEMMA UpdateMetadataStep ==
    ASSUME DocumentIInv, NEW c \in Clients, UpdateMetadata(c)
    PROVE  DocumentIInv'
  <1>1. /\ requests[c] \in Request /\ c \in Processes /\ Answer(c)
        /\ UNCHANGED <<dataVars, grantVars, operations, locked, lapsed, backlog>>
    BY UpdateMetadataFacts DEF DocumentIInv
  <1> PICK row \in Document :
         /\ documents' = [documents EXCEPT ![requests[c].document] = row]
         /\ row.state = requests[c].seen.state /\ row.state # "purged"
    BY UpdateMetadataFacts DEF DocumentIInv
  <1> PICK d : d = requests[c].document
    OBVIOUS
  <1>2. d \in Documents
    BY <1>1 DEF Request
  <1>3. d \in locked /\ row.state # "processing" => d \in Released
    BY <1>1 DEF DocumentIInv, RequestsHold, RequestHolds
  <1> QED
    BY <1>1, <1>2, <1>3, WriteKeeps

LEMMA OperationsTyped ==
    DocumentTypeOK => operations \in Seq(Operation) /\ Len(operations) <= MaxOperations
  BY DEF DocumentTypeOK

LEMMA OperationFacts ==
    ASSUME DocumentTypeOK, NEW i \in DOMAIN operations
    PROVE  /\ i \in 1..MaxOperations /\ i \in Nat
           /\ operations[i] \in Operation
  <1>1. DOMAIN operations = 1..Len(operations) /\ Len(operations) \in Nat
    BY OperationsTyped, LenProperties
  <1>2. operations[i] \in Operation
    BY <1>1, OperationsTyped, ElementOfSeq
  <1> QED
    BY <1>1, <1>2, OperationsTyped, DocumentAssumption

LEMMA PurgeRequest ==
    ASSUME DocumentTypeOK, NEW p \in Processes, Doing(p, "purge")
    PROVE  requests[p] \in Request
  BY RequestShape DEF Doing, LifecycleCommands

(* The request goes on to delete the object, under an operation.           *)
LEMMA DeletingHolds ==
    ASSUME DocumentIInv, NEW p \in Processes, RequestPurge(p), Onward,
           NEW i \in DOMAIN operations', i \in 0..MaxOperations,
           operations'[i].document = requests[p].document,
           NEW q, q = [requests[p] EXCEPT !.stage = "deleting", !.operation = i]
    PROVE  q \in Request /\ RequestHolds(q)'
  <1> USE DEF DocumentIInv
  <1> PICK r : r = requests[p]
    OBVIOUS
  <1>1. r \in Request /\ RequestHolds(r)
    BY PurgeRequest DEF RequestPurge, RequestsHold
  <1>2. r.seen.state = "eligible_for_purge" /\ (r.document \in locked => r.document \in Released)
    BY <1>1 DEF RequestPurge, MayPurge, Accepts, Blocked, RequestHolds
  <1>3. /\ q \in Request /\ q.stage = "deleting" /\ q.operation = i
        /\ q.document = r.document /\ q.seen = r.seen
    BY <1>1 DEF Request
  <1> QED
    BY <1>2, <1>3, ReleasedGrows DEF RequestHolds, Onward

LEMMA RequestPurgeStep ==
    ASSUME DocumentIInv, NEW p \in Processes, RequestPurge(p)
    PROVE  DocumentIInv'
  <1> USE DEF DocumentIInv, storeVars, dataVars, grantVars
  <1>1. UNCHANGED <<documents, dataVars, grantVars, locked, lapsed, backlog>>
    BY DEF RequestPurge
  <1>2. CASE /\ UNCHANGED operations
             /\ \E i \in DOMAIN operations :
                   /\ operations[i].document = requests[p].document
                   /\ \/ Answer(p)
                      \/ Advance(p, [requests[p] EXCEPT !.stage = "deleting", !.operation = i])
    <2> PICK i \in DOMAIN operations :
               /\ operations[i].document = requests[p].document
               /\ \/ Answer(p)
                  \/ Advance(p, [requests[p] EXCEPT !.stage = "deleting", !.operation = i])
      BY <1>2
    <2>1. UNCHANGED <<storeVars, locked, lapsed, backlog>>
      BY <1>1, <1>2
    <2>2. CASE Answer(p)
      BY <2>1, <2>2, AnswerStep
    <2>3. CASE Advance(p, [requests[p] EXCEPT !.stage = "deleting", !.operation = i])
      <3> PICK q : q = [requests[p] EXCEPT !.stage = "deleting", !.operation = i]
        OBVIOUS
      <3>1. i \in DOMAIN operations' /\ operations'[i].document = requests[p].document
        BY <1>2
      <3>2. i \in 0..MaxOperations
        BY OperationFacts
      <3>3. Onward => q \in Request /\ RequestHolds(q)'
        BY <3>1, <3>2, DeletingHolds
      <3>4. Onward
        BY <1>1, <1>2 DEF Onward
      <3>5. requests' = [requests EXCEPT ![p] = q]
        BY <2>3 DEF Advance
      <3> QED
        BY <2>1, <3>3, <3>4, <3>5, MoveKeeps
    <2> QED
      BY <2>2, <2>3
  <1>3. CASE /\ Len(operations) < MaxOperations
             /\ operations' = Append(operations,
                   [document |-> requests[p].document, state |-> "running"])
             /\ Advance(p, [requests[p] EXCEPT !.stage = "deleting",
                                               !.operation = Len(operations) + 1])
    <2> PICK operation : operation =
               [document |-> requests[p].document, state |-> "running"]
      OBVIOUS
    <2> PICK n : n = Len(operations) + 1
      OBVIOUS
    <2> PICK q : q = [requests[p] EXCEPT !.stage = "deleting", !.operation = n]
      OBVIOUS
    <2>1. operation \in Operation
      BY PurgeRequest DEF RequestPurge, Operation, Request
    <2>2. /\ operations' \in Seq(Operation) /\ Len(operations') = n
          /\ DOMAIN operations = 1..Len(operations) /\ DOMAIN operations' = 1..n
          /\ operations'[n] = operation
          /\ \A i \in DOMAIN operations : operations'[i] = operations[i]
      BY <1>3, <2>1, OperationsTyped, AppendProperties, LenProperties
    <2>3. Len(operations) \in Nat /\ n \in DOMAIN operations' /\ n \in 0..MaxOperations
      BY <1>3, <2>2, OperationsTyped, LenProperties, DocumentAssumption
    <2>4. Onward
      BY <1>1, <2>2, <2>3 DEF Onward
    <2>5. q \in Request /\ RequestHolds(q)'
      <3>1. operations'[n].document = requests[p].document
        BY <2>2
      <3> QED
        BY <2>3, <2>4, <3>1, DeletingHolds
    <2>6. requests' = [requests EXCEPT ![p] = q]
      BY <1>3 DEF Advance
    <2>7. RequestsHold'
      BY <2>4, <2>5, <2>6, RequestsHoldOn
    <2>8. BacklogHolds'
      BY <1>1, <2>4, BacklogHoldsOn
    <2>9. ApprovalsAreKept' /\ LockedDocumentNeedsGrant'
      BY <1>1, <2>4, RecordsHoldOn
    <2>10. PurgeIsThorough' /\ WorkIsLate'
      <3>1. \A i \in DOMAIN operations' : operations'[i].state = "completed" =>
                i \in DOMAIN operations /\ operations'[i] = operations[i]
        BY <2>2, <2>3
      <3>2. \A i \in DOMAIN operations : i \in DOMAIN operations'
        BY <2>2, <2>3
      <3> QED
        BY <1>1, <2>2, <3>1, <3>2 DEF PurgeIsThorough, WorkIsLate
    <2>11. DocumentTypeOK'
      <3>1. operations' \in Seq(Operation) /\ Len(operations') <= MaxOperations
        BY <1>3, <2>2, <2>3, OperationsTyped, DocumentAssumption
      <3> QED
        BY <1>1, <2>5, <2>6, <3>1 DEF DocumentTypeOK
    <2> QED
      BY <2>7, <2>8, <2>9, <2>10, <2>11
  <1> QED
    BY <1>2, <1>3 DEF RequestPurge

LEMMA DeleteObjectStep ==
    ASSUME DocumentIInv, NEW p \in Processes, DeleteObject(p)
    PROVE  DocumentIInv'
  <1> USE DEF DocumentIInv, grantVars
  <1> PICK r : r = requests[p]
    OBVIOUS
  <1>1. /\ r.stage = "deleting"
        /\ UNCHANGED <<documents, indexed, working, late, grantVars, operations, locked, lapsed,
                       backlog>>
    BY DEF DeleteObject
  <1> PICK outcome \in DeleteOutcomes(r.document) :
         /\ objects' = [objects EXCEPT ![r.document] = IF outcome.gone THEN "gone" ELSE @]
         /\ Advance(p, [r EXCEPT !.stage = "recording", !.resolved = outcome.resolved])
    BY DEF DeleteObject
  <1> PICK q : q = [r EXCEPT !.stage = "recording", !.resolved = outcome.resolved]
    OBVIOUS
  <1>2. r \in Request /\ RequestHolds(r)
    BY PurgeRequest DEF DeleteObject, RequestsHold
  <1>3. outcome.resolved \in BOOLEAN /\ (outcome.resolved => outcome.gone)
    <2>1. CASE outcome = [gone |-> TRUE, resolved |-> TRUE]
      BY <2>1
    <2>2. CASE outcome.resolved = FALSE
      BY <2>2
    <2>3. outcome = [gone |-> TRUE, resolved |-> TRUE] \/ outcome.resolved = FALSE
      BY DEF DeleteOutcomes
    <2> QED
      BY <2>1, <2>2, <2>3
  <1>4. /\ q \in Request /\ q.stage = "recording" /\ q.resolved = outcome.resolved
        /\ q.operation = r.operation /\ q.document = r.document /\ q.seen = r.seen
    BY <1>2, <1>3 DEF Request
  <1>5. Onward /\ objects' \in [Documents -> {"stored", "gone", "put back"}]
    BY <1>1 DEF Onward, DocumentTypeOK
  <1>6. RequestHolds(q)'
    BY <1>1, <1>2, <1>3, <1>4, <1>5, ReleasedGrows DEF RequestHolds, Onward, Request, DocumentTypeOK
  <1>7. requests' = [requests EXCEPT ![p] = q]
    BY DEF Advance
  <1>8. RequestsHold'
    BY <1>5, <1>6, <1>7, RequestsHoldOn
  <1>9. BacklogHolds'
    BY <1>1, <1>5, BacklogHoldsOn
  <1>10. ApprovalsAreKept' /\ LockedDocumentNeedsGrant'
    BY <1>1, <1>5, RecordsHoldOn
  <1>11. PurgeIsThorough' /\ WorkIsLate'
    <2>1. /\ r.operation \in DOMAIN operations
          /\ operations[r.operation].document = r.document
          /\ operations[r.operation].state \in {"running", "completed"}
      BY <1>1, <1>2, OperationFacts DEF RequestHolds, Operation
    <2>2. \A d \in Documents : d # r.document => objects'[d] = objects[d]
      BY DEF DocumentTypeOK
    <2>3. WorkIsLate'
      BY <1>1 DEF WorkIsLate
    <2>4. ASSUME NEW d \in Documents, objects'[d] # "stored"
          PROVE  \E i \in DOMAIN operations :
                    /\ operations[i].document = d
                    /\ operations[i].state \in {"running", "completed"}
      <3>1. CASE d = r.document
        BY <2>1, <3>1
      <3>2. CASE d # r.document
        BY <2>2, <2>4, <3>2 DEF PurgeIsThorough
      <3> QED
        BY <3>1, <3>2
    <2>5. \A d \in Documents : objects[d] # "stored" => objects'[d] # "stored"
      BY <1>5 DEF Onward
    <2> QED
      BY <1>1, <2>3, <2>4, <2>5 DEF PurgeIsThorough
  <1>12. DocumentTypeOK'
    BY <1>1, <1>4, <1>5, <1>7 DEF DocumentTypeOK
  <1> QED
    BY <1>8, <1>9, <1>10, <1>11, <1>12

LEMMA RecordAttemptStep ==
    ASSUME DocumentIInv, NEW p \in Processes, RecordAttempt(p)
    PROVE  DocumentIInv'
  <1> USE DEF DocumentIInv, grantVars
  <1> PICK r : r = requests[p]
    OBVIOUS
  <1> PICK i : i = r.operation
    OBVIOUS
  <1> PICK d : d = r.document
    OBVIOUS
  <1>1. r.stage = "recording" /\ r \in Request /\ RequestHolds(r)
    BY PurgeRequest DEF RecordAttempt, RequestsHold
  <1>2. i \in DOMAIN operations /\ operations[i].document = d /\ d \in Documents
    BY <1>1 DEF RequestHolds, Request
  <1> PICK operation : operation = Attempted(operations[i], r.resolved)
    OBVIOUS
  <1>3. /\ operation \in Operation /\ operation.document = d
        /\ operation.state = IF r.resolved THEN "completed" ELSE "running"
    BY <1>2, OperationFacts DEF Attempted, Operation
  <1>4. /\ operations' = [operations EXCEPT ![i] = operation]
        /\ Answer(p)
        /\ UNCHANGED <<objects, working, grantVars, locked, lapsed, backlog>>
    BY DEF RecordAttempt
  <1>5. /\ operations' \in Seq(Operation) /\ Len(operations') = Len(operations)
        /\ DOMAIN operations' = DOMAIN operations
        /\ \A n \in DOMAIN operations :
              operations'[n] = IF n = i THEN operation ELSE operations[n]
    BY <1>2, <1>3, <1>4, OperationsTyped, ExceptSeq, LenProperties
  <1>6. Onward /\ Released' = Released
    BY <1>2, <1>3, <1>4, <1>5 DEF Onward, Released
  <1>7. RequestsHold'
    BY <1>4, <1>6, RequestsHoldOn, IdleHolds DEF Answer
  <1>8. BacklogHolds'
    BY <1>4, <1>6, BacklogHoldsOn
  <1>9. CASE r.resolved
    <2> PICK row : row = [documents[d] EXCEPT !.state = "purged", !.purgedAt = TRUE]
      OBVIOUS
    <2>1. row \in Document /\ row.state = "purged"
      BY <1>2 DEF DocumentTypeOK, Document, States
    <2>2. /\ documents' = [documents EXCEPT ![d] = row]
          /\ indexed' = indexed \ {d}
          /\ late' = (late \ {d}) \cup ({d} \cap working)
      <3>1. /\ documents' = [documents EXCEPT ![d].state = "purged", ![d].purgedAt = TRUE]
            /\ indexed' = indexed \ {d}
            /\ late' = (late \ {d}) \cup ({d} \cap working)
        BY <1>9 DEF RecordAttempt
      <3> QED
        BY <1>2, <3>1 DEF DocumentTypeOK, Document
    <2>3. objects[d] # "stored" /\ (d \in locked => d \in Released)
      BY <1>1, <1>9 DEF RequestHolds
    <2>4. DocumentTypeOK'
      BY <1>4, <1>5, <2>1, <2>2 DEF DocumentTypeOK, Answer
    <2>5. ApprovalsAreKept'
      BY <1>4 DEF ApprovalsAreKept
    <2>6. LockedDocumentNeedsGrant'
      <3>1. ASSUME NEW e \in locked, documents'[e].state # "processing"
            PROVE  e \in Released
        BY <2>2, <2>3, <3>1 DEF DocumentTypeOK, LockedDocumentNeedsGrant, Released
      <3> QED
        BY <1>4, <1>6, <3>1 DEF LockedDocumentNeedsGrant, Released
    <2>7. PurgeIsThorough' /\ WorkIsLate'
      <3>1. \A e \in Documents \ {d} :
               /\ documents'[e] = documents[e]
               /\ e \in indexed' <=> e \in indexed
               /\ e \in late' <=> e \in late
        BY <2>2 DEF DocumentTypeOK
      <3>2. d \notin indexed' /\ (d \in working => d \in late')
        BY <2>2
      <3>3. WorkIsLate'
        BY <1>4, <3>1, <3>2 DEF WorkIsLate
      <3>4. ASSUME NEW e \in Documents, NEW state,
                   \E n \in DOMAIN operations :
                      operations[n].document = e /\ operations[n].state = state
            PROVE  \E n \in DOMAIN operations' :
                      operations'[n].document = e /\ operations'[n].state \in {state, "completed"}
        <4> PICK n \in DOMAIN operations :
                   operations[n].document = e /\ operations[n].state = state
          BY <3>4
        <4>1. operations'[n].document = e
          BY <1>2, <1>3, <1>5
        <4>2. operations'[n].state \in {state, "completed"}
          BY <1>3, <1>5, <1>9
        <4> QED
          BY <1>5, <4>1, <4>2
      <3>5. \A e \in Documents \ {d} : \A n \in DOMAIN operations' :
               operations'[n].document = e => operations'[n] = operations[n]
        BY <1>3, <1>5
      <3>6. \A e \in Documents \ {d} :
               \/ documents'[e].state = "purged"
               \/ \E n \in DOMAIN operations' :
                     operations'[n].document = e /\ operations'[n].state = "completed"
               => objects'[e] # "stored"
        BY <1>4, <1>5, <3>1, <3>5 DEF PurgeIsThorough
      <3>7. PurgeIsThorough'
        BY <1>4, <2>3, <3>1, <3>2, <3>4, <3>6 DEF PurgeIsThorough
      <3> QED
        BY <3>3, <3>7
    <2> QED
      BY <1>7, <1>8, <2>4, <2>5, <2>6, <2>7
  <1>10. CASE ~ r.resolved
    <2>1. UNCHANGED <<documents, indexed, late>>
      BY <1>10 DEF RecordAttempt
    <2>2. DocumentTypeOK'
      BY <1>4, <1>5, <2>1 DEF DocumentTypeOK, Answer
    <2>3. ApprovalsAreKept' /\ LockedDocumentNeedsGrant'
      BY <1>4, <1>6, <2>1, RecordsHoldOn
    <2>4. operation.state = "running"
      BY <1>3, <1>10
    <2>5. PurgeIsThorough' /\ WorkIsLate'
      BY <1>2, <1>3, <1>4, <1>5, <2>1, <2>4 DEF PurgeIsThorough, WorkIsLate
    <2> QED
      BY <1>7, <1>8, <2>2, <2>3, <2>5
  <1> QED
    BY <1>9, <1>10

LEMMA CrashStep ==
    ASSUME DocumentIInv, Crash
    PROVE  DocumentIInv'
  <1> USE DEF DocumentIInv, storeVars, dataVars, grantVars
  <1>1. /\ requests' = [requests EXCEPT ![Startup] = Idle] /\ backlog' = <<>>
        /\ Startup \in Processes
        /\ UNCHANGED <<storeVars, locked, lapsed>>
    BY DEF Crash, Answer, Processes
  <1>2. Onward
    BY <1>1 DEF Onward
  <1>3. RequestsHold'
    BY <1>1, <1>2, IdleHolds, RequestsHoldOn
  <1>4. DOMAIN backlog' = {}
    BY <1>1
  <1>5. BacklogHolds'
    BY <1>4 DEF BacklogHolds
  <1>6. ApprovalsAreKept' /\ LockedDocumentNeedsGrant'
    BY <1>1, <1>2, RecordsHoldOn
  <1>7. PurgeIsThorough' /\ WorkIsLate'
    BY <1>1 DEF PurgeIsThorough, WorkIsLate
  <1>8. backlog' \in [DOMAIN backlog' -> Document]
    BY <1>1, <1>4
  <1>9. DocumentTypeOK'
    BY <1>1, <1>4, <1>8 DEF DocumentTypeOK
  <1> QED
    BY <1>3, <1>5, <1>6, <1>7, <1>9

LEMMA StartStep ==
    ASSUME DocumentIInv, Start
    PROVE  DocumentIInv'
  <1> USE DEF DocumentIInv, storeVars, dataVars, grantVars
  <1> PICK running : running = {n \in DOMAIN operations : operations[n].state = "running"}
    OBVIOUS
  <1>1. /\ UNCHANGED <<storeVars, locked, lapsed, requests>>
        /\ backlog' = [i \in running |-> documents[operations[i].document]]
    BY DEF Start
  <1>2. Onward /\ Released' = Released
    BY <1>1 DEF Onward, Released
  <1>3. \A i \in running : /\ i \in DOMAIN operations /\ i \in 1..MaxOperations
                           /\ operations[i].document \in Documents
    BY OperationFacts DEF Operation
  <1>4. RequestsHold'
    BY <1>1, <1>2 DEF RequestsHold, RequestHolds
  <1>5. BacklogHolds'
    BY <1>1, <1>2, <1>3 DEF BacklogHolds, LockedDocumentNeedsGrant, Released
  <1>6. ApprovalsAreKept' /\ LockedDocumentNeedsGrant'
    BY <1>1, <1>2, RecordsHoldOn
  <1>7. PurgeIsThorough' /\ WorkIsLate'
    BY <1>1 DEF PurgeIsThorough, WorkIsLate
  <1>8. DOMAIN backlog' \subseteq 1..MaxOperations /\ backlog' \in [DOMAIN backlog' -> Document]
    BY <1>1, <1>3 DEF DocumentTypeOK
  <1>9. DocumentTypeOK'
    BY <1>1, <1>8 DEF DocumentTypeOK
  <1> QED
    BY <1>4, <1>5, <1>6, <1>7, <1>9

LEMMA ResumePurgeStep ==
    ASSUME DocumentIInv, ResumePurge
    PROVE  DocumentIInv'
  <1> USE DEF DocumentIInv, storeVars, dataVars, grantVars
  <1> PICK i \in DOMAIN backlog :
        LET r == [Snapshot("purge", operations[i].document, NoGrant) EXCEPT !.seen = backlog[i]]
        IN IF MayPurge(r)
           THEN Advance(Startup, r) /\ backlog' = [j \in DOMAIN backlog \ {i} |-> backlog[j]]
           ELSE backlog' = <<>> /\ UNCHANGED requests
    BY DEF ResumePurge
  <1> PICK q : q = [Snapshot("purge", operations[i].document, NoGrant) EXCEPT !.seen = backlog[i]]
    OBVIOUS
  <1>1. UNCHANGED <<storeVars, locked, lapsed>>
    BY DEF ResumePurge
  <1>2. Onward /\ Released' = Released
    BY <1>1 DEF Onward, Released
  <1>3. /\ i \in DOMAIN operations /\ operations[i].document \in Documents
        /\ backlog[i] \in Document
    BY OperationFacts DEF BacklogHolds, Operation, DocumentTypeOK
  <1>4. /\ q \in Request /\ q.stage = "seen" /\ q.document = operations[i].document
        /\ q.seen = backlog[i]
    <2> PICK r : r = Snapshot("purge", operations[i].document, NoGrant)
      OBVIOUS
    <2>1. documents[operations[i].document] \in Document
      BY <1>3 DEF DocumentTypeOK
    <2>2. r \in Request /\ r.stage = "seen" /\ r.document = operations[i].document
      BY <1>3, <2>1, DocumentAssumption DEF Snapshot, Request, Statuses, LifecycleCommands
    <2>3. q = [r EXCEPT !.seen = backlog[i]]
      OBVIOUS
    <2> QED
      BY <1>3, <2>2, <2>3 DEF Request
  <1>5. RequestHolds(q)'
    BY <1>1, <1>2, <1>3, <1>4 DEF RequestHolds, BacklogHolds
  <1>6. /\ DOMAIN backlog' \subseteq DOMAIN backlog
        /\ \A j \in DOMAIN backlog' : backlog'[j] = backlog[j]
        /\ backlog' \in [DOMAIN backlog' -> Document]
    <2>1. CASE backlog' = [j \in DOMAIN backlog \ {i} |-> backlog[j]]
      BY <2>1 DEF DocumentTypeOK
    <2>2. CASE backlog' = <<>>
      BY <2>2
    <2> QED
      BY <2>1, <2>2
  <1>7. Startup \in Processes
    BY DEF Processes
  <1>8. requests' = [requests EXCEPT ![Startup] = q] \/ requests' = requests
    BY DEF Advance
  <1>9. RequestsHold'
    <2>1. CASE requests' = requests
      BY <1>1, <1>2, <2>1 DEF RequestsHold, RequestHolds
    <2>2. CASE requests' = [requests EXCEPT ![Startup] = q]
      BY <1>2, <1>5, <1>7, <2>2, RequestsHoldOn
    <2> QED
      BY <1>8, <2>1, <2>2
  <1>10. BacklogHolds'
    BY <1>2, <1>6, BacklogHoldsOn
  <1>11. ApprovalsAreKept' /\ LockedDocumentNeedsGrant'
    BY <1>1, <1>2, RecordsHoldOn
  <1>12. PurgeIsThorough' /\ WorkIsLate'
    BY <1>1 DEF PurgeIsThorough, WorkIsLate
  <1>13. DocumentTypeOK'
    BY <1>1, <1>4, <1>6, <1>7, <1>8 DEF DocumentTypeOK
  <1> QED
    BY <1>9, <1>10, <1>11, <1>12, <1>13

(* A step of somebody who makes no request.                                *)
LEMMA QuietStep ==
    ASSUME DocumentIInv, lapsed' \subseteq Grants,
           objects' \in [Documents -> {"stored", "gone", "put back"}],
           \A d \in Documents : objects[d] = "stored" <=> objects'[d] = "stored",
           indexed' \subseteq Documents, working' \subseteq Documents, WorkIsLate',
           \A d \in Documents : documents[d].state = "purged" /\ d \in indexed' =>
              d \in indexed \/ d \in late,
           UNCHANGED <<documents, late, grantVars, operations, locked, requests, backlog>>
    PROVE  DocumentIInv'
  <1> USE DEF DocumentIInv, grantVars
  <1>1. Onward /\ Released' = Released
    BY DEF Onward, Released
  <1>2. DocumentTypeOK'
    BY DEF DocumentTypeOK
  <1>3. RequestsHold'
    <2> SUFFICES ASSUME NEW p \in Processes PROVE RequestHolds(requests[p])'
      BY DEF RequestsHold
    <2> DEFINE r == requests[p]
    <2>1. RequestHolds(r)
      BY DEF RequestsHold
    <2> HIDE DEF r
    <2>2. \A x : RequestHolds(x) => RequestHolds(x)'
      BY <1>1, HoldsOn
    <2> QED
      BY <2>1, <2>2 DEF RequestHolds, r
  <1>4. BacklogHolds'
    BY <1>1, BacklogHoldsOn
  <1>5. ApprovalsAreKept' /\ LockedDocumentNeedsGrant'
    BY <1>1, RecordsHoldOn
  <1>6. PurgeIsThorough'
    BY DEF PurgeIsThorough
  <1> QED
    BY <1>2, <1>3, <1>4, <1>5, <1>6

LEMMA WorkStep ==
    ASSUME DocumentIInv, NEW d \in Documents, StartWork(d) \/ Derive(d) \/ StopWork(d)
    PROVE  DocumentIInv'
  <1> USE DEF DocumentIInv
  <1>1. UNCHANGED <<documents, objects, late, grantVars, operations, locked, lapsed, requests,
                    backlog>>
    BY DEF StartWork, Derive, StopWork
  <1>2. CASE StartWork(d)
    <2>1. working' = working \cup {d} /\ indexed' = indexed /\ documents[d].state # "purged"
      BY <1>2 DEF StartWork, Workable
    <2>2. WorkIsLate'
      BY <1>1, <2>1 DEF WorkIsLate
    <2> QED
      BY <1>1, <2>1, <2>2, QuietStep DEF DocumentTypeOK
  <1>3. CASE Derive(d)
    <2>1. d \in working /\ working' = working /\ indexed' = indexed \cup {d}
      BY <1>3 DEF Derive
    <2>2. WorkIsLate' /\ (documents[d].state = "purged" => d \in late)
      BY <1>1, <2>1 DEF WorkIsLate
    <2> QED
      BY <1>1, <2>1, <2>2, QuietStep DEF DocumentTypeOK
  <1>4. CASE StopWork(d)
    <2>1. working' = working \ {d} /\ indexed' = indexed
      BY <1>4 DEF StopWork
    <2>2. WorkIsLate'
      BY <1>1, <2>1 DEF WorkIsLate
    <2> QED
      BY <1>1, <2>1, <2>2, QuietStep DEF DocumentTypeOK
  <1> QED
    BY <1>2, <1>3, <1>4

LEMMA PutObjectStep ==
    ASSUME DocumentIInv, NEW d \in Documents, PutObject(d)
    PROVE  DocumentIInv'
  <1> USE DEF DocumentIInv
  <1>1. /\ objects[d] = "gone" /\ objects' = [objects EXCEPT ![d] = "put back"]
        /\ UNCHANGED <<documents, indexed, working, late, grantVars, operations, locked, lapsed,
                       requests, backlog>>
    BY DEF PutObject
  <1>2. WorkIsLate'
    BY <1>1 DEF WorkIsLate
  <1> QED
    BY <1>1, <1>2, QuietStep DEF DocumentTypeOK

LEMMA DocumentsNext ==
    ASSUME DocumentIInv, [DocumentNext]_documentVars
    PROVE  DocumentIInv'
  <1>1. ASSUME NEW c \in Clients, Abandon(c) PROVE DocumentIInv'
    BY <1>1, AnswerStep DEF Abandon, Processes
  <1>2. ASSUME NEW g \in Grants, Lapse(g) PROVE DocumentIInv'
    BY <1>2, QuietStep DEF Lapse, storeVars, dataVars, DocumentIInv, DocumentTypeOK, WorkIsLate
  <1>3. CASE UNCHANGED documentVars
    BY <1>3, QuietStep
       DEF documentVars, storeVars, dataVars, DocumentIInv, DocumentTypeOK, WorkIsLate
  <1> QED
    BY <1>1, <1>2, <1>3, ReadStep, ReviewStep, LookUpGrantStep, StoreGrantStep,
       RecordEvidenceStep, ApplyRetentionStep, UpdateMetadataStep, RequestPurgeStep,
       DeleteObjectStep, RecordAttemptStep, WorkStep, PutObjectStep, CrashStep, StartStep,
       ResumePurgeStep
       DEF DocumentNext

(* The inductive invariant: what requests and the backlog have read still  *)
(* means what it meant, evidence backs every approval, and the three       *)
(* properties hold.                                                        *)
THEOREM DocumentsInductive == DocumentSpec => []DocumentIInv
  <1> QED
    BY DocumentsInit, DocumentsNext, PTL DEF DocumentSpec

(* Documents, grants, purge operations and the requests in flight are of   *)
(* their types.                                                            *)
THEOREM DocumentTypes == DocumentSpec => []DocumentTypeOK
  BY DocumentsInductive, PTL DEF DocumentIInv

(* However requests, failed deletions, restarts, workers and uploads       *)
(* interleave, no purge is reported complete unless the object it was for  *)
(* is gone; what is derived of a purged document was written by a worker   *)
(* that was at work when the purge was completed; and no object is gone    *)
(* without a record that a restart finds.                                  *)
THEOREM PurgeIsThoroughHolds == DocumentSpec => []PurgeIsThorough
  BY DocumentsInductive, PTL DEF DocumentIInv

(* A document under a compliance lock is only ever changed after a grant   *)
(* for it was approved and its use put on evidence, although approval, use *)
(* and evidence are transactions of their own.                             *)
THEOREM LockedDocumentNeedsGrantHolds == DocumentSpec => []LockedDocumentNeedsGrant
  BY DocumentsInductive, PTL DEF DocumentIInv

-----------------------------------------------------------------------------
(* The lifecycle rules.                                                    *)

Lawful(d) == documents'[d].state \in Transitions[documents[d].state] \cup {documents[d].state}

Stale(d) ==
    \E p \in Processes :
        /\ requests[p] # Idle
        /\ requests'[p] = Idle
        /\ requests[p].document = d
        /\ requests[p].seen # documents[d]

LEMMA OneRowWritten ==
    ASSUME DocumentTypeOK, NEW p \in Processes, requests[p] \in Request, Answer(p),
           NEW row, documents' = [documents EXCEPT ![requests[p].document] = row],
           requests[p].seen = documents[requests[p].document] =>
              row.state \in Transitions[requests[p].seen.state] \cup {requests[p].seen.state},
           NEW d \in Documents
    PROVE  Lawful(d) \/ Stale(d)
  <1>1. CASE d # requests[p].document
    BY <1>1 DEF Lawful, DocumentTypeOK
  <1>2. CASE d = requests[p].document /\ requests[p].seen = documents[d]
    BY <1>2 DEF Lawful, DocumentTypeOK
  <1>3. CASE d = requests[p].document /\ requests[p].seen # documents[d]
    <2>1. requests[p] # Idle /\ requests'[p] = Idle
      <3>1. requests'[p] = Idle
        BY DEF Answer, DocumentTypeOK
      <3> QED
        BY <3>1 DEF Request, Idle
    <2> QED
      BY <1>3, <2>1 DEF Stale
  <1> QED
    BY <1>1, <1>2, <1>3

LEMMA ChangesAreLawfulOrStale ==
    ASSUME DocumentIInv, [DocumentNext]_documentVars, NEW d \in Documents
    PROVE  Lawful(d) \/ Stale(d)
  <1> USE DEF DocumentIInv
  <1>1. CASE UNCHANGED documents
    BY <1>1 DEF Lawful
  <1>2. ASSUME NEW c \in Clients, ApplyRetention(c) PROVE Lawful(d) \/ Stale(d)
    BY <1>2, ApplyRetentionFacts, OneRowWritten
  <1>3. ASSUME NEW c \in Clients, UpdateMetadata(c) PROVE Lawful(d) \/ Stale(d)
    BY <1>3, UpdateMetadataFacts, OneRowWritten
  <1>4. ASSUME NEW p \in Processes, RecordAttempt(p) PROVE Lawful(d) \/ Stale(d)
    <2> PICK e : e = requests[p].document
      OBVIOUS
    <2>1. requests[p] \in Request /\ e \in Documents /\ requests[p].stage = "recording"
      BY <1>4, PurgeRequest DEF RecordAttempt, Request
    <2>2. CASE requests[p].resolved
      <3> PICK row : row = [documents[e] EXCEPT !.state = "purged", !.purgedAt = TRUE]
        OBVIOUS
      <3>1. documents' = [documents EXCEPT ![e].state = "purged", ![e].purgedAt = TRUE]
        BY <1>4, <2>2 DEF RecordAttempt
      <3>2. documents' = [documents EXCEPT ![e] = row] /\ row.state = "purged"
        BY <2>1, <3>1 DEF DocumentTypeOK, Document
      <3>3. requests[p].seen.state = "eligible_for_purge"
        BY <2>1 DEF RequestsHold, RequestHolds
      <3>4. row.state \in Transitions[requests[p].seen.state]
        BY <3>2, <3>3 DEF Transitions
      <3>5. Answer(p)
        BY <1>4 DEF RecordAttempt
      <3> QED
        BY <2>1, <3>2, <3>4, <3>5, OneRowWritten
    <2>3. CASE ~ requests[p].resolved
      BY <1>1, <1>4, <2>3 DEF RecordAttempt
    <2> QED
      BY <2>2, <2>3
  <1>5. \/ UNCHANGED documents
        \/ \E c \in Clients : ApplyRetention(c) \/ UpdateMetadata(c)
        \/ \E p \in Processes : RecordAttempt(p)
    <2>1. ASSUME NEW c \in Clients,
                 \/ Read(c) \/ Abandon(c)
                 \/ Review(c) \/ LookUpGrant(c) \/ StoreGrant(c) \/ RecordEvidence(c)
          PROVE  UNCHANGED documents
      BY <2>1 DEF Read, Abandon, Review, LookUpGrant, StoreGrant, RecordEvidence, storeVars
    <2>2. ASSUME NEW p \in Processes, RequestPurge(p) \/ DeleteObject(p)
          PROVE  UNCHANGED documents
      BY <2>2 DEF RequestPurge, DeleteObject
    <2>3. ASSUME \/ \E e \in Documents : StartWork(e) \/ Derive(e) \/ StopWork(e) \/ PutObject(e)
                 \/ Crash \/ Start \/ ResumePurge
                 \/ \E g \in Grants : Lapse(g)
                 \/ UNCHANGED documentVars
          PROVE  UNCHANGED documents
      BY <2>3 DEF StartWork, Derive, StopWork, PutObject, Crash, Start, ResumePurge, Lapse,
                  storeVars, documentVars
    <2> QED
      BY <2>1, <2>2, <2>3 DEF DocumentNext
  <1> QED
    BY <1>1, <1>2, <1>3, <1>4, <1>5

(* A document leaves the lifecycle rules only by a request whose snapshot  *)
(* of it is out of date.                                                   *)
THEOREM IllegalChangeIsStaleHolds == DocumentSpec => IllegalChangeIsStale
  <1>1. ASSUME DocumentIInv, [DocumentNext]_documentVars
        PROVE  [\A d \in Documents :
                  \/ documents'[d].state \in Transitions[documents[d].state] \cup {documents[d].state}
                  \/ \E p \in Processes :
                        /\ requests[p] # Idle
                        /\ requests'[p] = Idle
                        /\ requests[p].document = d
                        /\ requests[p].seen # documents[d]]_documentVars
    BY <1>1, ChangesAreLawfulOrStale DEF Lawful, Stale
  <1> QED
    BY <1>1, DocumentsInductive, PTL DEF DocumentSpec, IllegalChangeIsStale

-----------------------------------------------------------------------------
(***************************************************************************)
(* KnowledgeCatalogue.                                                     *)
(***************************************************************************)

(* The inductive invariant. An approved job carries the last decision on    *)
(* it, a publication under way has passed its checks, and only published    *)
(* jobs have versions; the jobs an ingestion knew are unlike what it        *)
(* inserts, or a review has edited them.                                    *)

JobOK(j) ==
    /\ jobs[j].state = "approved" =>
          /\ jobs[j].proposal \in Proposals /\ jobs[j].approver \in Actors
          /\ jobs[j].ruling = [by |-> jobs[j].approver, text |-> jobs[j].proposal.text]
    /\ publishing[j] # None =>
          /\ jobs[j].state = "approved" /\ jobs[j].approver # publishing[j]
          /\ jobs[j].payload \in purged => j \in overtaken
    /\ versions[j].state # "absent" => jobs[j].state = "published"

IngestionOK(r) ==
    /\ ingestion[r].known \subseteq Existing
    /\ ingestion[r].phase \in {"lineage", "insert"} =>
          \A i \in ingestion[r].known : jobs[i].key # ingestion[r].key \/ jobs[i].edited
    /\ ingestion[r].phase = "insert" =>
          \A i \in ingestion[r].known : jobs[i].payload # ingestion[r].payload \/ jobs[i].edited

LineageOK(j) ==
    /\ jobs[j].lineage \/ jobs[j].edited
    /\ jobs[j].known \subseteq Existing
    /\ \A i \in jobs[j].known :
          \/ jobs[i].key # jobs[j].key /\ jobs[i].payload # jobs[j].payload
          \/ jobs[i].edited

IInv ==
    /\ CatalogueTypeOK
    /\ \A j \in Jobs : JobOK(j) /\ LineageOK(j)
    /\ \A r \in Requests : IngestionOK(r)
    /\ PublicationIsGrounded
    /\ LatestIsPublished

\* What a decision on a job may make of it.
Decision(j, job) ==
    /\ job \in Job
    /\ jobs[j].state \notin {"absent", "published"} /\ job.state \notin {"absent", "published"}
    /\ job.key = jobs[j].key /\ job.payload = jobs[j].payload /\ job.known = jobs[j].known
    /\ jobs[j].edited => job.edited
    /\ job.lineage \/ job.edited
    /\ job.state = "approved" =>
          /\ job.proposal \in Proposals /\ job.approver \in Actors
          /\ job.ruling = [by |-> job.approver, text |-> job.proposal.text]

Decided ==
    \E j \in Jobs, job \in Job : publishing[j] = None /\ Decision(j, job) /\ Decide(j, job)

-----------------------------------------------------------------------------
LEMMA InitEstablishes == CatalogueInit => IInv
  <1> SUFFICES ASSUME CatalogueInit PROVE IInv
    OBVIOUS
  <1>1. CatalogueTypeOK
    BY DEF CatalogueInit, CatalogueTypeOK, NoIngestion, NoJob, NoVersion, Ingestion, Job, Version, OrNone
  <1>2. \A j \in Jobs : JobOK(j) /\ LineageOK(j)
    BY DEF CatalogueInit, NoJob, NoVersion, JobOK, LineageOK
  <1>3. \A r \in Requests : IngestionOK(r)
    BY DEF CatalogueInit, NoIngestion, IngestionOK
  <1>4. PublicationIsGrounded /\ LatestIsPublished
    BY DEF CatalogueInit, NoVersion, Versions, PublicationIsGrounded, LatestIsPublished
  <1> QED
    BY <1>1, <1>2, <1>3, <1>4 DEF IInv

(* ReviewJob, Approve, Reject and CorrectMetadata are decisions.           *)
LEMMA ReviewDecides ==
    ASSUME IInv, NEW j \in Jobs, NEW l \in BOOLEAN, NEW q \in Proposals \cup {jobs[j].proposal},
           ReviewJob(j, l, q)
    PROVE  Decided
  <1> DEFINE job == [jobs[j] EXCEPT !.state = "review_pending", !.lineage = l, !.proposal = q,
                                    !.edited = @ \/ ~ l]
  <1>1. jobs[j] \in Job /\ publishing[j] = None /\ Decide(j, job) /\ jobs[j].edited \in BOOLEAN
    BY DEF IInv, CatalogueTypeOK, ReviewJob, Unlocked, Job
  <1>2. q \in OrNone(Proposals)
    BY <1>1 DEF Job, OrNone
  <1>3. job \in Job
    BY <1>1, <1>2 DEF Job
  <1>4. jobs[j].state \in {"uploaded", "review_pending", "rejected"}
    BY DEF ReviewJob, Reviewable
  <1>5. /\ job.state = "review_pending" /\ job.key = jobs[j].key /\ job.payload = jobs[j].payload
        /\ job.known = jobs[j].known /\ job.lineage = l /\ job.edited = (jobs[j].edited \/ ~ l)
    BY <1>1 DEF Job
  <1> HIDE DEF job
  <1>6. Decision(j, job)
    BY <1>1, <1>3, <1>4, <1>5 DEF Decision
  <1> QED
    BY <1>1, <1>3, <1>6 DEF Decided

LEMMA ApproveDecides ==
    ASSUME IInv, NEW j \in Jobs, NEW a \in Actors, NEW q \in Proposals, Approve(j, a, q)
    PROVE  Decided
  <1> DEFINE job == [jobs[j] EXCEPT !.state = "approved", !.proposal = q, !.approver = a,
                                    !.ruling = [by |-> a, text |-> q.text]]
  <1>1. jobs[j] \in Job /\ publishing[j] = None /\ Decide(j, job) /\ LineageOK(j)
    BY DEF IInv, CatalogueTypeOK, Approve, Unlocked
  <1>2. q.text \in Texts
    BY DEF Proposals
  <1>3. job \in Job
    BY <1>1, <1>2 DEF Job, OrNone, Ruling
  <1>4. jobs[j].state \in {"uploaded", "review_pending", "rejected"}
    BY DEF Approve, Reviewable
  <1>5. /\ job.state = "approved" /\ job.key = jobs[j].key /\ job.payload = jobs[j].payload
        /\ job.known = jobs[j].known /\ job.lineage = jobs[j].lineage
        /\ job.edited = jobs[j].edited /\ job.proposal = q /\ job.approver = a
        /\ job.ruling = [by |-> a, text |-> q.text]
    BY <1>1 DEF Job
  <1> HIDE DEF job
  <1>6. Decision(j, job)
    BY <1>1, <1>3, <1>4, <1>5 DEF Decision, LineageOK
  <1> QED
    BY <1>1, <1>3, <1>6 DEF Decided

LEMMA RejectDecides ==
    ASSUME IInv, NEW j \in Jobs, Reject(j)
    PROVE  Decided
  <1> DEFINE job == [jobs[j] EXCEPT !.state = "rejected", !.ruling = None]
  <1>1. /\ jobs[j] \in Job /\ publishing[j] = None /\ Decide(j, job) /\ LineageOK(j)
        /\ jobs[j].state \notin {"absent", "published"}
    BY DEF IInv, CatalogueTypeOK, Reject, Unlocked, Existing
  <1>2. job \in Job
    BY <1>1 DEF Job, OrNone
  <1>3. /\ job.state = "rejected" /\ job.key = jobs[j].key /\ job.payload = jobs[j].payload
        /\ job.known = jobs[j].known /\ job.lineage = jobs[j].lineage
        /\ job.edited = jobs[j].edited
    BY <1>1 DEF Job
  <1> HIDE DEF job
  <1>4. Decision(j, job)
    BY <1>1, <1>2, <1>3 DEF Decision, LineageOK
  <1> QED
    BY <1>1, <1>2, <1>4 DEF Decided

LEMMA CorrectDecides ==
    ASSUME IInv, NEW j \in Jobs, NEW t \in Titles, CorrectMetadata(j, t)
    PROVE  Decided
  <1> DEFINE job == [jobs[j] EXCEPT !.proposal.title = t]
  <1>1. /\ jobs[j] \in Job /\ publishing[j] = None /\ Decide(j, job) /\ LineageOK(j) /\ JobOK(j)
        /\ jobs[j].state \in {"review_pending", "approved"} /\ jobs[j].proposal # None
    BY DEF IInv, CatalogueTypeOK, CorrectMetadata, Unlocked
  <1>2. jobs[j].proposal \in Proposals
    BY <1>1 DEF Job, OrNone
  <1>3. /\ [jobs[j].proposal EXCEPT !.title = t] \in Proposals
        /\ [jobs[j].proposal EXCEPT !.title = t].text = jobs[j].proposal.text
    BY <1>2 DEF Proposals
  <1>4. job \in Job
    BY <1>1, <1>3 DEF Job, OrNone
  <1>5. /\ job.state = jobs[j].state /\ job.key = jobs[j].key /\ job.payload = jobs[j].payload
        /\ job.known = jobs[j].known /\ job.lineage = jobs[j].lineage
        /\ job.edited = jobs[j].edited /\ job.approver = jobs[j].approver
        /\ job.ruling = jobs[j].ruling
        /\ job.proposal = [jobs[j].proposal EXCEPT !.title = t]
    BY <1>1 DEF Job
  <1> HIDE DEF job
  <1>6. Decision(j, job)
    BY <1>1, <1>3, <1>4, <1>5 DEF Decision, LineageOK, JobOK
  <1> QED
    BY <1>1, <1>4, <1>6 DEF Decided

(* A decision keeps the invariant.                                         *)
LEMMA DecidedPreserves == IInv /\ Decided => IInv'
  <1> SUFFICES ASSUME IInv, Decided PROVE IInv'
    OBVIOUS
  <1>1. PICK j \in Jobs, job \in Job :
            publishing[j] = None /\ Decision(j, job) /\ Decide(j, job)
    BY DEF Decided
  <1>2. /\ jobs' = [jobs EXCEPT ![j] = job]
        /\ UNCHANGED <<ingestion, versions, sources, publishing, purged, overtaken>>
    BY <1>1 DEF Decide
  <1>3. jobs \in [Jobs -> Job] /\ \A i \in Jobs : jobs'[i] = IF i = j THEN job ELSE jobs[i]
    BY <1>2 DEF IInv, CatalogueTypeOK
  <1>4. CatalogueTypeOK'
    BY <1>2, <1>3 DEF IInv, CatalogueTypeOK
  <1>5. Existing' = Existing
    BY <1>1, <1>3 DEF Existing, Decision
  <1>6. \A i \in Jobs : jobs'[i].key = jobs[i].key /\ jobs'[i].payload = jobs[i].payload
                        /\ jobs'[i].known = jobs[i].known /\ (jobs[i].edited => jobs'[i].edited)
    BY <1>1, <1>3 DEF Decision
  <1>7. Existing \subseteq Jobs
    BY DEF Existing
  <1>8. \A i \in Jobs : JobOK(i)'
    BY <1>1, <1>2, <1>3 DEF IInv, JobOK, Decision
  <1>9. \A i \in Jobs : LineageOK(i)'
    BY <1>1, <1>3, <1>5, <1>6, <1>7 DEF IInv, LineageOK, Decision
  <1>10. \A r \in Requests : IngestionOK(r)'
    BY <1>2, <1>5, <1>6, <1>7 DEF IInv, IngestionOK
  <1>11. PublicationIsGrounded' /\ LatestIsPublished'
    BY <1>2 DEF IInv, PublicationIsGrounded, LatestIsPublished, Versions, Later
  <1> QED
    BY <1>4, <1>8, <1>9, <1>10, <1>11 DEF IInv

-----------------------------------------------------------------------------
(* Ingestion up to the insertion touches the requests only.                *)
LEMMA IngestionFrame ==
    ASSUME IInv, UNCHANGED <<jobs, versions, sources, publishing, purged, overtaken>>
    PROVE  /\ \A j \in Jobs : JobOK(j)' /\ LineageOK(j)'
           /\ PublicationIsGrounded' /\ LatestIsPublished' /\ Existing' = Existing
  BY DEF IInv, JobOK, LineageOK, PublicationIsGrounded, LatestIsPublished, Existing, Versions, Later

LEMMA BeginIngestPreserves ==
    ASSUME IInv, NEW r \in Requests, NEW k \in Keys, NEW p \in Payloads, BeginIngest(r, k, p)
    PROVE  IInv'
  <1> DEFINE request == [phase |-> "key", key |-> k, payload |-> p, known |-> Existing]
  <1>1. /\ ingestion' = [ingestion EXCEPT ![r] = request] /\ ingestion \in [Requests -> Ingestion]
        /\ UNCHANGED <<jobs, versions, sources, publishing, purged, overtaken>>
    BY DEF BeginIngest, IInv, CatalogueTypeOK
  <1>2. request \in Ingestion
    BY DEF Ingestion, OrNone, Existing
  <1>3. CatalogueTypeOK'
    BY <1>1, <1>2 DEF IInv, CatalogueTypeOK
  <1>4. \A s \in Requests : IngestionOK(s)'
    BY <1>1, IngestionFrame DEF IInv, IngestionOK
  <1> QED
    BY <1>1, <1>3, <1>4, IngestionFrame DEF IInv

\* A request gives up or moves on to a phase that says no more than what it has found.
LEMMA RequestPreserves ==
    ASSUME IInv, NEW r \in Requests, NEW request \in Ingestion,
           ingestion' = [ingestion EXCEPT ![r] = request],
           UNCHANGED <<jobs, versions, sources, publishing, purged, overtaken>>,
           request.known \subseteq Existing,
           request.phase \in {"lineage", "insert"} =>
              \A i \in request.known : jobs[i].key # request.key \/ jobs[i].edited,
           request.phase = "insert" =>
              \A i \in request.known : jobs[i].payload # request.payload \/ jobs[i].edited
    PROVE  IInv'
  <1>1. ingestion \in [Requests -> Ingestion]
    BY DEF IInv, CatalogueTypeOK
  <1>2. CatalogueTypeOK'
    BY <1>1 DEF IInv, CatalogueTypeOK
  <1>3. \A s \in Requests : IngestionOK(s)'
    BY <1>1, IngestionFrame DEF IInv, IngestionOK
  <1> QED
    BY <1>2, <1>3, IngestionFrame DEF IInv

LEMMA IdleIsIngestion == NoIngestion \in Ingestion /\ NoIngestion.phase = "idle" /\ NoIngestion.known = {}
  BY DEF NoIngestion, Ingestion, OrNone

\* What a look-up passes over has been edited or is another.
LEMMA NotFound ==
    ASSUME IInv, NEW i \in Existing, i \notin Found
    PROVE  jobs[i].edited
  BY DEF IInv, LineageOK, Found, Existing

LEMMA LookUpKeyPreserves ==
    ASSUME IInv, NEW r \in Requests, LookUpKey(r)
    PROVE  IInv'
  <1>1. ingestion \in [Requests -> Ingestion] /\ IngestionOK(r)
    BY DEF IInv, CatalogueTypeOK
  <1>2. UNCHANGED <<jobs, versions, sources, publishing, purged, overtaken>>
    BY DEF LookUpKey
  <1>3. CASE \E j \in Found : jobs[j].key = ingestion[r].key
    BY <1>2, <1>3, IdleIsIngestion, RequestPreserves DEF LookUpKey
  <1>4. CASE ~ \E j \in Found : jobs[j].key = ingestion[r].key
    <2> DEFINE request == [ingestion[r] EXCEPT !.phase = "lineage"]
    <2>1. ingestion' = [ingestion EXCEPT ![r] = request]
      BY <1>4 DEF LookUpKey
    <2>2. /\ request \in Ingestion /\ request.phase = "lineage" /\ request.key = ingestion[r].key
          /\ request.known = ingestion[r].known
      BY <1>1 DEF Ingestion
    <2>3. \A i \in ingestion[r].known : jobs[i].key # ingestion[r].key \/ jobs[i].edited
      BY <1>1, <1>4, NotFound DEF IngestionOK
    <2> HIDE DEF request
    <2> QED
      BY <1>1, <1>2, <2>1, <2>2, <2>3, RequestPreserves DEF IngestionOK
  <1> QED
    BY <1>3, <1>4

LEMMA LookUpLineagePreserves ==
    ASSUME IInv, NEW r \in Requests, LookUpLineage(r)
    PROVE  IInv'
  <1>1. ingestion \in [Requests -> Ingestion] /\ IngestionOK(r) /\ ingestion[r].phase = "lineage"
    BY DEF IInv, CatalogueTypeOK, LookUpLineage
  <1>2. UNCHANGED <<jobs, versions, sources, publishing, purged, overtaken>>
    BY DEF LookUpLineage
  <1>3. CASE \E j \in Found : jobs[j].payload = ingestion[r].payload
    BY <1>2, <1>3, IdleIsIngestion, RequestPreserves DEF LookUpLineage
  <1>4. CASE ~ \E j \in Found : jobs[j].payload = ingestion[r].payload
    <2> DEFINE request == [ingestion[r] EXCEPT !.phase = "insert"]
    <2>1. ingestion' = [ingestion EXCEPT ![r] = request]
      BY <1>4 DEF LookUpLineage
    <2>2. /\ request \in Ingestion /\ request.phase = "insert" /\ request.key = ingestion[r].key
          /\ request.payload = ingestion[r].payload /\ request.known = ingestion[r].known
      BY <1>1 DEF Ingestion
    <2>3. \A i \in ingestion[r].known :
              /\ jobs[i].key # ingestion[r].key \/ jobs[i].edited
              /\ jobs[i].payload # ingestion[r].payload \/ jobs[i].edited
      BY <1>1, <1>4, NotFound DEF IngestionOK
    <2> HIDE DEF request
    <2> QED
      BY <1>1, <1>2, <2>1, <2>2, <2>3, RequestPreserves DEF IngestionOK
  <1> QED
    BY <1>3, <1>4

LEMMA AbandonIngestPreserves ==
    ASSUME IInv, NEW r \in Requests, AbandonIngest(r)
    PROVE  IInv'
  BY IdleIsIngestion, RequestPreserves DEF AbandonIngest

\* The new job is unlike every job its request knew, and nobody knew it.
LEMMA InsertJobPreserves ==
    ASSUME IInv, NEW r \in Requests, InsertJob(r)
    PROVE  IInv'
  <1>1. PICK j \in Jobs \ Existing :
            jobs' = [jobs EXCEPT ![j] =
                       [NoJob EXCEPT !.state = "uploaded", !.key = ingestion[r].key,
                                     !.payload = ingestion[r].payload,
                                     !.known = ingestion[r].known]]
    BY DEF InsertJob
  <1> DEFINE job == [NoJob EXCEPT !.state = "uploaded", !.key = ingestion[r].key,
                                  !.payload = ingestion[r].payload, !.known = ingestion[r].known]
  <1>2. /\ ingestion' = [ingestion EXCEPT ![r] = NoIngestion] /\ ingestion[r].phase = "insert"
        /\ UNCHANGED <<versions, sources, publishing, purged, overtaken>>
    BY DEF InsertJob
  <1>3. ingestion \in [Requests -> Ingestion] /\ ingestion[r] \in Ingestion /\ IngestionOK(r)
        /\ jobs \in [Jobs -> Job]
    BY DEF IInv, CatalogueTypeOK
  <1>4. /\ job \in Job /\ job.state = "uploaded" /\ job.key = ingestion[r].key
        /\ job.payload = ingestion[r].payload /\ job.known = ingestion[r].known
        /\ job.lineage = TRUE
    BY <1>3 DEF NoJob, Job, Ingestion, OrNone
  <1>5. jobs' = [jobs EXCEPT ![j] = job]
    BY <1>1
  <1> HIDE DEF job
  <1>6. j \in Jobs /\ j \notin Existing /\ jobs[j].state = "absent"
    BY <1>1 DEF Existing
  <1>7. \A i \in Jobs : jobs'[i] = IF i = j THEN job ELSE jobs[i]
    BY <1>3, <1>5
  <1>8. Existing' = Existing \cup {j} /\ Existing \subseteq Jobs
    BY <1>4, <1>6, <1>7 DEF Existing
  <1>9. CatalogueTypeOK'
    BY <1>2, <1>4, <1>5, IdleIsIngestion DEF IInv, CatalogueTypeOK
  <1>10. \A i \in Jobs : JobOK(i)'
    <2>1. publishing[j] = None /\ versions[j].state = "absent"
      BY <1>6 DEF IInv, JobOK
    <2>2. JobOK(j)'
      BY <1>2, <1>4, <1>6, <1>7, <2>1 DEF JobOK
    <2>3. \A i \in Jobs \ {j} : JobOK(i)'
      BY <1>2, <1>7 DEF IInv, JobOK
    <2> QED
      BY <2>2, <2>3
  <1>11. \A i \in Jobs : LineageOK(i)'
    <2> SUFFICES ASSUME NEW i \in Jobs PROVE LineageOK(i)'
      OBVIOUS
    <2>1. CASE i = j
      BY <1>2, <1>3, <1>4, <1>6, <1>7, <1>8, <2>1 DEF LineageOK, IngestionOK
    <2>2. CASE i # j
      BY <1>6, <1>7, <1>8, <2>2 DEF IInv, LineageOK
    <2> QED
      BY <2>1, <2>2
  <1>12. \A s \in Requests : IngestionOK(s)'
    BY <1>2, <1>3, <1>6, <1>7, <1>8, IdleIsIngestion DEF IInv, IngestionOK
  <1>13. PublicationIsGrounded' /\ LatestIsPublished'
    BY <1>2 DEF IInv, PublicationIsGrounded, LatestIsPublished, Versions, Later
  <1> QED
    BY <1>9, <1>10, <1>11, <1>12, <1>13 DEF IInv

-----------------------------------------------------------------------------
(* Publication and the life of a version.                                  *)

\* What does not touch the jobs or the requests leaves their lineage as it is.
LEMMA LineageFrame ==
    ASSUME IInv, UNCHANGED <<jobs, ingestion>>
    PROVE  (\A j \in Jobs : LineageOK(j)') /\ (\A r \in Requests : IngestionOK(r)')
  BY DEF IInv, LineageOK, IngestionOK, Existing

LEMMA BeginPublishPreserves ==
    ASSUME IInv, NEW j \in Jobs, NEW a \in Actors, BeginPublish(j, a)
    PROVE  IInv'
  <1>1. /\ publishing' = [publishing EXCEPT ![j] = a] /\ publishing \in [Jobs -> OrNone(Actors)]
        /\ UNCHANGED <<ingestion, jobs, versions, sources, purged, overtaken>>
    BY DEF BeginPublish, IInv, CatalogueTypeOK
  <1>2. CatalogueTypeOK'
    BY <1>1 DEF IInv, CatalogueTypeOK, OrNone
  <1>3. \A i \in Jobs : JobOK(i)'
    BY <1>1 DEF IInv, JobOK, BeginPublish
  <1>4. PublicationIsGrounded' /\ LatestIsPublished'
    BY <1>1 DEF IInv, PublicationIsGrounded, LatestIsPublished, Versions, Later
  <1> QED
    BY <1>1, <1>2, <1>3, <1>4, LineageFrame DEF IInv

\* The new version is the first of its job, and nothing has superseded it.
LEMMA FinishPublishPreserves ==
    ASSUME IInv, NEW j \in Jobs, FinishPublish(j)
    PROVE  IInv'
  <1> DEFINE version == [state |-> "published", text |-> jobs[j].proposal.text,
                         approver |-> jobs[j].approver, publisher |-> publishing[j],
                         successor |-> None, ruling |-> jobs[j].ruling,
                         purged |-> jobs[j].payload \in purged]
             job == [jobs[j] EXCEPT !.state = "published"]
  <1>1. /\ versions' = [versions EXCEPT ![j] = version]
        /\ jobs' = [jobs EXCEPT ![j] = job]
        /\ publishing' = [publishing EXCEPT ![j] = None]
        /\ sources' = [sources EXCEPT ![jobs[j].proposal.text.source] = jobs[j].proposal.title]
        /\ UNCHANGED <<ingestion, purged, overtaken>>
    BY DEF FinishPublish
  <1>2. /\ jobs \in [Jobs -> Job] /\ versions \in [Jobs -> Version]
        /\ publishing \in [Jobs -> OrNone(Actors)]
        /\ sources \in [{t.source : t \in Texts} -> OrNone(Titles)]
    BY DEF IInv, CatalogueTypeOK
  <1>3. /\ jobs[j].state = "approved" /\ jobs[j].proposal \in Proposals
        /\ jobs[j].approver \in Actors /\ jobs[j].approver # publishing[j]
        /\ jobs[j].ruling = [by |-> jobs[j].approver, text |-> jobs[j].proposal.text]
        /\ jobs[j].payload \in purged => j \in overtaken
        /\ versions[j].state = "absent" /\ publishing[j] # None
    BY DEF IInv, JobOK, FinishPublish
  <1>4. jobs[j].proposal.text \in Texts /\ jobs[j].proposal.title \in Titles
    BY <1>3 DEF Proposals
  <1>5. version \in Version
    BY <1>2, <1>3, <1>4 DEF Version, Job, OrNone, Ruling
  <1>6. /\ version.state = "published" /\ version.text = jobs[j].proposal.text
        /\ version.approver = jobs[j].approver /\ version.publisher = publishing[j]
        /\ version.successor = None /\ version.ruling = jobs[j].ruling
        /\ version.purged = (jobs[j].payload \in purged)
    OBVIOUS
  <1>7. /\ job \in Job /\ job.state = "published" /\ job.key = jobs[j].key
        /\ job.payload = jobs[j].payload /\ job.known = jobs[j].known
        /\ job.lineage = jobs[j].lineage /\ job.edited = jobs[j].edited
    BY <1>2 DEF Job
  <1> HIDE DEF version, job
  <1>8. /\ \A i \in Jobs : versions'[i] = IF i = j THEN version ELSE versions[i]
        /\ \A i \in Jobs : jobs'[i] = IF i = j THEN job ELSE jobs[i]
        /\ \A i \in Jobs : publishing'[i] = IF i = j THEN None ELSE publishing[i]
    BY <1>1, <1>2
  <1>9. CatalogueTypeOK'
    <2>1. None \in OrNone(Actors) /\ jobs[j].proposal.title \in OrNone(Titles)
      BY <1>4 DEF OrNone
    <2> QED
      BY <1>1, <1>2, <1>5, <1>7, <2>1 DEF IInv, CatalogueTypeOK
  <1>10. \A i \in Jobs : JobOK(i)'
    <2>1. JobOK(j)'
      BY <1>7, <1>8 DEF JobOK
    <2>2. \A i \in Jobs \ {j} : JobOK(i)'
      BY <1>1, <1>8 DEF IInv, JobOK
    <2> QED
      BY <2>1, <2>2
  <1>11. Existing' = Existing
    BY <1>3, <1>7, <1>8 DEF Existing
  <1>12. \A i \in Jobs : /\ jobs'[i].key = jobs[i].key /\ jobs'[i].payload = jobs[i].payload
                         /\ jobs'[i].known = jobs[i].known /\ jobs'[i].lineage = jobs[i].lineage
                         /\ jobs'[i].edited = jobs[i].edited
    BY <1>7, <1>8
  <1>13. Existing \subseteq Jobs
    BY DEF Existing
  <1>14. \A i \in Jobs : LineageOK(i)'
    BY <1>11, <1>12, <1>13 DEF IInv, LineageOK
  <1>15. \A r \in Requests : IngestionOK(r)'
    BY <1>1, <1>11, <1>12, <1>13 DEF IInv, IngestionOK
  <1>16. Versions' = Versions \cup {j} /\ Versions \subseteq Jobs /\ j \notin Versions
    BY <1>3, <1>6, <1>8 DEF Versions
  <1>17. PublicationIsGrounded'
    <2>1. /\ versions'[j].ruling = [by |-> versions'[j].approver, text |-> versions'[j].text]
          /\ versions'[j].approver # versions'[j].publisher
      BY <1>3, <1>6, <1>8
    <2>2. versions'[j].purged => j \in overtaken'
      BY <1>1, <1>3, <1>6, <1>8
    <2>3. \A i \in Versions : versions'[i] = versions[i]
      BY <1>8, <1>16
    <2> QED
      BY <1>1, <1>16, <2>1, <2>2, <2>3 DEF IInv, PublicationIsGrounded
  <1>18. LatestIsPublished'
    BY <1>6, <1>8, <1>16 DEF IInv, LatestIsPublished, Later
  <1> QED
    BY <1>9, <1>10, <1>14, <1>15, <1>17, <1>18 DEF IInv

LEMMA AbandonPublishPreserves ==
    ASSUME IInv, NEW j \in Jobs, AbandonPublish(j)
    PROVE  IInv'
  <1>1. /\ publishing' = [publishing EXCEPT ![j] = None] /\ publishing \in [Jobs -> OrNone(Actors)]
        /\ overtaken' = overtaken \ {j} /\ publishing[j] # None
        /\ UNCHANGED <<ingestion, jobs, versions, sources, purged>>
    BY DEF AbandonPublish, IInv, CatalogueTypeOK
  <1>2. CatalogueTypeOK'
    BY <1>1 DEF IInv, CatalogueTypeOK, OrNone
  <1>3. \A i \in Jobs : JobOK(i)'
    BY <1>1 DEF IInv, JobOK
  <1>4. versions[j].state = "absent"
    BY <1>1 DEF IInv, JobOK
  <1>5. PublicationIsGrounded'
    BY <1>1, <1>4 DEF IInv, PublicationIsGrounded, Versions
  <1>6. LatestIsPublished'
    BY <1>1 DEF IInv, LatestIsPublished, Versions, Later
  <1> QED
    BY <1>1, <1>2, <1>3, <1>5, <1>6, LineageFrame DEF IInv

LEMMA PurgeDocumentPreserves ==
    ASSUME IInv, NEW p \in Payloads, PurgeDocument(p)
    PROVE  IInv'
  <1>1. /\ purged' = purged \cup {p} /\ p \in DocumentPayloads
        /\ overtaken' = overtaken \cup {j \in Jobs : publishing[j] # None /\ jobs[j].payload = p}
        /\ UNCHANGED <<ingestion, jobs, versions, sources, publishing>>
    BY DEF PurgeDocument
  <1>2. CatalogueTypeOK'
    BY <1>1 DEF IInv, CatalogueTypeOK
  <1>3. \A i \in Jobs : JobOK(i)'
    BY <1>1 DEF IInv, JobOK
  <1>4. PublicationIsGrounded' /\ LatestIsPublished'
    BY <1>1 DEF IInv, PublicationIsGrounded, LatestIsPublished, Versions, Later
  <1> QED
    BY <1>1, <1>2, <1>3, <1>4, LineageFrame DEF IInv

LEMMA SupersedePreserves ==
    ASSUME IInv, NEW j \in Jobs, NEW s \in Jobs, Supersede(j, s)
    PROVE  IInv'
  <1> DEFINE version == [versions[j] EXCEPT !.state = "superseded", !.successor = s]
  <1>1. /\ versions' = [versions EXCEPT ![j] = version] /\ versions \in [Jobs -> Version]
        /\ j # s /\ versions[j].state = "published" /\ versions[s].state = "published"
        /\ Later(j, s)
        /\ UNCHANGED <<ingestion, jobs, sources, publishing, purged, overtaken>>
    BY DEF Supersede, Later, IInv, CatalogueTypeOK
  <1>2. /\ version \in Version /\ version.state = "superseded" /\ version.successor = s
        /\ version.text = versions[j].text /\ version.approver = versions[j].approver
        /\ version.publisher = versions[j].publisher /\ version.ruling = versions[j].ruling
        /\ version.purged = versions[j].purged
    BY <1>1 DEF Version, OrNone
  <1> HIDE DEF version
  <1>3. \A i \in Jobs : versions'[i] = IF i = j THEN version ELSE versions[i]
    BY <1>1
  <1>4. CatalogueTypeOK'
    BY <1>1, <1>2 DEF IInv, CatalogueTypeOK
  <1>5. \A i \in Jobs : JobOK(i)'
    BY <1>1, <1>2, <1>3 DEF IInv, JobOK
  <1>6. Versions' = Versions /\ Versions \subseteq Jobs /\ j \in Versions /\ s \in Versions
    BY <1>1, <1>2, <1>3 DEF Versions
  <1>7. PublicationIsGrounded'
    BY <1>1, <1>2, <1>3, <1>6 DEF IInv, PublicationIsGrounded
  <1>8. \A i \in Jobs : versions'[i].text = versions[i].text
    BY <1>2, <1>3
  <1>9. LatestIsPublished'
    BY <1>1, <1>2, <1>3, <1>6, <1>8 DEF IInv, LatestIsPublished, Later
  <1> QED
    BY <1>1, <1>4, <1>5, <1>7, <1>9, LineageFrame DEF IInv

\* By the invariant only a superseded version is archived.
LEMMA ArchivePreserves ==
    ASSUME IInv, NEW j \in Jobs, Archive(j)
    PROVE  IInv'
  <1> DEFINE version == [versions[j] EXCEPT !.state = "archived"]
  <1>1. /\ versions' = [versions EXCEPT ![j] = version] /\ versions \in [Jobs -> Version]
        /\ UNCHANGED <<ingestion, jobs, sources, publishing, purged, overtaken>>
    BY DEF Archive, IInv, CatalogueTypeOK
  <1>2. /\ version \in Version /\ version.state = "archived"
        /\ version.successor = versions[j].successor
        /\ version.text = versions[j].text /\ version.approver = versions[j].approver
        /\ version.publisher = versions[j].publisher /\ version.ruling = versions[j].ruling
        /\ version.purged = versions[j].purged
    BY <1>1 DEF Version
  <1> HIDE DEF version
  <1>3. \A i \in Jobs : versions'[i] = IF i = j THEN version ELSE versions[i]
    BY <1>1
  <1>4. j \in Versions /\ versions[j].state # "published"
    BY DEF Archive, IInv, LatestIsPublished, Versions
  <1>5. CatalogueTypeOK'
    BY <1>1, <1>2 DEF IInv, CatalogueTypeOK
  <1>6. \A i \in Jobs : JobOK(i)'
    BY <1>1, <1>2, <1>3, <1>4 DEF IInv, JobOK, Versions
  <1>7. Versions' = Versions /\ Versions \subseteq Jobs
    BY <1>2, <1>3, <1>4 DEF Versions
  <1>8. PublicationIsGrounded'
    BY <1>1, <1>2, <1>3, <1>7 DEF IInv, PublicationIsGrounded
  <1>9. \A i \in Jobs : /\ versions'[i].text = versions[i].text
                        /\ versions'[i].successor = versions[i].successor
                        /\ (versions'[i].state = "published") = (versions[i].state = "published")
    BY <1>2, <1>3, <1>4
  <1>10. LatestIsPublished'
    BY <1>7, <1>9 DEF IInv, LatestIsPublished, Later
  <1> QED
    BY <1>1, <1>5, <1>6, <1>8, <1>10, LineageFrame DEF IInv

-----------------------------------------------------------------------------
LEMMA NextPreserves == IInv /\ [CatalogueNext]_catalogueVars => IInv'
  <1> SUFFICES ASSUME IInv, [CatalogueNext]_catalogueVars PROVE IInv'
    OBVIOUS
  <1>1. ASSUME NEW r \in Requests,
               \/ \E k \in Keys, p \in Payloads : BeginIngest(r, k, p)
               \/ LookUpKey(r)
               \/ LookUpLineage(r)
               \/ InsertJob(r)
               \/ AbandonIngest(r)
        PROVE  IInv'
    BY <1>1, BeginIngestPreserves, LookUpKeyPreserves, LookUpLineagePreserves, InsertJobPreserves,
       AbandonIngestPreserves
  <1>2. ASSUME NEW j \in Jobs,
               \/ \E l \in BOOLEAN, q \in Proposals \cup {jobs[j].proposal} : ReviewJob(j, l, q)
               \/ \E a \in Actors, q \in Proposals : Approve(j, a, q)
               \/ Reject(j)
               \/ \E t \in Titles : CorrectMetadata(j, t)
        PROVE  IInv'
    BY <1>2, ReviewDecides, ApproveDecides, RejectDecides, CorrectDecides, DecidedPreserves
  <1>3. ASSUME NEW j \in Jobs,
               \/ \E a \in Actors : BeginPublish(j, a)
               \/ FinishPublish(j)
               \/ AbandonPublish(j)
               \/ \E s \in Jobs : Supersede(j, s)
               \/ Archive(j)
        PROVE  IInv'
    BY <1>3, BeginPublishPreserves, FinishPublishPreserves, AbandonPublishPreserves,
       SupersedePreserves, ArchivePreserves
  <1>4. ASSUME NEW p \in Payloads, PurgeDocument(p)
        PROVE  IInv'
    BY <1>4, PurgeDocumentPreserves
  <1>5. CASE UNCHANGED catalogueVars
    <2>1. UNCHANGED <<jobs, ingestion, versions, sources, publishing, purged, overtaken>>
      BY <1>5 DEF catalogueVars
    <2>2. CatalogueTypeOK'
      BY <2>1 DEF IInv, CatalogueTypeOK
    <2>3. \A r \in Requests : IngestionOK(r)'
      BY <2>1, LineageFrame
    <2> QED
      BY <2>1, <2>2, <2>3, IngestionFrame DEF IInv
  <1> QED
    BY <1>1, <1>2, <1>3, <1>4, <1>5 DEF CatalogueNext

(* The inductive invariant holds in every reachable state.                 *)
THEOREM Inductive == CatalogueSpec => []IInv
  BY InitEstablishes, NextPreserves, PTL DEF CatalogueSpec

(* Every request, job, version and source keeps its type: only the states  *)
(* the repository knows are ever written.                                  *)
THEOREM TypeCorrect == CatalogueSpec => []CatalogueTypeOK
  <1>1. IInv => CatalogueTypeOK
    BY DEF IInv
  <1> QED
    BY <1>1, Inductive, PTL

(* _persist_ingestion_job: one job for one key and one payload, unless the *)
(* ingestions overlapped or a review has edited a job.                     *)
THEOREM IngestionsAreOneHolds == CatalogueSpec => []IngestionsAreOne
  <1>1. IInv => IngestionsAreOne
    <2> SUFFICES ASSUME IInv, NEW i \in Existing, NEW j \in Existing,
                        jobs[i].key = jobs[j].key \/ jobs[i].payload = jobs[j].payload,
                        ~ jobs[i].edited, ~ jobs[j].edited
                 PROVE  i \notin jobs[j].known /\ j \notin jobs[i].known
      BY DEF IngestionsAreOne
    <2>1. LineageOK(i) /\ LineageOK(j)
      BY DEF IInv, Existing
    <2> QED
      BY <2>1 DEF LineageOK
  <1> QED
    BY <1>1, Inductive, PTL

(* publish_ingestion_job: what is published was approved last and by       *)
(* another, and its document was not purged before the publication began.  *)
THEOREM PublicationIsGroundedHolds == CatalogueSpec => []PublicationIsGrounded
  <1>1. IInv => PublicationIsGrounded
    BY DEF IInv
  <1> QED
    BY <1>1, Inductive, PTL

(* supersede_source_version and archive_source_version: a version that is  *)
(* not published any more has a later one that was.                        *)
THEOREM LatestIsPublishedHolds == CatalogueSpec => []LatestIsPublished
  <1>1. IInv => LatestIsPublished
    BY DEF IInv
  <1> QED
    BY <1>1, Inductive, PTL
=============================================================================
