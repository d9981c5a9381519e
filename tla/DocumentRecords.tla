--------------------------- MODULE DocumentRecords ---------------------------
(***************************************************************************)
(* The life of a registered document: document_registry.py,                *)
(* document_lifecycle.py, compliance_override.py and document_purge.py of  *)
(* services/document_ai/app, and the endpoints of main.py that drive them. *)
(*                                                                         *)
(* An endpoint reads the document once, decides on that snapshot, and      *)
(* writes the whole row back; each of these, and each access to a          *)
(* compliance grant, is a transaction of its own, so the steps of two      *)
(* requests interleave.  A purge is a saga: the operation and its manifest *)
(* are inserted, the stored object deleted, and the outcome recorded.  A   *)
(* starting process resumes the purges a crash has interrupted before it   *)
(* accepts traffic, while others serve.  Meanwhile workers write what they *)
(* derive from a document, and clients what their URLs still let them.     *)
(*                                                                         *)
(* A document has one stored object (upload confirmation registers one     *)
(* version), so a purge has one target.  Timestamps are kept as whether    *)
(* they are set, and of a document's columns those that decide something.  *)
(***************************************************************************)
EXTENDS Naturals, Sequences

CONSTANTS
    Documents,
    Clients,        \* requests that may be in flight at once
    Startup,        \* the startup handler of a process
    Grants,         \* compliance overrides, one per override_id
    Scope,          \* the document and the command a grant is for
    NoGrant,        \* a request without compliance_override_id
    EvidenceInserts,  \* whether an insert of override evidence can succeed
    MaxOperations   \* bound: purge operations

ASSUME DocumentAssumption ==
    /\ Startup \notin Clients
    /\ NoGrant \notin Grants
    /\ Scope \in [Grants -> [document: Documents,
                             command: {"trash", "restore", "mark", "purge"}]]
    /\ EvidenceInserts \in BOOLEAN
    /\ MaxOperations \in Nat

VARIABLES
    documents,    \* document_ai_documents
    locked,       \* documents under an active compliance lock
    objects,      \* what storage has under each document's key
    indexed,      \* documents whose versions, chunks and embeddings are not purged
    working,      \* documents a worker is at work on
    grants,       \* status of each compliance override
    audit,        \* overrides whose use is in the audit evidence
    lapsed,       \* grants past expires_at
    operations,   \* document_ai_purge_operations, oldest first
    requests,     \* what each request has read and has yet to do
    backlog       \* the operations a starting process has yet to resume: their documents

\* History.
VARIABLES
    approvals,    \* overrides that have been approved
    late          \* documents a worker was at work on when a purge of them was completed

dataVars == <<objects, indexed, working, late>>
grantVars == <<grants, approvals, audit>>
storeVars == <<documents, dataVars, grantVars, operations>>
documentVars == <<storeVars, locked, lapsed, requests, backlog>>

States == {"active", "trashed", "purge_pending", "uploaded", "processing",
           "validated", "eligible_for_purge", "purged"}
LifecycleCommands == {"trash", "restore", "mark", "purge"}
Statuses == {"absent", "requested", "approved", "rejected", "consumed", "expired"}
Processes == Clients \cup {Startup}

Document == [state: States, eligibleAt: BOOLEAN, purgedAt: BOOLEAN]
\* With one target the state says all: it is deleted or pending, failed being as good as pending.
Operation == [document: Documents, state: {"running", "completed"}]
Request == [stage: {"seen", "granting", "evidencing", "granted", "deleting", "recording"},
            command: LifecycleCommands \cup {"rename"}, document: Documents,
            seen: Document, grant: Grants \cup {NoGrant},
            verdict: {"absent", "expired", "consumed"},
            operation: 0..MaxOperations, resolved: BOOLEAN]
Reviewing == [stage: {"granting", "evidencing"}, command: {"request", "approve", "reject"},
              document: Documents, grant: Grants,
              verdict: {"requested", "approved", "rejected", "expired"}]
Idle == [stage |-> "idle"]

DocumentTypeOK ==
    /\ documents \in [Documents -> Document]
    /\ locked \in SUBSET Documents
    /\ objects \in [Documents -> {"stored", "gone", "put back"}]
    /\ indexed \in SUBSET Documents /\ working \in SUBSET Documents
    /\ grants \in [Grants -> Statuses]
    /\ audit \in SUBSET Grants
    /\ lapsed \in SUBSET Grants
    /\ operations \in Seq(Operation) /\ Len(operations) <= MaxOperations
    /\ requests \in [Processes -> Request \cup Reviewing \cup {Idle}]
    /\ DOMAIN backlog \subseteq 1..MaxOperations /\ backlog \in [DOMAIN backlog -> Document]
    /\ approvals \in SUBSET Grants
    /\ late \in SUBSET Documents

\* Upload confirmation registers a document as processing; locks are set outside this code.
DocumentInit ==
    /\ documents = [d \in Documents |->
          [state |-> "processing", eligibleAt |-> FALSE, purgedAt |-> FALSE]]
    /\ locked \in SUBSET Documents
    /\ objects = [d \in Documents |-> "stored"]
    /\ indexed = Documents
    /\ working = {}
    /\ grants = [g \in Grants |-> "absent"]
    /\ audit = {}
    /\ lapsed = {}
    /\ operations = <<>>
    /\ requests = [p \in Processes |-> Idle]
    /\ backlog = <<>>
    /\ approvals = {}
    /\ late = {}

-----------------------------------------------------------------------------
(* The lifecycle rules, as functions of the state a request has seen.      *)

Transitions == [
    active |-> {"trashed", "purge_pending"},
    trashed |-> {"active", "purge_pending"},
    purge_pending |-> {},
    uploaded |-> {"processing", "eligible_for_purge", "trashed", "purge_pending"},
    processing |-> {"validated", "eligible_for_purge", "trashed", "purge_pending"},
    validated |-> {"eligible_for_purge", "trashed", "purge_pending"},
    eligible_for_purge |-> {"processing", "purged"},
    purged |-> {}]

\* Seeded fault: a purged document may be restored.
Targets_PurgedRestorable(command, state) ==
    CASE command = "trash" -> {"trashed"} \cap (Transitions[state] \cup {state})
      [] command = "mark" -> {"eligible_for_purge"} \cap Transitions[state]
      [] command = "restore" /\ state \in {"active", "trashed"} -> {"active"}
      [] command = "restore" /\ state \in {"eligible_for_purge", "purged"} -> {"processing"}
      [] OTHER -> {}

\* The state a command leads to, if the rules allow it.
Targets(command, state) ==
    CASE command = "trash" -> {"trashed"} \cap (Transitions[state] \cup {state})
      [] command = "mark" -> {"eligible_for_purge"} \cap Transitions[state]
      [] command = "restore" /\ state \in {"active", "trashed"} -> {"active"}
      [] command = "restore" /\ state = "eligible_for_purge" -> {"processing"}
      [] OTHER -> {}

\* Whether the rules let a command act on the document as it was read.
Accepts(command, seen) ==
    CASE command = "rename" ->
            seen.state \notin {"trashed", "purge_pending", "purged", "eligible_for_purge"}
      [] command = "purge" -> seen.state = "eligible_for_purge" /\ seen.eligibleAt
      [] OTHER -> Targets(command, seen.state) # {}

Blocked(r) == r.document \in locked /\ r.stage # "granted"

\* A request consumes a grant only if it names one and its snapshot is locked.
NeedsGrant(r) == r.stage = "seen" /\ r.document \in locked /\ r.grant # NoGrant
Decides(r) == r.stage = "granted" \/ (r.stage = "seen" /\ ~NeedsGrant(r))

-----------------------------------------------------------------------------
(* Requests.                                                               *)

Doing(p, command) ==
    /\ requests[p] # Idle
    /\ requests[p].command = command
Answer(p) == requests' = [requests EXCEPT ![p] = Idle]
Advance(p, r) == requests' = [requests EXCEPT ![p] = r]

Snapshot(command, d, g) ==
    [stage |-> "seen", command |-> command, document |-> d, seen |-> documents[d],
     grant |-> g, verdict |-> "absent", operation |-> 0, resolved |-> FALSE]

\* A request that the rules refuse, now or once its grant is used up, is left out; and a grant
\* named for an unlocked document is not looked at.
Read(c) ==
    /\ requests[c] = Idle
    /\ \E command \in LifecycleCommands \cup {"rename"}, d \in Documents,
          g \in Grants \cup {NoGrant} :
          /\ Accepts(command, documents[d])
          /\ g # NoGrant => d \in locked /\ command # "rename"
          /\ Advance(c, Snapshot(command, d, g))
    /\ UNCHANGED <<storeVars, locked, lapsed, backlog>>

\* Refused, failed, or gone with its process.
Abandon(c) ==
    /\ requests[c] # Idle
    /\ Answer(c)
    /\ UNCHANGED <<storeVars, locked, lapsed, backlog>>

-----------------------------------------------------------------------------
(* Compliance overrides: a status is read, written in a later transaction  *)
(* without looking at it again, and put on evidence in a third.  Those for *)
(* a document without a lock nothing reads, and they are left out.         *)

Review(c) ==
    /\ requests[c] = Idle
    /\ \E command \in {"request", "approve", "reject"}, g \in Grants :
          /\ Scope[g].document \in locked
          /\ grants[g] = IF command = "request" THEN "absent" ELSE "requested"
          /\ Advance(c, [stage |-> "granting", command |-> command,
                document |-> Scope[g].document, grant |-> g,
                verdict |-> CASE command = "request" -> "requested"
                              [] g \in lapsed -> "expired"
                              [] command = "approve" -> "approved"
                              [] command = "reject" -> "rejected"])
    /\ UNCHANGED <<storeVars, locked, lapsed, backlog>>

\* Seeded fault: a grant that is still being reviewed is as good as an approved one.
Usable_Unreviewed(r) ==
    /\ grants[r.grant] \in {"requested", "approved"}
    /\ Scope[r.grant] = [document |-> r.document, command |-> r.command]

Usable(r) ==
    /\ grants[r.grant] = "approved"
    /\ Scope[r.grant] = [document |-> r.document, command |-> r.command]

\* consume_compliance_override_for_action, up to the write.
LookUpGrant(c) ==
    LET r == requests[c] IN
    /\ r # Idle
    /\ NeedsGrant(r)
    /\ IF Usable(r)
       THEN Advance(c, [r EXCEPT !.stage = "granting",
                !.verdict = IF r.grant \in lapsed THEN "expired" ELSE "consumed"])
       ELSE Answer(c)
    /\ UNCHANGED <<storeVars, locked, lapsed, backlog>>

\* _store_record.
StoreGrant(c) ==
    LET r == requests[c] IN
    /\ r # Idle
    /\ r.stage = "granting"
    /\ grants' = [grants EXCEPT ![r.grant] = r.verdict]
    /\ approvals' = approvals \cup {g \in {r.grant} : r.verdict = "approved"}
    /\ Advance(c, [r EXCEPT !.stage = "evidencing"])
    /\ UNCHANGED <<documents, dataVars, audit, operations, locked, lapsed, backlog>>

\* append_compliance_override.  Only of a use does it matter here.
RecordEvidence(c) ==
    LET r == requests[c] IN
    /\ r # Idle
    /\ r.stage = "evidencing"
    /\ EvidenceInserts
    /\ IF r.verdict = "consumed"
       THEN /\ audit' = audit \cup {r.grant}
            /\ Advance(c, [r EXCEPT !.stage = "granted", !.grant = NoGrant, !.verdict = "absent"])
       ELSE Answer(c) /\ UNCHANGED audit
    /\ UNCHANGED <<documents, dataVars, grants, approvals, operations, locked, lapsed, backlog>>

-----------------------------------------------------------------------------
(* Commands that write the row back.                                       *)

\* apply_document_retention_action for trash, restore and mark_eligible_for_purge.
ApplyRetention(c) ==
    LET r == requests[c] IN
    \E command \in LifecycleCommands \ {"purge"} :
       /\ Doing(c, command)
       /\ Decides(r)
       /\ ~Blocked(r)
       /\ \E target \in Targets(command, r.seen.state) :
             documents' = [documents EXCEPT ![r.document] =
                [r.seen EXCEPT !.state = target, !.eligibleAt = (command = "mark"),
                               !.purgedAt = FALSE]]
       /\ Answer(c)
       /\ UNCHANGED <<dataVars, grantVars, operations, locked, lapsed, backlog>>

\* update_document_metadata, but for the metadata and their revision, which nothing else reads: the
\* rest of the row goes back as it was seen.
UpdateMetadata(c) ==
    LET r == requests[c] IN
    /\ Doing(c, "rename")
    /\ Accepts("rename", r.seen)
    /\ documents' = [documents EXCEPT ![r.document] = r.seen]
    /\ Answer(c)
    /\ UNCHANGED <<dataVars, grantVars, operations, locked, lapsed, backlog>>

-----------------------------------------------------------------------------
(* The purge saga.                                                         *)

\* enforce_execute_purge_action.
MayPurge(r) == ~Blocked(r) /\ Accepts("purge", r.seen)

\* _request_purge_operation: the operation with this fingerprint, or a new one
\* with its manifest.  Fingerprints agree only if correlation and purged_at do.
RequestPurge(p) ==
    LET r == requests[p] IN
    /\ Doing(p, "purge")
    /\ Decides(r)
    /\ MayPurge(r)
    /\ \/ \E i \in DOMAIN operations :
             /\ operations[i].document = r.document
             /\ IF operations[i].state = "completed"
                THEN Answer(p)
                ELSE Advance(p, [r EXCEPT !.stage = "deleting", !.operation = i])
             /\ UNCHANGED operations
       \/ /\ Len(operations) < MaxOperations
          /\ operations' = Append(operations, [document |-> r.document, state |-> "running"])
          /\ Advance(p, [r EXCEPT !.stage = "deleting", !.operation = Len(operations) + 1])
    /\ UNCHANGED <<documents, dataVars, grantVars, locked, lapsed, backlog>>

\* Seeded fault: the provider's word is taken for the deletion.
DeleteOutcomes_Unverified(d) ==
    {[gone |-> gone, resolved |-> resolved] : gone \in BOOLEAN, resolved \in BOOLEAN}

\* delete_object, then verify_object_absent: either may fail, after the deletion
\* has taken effect too.
DeleteOutcomes(d) ==
    {[gone |-> TRUE, resolved |-> TRUE], [gone |-> TRUE, resolved |-> FALSE],
     [gone |-> objects[d] = "gone", resolved |-> FALSE]}

\* _delete_purge_target.
DeleteObject(p) ==
    LET r == requests[p] IN
    /\ Doing(p, "purge")
    /\ r.stage = "deleting"
    /\ \E outcome \in DeleteOutcomes(r.document) :
          /\ objects' = [objects EXCEPT ![r.document] = IF outcome.gone THEN "gone" ELSE @]
          /\ Advance(p, [r EXCEPT !.stage = "recording", !.resolved = outcome.resolved])
    /\ UNCHANGED <<documents, indexed, working, late, grantVars, operations, locked, lapsed,
                   backlog>>

\* Seeded fault: a failed attempt fails the operation.
Attempted_Fails(operation, resolved) ==
    [operation EXCEPT !.state = IF resolved THEN "completed" ELSE "failed"]

Attempted(operation, resolved) ==
    [operation EXCEPT !.state = IF resolved THEN "completed" ELSE "running"]

\* _record_purge_attempt_and_maybe_finalize, in one transaction.
RecordAttempt(p) ==
    LET r == requests[p] IN
    /\ Doing(p, "purge")
    /\ r.stage = "recording"
    /\ operations' = [operations EXCEPT ![r.operation] = Attempted(@, r.resolved)]
    /\ IF r.resolved
       THEN /\ documents' = [documents EXCEPT ![r.document].state = "purged",
                                              ![r.document].purgedAt = TRUE]
            /\ indexed' = indexed \ {r.document}
            /\ late' = (late \ {r.document}) \cup ({r.document} \cap working)
       ELSE UNCHANGED <<documents, indexed, late>>
    /\ Answer(p)
    /\ UNCHANGED <<objects, working, grantVars, locked, lapsed, backlog>>

-----------------------------------------------------------------------------
(* What others write of a document.                                        *)

\* A worker claims work only of documents in these states, and looks at its lease afterwards,
\* but not at the document: what it has begun it may go on with for as long as it runs.
Workable == {"uploaded", "processing", "validated", "active"}

StartWork(d) ==
    /\ documents[d].state \in Workable
    /\ d \notin working
    /\ working' = working \cup {d}
    /\ UNCHANGED <<documents, objects, indexed, late, grantVars, operations, locked, lapsed,
                   requests, backlog>>

Derive(d) ==
    /\ d \in working
    /\ indexed' = indexed \cup {d}
    /\ UNCHANGED <<documents, objects, working, late, grantVars, operations, locked, lapsed,
                   requests, backlog>>

StopWork(d) ==
    /\ d \in working
    /\ working' = working \ {d}
    /\ UNCHANGED <<documents, objects, indexed, late, grantVars, operations, locked, lapsed,
                   requests, backlog>>

\* A client with a URL that is still good.
PutObject(d) ==
    /\ objects[d] = "gone"
    /\ objects' = [objects EXCEPT ![d] = "put back"]
    /\ UNCHANGED <<documents, indexed, working, late, grantVars, operations, locked, lapsed,
                   requests, backlog>>

-----------------------------------------------------------------------------
(* Crash and restart of one process, while others serve.                   *)

Crash ==
    /\ requests[Startup] # Idle \/ backlog # <<>>
    /\ Answer(Startup)
    /\ backlog' = <<>>
    /\ UNCHANGED <<storeVars, locked, lapsed>>

\* recover_pending_document_purges reads the interrupted operations and their documents.  A
\* process that finds none has nothing to wait for.
Start ==
    /\ requests[Startup] = Idle /\ backlog = <<>>
    /\ backlog' = [i \in {n \in DOMAIN operations : operations[n].state = "running"} |->
                     documents[operations[i].document]]
    /\ backlog' # <<>>
    /\ UNCHANGED <<storeVars, locked, lapsed, requests>>

\* The oldest of them: its document is purged without a grant, or the handler raises.
ResumePurge ==
    /\ requests[Startup] = Idle
    /\ \E i \in DOMAIN backlog :
          /\ \A j \in DOMAIN backlog : i <= j
          /\ LET r == [Snapshot("purge", operations[i].document, NoGrant)
                          EXCEPT !.seen = backlog[i]]
             IN IF MayPurge(r)
                THEN Advance(Startup, r) /\ backlog' = [j \in DOMAIN backlog \ {i} |-> backlog[j]]
                ELSE backlog' = <<>> /\ UNCHANGED requests
    /\ UNCHANGED <<storeVars, locked, lapsed>>

Lapse(g) ==
    /\ g \notin lapsed
    /\ grants[g] \in {"requested", "approved"}
    /\ lapsed' = lapsed \cup {g}
    /\ UNCHANGED <<storeVars, locked, requests, backlog>>

DocumentNext ==
    \/ \E c \in Clients :
          \/ Read(c) \/ Abandon(c)
          \/ Review(c) \/ LookUpGrant(c) \/ StoreGrant(c) \/ RecordEvidence(c)
          \/ ApplyRetention(c) \/ UpdateMetadata(c)
    \/ \E p \in Processes : RequestPurge(p) \/ DeleteObject(p) \/ RecordAttempt(p)
    \/ \E d \in Documents : StartWork(d) \/ Derive(d) \/ StopWork(d) \/ PutObject(d)
    \/ Crash \/ Start \/ ResumePurge
    \/ \E g \in Grants : Lapse(g)

DocumentSpec == DocumentInit /\ [][DocumentNext]_documentVars

-----------------------------------------------------------------------------
(* Properties.                                                             *)

\* The record of a purge and the storage agree, whatever attempts failed, ran twice, or were
\* overtaken by another request or a restart.  No purge is reported complete, on the operation
\* or on the document, unless the object it was to delete is gone; what there is in its place a
\* client has put there since (execute_document_purge).  Of a purged document nothing derived is
\* left but what a worker has written that was at work when the purge was completed.  And no
\* object is gone without an operation that says so, or that a restart looks for.
PurgeIsThorough ==
    \A d \in Documents :
       LET of(state) == \E i \in DOMAIN operations :
                           operations[i].document = d /\ operations[i].state = state
       IN  /\ documents[d].state = "purged" \/ of("completed") => objects[d] # "stored"
           /\ documents[d].state = "purged" => d \notin indexed \/ d \in late
           /\ objects[d] # "stored" => of("running") \/ of("completed")

\* A locked document leaves the state it was registered in only if an override for it was
\* approved, and its use is in the audit evidence: not by a request that read early, and not by
\* the purge a restart resumes (consume_compliance_override_for_action).  The evidence of the
\* approval itself may be missing: it is inserted after the approval is committed.
LockedDocumentNeedsGrant ==
    \A d \in locked :
       documents[d].state # "processing" =>
          \E g \in audit \cap approvals : Scope[g].document = d

\* A state change outside the lifecycle rules is the doing of a request whose
\* snapshot of the document is no longer true: with no request in between, every
\* command keeps the rules.
IllegalChangeIsStale ==
    [][\A d \in Documents :
         \/ documents'[d].state \in Transitions[documents[d].state] \cup {documents[d].state}
         \/ \E p \in Processes :
               /\ requests[p] # Idle
               /\ requests'[p] = Idle
               /\ requests[p].document = d
               /\ requests[p].seen # documents[d]]_documentVars
=============================================================================
