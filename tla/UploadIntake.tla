----------------------------- MODULE UploadIntake -----------------------------
(***************************************************************************)
(* How a document enters document_ai: an upload session, the bytes put     *)
(* into the object store under the URL it hands out, and the completion    *)
(* that checks them and registers the document with its processing work    *)
(* (upload_sessions.py, document_registry.py, storage_adapter.py and the   *)
(* endpoints of main.py in services/document_ai/app).                      *)
(*                                                                         *)
(* A file is what one owner asks a session for: names, type, size and      *)
(* checksum.  The identifiers of its session, its document and its object  *)
(* are hashes of that request, so a file has one of each.  A request with  *)
(* a malformed or mismatched payload is refused and changes nothing; so    *)
(* may any other be, at any stage (Refuse).                                *)
(*                                                                         *)
(* Document, version, artifact, operation, work item and outbox row are    *)
(* inserted by one transaction; what becomes of them afterwards is         *)
(* ProcessingWork, ProcessingOutbox and DocumentRecords.                   *)
(***************************************************************************)
EXTENDS Naturals, FiniteSets

CONSTANTS
    Files,
    Contents,       \* what an object may hold, by checksum
    Declared,       \* the content each file was declared with
    Keys,           \* idempotency keys; sessions and completions have tables of their own
    Requests,       \* requests that may be in flight at once
    TimeToLive,     \* UPLOAD_SESSION_TTL_MINUTES
    MaxTime,        \* bound: the clock
    None

ASSUME IntakeAssumption ==
    /\ Declared \in [Files -> Contents]
    /\ None \notin Contents \cup Keys \cup Files
    /\ TimeToLive \in Nat \ {0} /\ MaxTime \in Nat

VARIABLES
    clock,
    sessions,     \* document_ai_upload_sessions
    open,         \* until when a URL that a client has for a file's object is good
    objects,      \* what the store holds for each file
    documents,    \* document_ai_documents, with the version and the work behind each
    completions,  \* document_ai_completion_idempotency: the file each key has completed
    requests      \* what each request in flight has read

\* History.
VARIABLES
    overwritten,  \* files whose object was put after a completion had verified it
    answer        \* what the last step has told a client

intakeVars == <<clock, sessions, open, objects, documents, completions, requests,
                overwritten, answer>>

Time == 0..MaxTime
Expiry == 0..(MaxTime + TimeToLive)
Session == [state: {"active", "completed"}, key: Keys, expires: Expiry]
Document == [state: {"processing", "purged"}, key: Keys]

\* A row that is not there is not a row.
ASSUME NoRowAssumption == None \notin Session \cup Document

\* expires: of the session about to be stored; seen: the state of the session a completion read.
Request == [stage: {"create", "created", "complete", "verify", "confirm"}, file: Files, key: Keys,
            expires: Expiry, replay: BOOLEAN, seen: {"active", "completed"}]
Idle == [stage |-> "idle"]

Answer == [kind: {"session", "accepted"}, asked: Files, file: Files, key: Keys, expires: Expiry]

IntakeTypeOK ==
    /\ clock \in Time
    /\ sessions \in [Files -> Session \cup {None}]
    /\ open \in [Files -> Expiry]
    /\ objects \in [Files -> Contents \cup {None}]
    /\ documents \in [Files -> Document \cup {None}]
    /\ completions \in [Keys -> Files \cup {None}]
    /\ requests \in [Requests -> Request \cup {Idle}]
    /\ overwritten \in SUBSET Files
    /\ answer \in Answer \cup {None}

IntakeInit ==
    /\ clock = 0
    /\ sessions = [f \in Files |-> None]
    /\ open = [f \in Files |-> 0]
    /\ objects = [f \in Files |-> None]
    /\ documents = [f \in Files |-> None]
    /\ completions = [k \in Keys |-> None]
    /\ requests = [r \in Requests |-> Idle]
    /\ overwritten = {}
    /\ answer = None

Stage(r) == requests[r].stage
Enter(r, request) == requests' = [requests EXCEPT ![r] = request]
MoveOn(r, stage) == requests' = [requests EXCEPT ![r].stage = stage]
Finish(r) == requests' = [requests EXCEPT ![r] = Idle]

Tell(kind, asked, file, key, expires) ==
    answer' = [kind |-> kind, asked |-> asked, file |-> file, key |-> key, expires |-> expires]

\* An error answer, or none because the process has died.
Refuse(r) ==
    /\ requests[r] # Idle
    /\ Finish(r)
    /\ answer' = None
    /\ UNCHANGED <<clock, sessions, open, objects, documents, completions, overwritten>>

-----------------------------------------------------------------------------
(* Upload sessions.                                                        *)

OwnerOf(key) == {f \in Files : sessions[f] # None /\ sessions[f].key = key}

\* Seeded fault: the time to live is added twice.
ExpiryAt_Twice(now) == now + 2 * TimeToLive

ExpiryAt(now) == now + TimeToLive

\* The answer carries a URL to put the object, signed until the same time.
TellSession(r, f, key, expires) ==
    /\ Tell("session", requests[r].file, f, key, expires)
    /\ open' = [open EXCEPT ![f] = IF expires > @ THEN expires ELSE @]
    /\ Finish(r)

\* The key is looked up.  One that has been used for this very request has a stored answer.
BeginCreate(r, f, key) ==
    /\ Stage(r) = "idle"
    /\ OwnerOf(key) \subseteq {f}
    /\ f \in OwnerOf(key) => clock < sessions[f].expires
    /\ Enter(r, [stage |-> IF f \in OwnerOf(key) THEN "created" ELSE "create",
                 file |-> f, key |-> key, expires |-> ExpiryAt(clock),
                 replay |-> FALSE, seen |-> "active"])
    /\ answer' = None
    /\ UNCHANGED <<clock, sessions, open, objects, documents, completions, overwritten>>

\* ON CONFLICT (session_id) DO NOTHING.
Stored(row, new) == IF row = None THEN new ELSE row

\* A key that has been taken for another file meanwhile violates its unique constraint, if the
\* row would be inserted at all.
StoreSession(r) ==
    LET q == requests[r]
        f == q.file
    IN  /\ q.stage = "create"
        /\ sessions[f] = None => OwnerOf(q.key) = {}
        /\ sessions' = [sessions EXCEPT ![f] =
              Stored(@, [state |-> "active", key |-> q.key, expires |-> q.expires])]
        /\ MoveOn(r, "created")
        /\ answer' = None
        /\ UNCHANGED <<clock, open, objects, documents, completions, overwritten>>

\* The row of the key is read, and is the answer; if there is none, because the session had
\* been stored under another key, the answer is what was meant to be stored.
AnswerCreate(r) ==
    LET q == requests[r]
    IN  /\ q.stage = "created"
        /\ IF OwnerOf(q.key) = {}
           THEN TellSession(r, q.file, q.key, q.expires)
           ELSE \E f \in OwnerOf(q.key) : TellSession(r, f, q.key, sessions[f].expires)
        /\ UNCHANGED <<clock, sessions, objects, documents, completions, overwritten>>

-----------------------------------------------------------------------------
(* The object store, and what else happens.                                *)

Verified(f) == \E r \in Requests : Stage(r) = "confirm" /\ requests[r].file = f

\* A client puts some bytes, the declared ones or not, while a URL it has been given is good.
PutObject(f, content) ==
    /\ clock < open[f]
    /\ objects' = [objects EXCEPT ![f] = content]
    /\ overwritten' = IF Verified(f) \/ documents[f] # None
                      THEN overwritten \cup {f} ELSE overwritten
    /\ answer' = None
    /\ UNCHANGED <<clock, sessions, open, documents, completions, requests>>

\* The document is purged (DocumentRecords): its object is deleted, its row and session stay.
Purge(f) ==
    /\ documents[f] # None /\ documents[f].state = "processing"
    /\ documents' = [documents EXCEPT ![f].state = "purged"]
    /\ objects' = [objects EXCEPT ![f] = None]
    /\ answer' = None
    /\ UNCHANGED <<clock, sessions, open, completions, requests, overwritten>>

Tick ==
    /\ clock < MaxTime
    /\ clock' = clock + 1
    /\ answer' = None
    /\ UNCHANGED <<sessions, open, objects, documents, completions, requests, overwritten>>

-----------------------------------------------------------------------------
(* Completion: whether its key has a stored answer, the session, and the   *)
(* object are read one after the other, and the transaction comes last.    *)

BeginComplete(r, f, key) ==
    /\ Stage(r) = "idle"
    /\ Enter(r, [stage |-> "complete", file |-> f, key |-> key, expires |-> 0,
                 replay |-> completions[key] # None, seen |-> "active"])
    /\ answer' = None
    /\ UNCHANGED <<clock, sessions, open, objects, documents, completions, overwritten>>

\* A consumed session is let through only to replay; an expired one not even then.
ResolveSession(r) ==
    LET q == requests[r]
        row == sessions[q.file]
    IN  /\ q.stage = "complete"
        /\ row # None
        /\ clock < row.expires
        /\ row.state = "completed" => q.replay
        /\ Enter(r, [q EXCEPT !.stage = "verify", !.seen = row.state])
        /\ answer' = None
        /\ UNCHANGED <<clock, sessions, open, objects, documents, completions, overwritten>>

\* Seeded fault: the object is only looked for.
Intact_Present(object, declared) == object # None

Intact(object, declared) == object = declared

VerifyObject(r) ==
    LET f == requests[r].file
    IN  /\ Stage(r) = "verify"
        /\ Intact(objects[f], Declared[f])
        /\ MoveOn(r, "confirm")
        /\ answer' = None
        /\ UNCHANGED <<clock, sessions, open, objects, documents, completions, overwritten>>

\* Seeded fault: the session is locked and not compared with what was read.
Unmoved_Locked(row, seen) == row # None

Unmoved(row, seen) == row # None /\ row.state = seen

TellAccepted(r) ==
    LET q == requests[r]
    IN  Tell("accepted", q.file, q.file, q.key, 0) /\ Finish(r)

\* The transaction finds the answer the key has.
ReplayCompletion(r) ==
    LET q == requests[r]
    IN  /\ q.stage = "confirm"
        /\ Unmoved(sessions[q.file], q.seen)
        /\ completions[q.key] = q.file
        /\ TellAccepted(r)
        /\ UNCHANGED <<clock, sessions, open, objects, documents, completions, overwritten>>

\* idx_document_ai_documents_scope_checksum: an owner has one document of a content, ever.
Unregistered(content) == \A g \in Files : Declared[g] = content => documents[g] = None

\* It commits the document with version, artifact, operation, work item and outbox row, the
\* answer of the key, and the session.  A document that is there keeps its version and work.
Register(r) ==
    LET q == requests[r]
        f == q.file
    IN  /\ q.stage = "confirm"
        /\ Unmoved(sessions[f], q.seen)
        /\ completions[q.key] = None
        /\ documents[f] = None => Unregistered(Declared[f])
        /\ documents' = [documents EXCEPT ![f] =
              IF @ = None THEN [state |-> "processing", key |-> q.key] ELSE @]
        /\ completions' = [completions EXCEPT ![q.key] = f]
        /\ sessions' = [sessions EXCEPT ![f].state = "completed"]

Confirm(r) ==
    /\ Register(r)
    /\ TellAccepted(r)
    /\ UNCHANGED <<clock, open, objects, overwritten>>

\* The commit stands and its outcome does not arrive; nor does that of the lookup.
ConfirmUnseen(r) ==
    /\ Register(r)
    /\ Finish(r)
    /\ answer' = None
    /\ UNCHANGED <<clock, open, objects, overwritten>>

\* Seeded fault: the session having been completed is taken for the outcome.
Found_Session(q) == sessions[q.file].state = "completed"

\* What the lookup after a commit in doubt wants to see: an answer under the key, whichever
\* request has stored it.
Found(q) == completions[q.key] = q.file

Reconcile(r) ==
    /\ Stage(r) = "confirm"
    /\ Found(requests[r])
    /\ TellAccepted(r)
    /\ UNCHANGED <<clock, sessions, open, objects, documents, completions, overwritten>>

IntakeNext ==
    \/ Tick
    \/ \E f \in Files : Purge(f) \/ \E content \in Contents : PutObject(f, content)
    \/ \E r \in Requests :
          \/ \E f \in Files, key \in Keys :
                BeginCreate(r, f, key) \/ BeginComplete(r, f, key)
          \/ StoreSession(r) \/ AnswerCreate(r)
          \/ ResolveSession(r) \/ VerifyObject(r)
          \/ ReplayCompletion(r) \/ Confirm(r) \/ ConfirmUnseen(r) \/ Reconcile(r)
          \/ Refuse(r)

IntakeSpec == IntakeInit /\ [][IntakeNext]_intakeVars

-----------------------------------------------------------------------------
(* Properties.                                                             *)

\* However completions of a file overlap, under one key or several, one of them registers it:
\* the session is consumed exactly when the document is there, its version bears the one key
\* that has an answer for the file, and no other document of the owner has its content
\* (_register_persistent_confirmation_transaction).
ConfirmationsAreOne ==
    \A f \in Files :
        IF documents[f] = None
        THEN /\ sessions[f] # None => sessions[f].state = "active"
             /\ \A k \in Keys : completions[k] # f
        ELSE /\ sessions[f] # None /\ sessions[f].state = "completed"
             /\ {k \in Keys : completions[k] = f} = {documents[f].key}
             /\ \A g \in Files : documents[g] # None /\ Declared[g] = Declared[f] => g = f

\* A registered document has the bytes its artifact calls verified, unless its client has put
\* others after the completion looked at them: the URL stays good until the session expires,
\* and the transaction does not look again.
RegisteredBytesWereVerified ==
    \A f \in Files :
        documents[f] # None /\ documents[f].state = "processing"
            => objects[f] = Declared[f] \/ f \in overwritten

\* What a client is told: a completion is answered with success only if its key has registered
\* its file; a session answer is the row of its key and tells when that one expires, unless the
\* file was given its session under another key, whose expiry, not the one told, then counts.
AnswersAreTrue ==
    answer # None =>
        LET f == answer.file
        IN  /\ sessions[f] # None
            /\ answer.kind = "accepted" => f = answer.asked /\ completions[answer.key] = f
            /\ answer.kind = "session" =>
                  IF sessions[f].key = answer.key
                  THEN answer.expires = sessions[f].expires
                  ELSE f = answer.asked
=============================================================================
