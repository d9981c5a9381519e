------------------------- MODULE UploadIntakeProofs -------------------------
(***************************************************************************)
(* Proofs about UploadIntake for any number of files, contents, keys and   *)
(* requests, any time to live and any bound of the clock.                  *)
(*                                                                         *)
(* The properties are not inductive: what a request has read and carries   *)
(* to its transaction must still mean something there.  RequestOK says     *)
(* what: a stored session stays, a key that had an answer keeps one, a     *)
(* consumed session was let through for such a key only, and an object     *)
(* that was verified is the declared one until somebody replaces it.       *)
(***************************************************************************)
EXTENDS UploadIntake, TLAPS

\* The object is the declared one, or it has been put or purged since it was.
Sound(f) ==
    \/ objects[f] = Declared[f]
    \/ f \in overwritten
    \/ documents[f] # None /\ documents[f].state = "purged"

RequestOK(q) ==
    /\ q.stage = "created" => sessions[q.file] # None
    /\ q.stage \in {"complete", "verify", "confirm"} /\ q.replay => completions[q.key] # None
    /\ q.stage \in {"verify", "confirm"} /\ q.seen = "completed" => q.replay
    /\ q.stage = "confirm" => Sound(q.file)

RequestsOK == \A r \in Requests : RequestOK(requests[r])

IInv ==
    /\ IntakeTypeOK
    /\ RequestsOK
    /\ ConfirmationsAreOne
    /\ RegisteredBytesWereVerified
    /\ AnswersAreTrue

-----------------------------------------------------------------------------
(* Types.                                                                  *)

LEMMA Times ==
    ASSUME NEW t \in Time
    PROVE  t \in Nat /\ ExpiryAt(t) \in Expiry
  <1>1. TimeToLive \in Nat /\ MaxTime \in Nat
    BY IntakeAssumption
  <1> QED
    BY <1>1 DEF Time, Expiry, ExpiryAt

LEMMA Rows ==
    ASSUME IntakeTypeOK
    PROVE  /\ \A f \in Files : sessions[f] # None => sessions[f] \in Session
           /\ \A f \in Files : documents[f] # None => documents[f] \in Document
           /\ \A k \in Keys : completions[k] # None => completions[k] \in Files
           /\ \A r \in Requests : Stage(r) # "idle" => requests[r] \in Request
  BY DEF IntakeTypeOK, Stage, Idle

(* What a request under way carries.                                       *)
LEMMA Carried ==
    ASSUME NEW q \in Request
    PROVE  /\ q.file \in Files /\ q.key \in Keys /\ q.expires \in Expiry
           /\ q.replay \in BOOLEAN /\ q.seen \in {"active", "completed"}
           /\ q.stage # "idle" /\ q # Idle
  BY DEF Request, Idle

(* Moving on changes the stage and nothing else.                           *)
LEMMA Moved ==
    ASSUME NEW q \in Request, NEW s \in {"created", "confirm"}
    PROVE  LET p == [q EXCEPT !.stage = s]
           IN  /\ p \in Request
               /\ p.stage = s /\ p.file = q.file /\ p.key = q.key /\ p.expires = q.expires
               /\ p.replay = q.replay /\ p.seen = q.seen
  BY DEF Request

-----------------------------------------------------------------------------
(* Frames.                                                                 *)

\* What no step takes away from the requests that it is not a step of.
Keeps ==
    /\ \A f \in Files : sessions[f] # None => sessions'[f] # None
    /\ \A k \in Keys : completions[k] # None => completions'[k] # None
    /\ \A f \in Files : Verified(f) /\ Sound(f) => Sound(f)'

LEMMA OthersKept ==
    ASSUME IInv, Keeps, NEW r \in Requests, requests'[r] = requests[r]
    PROVE  RequestOK(requests[r])'
  <1>1. requests[r] \in Request \cup {Idle}
    BY DEF IInv, IntakeTypeOK
  <1>2. CASE requests[r] = Idle
    <2>1. requests'[r].stage = "idle"
      BY <1>2 DEF Idle
    <2> QED
      BY <2>1 DEF RequestOK
  <1>3. CASE requests[r] \in Request
    <2>1. requests[r].file \in Files /\ requests[r].key \in Keys
      BY <1>3, Carried
    <2>2. RequestOK(requests[r])
      BY DEF IInv, RequestsOK
    <2> DEFINE q == requests[r]
    <2>3. q.stage = "confirm" => Verified(q.file) /\ Sound(q.file)
      BY <2>2 DEF Verified, RequestOK, Stage
    <2>4. PICK f \in Files : f = q.file
      BY <2>1
    <2>5. q.stage = "confirm" => Sound(f)'
      BY <2>3, <2>4 DEF Keeps
    <2>6. q' = q
      OBVIOUS
    <2> QED
      BY <2>1, <2>2, <2>4, <2>5, <2>6 DEF Keeps, RequestOK, Sound
  <1> QED
    BY <1>1, <1>2, <1>3

(* A step of one request.                                                  *)
LEMMA OneRequest ==
    ASSUME IInv, Keeps, NEW r \in Requests, NEW q \in Request \cup {Idle},
           requests' = [requests EXCEPT ![r] = q], RequestOK(requests[r])'
    PROVE  /\ requests' \in [Requests -> Request \cup {Idle}]
           /\ RequestsOK'
  <1>1. requests \in [Requests -> Request \cup {Idle}]
    BY DEF IInv, IntakeTypeOK
  <1>2. ASSUME NEW p \in Requests PROVE RequestOK(requests[p])'
    <2>1. CASE p = r
      BY <2>1
    <2>2. CASE p # r
      <3>1. requests'[p] = requests[p]
        BY <1>1, <2>2
      <3> QED
        BY <3>1, OthersKept
    <2> QED
      BY <2>1, <2>2
  <1> QED
    BY <1>1, <1>2 DEF RequestsOK

LEMMA Finished ==
    ASSUME IInv, Keeps, NEW r \in Requests, Finish(r)
    PROVE  /\ requests' \in [Requests -> Request \cup {Idle}]
           /\ RequestsOK'
  <1>1. requests'[r] = Idle
    BY DEF IInv, IntakeTypeOK, Finish
  <1>2. RequestOK(requests[r])'
    BY <1>1 DEF RequestOK, Idle
  <1> QED
    BY <1>2, OneRequest DEF Finish

(* A step that leaves the tables alone.                                    *)
LEMMA TablesAlone ==
    ASSUME IInv, UNCHANGED <<sessions, objects, documents, completions, overwritten>>
    PROVE  Keeps /\ ConfirmationsAreOne' /\ RegisteredBytesWereVerified'
  <1>1. Keeps
    BY DEF Keeps, Sound
  <1>2. ConfirmationsAreOne'
    BY DEF IInv, ConfirmationsAreOne
  <1>3. RegisteredBytesWereVerified'
    BY DEF IInv, RegisteredBytesWereVerified
  <1> QED
    BY <1>1, <1>2, <1>3

LEMMA NothingSaid ==
    ASSUME answer' = None
    PROVE  AnswersAreTrue'
  BY DEF AnswersAreTrue

-----------------------------------------------------------------------------
(* One lemma for each action or group of actions.                          *)

LEMMA InitEstablishes == IntakeInit => IInv
  <1> SUFFICES ASSUME IntakeInit PROVE IInv
    OBVIOUS
  <1>1. 0 \in Time /\ 0 \in Expiry
    BY IntakeAssumption DEF Time, Expiry
  <1>2. IntakeTypeOK
    BY <1>1 DEF IntakeInit, IntakeTypeOK
  <1>3. RequestsOK
    BY DEF IntakeInit, RequestsOK, RequestOK, Idle
  <1>4. ConfirmationsAreOne
    BY IntakeAssumption DEF IntakeInit, ConfirmationsAreOne
  <1> QED
    BY <1>2, <1>3, <1>4 DEF IInv, IntakeInit, RegisteredBytesWereVerified, AnswersAreTrue

(* Requests that only read.                                                *)
LEMMA ReadStep ==
    ASSUME IInv, NEW r \in Requests, NEW q \in Request \cup {Idle}, RequestOK(q),
           requests' = [requests EXCEPT ![r] = q], answer' = None,
           UNCHANGED <<clock, sessions, open, objects, documents, completions, overwritten>>
    PROVE  IInv'
  <1>1. Keeps /\ ConfirmationsAreOne' /\ RegisteredBytesWereVerified' /\ AnswersAreTrue'
    BY TablesAlone, NothingSaid
  <1>2. requests'[r] = q
    BY DEF IInv, IntakeTypeOK
  <1>3. RequestOK(requests[r])'
    BY <1>2 DEF RequestOK, Sound
  <1>4. requests' \in [Requests -> Request \cup {Idle}] /\ RequestsOK'
    BY <1>1, <1>3, OneRequest
  <1>5. IntakeTypeOK'
    BY <1>4 DEF IInv, IntakeTypeOK
  <1> QED
    BY <1>1, <1>4, <1>5 DEF IInv

LEMMA RefuseStep ==
    ASSUME IInv, NEW r \in Requests, Refuse(r)
    PROVE  IInv'
  <1>1. RequestOK(Idle)
    BY DEF RequestOK, Idle
  <1> QED
    BY <1>1, ReadStep DEF Refuse, Finish

LEMMA BeginCreateStep ==
    ASSUME IInv, NEW r \in Requests, NEW f \in Files, NEW key \in Keys, BeginCreate(r, f, key)
    PROVE  IInv'
  <1> DEFINE q == [stage |-> IF f \in OwnerOf(key) THEN "created" ELSE "create",
                   file |-> f, key |-> key, expires |-> ExpiryAt(clock),
                   replay |-> FALSE, seen |-> "active"]
  <1>1. clock \in Time
    BY DEF IInv, IntakeTypeOK
  <1>2. q \in Request
    BY <1>1, Times DEF Request
  <1>3. RequestOK(q)
    BY DEF RequestOK, OwnerOf
  <1>4. /\ requests' = [requests EXCEPT ![r] = q] /\ answer' = None
        /\ UNCHANGED <<clock, sessions, open, objects, documents, completions, overwritten>>
    BY DEF BeginCreate, Enter
  <1> HIDE DEF q
  <1> QED
    BY <1>2, <1>3, <1>4, ReadStep

LEMMA BeginCompleteStep ==
    ASSUME IInv, NEW r \in Requests, NEW f \in Files, NEW key \in Keys, BeginComplete(r, f, key)
    PROVE  IInv'
  <1> DEFINE q == [stage |-> "complete", file |-> f, key |-> key, expires |-> 0,
                   replay |-> completions[key] # None, seen |-> "active"]
  <1>1. 0 \in Expiry
    BY IntakeAssumption DEF Expiry
  <1>2. q \in Request
    BY <1>1 DEF Request
  <1>3. RequestOK(q)
    BY DEF RequestOK
  <1>4. /\ requests' = [requests EXCEPT ![r] = q] /\ answer' = None
        /\ UNCHANGED <<clock, sessions, open, objects, documents, completions, overwritten>>
    BY DEF BeginComplete, Enter
  <1> HIDE DEF q
  <1> QED
    BY <1>2, <1>3, <1>4, ReadStep

LEMMA ResolveStep ==
    ASSUME IInv, NEW r \in Requests, ResolveSession(r)
    PROVE  IInv'
  <1> DEFINE q == requests[r]
             p == [q EXCEPT !.stage = "verify", !.seen = sessions[q.file].state]
  <1>1. q \in Request /\ q.stage = "complete"
    BY Rows DEF IInv, ResolveSession, Stage
  <1>2. q.file \in Files /\ sessions[q.file] \in Session
    BY <1>1, Carried, Rows DEF IInv, ResolveSession
  <1>3. /\ p \in Request /\ p.stage = "verify" /\ p.file = q.file /\ p.key = q.key
        /\ p.replay = q.replay /\ p.seen = sessions[q.file].state
    BY <1>1, <1>2 DEF Request, Session
  <1>4. q.replay => completions[q.key] # None
    BY <1>1 DEF IInv, RequestsOK, RequestOK
  <1>5. sessions[q.file].state = "completed" => q.replay
    BY DEF ResolveSession
  <1>6. /\ requests' = [requests EXCEPT ![r] = p] /\ answer' = None
        /\ UNCHANGED <<clock, sessions, open, objects, documents, completions, overwritten>>
    BY DEF ResolveSession, Enter
  <1> HIDE DEF p, q
  <1>7. RequestOK(p)
    BY <1>3, <1>4, <1>5 DEF RequestOK
  <1> QED
    BY <1>3, <1>6, <1>7, ReadStep

LEMMA VerifyStep ==
    ASSUME IInv, NEW r \in Requests, VerifyObject(r)
    PROVE  IInv'
  <1> DEFINE q == requests[r]
             p == [q EXCEPT !.stage = "confirm"]
  <1>1. q \in Request /\ q.stage = "verify"
    BY Rows DEF IInv, VerifyObject, Stage
  <1>2. /\ p \in Request /\ p.stage = "confirm" /\ p.file = q.file /\ p.key = q.key
        /\ p.replay = q.replay /\ p.seen = q.seen
    BY <1>1, Moved
  <1>3. /\ q.replay => completions[q.key] # None
        /\ q.seen = "completed" => q.replay
    BY <1>1 DEF IInv, RequestsOK, RequestOK
  <1>4. Sound(q.file)
    BY DEF VerifyObject, Intact, Sound
  <1>5. /\ requests' = [requests EXCEPT ![r] = p] /\ answer' = None
        /\ UNCHANGED <<clock, sessions, open, objects, documents, completions, overwritten>>
    BY DEF VerifyObject, MoveOn
  <1> HIDE DEF p, q
  <1>6. RequestOK(p)
    BY <1>2, <1>3, <1>4 DEF RequestOK
  <1> QED
    BY <1>2, <1>5, <1>6, ReadStep

(* A session is stored where there is none; those that are there stay.     *)
LEMMA StoreStep ==
    ASSUME IInv, NEW r \in Requests, StoreSession(r)
    PROVE  IInv'
  <1> DEFINE q == requests[r]
             p == [q EXCEPT !.stage = "created"]
             f == q.file
             new == [state |-> "active", key |-> q.key, expires |-> q.expires]
             row == IF sessions[f] = None THEN new ELSE sessions[f]
  <1>1. q \in Request
    BY Rows DEF IInv, StoreSession, Stage
  <1>2. f \in Files /\ new \in Session /\ new.state = "active"
    BY <1>1, Carried DEF Session
  <1>3. p \in Request /\ p.stage = "created" /\ p.file = f
    BY <1>1, Moved
  <1>4. /\ row \in Session /\ row # None
        /\ sessions[f] # None => row = sessions[f]
        /\ sessions[f] = None => row.state = "active"
    BY <1>2, Rows, NoRowAssumption DEF IInv
  <1>5. /\ sessions' = [sessions EXCEPT ![f] = row]
        /\ requests' = [requests EXCEPT ![r] = p] /\ answer' = None
        /\ UNCHANGED <<clock, open, objects, documents, completions, overwritten>>
    BY DEF StoreSession, Stored, MoveOn
  <1>6. IntakeTypeOK
    BY DEF IInv
  <1> HIDE DEF p, f, row
  <1>7. sessions'[f] = row /\ \A g \in Files \ {f} : sessions'[g] = sessions[g]
    BY <1>2, <1>5, <1>6 DEF IntakeTypeOK
  <1>8. Keeps
    BY <1>4, <1>5, <1>7 DEF Keeps, Sound
  <1>9. RequestOK(requests[r])'
    <2>1. requests'[r] = p
      BY <1>5, <1>6 DEF IntakeTypeOK
    <2> QED
      BY <1>2, <1>3, <1>4, <1>7, <2>1 DEF RequestOK
  <1>10. requests' \in [Requests -> Request \cup {Idle}] /\ RequestsOK'
    BY <1>3, <1>5, <1>8, <1>9, OneRequest
  <1>11. IntakeTypeOK'
    BY <1>4, <1>5, <1>6, <1>10 DEF IntakeTypeOK
  <1>12. ConfirmationsAreOne'
    <2>1. ConfirmationsAreOne
      BY DEF IInv
    <2> QED
      BY <1>4, <1>5, <1>7, <2>1 DEF ConfirmationsAreOne
  <1>13. RegisteredBytesWereVerified' /\ AnswersAreTrue'
    BY <1>5, NothingSaid DEF IInv, RegisteredBytesWereVerified
  <1> QED
    BY <1>10, <1>11, <1>12, <1>13 DEF IInv

LEMMA TellSessionType ==
    ASSUME IntakeTypeOK, NEW r \in Requests, NEW f \in Files, NEW key \in Keys,
           NEW expires \in Expiry, requests[r] \in Request, TellSession(r, f, key, expires)
    PROVE  /\ answer' \in Answer /\ open' \in [Files -> Expiry]
           /\ answer' = [kind |-> "session", asked |-> requests[r].file, file |-> f,
                         key |-> key, expires |-> expires]
  <1>1. requests[r].file \in Files
    BY Carried
  <1> QED
    BY <1>1 DEF TellSession, Tell, Answer, IntakeTypeOK

(* The answer is the row of the key, or what was meant to be stored.       *)
LEMMA AnswerStep ==
    ASSUME IInv, NEW r \in Requests, AnswerCreate(r)
    PROVE  IInv'
  <1> DEFINE q == requests[r]
  <1>1. q \in Request /\ q.stage = "created"
    BY Rows DEF IInv, AnswerCreate, Stage
  <1>2. /\ q.file \in Files /\ q.key \in Keys /\ q.expires \in Expiry
        /\ sessions[q.file] # None
    BY <1>1, Carried DEF IInv, RequestsOK, RequestOK
  <1>3. UNCHANGED <<clock, sessions, objects, documents, completions, overwritten>>
    BY DEF AnswerCreate
  <1>4. IntakeTypeOK
    BY DEF IInv
  <1>5. PICK f \in Files, expires \in Expiry :
           /\ TellSession(r, f, q.key, expires)
           /\ sessions[f] # None
           /\ IF sessions[f].key = q.key THEN expires = sessions[f].expires ELSE f = q.file
    <2>1. CASE OwnerOf(q.key) = {}
      <3>1. sessions[q.file].key # q.key
        BY <1>2, <2>1 DEF OwnerOf
      <3> QED
        BY <1>2, <2>1, <3>1 DEF AnswerCreate
    <2>2. CASE OwnerOf(q.key) # {}
      <3>1. PICK f \in OwnerOf(q.key) : TellSession(r, f, q.key, sessions[f].expires)
        BY <2>2 DEF AnswerCreate
      <3>2. f \in Files /\ sessions[f] # None /\ sessions[f].key = q.key
        BY DEF OwnerOf
      <3>3. sessions[f].expires \in Expiry
        BY <1>4, <3>2, Rows DEF Session
      <3> QED
        BY <3>1, <3>2, <3>3
    <2> QED
      BY <2>1, <2>2
  <1>6. /\ answer' \in Answer /\ open' \in [Files -> Expiry]
        /\ answer' = [kind |-> "session", asked |-> q.file, file |-> f,
                      key |-> q.key, expires |-> expires]
    BY <1>1, <1>2, <1>4, <1>5, TellSessionType
  <1>7. Keeps /\ ConfirmationsAreOne' /\ RegisteredBytesWereVerified'
    BY <1>3, TablesAlone
  <1>8. requests' \in [Requests -> Request \cup {Idle}] /\ RequestsOK'
    BY <1>5, <1>7, Finished DEF TellSession
  <1>9. IntakeTypeOK'
    BY <1>3, <1>4, <1>6, <1>8 DEF IntakeTypeOK
  <1>10. AnswersAreTrue'
    <2>1. /\ answer'.kind = "session" /\ answer'.file = f /\ answer'.asked = q.file
          /\ answer'.key = q.key /\ answer'.expires = expires
      BY <1>6
    <2> QED
      BY <1>3, <1>5, <2>1 DEF AnswersAreTrue
  <1> QED
    BY <1>7, <1>8, <1>9, <1>10 DEF IInv

(* Putting an object where one was verified is what overwritten records.   *)
LEMMA PutStep ==
    ASSUME IInv, NEW f \in Files, NEW content \in Contents, PutObject(f, content)
    PROVE  IInv'
  <1>1. /\ objects' = [objects EXCEPT ![f] = content]
        /\ overwritten' = IF Verified(f) \/ documents[f] # None
                          THEN overwritten \cup {f} ELSE overwritten
        /\ answer' = None
        /\ UNCHANGED <<clock, sessions, open, documents, completions, requests>>
    BY DEF PutObject
  <1>2. IntakeTypeOK
    BY DEF IInv
  <1>3. \A g \in Files \ {f} : objects'[g] = objects[g]
    BY <1>1, <1>2 DEF IntakeTypeOK
  <1>4. overwritten \subseteq overwritten'
    BY <1>1
  <1>5. Keeps
    <2> SUFFICES ASSUME NEW g \in Files, Verified(g), Sound(g)
                 PROVE  Sound(g)'
      BY <1>1 DEF Keeps
    <2>1. CASE g = f
      BY <1>1, <2>1 DEF Sound
    <2>2. CASE g # f
      BY <1>1, <1>3, <1>4, <2>2 DEF Sound
    <2> QED
      BY <2>1, <2>2
  <1>6. RequestsOK'
    BY <1>1, <1>5, OthersKept DEF RequestsOK
  <1>7. IntakeTypeOK'
    BY <1>1, <1>2 DEF IntakeTypeOK
  <1>8. ConfirmationsAreOne'
    BY <1>1 DEF IInv, ConfirmationsAreOne
  <1>9. RegisteredBytesWereVerified'
    <2>1. RegisteredBytesWereVerified
      BY DEF IInv
    <2> QED
      BY <1>1, <1>3, <1>4, <2>1 DEF RegisteredBytesWereVerified
  <1> QED
    BY <1>1, <1>6, <1>7, <1>8, <1>9, NothingSaid DEF IInv

LEMMA PurgeStep ==
    ASSUME IInv, NEW f \in Files, Purge(f)
    PROVE  IInv'
  <1> DEFINE d == [documents[f] EXCEPT !.state = "purged"]
  <1>1. /\ documents[f] # None
        /\ documents' = [documents EXCEPT ![f] = d]
        /\ objects' = [objects EXCEPT ![f] = None]
        /\ answer' = None
        /\ UNCHANGED <<clock, sessions, open, completions, requests, overwritten>>
    BY DEF Purge
  <1>2. IntakeTypeOK
    BY DEF IInv
  <1>3. d \in Document /\ d.state = "purged" /\ d.key = documents[f].key
    BY <1>1, <1>2, Rows DEF Document
  <1>4. d # None
    BY <1>3, NoRowAssumption
  <1> HIDE DEF d
  <1>5. /\ documents'[f] = d
        /\ \A g \in Files \ {f} : documents'[g] = documents[g] /\ objects'[g] = objects[g]
    BY <1>1, <1>2 DEF IntakeTypeOK
  <1>6. Keeps
    <2> SUFFICES ASSUME NEW g \in Files, Verified(g), Sound(g)
                 PROVE  Sound(g)'
      BY <1>1 DEF Keeps
    <2>1. CASE g = f
      BY <1>3, <1>4, <1>5, <2>1 DEF Sound
    <2>2. CASE g # f
      BY <1>1, <1>5, <2>2 DEF Sound
    <2> QED
      BY <2>1, <2>2
  <1>7. RequestsOK'
    BY <1>1, <1>6, OthersKept DEF RequestsOK
  <1>8. IntakeTypeOK'
    BY <1>1, <1>2, <1>3 DEF IntakeTypeOK
  <1>9. ConfirmationsAreOne'
    <2>1. ConfirmationsAreOne
      BY DEF IInv
    <2>2. \A g \in Files : documents'[g] = None <=> documents[g] = None
      BY <1>1, <1>4, <1>5
    <2>3. \A g \in Files : documents[g] # None => documents'[g].key = documents[g].key
      BY <1>3, <1>5
    <2> QED
      BY <1>1, <2>1, <2>2, <2>3 DEF ConfirmationsAreOne
  <1>10. RegisteredBytesWereVerified'
    <2>1. RegisteredBytesWereVerified
      BY DEF IInv
    <2> QED
      BY <1>1, <1>3, <1>5, <2>1 DEF RegisteredBytesWereVerified
  <1> QED
    BY <1>1, <1>7, <1>8, <1>9, <1>10, NothingSaid DEF IInv

LEMMA TickStep ==
    ASSUME IInv, Tick
    PROVE  IInv'
  <1>1. clock' \in Time
    BY IntakeAssumption DEF IInv, IntakeTypeOK, Tick, Time
  <1>2. Keeps /\ ConfirmationsAreOne' /\ RegisteredBytesWereVerified'
    BY TablesAlone DEF Tick
  <1>3. RequestsOK'
    BY <1>2, OthersKept DEF RequestsOK, Tick
  <1> QED
    BY <1>1, <1>2, <1>3, NothingSaid DEF IInv, IntakeTypeOK, Tick

-----------------------------------------------------------------------------
(* The transaction of a completion.                                        *)

LEMMA TellAcceptedTrue ==
    ASSUME NEW r \in Requests, requests[r] \in Request, TellAccepted(r),
           sessions'[requests[r].file] # None,
           completions'[requests[r].key] = requests[r].file
    PROVE  answer' \in Answer /\ AnswersAreTrue'
  <1> DEFINE q == requests[r]
  <1>1. q.file \in Files /\ q.key \in Keys /\ 0 \in Expiry
    BY Carried, IntakeAssumption DEF Expiry
  <1>2. answer' = [kind |-> "accepted", asked |-> q.file, file |-> q.file, key |-> q.key,
                   expires |-> 0]
    BY DEF TellAccepted, Tell
  <1>3. answer' \in Answer
    BY <1>1, <1>2 DEF Answer
  <1>4. /\ answer'.kind = "accepted" /\ answer'.file = q.file /\ answer'.asked = q.file
        /\ answer'.key = q.key
    BY <1>2
  <1> QED
    BY <1>3, <1>4 DEF AnswersAreTrue

(* A stored answer is given again: what it says stands.                    *)
LEMMA AcceptedAgain ==
    ASSUME IInv, NEW r \in Requests, Stage(r) = "confirm", Found(requests[r]), TellAccepted(r),
           UNCHANGED <<clock, sessions, open, objects, documents, completions, overwritten>>
    PROVE  IInv'
  <1> DEFINE q == requests[r]
  <1>1. q \in Request /\ q.file \in Files /\ q.key \in Keys
    BY Rows, Carried DEF IInv
  <1>2. completions[q.key] = q.file
    BY DEF Found
  <1>3. sessions[q.file] # None
    BY <1>1, <1>2 DEF IInv, ConfirmationsAreOne
  <1>4. answer' \in Answer /\ AnswersAreTrue'
    BY <1>1, <1>2, <1>3, TellAcceptedTrue
  <1>5. Keeps /\ ConfirmationsAreOne' /\ RegisteredBytesWereVerified'
    BY TablesAlone
  <1>6. requests' \in [Requests -> Request \cup {Idle}] /\ RequestsOK'
    BY <1>5, Finished DEF TellAccepted
  <1>7. IntakeTypeOK'
    BY <1>4, <1>6 DEF IInv, IntakeTypeOK
  <1> QED
    BY <1>4, <1>5, <1>6, <1>7 DEF IInv

(* Whoever gets to insert anything has read an active session and finds it *)
(* active still, so that the file has no document yet; its content has     *)
(* none either, and the object was found to be the declared one.           *)
LEMMA RegisterStep ==
    ASSUME IInv, NEW r \in Requests, Register(r), Finish(r),
           UNCHANGED <<clock, open, objects, overwritten>>,
           answer' = None \/ TellAccepted(r)
    PROVE  IInv'
  <1> DEFINE q == requests[r]
             f == q.file
             key == q.key
             row == [sessions[f] EXCEPT !.state = "completed"]
             d == [state |-> "processing", key |-> key]
  <1>1. q \in Request /\ q.stage = "confirm" /\ f \in Files /\ key \in Keys
    BY Rows, Carried DEF IInv, Register, Stage
  <1>2. IntakeTypeOK /\ ConfirmationsAreOne
    BY DEF IInv
  <1>3. /\ sessions[f] # None /\ sessions[f].state = q.seen
        /\ completions[key] = None
        /\ documents[f] = None => Unregistered(Declared[f])
    BY DEF Register, Unmoved
  <1>4. q.seen = "active" /\ Sound(f)
    <2>1. RequestOK(q)
      BY DEF IInv, RequestsOK
    <2>2. q.seen # "completed"
      BY <1>1, <1>3, <2>1 DEF RequestOK
    <2>3. q.seen \in {"active", "completed"}
      BY <1>1, Carried
    <2> QED
      BY <1>1, <2>1, <2>2, <2>3 DEF RequestOK
  <1>5. documents[f] = None /\ Unregistered(Declared[f])
    BY <1>1, <1>2, <1>3, <1>4 DEF ConfirmationsAreOne
  <1>6. \A k \in Keys : completions[k] # f
    BY <1>1, <1>2, <1>5 DEF ConfirmationsAreOne
  <1>7. objects[f] = Declared[f] \/ f \in overwritten
    BY <1>4, <1>5 DEF Sound
  <1>8. row \in Session /\ row.state = "completed" /\ row # None
    BY <1>1, <1>2, <1>3, Rows, NoRowAssumption DEF Session
  <1>9. d \in Document /\ d.state = "processing" /\ d.key = key /\ d # None
    BY <1>1, NoRowAssumption DEF Document
  <1>10. /\ sessions' = [sessions EXCEPT ![f] = row]
         /\ documents' = [documents EXCEPT ![f] = d]
         /\ completions' = [completions EXCEPT ![key] = f]
    BY <1>5 DEF Register
  <1>11. f # None /\ \A g \in Files : g # None
    BY <1>1, IntakeAssumption
  <1> HIDE DEF q, f, key, row, d
  <1>12. /\ sessions'[f] = row /\ \A g \in Files \ {f} : sessions'[g] = sessions[g]
         /\ documents'[f] = d /\ \A g \in Files \ {f} : documents'[g] = documents[g]
         /\ completions'[key] = f /\ \A k \in Keys \ {key} : completions'[k] = completions[k]
    BY <1>1, <1>2, <1>10 DEF IntakeTypeOK
  <1>13. Keeps
    <2>1. \A g \in Files : sessions[g] # None => sessions'[g] # None
      BY <1>8, <1>12
    <2>2. \A k \in Keys : completions[k] # None => completions'[k] # None
      BY <1>11, <1>12
    <2>3. ASSUME NEW g \in Files, Sound(g) PROVE Sound(g)'
      <3>1. CASE g = f
        BY <1>7, <3>1 DEF Sound
      <3>2. CASE g # f
        BY <1>12, <2>3, <3>2 DEF Sound
      <3> QED
        BY <3>1, <3>2
    <2> QED
      BY <2>1, <2>2, <2>3 DEF Keeps
  <1>14. requests' \in [Requests -> Request \cup {Idle}] /\ RequestsOK'
    BY <1>13, Finished
  <1>15. answer' \in Answer \cup {None} /\ AnswersAreTrue'
    <2>1. CASE answer' = None
      BY <2>1, NothingSaid
    <2>2. CASE TellAccepted(r)
      <3>1. sessions'[requests[r].file] # None /\ completions'[requests[r].key] = requests[r].file
        BY <1>8, <1>12 DEF q, f, key
      <3> QED
        BY <1>1, <2>2, <3>1, TellAcceptedTrue DEF q
    <2> QED
      BY <2>1, <2>2
  <1>16. IntakeTypeOK'
    BY <1>1, <1>2, <1>8, <1>9, <1>10, <1>14, <1>15 DEF IntakeTypeOK
  <1>17. ConfirmationsAreOne'
    <2> SUFFICES ASSUME NEW g \in Files
                 PROVE  IF documents'[g] = None
                        THEN /\ sessions'[g] # None => sessions'[g].state = "active"
                             /\ \A k \in Keys : completions'[k] # g
                        ELSE /\ sessions'[g] # None /\ sessions'[g].state = "completed"
                             /\ {k \in Keys : completions'[k] = g} = {documents'[g].key}
                             /\ \A h \in Files :
                                   documents'[h] # None /\ Declared[h] = Declared[g] => h = g
      BY DEF ConfirmationsAreOne
    <2>1. CASE g = f
      <3>1. {k \in Keys : completions'[k] = f} = {key}
        BY <1>1, <1>6, <1>12
      <3>2. \A h \in Files : documents'[h] # None /\ Declared[h] = Declared[f] => h = f
        BY <1>5, <1>12 DEF Unregistered
      <3> QED
        BY <1>8, <1>9, <1>12, <2>1, <3>1, <3>2
    <2>2. CASE g # f
      <3>1. documents'[g] = documents[g] /\ sessions'[g] = sessions[g]
        BY <1>12, <2>2
      <3>2. \A k \in Keys : completions'[k] = g <=> completions[k] = g
        BY <1>3, <1>11, <1>12, <2>2
      <3>3. CASE documents[g] = None
        BY <1>2, <3>1, <3>2, <3>3 DEF ConfirmationsAreOne
      <3>4. CASE documents[g] # None
        <4>1. /\ sessions[g] # None /\ sessions[g].state = "completed"
              /\ {k \in Keys : completions[k] = g} = {documents[g].key}
              /\ \A h \in Files : documents[h] # None /\ Declared[h] = Declared[g] => h = g
          BY <1>2, <3>4 DEF ConfirmationsAreOne
        <4>2. Declared[g] # Declared[f]
          BY <1>5, <3>4 DEF Unregistered
        <4>3. \A h \in Files : documents'[h] # None /\ Declared[h] = Declared[g] => h = g
          BY <1>12, <4>1, <4>2
        <4>4. {k \in Keys : completions'[k] = g} = {documents[g].key}
          BY <3>2, <4>1
        <4> QED
          BY <3>1, <3>4, <4>1, <4>3, <4>4
      <3> QED
        BY <3>3, <3>4
    <2> QED
      BY <2>1, <2>2
  <1>18. RegisteredBytesWereVerified'
    <2>1. RegisteredBytesWereVerified
      BY DEF IInv
    <2> QED
      BY <1>7, <1>12, <2>1 DEF RegisteredBytesWereVerified
  <1> QED
    BY <1>14, <1>15, <1>16, <1>17, <1>18 DEF IInv

-----------------------------------------------------------------------------
(* The invariant, and what follows from it.                                *)

LEMMA NextPreserves ==
    ASSUME IInv, [IntakeNext]_intakeVars
    PROVE  IInv'
  <1>1. CASE UNCHANGED intakeVars
    BY <1>1 DEF intakeVars, IInv, IntakeTypeOK, RequestsOK, RequestOK, Sound,
                ConfirmationsAreOne, RegisteredBytesWereVerified, AnswersAreTrue
  <1>2. CASE Tick
    BY <1>2, TickStep
  <1>3. CASE \E f \in Files : Purge(f) \/ \E content \in Contents : PutObject(f, content)
    BY <1>3, PurgeStep, PutStep
  <1>4. ASSUME NEW r \in Requests,
               \E f \in Files, key \in Keys : BeginCreate(r, f, key) \/ BeginComplete(r, f, key)
        PROVE  IInv'
    BY <1>4, BeginCreateStep, BeginCompleteStep
  <1>5. ASSUME NEW r \in Requests,
               \/ StoreSession(r) \/ AnswerCreate(r)
               \/ ResolveSession(r) \/ VerifyObject(r) \/ Refuse(r)
        PROVE  IInv'
    BY <1>5, StoreStep, AnswerStep, ResolveStep, VerifyStep, RefuseStep
  <1>6. ASSUME NEW r \in Requests, ReplayCompletion(r) \/ Reconcile(r)
        PROVE  IInv'
    BY <1>6, AcceptedAgain DEF ReplayCompletion, Reconcile, Found, Stage
  <1>7. ASSUME NEW r \in Requests, Confirm(r) \/ ConfirmUnseen(r)
        PROVE  IInv'
    BY <1>7, RegisterStep DEF Confirm, ConfirmUnseen, TellAccepted
  <1> QED
    BY <1>1, <1>2, <1>3, <1>4, <1>5, <1>6, <1>7 DEF IntakeNext

LEMMA Inductive == IntakeSpec => []IInv
  BY InitEstablishes, NextPreserves, PTL DEF IntakeSpec

\* Every reachable state has the types the tables declare.
THEOREM TypeCorrect == IntakeSpec => []IntakeTypeOK
  <1>1. IInv => IntakeTypeOK
    BY DEF IInv
  <1> QED
    BY <1>1, Inductive, PTL

\* However completions of a file overlap, under one key or several, one of them registers it
\* and consumes its session, and no other document has its content
\* (_register_persistent_confirmation_transaction).
THEOREM ConfirmationsAreOneHolds == IntakeSpec => []ConfirmationsAreOne
  <1>1. IInv => ConfirmationsAreOne
    BY DEF IInv
  <1> QED
    BY <1>1, Inductive, PTL

\* A registered document has the bytes that were verified unless its client has put others since
\* the completion looked (inspect_object, outside the transaction).
THEOREM RegisteredBytesHolds == IntakeSpec => []RegisteredBytesWereVerified
  <1>1. IInv => RegisteredBytesWereVerified
    BY DEF IInv
  <1> QED
    BY <1>1, Inductive, PTL

\* A completion answered with success has been registered under its key, also when the answer
\* comes from the lookup after a commit in doubt; a session answer tells the row's expiry.
THEOREM AnswersAreTrueHolds == IntakeSpec => []AnswersAreTrue
  <1>1. IInv => AnswersAreTrue
    BY DEF IInv
  <1> QED
    BY <1>1, Inductive, PTL
=============================================================================
