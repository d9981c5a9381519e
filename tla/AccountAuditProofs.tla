------------------------- MODULE AccountAuditProofs -------------------------
(***************************************************************************)
(* Proofs about AccountStanding, for every set of requests and of reset    *)
(* challenges and every limit of attempts, and about AuditChain, for every *)
(* set of transactions, keys and payloads, every skew of the clocks and    *)
(* every bound.  The two share no state; neither part uses the other.      *)
(***************************************************************************)
EXTENDS AccountStanding, AuditChain, TLAPS, FiniteSetTheorems, WellFoundedInduction

-----------------------------------------------------------------------------
(***************************************************************************)
(* AccountStanding.  What a deletion has erased can be brought back only by *)
(* a request that read the row before, and a session can be of an older    *)
(* password only if its login did.  So the invariants need what a request in *)
(* flight still has to be true of the row: RequestsOK.  It is maintained   *)
(* because a reset, a revocation and an erasure, which falsify it, mark the *)
(* requests on their way.                                                  *)
(***************************************************************************)

(* The password has not been changed since it was read, or a rehash that   *)
(* was on its way then may put any older one back.                         *)
InForce(p) == p = account.password \/ "rehash" \in overtaken

(* What a live session has to show for itself, or a refresh that found it  *)
(* live: until the revocation that follows a reset, any password does.     *)
Current(p) == ~ account.erased /\ (InForce(p) \/ owed)

RequestOK(q) ==
    /\ q.stage \in Logins \cup {"refresh"} => q.password \in Passwords
    /\ q.stage \in {"miss", "confirm"} => q.reset \in Resets
    /\ q.stage = "rehash" => InForce(q.password)
    /\ q.stage = "phone" => ~ account.erased \/ "phone" \in overtaken
    /\ q.stage \in {"reread", "issue"} => InForce(q.password) \/ q.late
    /\ q.stage = "issue" => ~ account.erased \/ q.late
    /\ q.stage = "refresh" => Current(q.password) \/ q.late

RequestsOK == \A r \in Requests : RequestOK(requests[r])

IInv ==
    /\ AccountTypeOK
    /\ RequestsOK
    /\ ErasureStands
    /\ ResetStands
    /\ SessionsFollowAccount

-----------------------------------------------------------------------------
(* The types of what the lemmas speak of.                                  *)

LEMMA Bounds ==
    /\ Cardinality(Resets) \in Nat
    /\ None \notin Passwords
    /\ Passwords \subseteq Nat /\ 0 \in Passwords
  BY AccountAssumption, FS_CardinalityType DEF Passwords

LEMMA RequestFacts ==
    ASSUME AccountTypeOK, NEW r \in Requests
    PROVE  /\ requests[r] \in Request \cup {Idle}
           /\ Stage(r) # "idle" => requests[r] \in Request
           /\ Stage(r) = "idle" => requests[r] = Idle
  BY DEF AccountTypeOK, Request, Idle, Logins, Stage

LEMMA RowFacts ==
    ASSUME AccountTypeOK
    PROVE  /\ account.state \in {"pending", "active", "disabled"}
           /\ account.erased \in BOOLEAN /\ account.legacy \in BOOLEAN
           /\ account.password \in Passwords \cup {None}
           /\ account.phone \in {"first", "second", "anonymous"}
  BY DEF AccountTypeOK, Account

LEMMA Init == AccountInit => IInv
  <1> SUFFICES ASSUME AccountInit PROVE IInv
    OBVIOUS
  <1>1. AccountTypeOK
    <2>1. account \in Account
      BY Bounds DEF AccountInit, Account
    <2>2. registration \in Registration
      BY AccountAssumption DEF AccountInit, Registration
    <2>3. resets \in [Resets -> Reset]
      BY DEF AccountInit, Reset
    <2>4. sessions \in SUBSET Session /\ requests \in [Requests -> Request \cup {Idle}]
      BY DEF AccountInit
    <2> QED
      BY <2>1, <2>2, <2>3, <2>4, Bounds DEF AccountInit, AccountTypeOK
  <1>2. RequestsOK
    BY DEF AccountInit, RequestsOK, RequestOK, Idle, Logins
  <1>3. ErasureStands /\ SessionsFollowAccount
    BY DEF AccountInit, ErasureStands, SessionsFollowAccount
  <1>4. ResetStands
    <2>1. {c \in Resets : resets[c].state = "consumed"} = {}
      BY DEF AccountInit
    <2> QED
      BY <2>1, FS_EmptySet DEF AccountInit, ResetStands
  <1> QED
    BY <1>1, <1>2, <1>3, <1>4 DEF IInv

-----------------------------------------------------------------------------
(* Steps of a request that change no row: it enters, moves on or ends.     *)

LEMMA RowsKept ==
    ASSUME IInv, UNCHANGED rowVars, RequestsOK',
           requests' \in [Requests -> Request \cup {Idle}]
    PROVE  IInv'
  <1> USE DEF IInv, rowVars
  <1>1. AccountTypeOK'
    BY DEF AccountTypeOK
  <1>2. ErasureStands' /\ ResetStands' /\ SessionsFollowAccount'
    BY DEF ErasureStands, ResetStands, SessionsFollowAccount
  <1> QED
    BY <1>1, <1>2

LEMMA RequestMoves ==
    ASSUME IInv, NEW r \in Requests, NEW q \in Request \cup {Idle},
           UNCHANGED rowVars, requests' = [requests EXCEPT ![r] = q], RequestOK(q)
    PROVE  IInv'
  <1>1. requests' \in [Requests -> Request \cup {Idle}]
    BY DEF IInv, AccountTypeOK
  <1>2. RequestsOK'
    BY <1>1 DEF IInv, AccountTypeOK, RequestsOK, RequestOK, InForce, Current, rowVars
  <1> QED
    BY <1>1, <1>2, RowsKept

(* Verify, BeginRefresh, CheckPhoneChange, AskForDeletion and ReadReset    *)
(* enter; Reread moves on; Abandon ends.                                   *)
LEMMA RequestSteps ==
    ASSUME IInv, NEW r \in Requests,
           \/ Verify(r) \/ Reread(r) \/ Abandon(r)
           \/ CheckPhoneChange(r) \/ AskForDeletion(r)
           \/ \E c \in Resets : ReadReset(r, c)
           \/ \E s \in sessions : BeginRefresh(r, s)
    PROVE  IInv'
  <1> USE DEF IInv, New, Logins
  <1>0. Idle \in Request \cup {Idle} /\ RequestOK(Idle)
    BY DEF Idle, RequestOK
  <1>1. CASE Verify(r)
    <2> DEFINE p == account.password
    <2>1. p \in Passwords
      BY <1>1, RowFacts DEF Verify
    <2>2. CASE account.legacy /\ Enter(r, "rehash", None, p)
      <3>1. New("rehash", None, p) \in Request
        BY <2>1 DEF Request
      <3>2. RequestOK(New("rehash", None, p))
        BY <2>1 DEF RequestOK, InForce
      <3> QED
        BY <1>1, <2>2, <3>1, <3>2, RequestMoves DEF Verify, Enter
    <2>3. CASE Admissible(account) /\ Enter(r, "issue", None, p)
      <3>1. New("issue", None, p) \in Request
        BY <2>1 DEF Request
      <3>2. RequestOK(New("issue", None, p))
        BY <2>1, <2>3 DEF RequestOK, InForce, Admissible
      <3> QED
        BY <1>1, <2>3, <3>1, <3>2, RequestMoves DEF Verify, Enter
    <2> QED
      BY <1>1, <2>2, <2>3 DEF Verify
  <1>2. CASE Reread(r)
    <2> DEFINE q == [requests[r] EXCEPT !.stage = "issue"]
    <2>1. requests[r] \in Request /\ RequestOK(requests[r]) /\ requests[r].stage = "reread"
      BY <1>2, RequestFacts DEF Reread, Stage, RequestsOK
    <2>2. q \in Request
      BY <2>1 DEF Request
    <2>3. RequestOK(q)
      BY <1>2, <2>1 DEF Reread, Admissible, RequestOK, Request, InForce
    <2>4. requests' = [requests EXCEPT ![r] = q]
      BY <1>2 DEF Reread, MoveOn
    <2> QED
      BY <1>2, <2>2, <2>3, <2>4, RequestMoves DEF Reread
  <1>3. CASE Abandon(r)
    BY <1>0, <1>3, RequestMoves DEF Abandon, Finish
  <1>4. CASE CheckPhoneChange(r)
    <2>1. New("phone", None, None) \in Request
      BY DEF Request
    <2>2. ~ account.erased
      BY <1>4, RowFacts DEF CheckPhoneChange, ErasureStands
    <2>3. RequestOK(New("phone", None, None))
      BY <2>2 DEF RequestOK
    <2> QED
      BY <1>4, <2>1, <2>3, RequestMoves DEF CheckPhoneChange, Enter
  <1>5. CASE AskForDeletion(r)
    <2>1. New("ask", None, None) \in Request
      BY DEF Request
    <2>2. RequestOK(New("ask", None, None))
      BY DEF RequestOK
    <2> QED
      BY <1>5, <2>1, <2>2, RequestMoves DEF AskForDeletion, Enter
  <1>6. ASSUME NEW c \in Resets, ReadReset(r, c)
        PROVE  IInv'
    <2>1. New("miss", c, None) \in Request /\ New("confirm", c, None) \in Request
      BY DEF Request
    <2>2. RequestOK(New("miss", c, None)) /\ RequestOK(New("confirm", c, None))
      BY DEF RequestOK
    <2> QED
      BY <1>6, <2>1, <2>2, RequestMoves DEF ReadReset, Enter
  <1>7. ASSUME NEW s \in sessions, BeginRefresh(r, s)
        PROVE  IInv'
    <2> DEFINE q == [New("refresh", None, s.password) EXCEPT !.late = s.late]
    <2>1. s \in Session /\ ~ s.lapsed
      BY <1>7 DEF BeginRefresh, AccountTypeOK
    <2>2. q \in Request
      BY <2>1 DEF Session, Request
    <2>3. q.stage = "refresh" /\ q.password = s.password /\ q.late = s.late
      OBVIOUS
    <2>4. s.late \/ Current(s.password)
      BY <2>1 DEF SessionsFollowAccount, Current, InForce
    <2>5. requests' = [requests EXCEPT ![r] = q] /\ UNCHANGED rowVars
      BY <1>7 DEF BeginRefresh
    <2> HIDE DEF q
    <2>6. RequestOK(q)
      BY <2>1, <2>3, <2>4 DEF RequestOK, Session
    <2> QED
      BY <2>2, <2>5, <2>6, RequestMoves
  <1> QED
    BY <1>1, <1>2, <1>3, <1>4, <1>5, <1>6, <1>7

-----------------------------------------------------------------------------
(* Steps of a request that write a row.                                    *)

LEMMA RehashStep ==
    ASSUME IInv, NEW r \in Requests, Rehash(r)
    PROVE  IInv'
  <1> USE DEF IInv
  <1> DEFINE p == requests[r].password
             q == [requests[r] EXCEPT !.stage = "reread"]
  <1>1. requests[r] \in Request /\ RequestOK(requests[r]) /\ requests[r].stage = "rehash"
    BY RequestFacts DEF Rehash, Stage, RequestsOK
  <1>2. p \in Passwords /\ InForce(p)
    BY <1>1 DEF RequestOK, Logins
  <1>3. /\ account' \in Account
        /\ account'.password = p /\ account'.erased = account.erased
        /\ account'.state = account.state /\ account'.phone = account.phone
    BY <1>2 DEF Rehash, AccountTypeOK, Account
  <1>4. q \in Request /\ requests' = [requests EXCEPT ![r] = q] /\ q.password = p /\ q.stage = "reread"
    BY <1>1 DEF Rehash, MoveOn, Request, Logins
  <1>5. UNCHANGED <<resets, change, deletion, sessions, changes, owed, overtaken, registration>>
    BY DEF Rehash
  <1> HIDE DEF q
  <1>6. AccountTypeOK'
    BY <1>3, <1>4, <1>5 DEF AccountTypeOK
  <1>7. account'.password = account.password \/ "rehash" \in overtaken
    BY <1>2, <1>3 DEF InForce
  <1>8. RequestsOK'
    <2> SUFFICES ASSUME NEW s \in Requests PROVE RequestOK(requests[s])'
      BY DEF RequestsOK
    <2>1. CASE s = r
      BY <2>1, <1>2, <1>3, <1>4, <1>5, RequestFacts DEF RequestOK, InForce, AccountTypeOK, Logins
    <2>2. CASE s # r
      <3>1. requests'[s] = requests[s] /\ RequestOK(requests[s])
        BY <2>2, <1>4 DEF AccountTypeOK, RequestsOK
      <3> QED
        BY <3>1, <1>3, <1>5, <1>7 DEF RequestOK, InForce, Current
    <2> QED
      BY <2>1, <2>2
  <1>9. ErasureStands'
    BY <1>2, <1>3, <1>5, RowFacts, Bounds DEF ErasureStands, InForce
  <1>10. ResetStands'
    BY <1>3, <1>5, <1>7 DEF ResetStands
  <1>11. SessionsFollowAccount'
    BY <1>3, <1>5, <1>7 DEF SessionsFollowAccount
  <1> QED
    BY <1>6, <1>8, <1>9, <1>10, <1>11

(* Requests that stay as they are, or end, where the row keeps its         *)
(* password and is not erased.                                             *)
LEMMA RequestsRemain ==
    ASSUME IInv, UNCHANGED <<owed, overtaken>>,
           account'.password = account.password, account'.erased = account.erased,
           \A s \in Requests : requests'[s] \in {requests[s], Idle}
    PROVE  RequestsOK'
  <1> SUFFICES ASSUME NEW s \in Requests PROVE RequestOK(requests[s])'
    BY DEF RequestsOK
  <1>1. CASE requests'[s] = requests[s]
    BY <1>1 DEF IInv, RequestsOK, RequestOK, InForce, Current
  <1>2. CASE requests'[s] = Idle
    BY <1>2 DEF RequestOK, Idle, Logins
  <1> QED
    BY <1>1, <1>2

LEMMA FinishStep ==
    ASSUME IInv, NEW r \in Requests, Finish(r)
    PROVE  /\ requests' \in [Requests -> Request \cup {Idle}]
           /\ \A s \in Requests : requests'[s] \in {requests[s], Idle}
  BY DEF IInv, AccountTypeOK, Finish

LEMMA SessionStep ==
    ASSUME IInv, NEW r \in Requests, IssueSession(r)
    PROVE  IInv'
  <1> USE DEF IInv
  <1> DEFINE s == [password |-> requests[r].password, late |-> requests[r].late, lapsed |-> FALSE]
  <1>1. requests[r] \in Request /\ RequestOK(requests[r]) /\ requests[r].stage = "issue"
    BY RequestFacts DEF IssueSession, Stage, RequestsOK
  <1>2. s \in Session
    BY <1>1 DEF RequestOK, Request, Session, Logins
  <1>3. /\ s.late \/ (~ account.erased /\ InForce(s.password))
    BY <1>1 DEF RequestOK
  <1>4. sessions' = sessions \cup {s}
    BY DEF IssueSession
  <1>5. UNCHANGED <<account, resets, change, deletion, changes, owed, overtaken, registration>>
    BY DEF IssueSession
  <1>6. Finish(r)
    BY DEF IssueSession
  <1> HIDE DEF s
  <1>7. AccountTypeOK'
    BY <1>2, <1>4, <1>5, <1>6, FinishStep DEF AccountTypeOK
  <1>8. RequestsOK'
    BY <1>5, <1>6, FinishStep, RequestsRemain
  <1>9. ErasureStands' /\ ResetStands'
    BY <1>5 DEF ErasureStands, ResetStands
  <1>10. SessionsFollowAccount'
    BY <1>3, <1>4, <1>5 DEF SessionsFollowAccount, InForce
  <1> QED
    BY <1>7, <1>8, <1>9, <1>10

(* A session that lapses, or is live again if its refresh has something to *)
(* show for it, among others that stay as they are.                        *)
LEMMA ReplaceSession ==
    ASSUME SessionsFollowAccount, sessions \in SUBSET Session,
           NEW s \in sessions, NEW t \in Session, Replace(s, t),
           t.late \/ t.lapsed \/ Current(t.password),
           UNCHANGED <<account, owed, overtaken>>
    PROVE  sessions' \in SUBSET Session /\ SessionsFollowAccount'
  <1>1. sessions' \subseteq sessions \cup {t}
    BY DEF Replace
  <1>2. sessions' \in SUBSET Session
    BY <1>1
  <1>3. SessionsFollowAccount'
    BY <1>1 DEF SessionsFollowAccount, Current, InForce
  <1> QED
    BY <1>2, <1>3

LEMMA LapseStep ==
    ASSUME IInv, NEW s \in sessions, Lapse(s)
    PROVE  IInv'
  <1> USE DEF IInv
  <1> DEFINE t == [s EXCEPT !.lapsed = TRUE]
  <1>1. t \in Session /\ t.lapsed
    BY DEF AccountTypeOK, Session
  <1>2. /\ Replace(s, t)
        /\ UNCHANGED <<account, resets, change, deletion, requests, changes, owed, overtaken, registration>>
    BY DEF Lapse
  <1> HIDE DEF t
  <1>3. sessions' \in SUBSET Session /\ SessionsFollowAccount'
    BY <1>1, <1>2, ReplaceSession DEF AccountTypeOK
  <1>4. AccountTypeOK'
    BY <1>2, <1>3 DEF AccountTypeOK
  <1>5. RequestsOK'
    BY <1>2, RequestsRemain
  <1>6. ErasureStands' /\ ResetStands'
    BY <1>2 DEF ErasureStands, ResetStands
  <1> QED
    BY <1>3, <1>4, <1>5, <1>6

LEMMA RefreshStep ==
    ASSUME IInv, NEW r \in Requests, NEW s \in sessions, Refresh(r, s)
    PROVE  IInv'
  <1> USE DEF IInv
  <1> DEFINE t == [s EXCEPT !.lapsed = FALSE, !.late = requests[r].late]
  <1>1. requests[r] \in Request /\ RequestOK(requests[r]) /\ requests[r].stage = "refresh"
    BY RequestFacts DEF Refresh, Stage, RequestsOK
  <1>2. t \in Session /\ t.late = requests[r].late /\ t.password = requests[r].password
    BY <1>1 DEF AccountTypeOK, Session, Request, Refresh
  <1>3. t.late \/ Current(t.password)
    BY <1>1, <1>2 DEF RequestOK
  <1>4. /\ Replace(s, t) /\ Finish(r)
        /\ UNCHANGED <<account, resets, change, deletion, changes, owed, overtaken, registration>>
    BY DEF Refresh
  <1> HIDE DEF t
  <1>5. sessions' \in SUBSET Session /\ SessionsFollowAccount'
    BY <1>2, <1>3, <1>4, ReplaceSession DEF AccountTypeOK
  <1>6. AccountTypeOK'
    BY <1>4, <1>5, FinishStep DEF AccountTypeOK
  <1>7. RequestsOK'
    BY <1>4, FinishStep, RequestsRemain
  <1>8. ErasureStands' /\ ResetStands'
    BY <1>4 DEF ErasureStands, ResetStands
  <1> QED
    BY <1>5, <1>6, <1>7, <1>8

(* Everything but ConfirmReset that writes the challenges of resets.       *)
LEMMA ResetRowStep ==
    ASSUME IInv, NEW c \in Resets, NEW row \in Reset,
           resets' = [resets EXCEPT ![c] = row],
           row.state = "consumed" <=> resets[c].state = "consumed",
           UNCHANGED <<account, change, deletion, sessions, changes, owed, overtaken, registration>>,
           requests' \in [Requests -> Request \cup {Idle}],
           \A s \in Requests : requests'[s] \in {requests[s], Idle}
    PROVE  IInv'
  <1> USE DEF IInv
  <1>1. AccountTypeOK'
    BY DEF AccountTypeOK
  <1>2. RequestsOK'
    BY RequestsRemain
  <1>3. ErasureStands' /\ SessionsFollowAccount'
    BY DEF ErasureStands, SessionsFollowAccount
  <1>4. {d \in Resets : resets'[d].state = "consumed"} = {d \in Resets : resets[d].state = "consumed"}
    BY DEF AccountTypeOK
  <1>5. ResetStands'
    BY <1>4 DEF ResetStands
  <1> QED
    BY <1>1, <1>2, <1>3, <1>5

LEMMA ResetRows ==
    ASSUME IInv,
           \/ \E c \in Resets : IssueReset(c) \/ Expire(c)
           \/ \E r \in Requests : Miss(r)
    PROVE  IInv'
  <1> USE DEF IInv
  <1>0. \A c \in Resets : resets[c] \in Reset
    BY DEF AccountTypeOK
  <1>1. ASSUME NEW c \in Resets, IssueReset(c) \/ Expire(c)
        PROVE  IInv'
    <2>1. PICK state \in {"open", "expired"} : resets' = [resets EXCEPT ![c].state = state]
      BY <1>1 DEF IssueReset, Expire
    <2> DEFINE row == [resets[c] EXCEPT !.state = state]
    <2>2. row \in Reset /\ row.state # "consumed" /\ resets[c].state # "consumed"
      BY <1>0, <1>1 DEF Reset, IssueReset, Expire
    <2>3. resets' = [resets EXCEPT ![c] = row]
      BY <2>1
    <2>4. UNCHANGED <<account, change, deletion, sessions, requests, changes, owed, overtaken, registration>>
      BY <1>1 DEF IssueReset, Expire
    <2> HIDE DEF row
    <2>5. requests' \in [Requests -> Request \cup {Idle}]
      BY <2>4 DEF AccountTypeOK
    <2> QED
      BY <2>2, <2>3, <2>4, <2>5, ResetRowStep
  <1>2. ASSUME NEW r \in Requests, Miss(r)
        PROVE  IInv'
    <2> DEFINE c == requests[r].reset
               row == [resets[c] EXCEPT !.failed = @ + 1]
    <2>1. requests[r] \in Request /\ c \in Resets
      BY <1>2, RequestFacts DEF Miss, Stage, RequestsOK, RequestOK
    <2>2. row \in Reset /\ row.state = resets[c].state
      BY <1>0, <2>1 DEF Reset
    <2>3. resets' = [resets EXCEPT ![c] = row]
      BY <1>2 DEF Miss
    <2>4. UNCHANGED <<account, change, deletion, sessions, changes, owed, overtaken, registration>>
      BY <1>2 DEF Miss
    <2>5. Finish(r)
      BY <1>2 DEF Miss
    <2> HIDE DEF c, row
    <2> QED
      BY <2>1, <2>2, <2>3, <2>4, <2>5, FinishStep, ResetRowStep
  <1> QED
    BY <1>1, <1>2

(* A reset or an erasure marks the requests whose stage a change of the    *)
(* row concerns, and notes the writes that are on their way.               *)
LEMMA BelatedRequests ==
    ASSUME AccountTypeOK, NEW s \in Requests, NEW stages, "idle" \notin stages
    PROVE  LET q == Belated(requests, stages)[s]
           IN  /\ q \in Request \cup {Idle}
               /\ q.stage = requests[s].stage
               /\ q # Idle => q.password = requests[s].password /\ q.reset = requests[s].reset
               /\ q.stage \in stages => q.late
               /\ q.stage \notin stages => q = requests[s]
  <1> DEFINE q == Belated(requests, stages)[s]
  <1>0. q = IF requests[s].stage \in stages THEN [requests[s] EXCEPT !.late = TRUE] ELSE requests[s]
    BY DEF Belated
  <1>1. CASE requests[s] = Idle
    <2>1. q = Idle
      BY <1>0, <1>1 DEF Idle
    <2> QED
      BY <1>1, <2>1 DEF Idle
  <1>2. CASE requests[s] \in Request
    BY <1>0, <1>2 DEF Request
  <1> QED
    BY <1>1, <1>2 DEF AccountTypeOK

LEMMA RequestsOvertaken ==
    ASSUME IInv, Overtake, NEW stages, "idle" \notin stages, Logins \subseteq stages,
           "refresh" \in stages \/ (~ account'.erased /\ owed'),
           requests' \in [Requests -> Request \cup {Idle}],
           \A s \in Requests :
              \/ requests'[s] = Belated(requests, stages)[s]
              \/ requests'[s].stage \in {"revoke", "idle"}
    PROVE  RequestsOK'
  <1> USE DEF IInv
  <1> SUFFICES ASSUME NEW s \in Requests PROVE RequestOK(requests[s])'
    BY DEF RequestsOK
  <1>1. CASE requests'[s].stage \in {"revoke", "idle"}
    BY <1>1 DEF RequestOK, Logins
  <1>2. CASE requests'[s] = Belated(requests, stages)[s] /\ requests'[s] # Idle
    <2>1. /\ requests'[s].stage = Stage(s)
          /\ Stage(s) \in stages => requests'[s].late
          /\ requests'[s].password = requests[s].password
          /\ requests'[s].reset = requests[s].reset
      BY <1>2, BelatedRequests DEF Stage
    <2>2. RequestOK(requests[s])
      BY DEF RequestsOK
    <2>3. /\ Stage(s) = "rehash" => "rehash" \in overtaken'
          /\ Stage(s) = "phone" => "phone" \in overtaken'
      BY DEF Overtake, At
    <2> QED
      BY <2>1, <2>2, <2>3 DEF RequestOK, InForce, Current, Stage, Logins
  <1>3. CASE requests'[s] = Idle
    BY <1>3 DEF RequestOK, Idle, Logins
  <1> QED
    BY <1>1, <1>2, <1>3

LEMMA ConfirmStep ==
    ASSUME IInv, NEW r \in Requests, ConfirmReset(r)
    PROVE  IInv'
  <1> USE DEF IInv
  <1>0. "idle" \notin Logins
    BY DEF Logins
  <1> DEFINE c == requests[r].reset
  <1>1. requests[r] \in Request /\ c \in Resets /\ requests[r].stage = "confirm"
    BY RequestFacts DEF ConfirmReset, Stage, RequestsOK, RequestOK
  <1>2. /\ Open(c) /\ Resettable /\ changes < Cardinality(Resets)
        /\ changes' = changes + 1
        /\ account' = [account EXCEPT !.password = changes', !.legacy = FALSE]
        /\ resets' = [resets EXCEPT ![c].state = "consumed"]
        /\ owed' = TRUE /\ Overtake
        /\ UNCHANGED <<change, deletion, sessions, registration>>
    BY DEF ConfirmReset
  <1>3. ~ account.erased
    BY <1>2, RowFacts DEF Resettable, ErasureStands
  <1>4. changes' \in Passwords
    BY <1>2, Bounds DEF AccountTypeOK, Passwords
  <1>5. /\ account' \in Account /\ account'.password = changes' /\ ~ account'.erased
    BY <1>2, <1>3, <1>4 DEF AccountTypeOK, Account
  <1>6. /\ requests' \in [Requests -> Request \cup {Idle}]
        /\ \A s \in Requests : \/ requests'[s] = Belated(requests, Logins)[s]
                               \/ requests'[s].stage \in {"revoke", "idle"}
    <2>1. Belated(requests, Logins) \in [Requests -> Request \cup {Idle}]
      BY <1>0, BelatedRequests DEF Belated
    <2>2. Belated(requests, Logins)[r] \in Request
      BY <1>0, <1>1, BelatedRequests DEF Request, Idle
    <2>3. [Belated(requests, Logins)[r] EXCEPT !.stage = "revoke"] \in Request
      BY <2>2 DEF Request
    <2>4. CASE requests' = [Belated(requests, Logins) EXCEPT ![r].stage = "revoke"]
      <3>1. requests'[r] = [Belated(requests, Logins)[r] EXCEPT !.stage = "revoke"]
        BY <2>1, <2>4
      <3>2. requests'[r].stage = "revoke"
        BY <2>2, <3>1 DEF Request
      <3> QED
        BY <2>1, <2>3, <2>4, <3>1, <3>2
    <2>5. CASE requests' = [Belated(requests, Logins) EXCEPT ![r] = Idle]
      BY <2>1, <2>5 DEF Idle
    <2> QED
      BY <2>4, <2>5 DEF ConfirmReset
  <1>7. /\ resets' \in [Resets -> Reset]
        /\ resets[c].state # "consumed"
        /\ \A d \in Resets : resets'[d].state = IF d = c THEN "consumed" ELSE resets[d].state
    BY <1>1, <1>2 DEF AccountTypeOK, Reset, Open
  <1>8. AccountTypeOK'
    BY <1>2, <1>4, <1>5, <1>6, <1>7 DEF AccountTypeOK, Overtake
  <1>9. RequestsOK'
    BY <1>0, <1>2, <1>5, <1>6, RequestsOvertaken
  <1>10. ErasureStands'
    BY <1>5 DEF ErasureStands
  <1>11. ResetStands'
    <2> DEFINE Consumed == {d \in Resets : resets[d].state = "consumed"}
    <2>1. {d \in Resets : resets'[d].state = "consumed"} = Consumed \cup {c} /\ c \notin Consumed
      BY <1>1, <1>7
    <2>2. IsFiniteSet(Consumed)
      BY AccountAssumption, FS_Subset
    <2>3. Cardinality(Consumed \cup {c}) = Cardinality(Consumed) + 1
      BY <2>1, <2>2, FS_AddElement
    <2> QED
      BY <1>2, <1>5, <2>1, <2>3 DEF ResetStands
  <1>12. SessionsFollowAccount'
    BY <1>2, <1>3, <1>5 DEF SessionsFollowAccount
  <1> QED
    BY <1>8, <1>9, <1>10, <1>11, <1>12

(* What is left of the sessions has lapsed.                                *)
LEMMA RevokedSessions ==
    ASSUME sessions \in SUBSET Session, RevokeAll
    PROVE  sessions' \in SUBSET Session /\ SessionsFollowAccount'
  BY DEF RevokeAll, Spared, SessionsFollowAccount

LEMMA RevokeStep ==
    ASSUME IInv, NEW r \in Requests, RevokeSessions(r)
    PROVE  IInv'
  <1> USE DEF IInv
  <1> DEFINE B == Belated(requests, {"refresh"})
  <1>1. /\ RevokeAll /\ owed' = FALSE /\ requests' = [B EXCEPT ![r] = Idle]
        /\ UNCHANGED <<account, resets, change, deletion, changes, overtaken, registration>>
    BY DEF RevokeSessions
  <1>2. B \in [Requests -> Request \cup {Idle}]
    BY BelatedRequests DEF Belated
  <1>3. sessions' \in SUBSET Session /\ SessionsFollowAccount'
    BY <1>1, RevokedSessions DEF AccountTypeOK
  <1>4. AccountTypeOK'
    BY <1>1, <1>2, <1>3 DEF AccountTypeOK
  <1>5. RequestsOK'
    <2> SUFFICES ASSUME NEW s \in Requests PROVE RequestOK(requests[s])'
      BY DEF RequestsOK
    <2>1. CASE requests'[s] = Idle
      BY <2>1 DEF RequestOK, Idle, Logins
    <2>2. CASE requests'[s] = B[s] /\ B[s] # Idle
      <3>1. /\ B[s].stage = requests[s].stage
            /\ B[s].password = requests[s].password
            /\ B[s].stage = "refresh" => B[s].late
            /\ B[s].stage # "refresh" => B[s] = requests[s]
        BY <2>2, BelatedRequests
      <3>2. RequestOK(requests[s])
        BY DEF RequestsOK
      <3> HIDE DEF B
      <3> QED
        BY <1>1, <2>2, <3>1, <3>2 DEF RequestOK, InForce, Logins
    <2> QED
      BY <1>1, <1>2, <2>1, <2>2
  <1>6. ErasureStands' /\ ResetStands'
    BY <1>1 DEF ErasureStands, ResetStands
  <1> QED
    BY <1>3, <1>4, <1>5, <1>6

LEMMA PhoneStep ==
    ASSUME IInv, NEW r \in Requests, ConfirmPhoneChange(r)
    PROVE  IInv'
  <1> USE DEF IInv
  <1>1. requests[r] \in Request /\ RequestOK(requests[r]) /\ requests[r].stage = "phone"
    BY RequestFacts DEF ConfirmPhoneChange, Stage, RequestsOK
  <1>2. /\ account' \in Account
        /\ account'.password = account.password /\ account'.erased = account.erased
        /\ account'.state = account.state
    BY DEF ConfirmPhoneChange, AccountTypeOK, Account
  <1>3. ~ account.erased \/ "phone" \in overtaken
    BY <1>1 DEF RequestOK
  <1>4. change' = "confirmed" /\ Finish(r)
    BY DEF ConfirmPhoneChange
  <1>5. UNCHANGED <<resets, deletion, sessions, changes, owed, overtaken, registration>>
    BY DEF ConfirmPhoneChange
  <1>6. AccountTypeOK'
    BY <1>2, <1>4, <1>5, FinishStep DEF AccountTypeOK
  <1>7. RequestsOK'
    BY <1>2, <1>4, <1>5, FinishStep, RequestsRemain
  <1>8. ErasureStands' /\ ResetStands' /\ SessionsFollowAccount'
    BY <1>2, <1>3, <1>5 DEF ErasureStands, ResetStands, SessionsFollowAccount
  <1> QED
    BY <1>6, <1>7, <1>8

-----------------------------------------------------------------------------
(* Steps that leave the password, the erasure and the sessions alone.      *)

LEMMA MinorSteps ==
    ASSUME IInv,
           \/ \E r \in Requests : RequestDeletion(r)
           \/ RequestPhoneChange \/ VerifyAccount \/ MissRegistration
           \/ ConfirmDeletion \/ CoolDown \/ CancelDeletion
    PROVE  IInv'
  <1> USE DEF IInv
  <1>1. /\ account' \in Account
        /\ account'.password = account.password /\ account'.erased = account.erased
        /\ account'.phone = account.phone
        /\ account'.state # account.state => account.state = "pending"
    BY DEF AccountTypeOK, Account, RequestDeletion, RequestPhoneChange, VerifyAccount,
           Verifiable, MissRegistration, ConfirmDeletion, CoolDown, CancelDeletion
  <1>2. /\ requests' \in [Requests -> Request \cup {Idle}]
        /\ \A s \in Requests : requests'[s] \in {requests[s], Idle}
    <2>1. CASE \E r \in Requests : Finish(r)
      BY <2>1, FinishStep
    <2>2. CASE UNCHANGED requests
      BY <2>2 DEF AccountTypeOK
    <2> QED
      BY <2>1, <2>2 DEF RequestDeletion, RequestPhoneChange, VerifyAccount, MissRegistration,
                        ConfirmDeletion, CoolDown, CancelDeletion
  <1>3. UNCHANGED <<resets, sessions, changes, owed, overtaken>>
    BY DEF RequestDeletion, RequestPhoneChange, VerifyAccount, MissRegistration,
           ConfirmDeletion, CoolDown, CancelDeletion, DeletionStep
  <1>4. registration' \in Registration
    BY AccountAssumption DEF AccountTypeOK, Registration, RequestDeletion, RequestPhoneChange,
           VerifyAccount, MissRegistration, ConfirmDeletion, CoolDown, CancelDeletion, DeletionStep
  <1>5. /\ change' \in {"none", "pending", "confirmed"}
        /\ deletion' \in {"none", "requested", "confirmed", "due", "cancelled", "executed"}
    BY DEF AccountTypeOK, RequestDeletion, RequestPhoneChange, VerifyAccount, MissRegistration,
           ConfirmDeletion, CoolDown, CancelDeletion, DeletionStep
  <1>6. AccountTypeOK'
    BY <1>1, <1>2, <1>3, <1>4, <1>5 DEF AccountTypeOK
  <1>7. RequestsOK'
    BY <1>1, <1>2, <1>3, RequestsRemain
  <1>8. ErasureStands' /\ ResetStands' /\ SessionsFollowAccount'
    BY <1>1, <1>3 DEF ErasureStands, ResetStands, SessionsFollowAccount
  <1> QED
    BY <1>6, <1>7, <1>8

LEMMA ErasureStep ==
    ASSUME IInv, ExecuteDeletion
    PROVE  IInv'
  <1> USE DEF IInv
  <1> DEFINE Stages == Logins \cup {"refresh"}
  <1>1. /\ account' \in Account
        /\ account'.state = "disabled" /\ account'.erased
        /\ account'.password = None /\ account'.phone = "anonymous"
    BY DEF ExecuteDeletion, Erased, AccountTypeOK, Account
  <1>2. /\ deletion' = "executed" /\ RevokeAll /\ owed' = FALSE
        /\ requests' = Belated(requests, Stages) /\ Overtake
        /\ UNCHANGED <<registration, resets, change, changes>>
    BY DEF ExecuteDeletion, DeletionStep
  <1>3. "idle" \notin Stages /\ "refresh" \in Stages /\ Logins \subseteq Stages
    BY DEF Logins
  <1> HIDE DEF Stages
  <1>4. requests' \in [Requests -> Request \cup {Idle}]
    BY <1>2, <1>3, BelatedRequests DEF Belated
  <1>5. sessions' \in SUBSET Session /\ SessionsFollowAccount'
    BY <1>2, RevokedSessions DEF AccountTypeOK
  <1>6. AccountTypeOK'
    BY <1>1, <1>2, <1>4, <1>5 DEF AccountTypeOK, Overtake
  <1>7. RequestsOK'
    BY <1>2, <1>3, <1>4, RequestsOvertaken
  <1>8. ErasureStands' /\ ResetStands'
    BY <1>1, <1>2 DEF ErasureStands, ResetStands
  <1> QED
    BY <1>5, <1>6, <1>7, <1>8

-----------------------------------------------------------------------------

LEMMA NextPreserves ==
    ASSUME IInv, [AccountNext]_accountVars
    PROVE  IInv'
  <1>1. CASE UNCHANGED accountVars
    <2>1. UNCHANGED rowVars /\ UNCHANGED requests
      BY <1>1 DEF accountVars
    <2>2. RequestsOK'
      BY <2>1 DEF IInv, RequestsOK, RequestOK, InForce, Current, rowVars
    <2> QED
      BY <2>1, <2>2, RowsKept DEF IInv, AccountTypeOK
  <1>2. CASE AccountNext
    BY <1>2, RequestSteps, RehashStep, SessionStep, LapseStep, RefreshStep, ResetRows,
       ConfirmStep, RevokeStep, PhoneStep, MinorSteps, ErasureStep DEF AccountNext
  <1> QED
    BY <1>1, <1>2

(* The strengthened invariant is inductive.                                *)
THEOREM Inductive == AccountSpec => []IInv
  BY Init, NextPreserves, PTL DEF AccountSpec

(* Every variable keeps its type.                                          *)
THEOREM TypeCorrect == AccountSpec => []AccountTypeOK
  <1>1. IInv => AccountTypeOK
    BY DEF IInv
  <1> QED
    BY <1>1, Inductive, PTL

(* create_or_replay_execution: what a deletion has erased is brought back  *)
(* by no operation that began later, however many are in flight.           *)
(* _confirm_password_reset_challenge_persistent: each challenge sets one   *)
(* password, and the last one set is in force.                             *)
THEOREM ChangesStandHolds == AccountSpec => []ChangesStand
  <1>1. IInv => ChangesStand
    BY DEF IInv, ChangesStand
  <1> QED
    BY <1>1, Inductive, PTL

(* confirm_password_reset_endpoint: a live session is of the account's     *)
(* password, but for the exceptions that the property names.               *)
THEOREM SessionsFollowAccountHolds == AccountSpec => []SessionsFollowAccount
  <1>1. IInv => SessionsFollowAccount
    BY DEF IInv
  <1> QED
    BY <1>1, Inductive, PTL

-----------------------------------------------------------------------------
(***************************************************************************)
(* AuditChain.  That a chain forks only between transactions that overlap  *)
(* needs what a transaction under way has read to stay the last event of all *)
(* it has seen (TransactionHolds), and the same of every stored event.     *)
(***************************************************************************)

(* Nothing a transaction had seen comes after the event it has read.       *)
ReadLast(seen, event) == \A x \in seen : event # NoId /\ (x = event \/ Before(x, event))

(* What a transaction has read still means, and what it is about.          *)
TransactionHolds(q) ==
    q \in Transaction =>
        /\ q.seen \subseteq Of(q.chain)
        /\ (q.kind = "append") = (q.chain = EventChain)
        /\ q.kind = "execute" => q.chain = q.key /\ q.payload \in Payloads
        /\ q.stage \in {"open", "checked"} =>
              /\ q.event # NoId => q.event \in Of(q.chain)
              /\ ReadLast(q.seen, q.event)
              /\ q.kind = "execute" => q.event = NoId
              /\ q.kind \in {"check", "finalize"} =>
                    q.event # NoId /\ computations[q.chain] # NoComputation
        /\ q.stage = "checked" =>
              /\ q.ts <= q.start
              /\ q.event # NoId => events[q.event].ts <= q.ts

TransactionsHold == \A r \in Transactions : TransactionHolds(transactions[r])

EventHolds(a) ==
    /\ events[a].seen \subseteq Of(events[a].chain)
    /\ (events[a].kind = "append") = (events[a].chain = EventChain)
    /\ events[a].prev # NoId =>
          /\ events[a].prev \in Of(events[a].chain) \ {a}
          /\ a \notin events[events[a].prev].seen
          /\ events[events[a].prev].ts <= events[a].ts
    /\ ReadLast(events[a].seen, events[a].prev)

EventsHold == \A a \in Stored : EventHolds(a)

KeysAreOne == \A a, b \in Stored : events[a].key = events[b].key => a = b

NoComputationNoEvents == \A c \in Keys : computations[c] = NoComputation => Of(c) = {}

AuditIInv ==
    /\ AuditTypeOK
    /\ TransactionsHold
    /\ EventsHold
    /\ KeysAreOne
    /\ NoComputationNoEvents
    /\ AuditIsComplete

-----------------------------------------------------------------------------
(* The latest event of a chain is the last in the order of Before.         *)

Less == {p \in Nat \X Nat : p[1] < p[2]}

(* A bounded set of numbers has a greatest element.                        *)
LEMMA Greatest ==
    ASSUME NEW T \in SUBSET Nat, NEW M \in Nat, \A t \in T : t <= M, T # {}
    PROVE  \E m \in T : \A t \in T : t <= m
  <1> DEFINE U == {n \in Nat : M - n \in T}
  <1>1. \A t \in T : t \in Int /\ M - t \in U
    <2> SUFFICES ASSUME NEW t \in T PROVE t \in Int /\ M - t \in U
      OBVIOUS
    <2>1. t \in Nat /\ t <= M
      OBVIOUS
    <2>2. M - t \in Nat /\ M - (M - t) = t
      BY <2>1
    <2> QED
      BY <2>1, <2>2
  <1>2. U \subseteq Nat /\ U # {}
    BY <1>1
  <1>3. IsWellFoundedOn(Less, Nat)
    <2>1. OpToRel(<, Nat) = Less
      BY DEF OpToRel, Less
    <2> QED
      BY <2>1, NatLessThanWellFounded
  <1>4. PICK x \in U : \A y \in U : <<y, x>> \notin Less
    BY <1>2, <1>3, WFMin
  <1>5. \A y \in U : x <= y
    <2> SUFFICES ASSUME NEW y \in U PROVE x <= y
      OBVIOUS
    <2>1. x \in Nat /\ y \in Nat /\ <<y, x>> \notin Less
      BY <1>4
    <2> QED
      BY <2>1 DEF Less
  <1>6. M - x \in T /\ x \in Nat
    OBVIOUS
  <1> HIDE DEF U
  <1> QED
    BY <1>1, <1>5, <1>6

LEMMA LatestFacts ==
    ASSUME AuditTypeOK, NEW chain
    PROVE  /\ Of(chain) = {} => Latest(chain) = NoId
           /\ Of(chain) # {} =>
                 /\ Latest(chain) \in Of(chain)
                 /\ \A f \in Of(chain) : f = Latest(chain) \/ Before(f, Latest(chain))
  <1>1. ASSUME Of(chain) # {}
        PROVE  \E e \in Of(chain) : \A f \in Of(chain) \ {e} : Before(f, e)
    <2> DEFINE T == Of(chain)
    <2>1. /\ \A e \in T : e \in Ids /\ events[e].ts \in Time /\ events[e].start \in Time
          /\ T \subseteq Nat /\ MaxTime \in Nat /\ MaxEvents \in Nat
      BY AuditAssumption DEF AuditTypeOK, Of, Stored, Event, Ids
    <2> DEFINE Times == {events[e].ts : e \in T}
    <2>2. PICK t \in Times : \A u \in Times : u <= t
      <3>1. Times \in SUBSET Nat /\ Times # {} /\ \A u \in Times : u <= MaxTime
        BY <1>1, <2>1 DEF Time
      <3> HIDE DEF Times
      <3> QED
        BY <2>1, <3>1, Greatest
    <2> DEFINE T1 == {e \in T : events[e].ts = t}
    <2> DEFINE Starts == {events[e].start : e \in T1}
    <2>3. PICK s \in Starts : \A u \in Starts : u <= s
      <3>1. Starts \in SUBSET Nat /\ Starts # {} /\ \A u \in Starts : u <= MaxTime
        <4>1. T1 # {} /\ \A e \in T1 : events[e].start \in 0..MaxTime
          BY <2>1, <2>2 DEF Time
        <4>2. \A x \in 0..MaxTime : x \in Nat /\ x <= MaxTime
          BY <2>1
        <4> HIDE DEF T1
        <4> QED
          BY <4>1, <4>2
      <3> HIDE DEF Starts
      <3> QED
        BY <2>1, <3>1, Greatest
    <2> DEFINE T2 == {e \in T1 : events[e].start = s}
    <2>4. PICK m \in T2 : \A e \in T2 : e <= m
      <3>1. T2 \in SUBSET Nat /\ T2 # {} /\ \A u \in T2 : u <= MaxEvents
        BY <2>1, <2>3 DEF Ids
      <3> HIDE DEF T2
      <3> QED
        BY <2>1, <3>1, Greatest
    <2>5. ASSUME NEW f \in T \ {m} PROVE Before(f, m)
      <3>1. /\ m \in T /\ events[m].ts = t /\ events[m].start = s
            /\ events[f].ts <= t /\ events[f].ts \in Nat /\ t \in Nat
            /\ events[f].start \in Nat /\ s \in Nat /\ f \in Nat /\ m \in Nat
        BY <2>1, <2>2, <2>3, <2>4 DEF Time
      <3>2. events[f].ts = t => events[f].start <= s
        BY <2>3
      <3>3. events[f].ts = t /\ events[f].start = s => f <= m
        BY <2>4
      <3> QED
        BY <3>1, <3>2, <3>3 DEF Before
    <2> QED
      BY <2>4, <2>5
  <1> QED
    BY <1>1 DEF Latest

-----------------------------------------------------------------------------
(* What a step leaves alone.                                               *)

(* A stored event stays as it is, and a computation stays.                 *)
Grows ==
    /\ \A e \in Stored : events'[e] = events[e]
    /\ \A c \in Keys : computations[c] # NoComputation => computations'[c] # NoComputation

LEMMA StoredStays ==
    ASSUME Grows
    PROVE  /\ Stored \subseteq Stored'
           /\ \A c : Of(c) \subseteq Of(c)'
           /\ \A a, b \in Stored : Before(a, b)' = Before(a, b)
  BY DEF Grows, Stored, Of, Before

LEMMA ReadLastStays ==
    ASSUME Grows, NEW seen \in SUBSET Stored, NEW event,
           event # NoId => event \in Stored, ReadLast(seen, event)
    PROVE  ReadLast(seen, event)'
  BY DEF Grows, ReadLast, Before

LEMMA TransactionStays ==
    ASSUME AuditTypeOK, Grows, NEW q, TransactionHolds(q)
    PROVE  TransactionHolds(q)'
  <1> SUFFICES ASSUME q \in Transaction PROVE TransactionHolds(q)'
    BY DEF TransactionHolds
  <1>1. \A c : Of(c) \subseteq Of(c)' /\ Of(c) \subseteq Stored
    BY StoredStays DEF Of
  <1>2. q.chain = EventChain \/ q.chain \in Keys
    BY DEF Transaction, Chains
  <1>3. q.kind \in {"check", "finalize"} => q.chain \in Keys
    BY <1>2 DEF TransactionHolds
  <1>4. q.stage \in {"open", "checked"} =>
           /\ q.event # NoId => q.event \in Of(q.chain)'
           /\ ReadLast(q.seen, q.event)'
           /\ q.kind \in {"check", "finalize"} => computations'[q.chain] # NoComputation
    BY <1>1, <1>3, ReadLastStays DEF TransactionHolds, Grows
  <1>5. q.stage = "checked" /\ q.event # NoId => events'[q.event] = events[q.event]
    BY <1>1 DEF TransactionHolds, Grows
  <1> QED
    BY <1>1, <1>4, <1>5 DEF TransactionHolds

LEMMA TransactionsStay ==
    ASSUME AuditIInv, Grows, NEW r \in Transactions, NEW q, TransactionHolds(q)',
           transactions' = [transactions EXCEPT ![r] = q]
    PROVE  TransactionsHold'
  <1> SUFFICES ASSUME NEW s \in Transactions PROVE TransactionHolds(transactions[s])'
    BY DEF TransactionsHold
  <1>1. DOMAIN transactions = Transactions
    BY DEF AuditIInv, AuditTypeOK
  <1>2. PICK p : p = transactions[s]
    OBVIOUS
  <1>3. TransactionHolds(p)
    BY <1>2 DEF AuditIInv, TransactionsHold
  <1>4. TransactionHolds(p)'
    BY <1>3, TransactionStays DEF AuditIInv
  <1>5. transactions'[s] = q \/ transactions'[s] = p
    BY <1>1, <1>2
  <1>6. CASE transactions'[s] = q
    BY <1>6 DEF TransactionHolds, Of, Stored, ReadLast, Before
  <1>7. CASE transactions'[s] = p
    BY <1>4, <1>7 DEF TransactionHolds, Of, Stored, ReadLast, Before
  <1> QED
    BY <1>5, <1>6, <1>7

LEMMA TablesStay ==
    ASSUME AuditIInv, UNCHANGED tables
    PROVE  /\ Grows
           /\ EventsHold' /\ KeysAreOne' /\ NoComputationNoEvents' /\ ComputationIsAudited'
  <1>1. EventsHold /\ KeysAreOne /\ NoComputationNoEvents /\ ComputationIsAudited
    BY DEF AuditIInv, AuditIsComplete
  <1>2. events' = events /\ computations' = computations
    BY DEF tables
  <1>3. Grows
    BY <1>2 DEF Grows
  <1>4. EventsHold'
    BY <1>1, <1>2 DEF EventsHold, EventHolds, Of, Stored, ReadLast, Before
  <1>5. KeysAreOne' /\ NoComputationNoEvents'
    BY <1>1, <1>2 DEF KeysAreOne, NoComputationNoEvents, Of, Stored
  <1>6. ComputationIsAudited'
    BY <1>1, <1>2 DEF ComputationIsAudited, Of, Stored
  <1> QED
    BY <1>3, <1>4, <1>5, <1>6

LEMMA SilentIsBacked ==
    ASSUME Silent
    PROVE  AnswersAreBacked' /\ answer' \in Answer \cup {Unanswered}
  BY DEF Silent, AnswersAreBacked, Unanswered

(* A step that moves one transaction and leaves the tables.                *)
LEMMA MoveKeeps ==
    ASSUME AuditIInv, UNCHANGED <<clock, tables>>,
           NEW r \in Transactions, NEW q \in Transaction \cup {NoTransaction},
           TransactionHolds(q), transactions' = [transactions EXCEPT ![r] = q],
           AnswersAreBacked', answer' \in Answer \cup {Unanswered}
    PROVE  AuditIInv'
  <1>1. /\ Grows
        /\ EventsHold' /\ KeysAreOne' /\ NoComputationNoEvents' /\ ComputationIsAudited'
    BY TablesStay
  <1>2. TransactionHolds(q)'
    BY <1>1, TransactionStays DEF AuditIInv
  <1>3. TransactionsHold'
    BY <1>1, <1>2, TransactionsStay
  <1>4. AuditTypeOK'
    BY DEF AuditIInv, AuditTypeOK, tables
  <1> QED
    BY <1>1, <1>3, <1>4 DEF AuditIInv, AuditIsComplete

LEMMA IdleHolds == NoTransaction \notin Transaction /\ TransactionHolds(NoTransaction)
  BY DEF NoTransaction, Transaction, TransactionHolds

(* A transaction that ends without an insert.                              *)
LEMMA CloseKeeps ==
    ASSUME AuditIInv, UNCHANGED <<clock, tables>>, NEW r \in Transactions, Close(r),
           AnswersAreBacked', answer' \in Answer \cup {Unanswered}
    PROVE  AuditIInv'
  BY MoveKeeps, IdleHolds DEF Close

(* An event that is stored is one to answer with.                          *)
LEMMA EventAnswers ==
    ASSUME AuditIInv, UNCHANGED tables, NEW r \in Transactions, NEW e \in Stored,
           transactions[r] \in Transaction, transactions[r].kind # "finalize",
           events[e].kind = transactions[r].kind, events[e].chain = transactions[r].chain,
           events[e].key = transactions[r].key, events[e].payload = transactions[r].payload,
           Serve(r, e)
    PROVE  AnswersAreBacked' /\ answer' \in Answer \cup {Unanswered}
  <1>1. answer' = [to |-> transactions[r], event |-> e] /\ events' = events
    BY DEF Serve, tables
  <1>2. answer' \in Answer
    BY <1>1 DEF Answer, Stored
  <1> QED
    BY <1>1, <1>2 DEF AnswersAreBacked

LEMMA RefusalIsBacked ==
    ASSUME NEW r \in Transactions, transactions[r] \in Transaction, Refuse(r)
    PROVE  AnswersAreBacked' /\ answer' \in Answer \cup {Unanswered}
  <1>1. answer' = [to |-> transactions[r], refused |-> TRUE]
    BY DEF Refuse
  <1> QED
    BY <1>1 DEF Answer, AnswersAreBacked

(* The chain of a computation that is there has an event: its execution.   *)
LEMMA ExecutionOf ==
    ASSUME AuditIInv, NEW c \in Keys, computations[c] # NoComputation
    PROVE  \E e \in Of(c) : /\ events[e].kind = "execute" /\ events[e].key = c
                            /\ events[e].payload = computations[c].input
  <1> PICK executions : executions = {e \in Of(c) : events[e].kind = "execute"}
    OBVIOUS
  <1>1. ComputationIsAudited
    BY DEF AuditIInv, AuditIsComplete
  <1>2. Cardinality(executions) = 1
    BY <1>1 DEF ComputationIsAudited
  <1>3. Cardinality({}) = 0
    BY FS_EmptySet
  <1>4. executions # {}
    BY <1>2, <1>3
  <1> QED
    BY <1>1, <1>4 DEF ComputationIsAudited

-----------------------------------------------------------------------------
(* A transaction begins and reads.                                         *)

LEMMA BeginStep ==
    ASSUME AuditIInv, NEW r \in Transactions, NEW kind \in Kinds, NEW chain \in Chains,
           NEW key \in Keys, NEW payload \in Payloads \cup {Nothing}, NEW ts \in AppTime,
           (kind = "append") = (chain = EventChain),
           kind = "execute" => chain = key /\ payload \in Payloads,
           Begin(r, kind, chain, key, payload, ts)
    PROVE  AuditIInv'
  <1> PICK q : q = [kind |-> kind, chain |-> chain, key |-> key, payload |-> payload,
                    ts |-> ts, start |-> clock, seen |-> Of(chain), event |-> NoId,
                    stage |-> "asked"]
    OBVIOUS
  <1>1. Of(chain) \subseteq Ids /\ clock \in Time
    BY DEF AuditIInv, AuditTypeOK, Of, Stored
  <1>2. q \in Transaction
    BY <1>1 DEF Transaction
  <1>3. TransactionHolds(q)
    BY DEF TransactionHolds
  <1>4. /\ transactions' = [transactions EXCEPT ![r] = q]
        /\ UNCHANGED <<clock, tables>> /\ Silent
    BY DEF Begin
  <1> QED
    BY <1>2, <1>3, <1>4, SilentIsBacked, MoveKeeps

LEMMA BeginSteps ==
    ASSUME AuditIInv, NEW r \in Transactions,
           BeginAppend(r) \/ BeginExecute(r) \/ BeginCheck(r) \/ BeginFinalize(r)
    PROVE  AuditIInv'
  <1>1. /\ clock \in AppTime
        /\ \A at \in AppTime : Stamp(at) \in AppTime
    BY AuditAssumption DEF AuditIInv, AuditTypeOK, Time, AppTime, Stamp
  <1>2. EventChain \in Chains /\ EventChain \notin Keys /\ Keys \subseteq Chains
    BY AuditAssumption DEF Chains
  <1>3. CASE BeginAppend(r)
    <2>1. PICK k \in Keys, p \in Payloads, at \in AppTime :
             Begin(r, "append", EventChain, k, p, Stamp(at))
      BY <1>3 DEF BeginAppend, ServiceClock
    <2>2. PICK ts \in AppTime : ts = Stamp(at)
      BY <1>1
    <2>3. Begin(r, "append", EventChain, k, p, ts)
      BY <2>1, <2>2
    <2> QED
      BY <1>2, <2>3, BeginStep DEF Kinds
  <1>4. PICK ts \in AppTime : ts = clock
    BY <1>1
  <1>5. CASE BeginExecute(r)
    <2>1. PICK k \in Keys, p \in Payloads : Begin(r, "execute", k, k, p, ts)
      BY <1>4, <1>5 DEF BeginExecute
    <2> QED
      BY <1>2, <2>1, BeginStep DEF Kinds
  <1>6. CASE BeginCheck(r)
    <2>1. PICK c, k \in Keys : Begin(r, "check", c, k, Nothing, ts)
      BY <1>4, <1>6 DEF BeginCheck
    <2> QED
      BY <1>2, <2>1, BeginStep DEF Kinds
  <1>7. CASE BeginFinalize(r)
    <2>1. PICK c, k \in Keys : Begin(r, "finalize", c, k, Nothing, ts)
      BY <1>4, <1>7 DEF BeginFinalize
    <2> QED
      BY <1>2, <2>1, BeginStep DEF Kinds
  <1> QED
    BY <1>3, <1>5, <1>6, <1>7

(* An asked transaction that opens has read the latest event of its chain. *)
LEMMA OpenedStep ==
    ASSUME AuditIInv, UNCHANGED <<clock, tables>>, NEW r \in Transactions,
           transactions[r].stage = "asked", Opened(r),
           transactions[r].kind = "execute" =>
              computations[transactions[r].key] = NoComputation,
           transactions[r].kind \in {"check", "finalize"} =>
              computations[transactions[r].chain] # NoComputation
    PROVE  AuditIInv'
  <1> PICK p : p = transactions[r]
    OBVIOUS
  <1>1. p \in Transaction /\ TransactionHolds(p) /\ p.stage = "asked"
    BY DEF AuditIInv, AuditTypeOK, TransactionsHold, NoTransaction
  <1> PICK latest : latest = Latest(p.chain)
    OBVIOUS
  <1> PICK q : q = [p EXCEPT !.stage = "open", !.event = latest]
    OBVIOUS
  <1>2. /\ Of(p.chain) = {} => latest = NoId
        /\ Of(p.chain) # {} =>
              /\ latest \in Of(p.chain)
              /\ \A f \in Of(p.chain) : f = latest \/ Before(f, latest)
    BY LatestFacts DEF AuditIInv
  <1>3. Of(p.chain) \subseteq Ids /\ NoId \notin Ids
    BY AuditAssumption DEF Of, Stored, NoId, Ids
  <1>4. q \in Transaction
    BY <1>1, <1>2, <1>3 DEF Transaction
  <1>5. /\ q.kind = p.kind /\ q.chain = p.chain /\ q.key = p.key /\ q.payload = p.payload
        /\ q.seen = p.seen /\ q.event = latest /\ q.stage = "open"
    BY <1>1 DEF Transaction
  <1>6. ReadLast(q.seen, q.event)
    BY <1>1, <1>2, <1>3, <1>5 DEF ReadLast, TransactionHolds
  <1>7. q.kind = "execute" => q.event = NoId
    <2> SUFFICES ASSUME q.kind = "execute" PROVE q.event = NoId
      OBVIOUS
    <2>1. p.key \in Keys /\ p.chain = p.key /\ computations[p.key] = NoComputation
      BY <1>1, <1>5 DEF TransactionHolds, Transaction
    <2> QED
      BY <1>2, <1>5, <2>1 DEF AuditIInv, NoComputationNoEvents
  <1>8. q.kind \in {"check", "finalize"} => q.event # NoId
    <2> SUFFICES ASSUME q.kind \in {"check", "finalize"} PROVE q.event # NoId
      OBVIOUS
    <2>1. p.chain \in Keys /\ computations[p.chain] # NoComputation
      BY <1>1, <1>5 DEF TransactionHolds, Transaction, Chains
    <2> QED
      BY <1>2, <1>3, <1>5, <2>1, ExecutionOf
  <1>9. TransactionHolds(q)
    BY <1>1, <1>2, <1>5, <1>6, <1>7, <1>8 DEF TransactionHolds
  <1>10. transactions' = [transactions EXCEPT ![r] = q]
    BY DEF Opened
  <1> QED
    BY <1>4, <1>9, <1>10, SilentIsBacked, MoveKeeps DEF Opened

LEMMA OpenSteps ==
    ASSUME AuditIInv, NEW r \in Transactions,
           OpenAppend(r) \/ OpenExecute(r) \/ OpenCheck(r) \/ OpenFinalize(r)
    PROVE  AuditIInv'
  <1> PICK q : q = transactions[r]
    OBVIOUS
  <1>1. q \in Transaction /\ TransactionHolds(q) /\ q.stage = "asked" /\ q.key \in Keys
    BY DEF AuditIInv, AuditTypeOK, TransactionsHold, NoTransaction, Transaction,
           OpenAppend, OpenExecute, OpenCheck, OpenFinalize
  <1>2. CASE OpenAppend(r)
    BY <1>2, OpenedStep DEF OpenAppend
  <1>3. CASE OpenExecute(r) /\ computations[q.key] = NoComputation /\ Opened(r)
    BY <1>3, OpenedStep DEF OpenExecute
  <1>4. CASE /\ OpenExecute(r) /\ computations[q.key].input = q.payload
             /\ Serve(r, EventOf(q.key))
    <2>1. q.kind = "execute" /\ q.chain = q.key /\ q.payload # Nothing
      BY <1>1, <1>4, AuditAssumption DEF OpenExecute, TransactionHolds
    <2>2. computations[q.key] # NoComputation
      BY <1>4, <2>1 DEF NoComputation
    <2>3. PICK e \in Of(q.key) : /\ events[e].kind = "execute" /\ events[e].key = q.key
                                 /\ events[e].payload = q.payload
      BY <1>1, <1>4, <2>2, ExecutionOf
    <2>4. e \in Stored /\ events[e].chain = q.chain
      BY <2>1, <2>3 DEF Of
    <2>5. EventOf(q.key) = e
      BY <2>3, <2>4 DEF EventOf, AuditIInv, KeysAreOne
    <2>6. Serve(r, e)
      BY <1>4, <2>5
    <2>7. UNCHANGED <<clock, tables>>
      BY <1>4 DEF OpenExecute
    <2>8. AnswersAreBacked' /\ answer' \in Answer \cup {Unanswered}
      BY <1>1, <2>1, <2>3, <2>4, <2>6, <2>7, EventAnswers
    <2> QED
      BY <2>6, <2>7, <2>8, CloseKeeps DEF Serve
  <1>5. CASE OpenCheck(r)
    BY <1>5, OpenedStep DEF OpenCheck
  <1>6. CASE OpenFinalize(r) /\ Opened(r)
    BY <1>6, OpenedStep DEF OpenFinalize, FinalizeMayRead
  <1>7. CASE OpenFinalize(r) /\ computations[q.chain].finalized # NoId
    <2> PICK event : event = computations[q.chain].finalized
      OBVIOUS
    <2>1. q.kind = "finalize" /\ q.chain \in Keys /\ computations[q.chain] # NoComputation
      BY <1>1, <1>7 DEF OpenFinalize, FinalizeMayRead, TransactionHolds, Transaction, Chains
    <2>2. event \in Ids
      BY <1>7, <2>1 DEF AuditIInv, AuditTypeOK, Computation
    <2>3. UNCHANGED <<clock, tables>> /\ Serve(r, event)
      BY <1>7 DEF OpenFinalize
    <2>4. answer' = [to |-> q, event |-> event] /\ computations' = computations
      BY <2>3 DEF Serve, tables
    <2>5. AnswersAreBacked' /\ answer' \in Answer \cup {Unanswered}
      BY <1>1, <2>1, <2>2, <2>4 DEF AnswersAreBacked, Answer
    <2> QED
      BY <2>3, <2>5, CloseKeeps DEF Serve
  <1> QED
    BY <1>2, <1>3, <1>4, <1>5, <1>6, <1>7 DEF OpenExecute, OpenFinalize

-----------------------------------------------------------------------------
(* The insert.                                                             *)

LEMMA CheckStep ==
    ASSUME AuditIInv, NEW r \in Transactions, Check(r)
    PROVE  AuditIInv'
  <1> PICK p : p = transactions[r]
    OBVIOUS
  <1>1. p \in Transaction /\ TransactionHolds(p) /\ p.stage = "open"
    BY DEF AuditIInv, AuditTypeOK, TransactionsHold, NoTransaction, Check
  <1>2. UNCHANGED <<clock, tables>>
    BY DEF Check
  <1>3. CASE Accepts(p) /\ Silent /\ transactions' = [transactions EXCEPT ![r].stage = "checked"]
    <2> PICK q : q = [p EXCEPT !.stage = "checked"]
      OBVIOUS
    <2>1. /\ q \in Transaction /\ q.kind = p.kind /\ q.chain = p.chain /\ q.key = p.key
          /\ q.payload = p.payload /\ q.seen = p.seen /\ q.event = p.event /\ q.ts = p.ts
          /\ q.start = p.start /\ q.stage = "checked"
      BY <1>1 DEF Transaction
    <2>2. q.ts <= q.start /\ (q.event # NoId => events[q.event].ts <= q.ts)
      BY <1>1, <1>3, <2>1 DEF Accepts, TransactionHolds
    <2>3. TransactionHolds(q)
      BY <1>1, <2>1, <2>2 DEF TransactionHolds
    <2>4. transactions' = [transactions EXCEPT ![r] = q]
      BY <1>3
    <2> QED
      BY <1>2, <1>3, <2>1, <2>3, <2>4, SilentIsBacked, MoveKeeps
  <1>4. CASE Refuse(r)
    BY <1>1, <1>2, <1>4, RefusalIsBacked, CloseKeeps DEF Refuse
  <1> QED
    BY <1>3, <1>4 DEF Check

LEMMA ClashStep ==
    ASSUME AuditIInv, NEW r \in Transactions, Clash(r)
    PROVE  AuditIInv'
  <1> PICK q : q = transactions[r]
    OBVIOUS
  <1>1. q \in Transaction /\ TransactionHolds(q) /\ q.kind = "append"
    BY DEF AuditIInv, AuditTypeOK, TransactionsHold, NoTransaction, Clash
  <1>2. PICK e \in Stored : SameEvent(e, q) /\ Serve(r, e)
    BY DEF Clash
  <1>3. UNCHANGED <<clock, tables>>
    BY DEF Clash
  <1>4. /\ events[e].kind = q.kind /\ events[e].chain = q.chain
        /\ events[e].key = q.key /\ events[e].payload = q.payload
    BY <1>1, <1>2 DEF SameEvent, TransactionHolds, AuditIInv, EventsHold, EventHolds
  <1>5. AnswersAreBacked' /\ answer' \in Answer \cup {Unanswered}
    BY <1>1, <1>2, <1>3, <1>4, EventAnswers
  <1> QED
    BY <1>2, <1>3, <1>5, CloseKeeps DEF Serve

LEMMA FailStep ==
    ASSUME AuditIInv, NEW r \in Transactions, Fail(r)
    PROVE  AuditIInv'
  BY SilentIsBacked, CloseKeeps DEF Fail

LEMMA TickStep ==
    ASSUME AuditIInv, Tick
    PROVE  AuditIInv'
  <1>1. /\ Grows
        /\ EventsHold' /\ KeysAreOne' /\ NoComputationNoEvents' /\ ComputationIsAudited'
    BY TablesStay DEF Tick
  <1>2. TransactionsHold'
    BY DEF AuditIInv, Tick, tables, TransactionsHold, TransactionHolds, Of, Stored, ReadLast, Before
  <1>3. AuditTypeOK'
    BY SilentIsBacked, AuditAssumption DEF AuditIInv, AuditTypeOK, Tick, tables, Time
  <1> QED
    BY <1>1, <1>2, <1>3, SilentIsBacked DEF Tick, AuditIInv, AuditIsComplete

(* What an insert adds.                                                    *)
LEMMA InsertAdds ==
    ASSUME AuditIInv, NEW r \in Transactions, NEW q, q = transactions[r],
           NEW event \in Ids, Inserts(r, event)
    PROVE  /\ q \in Transaction /\ TransactionHolds(q) /\ q.stage = "checked"
           /\ events'[event] = NewEvent(q) /\ NewEvent(q) \in Event
           /\ Stored' = Stored \cup {event} /\ event \notin Stored
           /\ \A c : Of(c)' = Of(c) \cup (IF c = q.chain THEN {event} ELSE {})
           /\ Grows
  <1>1. q \in Transaction /\ TransactionHolds(q) /\ q.stage = "checked"
    BY DEF AuditIInv, AuditTypeOK, TransactionsHold, NoTransaction, Inserts
  <1>2. q.ts \in Time
    BY <1>1, AuditAssumption DEF TransactionHolds, Transaction, Time, AppTime
  <1>3. NewEvent(q) \in Event
    BY <1>1, <1>2 DEF NewEvent, Transaction, Event
  <1>4. Event \cap {NoEvent} = {}
    BY DEF Event, NoEvent
  <1>5. /\ event \notin Stored /\ events' = [events EXCEPT ![event] = NewEvent(q)]
        /\ DOMAIN events = Ids
    BY DEF Inserts, AuditIInv, AuditTypeOK
  <1>6. \A e \in Ids : events'[e] = IF e = event THEN NewEvent(q) ELSE events[e]
    BY <1>5
  <1>7. Stored' = Stored \cup {event}
    BY <1>3, <1>4, <1>6 DEF Stored
  <1>8. \A c : Of(c)' = Of(c) \cup (IF c = q.chain THEN {event} ELSE {})
    <2> TAKE c
    <2>1. NewEvent(q).chain = q.chain
      BY DEF NewEvent
    <2> QED
      BY <1>3, <1>4, <1>5, <1>6, <2>1 DEF Of, Stored
  <1>9. \A c \in Keys : computations[c] # NoComputation => computations'[c] # NoComputation
    <2> SUFFICES ASSUME NEW c \in Keys, computations[c] # NoComputation
                 PROVE  computations'[c] # NoComputation
      OBVIOUS
    <2>1. computations[c] \in Computation /\ computations[c].input # Nothing
      BY AuditAssumption DEF AuditIInv, AuditTypeOK, Computation
    <2>2. DOMAIN computations = Keys
      BY DEF AuditIInv, AuditTypeOK
    <2>3. CASE q.kind = "execute"
      <3>1. computations[q.key] = NoComputation /\ computations' = Executed(q)
        BY <2>3 DEF Inserts
      <3> QED
        BY <2>2, <3>1 DEF Executed
    <2>4. CASE q.kind = "finalize"
      <3>1. computations' = Finalized(q, event)
        BY <2>4 DEF Inserts
      <3>2. computations'[c].input = computations[c].input
        BY <2>1, <2>2, <3>1 DEF Finalized, Computation
      <3> QED
        BY <2>1, <3>2 DEF NoComputation
    <2>5. CASE q.kind \notin {"execute", "finalize"}
      BY <2>5 DEF Inserts
    <2> QED
      BY <2>3, <2>4, <2>5
  <1>10. Grows
    BY <1>5, <1>6, <1>9 DEF Grows, Stored
  <1> QED
    BY <1>1, <1>3, <1>5, <1>6, <1>7, <1>8, <1>10

LEMMA InsertKeepsEvents ==
    ASSUME AuditIInv, NEW r \in Transactions, NEW event \in Ids, Inserts(r, event)
    PROVE  EventsHold' /\ KeysAreOne'
  <1> PICK q : q = transactions[r]
    OBVIOUS
  <1>1. /\ q \in Transaction /\ TransactionHolds(q) /\ q.stage = "checked"
        /\ events'[event] = NewEvent(q) /\ NewEvent(q) \in Event
        /\ Stored' = Stored \cup {event} /\ event \notin Stored
        /\ \A c : Of(c)' = Of(c) \cup (IF c = q.chain THEN {event} ELSE {})
        /\ Grows
    BY InsertAdds
  <1>2. \A c : Of(c) \subseteq Stored /\ Of(c) \subseteq Of(c)'
    BY <1>1, StoredStays DEF Of
  <1>3. EventsHold
    BY DEF AuditIInv
  <1>4. KeysAreOne'
    <2>1. \A e \in Stored : events'[e].key = events[e].key /\ events[e].key # q.key
      BY <1>1 DEF Inserts, KeyTaken, Grows
    <2>2. events'[event].key = q.key
      BY <1>1 DEF NewEvent
    <2> QED
      BY <1>1, <2>1, <2>2 DEF AuditIInv, KeysAreOne
  <1>5. ASSUME NEW a \in Stored PROVE EventHolds(a)'
    <2> PICK x : x = events[a]
      OBVIOUS
    <2>1. events'[a] = x
      BY <1>1 DEF Grows
    <2>2. /\ x.seen \subseteq Of(x.chain)
          /\ (x.kind = "append") = (x.chain = EventChain)
          /\ x.prev # NoId =>
                /\ x.prev \in Of(x.chain) \ {a} /\ a \notin events[x.prev].seen
                /\ events[x.prev].ts <= x.ts
          /\ ReadLast(x.seen, x.prev)
      BY <1>3 DEF EventsHold, EventHolds
    <2>3. x.prev # NoId => events'[x.prev] = events[x.prev]
      BY <1>1, <1>2, <2>2 DEF Grows
    <2>4. ReadLast(x.seen, x.prev)' /\ Of(x.chain) \subseteq Of(x.chain)'
      BY <1>1, <1>2, <2>2, ReadLastStays
    <2>5. /\ x.seen \subseteq Of(x.chain)'
          /\ x.prev # NoId =>
                /\ x.prev \in Of(x.chain)' \ {a} /\ a \notin events'[x.prev].seen
                /\ events'[x.prev].ts <= x.ts
      BY <2>2, <2>3, <2>4
    <2> QED
      BY <2>1, <2>2, <2>4, <2>5 DEF EventHolds, Of, Stored, ReadLast, Before
  <1>6. EventHolds(event)'
    <2> PICK x : x = NewEvent(q)
      OBVIOUS
    <2>1. /\ x.seen = q.seen /\ x.kind = q.kind /\ x.chain = q.chain /\ x.prev = q.event
          /\ x.ts = q.ts /\ events'[event] = x
      BY <1>1 DEF NewEvent
    <2>2. q.event # NoId =>
             q.event \in Of(q.chain) /\ q.event # event /\ events'[q.event] = events[q.event]
      BY <1>1, <1>2 DEF TransactionHolds, Grows
    <2>3. q.event # NoId => event \notin events[q.event].seen
      BY <1>1, <1>2, <1>3, <2>2 DEF EventsHold, EventHolds
    <2>4. ReadLast(q.seen, q.event)' /\ Of(q.chain) \subseteq Of(q.chain)'
      BY <1>1, <1>2, <2>2, ReadLastStays DEF TransactionHolds
    <2>5. /\ q.seen \subseteq Of(q.chain)'
          /\ q.event # NoId =>
                /\ q.event \in Of(q.chain)' \ {event} /\ event \notin events'[q.event].seen
                /\ events'[q.event].ts <= q.ts
      BY <1>1, <2>2, <2>3, <2>4 DEF TransactionHolds
    <2>6. (q.kind = "append") = (q.chain = EventChain)
      BY <1>1 DEF TransactionHolds
    <2> QED
      BY <2>1, <2>4, <2>5, <2>6 DEF EventHolds, Of, Stored, ReadLast, Before
  <1> QED
    BY <1>1, <1>4, <1>5, <1>6 DEF EventsHold, EventHolds, Of, Stored, ReadLast, Before

LEMMA InsertKeepsComputations ==
    ASSUME AuditIInv, NEW r \in Transactions, NEW event \in Ids, Inserts(r, event)
    PROVE  /\ computations' \in [Keys -> Computation \cup {NoComputation}]
           /\ NoComputationNoEvents' /\ ComputationIsAudited'
           /\ transactions[r].kind = "finalize" =>
                 computations'[transactions[r].chain].finalized = event
  <1> PICK q : q = transactions[r]
    OBVIOUS
  <1>1. /\ q \in Transaction /\ TransactionHolds(q) /\ q.stage = "checked"
        /\ events'[event] = NewEvent(q) /\ NewEvent(q) \in Event
        /\ Stored' = Stored \cup {event} /\ event \notin Stored
        /\ \A c : Of(c)' = Of(c) \cup (IF c = q.chain THEN {event} ELSE {})
        /\ Grows
    BY InsertAdds
  <1>2. /\ computations \in [Keys -> Computation \cup {NoComputation}]
        /\ NoComputationNoEvents /\ ComputationIsAudited
    BY DEF AuditIInv, AuditTypeOK, AuditIsComplete
  <1>3. \A c : Of(c) \subseteq Stored
    BY DEF Of
  <1>4. /\ q.kind \in Kinds /\ q.chain \in Chains /\ q.key \in Keys
        /\ (q.kind = "append") = (q.chain = EventChain)
        /\ q.kind = "execute" => q.chain = q.key /\ q.payload \in Payloads /\ q.event = NoId
        /\ q.kind \in {"check", "finalize"} =>
              q.event # NoId /\ q.chain \in Keys /\ computations[q.chain] # NoComputation
        /\ event # NoId
    BY <1>1, AuditAssumption DEF TransactionHolds, Transaction, Chains, Ids, NoId
  <1>5. /\ events'[event].kind = q.kind /\ events'[event].prev = q.event
        /\ events'[event].key = q.key /\ events'[event].payload = q.payload
    BY <1>1 DEF NewEvent
  <1>6. \A e \in Stored : events'[e] = events[e]
    BY <1>1 DEF Grows
  <1> DEFINE Audited(c) ==
        /\ {e \in Of(c) : events[e].prev = NoId} = {e \in Of(c) : events[e].kind = "execute"}
        /\ Cardinality({e \in Of(c) : events[e].kind = "execute"}) =
              IF computations[c] = NoComputation THEN 0 ELSE 1
        /\ {e \in Of(c) : events[e].kind = "finalize"} = {computations[c].finalized} \ {NoId}
        /\ \A e \in Of(c) : events[e].kind = "execute" =>
              events[e].key = c /\ events[e].payload = computations[c].input
  <1>7. \A c \in Keys : Audited(c)
    BY <1>2 DEF ComputationIsAudited
  <1>8. ASSUME NEW c \in Keys, Of(c)' = Of(c), computations'[c] = computations[c]
        PROVE  Audited(c)'
    <2>1. \A e \in Of(c) : events'[e] = events[e]
      BY <1>3, <1>6
    <2>2. /\ {e \in Of(c)' : events'[e].prev = NoId} = {e \in Of(c) : events[e].prev = NoId}
          /\ {e \in Of(c)' : events'[e].kind = "execute"}
                = {e \in Of(c) : events[e].kind = "execute"}
          /\ {e \in Of(c)' : events'[e].kind = "finalize"}
                = {e \in Of(c) : events[e].kind = "finalize"}
      BY <1>8, <2>1
    <2> QED
      BY <1>7, <1>8, <2>1, <2>2
  <1>9. CASE q.kind = "execute"
    <2> PICK c \in Keys : c = q.key
      BY <1>4
    <2>1. /\ computations[c] = NoComputation /\ Of(c) = {} /\ Of(c)' = {event}
          /\ computations' = [computations EXCEPT ![c] = [input |-> q.payload, finalized |-> NoId]]
      BY <1>1, <1>2, <1>4, <1>9 DEF Inserts, NoComputationNoEvents, Executed
    <2>2. /\ computations'[c] = [input |-> q.payload, finalized |-> NoId]
          /\ \A d \in Keys \ {c} : computations'[d] = computations[d] /\ Of(d)' = Of(d)
      BY <1>1, <1>2, <1>4, <1>9, <2>1
    <2>3. computations'[c] # NoComputation
      BY <1>4, <1>9, <2>2, AuditAssumption DEF NoComputation
    <2>4. /\ {e \in Of(c)' : events'[e].prev = NoId} = {event}
          /\ {e \in Of(c)' : events'[e].kind = "execute"} = {event}
          /\ {e \in Of(c)' : events'[e].kind = "finalize"} = {}
      BY <1>4, <1>5, <1>9, <2>1
    <2>5. Cardinality({event}) = 1
      BY FS_Singleton
    <2>6. Audited(c)'
      BY <1>4, <1>5, <1>9, <2>1, <2>2, <2>3, <2>4, <2>5
    <2>7. ComputationIsAudited'
      <3>1. \A d \in Keys : Audited(d)'
        <4> SUFFICES ASSUME NEW d \in Keys PROVE Audited(d)'
          OBVIOUS
        <4>1. CASE d = c
          BY <2>6, <4>1
        <4>2. CASE d # c
          BY <1>8, <2>2, <4>2
        <4> QED
          BY <4>1, <4>2
      <3> QED
        BY <3>1 DEF ComputationIsAudited
    <2>8. NoComputationNoEvents'
      BY <1>2, <2>2, <2>3 DEF NoComputationNoEvents
    <2>9. computations' \in [Keys -> Computation \cup {NoComputation}]
      BY <1>2, <1>4, <1>9, <2>1 DEF Computation
    <2> QED
      BY <1>9, <2>7, <2>8, <2>9
  <1>10. CASE q.kind = "check"
    <2> PICK c \in Keys : c = q.chain
      BY <1>4, <1>10
    <2>1. /\ computations' = computations /\ Of(c)' = Of(c) \cup {event}
          /\ computations[c] # NoComputation
          /\ \A d \in Keys \ {c} : Of(d)' = Of(d)
      BY <1>1, <1>4, <1>10 DEF Inserts
    <2>2. \A e \in Of(c) : events'[e] = events[e]
      BY <1>3, <1>6
    <2>3. /\ {e \in Of(c)' : events'[e].prev = NoId} = {e \in Of(c) : events[e].prev = NoId}
          /\ {e \in Of(c)' : events'[e].kind = "execute"}
                = {e \in Of(c) : events[e].kind = "execute"}
          /\ {e \in Of(c)' : events'[e].kind = "finalize"}
                = {e \in Of(c) : events[e].kind = "finalize"}
      BY <1>4, <1>5, <1>10, <2>1, <2>2
    <2>4. \A e \in Of(c)' : events'[e].kind = "execute" =>
             events'[e].key = c /\ events'[e].payload = computations[c].input
      <3>1. \A e \in Of(c) : events[e].kind = "execute" =>
               events[e].key = c /\ events[e].payload = computations[c].input
        BY <1>7
      <3> QED
        BY <1>5, <1>10, <2>1, <2>2, <3>1
    <2>5. Audited(c)'
      BY <1>7, <2>1, <2>3, <2>4
    <2>6. ComputationIsAudited'
      <3>1. \A d \in Keys : Audited(d)'
        <4> SUFFICES ASSUME NEW d \in Keys PROVE Audited(d)'
          OBVIOUS
        <4>1. CASE d = c
          BY <2>5, <4>1
        <4>2. CASE d # c
          BY <1>8, <2>1, <4>2
        <4> QED
          BY <4>1, <4>2
      <3> QED
        BY <3>1 DEF ComputationIsAudited
    <2>7. NoComputationNoEvents'
      BY <1>2, <2>1 DEF NoComputationNoEvents
    <2> QED
      BY <1>2, <1>10, <2>1, <2>6, <2>7
  <1>11. CASE q.kind = "finalize"
    <2> PICK c \in Keys : c = q.chain
      BY <1>4, <1>11
    <2>1. /\ computations[c].finalized = NoId /\ computations[c] # NoComputation
          /\ computations' = [computations EXCEPT ![c].finalized = event]
          /\ Of(c)' = Of(c) \cup {event}
          /\ \A d \in Keys \ {c} : Of(d)' = Of(d)
      BY <1>1, <1>4, <1>11 DEF Inserts, Finalized
    <2>2. computations[c] \in Computation
      BY <1>2, <2>1
    <2>3. /\ computations'[c] \in Computation /\ computations'[c].input = computations[c].input
          /\ computations'[c].finalized = event
          /\ \A d \in Keys \ {c} : computations'[d] = computations[d]
      BY <1>2, <2>1, <2>2 DEF Computation
    <2>4. computations'[c] # NoComputation
      BY <1>4, <2>3 DEF NoComputation
    <2>5. \A e \in Of(c) : events'[e] = events[e]
      BY <1>3, <1>6
    <2>6. {e \in Of(c) : events[e].kind = "finalize"} = {}
      BY <1>7, <2>1
    <2>7. /\ {e \in Of(c)' : events'[e].prev = NoId} = {e \in Of(c) : events[e].prev = NoId}
          /\ {e \in Of(c)' : events'[e].kind = "execute"}
                = {e \in Of(c) : events[e].kind = "execute"}
          /\ {e \in Of(c)' : events'[e].kind = "finalize"} = {event}
      BY <1>4, <1>5, <1>11, <2>1, <2>5, <2>6
    <2>8. \A e \in Of(c)' : events'[e].kind = "execute" =>
             events'[e].key = c /\ events'[e].payload = computations'[c].input
      <3>1. \A e \in Of(c) : events[e].kind = "execute" =>
               events[e].key = c /\ events[e].payload = computations[c].input
        BY <1>7
      <3> QED
        BY <1>5, <1>11, <2>1, <2>3, <2>5, <3>1
    <2>9. Audited(c)'
      <3>1. {e \in Of(c) : events[e].prev = NoId} = {e \in Of(c) : events[e].kind = "execute"}
        BY <1>7
      <3>2. Cardinality({e \in Of(c) : events[e].kind = "execute"}) = 1
        BY <1>7, <2>1
      <3>3. Cardinality({e \in Of(c)' : events'[e].kind = "execute"}) = 1
        BY <2>7, <3>2
      <3>4. {event} = {computations'[c].finalized} \ {NoId}
        BY <1>4, <2>3
      <3> QED
        BY <2>4, <2>7, <2>8, <3>1, <3>3, <3>4
    <2>10. ComputationIsAudited'
      <3>1. \A d \in Keys : Audited(d)'
        <4> SUFFICES ASSUME NEW d \in Keys PROVE Audited(d)'
          OBVIOUS
        <4>1. CASE d = c
          BY <2>9, <4>1
        <4>2. CASE d # c
          BY <1>8, <2>1, <2>3, <4>2
        <4> QED
          BY <4>1, <4>2
      <3> QED
        BY <3>1 DEF ComputationIsAudited
    <2>11. NoComputationNoEvents'
      BY <1>2, <2>1, <2>3, <2>4 DEF NoComputationNoEvents
    <2>12. computations' \in [Keys -> Computation \cup {NoComputation}]
      BY <1>2, <2>1, <2>3
    <2> QED
      BY <2>3, <2>10, <2>11, <2>12
  <1>12. CASE q.kind = "append"
    <2>1. /\ computations' = computations /\ \A d \in Keys : Of(d)' = Of(d)
      BY <1>1, <1>4, <1>12, AuditAssumption DEF Inserts
    <2>2. ComputationIsAudited'
      BY <1>8, <2>1 DEF ComputationIsAudited, Of, Stored
    <2>3. NoComputationNoEvents'
      BY <1>2, <2>1 DEF NoComputationNoEvents
    <2> QED
      BY <1>2, <1>12, <2>1, <2>2, <2>3
  <1> QED
    BY <1>4, <1>9, <1>10, <1>11, <1>12 DEF Kinds

LEMMA InsertStep ==
    ASSUME AuditIInv, NEW r \in Transactions, NEW event \in Ids, Inserts(r, event), Close(r),
           Serve(r, event) \/ Silent
    PROVE  AuditIInv'
  <1> PICK q : q = transactions[r]
    OBVIOUS
  <1>1. /\ q \in Transaction /\ TransactionHolds(q) /\ q.stage = "checked"
        /\ events'[event] = NewEvent(q) /\ NewEvent(q) \in Event
        /\ Grows
    BY InsertAdds
  <1>2. EventsHold' /\ KeysAreOne'
    BY InsertKeepsEvents
  <1>3. /\ computations' \in [Keys -> Computation \cup {NoComputation}]
        /\ NoComputationNoEvents' /\ ComputationIsAudited'
        /\ q.kind = "finalize" => computations'[q.chain].finalized = event
    BY InsertKeepsComputations
  <1>4. TransactionHolds(NoTransaction)'
    BY IdleHolds DEF TransactionHolds
  <1>5. TransactionsHold'
    BY <1>1, <1>4, TransactionsStay DEF Close
  <1>6. AnswersAreBacked' /\ answer' \in Answer \cup {Unanswered}
    <2>1. CASE Serve(r, event)
      <3>1. answer' = [to |-> q, event |-> event] /\ answer' \in Answer
        BY <1>1, <2>1 DEF Serve, Answer
      <3> QED
        BY <1>1, <1>3, <3>1 DEF AnswersAreBacked, NewEvent
    <2>2. CASE Silent
      BY <2>2, SilentIsBacked
    <2> QED
      BY <2>1, <2>2
  <1>7. AuditTypeOK'
    <2>1. /\ clock' = clock
          /\ events' = [events EXCEPT ![event] = NewEvent(q)]
          /\ transactions' = [transactions EXCEPT ![r] = NoTransaction]
      BY DEF Inserts, Close
    <2> QED
      BY <1>1, <1>3, <1>6, <2>1 DEF AuditIInv, AuditTypeOK
  <1> QED
    BY <1>2, <1>3, <1>5, <1>6, <1>7 DEF AuditIInv, AuditIsComplete

-----------------------------------------------------------------------------
(* The invariant.                                                          *)

LEMMA AuditInitial == AuditInit => AuditIInv
  <1> SUFFICES ASSUME AuditInit PROVE AuditIInv
    OBVIOUS
  <1>1. Stored = {} /\ \A c : Of(c) = {}
    BY DEF AuditInit, Stored, Of
  <1>2. AuditTypeOK
    BY AuditAssumption DEF AuditInit, AuditTypeOK, Time
  <1>3. TransactionsHold
    BY IdleHolds DEF AuditInit, TransactionsHold
  <1>4. EventsHold /\ KeysAreOne /\ NoComputationNoEvents
    BY <1>1 DEF EventsHold, KeysAreOne, NoComputationNoEvents
  <1>5. Cardinality({}) = 0
    BY FS_EmptySet
  <1>6. ComputationIsAudited
    <2> SUFFICES ASSUME NEW c \in Keys
                 PROVE  /\ {e \in {} : events[e].prev = NoId}
                              = {e \in {} : events[e].kind = "execute"}
                        /\ Cardinality({e \in {} : events[e].kind = "execute"}) =
                              IF computations[c] = NoComputation THEN 0 ELSE 1
                        /\ {e \in {} : events[e].kind = "finalize"}
                              = {computations[c].finalized} \ {NoId}
      BY <1>1 DEF ComputationIsAudited
    <2>1. \A P : {e \in {} : events[e].kind = P} = {}
      OBVIOUS
    <2>2. computations[c] = NoComputation /\ computations[c].finalized = NoId
      BY DEF AuditInit, NoComputation
    <2> QED
      BY <1>5, <2>1, <2>2
  <1>7. AnswersAreBacked
    BY DEF AuditInit, AnswersAreBacked, Unanswered
  <1> QED
    BY <1>2, <1>3, <1>4, <1>6, <1>7 DEF AuditIInv, AuditIsComplete

LEMMA AuditStep == AuditIInv /\ [AuditNext]_auditVars => AuditIInv'
  <1> SUFFICES ASSUME AuditIInv, [AuditNext]_auditVars PROVE AuditIInv'
    OBVIOUS
  <1>1. CASE Tick
    BY <1>1, TickStep
  <1>2. ASSUME NEW r \in Transactions,
               BeginAppend(r) \/ BeginExecute(r) \/ BeginCheck(r) \/ BeginFinalize(r)
        PROVE  AuditIInv'
    BY <1>2, BeginSteps
  <1>3. ASSUME NEW r \in Transactions,
               OpenAppend(r) \/ OpenExecute(r) \/ OpenCheck(r) \/ OpenFinalize(r)
        PROVE  AuditIInv'
    BY <1>3, OpenSteps
  <1>4. ASSUME NEW r \in Transactions, Check(r) PROVE AuditIInv'
    BY <1>4, CheckStep
  <1>5. ASSUME NEW r \in Transactions, Commit(r) PROVE AuditIInv'
    BY <1>5, InsertStep DEF Commit, Serve
  <1>6. ASSUME NEW r \in Transactions, CommitUnseen(r) PROVE AuditIInv'
    BY <1>6, InsertStep DEF CommitUnseen
  <1>7. ASSUME NEW r \in Transactions, Clash(r) PROVE AuditIInv'
    BY <1>7, ClashStep
  <1>8. ASSUME NEW r \in Transactions, Fail(r) PROVE AuditIInv'
    BY <1>8, FailStep
  <1>9. CASE UNCHANGED auditVars
    <2>1. UNCHANGED <<clock, tables>> /\ transactions' = transactions /\ answer' = answer
      BY <1>9 DEF auditVars, tables
    <2>2. /\ EventsHold' /\ KeysAreOne' /\ NoComputationNoEvents' /\ ComputationIsAudited'
      BY <2>1, TablesStay
    <2>3. TransactionsHold'
      BY <2>1 DEF AuditIInv, tables, TransactionsHold, TransactionHolds, Of, Stored, ReadLast,
                  Before
    <2>4. AuditTypeOK' /\ AnswersAreBacked'
      BY <2>1 DEF AuditIInv, AuditIsComplete, AuditTypeOK, AnswersAreBacked, tables
    <2> QED
      BY <2>2, <2>3, <2>4 DEF AuditIInv, AuditIsComplete
  <1> QED
    BY <1>1, <1>2, <1>3, <1>4, <1>5, <1>6, <1>7, <1>8, <1>9 DEF AuditNext

(* AuditIInv holds in every reachable state.                               *)
THEOREM AuditInductive == AuditSpec => []AuditIInv
  BY AuditInitial, AuditStep, PTL DEF AuditSpec

(* The types of the audit table, the computations and the transactions.    *)
THEOREM AuditTypes == AuditSpec => []AuditTypeOK
  <1>1. AuditIInv => AuditTypeOK
    BY DEF AuditIInv
  <1> QED
    BY <1>1, AuditInductive, PTL

(* A computation is stored with the event of its execution and finalized   *)
(* by one event, and a request answered with success is answered with what *)
(* is stored under its own key and payload.                                *)
THEOREM AuditIsCompleteHolds == AuditSpec => []AuditIsComplete
  <1>1. AuditIInv => AuditIsComplete
    BY DEF AuditIInv
  <1> QED
    BY <1>1, AuditInductive, PTL

(* Every event names an earlier one of its chain, and the chain forks only *)
(* where transactions overlapped or timestamps are equal.                  *)
THEOREM ForksNeedOverlapHolds == AuditSpec => []ForksNeedOverlap
  <1>1. ASSUME AuditIInv, NEW a \in Stored, NEW b \in Of(events[a].chain) \ {a},
               events[b].prev = events[a].prev, a \in events[b].seen
        PROVE  events[a].prev # NoId /\ events[events[a].prev].ts = events[a].ts
    <2> PICK p : p = events[a].prev
      OBVIOUS
    <2>1. b \in Stored /\ EventHolds(a) /\ EventHolds(b)
      BY <1>1 DEF Of, AuditIInv, EventsHold
    <2>2. p # NoId /\ (a = p \/ Before(a, p))
      BY <1>1, <2>1 DEF EventHolds, ReadLast
    <2>3. p \in Of(events[a].chain) \ {a} /\ events[p].ts <= events[a].ts
      BY <2>1, <2>2 DEF EventHolds
    <2>4. events[a] \in Event /\ events[p] \in Event
      BY <1>1, <2>3 DEF AuditIInv, AuditTypeOK, Of, Stored
    <2>5. events[a].ts \in Int /\ events[p].ts \in Int
      BY <2>4 DEF Event, Time
    <2> QED
      BY <2>2, <2>3, <2>5 DEF Before
  <1>2. ASSUME AuditIInv PROVE ForksNeedOverlap
    <2> SUFFICES ASSUME NEW a \in Stored
                 PROVE  /\ events[a].prev # NoId =>
                              /\ events[a].prev \in Of(events[a].chain)
                              /\ a \notin events[events[a].prev].seen
                              /\ events[events[a].prev].ts <= events[a].ts
                        /\ \A b \in Of(events[a].chain) \ {a} :
                              events[b].prev = events[a].prev =>
                                 \/ Overlap(a, b)
                                 \/ /\ events[a].prev # NoId
                                    /\ events[events[a].prev].ts \in {events[a].ts, events[b].ts}
      BY DEF ForksNeedOverlap
    <2>1. EventHolds(a)
      BY <1>2 DEF AuditIInv, EventsHold
    <2>2. ASSUME NEW b \in Of(events[a].chain) \ {a}, events[b].prev = events[a].prev,
                 ~ Overlap(a, b)
          PROVE  /\ events[a].prev # NoId
                 /\ events[events[a].prev].ts \in {events[a].ts, events[b].ts}
      <3>1. CASE a \in events[b].seen
        BY <1>1, <1>2, <2>2, <3>1
      <3>2. CASE b \in events[a].seen
        <4>1. b \in Stored /\ a \in Of(events[b].chain) \ {b}
          BY <2>2 DEF Of
        <4> QED
          BY <1>1, <1>2, <2>2, <3>2, <4>1
      <3> QED
        BY <2>2, <3>1, <3>2 DEF Overlap
    <2> QED
      BY <2>1, <2>2 DEF EventHolds
  <1> QED
    BY <1>2, AuditInductive, PTL
=============================================================================
